--------------------------- MODULE MCGovernedTask ---------------------------
(* Small instance of GovernedTask, with the checks of how agents are set up. *)
EXTENDS GovernedTask, SampleAgents, ConfigurationChecks

=============================================================================
