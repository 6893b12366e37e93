-------------------------- MODULE MCGovernedStream --------------------------
(* Small instance of GovernedStream, with the agents of GovernedTask's.     *)
EXTENDS GovernedStream, SampleAgents

\* No tool demands approval: what the stream's four gates do guarantee.
PlainAgents ==
  {[a EXCEPT !.specs = [t \in DOMAIN a.specs |-> [a.specs[t] EXCEPT !.approval = FALSE]]] :
     a \in MCAgents}

\* "Same governance as execute_task, but emits events for real-time UIs."
\* (runtime.py:423).  Of its fifth gate: a tool with requires_approval runs only
\* when a human said yes to it, as often as execute_task asks.
ApprovalsGiven ==
  \A i \in DOMAIN ran : ran[i].call.yes >= G!Needed(agent, ran[i].call)
=============================================================================
