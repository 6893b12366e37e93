----------------------------- MODULE Compliance -----------------------------
(***************************************************************************)
(* The compliance report of an agent (governance/checks.py) against the    *)
(* registered frameworks (governance/frameworks.py).  An agent is what     *)
(* NewAgent of AgentSetup builds; a requirement is [id, level,             *)
(* capability].  Names, messages and remediations are left out.            *)
(***************************************************************************)
EXTENDS Integers, Sequences, FiniteSets, SequencesExt

-----------------------------------------------------------------------------
(* governance/frameworks.py                                                *)

Requirement(id, level, capability) == [id |-> id, level |-> level, capability |-> capability]

EUAIAct == <<
  Requirement("EU-AIA-ART5",     "all",  "policy.prohibited_practice_check"),
  Requirement("EU-AIA-ART52",    "all",  "governance.transparency_disclosure"),
  Requirement("EU-AIA-ART51-56", "all",  "audit.model_documentation"),
  Requirement("EU-AIA-ART9",     "high", "policy.risk_management"),
  Requirement("EU-AIA-ART10",    "high", "governance.data_governance"),
  Requirement("EU-AIA-ART11",    "high", "audit.technical_documentation"),
  Requirement("EU-AIA-ART12",    "high", "audit.immutable_log"),
  Requirement("EU-AIA-ART13",    "high", "governance.deployer_transparency"),
  Requirement("EU-AIA-ART14",    "high", "governance.human_oversight"),
  Requirement("EU-AIA-ART15",    "high", "governance.robustness"),
  Requirement("EU-AIA-ART20",    "high", "governance.kill_switch") >>

NistAIRMF == <<
  Requirement("NIST-GOV-1",    "all", "policy.engine"),
  Requirement("NIST-GOV-1.2",  "all", "policy.risk_management"),
  Requirement("NIST-GOV-4",    "all", "governance.organizational_controls"),
  Requirement("NIST-MAP-1",    "all", "policy.risk_classification"),
  Requirement("NIST-MAP-3",    "all", "finops.cost_tracking"),
  Requirement("NIST-MEAS-2",   "all", "audit.immutable_log"),
  Requirement("NIST-MEAS-2.6", "all", "finops.monitoring"),
  Requirement("NIST-MAN-1",    "all", "governance.kill_switch"),
  Requirement("NIST-MAN-2",    "all", "policy.risk_management"),
  Requirement("NIST-MAN-4",    "all", "audit.risk_documentation") >>

Registered == {"eu-ai-act", "nist-ai-rmf"}
FrameworkOf(id) == IF id = "eu-ai-act" THEN EUAIAct ELSE NistAIRMF

\* level_hierarchy.get(level, default).
Rank(level, default) ==
  CASE level = "minimal" -> 0 [] level = "limited" -> 1 [] level = "high" -> 2
    [] OTHER -> default

\* A risk level nobody knows counts as limited, a requirement's as minimal.
AppliesAt(req, risk) == req.level = "all" \/ Rank(req.level, 0) <= Rank(risk, 1)

RequirementsForLevel(reqs, risk) == SelectSeq(reqs, LAMBDA req : AppliesAt(req, risk))

-----------------------------------------------------------------------------
(* governance/checks.py: the check of each capability.                     *)

CheckTransparency(agent) == IF agent.policy.governance.transparency THEN "pass" ELSE "fail"

CheckHumanOversight(agent) ==
  IF agent.risk # "high" THEN "not_applicable"
  ELSE IF agent.policy.governance.oversight THEN "pass" ELSE "fail"

CheckAuditLog(agent) ==
  IF agent.policy.governance.logInputs /\ agent.policy.governance.logOutputs
  THEN "pass" ELSE "warning"

\* The deployment's setting, which nothing but this check reads.
CheckKillSwitch(enabled) == IF enabled THEN "pass" ELSE "fail"

CheckPolicyEngine(agent) ==
  IF agent.policy.name # "_restrictive_default" THEN "pass" ELSE "warning"

CheckRiskClassification(agent) ==
  IF agent.risk \in {"minimal", "limited", "high"} THEN "pass" ELSE "warning"

CheckRiskManagement(agent) ==
  IF agent.risk = "high" /\ ~agent.policy.governance.assessment THEN "fail" ELSE "pass"

\* _CAPABILITY_CHECKS.get(capability, _default_check).
CheckCapability(capability, agent, killSwitch) ==
  CASE capability = "governance.transparency_disclosure" -> CheckTransparency(agent)
    [] capability = "governance.human_oversight"         -> CheckHumanOversight(agent)
    [] capability = "audit.immutable_log"                -> CheckAuditLog(agent)
    [] capability = "governance.kill_switch"             -> CheckKillSwitch(killSwitch)
    [] capability = "policy.engine"                      -> CheckPolicyEngine(agent)
    [] capability = "policy.risk_classification"         -> CheckRiskClassification(agent)
    [] capability = "finops.cost_tracking"               -> "pass"
    [] capability = "policy.risk_management"             -> CheckRiskManagement(agent)
    [] OTHER                                             -> "warning"

\* check_compliance: the frameworks in the order they are named, all of them
\* when none is; one nobody registered is passed over.
CheckCompliance(agent, named, killSwitch) ==
  LET ids == IF named = <<>> THEN <<"eu-ai-act", "nist-ai-rmf">> ELSE named
      itemsOf(id) ==
        IF id \notin Registered THEN <<>>
        ELSE LET reqs == RequirementsForLevel(FrameworkOf(id), agent.risk)
             IN [i \in DOMAIN reqs |->
                   [framework |-> id, requirement |-> reqs[i].id,
                    status |-> CheckCapability(reqs[i].capability, agent, killSwitch)]]
  IN FlattenSeq([i \in DOMAIN ids |-> itemsOf(ids[i])])

-----------------------------------------------------------------------------
(* ComplianceReport.                                                       *)

Count(items, status) == Cardinality({i \in DOMAIN items : items[i].status = status})
Applicable(items) == Len(items) - Count(items, "not_applicable")

\* The score in halves: a pass counts two of them, a warning one, of two for
\* each item that applies; a report where none does is perfect.
ScorePoints(items) ==
  IF Applicable(items) = 0 THEN 2 ELSE 2 * Count(items, "pass") + Count(items, "warning")
ScoreOutOf(items) == IF Applicable(items) = 0 THEN 2 ELSE 2 * Applicable(items)
=============================================================================
