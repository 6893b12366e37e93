----------------------------- MODULE Governance -----------------------------
(***************************************************************************)
(* What governed execution promises, whatever loop drives it: a tool runs  *)
(* only after the identity, the policy, the humans whose approval is       *)
(* required and the cost limit have all let that very call through.        *)
(*                                                                         *)
(* One call at a time is under consideration: `case` is Idle or            *)
(* [tool, effect, yes], the policy's effect for the call and how often a   *)
(* human approved it.                                                      *)
(***************************************************************************)
EXTENDS Integers, Sequences, Policy

CONSTANTS
  Agents,     (* agents as configured: tools, scopes, rules, limits          *)
  Clocks,     (* wall-clock readings the time conditions can tell apart      *)
  LLMCosts    (* what one completion can cost                                *)

VARIABLES agent, now, spent, case, ran, open

vars == <<agent, now, spent, case, ran, open>>

Idle == [tool |-> <<>>, effect |-> "none", yes |-> 0]

\* Approvals the call needs: one if the policy escalates it, one if the tool
\* is registered with requires_approval.
Needed(a, call) == (IF call.effect = "escalate" THEN 1 ELSE 0)
                   + (IF a.specs[call.tool].approval THEN 1 ELSE 0)

\* A call that may run when the task has spent `before`.
Authorised(a, call, before) ==
  /\ call.tool \in DOMAIN a.specs
  /\ CheckPermissions(a.scopes, a.specs[call.tool].scopes)
  /\ call.effect \in {"allow", "escalate"}
  /\ call.yes >= Needed(a, call)
  /\ CheckCost(a.limits, before, a.specs[call.tool].cost) = "allow"

Init ==
  /\ agent \in Agents /\ now \in Clocks
  /\ spent = 0 /\ case = Idle /\ ran = <<>> /\ open = TRUE

Think ==
  /\ open /\ case = Idle
  /\ \E c \in LLMCosts : spent' = spent + c
  /\ UNCHANGED <<agent, now, case, ran, open>>

Consider ==
  /\ open /\ case = Idle
  /\ \E t \in DOMAIN agent.specs :
       /\ CheckPermissions(agent.scopes, agent.specs[t].scopes)
       /\ LET e == Evaluate(agent.rules, t, <<>>, now)
          IN  e # "deny" /\ case' = [tool |-> t, effect |-> e, yes |-> 0]
  /\ UNCHANGED <<agent, now, spent, ran, open>>

Approve ==
  /\ open /\ case # Idle /\ agent.approver
  /\ case' = [case EXCEPT !.yes = @ + 1]
  /\ UNCHANGED <<agent, now, spent, ran, open>>

\* A tool that raises has run but is not charged.
Run ==
  /\ open /\ case # Idle
  /\ Authorised(agent, case, spent)
  /\ \E ok \in BOOLEAN :
       /\ ran' = Append(ran, [call |-> case, before |-> spent, ok |-> ok])
       /\ spent' = IF ok THEN spent + agent.specs[case.tool].cost ELSE spent
  /\ case' = Idle
  /\ UNCHANGED <<agent, now, open>>

Drop ==
  /\ case' = Idle
  /\ open' \in (IF open THEN BOOLEAN ELSE {FALSE})
  /\ UNCHANGED <<agent, now, spent, ran>>

Tick == now' \in Clocks /\ UNCHANGED <<agent, spent, case, ran, open>>

Next == Think \/ Consider \/ Approve \/ Run \/ Drop \/ Tick

Spec == Init /\ [][Next]_vars

=============================================================================
