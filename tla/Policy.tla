------------------------------- MODULE Policy -------------------------------
(***************************************************************************)
(* The decisions every gate of the runtime takes: scope checks of          *)
(* core/identity.py and rule, cost and step decisions of core/policy.py.   *)
(*                                                                         *)
(* A colon-separated name ("tickets:read") is the sequence of its segments *)
(* (<<"tickets", "read">>), which is what the code's prefix and suffix     *)
(* tests distinguish.  A rule is [action, effect, conditions]; a clock is  *)
(* [time, day], time being minutes since midnight UTC.                     *)
(***************************************************************************)
EXTENDS Integers, Sequences, SequencesExt

Star == "*"
Effects == {"allow", "deny", "escalate"}

(***************************************************************************)
(* core/identity.py                                                        *)
(***************************************************************************)

HasScope(held, required) ==
  \/ <<Star>> \in held
  \/ required \in held
  \/ <<Head(required), Star>> \in held

CheckPermissions(held, required) == \A s \in required : HasScope(held, s)

(***************************************************************************)
(* core/policy.py: patterns and conditions                                 *)
(***************************************************************************)

\* "*" matches all; a trailing ":*" is tested before a leading "*:".
ActionMatches(pattern, action) ==
  IF pattern = <<Star>> THEN TRUE
  ELSE IF Len(pattern) > 1 /\ Last(pattern) = Star
       THEN IsPrefix(Front(pattern), action)
  ELSE IF Len(pattern) > 1 /\ Head(pattern) = Star
       THEN IsSuffix(Tail(pattern), action)
  ELSE pattern = action

\* context.get(k): a missing key reads as None.
Lookup(context, k) == IF k \in DOMAIN context THEN context[k] ELSE "None"

\* One condition [key, value] of a rule; an unknown key is ignored (true).
Holds(c, context, clock) ==
  CASE c.key = "time_after"    -> clock.time >= c.value
    [] c.key = "time_before"   -> clock.time < c.value
    [] c.key = "day_of_week"   -> clock.day \in c.value
    [] c.key = "context_match" ->
         \A k \in DOMAIN c.value : Lookup(context, k) = c.value[k]
    [] c.key = "risk_level"    -> Lookup(context, "risk_level") = c.value
    [] OTHER                   -> TRUE

\* A rule decides an action when it matches, its conditions hold and its
\* effect is one evaluate knows.
Decides(rule, action, context, clock) ==
  /\ ActionMatches(rule.action, action)
  /\ \A c \in rule.conditions : Holds(c, context, clock)
  /\ rule.effect \in Effects

\* Policy.evaluate: the first rule that decides wins; none means deny.
Evaluate(rules, action, context, clock) ==
  LET i == SelectInSeq(rules, LAMBDA r : Decides(r, action, context, clock))
  IN  IF i = 0 THEN "deny" ELSE rules[i].effect

\* Mutant of CheckCost: the call's own cost is left out of the sum.
CheckCostSpentOnly(limits, spent, additional) ==
  IF spent > limits.cost THEN "deny"
  ELSE IF additional > limits.approvalAbove THEN "escalate" ELSE "allow"

\* Amounts are whole cents; approvalAbove is the deployment-wide
\* settings.require_human_approval_above_usd.
CheckCost(limits, spent, additional) ==
  IF spent + additional > limits.cost THEN "deny"
  ELSE IF additional > limits.approvalAbove THEN "escalate"
  ELSE "allow"

CheckStepLimit(limits, steps) == IF steps >= limits.steps THEN "deny" ELSE "allow"

=============================================================================
