------------------------------ MODULE SampleAgents ------------------------------
(* The agents the small instances of GovernedTask and GovernedStream run:   *)
(* three tools, an unregistered name and five agents, set up as the code    *)
(* does it, that between them reach every branch of every gate.             *)
EXTENDS Integers, TLC, AgentSetup

Read == <<"db", "read">>
Mail == <<"mail", "send">>
Pay  == <<"pay", "out">>
Ghost == <<"no", "tool">>

Tools ==
  << DecorateTool([name |-> Read, parameters |-> {}],
       [scopes |-> {<<"db", "read">>}, cost_estimate_usd |-> 1]),
     DecorateTool([name |-> Mail, parameters |-> {}],
       [scopes |-> {<<"mail", "send">>}, requires_approval |-> TRUE, cost_estimate_usd |-> 2]),
     DecorateTool([name |-> Pay, parameters |-> {}],
       [scopes |-> {<<"pay", "out">>, <<"db", "read">>}, cost_estimate_usd |-> 4]) >>

When(a, e, c) == [action |-> a, effect |-> e, conditions |-> c]
Until(t) == {[key |-> "time_before", value |-> t]}
HighRisk == {[key |-> "risk_level", value |-> "high"]}

PolicyOf(rules, cost, steps) ==
  ParsePolicyFile("sample", [rules |-> rules,
    limits |-> [max_cost_per_task_usd |-> cost, max_steps_per_task |-> steps]])

Configure(args, policy, approver) == Gated(NewAgent(args, policy, 500), 3, approver)
AllGranted == [tools |-> Tools, scopes |-> {<<"*">>}]

\* Everything granted; mail is escalated and needs approval too.
Supervised ==
  Configure(AllGranted,
    PolicyOf(<<When(<<"mail", "*">>, "escalate", {}), When(<<"*">>, "allow", {})>>, 5, 3), TRUE)
\* No callback; writes only until noon, the pay scope missing.
Unattended ==
  Configure([tools |-> Tools, scopes |-> {<<"db", "*">>, <<"mail", "send">>}],
    PolicyOf(<<When(<<"mail", "send">>, "allow", Until(720)), When(<<"*", "read">>, "allow", {}),
               When(<<"pay", "out">>, "escalate", {}), When(<<"task", "execute">>, "allow", {})>>,
             3, 3), FALSE)
\* May not run tasks at all: the only rule asks for a context nobody passes.
Barred ==
  Configure(AllGranted, PolicyOf(<<When(<<"*">>, "allow", HighRisk)>>, 5, 3), TRUE)
\* An unknown effect is skipped; no step is allowed.
Stepless ==
  Configure(AllGranted,
    PolicyOf(<<When(<<"*">>, "audit", {}), When(<<"*">>, "allow", {})>>, 5, 0), FALSE)
\* Its policy was not found.
Unconfigured == Configure([tools |-> Tools], LoadPolicy(<<>>, "sample"), TRUE)

MCAgents == {Supervised, Unattended, Barred, Stepless, Unconfigured}
MCClocks == {[time |-> 540, day |-> "monday"], [time |-> 840, day |-> "monday"]}
MCLLMCosts == {0, 4}
MCNames == {Ghost, Read, Mail, Pay}
MCResponses == {<<>>, <<Ghost, Read>>, <<Mail>>, <<Mail, Mail>>, <<Read, Pay>>}

=============================================================================
