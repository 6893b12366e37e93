--------------------------- MODULE GovernedStream ---------------------------
(***************************************************************************)
(* One call of execute_task_stream (core/runtime.py): the streaming twin   *)
(* of execute_task.  It yields events instead of writing audit entries,    *)
(* has no approval gate for tools registered with requires_approval, and   *)
(* its consumer may stop iterating at any yield or await.                  *)
(***************************************************************************)
EXTENDS Integers, Sequences, Policy

CONSTANTS Names, Agents, Clocks, LLMCosts, Responses   (* as in GovernedTask *)

\* An agent's limits and costs are whole cents, its rules a list.
ASSUME AgentsAssumption ==
  \A a \in Agents :
    /\ {a.limits.cost, a.limits.steps, a.limits.approvalAbove} \subseteq Nat
    /\ a.approver \in BOOLEAN /\ a.rules \in Seq(ToSet(a.rules))
    /\ \A t \in DOMAIN a.specs : a.specs[t].cost \in Nat /\ a.specs[t].approval \in BOOLEAN

\* A completion costs something or nothing and asks for a list of calls.
ASSUME EnvironmentAssumption == LLMCosts \subseteq Nat /\ Responses \subseteq Seq(Names)

VARIABLES agent, now, pc, step, spent, calls, at, replies, effect, yes, ran,
          events,     (* StreamEvents delivered: [event, tool]                 *)
          result      (* none | completed | error | abandoned                  *)

config == <<agent, now>>
turn   == <<calls, at, replies>>
ruling == <<effect, yes>>
vars   == <<agent, now, pc, step, spent, calls, at, replies, effect, yes, ran, events, result>>

NoTool == <<>>
TaskExecute == <<"task", "execute">>
Tool == calls[at]
ToolSpec == agent.specs[Tool]

Init ==
  /\ agent \in Agents /\ now \in Clocks
  /\ pc = "start" /\ step = 0 /\ spent = 0
  /\ calls = <<>> /\ at = 1 /\ replies = <<>>
  /\ effect = "none" /\ yes = 0
  /\ ran = <<>> /\ events = <<>> /\ result = "none"

Yield(event, tool) == events' = Append(events, [event |-> event, tool |-> tool])
Return(status) == pc' = "done" /\ result' = status

\* task_error is the last event of every unsuccessful stream.
Fail == Yield("task_error", NoTool) /\ Return("error")

NextCall ==
  /\ replies' = Append(replies, Tool)
  /\ at' = at + 1
  /\ pc' = IF at < Len(calls) THEN "gates" ELSE "loop"
  /\ UNCHANGED <<calls, result>>

Refuse == Yield("tool_denied", Tool) /\ NextCall

-----------------------------------------------------------------------------

Start ==
  /\ pc = "start"
  /\ Yield("task_start", NoTool)
  /\ pc' = IF Evaluate(agent.rules, TaskExecute, <<>>, now) = "allow" THEN "loop" ELSE "fail"
  /\ UNCHANGED <<config, step, spent, turn, ruling, ran, result>>

\* The while condition, step_start and the step limit.
BeginStep ==
  /\ pc = "loop"
  /\ IF step < agent.limits.steps
     THEN /\ step' = step + 1 /\ Yield("step_start", NoTool)
          /\ pc' = IF CheckStepLimit(agent.limits, step + 1) = "allow" THEN "llm" ELSE "fail"
          /\ UNCHANGED result
     ELSE Fail /\ UNCHANGED step
  /\ UNCHANGED <<config, spent, turn, ruling, ran>>

\* Denied task, step limit.
TaskError ==
  /\ pc = "fail"
  /\ Fail
  /\ UNCHANGED <<config, step, spent, turn, ruling, ran>>

Completion ==
  /\ pc = "llm"
  /\ \E r \in Responses, c \in LLMCosts :
       /\ calls' = r /\ spent' = spent + c
       /\ IF r = <<>> THEN Yield("final_answer", NoTool) /\ pc' = "answer"
                      ELSE pc' = "gates" /\ UNCHANGED events
  /\ at' = 1 /\ replies' = <<>>
  /\ UNCHANGED <<config, step, ruling, ran, result>>

CompletionFails ==
  /\ pc = "llm"
  /\ Fail
  /\ UNCHANGED <<config, step, spent, turn, ruling, ran>>

TaskComplete ==
  /\ pc = "answer"
  /\ Yield("task_complete", NoTool) /\ Return("completed")
  /\ UNCHANGED <<config, step, spent, turn, ruling, ran>>

\* Gates 1 and 2.
UnknownTool ==
  /\ pc = "gates" /\ Tool \notin DOMAIN agent.specs
  /\ Refuse
  /\ UNCHANGED <<config, step, spent, ruling, ran>>

LacksPermission ==
  /\ pc = "gates" /\ Tool \in DOMAIN agent.specs
  /\ ~CheckPermissions(agent.scopes, ToolSpec.scopes)
  /\ Refuse
  /\ UNCHANGED <<config, step, spent, ruling, ran>>

\* Gate 3.
PolicyGate ==
  /\ pc = "gates" /\ Tool \in DOMAIN agent.specs
  /\ CheckPermissions(agent.scopes, ToolSpec.scopes)
  /\ effect' = Evaluate(agent.rules, Tool, <<>>, now) /\ yes' = 0
  /\ CASE effect' = "allow" -> pc' = "budget" /\ UNCHANGED <<turn, events, result>>
       [] effect' = "escalate" /\ agent.approver ->
            pc' = "escalated" /\ UNCHANGED <<turn, events, result>>
       [] OTHER -> Refuse
  /\ UNCHANGED <<config, step, spent, ran>>

\* Mutant of Escalation: the callback's answer is not looked at.
EscalationUnheeded ==
  /\ pc = "escalated" /\ pc' = "budget"
  /\ UNCHANGED <<config, step, spent, turn, ruling, ran, events, result>>

Escalation ==
  /\ pc = "escalated"
  /\ \/ pc' = "budget" /\ yes' = yes + 1 /\ UNCHANGED <<turn, events, result>>
     \/ Refuse /\ UNCHANGED yes
     \/ Fail /\ UNCHANGED <<turn, yes>>
  /\ UNCHANGED <<config, step, spent, effect, ran>>

\* Mutant of BudgetGate: the tool starts unannounced.
BudgetGateSilent ==
  /\ pc = "budget"
  /\ IF CheckCost(agent.limits, spent, ToolSpec.cost) = "allow"
     THEN pc' = "exec" /\ UNCHANGED <<turn, events, result>> ELSE Refuse
  /\ UNCHANGED <<config, step, spent, ruling, ran>>

\* Gate 4, then the tool_call event; there is no Gate 5.
BudgetGate ==
  /\ pc = "budget"
  /\ IF CheckCost(agent.limits, spent, ToolSpec.cost) = "allow"
     THEN Yield("tool_call", Tool) /\ pc' = "exec" /\ UNCHANGED <<turn, result>>
     ELSE Refuse
  /\ UNCHANGED <<config, step, spent, ruling, ran>>

ToolRuns ==
  /\ pc = "exec"
  /\ \E ok \in BOOLEAN :
       /\ ran' = Append(ran, [call |-> [tool |-> Tool, effect |-> effect, yes |-> yes],
                              before |-> spent, ok |-> ok])
       /\ spent' = IF ok THEN spent + ToolSpec.cost ELSE spent
  /\ Yield("tool_result", Tool)
  /\ NextCall
  /\ UNCHANGED <<config, step, ruling>>

\* The client disconnects: CancelledError or GeneratorExit is not an
\* Exception, so no event follows.
Disconnect ==
  /\ pc # "done"
  /\ Return("abandoned")
  /\ UNCHANGED <<config, step, spent, turn, ruling, ran, events>>

Tick ==
  /\ pc # "done"
  /\ now' \in Clocks \ {now}
  /\ UNCHANGED <<agent, pc, step, spent, turn, ruling, ran, events, result>>

Proceed ==
  \/ Start \/ BeginStep \/ TaskError \/ Completion \/ CompletionFails \/ TaskComplete
  \/ UnknownTool \/ LacksPermission \/ PolicyGate \/ Escalation \/ BudgetGate \/ ToolRuns

Returned == pc = "done" /\ UNCHANGED vars

Next == Proceed \/ Disconnect \/ Tick \/ Returned

Spec == Init /\ [][Next]_vars /\ WF_vars(Proceed)

-----------------------------------------------------------------------------

\* The tools that events of one kind name, and those of some runs, in order.
Named(seq, event) ==
  FoldLeft(LAMBDA named, e : IF e.event = event THEN Append(named, e.tool) ELSE named, <<>>, seq)
ToolsOf(runs) == [i \in DOMAIN runs |-> runs[i].call.tool]
Closing == {"task_complete", "task_error"}

\* A user interface following the stream can rebuild the task: the tools
\* announced by tool_call are, in order, the tools that ran, but for the one
\* running now or when the client left; every tool that ran was followed by
\* its tool_result; and a stream the client stays on ends with exactly one
\* closing event, the one its outcome calls for, with nothing after it.
StreamTellsRuns ==
  /\ Named(events, "tool_result") = ToolsOf(ran)
  /\ \/ Named(events, "tool_call") = ToolsOf(ran)
     \/ /\ pc = "exec" \/ result = "abandoned"
        /\ Named(events, "tool_call") # <<>> /\ Front(Named(events, "tool_call")) = ToolsOf(ran)
  /\ \A i \in DOMAIN events :
       events[i].event \in Closing => i = Len(events) /\ result # "none"
  /\ result \in {"completed", "error"} =>
       Last(events).event = IF result = "completed" THEN "task_complete" ELSE "task_error"

\* "Same governance as execute_task" (its docstring): every tool run
\* passes the identity, policy, approval and cost gates.
G == INSTANCE Governance WITH
       case <- IF pc \in {"escalated", "budget", "exec"}
               THEN [tool |-> Tool, effect |-> effect, yes |-> yes]
               ELSE [tool |-> <<>>, effect |-> "none", yes |-> 0],
       open <- (pc # "done")
SameGovernance == G!Spec

=============================================================================
