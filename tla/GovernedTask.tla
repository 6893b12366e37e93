---------------------------- MODULE GovernedTask ----------------------------
(***************************************************************************)
(* One call of execute_task (core/runtime.py): the governed loop that asks *)
(* the model, takes every requested tool call through the five gates and   *)
(* audits what it did.  Actions are cut at the awaits of the code: the     *)
(* audit insert, the completion, the approval callback and the tool.       *)
(*                                                                         *)
(* Data abstractions: arguments, outputs, reasons and messages are left    *)
(* out except for which calls were answered; amounts are whole cents.      *)
(***************************************************************************)
EXTENDS Integers, Sequences, Policy

CONSTANTS
  Names,          (* tool names a completion may mention, as segments        *)
  Agents,         (* configured agents: specs, scopes, rules, limits, approver *)
  Clocks,         (* wall-clock readings                                     *)
  LLMCosts,       (* what one completion can cost                            *)
  Responses,      (* the tool calls a completion may request, in order       *)
  AuditMayFail    (* whether an audit insert can raise                       *)

ASSUME AgentsAssumption ==
  \A a \in Agents :
    /\ {a.limits.cost, a.limits.steps, a.limits.approvalAbove} \subseteq Nat
    /\ a.approver \in BOOLEAN /\ a.rules \in Seq(ToSet(a.rules))
    /\ \A t \in DOMAIN a.specs : a.specs[t].cost \in Nat /\ a.specs[t].approval \in BOOLEAN

ASSUME EnvironmentAssumption ==
  LLMCosts \subseteq Nat /\ Responses \subseteq Seq(Names) /\ AuditMayFail \in BOOLEAN

VARIABLES
  agent,          (* the agent, its policy and whether a callback was given  *)
  now,            (* the wall clock                                          *)
  pc,             (* where execute_task stands                               *)
  step,           (* `step`                                                  *)
  spent,          (* budget.total_usd                                        *)
  calls,          (* msg.tool_calls of the last completion                   *)
  at,             (* index of the call being processed                       *)
  replies,        (* calls whose "tool" message was appended since           *)
  effect,         (* Gate 3's decision for the current call                  *)
  yes,            (* approvals the callback gave for the current call        *)
  ran,            (* history: tool functions that were called                *)
  log,            (* audit entries written for this task                     *)
  result          (* AgentResult.status; "raised" if the exception escapes   *)

Events == {"task.start", "task.denied", "task.step_limit", "task.complete", "task.error",
           "tool.denied", "tool.escalated", "tool.budget_exceeded", "tool.approval_required",
           "tool.executed", "tool.error"}

config == <<agent, now>>
turn   == <<calls, at, replies>>
ruling == <<effect, yes>>
vars   == <<agent, now, pc, step, spent, calls, at, replies, effect, yes, ran, log, result>>

TaskExecute == <<"task", "execute">>
Tool == calls[at]
ToolSpec == agent.specs[Tool]

Init ==
  /\ agent \in Agents /\ now \in Clocks
  /\ pc = "start" /\ step = 0 /\ spent = 0
  /\ calls = <<>> /\ at = 1 /\ replies = <<>>
  /\ effect = "none" /\ yes = 0
  /\ ran = <<>> /\ log = <<>> /\ result = "none"

-----------------------------------------------------------------------------
(* Steps shared by the handlers.                                           *)

Write(event, action, decision) ==
  log' = Append(log, [event |-> event, action |-> action, decision |-> decision])

Return(status) == pc' = "done" /\ result' = status

\* An exception inside the try block reaches `except Exception`, outside it
\* the caller.
Raise == pc' = "failing" /\ UNCHANGED <<log, result>>
RaiseOut == AuditMayFail /\ Return("raised") /\ UNCHANGED log

\* The "tool" message is appended and the for loop moves on.
NextCall ==
  /\ replies' = Append(replies, Tool)
  /\ at' = at + 1
  /\ pc' = IF at < Len(calls) THEN "gates" ELSE "loop"
  /\ UNCHANGED <<calls, result>>

\* A gate refuses the call: audit, tell the model, continue.
Refuse(event, decision) ==
  \/ Write(event, Tool, decision) /\ NextCall
  \/ AuditMayFail /\ Raise /\ UNCHANGED turn

-----------------------------------------------------------------------------
(* Before the loop.                                                        *)

Start ==
  /\ pc = "start"
  /\ \/ /\ Write("task.start", TaskExecute, "allow")
        /\ pc' = IF Evaluate(agent.rules, TaskExecute, <<>>, now) = "allow"
                 THEN "loop" ELSE "denied"
        /\ UNCHANGED result
     \/ RaiseOut
  /\ UNCHANGED <<config, step, spent, turn, ruling, ran>>

DenyTask ==
  /\ pc = "denied"
  /\ \/ Write("task.denied", TaskExecute, "deny") /\ Return("denied")
     \/ RaiseOut
  /\ UNCHANGED <<config, step, spent, turn, ruling, ran>>

-----------------------------------------------------------------------------
(* The while loop.                                                         *)

\* `while step < max_steps`, then check_step_limit; past the bound the loop
\* falls through to "failed" without an audit entry.
BeginStep ==
  /\ pc = "loop"
  /\ IF step < agent.limits.steps
     THEN /\ step' = step + 1
          /\ pc' = IF CheckStepLimit(agent.limits, step + 1) = "allow"
                   THEN "llm" ELSE "limit"
          /\ UNCHANGED result
     ELSE Return("failed") /\ UNCHANGED step
  /\ UNCHANGED <<config, spent, turn, ruling, ran, log>>

StepLimit ==
  /\ pc = "limit"
  /\ \/ Write("task.step_limit", TaskExecute, "deny") /\ Return("failed")
     \/ AuditMayFail /\ Raise
  /\ UNCHANGED <<config, step, spent, turn, ruling, ran>>

\* A completion arrives and is charged, unchecked.
Completion ==
  /\ pc = "llm"
  /\ \E r \in Responses, c \in LLMCosts :
       /\ calls' = r /\ spent' = spent + c
       /\ pc' = IF r = <<>> THEN "answer" ELSE "gates"
  /\ at' = 1 /\ replies' = <<>>
  /\ UNCHANGED <<config, step, ruling, ran, log, result>>

\* Mutant of CompletionFails: asked again, the step handed back.
CompletionRetried ==
  /\ pc = "llm" /\ pc' = "loop" /\ step' = step - 1
  /\ UNCHANGED <<config, spent, turn, ruling, ran, log, result>>

CompletionFails ==
  /\ pc = "llm"
  /\ Raise
  /\ UNCHANGED <<config, step, spent, turn, ruling, ran>>

FinalAnswer ==
  /\ pc = "answer"
  /\ \/ Write("task.complete", TaskExecute, "allow") /\ Return("completed")
     \/ AuditMayFail /\ Raise
  /\ UNCHANGED <<config, step, spent, turn, ruling, ran>>

\* `except Exception`: if this insert fails too, the exception escapes.
TaskError ==
  /\ pc = "failing"
  /\ \/ Write("task.error", TaskExecute, "allow") /\ Return("failed")
     \/ RaiseOut
  /\ UNCHANGED <<config, step, spent, turn, ruling, ran>>

-----------------------------------------------------------------------------
(* The five gates of one tool call.                                        *)

\* Mutant of UnknownTool: `continue` before the message is appended.
UnknownToolSkipped ==
  /\ pc = "gates" /\ Tool \notin DOMAIN agent.specs
  /\ at' = at + 1 /\ pc' = IF at < Len(calls) THEN "gates" ELSE "loop"
  /\ UNCHANGED <<config, step, spent, calls, replies, ruling, ran, log, result>>

\* Gate 1: an unregistered name is answered, without an audit entry.
UnknownTool ==
  /\ pc = "gates" /\ Tool \notin DOMAIN agent.specs
  /\ NextCall
  /\ UNCHANGED <<config, step, spent, ruling, ran, log>>

\* Gate 2.
LacksPermission ==
  /\ pc = "gates" /\ Tool \in DOMAIN agent.specs
  /\ ~CheckPermissions(agent.scopes, ToolSpec.scopes)
  /\ Refuse("tool.denied", "deny")
  /\ UNCHANGED <<config, step, spent, ruling, ran>>

\* Gate 3, up to the approval callback.
PolicyGate ==
  /\ pc = "gates" /\ Tool \in DOMAIN agent.specs
  /\ CheckPermissions(agent.scopes, ToolSpec.scopes)
  /\ effect' = Evaluate(agent.rules, Tool, <<>>, now) /\ yes' = 0
  /\ CASE effect' = "allow" -> pc' = "budget" /\ UNCHANGED <<turn, log, result>>
       [] effect' = "deny"  -> Refuse("tool.denied", "deny")
       [] effect' = "escalate" ->
            IF agent.approver THEN pc' = "escalated" /\ UNCHANGED <<turn, log, result>>
                              ELSE Refuse("tool.escalated", "escalate")
  /\ UNCHANGED <<config, step, spent, ran>>

\* Mutant of Escalation: the callback's answer is not looked at.
EscalationUnheeded ==
  /\ pc = "escalated" /\ pc' = "budget"
  /\ UNCHANGED <<config, step, spent, turn, ruling, ran, log, result>>

\* The human answers an escalation; the callback may also raise.
Escalation ==
  /\ pc = "escalated"
  /\ \/ pc' = "budget" /\ yes' = yes + 1 /\ UNCHANGED <<turn, log, result>>
     \/ Refuse("tool.escalated", "escalate") /\ UNCHANGED yes
     \/ Raise /\ UNCHANGED <<turn, yes>>
  /\ UNCHANGED <<config, step, spent, effect, ran>>

\* Gate 4: anything but "allow" refuses, an "escalate" included.
BudgetGate ==
  /\ pc = "budget"
  /\ LET decision == CheckCost(agent.limits, spent, ToolSpec.cost)
     IN  IF decision = "allow"
         THEN /\ pc' = IF ToolSpec.approval THEN "approval" ELSE "exec"
              /\ UNCHANGED <<turn, log, result>>
         ELSE Refuse("tool.budget_exceeded", decision)
  /\ UNCHANGED <<config, step, spent, ruling, ran>>

\* Mutant of ApprovalGate: the approval of Gate 3 is taken to cover Gate 5.
ApprovalGateSkipped ==
  /\ pc = "approval" /\ pc' = "exec"
  /\ UNCHANGED <<config, step, spent, turn, ruling, ran, log, result>>

\* Gate 5: without a callback the answer is no.
ApprovalGate ==
  /\ pc = "approval"
  /\ \/ agent.approver /\ pc' = "exec" /\ yes' = yes + 1 /\ UNCHANGED <<turn, log, result>>
     \/ Refuse("tool.approval_required", "escalate") /\ UNCHANGED yes
     \/ agent.approver /\ Raise /\ UNCHANGED <<turn, yes>>
  /\ UNCHANGED <<config, step, spent, effect, ran>>

Ran(ok) ==
  ran' = Append(ran, [call |-> [tool |-> Tool, effect |-> effect, yes |-> yes],
                      before |-> spent, ok |-> ok])

\* The tool returns, is charged and audited; if that insert raises, the
\* handler records a tool.error instead.
ToolReturns ==
  /\ pc = "exec"
  /\ Ran(TRUE) /\ spent' = spent + ToolSpec.cost
  /\ \/ Write("tool.executed", Tool, "allow") /\ NextCall
     \/ AuditMayFail /\ Write("tool.error", Tool, "allow") /\ NextCall
     \/ AuditMayFail /\ Raise /\ UNCHANGED turn
  /\ UNCHANGED <<config, step, ruling>>

\* Mutant of ToolRaises: a tool that raised leaves no entry.
ToolRaisesUnlogged ==
  /\ pc = "exec"
  /\ Ran(FALSE) /\ NextCall
  /\ UNCHANGED <<config, step, spent, ruling, log>>

\* The tool raises, before or after its effect: audited, not charged.
ToolRaises ==
  /\ pc = "exec"
  /\ Ran(FALSE)
  /\ Refuse("tool.error", "allow")
  /\ UNCHANGED <<config, step, spent, ruling>>

-----------------------------------------------------------------------------

\* Time passes while execute_task waits.
Tick ==
  /\ pc # "done"
  /\ now' \in Clocks \ {now}
  /\ UNCHANGED <<agent, pc, step, spent, turn, ruling, ran, log, result>>

Proceed ==
  \/ Start \/ DenyTask \/ BeginStep \/ StepLimit \/ Completion \/ CompletionFails
  \/ FinalAnswer \/ TaskError \/ UnknownTool \/ LacksPermission \/ PolicyGate
  \/ Escalation \/ BudgetGate \/ ApprovalGate \/ ToolReturns \/ ToolRaises

\* The call has returned: nothing more happens.
Returned == pc = "done" /\ UNCHANGED vars

Next == Proceed \/ Tick \/ Returned

Spec == Init /\ [][Next]_vars

\* Completions, callbacks and tools answer in the end; the loop then goes on.
FairSpec == Spec /\ WF_vars(Proceed)
-----------------------------------------------------------------------------
(* Properties.                                                             *)

TypeOK ==
  /\ agent \in Agents /\ now \in Clocks
  /\ pc \in {"start", "denied", "loop", "limit", "llm", "answer", "failing", "gates",
             "escalated", "budget", "approval", "exec", "done"}
  /\ step \in Nat /\ spent \in Nat /\ yes \in Nat
  /\ calls \in Responses \cup {<<>>} /\ at \in Nat \ {0}
  /\ replies \in Seq(Names)
  /\ effect \in Effects \cup {"none"}
  /\ ran \in Seq([call : [tool : Names, effect : Effects \cup {"none"}, yes : Nat],
                  before : Nat, ok : BOOLEAN])
  /\ log \in Seq([event : Events, action : Names \cup {TaskExecute}, decision : Effects])
  /\ result \in {"none", "denied", "completed", "failed", "raised"}

G == INSTANCE Governance WITH
       case <- IF pc \in {"escalated", "budget", "approval", "exec"}
               THEN [tool |-> Tool, effect |-> effect, yes |-> yes]
               ELSE [tool |-> <<>>, effect |-> "none", yes |-> 0],
       open <- (pc # "done")

\* execute_task implements the governance promise: every gate precedes the
\* execution of the call it judged, across all awaits in between.
ImplementsGovernance == G!Spec

\* What the successful ones among some runs are recorded to have cost.
SpendOf(a, runs) ==
  FoldLeft(LAMBDA total, r : IF r.ok THEN total + a.specs[r.call.tool].cost ELSE total, 0, runs)

\* The tools that entries of a trail tell of, and those of some runs, in order.
RunEvents == {"tool.executed", "tool.error"}
ToldBy(entries) ==
  FoldLeft(LAMBDA told, e : IF e.event \in RunEvents THEN Append(told, e.action) ELSE told,
           <<>>, entries)
ToolsOf(runs) == [i \in DOMAIN runs |-> runs[i].call.tool]

\* The entries that close a task with a status.
ClosingEvent(status) ==
  CASE status = "completed" -> {"task.complete"}
    [] status = "denied"    -> {"task.denied"}
    [] status = "failed"    -> {"task.step_limit", "task.error"}
    [] OTHER                -> {}
ClosingEvents == UNION {ClosingEvent(t) : t \in {"completed", "denied", "failed"}}

\* Every tool that ran had its scopes granted, a policy effect other than
\* deny, one approval per gate that demands one, and fitted the cost limit
\* when the budget was charged (Gates 2 to 5).
RunsAuthorised ==
  \A i \in DOMAIN ran : G!Authorised(agent, ran[i].call, ran[i].before)

\* The recorded cost of the tools of a task never exceeds the policy's
\* max_cost_per_task_usd, however completions are charged in between.
ToolSpendWithinLimit == SpendOf(agent, ran) <= agent.limits.cost

\* The model is asked again only when each call of its last response has
\* been answered by exactly one tool message, in order: every `continue` of
\* every gate appends one.
EveryCallAnswered == pc \in {"loop", "limit", "llm"} => replies = calls

\* The audit trail tells what the caller is told: one entry tool.executed or
\* tool.error per tool that ran, in the order they ran (only a task that fails
\* on an audit error may miss its last one), and the entry that closes a task is
\* its last and agrees with the status returned, wherever an insert raised.
TrailTellsOutcome ==
  /\ \/ ToldBy(log) = ToolsOf(ran)
     \/ /\ pc = "failing" \/ result \in {"failed", "raised"}
        /\ ran # <<>> /\ ToldBy(log) = Front(ToolsOf(ran))
  /\ \A i \in DOMAIN log :
       log[i].event \in ClosingEvents => i = Len(log) /\ log[i].event \in ClosingEvent(result)

\* A call ends: the step limit bounds the loop whatever the model requests.
EventuallyReturns == <>(pc = "done")

=============================================================================
