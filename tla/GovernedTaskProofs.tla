------------------------- MODULE GovernedTaskProofs -------------------------
(***************************************************************************)
(* Proofs about execute_task for every set of agents, responses, costs and *)
(* clocks: its type invariant, that every tool that ran had passed every   *)
(* gate, and that the loop implements the governance promise.              *)
(***************************************************************************)
EXTENDS GovernedTask, OperatorLemmas

CallRecord == [tool : Names, effect : Effects \cup {"none"}, yes : Nat]
RunRecord == [call : CallRecord, before : Nat, ok : BOOLEAN]
LogRecord == [event : Events, action : Names \cup {TaskExecute}, decision : Effects]

InGates == {"gates", "escalated", "budget", "approval", "exec"}

\* While a call goes through the gates, `at` points into the last response.
Positioned == pc \in InGates => at \in 1..Len(calls)

(***************************************************************************)
(* What each gate has established about the current call: Gates 1 to 3     *)
(* once it is past them, the approval of an escalation from Gate 4 on, the *)
(* cost check from Gate 5 on, all approvals before the tool runs.  The     *)
(* facts must survive the awaits in between; that is what induction checks.*)
(***************************************************************************)
Judged ==
  /\ pc \in {"escalated", "budget", "approval", "exec"} =>
       /\ Tool \in DOMAIN agent.specs
       /\ CheckPermissions(agent.scopes, ToolSpec.scopes)
       /\ effect \in {"allow", "escalate"}
  /\ pc = "escalated" => agent.approver
  /\ pc \in {"budget", "approval", "exec"} => (effect = "escalate" => yes >= 1)
  /\ pc \in {"approval", "exec"} => CheckCost(agent.limits, spent, ToolSpec.cost) = "allow"
  /\ pc = "approval" => ToolSpec.approval
  /\ pc = "exec" => yes >= G!Needed(agent, [tool |-> Tool, effect |-> effect, yes |-> yes])

IInv == TypeOK /\ Positioned /\ Judged /\ RunsAuthorised

-----------------------------------------------------------------------------
(* The helpers the handlers share.                                         *)

\* The call the loop is at is one the model requested, by a known name.
LEMMA ToolType ==
  ASSUME TypeOK, Positioned, pc \in InGates
  PROVE  /\ Tool \in Names /\ calls \in Seq(Names) /\ at \in 1..Len(calls)
         /\ Tool \in DOMAIN agent.specs => ToolSpec.cost \in Nat /\ ToolSpec.approval \in BOOLEAN
<1>1. calls \in Seq(Names)
  <2>1. calls \in Responses \cup {<<>>}
    BY DEF TypeOK
  <2>2. <<>> \in Seq(Names)
    OBVIOUS
  <2> QED  BY <2>1, <2>2, EnvironmentAssumption
<1>2. at \in 1..Len(calls)
  BY DEF Positioned
<1>3. agent \in Agents
  BY DEF TypeOK
<1> QED
  BY <1>1, <1>2, <1>3, AgentsAssumption DEF Tool, ToolSpec

\* An audit entry extends the trail with a well-typed record.
LEMMA WriteType ==
  ASSUME log \in Seq(LogRecord), NEW event \in Events, NEW action \in Names \cup {TaskExecute},
         NEW decision \in Effects, Write(event, action, decision)
  PROVE  log' \in Seq(LogRecord)
<1>1. [event |-> event, action |-> action, decision |-> decision] \in LogRecord
  BY DEF LogRecord
<1> QED
  BY <1>1 DEF Write

\* What an answered call leaves behind.
Moved ==
  /\ replies' \in Seq(Names) /\ at' \in Nat \ {0} /\ calls' = calls /\ result' = result
  /\ \/ pc' = "gates" /\ at' \in 1..Len(calls')
     \/ pc' = "loop"
     \/ pc' = "failing"

LEMMA NextCallType ==
  ASSUME TypeOK, Positioned, pc \in InGates, NextCall
  PROVE  Moved
<1>1. Tool \in Names /\ calls \in Seq(Names) /\ at \in 1..Len(calls)
  BY ToolType
<1>2. replies \in Seq(Names)
  BY DEF TypeOK
<1>3. replies' \in Seq(Names)
  BY <1>1, <1>2 DEF NextCall
<1> QED
  BY <1>1, <1>3 DEF NextCall, Moved

\* A refused call is answered and the loop moves on, unless the audit raises.
LEMMA RefuseType ==
  ASSUME TypeOK, Positioned, pc \in InGates, NEW event \in Events, NEW decision \in Effects,
         Refuse(event, decision)
  PROVE  Moved /\ log' \in Seq(LogRecord)
<1>1. log \in Seq(LogRecord)
  BY DEF TypeOK, LogRecord
<1>2. CASE Write(event, Tool, decision) /\ NextCall
  BY <1>1, <1>2, ToolType, WriteType, NextCallType
<1>3. CASE AuditMayFail /\ Raise /\ UNCHANGED turn
  BY <1>1, <1>3 DEF Raise, turn, TypeOK, Moved
<1> QED
  BY <1>2, <1>3 DEF Refuse

-----------------------------------------------------------------------------
(* Induction.                                                              *)

\* The abstract specification judges with the operators of the same module.
LEMMA SamePolicy ==
  ASSUME NEW a, NEW b, NEW c
  PROVE  /\ G!CheckPermissions(a, b) = CheckPermissions(a, b)
         /\ G!CheckCost(a, b, c) = CheckCost(a, b, c)
BY DEF G!CheckPermissions, CheckPermissions, G!HasScope, HasScope, G!CheckCost, CheckCost,
   G!Star, Star

LEMMA InitIInv == Init => IInv
<1> SUFFICES ASSUME Init  PROVE IInv
  OBVIOUS
<1>1. <<>> \in Seq(Names) /\ <<>> \in Seq(RunRecord) /\ <<>> \in Seq(LogRecord)
  OBVIOUS
<1>2. TypeOK
  BY <1>1 DEF Init, TypeOK, CallRecord, RunRecord, LogRecord
<1>3. Positioned /\ Judged /\ RunsAuthorised
  BY DEF Init, Positioned, Judged, RunsAuthorised, InGates
<1> QED
  BY <1>2, <1>3 DEF IInv

\* Steps outside the gates leave the tools that ran alone and return, fail or
\* move to a point where nothing has been judged yet.
LEMMA OuterSteps ==
  ASSUME IInv,
         \/ Start \/ DenyTask \/ BeginStep \/ StepLimit
         \/ CompletionFails \/ FinalAnswer \/ TaskError
  PROVE  IInv'
<1> USE DEF IInv
<1>1. log \in Seq(LogRecord) /\ TaskExecute \in Names \cup {TaskExecute}
  BY DEF TypeOK, LogRecord
<1>2. log' \in Seq(LogRecord)
  <2>1. CASE UNCHANGED log
    BY <1>1, <2>1
  <2>2. CASE \E e \in Events, d \in Effects : Write(e, TaskExecute, d)
    BY <1>1, <2>2, WriteType
  <2> QED
    BY <2>1, <2>2 DEF Start, DenyTask, BeginStep, StepLimit, CompletionFails, FinalAnswer,
       TaskError, Events, Effects, Raise, RaiseOut
<1>3. /\ UNCHANGED <<agent, now, spent, calls, at, replies, effect, yes, ran>>
      /\ pc' \in {"loop", "denied", "done", "llm", "limit", "failing"}
      /\ step' \in Nat
      /\ result' \in {"none", "denied", "completed", "failed", "raised"}
  BY DEF Start, DenyTask, BeginStep, StepLimit, CompletionFails, FinalAnswer, TaskError,
     config, turn, ruling, Return, Raise, RaiseOut, TypeOK
<1>4. TypeOK'
  BY <1>2, <1>3 DEF TypeOK, LogRecord
<1>5. Positioned' /\ Judged'
  BY <1>3 DEF Positioned, Judged, InGates
<1>6. RunsAuthorised'
  BY <1>3 DEF RunsAuthorised
<1> QED
  BY <1>4, <1>5, <1>6

LEMMA CompletionStep ==
  ASSUME IInv, Completion
  PROVE  IInv'
<1> USE DEF IInv
<1>1. PICK r \in Responses, c \in LLMCosts :
        /\ calls' = r /\ spent' = spent + c
        /\ pc' = IF r = <<>> THEN "answer" ELSE "gates"
  BY DEF Completion
<1>2. r \in Seq(Names) /\ c \in Nat /\ (r # <<>> => 1 \in 1..Len(r))
  BY <1>1, EnvironmentAssumption
<1>3. /\ UNCHANGED <<agent, now, step, effect, yes, ran, log, result>>
      /\ at' = 1 /\ replies' = <<>> /\ replies' \in Seq(Names)
  BY DEF Completion, config, ruling
<1>4. TypeOK'
  BY <1>1, <1>2, <1>3 DEF TypeOK
<1>5. Positioned' /\ Judged'
  BY <1>1, <1>2, <1>3 DEF Positioned, Judged, InGates
<1>6. RunsAuthorised'
  BY <1>3 DEF RunsAuthorised
<1> QED
  BY <1>4, <1>5, <1>6

\* A refusal, by whichever gate, leaves nothing judged and nothing run.
LEMMA RefusalPreserves ==
  ASSUME IInv, pc \in InGates, Moved, log' \in Seq(LogRecord),
         UNCHANGED <<agent, now, step, spent, ran>>, effect' \in Effects \cup {"none"},
         yes' \in Nat
  PROVE  IInv'
<1> USE DEF IInv
<1>1. TypeOK'
  BY DEF TypeOK, Moved, LogRecord
<1>2. Positioned' /\ Judged'
  BY DEF Positioned, Judged, Moved, InGates
<1>3. RunsAuthorised'
  BY DEF RunsAuthorised
<1> QED
  BY <1>1, <1>2, <1>3

\* A gate that lets the call pass, or a callback that raises, stays on it.
LEMMA PassagePreserves ==
  ASSUME IInv, pc \in InGates, UNCHANGED <<agent, now, step, spent, turn, ran, log, result>>,
         pc' \in InGates \cup {"failing"}, effect' \in Effects \cup {"none"}, yes' \in Nat,
         Judged'
  PROVE  IInv'
<1> USE DEF IInv
<1>1. TypeOK'
  BY DEF TypeOK, turn, InGates
<1>2. Positioned'
  BY DEF Positioned, turn
<1>3. RunsAuthorised'
  BY DEF RunsAuthorised
<1> QED
  BY <1>1, <1>2, <1>3

LEMMA UnknownToolStep ==
  ASSUME IInv, UnknownTool
  PROVE  IInv'
<1>1. pc \in InGates /\ NextCall /\ UNCHANGED <<agent, now, step, spent, effect, yes, ran, log>>
  BY DEF UnknownTool, InGates, config, ruling
<1>2. Moved /\ log' \in Seq(LogRecord)
  BY <1>1, NextCallType DEF IInv, TypeOK, LogRecord
<1> QED
  BY <1>1, <1>2, RefusalPreserves DEF IInv, TypeOK

LEMMA LacksPermissionStep ==
  ASSUME IInv, LacksPermission
  PROVE  IInv'
<1>1. /\ pc \in InGates /\ Refuse("tool.denied", "deny")
      /\ UNCHANGED <<agent, now, step, spent, effect, yes, ran>>
  BY DEF LacksPermission, InGates, config, ruling
<1>2. Moved /\ log' \in Seq(LogRecord)
  BY <1>1, RefuseType DEF IInv, Events, Effects
<1> QED
  BY <1>1, <1>2, RefusalPreserves DEF IInv, TypeOK

LEMMA PolicyGateStep ==
  ASSUME IInv, PolicyGate
  PROVE  IInv'
<1>1. /\ pc \in InGates /\ UNCHANGED <<agent, now, step, spent, ran>>
      /\ Tool \in DOMAIN agent.specs /\ CheckPermissions(agent.scopes, ToolSpec.scopes)
      /\ effect' = Evaluate(agent.rules, Tool, <<>>, now) /\ yes' = 0
  BY DEF PolicyGate, InGates, config
<1>2. effect' \in Effects
  <2>1. agent.rules \in Seq(ToSet(agent.rules))
    BY AgentsAssumption DEF IInv, TypeOK
  <2> QED  BY <1>1, <2>1, EvaluateType
<1>3. CASE \E e \in {"tool.denied", "tool.escalated"}, d \in {"deny", "escalate"} : Refuse(e, d)
  <2>1. Moved /\ log' \in Seq(LogRecord)
    BY <1>1, <1>3, RefuseType DEF IInv, Events, Effects
  <2> QED
    BY <1>1, <1>2, <2>1, RefusalPreserves
<1>4. CASE /\ UNCHANGED <<turn, log, result>>
           /\ \/ effect' = "allow" /\ pc' = "budget"
              \/ effect' = "escalate" /\ pc' = "escalated" /\ agent.approver
  <2>1. Tool' = Tool /\ ToolSpec' = ToolSpec
    BY <1>1, <1>4 DEF Tool, ToolSpec, turn
  <2>2. Judged'
    BY <1>1, <1>4, <2>1 DEF Judged
  <2> QED
    BY <1>1, <1>2, <1>4, <2>2, PassagePreserves DEF InGates
<1> QED
  BY <1>2, <1>3, <1>4 DEF PolicyGate, Effects

LEMMA EscalationStep ==
  ASSUME IInv, Escalation
  PROVE  IInv'
<1>1. pc \in InGates /\ pc = "escalated" /\ UNCHANGED <<agent, now, step, spent, effect, ran>>
  BY DEF Escalation, InGates, config
<1>2. effect \in Effects \cup {"none"} /\ yes \in Nat
  BY DEF IInv, TypeOK
<1>3. CASE Refuse("tool.escalated", "escalate") /\ UNCHANGED yes
  <2>1. Moved /\ log' \in Seq(LogRecord)
    BY <1>1, <1>3, RefuseType DEF IInv, Events, Effects
  <2> QED
    BY <1>1, <1>2, <1>3, <2>1, RefusalPreserves
<1>4. CASE \/ pc' = "budget" /\ yes' = yes + 1 /\ UNCHANGED <<turn, log, result>>
           \/ Raise /\ UNCHANGED <<turn, yes>>
  <2>1. Tool' = Tool /\ ToolSpec' = ToolSpec
    BY <1>1, <1>4 DEF Tool, ToolSpec, turn
  <2>2. Judged'
    BY <1>1, <1>2, <1>4, <2>1 DEF Judged, IInv, Raise
  <2> QED
    BY <1>1, <1>2, <1>4, <2>2, PassagePreserves DEF InGates, Raise
<1> QED
  BY <1>3, <1>4 DEF Escalation

LEMMA BudgetGateStep ==
  ASSUME IInv, BudgetGate
  PROVE  IInv'
<1> DEFINE decision == CheckCost(agent.limits, spent, ToolSpec.cost)
<1>1. /\ pc \in InGates /\ pc = "budget"
      /\ UNCHANGED <<agent, now, step, spent, effect, yes, ran>>
  BY DEF BudgetGate, InGates, config, ruling
<1>2. effect \in Effects \cup {"none"} /\ yes \in Nat /\ decision \in Effects
  BY DEF IInv, TypeOK, CheckCost, Effects
<1>3. CASE Refuse("tool.budget_exceeded", decision)
  <2>1. Moved /\ log' \in Seq(LogRecord)
    BY <1>1, <1>2, <1>3, RefuseType DEF IInv, Events
  <2> QED
    BY <1>1, <1>2, <2>1, RefusalPreserves
<1>4. CASE /\ decision = "allow" /\ UNCHANGED <<turn, log, result>>
           /\ pc' = IF ToolSpec.approval THEN "approval" ELSE "exec"
  <2>1. Tool' = Tool /\ ToolSpec' = ToolSpec
    BY <1>1, <1>4 DEF Tool, ToolSpec, turn
  <2>2. pc' = "exec" => yes' >= G!Needed(agent, [tool |-> Tool, effect |-> effect, yes |-> yes])'
    BY <1>1, <1>2, <1>4, <2>1 DEF Judged, IInv, G!Needed, ToolSpec
  <2>3. Judged'
    BY <1>1, <1>4, <2>1, <2>2 DEF Judged, IInv
  <2> QED
    BY <1>1, <1>2, <1>4, <2>3, PassagePreserves DEF InGates
<1> QED
  BY <1>3, <1>4 DEF BudgetGate

LEMMA ApprovalGateStep ==
  ASSUME IInv, ApprovalGate
  PROVE  IInv'
<1>1. pc \in InGates /\ pc = "approval" /\ UNCHANGED <<agent, now, step, spent, effect, ran>>
  BY DEF ApprovalGate, InGates, config
<1>2. effect \in Effects \cup {"none"} /\ yes \in Nat
  BY DEF IInv, TypeOK
<1>3. CASE Refuse("tool.approval_required", "escalate") /\ UNCHANGED yes
  <2>1. Moved /\ log' \in Seq(LogRecord)
    BY <1>1, <1>3, RefuseType DEF IInv, Events, Effects
  <2> QED
    BY <1>1, <1>2, <1>3, <2>1, RefusalPreserves
<1>4. CASE \/ agent.approver /\ pc' = "exec" /\ yes' = yes + 1 /\ UNCHANGED <<turn, log, result>>
           \/ agent.approver /\ Raise /\ UNCHANGED <<turn, yes>>
  <2>1. Tool' = Tool /\ ToolSpec' = ToolSpec
    BY <1>1, <1>4 DEF Tool, ToolSpec, turn
  <2>2. pc' = "exec" => yes' >= G!Needed(agent, [tool |-> Tool, effect |-> effect, yes |-> yes])'
    BY <1>1, <1>2, <1>4, <2>1 DEF Judged, IInv, G!Needed, ToolSpec, Raise
  <2>3. Judged'
    BY <1>1, <1>2, <1>4, <2>1, <2>2 DEF Judged, IInv, Raise
  <2> QED
    BY <1>1, <1>2, <1>4, <2>3, PassagePreserves DEF InGates, Raise
<1> QED
  BY <1>3, <1>4 DEF ApprovalGate

\* The tool runs with everything its gates established still true.
LEMMA ToolRunsStep ==
  ASSUME IInv, ToolReturns \/ ToolRaises
  PROVE  IInv'
<1> DEFINE call == [tool |-> Tool, effect |-> effect, yes |-> yes]
<1>1. /\ pc \in InGates /\ pc = "exec" /\ UNCHANGED <<agent, now, step, effect, yes>>
      /\ \E ok \in BOOLEAN : Ran(ok)
      /\ spent' = spent \/ spent' = spent + ToolSpec.cost
  BY DEF ToolReturns, ToolRaises, InGates, config, ruling
<1>2. PICK ok \in BOOLEAN : ran' = Append(ran, [call |-> call, before |-> spent, ok |-> ok])
  BY <1>1 DEF Ran
<1>3. /\ Tool \in Names /\ Tool \in DOMAIN agent.specs /\ ToolSpec.cost \in Nat
      /\ effect \in Effects \cup {"none"} /\ yes \in Nat /\ spent \in Nat
  BY <1>1, ToolType DEF IInv, TypeOK, Judged
<1>4. Moved /\ log' \in Seq(LogRecord)
  <2>1. CASE \E e \in {"tool.executed", "tool.error"} : Write(e, Tool, "allow") /\ NextCall
    BY <1>1, <2>1, <1>3, WriteType, NextCallType DEF IInv, TypeOK, LogRecord, Events, Effects
  <2>2. CASE Raise /\ UNCHANGED turn
    BY <2>2 DEF Raise, turn, Moved, IInv, TypeOK, LogRecord
  <2>3. CASE Refuse("tool.error", "allow")
    BY <1>1, <2>3, RefuseType DEF IInv, Events, Effects
  <2> QED
    BY <2>1, <2>2, <2>3 DEF ToolReturns, ToolRaises
<1>5. [call |-> call, before |-> spent, ok |-> ok] \in RunRecord
  BY <1>3 DEF RunRecord, CallRecord
<1>6. ran \in Seq(RunRecord)
  BY DEF IInv, TypeOK, RunRecord, CallRecord
<1>7. TypeOK'
  <2>1. ran' \in Seq(RunRecord) /\ spent' \in Nat
    BY <1>1, <1>2, <1>3, <1>5, <1>6
  <2> QED
    BY <1>1, <1>4, <2>1 DEF IInv, TypeOK, Moved, LogRecord, RunRecord, CallRecord
<1>8. Positioned' /\ Judged'
  BY <1>4 DEF Positioned, Judged, Moved, InGates
<1>9. RunsAuthorised'
  <2>1. G!Authorised(agent, call, spent)
    <3>1. call.tool = Tool /\ call.effect = effect /\ call.yes = yes
      OBVIOUS
    <3>2. /\ Tool \in DOMAIN agent.specs /\ effect \in {"allow", "escalate"}
          /\ CheckPermissions(agent.scopes, agent.specs[Tool].scopes)
          /\ CheckCost(agent.limits, spent, agent.specs[Tool].cost) = "allow"
          /\ yes >= G!Needed(agent, call)
      BY <1>1 DEF IInv, Judged, ToolSpec
    <3> HIDE DEF call
    <3> QED  BY <3>1, <3>2, SamePolicy DEF G!Authorised
  <2>2. \A i \in DOMAIN ran' :
          \/ i \in DOMAIN ran /\ ran'[i] = ran[i]
          \/ ran'[i] = [call |-> call, before |-> spent, ok |-> ok]
    BY <1>2, <1>5, <1>6
  <2>3. ASSUME NEW i \in DOMAIN ran'
        PROVE  G!Authorised(agent, ran'[i].call, ran'[i].before)
    <3>1. CASE i \in DOMAIN ran /\ ran'[i] = ran[i]
      BY <3>1 DEF IInv, RunsAuthorised
    <3>2. CASE ran'[i] = [call |-> call, before |-> spent, ok |-> ok]
      BY <3>2, <2>1
    <3> QED
      BY <2>2, <2>3, <3>1, <3>2
  <2> QED
    BY <1>1, <2>3 DEF RunsAuthorised
<1> QED
  BY <1>7, <1>8, <1>9 DEF IInv

LEMMA IdleSteps ==
  ASSUME IInv, Tick \/ UNCHANGED vars
  PROVE  IInv'
<1>1. now' \in Clocks
      /\ UNCHANGED <<agent, pc, step, spent, calls, at, replies, effect, yes, ran, log, result>>
  BY DEF Tick, vars, turn, ruling, IInv, TypeOK
<1>2. Tool' = Tool /\ ToolSpec' = ToolSpec
  BY <1>1 DEF Tool, ToolSpec
<1>3. TypeOK'
  BY <1>1 DEF IInv, TypeOK
<1>4. Positioned' /\ RunsAuthorised'
  BY <1>1 DEF IInv, Positioned, RunsAuthorised
<1>5. Judged'
  <2>1. G!Needed(agent, [tool |-> Tool, effect |-> effect, yes |-> yes])'
          = G!Needed(agent, [tool |-> Tool, effect |-> effect, yes |-> yes])
    BY <1>1, <1>2 DEF G!Needed
  <2> QED
    BY <1>1, <1>2, <2>1 DEF IInv, Judged
<1> QED
  BY <1>3, <1>4, <1>5 DEF IInv

LEMMA NextIInv == IInv /\ [Next]_vars => IInv'
BY OuterSteps, CompletionStep, UnknownToolStep, LacksPermissionStep, PolicyGateStep,
   EscalationStep, BudgetGateStep, ApprovalGateStep, ToolRunsStep, IdleSteps
   DEF Next, Proceed, Returned

-----------------------------------------------------------------------------
(* Theorems.                                                               *)

\* Every behaviour of execute_task keeps the inductive invariant.
THEOREM Invariance == Spec => []IInv
BY InitIInv, NextIInv, PTL DEF Spec

(***************************************************************************)
(* The runtime's state stays well typed: positions, budgets, the audit     *)
(* trail and the status are what the rest of the code expects.             *)
(***************************************************************************)
THEOREM TypeCorrect == Spec => []TypeOK
<1>1. IInv => TypeOK
  BY DEF IInv
<1> QED
  BY <1>1, Invariance, PTL

(***************************************************************************)
(* Whatever the model requests, the humans answer, the clock shows and the *)
(* audit log fails, execute_task runs a tool only after Gates 2 to 5 let   *)
(* that very call through.                                                 *)
(***************************************************************************)
THEOREM AlwaysAuthorised == Spec => []RunsAuthorised
<1>1. IInv => RunsAuthorised
  BY DEF IInv
<1> QED
  BY <1>1, Invariance, PTL

-----------------------------------------------------------------------------
(* Refinement: every step of the loop is a step of Governance or a stutter. *)

Considering == {"escalated", "budget", "approval", "exec"}
Case == [tool |-> Tool, effect |-> effect, yes |-> yes]

LEMMA SameDecides ==
  ASSUME NEW rule, NEW action, NEW context, NEW clock
  PROVE  G!Decides(rule, action, context, clock) = Decides(rule, action, context, clock)
<1>1. G!ActionMatches(rule.action, action) = ActionMatches(rule.action, action)
  BY DEF G!ActionMatches, ActionMatches, G!Star, Star, G!Last, Last, G!Front, Front,
     G!IsPrefix, IsPrefix, G!IsSuffix, IsSuffix, G!Reverse, Reverse
<1>2. ASSUME NEW c  PROVE G!Holds(c, context, clock) = Holds(c, context, clock)
  BY DEF G!Holds, Holds, G!Lookup, Lookup
<1> QED
  BY <1>1, <1>2, Zenon DEF G!Decides, Decides, G!Effects, Effects

LEMMA SameEvaluate ==
  ASSUME NEW rules, NEW action, NEW context, NEW clock
  PROVE  G!Evaluate(rules, action, context, clock) = Evaluate(rules, action, context, clock)
<1> DEFINE I == {i \in 1..Len(rules) : Decides(rules[i], action, context, clock)}
           J == {i \in 1..Len(rules) : G!Decides(rules[i], action, context, clock)}
           First(S) == LET i == IF S # {} THEN CHOOSE x \in S : \A y \in S : x <= y ELSE 0
                       IN  IF i = 0 THEN "deny" ELSE rules[i].effect
<1>1. I = J
  BY SameDecides, Zenon
<1>2. Evaluate(rules, action, context, clock) = First(I)
  BY Zenon DEF Evaluate, SelectInSeq, Min
<1>3. G!Evaluate(rules, action, context, clock) = First(J)
  BY Zenon DEF G!Evaluate, G!SelectInSeq, G!Min
<1> HIDE DEF I, J, First
<1> QED
  BY <1>1, <1>2, <1>3, Zenon

LEMMA InitRefines == Init => G!Init
BY DEF Init, G!Init, G!Idle

\* The call under consideration is dropped, refused or never existed.
LEMMA DropRefines ==
  ASSUME UNCHANGED <<agent, now, spent, ran>>, pc' \notin Considering, pc # "done"
  PROVE  G!Drop
BY DEF G!Drop, G!Idle, Considering

LEMMA OuterRefines ==
  ASSUME \/ Start \/ DenyTask \/ BeginStep \/ StepLimit \/ CompletionFails \/ FinalAnswer
         \/ TaskError
  PROVE  G!Next
<1>1. /\ UNCHANGED <<agent, now, spent, ran>> /\ pc # "done"
      /\ pc' \in {"loop", "denied", "done", "llm", "limit", "failing"}
  BY DEF Start, DenyTask, BeginStep, StepLimit, CompletionFails, FinalAnswer, TaskError,
     config, Return, Raise, RaiseOut
<1> QED
  BY <1>1, DropRefines DEF G!Next, Considering

LEMMA CompletionRefines ==
  ASSUME Completion
  PROVE  G!Next
<1>1. \E c \in LLMCosts : spent' = spent + c
  BY DEF Completion
<1>2. pc = "llm" /\ pc' \in {"answer", "gates"} /\ UNCHANGED <<agent, now, ran>>
  BY DEF Completion, config
<1> QED
  BY <1>1, <1>2 DEF G!Next, G!Think, G!Idle

\* Gates 1 and 2 only ever refuse.
LEMMA EarlyGatesRefine ==
  ASSUME UnknownTool \/ LacksPermission
  PROVE  G!Next
<1>1. /\ UNCHANGED <<agent, now, spent, ran>> /\ pc = "gates"
      /\ pc' \in {"gates", "loop", "failing"}
  BY DEF UnknownTool, LacksPermission, config, Refuse, NextCall, Raise
<1> QED
  BY <1>1, DropRefines DEF G!Next, Considering

LEMMA PolicyGateRefines ==
  ASSUME IInv, PolicyGate
  PROVE  G!Next
<1>1. /\ pc = "gates" /\ UNCHANGED <<agent, now, spent, ran>>
      /\ Tool \in DOMAIN agent.specs /\ CheckPermissions(agent.scopes, ToolSpec.scopes)
      /\ effect' = Evaluate(agent.rules, Tool, <<>>, now) /\ yes' = 0
  BY DEF PolicyGate, config
<1>2. effect' \in Effects
  <2>1. agent.rules \in Seq(ToSet(agent.rules))
    BY AgentsAssumption DEF IInv, TypeOK
  <2> QED  BY <1>1, <2>1, EvaluateType
<1>3. CASE \E e \in {"tool.denied", "tool.escalated"}, d \in {"deny", "escalate"} : Refuse(e, d)
  <2>1. pc' \in {"gates", "loop", "failing"}
    BY <1>3 DEF Refuse, NextCall, Raise
  <2> QED
    BY <1>1, <2>1, DropRefines DEF G!Next, Considering
<1>4. CASE effect' # "deny" /\ UNCHANGED turn /\ pc' \in {"budget", "escalated"}
  <2>1. Tool' = Tool
    BY <1>4 DEF Tool, turn
  <2>2. G!CheckPermissions(agent.scopes, agent.specs[Tool].scopes)
    BY <1>1, SamePolicy DEF ToolSpec
  <2>3. effect' = G!Evaluate(agent.rules, Tool, <<>>, now)
    BY <1>1, SameEvaluate
  <2>4. G!Consider
    BY <1>1, <1>4, <2>1, <2>2, <2>3 DEF G!Consider, G!Idle
  <2> QED
    BY <2>4 DEF G!Next
<1> QED
  BY <1>2, <1>3, <1>4 DEF PolicyGate, Effects

\* A human's yes is the abstract approval, a no or an exception drops the call.
LEMMA HumansRefine ==
  ASSUME IInv, Escalation \/ ApprovalGate
  PROVE  G!Next
<1>1. pc \in {"escalated", "approval"} /\ UNCHANGED <<agent, now, spent, effect, ran>>
  BY DEF Escalation, ApprovalGate, config
<1>2. CASE pc' \in {"gates", "loop", "failing"}
  BY <1>1, <1>2, DropRefines DEF G!Next, Considering
<1>3. CASE pc' \in {"budget", "exec"} /\ agent.approver /\ yes' = yes + 1 /\ UNCHANGED turn
  <2>1. Tool' = Tool /\ Tool \in Names
    BY <1>1, <1>3, ToolType DEF Tool, turn, IInv, InGates
  <2>2. Case' = [Case EXCEPT !.yes = @ + 1]
    BY <1>1, <1>3, <2>1 DEF Case
  <2>3. Case # G!Idle
    <3>1. effect # "none"
      BY <1>1 DEF IInv, Judged
    <3> QED  BY <3>1 DEF Case, G!Idle
  <2>4. G!Approve
    BY <1>1, <1>3, <2>2, <2>3 DEF G!Approve, Case
  <2> QED
    BY <2>4 DEF G!Next
<1> QED
  BY <1>2, <1>3 DEF Escalation, ApprovalGate, Refuse, NextCall, Raise, IInv, Judged

LEMMA BudgetGateRefines ==
  ASSUME BudgetGate
  PROVE  G!Next \/ UNCHANGED G!vars
<1>1. pc = "budget" /\ UNCHANGED <<agent, now, spent, effect, yes, ran>>
  BY DEF BudgetGate, config, ruling
<1>2. CASE pc' \in {"gates", "loop", "failing"}
  BY <1>1, <1>2, DropRefines DEF G!Next, Considering
<1>3. CASE pc' \in {"approval", "exec"} /\ UNCHANGED turn
  BY <1>1, <1>3 DEF G!vars, Tool, turn
<1> QED
  BY <1>2, <1>3 DEF BudgetGate, Refuse, NextCall, Raise

LEMMA ToolRunsRefines ==
  ASSUME IInv, ToolReturns \/ ToolRaises
  PROVE  G!Next
<1>1. /\ pc = "exec" /\ pc' \in {"gates", "loop", "failing"} /\ UNCHANGED <<agent, now>>
      /\ \E ok \in BOOLEAN :
           /\ ran' = Append(ran, [call |-> Case, before |-> spent, ok |-> ok])
           /\ spent' = IF ok THEN spent + agent.specs[Tool].cost ELSE spent
  BY DEF ToolReturns, ToolRaises, Ran, Case, ToolSpec, config, Refuse, NextCall, Raise
<1>2. Case.tool = Tool /\ Case.effect = effect /\ Case.yes = yes
  BY DEF Case
<1>3. /\ Tool \in DOMAIN agent.specs /\ effect \in {"allow", "escalate"}
      /\ CheckPermissions(agent.scopes, agent.specs[Tool].scopes)
      /\ CheckCost(agent.limits, spent, agent.specs[Tool].cost) = "allow"
      /\ yes >= G!Needed(agent, Case)
  BY <1>1 DEF IInv, Judged, ToolSpec, Case
<1>4. G!Authorised(agent, Case, spent)
  BY <1>2, <1>3, SamePolicy DEF G!Authorised
<1>5. Case # G!Idle
  BY <1>2, <1>3 DEF G!Idle
<1>6. G!Run
  <2>1. pc # "done" /\ pc' # "done"
    BY <1>1
  <2> QED
    BY <1>1, <1>2, <1>4, <1>5, <2>1 DEF G!Run, Case, G!Idle
<1> QED
  BY <1>6 DEF G!Next

LEMMA TickRefines ==
  ASSUME Tick
  PROVE  G!Next
<1>1. now' \in Clocks /\ UNCHANGED <<agent, pc, spent, calls, at, effect, yes, ran>>
  BY DEF Tick, turn, ruling
<1>2. G!Tick
  BY <1>1 DEF G!Tick, Tool
<1> QED
  BY <1>2 DEF G!Next

LEMMA StepRefines == IInv /\ [Next]_vars => [G!Next]_(G!vars)
<1> SUFFICES ASSUME IInv, [Next]_vars  PROVE G!Next \/ UNCHANGED G!vars
  OBVIOUS
<1>1. CASE UNCHANGED vars
  BY <1>1 DEF vars, G!vars, Tool
<1>2. CASE Proceed \/ Tick
  BY <1>2, OuterRefines, CompletionRefines, EarlyGatesRefine, PolicyGateRefines, HumansRefine,
     BudgetGateRefines, ToolRunsRefines, TickRefines DEF Proceed
<1> QED
  BY <1>1, <1>2 DEF Next, Returned

(***************************************************************************)
(* execute_task implements the governance promise: seen through the call   *)
(* under consideration, each of its steps is one the abstract              *)
(* specification allows.                                                   *)
(***************************************************************************)
THEOREM Implementation == Spec => ImplementsGovernance
BY InitRefines, Invariance, StepRefines, PTL DEF Spec, ImplementsGovernance, G!Spec


\* Runs whose successful tools have a cost.
Costed(a, runs) ==
  /\ runs \in Seq(RunRecord)
  /\ \A i \in DOMAIN runs : runs[i].ok => a.specs[runs[i].call.tool].cost \in Nat
SpendStep(a, r, total) == IF r.ok THEN total + a.specs[r.call.tool].cost ELSE total

\* The spend of some runs is the end of a chain of partial sums.
LEMMA SpendChain ==
  ASSUME NEW a, NEW runs, Costed(a, runs)
  PROVE  \E c : /\ c[0] = 0 /\ SpendOf(a, runs) = c[Len(runs)]
                /\ \A k \in 1..Len(runs) : c[k] = SpendStep(a, runs[k], c[k - 1])
<1> DEFINE n == Len(runs)
           adds == [p \in (1..n) \X Nat |-> SpendStep(a, runs[p[1]], p[2])]
           Solves(g) == g = [t \in SUBSET DOMAIN runs |->
                               IF t = {} THEN 0
                               ELSE IF runs[Max(t)].ok
                                    THEN g[t \ {Max(t)}] + a.specs[runs[Max(t)].call.tool].cost
                                    ELSE g[t \ {Max(t)}]]
           iter == CHOOSE g : Solves(g)
<1>1. n \in Nat /\ DOMAIN runs = 1..n
  BY DEF Costed
<1>2. SpendOf(a, runs) = iter[1..n]
  BY <1>1, Zenon DEF SpendOf, FoldLeft, MapThenFoldSet
<1>3. PICK g \in [SUBSET (1..n) -> Nat] : FoldsPositions(g, n, 0, adds)
  <2>1. adds \in [(1..n) \X Nat -> Nat]
    BY <1>1 DEF Costed, SpendStep
  <2> HIDE DEF adds, n
  <2> QED
    BY <1>1, <2>1, FoldExists DEF Foldable
<1>4. Solves(g)
  <2>1. ASSUME NEW t \in SUBSET (1..n)
        PROVE  g[t] = IF t = {} THEN 0
                      ELSE IF runs[Max(t)].ok
                           THEN g[t \ {Max(t)}] + a.specs[runs[Max(t)].call.tool].cost
                           ELSE g[t \ {Max(t)}]
    <3>1. CASE t = {}
      BY <1>3, <3>1 DEF FoldsPositions
    <3>2. CASE t # {}
      <4>1. Max(t) \in 1..n /\ t \ {Max(t)} \in SUBSET (1..n)
        BY <1>1, <3>2, MaxOfPositions
      <4>2. g[t \ {Max(t)}] \in Nat
        BY <1>3, <4>1
      <4>3. adds[<<Max(t), g[t \ {Max(t)}]>>] = SpendStep(a, runs[Max(t)], g[t \ {Max(t)}])
        BY <4>1, <4>2
      <4>4. g[t] = adds[<<Max(t), g[t \ {Max(t)}]>>]
        BY <1>3, <3>2 DEF FoldsPositions
      <4> HIDE DEF adds
      <4> QED  BY <3>2, <4>3, <4>4 DEF SpendStep
    <3> QED  BY <3>1, <3>2
  <2> QED
    BY <1>1, <1>3, <2>1
<1>5. Solves(iter)
  <2> HIDE DEF Solves
  <2> QED  BY <1>4
<1>6. iter[{}] = 0
  BY <1>1, <1>5
<1>7. ASSUME NEW k \in 1..n
      PROVE  iter[1..k] = SpendStep(a, runs[k], iter[1..(k - 1)])
  <2>1. k - 1 \in Nat /\ (k - 1) + 1 = k
    BY <1>1
  <2>2. Max(1..k) = k /\ (1..k) \ {k} = 1..(k - 1) /\ 1..k # {}
    BY <2>1, LastOfAll
  <2>3. 1..k \in SUBSET DOMAIN runs
    BY <1>1
  <2> HIDE DEF iter
  <2>4. iter[1..k] = IF runs[Max(1..k)].ok
                     THEN iter[(1..k) \ {Max(1..k)}] + a.specs[runs[Max(1..k)].call.tool].cost
                     ELSE iter[(1..k) \ {Max(1..k)}]
    BY <1>5, <2>2, <2>3
  <2> QED
    BY <2>2, <2>4 DEF SpendStep
<1> DEFINE c == [k \in 0..n |-> iter[1..k]]
<1>8. c[0] = 0 /\ c[n] = iter[1..n] /\ \A k \in 1..n : c[k] = SpendStep(a, runs[k], c[k - 1])
  <2>1. 1..0 = {}
    OBVIOUS
  <2> HIDE DEF iter
  <2> QED  BY <1>1, <1>6, <1>7, <2>1
<1> HIDE DEF c, iter
<1> QED
  BY <1>2, <1>8

LEMMA SpendOfNone ==
  ASSUME NEW a  PROVE SpendOf(a, <<>>) = 0
<1>1. Costed(a, <<>>) /\ Len(<<>>) = 0
  <2>1. <<>> \in Seq(RunRecord) /\ DOMAIN <<>> = {} /\ Len(<<>>) = 0
    OBVIOUS
  <2> QED  BY <2>1 DEF Costed
<1> QED
  BY <1>1, SpendChain

LEMMA SpendType ==
  ASSUME NEW a, NEW runs, Costed(a, runs)
  PROVE  SpendOf(a, runs) \in Nat
<1>1. PICK c : /\ c[0] = 0 /\ SpendOf(a, runs) = c[Len(runs)]
               /\ \A k \in 1..Len(runs) : c[k] = SpendStep(a, runs[k], c[k - 1])
  BY SpendChain
<1>2. Len(runs) \in Nat /\ DOMAIN runs = 1..Len(runs)
  BY DEF Costed
<1>3. ASSUME NEW k \in 1..Len(runs), c[k - 1] \in Nat  PROVE c[k] \in Nat
  <2>1. c[k] = SpendStep(a, runs[k], c[k - 1])
    BY <1>1
  <2>2. runs[k].ok => a.specs[runs[k].call.tool].cost \in Nat
    BY <1>2 DEF Costed
  <2> HIDE DEF Costed
  <2> QED  BY <1>3, <2>1, <2>2 DEF SpendStep
<1>4. c[Len(runs)] \in Nat
  <2> DEFINE n == Len(runs)
  <2>1. n \in Nat /\ c[0] \in Nat /\ \A k \in 1..n : c[k - 1] \in Nat => c[k] \in Nat
    BY <1>1, <1>2, <1>3
  <2> HIDE DEF n
  <2>2. c[n] \in Nat
    BY <2>1, ChainStays
  <2> QED  BY <2>2 DEF n
<1> QED
  BY <1>1, <1>4

\* One more run adds its cost, if it succeeded.
LEMMA SpendOfOneMore ==
  ASSUME NEW a, NEW runs, NEW r, Costed(a, runs), Costed(a, Append(runs, r)), r \in RunRecord
  PROVE  SpendOf(a, Append(runs, r)) = SpendStep(a, r, SpendOf(a, runs))
<1> DEFINE n == Len(runs)
           more == Append(runs, r)
<1>1. PICK c : /\ c[0] = 0 /\ SpendOf(a, runs) = c[n]
               /\ \A k \in 1..n : c[k] = SpendStep(a, runs[k], c[k - 1])
  BY SpendChain
<1>2. /\ n \in Nat /\ Len(more) = n + 1 /\ more[n + 1] = r
      /\ \A k \in 1..n : more[k] = runs[k]
      /\ Costed(a, more)
  BY DEF Costed
<1> HIDE DEF more, n
<1>3. PICK d : /\ d[0] = 0 /\ SpendOf(a, more) = d[Len(more)]
               /\ \A k \in 1..Len(more) : d[k] = SpendStep(a, more[k], d[k - 1])
  BY <1>2, SpendChain
<1>4. c[n] = d[n]
  <2>1. \A k \in 1..n : c[k - 1] = d[k - 1] => c[k] = d[k]
    BY <1>1, <1>2, <1>3
  <2> QED  BY <1>1, <1>2, <1>3, <2>1, ChainsAgree
<1>5. d[n + 1] = SpendStep(a, r, d[n])
  BY <1>2, <1>3
<1> QED
  BY <1>1, <1>2, <1>3, <1>4, <1>5 DEF more

-----------------------------------------------------------------------------
(* What a trail tells.                                                     *)

Told(e, told) == IF e.event \in RunEvents THEN Append(told, e.action) ELSE told
Actions == Names \cup {TaskExecute}

\* What some entries tell of is the end of a chain that grows entry by entry.
LEMMA ToldChain ==
  ASSUME NEW entries \in Seq(LogRecord)
  PROVE  \E c : /\ c[0] = <<>> /\ ToldBy(entries) = c[Len(entries)]
                /\ \A k \in 1..Len(entries) : c[k] = Told(entries[k], c[k - 1])
<1> DEFINE n == Len(entries)
           adds == [p \in (1..n) \X Seq(Actions) |-> Told(entries[p[1]], p[2])]
           Solves(g) == g = [t \in SUBSET DOMAIN entries |->
                               IF t = {} THEN <<>>
                               ELSE IF entries[Max(t)].event \in RunEvents
                                    THEN Append(g[t \ {Max(t)}], entries[Max(t)].action)
                                    ELSE g[t \ {Max(t)}]]
           iter == CHOOSE g : Solves(g)
<1>1. n \in Nat /\ DOMAIN entries = 1..n /\ <<>> \in Seq(Actions)
  OBVIOUS
<1>2. ToldBy(entries) = iter[1..n]
  BY <1>1, Zenon DEF ToldBy, FoldLeft, MapThenFoldSet
<1>3. PICK g \in [SUBSET (1..n) -> Seq(Actions)] : FoldsPositions(g, n, <<>>, adds)
  <2>1. adds \in [(1..n) \X Seq(Actions) -> Seq(Actions)]
    <3>1. ASSUME NEW k \in 1..n, NEW told \in Seq(Actions)
          PROVE  Told(entries[k], told) \in Seq(Actions)
      <4>1. entries[k] \in LogRecord
        OBVIOUS
      <4>2. entries[k].action \in Actions
        BY <4>1 DEF LogRecord, Actions
      <4> QED  BY <4>2 DEF Told
    <3> QED  BY <3>1
  <2> HIDE DEF adds, n
  <2> QED
    BY <1>1, <2>1, FoldExists DEF Foldable
<1>4. Solves(g)
  <2>1. ASSUME NEW t \in SUBSET (1..n)
        PROVE  g[t] = IF t = {} THEN <<>>
                      ELSE IF entries[Max(t)].event \in RunEvents
                           THEN Append(g[t \ {Max(t)}], entries[Max(t)].action)
                           ELSE g[t \ {Max(t)}]
    <3>1. CASE t = {}
      BY <1>3, <3>1 DEF FoldsPositions
    <3>2. CASE t # {}
      <4>1. Max(t) \in 1..n /\ t \ {Max(t)} \in SUBSET (1..n)
        BY <1>1, <3>2, MaxOfPositions
      <4>2. g[t \ {Max(t)}] \in Seq(Actions)
        BY <1>3, <4>1
      <4>3. adds[<<Max(t), g[t \ {Max(t)}]>>] = Told(entries[Max(t)], g[t \ {Max(t)}])
        BY <4>1, <4>2
      <4>4. g[t] = adds[<<Max(t), g[t \ {Max(t)}]>>]
        BY <1>3, <3>2 DEF FoldsPositions
      <4> HIDE DEF adds
      <4> QED  BY <3>2, <4>3, <4>4 DEF Told
    <3> QED  BY <3>1, <3>2
  <2> QED
    BY <1>1, <1>3, <2>1
<1>5. Solves(iter)
  <2> HIDE DEF Solves
  <2> QED  BY <1>4
<1>6. iter[{}] = <<>>
  BY <1>1, <1>5
<1>7. ASSUME NEW k \in 1..n
      PROVE  iter[1..k] = Told(entries[k], iter[1..(k - 1)])
  <2>1. k - 1 \in Nat /\ (k - 1) + 1 = k
    BY <1>1
  <2>2. Max(1..k) = k /\ (1..k) \ {k} = 1..(k - 1) /\ 1..k # {}
    BY <2>1, LastOfAll
  <2>3. 1..k \in SUBSET DOMAIN entries
    BY <1>1
  <2> HIDE DEF iter
  <2>4. iter[1..k] = IF entries[Max(1..k)].event \in RunEvents
                     THEN Append(iter[(1..k) \ {Max(1..k)}], entries[Max(1..k)].action)
                     ELSE iter[(1..k) \ {Max(1..k)}]
    BY <1>5, <2>2, <2>3
  <2> QED
    BY <2>2, <2>4 DEF Told
<1> DEFINE c == [k \in 0..n |-> iter[1..k]]
<1>8. c[0] = <<>> /\ c[n] = iter[1..n] /\ \A k \in 1..n : c[k] = Told(entries[k], c[k - 1])
  <2>1. 1..0 = {}
    OBVIOUS
  <2> HIDE DEF iter
  <2> QED  BY <1>1, <1>6, <1>7, <2>1
<1> HIDE DEF c, iter
<1> QED
  BY <1>2, <1>8

LEMMA ToldByNone == ToldBy(<<>>) = <<>>
<1>1. <<>> \in Seq(LogRecord) /\ Len(<<>>) = 0
  OBVIOUS
<1> QED
  BY <1>1, ToldChain

\* One more entry tells of one more tool, if it is about a run.
LEMMA ToldByOneMore ==
  ASSUME NEW entries \in Seq(LogRecord), NEW e \in LogRecord
  PROVE  ToldBy(Append(entries, e)) = Told(e, ToldBy(entries))
<1> DEFINE n == Len(entries)
           more == Append(entries, e)
<1>1. PICK c : /\ c[0] = <<>> /\ ToldBy(entries) = c[n]
               /\ \A k \in 1..n : c[k] = Told(entries[k], c[k - 1])
  BY ToldChain
<1>2. /\ n \in Nat /\ Len(more) = n + 1 /\ more[n + 1] = e /\ more \in Seq(LogRecord)
      /\ \A k \in 1..n : more[k] = entries[k]
  OBVIOUS
<1> HIDE DEF more, n
<1>3. PICK d : /\ d[0] = <<>> /\ ToldBy(more) = d[Len(more)]
               /\ \A k \in 1..Len(more) : d[k] = Told(more[k], d[k - 1])
  BY <1>2, ToldChain
<1>4. c[n] = d[n]
  <2>1. \A k \in 1..n : c[k - 1] = d[k - 1] => c[k] = d[k]
    BY <1>1, <1>2, <1>3
  <2> QED  BY <1>1, <1>2, <1>3, <2>1, ChainsAgree
<1>5. d[n + 1] = Told(e, d[n])
  BY <1>2, <1>3
<1> QED
  BY <1>1, <1>2, <1>3, <1>4, <1>5 DEF more

\* The tools of some runs and one more.
LEMMA ToolsOfOneMore ==
  ASSUME NEW runs \in Seq(RunRecord), NEW r \in RunRecord
  PROVE  /\ ToolsOf(runs) \in Seq(Names) /\ r.call.tool \in Names
         /\ ToolsOf(Append(runs, r)) = Append(ToolsOf(runs), r.call.tool)
         /\ Front(ToolsOf(Append(runs, r))) = ToolsOf(runs)
<1>1. r.call.tool \in Names /\ \A i \in DOMAIN runs : runs[i].call.tool \in Names
  <2>1. \A i \in DOMAIN runs : runs[i] \in RunRecord
    OBVIOUS
  <2>2. \A x \in RunRecord : x.call.tool \in Names
    BY DEF RunRecord, CallRecord
  <2> QED  BY <2>1, <2>2
<1>2. ToolsOf(runs) \in Seq(Names) /\ Len(ToolsOf(runs)) = Len(runs)
  BY <1>1 DEF ToolsOf
<1>3. ToolsOf(Append(runs, r)) \in Seq(Names) /\ Len(ToolsOf(Append(runs, r))) = Len(runs) + 1
  BY <1>1 DEF ToolsOf
<1>4. \A i \in 1..(Len(runs) + 1) :
        ToolsOf(Append(runs, r))[i] = Append(ToolsOf(runs), r.call.tool)[i]
  <2>1. \A i \in 1..Len(runs) : ToolsOf(Append(runs, r))[i] = ToolsOf(runs)[i]
    BY DEF ToolsOf
  <2>2. ToolsOf(Append(runs, r))[Len(runs) + 1] = r.call.tool
    BY DEF ToolsOf
  <2> QED  BY <1>1, <1>2, <2>1, <2>2
<1>5. ToolsOf(Append(runs, r)) = Append(ToolsOf(runs), r.call.tool)
  <2> DEFINE x == ToolsOf(Append(runs, r))
             y == ToolsOf(runs)
             m == r.call.tool
  <2> HIDE DEF x, y, m
  <2>1. x = Append(y, m)
    BY <1>1, <1>2, <1>3, <1>4 DEF x, y, m
  <2> QED  BY <2>1 DEF x, y, m
<1>6. Front(Append(ToolsOf(runs), r.call.tool)) = ToolsOf(runs)
  <2> DEFINE y == ToolsOf(runs)
             m == r.call.tool
  <2> HIDE DEF y, m
  <2>1. y \in Seq(Names) /\ m \in Names
    BY <1>1, <1>2 DEF y, m
  <2>2. Front(Append(y, m)) = y
    BY <2>1 DEF Front
  <2> QED  BY <2>2 DEF y, m
<1> QED
  BY <1>1, <1>2, <1>5, <1>6

-----------------------------------------------------------------------------
(* Every call is answered.                                                 *)

\* Each call before the one the loop is at has its answer, and when the loop
\* comes round all have.
Answered ==
  /\ pc \in InGates => /\ Len(replies) = at - 1
                       /\ \A i \in 1..(at - 1) : replies[i] = calls[i]
  /\ pc \in {"start", "loop", "limit", "llm"} => replies = calls

\* The answer to the call at hand is the next in order, and the last of all if
\* the loop comes round.
LEMMA NextCallAnswers ==
  ASSUME IInv, pc \in InGates, Answered, NextCall
  PROVE  Answered'
<1>1. /\ Tool \in Names /\ calls \in Seq(Names) /\ at \in 1..Len(calls)
      /\ replies \in Seq(Names) /\ Tool = calls[at]
  BY ToolType DEF IInv, TypeOK, Tool
<1>2. Len(replies) = at - 1 /\ \A i \in 1..(at - 1) : replies[i] = calls[i]
  BY DEF Answered
<1>3. replies' = Append(replies, Tool) /\ calls' = calls /\ at' = at + 1
  BY DEF NextCall
<1>4. /\ Len(replies') = at' - 1 /\ replies' \in Seq(Names)
      /\ \A i \in 1..(at' - 1) : replies'[i] = calls'[i]
  BY <1>1, <1>2, <1>3
<1>5. CASE at < Len(calls)
  <2>1. pc' = "gates"
    BY <1>5 DEF NextCall
  <2> QED  BY <1>4, <2>1 DEF Answered, InGates
<1>6. CASE ~(at < Len(calls))
  <2>1. pc' = "loop" /\ at = Len(calls)
    BY <1>1, <1>6 DEF NextCall
  <2>2. Len(replies') = Len(calls') /\ calls' \in Seq(Names)
    BY <1>1, <1>3, <1>4, <2>1
  <2>3. replies' = calls'
    BY <1>3, <1>4, <2>1, <2>2
  <2> QED  BY <2>1, <2>3 DEF Answered, InGates
<1> QED
  BY <1>5, <1>6

\* Gate 3 always has a verdict.
LEMMA PolicyGateRules ==
  ASSUME IInv, PolicyGate
  PROVE  effect' \in Effects
<1>1. agent.rules \in Seq(ToSet(agent.rules))
  BY AgentsAssumption DEF IInv, TypeOK
<1>2. effect' = Evaluate(agent.rules, Tool, <<>>, now)
  BY DEF PolicyGate
<1> QED
  BY <1>1, <1>2, EvaluateType

LEMMA AnsweredStep == IInv /\ Answered /\ [Next]_vars => Answered'
<1> SUFFICES ASSUME IInv, Answered, [Next]_vars  PROVE Answered'
  OBVIOUS
<1> USE DEF InGates
<1>1. CASE UNCHANGED vars \/ Tick \/ Returned
  BY <1>1 DEF vars, Tick, Returned, turn, Answered
<1>2. CASE \/ Start \/ DenyTask \/ BeginStep \/ StepLimit
           \/ CompletionFails \/ FinalAnswer \/ TaskError
  <2>1. /\ UNCHANGED <<calls, at, replies>>
        /\ pc \in {"start", "denied", "loop", "limit", "llm", "answer", "failing"}
        /\ \/ pc' \in {"denied", "done", "failing"}
           \/ pc' \in {"loop", "llm", "limit"} /\ pc \in {"start", "loop"}
    BY <1>2 DEF Start, DenyTask, BeginStep, StepLimit, CompletionFails, FinalAnswer, TaskError,
       turn, Return, Raise, RaiseOut
  <2> QED  BY <2>1 DEF Answered
<1>3. CASE Completion
  <2>1. at' = 1 /\ replies' = <<>> /\ pc' \in {"answer", "gates"}
    BY <1>3 DEF Completion
  <2>2. Len(<<>>) = 0 /\ 1..(1 - 1) = {}
    OBVIOUS
  <2> QED  BY <2>1, <2>2 DEF Answered
<1>4. CASE \/ UnknownTool \/ LacksPermission \/ PolicyGate \/ Escalation \/ BudgetGate
           \/ ApprovalGate \/ ToolReturns \/ ToolRaises
  <2>1. pc \in InGates
    BY <1>4 DEF UnknownTool, LacksPermission, PolicyGate, Escalation, BudgetGate, ApprovalGate,
       ToolReturns, ToolRaises
  <2>2. \/ NextCall
        \/ UNCHANGED turn /\ pc' \in {"budget", "escalated", "approval", "exec", "failing"}
    BY <1>4, PolicyGateRules DEF Effects, UnknownTool, LacksPermission, PolicyGate, Escalation, BudgetGate, ApprovalGate,
       ToolReturns, ToolRaises, Refuse, Raise
  <2>3. CASE NextCall
    BY <2>1, <2>3, NextCallAnswers
  <2>4. CASE UNCHANGED turn /\ pc' \in {"budget", "escalated", "approval", "exec", "failing"}
    BY <2>1, <2>4 DEF Answered, turn
  <2> QED  BY <2>2, <2>3, <2>4
<1> QED
  BY <1>1, <1>2, <1>3, <1>4 DEF Next, Proceed

(***************************************************************************)
(* Whatever the gates decide, the humans answer and the audit log fails,   *)
(* the model is asked again only when each call of its last response has   *)
(* exactly one answer, in order.                                           *)
(***************************************************************************)
THEOREM CallsAlwaysAnswered == Spec => []EveryCallAnswered
<1>1. Init => Answered
  BY DEF Init, Answered, InGates
<1>2. Answered => EveryCallAnswered
  BY DEF Answered, EveryCallAnswered
<1> QED
  BY <1>1, <1>2, Invariance, AnsweredStep, PTL DEF Spec

-----------------------------------------------------------------------------
(* Tool costs stay within the limit.                                       *)

SpendBounded ==
  /\ Costed(agent, ran)
  /\ SpendOf(agent, ran) <= spent
  /\ SpendOf(agent, ran) <= agent.limits.cost

LEMMA SpendStays ==
  ASSUME IInv, SpendBounded, UNCHANGED <<agent, ran>>, spent' \in Nat, spent' >= spent
  PROVE  SpendBounded'
<1>1. SpendOf(agent, ran) \in Nat /\ spent \in Nat
  BY SpendType DEF SpendBounded, IInv, TypeOK
<1> QED
  BY <1>1 DEF SpendBounded

\* The tool about to run was allowed its cost on top of what has been spent.
LEMMA SpendGrows ==
  ASSUME IInv, SpendBounded, ToolReturns \/ ToolRaises
  PROVE  SpendBounded'
<1> DEFINE call == [tool |-> Tool, effect |-> effect, yes |-> yes]
<1>1. /\ pc = "exec" /\ pc \in InGates /\ agent' = agent
      /\ \E ok \in BOOLEAN :
           /\ ran' = Append(ran, [call |-> call, before |-> spent, ok |-> ok])
           /\ spent' = IF ok THEN spent + ToolSpec.cost ELSE spent
  BY DEF ToolReturns, ToolRaises, Ran, config, InGates
<1>2. PICK ok \in BOOLEAN :
        /\ ran' = Append(ran, [call |-> call, before |-> spent, ok |-> ok])
        /\ spent' = IF ok THEN spent + ToolSpec.cost ELSE spent
  BY <1>1
<1>3. /\ Tool \in Names /\ Tool \in DOMAIN agent.specs /\ ToolSpec.cost \in Nat
      /\ effect \in Effects \cup {"none"} /\ yes \in Nat /\ spent \in Nat
      /\ CheckCost(agent.limits, spent, ToolSpec.cost) = "allow"
  BY <1>1, ToolType DEF IInv, TypeOK, Judged
<1>4. spent + ToolSpec.cost <= agent.limits.cost
  <2>1. agent.limits.cost \in Nat /\ agent.limits.approvalAbove \in Nat
    BY AgentsAssumption DEF IInv, TypeOK
  <2> QED  BY <1>3, <2>1, CheckCostBounds
<1> DEFINE r == [call |-> call, before |-> spent, ok |-> ok]
<1>5. r \in RunRecord /\ r.ok = ok /\ r.call.tool = Tool
  BY <1>3 DEF RunRecord, CallRecord
<1>6. agent.specs[r.call.tool].cost = ToolSpec.cost
  BY <1>5 DEF ToolSpec
<1>7. Costed(agent, ran) /\ SpendOf(agent, ran) \in Nat
  BY SpendType DEF SpendBounded
<1> HIDE DEF r
<1>8. Costed(agent, Append(ran, r))
  <2>1. Append(ran, r) \in Seq(RunRecord)
    BY <1>5, <1>7 DEF Costed
  <2>2. \A i \in DOMAIN Append(ran, r) :
          (i \in DOMAIN ran /\ Append(ran, r)[i] = ran[i]) \/ Append(ran, r)[i] = r
    BY <1>5, <1>7 DEF Costed
  <2>3. ASSUME NEW i \in DOMAIN Append(ran, r), Append(ran, r)[i].ok
        PROVE  agent.specs[Append(ran, r)[i].call.tool].cost \in Nat
    <3>1. CASE i \in DOMAIN ran /\ Append(ran, r)[i] = ran[i]
      BY <2>3, <3>1, <1>7 DEF Costed
    <3>2. CASE Append(ran, r)[i] = r
      BY <3>2, <1>3, <1>6
    <3> QED  BY <2>2, <2>3, <3>1, <3>2
  <2> QED  BY <2>1, <2>3 DEF Costed
<1>9. SpendOf(agent, Append(ran, r)) = SpendStep(agent, r, SpendOf(agent, ran))
  BY <1>5, <1>7, <1>8, SpendOfOneMore
<1>10. ran' = Append(ran, r)
  BY <1>2 DEF r
<1>11. /\ SpendOf(agent, Append(ran, r)) <= spent'
       /\ SpendOf(agent, Append(ran, r)) <= agent.limits.cost
  <2>1. CASE ok
    <3>1. SpendOf(agent, Append(ran, r)) = SpendOf(agent, ran) + ToolSpec.cost
      BY <1>5, <1>6, <1>9, <2>1 DEF SpendStep
    <3>2. spent' = spent + ToolSpec.cost /\ SpendOf(agent, ran) <= spent
      BY <1>2, <2>1 DEF SpendBounded
    <3>3. agent.limits.cost \in Nat
      BY AgentsAssumption DEF IInv, TypeOK
    <3> QED  BY <1>3, <1>4, <1>7, <3>1, <3>2, <3>3
  <2>2. CASE ~ok
    <3>1. SpendOf(agent, Append(ran, r)) = SpendOf(agent, ran) /\ spent' = spent
      BY <1>2, <1>5, <1>9, <2>2 DEF SpendStep
    <3> QED  BY <3>1 DEF SpendBounded
  <2> QED  BY <2>1, <2>2
<1> QED
  BY <1>1, <1>8, <1>10, <1>11 DEF SpendBounded

LEMMA SpendBoundedStep == IInv /\ SpendBounded /\ [Next]_vars => SpendBounded'
<1> SUFFICES ASSUME IInv, SpendBounded, [Next]_vars  PROVE SpendBounded'
  OBVIOUS
<1>1. spent \in Nat
  BY DEF IInv, TypeOK
<1>2. CASE Completion
  <2>1. PICK c \in LLMCosts : spent' = spent + c
    BY <1>2 DEF Completion
  <2>2. c \in Nat
    BY EnvironmentAssumption
  <2>3. UNCHANGED <<agent, ran>> /\ spent' \in Nat /\ spent' >= spent
    BY <1>1, <1>2, <2>1, <2>2 DEF Completion, config
  <2> QED  BY <2>3, SpendStays
<1>3. CASE ToolReturns \/ ToolRaises
  BY <1>3, SpendGrows
<1>4. CASE ~Completion /\ ~ToolReturns /\ ~ToolRaises
  <2>1. UNCHANGED <<agent, ran, spent>>
    BY <1>4 DEF Next, Proceed, Returned, Tick, vars, Start, DenyTask, BeginStep, StepLimit,
       CompletionFails, FinalAnswer, TaskError, UnknownTool, LacksPermission, PolicyGate,
       Escalation, BudgetGate, ApprovalGate, config
  <2> QED  BY <1>1, <2>1, SpendStays
<1> QED
  BY <1>2, <1>3, <1>4

(***************************************************************************)
(* However many completions are charged between a tool's cost check and    *)
(* the next, the recorded cost of a task's tools stays within the policy's *)
(* max_cost_per_task_usd.                                                  *)
(***************************************************************************)
THEOREM SpendAlwaysWithinLimit == Spec => []ToolSpendWithinLimit
<1>1. Init => SpendBounded
  <2> SUFFICES ASSUME Init  PROVE SpendBounded
    OBVIOUS
  <2>1. ran = <<>> /\ spent = 0 /\ agent.limits.cost \in Nat
    BY AgentsAssumption DEF Init
  <2>2. <<>> \in Seq(RunRecord) /\ DOMAIN <<>> = {}
    OBVIOUS
  <2> QED  BY <2>1, <2>2, SpendOfNone DEF SpendBounded, Costed
<1>2. SpendBounded => ToolSpendWithinLimit
  BY DEF SpendBounded, ToolSpendWithinLimit
<1> QED
  BY <1>1, <1>2, Invariance, SpendBoundedStep, PTL DEF Spec

-----------------------------------------------------------------------------
(* The audit trail tells the outcome.                                      *)

\* Until the call returns nothing in the trail closes it, and only a task on its
\* way to `except Exception` may have run a tool the trail does not tell of.
TrailInv ==
  /\ pc # "done" => result = "none" /\ \A i \in DOMAIN log : log[i].event \notin ClosingEvents
  /\ TrailTellsOutcome

LEMMA ClosingEventsAre ==
  /\ ClosingEvents = {"task.complete", "task.denied", "task.step_limit", "task.error"}
  /\ ClosingEvents \cap RunEvents = {}
<1>1. /\ ClosingEvent("completed") = {"task.complete"} /\ ClosingEvent("denied") = {"task.denied"}
      /\ ClosingEvent("failed") = {"task.step_limit", "task.error"}
  BY DEF ClosingEvent
<1> QED
  BY <1>1 DEF ClosingEvents, RunEvents

\* An entry that is not about a run and leaves the call open, or none.
LEMMA TrailGoesOn ==
  ASSUME IInv, TrailInv, pc # "done", pc # "failing", pc' # "done",
         UNCHANGED <<ran, result>>,
         \/ log' = log
         \/ \E e \in LogRecord : /\ e.event \notin ClosingEvents \cup RunEvents
                                 /\ log' = Append(log, e)
  PROVE  TrailInv'
<1>1. log \in Seq(LogRecord)
  BY DEF IInv, TypeOK, LogRecord
<1>2. /\ ToldBy(log) = ToolsOf(ran) /\ result = "none"
      /\ \A i \in DOMAIN log : log[i].event \notin ClosingEvents
  BY DEF TrailInv, TrailTellsOutcome
<1>3. ToldBy(log') = ToldBy(log) /\ \A i \in DOMAIN log' : log'[i].event \notin ClosingEvents
  <2>1. CASE log' = log
    BY <1>2, <2>1
  <2>2. ASSUME NEW e \in LogRecord, e.event \notin ClosingEvents \cup RunEvents,
               log' = Append(log, e)
        PROVE  /\ ToldBy(log') = ToldBy(log)
               /\ \A i \in DOMAIN log' : log'[i].event \notin ClosingEvents
    <3>1. ToldBy(log') = ToldBy(log)
      BY <1>1, <2>2, ToldByOneMore DEF Told
    <3>2. \A i \in DOMAIN log' : (i \in DOMAIN log /\ log'[i] = log[i]) \/ log'[i] = e
      BY <1>1, <2>2
    <3> QED  BY <1>2, <2>2, <3>1, <3>2
  <2> QED  BY <2>1, <2>2
<1> QED
  BY <1>2, <1>3 DEF TrailInv, TrailTellsOutcome

\* The call returns: with a closing entry of its status, or without any.
LEMMA TrailCloses ==
  ASSUME IInv, TrailInv, pc # "done", pc' = "done", UNCHANGED ran,
         pc = "failing" => result' \in {"failed", "raised"},
         \/ log' = log
         \/ \E e \in LogRecord : /\ e.event \in ClosingEvents \cap ClosingEvent(result')
                                 /\ log' = Append(log, e)
  PROVE  TrailInv'
<1>1. log \in Seq(LogRecord)
  BY DEF IInv, TypeOK, LogRecord
<1>2. \A i \in DOMAIN log : log[i].event \notin ClosingEvents
  BY DEF TrailInv
<1>3. \/ ToldBy(log) = ToolsOf(ran)
      \/ /\ result' \in {"failed", "raised"}
         /\ ran # <<>> /\ ToldBy(log) = Front(ToolsOf(ran))
  BY DEF TrailInv, TrailTellsOutcome
<1>4. /\ ToldBy(log') = ToldBy(log)
      /\ \A i \in DOMAIN log' : log'[i].event \in ClosingEvents
           => i = Len(log') /\ log'[i].event \in ClosingEvent(result')
  <2>1. CASE log' = log
    BY <1>2, <2>1
  <2>2. ASSUME NEW e \in LogRecord, e.event \in ClosingEvents \cap ClosingEvent(result'),
               log' = Append(log, e)
        PROVE  /\ ToldBy(log') = ToldBy(log)
               /\ \A i \in DOMAIN log' : log'[i].event \in ClosingEvents
                    => i = Len(log') /\ log'[i].event \in ClosingEvent(result')
    <3>1. ToldBy(log') = ToldBy(log)
      BY <1>1, <2>2, ToldByOneMore, ClosingEventsAre DEF Told
    <3>2. \A i \in DOMAIN log' : \/ i \in DOMAIN log /\ log'[i] = log[i]
                                 \/ i = Len(log') /\ log'[i] = e
      BY <1>1, <2>2
    <3> QED  BY <1>2, <2>2, <3>1, <3>2
  <2> QED  BY <2>1, <2>2
<1>5. ToolsOf(ran)' = ToolsOf(ran) /\ ToldBy(log)' = ToldBy(log')
  BY DEF ToolsOf
<1> QED
  BY <1>3, <1>4, <1>5 DEF TrailInv, TrailTellsOutcome

\* A tool ran, and the trail has its entry, or the insert has raised.
LEMMA TrailTellsRun ==
  ASSUME IInv, TrailInv, pc = "exec", ToolReturns \/ ToolRaises
  PROVE  TrailInv'
<1> DEFINE call == [tool |-> Tool, effect |-> effect, yes |-> yes]
<1>1. PICK ok \in BOOLEAN : ran' = Append(ran, [call |-> call, before |-> spent, ok |-> ok])
  BY DEF ToolReturns, ToolRaises, Ran
<1>2. /\ Tool \in Names /\ effect \in Effects \cup {"none"} /\ yes \in Nat /\ spent \in Nat
      /\ log \in Seq(LogRecord) /\ ran \in Seq(RunRecord)
  BY ToolType DEF IInv, TypeOK, LogRecord, RunRecord, CallRecord, InGates
<1> DEFINE r == [call |-> call, before |-> spent, ok |-> ok]
<1>3. r \in RunRecord /\ r.call.tool = Tool
  BY <1>2 DEF RunRecord, CallRecord
<1> HIDE DEF r
<1>4. ran' = Append(ran, r)
  BY <1>1 DEF r
<1>5. /\ ToolsOf(ran') = Append(ToolsOf(ran), Tool) /\ Front(ToolsOf(ran')) = ToolsOf(ran)
      /\ ran' # <<>>
  BY <1>2, <1>3, <1>4, ToolsOfOneMore
<1>6. /\ ToldBy(log) = ToolsOf(ran) /\ result = "none"
      /\ \A i \in DOMAIN log : log[i].event \notin ClosingEvents
  BY DEF TrailInv, TrailTellsOutcome
<1>7. /\ result' = result /\ pc' # "done"
      /\ \/ log' = log /\ pc' = "failing"
         \/ \E e \in RunEvents :
              log' = Append(log, [event |-> e, action |-> Tool, decision |-> "allow"])
  BY DEF ToolReturns, ToolRaises, Refuse, Write, NextCall, Raise, RunEvents
<1>8. CASE log' = log /\ pc' = "failing"
  BY <1>5, <1>6, <1>7, <1>8 DEF TrailInv, TrailTellsOutcome
<1>9. ASSUME NEW e \in RunEvents,
             log' = Append(log, [event |-> e, action |-> Tool, decision |-> "allow"])
      PROVE  TrailInv'
  <2> DEFINE entry == [event |-> e, action |-> Tool, decision |-> "allow"]
  <2>1. entry \in LogRecord /\ entry.event = e /\ entry.action = Tool
    BY <1>2 DEF LogRecord, RunEvents, Events, Effects
  <2> HIDE DEF entry
  <2>2. log' = Append(log, entry)
    BY <1>9 DEF entry
  <2>3. ToldBy(log') = ToolsOf(ran')
    <3>1. ToldBy(log') = Told(entry, ToldBy(log))
      BY <1>2, <2>1, <2>2, ToldByOneMore
    <3> QED  BY <1>5, <1>6, <1>9, <2>1, <3>1 DEF Told
  <2>4. \A i \in DOMAIN log' : log'[i].event \notin ClosingEvents
    <3>1. \A i \in DOMAIN log' : (i \in DOMAIN log /\ log'[i] = log[i]) \/ log'[i] = entry
      BY <1>2, <2>1, <2>2
    <3> QED  BY <1>6, <1>9, <2>1, <3>1, ClosingEventsAre
  <2>5. ToolsOf(ran)' = ToolsOf(ran') /\ ToldBy(log)' = ToldBy(log')
    BY DEF ToolsOf
  <2> QED
    BY <1>6, <1>7, <2>3, <2>4, <2>5 DEF TrailInv, TrailTellsOutcome
<1> QED
  BY <1>7, <1>8, <1>9

LEMMA TrailStep == IInv /\ TrailInv /\ [Next]_vars => TrailInv'
<1> SUFFICES ASSUME IInv, TrailInv, [Next]_vars  PROVE TrailInv'
  OBVIOUS
<1> DEFINE Entry(event, action, decision) ==
             [event |-> event, action |-> action, decision |-> decision]
<1>0. /\ \A event \in Events, action \in Actions, decision \in Effects :
           /\ Entry(event, action, decision) \in LogRecord
           /\ Entry(event, action, decision).event = event
      /\ TaskExecute \in Actions
  BY DEF LogRecord, Actions
<1>1. CASE UNCHANGED vars \/ Tick \/ Returned
  <2>1. UNCHANGED <<pc, ran, log, result>>
    BY <1>1 DEF vars, Tick, Returned
  <2> QED  BY <2>1 DEF TrailInv, TrailTellsOutcome, ToolsOf
<1>2. CASE ToolReturns \/ ToolRaises
  BY <1>2, TrailTellsRun DEF ToolReturns, ToolRaises
<1>3. CASE \/ Start \/ DenyTask \/ BeginStep \/ StepLimit \/ Completion
           \/ CompletionFails \/ FinalAnswer \/ TaskError
  <2>1. /\ UNCHANGED ran /\ pc # "done"
        /\ \/ /\ pc' # "done" /\ pc # "failing" /\ result' = result
              /\ \/ log' = log \/ log' = Append(log, Entry("task.start", TaskExecute, "allow"))
           \/ /\ pc' = "done" /\ log' = log /\ result' \in {"failed", "raised"}
           \/ /\ pc' = "done" /\ pc # "failing" /\ result' = "denied"
              /\ log' = Append(log, Entry("task.denied", TaskExecute, "deny"))
           \/ /\ pc' = "done" /\ pc # "failing" /\ result' = "completed"
              /\ log' = Append(log, Entry("task.complete", TaskExecute, "allow"))
           \/ /\ pc' = "done" /\ result' = "failed"
              /\ \/ log' = Append(log, Entry("task.step_limit", TaskExecute, "deny"))
                 \/ log' = Append(log, Entry("task.error", TaskExecute, "allow"))
    BY <1>3 DEF Start, DenyTask, BeginStep, StepLimit, Completion, CompletionFails, FinalAnswer,
       TaskError, Write, Return, Raise, RaiseOut
  <2>2. /\ {"task.start", "task.denied", "task.complete", "task.step_limit", "task.error"}
             \subseteq Events
        /\ {"allow", "deny"} \subseteq Effects
    BY DEF Events, Effects
  <2> HIDE DEF Entry
  <2>3. CASE pc' # "done"
    <3>1. "task.start" \notin ClosingEvents \cup RunEvents
      BY ClosingEventsAre DEF RunEvents
    <3> QED  BY <1>0, <2>1, <2>2, <2>3, <3>1, TrailGoesOn
  <2>4. CASE pc' = "done"
    <3>1. /\ "task.denied" \in ClosingEvents \cap ClosingEvent("denied")
          /\ "task.complete" \in ClosingEvents \cap ClosingEvent("completed")
          /\ {"task.step_limit", "task.error"} \subseteq ClosingEvents \cap ClosingEvent("failed")
      BY ClosingEventsAre DEF ClosingEvent
    <3> QED  BY <1>0, <2>1, <2>2, <2>4, <3>1, TrailCloses
  <2> QED  BY <2>3, <2>4
<1>4. CASE UnknownTool \/ LacksPermission \/ PolicyGate \/ Escalation \/ BudgetGate \/ ApprovalGate
  <2>1. /\ UNCHANGED <<ran, result>> /\ pc \in InGates /\ pc' # "done"
        /\ \/ log' = log
           \/ \E e \in {"tool.denied", "tool.escalated", "tool.budget_exceeded",
                        "tool.approval_required"}, d \in Effects :
                log' = Append(log, Entry(e, Tool, d))
    <3>1. CheckCost(agent.limits, spent, ToolSpec.cost) \in Effects
      BY DEF CheckCost, Effects
    <3>2. PolicyGate => effect' \in Effects
      BY PolicyGateRules
    <3> QED
      BY <1>4, <3>1, <3>2 DEF UnknownTool, LacksPermission, PolicyGate, Escalation, BudgetGate,
         ApprovalGate, Refuse, Write, NextCall, Raise, InGates, Effects
  <2>2. Tool \in Actions
    BY <2>1, ToolType DEF IInv, Actions
  <2>3. {"tool.denied", "tool.escalated", "tool.budget_exceeded", "tool.approval_required"}
          \subseteq Events \ (ClosingEvents \cup RunEvents)
    BY ClosingEventsAre DEF RunEvents, Events
  <2> HIDE DEF Entry
  <2> QED  BY <1>0, <2>1, <2>2, <2>3, TrailGoesOn DEF InGates
<1> QED
  BY <1>1, <1>2, <1>3, <1>4 DEF Next, Proceed

(***************************************************************************)
(* Wherever an audit insert raises: the trail has one entry per tool that  *)
(* ran, in order, but for the last one of a task that failed on an audit   *)
(* error, and what closes it is its last entry and agrees with the status. *)
(***************************************************************************)
THEOREM TrailAlwaysTellsOutcome == Spec => []TrailTellsOutcome
<1>1. Init => TrailInv
  <2> SUFFICES ASSUME Init  PROVE TrailInv
    OBVIOUS
  <2>1. /\ ran = <<>> /\ log = <<>> /\ result = "none"
        /\ DOMAIN <<>> = {} /\ ToolsOf(<<>>) = <<>>
    BY DEF Init, ToolsOf
  <2> QED  BY <2>1, ToldByNone DEF TrailInv, TrailTellsOutcome
<1>2. TrailInv => TrailTellsOutcome
  BY DEF TrailInv
<1> QED
  BY <1>1, <1>2, Invariance, TrailStep, PTL DEF Spec

=============================================================================
