---------------------------- MODULE RequestProofs ---------------------------
(***************************************************************************)
(* What holds, for any number of callers, workers, servers and faults, of  *)
(* the machinery a request goes through on its way to a task: the sliding  *)
(* window that may refuse it (RateLimiter), the store that answers a retry *)
(* (Idempotency) and the queue that runs the task it made (TaskQueue).     *)
(***************************************************************************)
EXTENDS TaskQueue, Idempotency, RateLimiter, OperatorLemmas, FiniteSetTheorems, SequenceTheorems, TLAPS

-----------------------------------------------------------------------------
(* The task queue: one run of a task at a time, and no outcome undone.     *)

\* A request's row is hidden until it commits, and stays hidden if it does not.
RowHidden ==
  \A t \in Tasks : api[t] # "answered" => row[t] = "absent"

\* A worker that found its row can go on only because the request committed.
FoundIsThere ==
  \A w \in Workers :
    worker[w].pc \in {"found", "running", "ran", "failing", "retrying"} => row[Task(w)] # "absent"

\* The row lock has one holder.
LockExcludes ==
  \A t \in Tasks : \A w, o \in Workers : Locks(w, t) /\ Locks(o, t) => w = o

QueueInv == TypeOK /\ RowHidden /\ FoundIsThere /\ LockExcludes

HeldPcs == {"received", "found", "running", "ran", "failing", "retrying"}
Holding == [pc : HeldPcs, msg : Message]

\* A worker that is not idle holds a message of a task.
LEMMA HoldsMessage ==
  ASSUME TypeOK, NEW w \in Workers, ~At(w, "idle")
  PROVE  worker[w] \in Holding /\ Msg(w) \in Message /\ Task(w) \in Tasks
<1>1. worker[w] \in Holding
  BY DEF TypeOK, At, Idle, Holding, HeldPcs
<1> QED
  BY <1>1 DEF Holding, Msg, Task, Message

\* Going on changes where the worker stands, and nothing else about it.
LEMMA GotoFacts ==
  ASSUME TypeOK, NEW w \in Workers, ~At(w, "idle"), NEW pc \in HeldPcs, Goto(w, pc)
  PROVE  /\ worker' \in [Workers -> {Idle} \cup Holding]
         /\ worker'[w].pc = pc /\ Task(w)' = Task(w)
         /\ \A o \in Workers : o # w => worker'[o] = worker[o]
<1>1. worker \in [Workers -> {Idle} \cup Holding]
  BY DEF TypeOK, Holding, HeldPcs
<1>2. worker[w] \in Holding
  BY HoldsMessage
<1>3. /\ [worker[w] EXCEPT !.pc = pc] \in Holding
      /\ [worker[w] EXCEPT !.pc = pc].pc = pc
      /\ [worker[w] EXCEPT !.pc = pc].msg = worker[w].msg
  BY <1>2 DEF Holding
<1>4. worker' = [worker EXCEPT ![w] = [worker[w] EXCEPT !.pc = pc]]
  BY <1>1 DEF Goto
<1> QED
  BY <1>1, <1>3, <1>4 DEF Task, Msg

LEMMA AckFacts ==
  ASSUME TypeOK, NEW w \in Workers, AckedBy(w)
  PROVE  /\ worker' \in [Workers -> {Idle} \cup Holding]
         /\ worker'[w] = Idle
         /\ \A o \in Workers : o # w => worker'[o] = worker[o]
BY DEF TypeOK, AckedBy, Holding, HeldPcs

LEMMA PublishFacts ==
  ASSUME TypeOK, NEW m \in Message, Publish(m)
  PROVE  waiting' \in [Message -> Nat]
BY DEF TypeOK, Publish

\* Everybody keeps its place but one worker, which goes on or lets go: what
\* the others hold stays excluded, and found.
LEMMA PlacesKept ==
  ASSUME QueueInv, NEW w \in Workers,
         \A o \in Workers : o # w => worker'[o] = worker[o],
         \A t \in Tasks : row[t] # "absent" => row'[t] # "absent",
         \/ worker'[w] = Idle
         \/ worker'[w].pc = "received"
         \/ /\ Task(w)' = Task(w) /\ ~At(w, "idle") /\ row[Task(w)] # "absent"
            /\ \/ worker'[w].pc \in {"found", "retrying"}
               \/ /\ worker'[w].pc \in {"running", "ran", "failing"}
                  /\ \A o \in Workers : Locks(o, Task(w)) => o = w
  PROVE  FoundIsThere' /\ LockExcludes'
<1>1. TypeOK /\ FoundIsThere /\ LockExcludes
  BY DEF QueueInv
<1>2. \A o \in Workers : o # w => Task(o)' = Task(o) /\ \A t \in Tasks : Locks(o, t)' = Locks(o, t)
  BY DEF Task, Msg, Locks
<1>3. FoundIsThere'
  <2>1. SUFFICES ASSUME NEW o \in Workers,
                        worker'[o].pc \in {"found", "running", "ran", "failing", "retrying"}
                 PROVE  row'[Task(o)'] # "absent"
    BY DEF FoundIsThere, Task, Msg
  <2>2. CASE o # w
    <3>1. ~At(o, "idle") /\ row[Task(o)] # "absent"
      BY <1>1, <1>2, <2>1, <2>2 DEF FoundIsThere, At
    <3>2. Task(o) \in Tasks
      BY <1>1, <3>1, HoldsMessage
    <3> QED  BY <1>2, <2>2, <3>1, <3>2
  <2>3. CASE o = w
    <3>1. Task(w)' = Task(w) /\ ~At(w, "idle") /\ row[Task(w)] # "absent"
      BY <2>1, <2>3 DEF Idle
    <3>2. Task(w) \in Tasks
      BY <1>1, <3>1, HoldsMessage
    <3> QED  BY <2>3, <3>1, <3>2
  <2> QED  BY <2>2, <2>3
<1>4. LockExcludes'
  <2>1. SUFFICES ASSUME NEW t \in Tasks, NEW o \in Workers, NEW p \in Workers,
                        Locks(o, t)', Locks(p, t)'
                 PROVE  o = p
    BY DEF LockExcludes
  <2>2. \A v \in Workers : v # w /\ Locks(w, t)' /\ Locks(v, t)' => FALSE
    <3>1. SUFFICES ASSUME NEW v \in Workers, v # w, Locks(w, t)', Locks(v, t)'  PROVE FALSE
      OBVIOUS
    <3>2. worker'[w].pc \in {"running", "ran", "failing"} /\ Task(w)' = t
      BY <3>1 DEF Locks
    <3>3. Task(w) = t /\ \A u \in Workers : Locks(u, Task(w)) => u = w
      BY <3>2 DEF Idle
    <3> QED  BY <1>2, <3>1, <3>3
  <2> QED  BY <1>1, <1>2, <2>1, <2>2 DEF LockExcludes
<1> QED
  BY <1>3, <1>4

LEMMA QueueInitially == Init => QueueInv
BY QueueAssumption DEF Init, QueueInv, TypeOK, RowHidden, FoundIsThere, LockExcludes, Locks, Idle

-----------------------------------------------------------------------------
(* One lemma per actor's steps.                                            *)

\* The request: its row appears with its commit, and only there.
LEMMA RequestStep ==
  ASSUME QueueInv, NEW t \in Tasks, Request(t) \/ AbortRequest(t)  PROVE QueueInv'
<1>1. TypeOK /\ RowHidden /\ FoundIsThere /\ LockExcludes
  BY DEF QueueInv
<1>2. [task |-> t, retries |-> 0] \in Message
  BY QueueAssumption DEF Message
<1>3. worker' = worker /\ UNCHANGED <<early, lost, faults>>
  BY DEF Request, Submit, Dispatch, FallBack, RunInline, CommitRequest, AbortRequest
<1>4. waiting' \in [Message -> Nat]
  <2>1. UNCHANGED waiting \/ Publish([task |-> t, retries |-> 0])
    BY DEF Request, Submit, Dispatch, FallBack, RunInline, CommitRequest, AbortRequest
  <2> QED  BY <1>1, <1>2, <2>1, PublishFacts DEF TypeOK
<1>5. /\ api[t] # "answered"
      /\ \/ UNCHANGED row /\ \E pc \in {"refused", "created", "queued", "inline", "ran", "aborted"} :
              api' = [api EXCEPT ![t] = pc]
         \/ /\ api' = [api EXCEPT ![t] = "answered"]
            /\ \E s \in Outcomes \cup {"queued"} : row' = [row EXCEPT ![t] = s]
  BY DEF Request, Submit, Dispatch, FallBack, RunInline, CommitRequest, AbortRequest
<1>6. TypeOK'
  BY <1>1, <1>3, <1>4, <1>5 DEF TypeOK
<1>7. RowHidden'
  BY <1>1, <1>5 DEF TypeOK, RowHidden
<1>8. \A v \in Tasks : row[v] # "absent" => row'[v] # "absent"
  BY <1>1, <1>5 DEF TypeOK, Outcomes
<1>9. FoundIsThere'
  <2>1. \A w \in Workers : ~At(w, "idle") => Task(w) \in Tasks
    BY <1>1, HoldsMessage
  <2> QED  BY <1>1, <1>3, <1>8, <2>1 DEF FoundIsThere, Task, Msg, At
<1>10. LockExcludes'
  BY <1>1, <1>3 DEF LockExcludes, Locks, Task, Msg
<1> QED
  BY <1>6, <1>7, <1>9, <1>10 DEF QueueInv

\* A worker writes its task's row only once it is there.
LEMMA WriteFacts ==
  ASSUME QueueInv, NEW w \in Workers, row[Task(w)] # "absent", ~At(w, "idle"),
         NEW s \in Outcomes, row' = [row EXCEPT ![Task(w)] = s], UNCHANGED api
  PROVE  /\ row' \in [Tasks -> Outcomes \cup {"absent", "queued"}]
         /\ RowHidden'
         /\ \A t \in Tasks : row[t] # "absent" => row'[t] # "absent"
<1>1. TypeOK /\ RowHidden /\ Task(w) \in Tasks
  BY HoldsMessage DEF QueueInv
<1> QED
  BY <1>1 DEF TypeOK, RowHidden, Outcomes

LEMMA ReceiveStep ==
  ASSUME QueueInv, NEW w \in Workers, Receive(w)  PROVE QueueInv'
<1>1. TypeOK /\ RowHidden
  BY DEF QueueInv
<1>2. PICK m \in Message :
        /\ waiting[m] > 0 /\ waiting' = [waiting EXCEPT ![m] = @ - 1]
        /\ worker' = [worker EXCEPT ![w] = Busy("received", m)]
  BY DEF Receive
<1>3. UNCHANGED <<row, api, early, lost, faults>>
  BY DEF Receive
<1>4. worker' \in [Workers -> {Idle} \cup Holding] /\ worker'[w].pc = "received"
        /\ \A o \in Workers : o # w => worker'[o] = worker[o]
  BY <1>1, <1>2 DEF TypeOK, Busy, Holding, HeldPcs
<1>5. waiting' \in [Message -> Nat]
  BY <1>1, <1>2 DEF TypeOK
<1>6. TypeOK' /\ RowHidden'
  BY <1>1, <1>3, <1>4, <1>5 DEF TypeOK, RowHidden, Holding, HeldPcs
<1>7. FoundIsThere' /\ LockExcludes'
  BY <1>3, <1>4, PlacesKept
<1> QED
  BY <1>6, <1>7 DEF QueueInv

\* A step that lets go of the message without writing the row.
LEMMA LetGoStep ==
  ASSUME QueueInv, NEW w \in Workers, AckedBy(w), UNCHANGED <<row, api>>,
         waiting' \in [Message -> Nat], early' \subseteq Tasks, lost' \subseteq Tasks,
         faults' \in 0..MaxFaults
  PROVE  QueueInv'
<1>1. TypeOK /\ RowHidden
  BY DEF QueueInv
<1>2. /\ worker' \in [Workers -> {Idle} \cup Holding] /\ worker'[w] = Idle
      /\ \A o \in Workers : o # w => worker'[o] = worker[o]
  BY <1>1, AckFacts
<1>3. TypeOK' /\ RowHidden'
  BY <1>1, <1>2 DEF TypeOK, RowHidden, Holding, HeldPcs
<1>4. FoundIsThere' /\ LockExcludes'
  BY <1>2, PlacesKept
<1> QED
  BY <1>3, <1>4 DEF QueueInv

\* A step that goes on with the message, having found its row.
LEMMA GoOnStep ==
  ASSUME QueueInv, NEW w \in Workers, ~At(w, "idle"), row[Task(w)] # "absent",
         NEW pc \in HeldPcs, Goto(w, pc),
         pc \in {"running", "ran", "failing"} => \A o \in Workers : Locks(o, Task(w)) => o = w,
         UNCHANGED row \/ \E s \in Outcomes : row' = [row EXCEPT ![Task(w)] = s],
         UNCHANGED <<api, waiting, early, lost, faults>>
  PROVE  QueueInv'
<1>1. TypeOK /\ RowHidden
  BY DEF QueueInv
<1>2. /\ worker' \in [Workers -> {Idle} \cup Holding]
      /\ worker'[w].pc = pc /\ Task(w)' = Task(w)
      /\ \A o \in Workers : o # w => worker'[o] = worker[o]
  BY <1>1, GotoFacts
<1>3. /\ row' \in [Tasks -> Outcomes \cup {"absent", "queued"}]
      /\ RowHidden'
      /\ \A t \in Tasks : row[t] # "absent" => row'[t] # "absent"
  BY <1>1, WriteFacts DEF TypeOK, RowHidden
<1>4. TypeOK'
  BY <1>1, <1>2, <1>3 DEF TypeOK, Holding, HeldPcs
<1>5. FoundIsThere' /\ LockExcludes'
  <2>1. pc \in {"received", "found", "retrying"} \/ pc \in {"running", "ran", "failing"}
    BY DEF HeldPcs
  <2> QED  BY <1>2, <1>3, <2>1, PlacesKept
<1> QED
  BY <1>3, <1>4, <1>5 DEF QueueInv

\* The commit of an outcome ends the transaction and acks the message.
LEMMA CommitStep ==
  ASSUME QueueInv, NEW w \in Workers, ~At(w, "idle"), row[Task(w)] # "absent", AckedBy(w),
         \E s \in Outcomes : row' = [row EXCEPT ![Task(w)] = s],
         UNCHANGED <<api, waiting, early, lost, faults>>
  PROVE  QueueInv'
<1>1. TypeOK
  BY DEF QueueInv
<1>2. /\ worker' \in [Workers -> {Idle} \cup Holding] /\ worker'[w] = Idle
      /\ \A o \in Workers : o # w => worker'[o] = worker[o]
  BY <1>1, AckFacts
<1>3. /\ row' \in [Tasks -> Outcomes \cup {"absent", "queued"}]
      /\ RowHidden'
      /\ \A t \in Tasks : row[t] # "absent" => row'[t] # "absent"
  BY WriteFacts
<1>4. TypeOK'
  BY <1>1, <1>2, <1>3 DEF TypeOK, Holding, HeldPcs
<1>5. FoundIsThere' /\ LockExcludes'
  BY <1>2, <1>3, PlacesKept
<1> QED
  BY <1>3, <1>4, <1>5 DEF QueueInv

LEMMA WorkStep ==
  ASSUME QueueInv, NEW w \in Workers, Work(w)  PROVE QueueInv'
<1>1. TypeOK /\ FoundIsThere /\ LockExcludes
  BY DEF QueueInv
<1>2. ~At(w, "idle") => worker[w] \in Holding /\ Msg(w) \in Message /\ Task(w) \in Tasks
  BY <1>1, HoldsMessage
<1>3. early \subseteq Tasks /\ lost \subseteq Tasks /\ faults \in 0..MaxFaults
        /\ waiting \in [Message -> Nat]
  BY <1>1 DEF TypeOK
<1>4. CASE Receive(w)
  BY <1>4, ReceiveStep
<1>5. CASE Load(w)
  <2>1. ~At(w, "idle") /\ UNCHANGED <<row, api, waiting, lost, faults>>
    BY <1>5 DEF Load, At
  <2>2. CASE row[Task(w)] = "absent"
    <3>1. AckedBy(w) /\ early' \subseteq Tasks
      BY <1>2, <1>3, <1>5, <2>1, <2>2 DEF Load
    <3> QED  BY <1>3, <2>1, <3>1, LetGoStep
  <2>3. CASE row[Task(w)] # "absent"
    <3>1. Goto(w, "found") /\ UNCHANGED early /\ "found" \in HeldPcs
      BY <1>5, <2>3 DEF Load, HeldPcs
    <3> QED  BY <2>1, <2>3, <3>1, GoOnStep
  <2> QED  BY <2>2, <2>3
<1>6. CASE Lock(w)
  <2>1. /\ ~At(w, "idle") /\ row[Task(w)] # "absent" /\ Goto(w, "running")
        /\ \A o \in Workers : ~Locks(o, Task(w))
        /\ UNCHANGED <<row, api, waiting, early, lost, faults>>
    BY <1>1, <1>6 DEF Lock, At, FoundIsThere
  <2> QED  BY <2>1, GoOnStep DEF HeldPcs
<1>7. CASE Run(w) \/ Raises(w)
  <2>1. /\ ~At(w, "idle") /\ row[Task(w)] # "absent" /\ Locks(w, Task(w))
        /\ UNCHANGED <<row, api, waiting, early, lost, faults>>
    BY <1>1, <1>7 DEF Run, Raises, At, FoundIsThere, Locks
  <2>2. \A o \in Workers : Locks(o, Task(w)) => o = w
    BY <1>1, <1>2, <2>1 DEF LockExcludes
  <2>3. Goto(w, "ran") \/ Goto(w, "failing")
    BY <1>7 DEF Run, Raises
  <2> QED  BY <2>1, <2>2, <2>3, GoOnStep DEF HeldPcs
<1>8. CASE CommitResult(w)
  <2>1. ~At(w, "idle") /\ row[Task(w)] # "absent"
    BY <1>1, <1>8 DEF CommitResult, At, FoundIsThere
  <2> QED  BY <1>8, <2>1, CommitStep DEF CommitResult
<1>9. CASE SessionBreaks(w)
  <2>1. ~At(w, "idle") /\ AckedBy(w) /\ UNCHANGED <<row, api, waiting, early, faults>>
          /\ lost' = lost \cup {Task(w)}
    BY <1>9 DEF SessionBreaks, At
  <2>2. lost' \subseteq Tasks
    BY <1>2, <1>3, <2>1
  <2> QED  BY <1>3, <2>1, <2>2, LetGoStep
<1>10. CASE CommitFailure(w)
  <2>1. /\ ~At(w, "idle") /\ row[Task(w)] # "absent"
        /\ row' = [row EXCEPT ![Task(w)] = "failed"] /\ "failed" \in Outcomes
        /\ Goto(w, "retrying") \/ AckedBy(w)
        /\ UNCHANGED <<api, waiting, early, lost, faults>>
    BY <1>1, <1>10 DEF CommitFailure, At, FoundIsThere, Outcomes
  <2>2. CASE Goto(w, "retrying")
    BY <2>1, <2>2, GoOnStep DEF HeldPcs
  <2>3. CASE AckedBy(w)
    BY <2>1, <2>3, CommitStep
  <2> QED  BY <2>1, <2>2, <2>3
<1>11. CASE Retry(w)
  <2>1. /\ At(w, "retrying") /\ ~At(w, "idle") /\ AckedBy(w)
        /\ UNCHANGED <<row, api, early, lost, faults>>
    BY <1>11 DEF Retry, At
  <2>2. waiting' \in [Message -> Nat]
    <3>1. UNCHANGED waiting \/ Publish([Msg(w) EXCEPT !.retries = @ + 1])
      BY <1>11 DEF Retry
    <3> QED  BY <1>3, <3>1 DEF Publish
  <2> QED  BY <1>3, <2>1, <2>2, LetGoStep
<1> QED
  BY <1>4, <1>5, <1>6, <1>7, <1>8, <1>9, <1>10, <1>11 DEF Work

LEMMA FaultStep ==
  ASSUME QueueInv, NEW w \in Workers, Die(w) \/ VisibilityTimeout(w)  PROVE QueueInv'
<1>1. TypeOK /\ RowHidden /\ FoundIsThere /\ LockExcludes
  BY DEF QueueInv
<1>2. Msg(w) \in Message /\ Task(w) \in Tasks
  BY <1>1, HoldsMessage DEF Die, VisibilityTimeout
<1>3. /\ early \subseteq Tasks /\ lost \subseteq Tasks
      /\ UNCHANGED <<row, api, early>> /\ faults' \in 0..MaxFaults
  BY <1>1, QueueAssumption DEF Die, VisibilityTimeout, TypeOK
<1>4. waiting' \in [Message -> Nat]
  BY <1>1, <1>2, PublishFacts DEF Die, VisibilityTimeout, TypeOK
<1>5. CASE Die(w)
  <2>1. AckedBy(w) /\ lost' \subseteq Tasks
    BY <1>2, <1>3, <1>5 DEF Die
  <2> QED  BY <1>3, <1>4, <2>1, LetGoStep
<1>6. CASE VisibilityTimeout(w)
  <2>1. UNCHANGED <<row, api, worker, early, lost>>
    BY <1>6 DEF VisibilityTimeout
  <2>2. TypeOK' /\ RowHidden'
    BY <1>1, <1>3, <1>4, <2>1 DEF TypeOK, RowHidden
  <2>3. FoundIsThere' /\ LockExcludes'
    BY <1>1, <2>1 DEF FoundIsThere, LockExcludes, Locks, Task, Msg
  <2> QED  BY <2>2, <2>3 DEF QueueInv
<1> QED
  BY <1>5, <1>6

LEMMA QueueStep == QueueInv /\ [Next]_vars => QueueInv'
<1>1. ASSUME QueueInv, UNCHANGED vars  PROVE QueueInv'
  BY <1>1 DEF vars, QueueInv, TypeOK, RowHidden, FoundIsThere, LockExcludes, Locks, Task, Msg
<1>2. ASSUME QueueInv, Next  PROVE QueueInv'
  BY <1>1, <1>2, RequestStep, WorkStep, FaultStep DEF Next, Rest
<1> QED
  BY <1>1, <1>2

\* In every reachable state a row is hidden until its request commits, a
\* worker past its SELECT has a row, and the row lock has one holder.
THEOREM QueueInvariance == Spec => []QueueInv
  BY QueueInitially, QueueStep, PTL DEF Spec

\* For any number of workers, redeliveries and retries, a task never runs in
\* two workers, nor in a worker and the request that fell back to running it.
THEOREM AlwaysOneRunAtATime == Spec => []OneRunAtATime
<1>1. ASSUME QueueInv  PROVE OneRunAtATime
  <2>1. TypeOK /\ RowHidden /\ FoundIsThere /\ LockExcludes
    BY <1>1 DEF QueueInv
  <2>2. ASSUME NEW t \in Tasks, NEW w \in Workers,
               worker[w].pc \in {"running", "ran"}, Task(w) = t
        PROVE  Locks(w, t) /\ api[t] = "answered"
    BY <2>1, <2>2 DEF Locks, RowHidden, FoundIsThere
  <2> QED  BY <2>1, <2>2 DEF OneRunAtATime, LockExcludes
<1> QED
  BY <1>1, QueueInvariance, PTL

\* For any interleaving of a request's commit with its workers, an outcome
\* that is committed stays one: the request's late "queued" comes first.
THEOREM NoOutcomeUndone == Spec => OutcomeNotUndone
<1>1. ASSUME QueueInv, [Next]_vars
      PROVE  [\A t \in Tasks : row[t] \in Outcomes => row'[t] \in Outcomes]_vars
  <2>1. SUFFICES ASSUME NEW t \in Tasks, row[t] \in Outcomes  PROVE row'[t] \in Outcomes
    OBVIOUS
  <2>2. row \in [Tasks -> Outcomes \cup {"absent", "queued"}] /\ api[t] = "answered"
    BY <1>1, <2>1 DEF QueueInv, TypeOK, RowHidden, Outcomes
  <2>3. ASSUME NEW u \in Tasks, Request(u) \/ AbortRequest(u)  PROVE row'[t] \in Outcomes
    <3>1. api[u] # "answered"
      BY <2>3 DEF Request, Submit, Dispatch, FallBack, RunInline, CommitRequest, AbortRequest
    <3>2. UNCHANGED row \/ \E s \in Outcomes \cup {"queued"} : row' = [row EXCEPT ![u] = s]
      BY <2>3 DEF Request, Submit, Dispatch, FallBack, RunInline, CommitRequest, AbortRequest
    <3> QED  BY <2>1, <2>2, <3>1, <3>2
  <2>4. ASSUME NEW w \in Workers, Work(w) \/ Die(w) \/ VisibilityTimeout(w)
        PROVE  row'[t] \in Outcomes
    <3>1. UNCHANGED row \/ \E s \in Outcomes : row' = [row EXCEPT ![Task(w)] = s]
      BY <2>4 DEF Work, Receive, Load, Lock, Run, CommitResult, Raises, SessionBreaks,
         CommitFailure, Retry, Die, VisibilityTimeout, Outcomes
    <3> QED  BY <2>1, <2>2, <3>1
  <2>5. CASE UNCHANGED vars
    BY <2>1, <2>5 DEF vars
  <2> QED  BY <1>1, <2>3, <2>4, <2>5 DEF Next, Rest
<1> QED
  BY <1>1, QueueInvariance, PTL DEF Spec, OutcomeNotUndone

-----------------------------------------------------------------------------
(* Idempotency: a key is executed once, unless its store lets it go.       *)

\* A stretch of a sequence, possibly empty.
LEMMA Slice ==
  ASSUME NEW S, NEW s \in Seq(S), NEW lo \in 1..(Len(s) + 1), NEW hi \in (lo - 1)..Len(s)
  PROVE  /\ SubSeq(s, lo, hi) \in Seq(S) /\ Len(SubSeq(s, lo, hi)) = hi - lo + 1
         /\ DOMAIN SubSeq(s, lo, hi) = 1..(hi - lo + 1)
         /\ \A j \in 1..(hi - lo + 1) : SubSeq(s, lo, hi)[j] = s[lo + j - 1]
<1> DEFINE r == SubSeq(s, lo, hi)
           n == hi - lo + 1
<1>1. /\ Len(s) \in Nat /\ lo \in Int /\ hi \in Int /\ lo >= 1 /\ hi <= Len(s) /\ n \in Nat
      /\ \A j \in lo..hi : s[j] \in S
  OBVIOUS
<1>2. /\ r \in Seq(S) /\ Len(r) = (IF lo <= hi THEN n ELSE 0)
      /\ \A j \in 1..n : r[j] = s[lo + j - 1]
  BY <1>1, SubSeqProperties
<1>3. ~(lo <= hi) => n = 0
  BY <1>1
<1> HIDE DEF r, n
<1>4. Len(r) = n
  BY <1>1, <1>2, <1>3
<1>5. DOMAIN r = 1..n
  BY <1>2, <1>4
<1> QED BY <1>2, <1>4, <1>5 DEF r, n

\* What is left of a sequence behind its first n elements.
LEMMA Behind ==
  ASSUME NEW S, NEW s \in Seq(S), NEW n \in 0..Len(s)
  PROVE  /\ SubSeq(s, n + 1, Len(s)) \in Seq(S) /\ Len(SubSeq(s, n + 1, Len(s))) = Len(s) - n
         /\ DOMAIN SubSeq(s, n + 1, Len(s)) = 1..(Len(s) - n)
         /\ \A i \in 1..(Len(s) - n) : SubSeq(s, n + 1, Len(s))[i] = s[n + i]
<1> DEFINE r == SubSeq(s, n + 1, Len(s))
<1>1. n + 1 \in 1..(Len(s) + 1) /\ Len(s) \in ((n + 1) - 1)..Len(s)
  OBVIOUS
<1>2. /\ r \in Seq(S) /\ Len(r) = Len(s) - (n + 1) + 1
      /\ DOMAIN r = 1..(Len(s) - (n + 1) + 1)
      /\ \A i \in 1..(Len(s) - (n + 1) + 1) : r[i] = s[(n + 1) + i - 1]
  BY <1>1, Slice
<1> HIDE DEF r
<1>3. Len(s) - (n + 1) + 1 = Len(s) - n /\ \A i \in 1..(Len(s) - n) : (n + 1) + i - 1 = n + i
  OBVIOUS
<1>4. /\ r \in Seq(S) /\ Len(r) = Len(s) - n /\ DOMAIN r = 1..(Len(s) - n)
      /\ \A i \in 1..(Len(s) - n) : r[i] = s[n + i]
  BY <1>2, <1>3
<1> QED BY <1>4 DEF r

Response == [status : Statuses \cup {"none"}, exec : Nat]
StoreEntry == [key : Keys, born : Nat, reply : Response]
CallRecord == [pc : {"ready", "waiting", "done"}, attempt : 0..MaxResends, answer : Response]
AttemptRecord == [pc : {"none", "received", "running", "executed", "gone"}, reply : Response]

\* What a sequence loses with one of its elements, and what it keeps.
LEMMA RemovedElement ==
  ASSUME NEW S, NEW s \in Seq(S), NEW i \in 1..Len(s)
  PROVE  /\ RemoveAt(s, i) \in Seq(S) /\ Len(RemoveAt(s, i)) = Len(s) - 1
         /\ Range(RemoveAt(s, i)) \subseteq Range(s)
         /\ Range(s) \subseteq Range(RemoveAt(s, i)) \cup {s[i]}
<1> DEFINE a == SubSeq(s, 1, i - 1)
           b == SubSeq(s, i + 1, Len(s))
<1>1. /\ Len(s) \in Nat /\ DOMAIN s = 1..Len(s) /\ i \in Int /\ i >= 1 /\ i <= Len(s)
      /\ \A j \in 1..Len(s) : s[j] \in S
  OBVIOUS
<1>2. /\ a \in Seq(S) /\ Len(a) = i - 1 /\ \A j \in 1..(i - 1) : a[j] = s[j]
  <2>1. 1 \in 1..(Len(s) + 1) /\ i - 1 \in (1 - 1)..Len(s)
    BY <1>1
  <2>2. /\ a \in Seq(S) /\ Len(a) = (i - 1) - 1 + 1
        /\ \A j \in 1..((i - 1) - 1 + 1) : a[j] = s[1 + j - 1]
    BY <2>1, Slice
  <2> HIDE DEF a
  <2>3. (i - 1) - 1 + 1 = i - 1 /\ \A j \in 1..(i - 1) : 1 + j - 1 = j
    BY <1>1
  <2> QED BY <2>2, <2>3
<1>3. /\ b \in Seq(S) /\ Len(b) = Len(s) - i /\ \A j \in 1..(Len(s) - i) : b[j] = s[i + j]
  <2>1. i \in 0..Len(s)
    BY <1>1
  <2> QED BY <2>1, Behind
<1> HIDE DEF a, b
<1> DEFINE r == a \o b
<1>4. RemoveAt(s, i) = r
  BY DEF RemoveAt, a, b
<1>5. /\ r \in Seq(S) /\ Len(r) = Len(s) - 1
      /\ \A j \in 1..(i - 1) : r[j] = s[j]
      /\ \A j \in i..(Len(s) - 1) : r[j] = s[j + 1]
  <2>1. /\ r \in Seq(S) /\ Len(r) = Len(a) + Len(b)
        /\ \A j \in 1..(Len(a) + Len(b)) : r[j] = IF j <= Len(a) THEN a[j] ELSE b[j - Len(a)]
    BY <1>2, <1>3, ConcatProperties
  <2>2. Len(a) + Len(b) = Len(s) - 1
    BY <1>1, <1>2, <1>3
  <2>3. ASSUME NEW j \in 1..(i - 1) PROVE r[j] = s[j]
    BY <1>1, <1>2, <2>1, <2>2, <2>3
  <2>4. ASSUME NEW j \in i..(Len(s) - 1) PROVE r[j] = s[j + 1]
    <3>1. j \in 1..(Len(a) + Len(b)) /\ ~(j <= Len(a)) /\ j - Len(a) \in 1..(Len(s) - i)
          /\ i + (j - Len(a)) = j + 1
      BY <1>1, <1>2, <2>2, <2>4
    <3> QED BY <1>3, <2>1, <3>1
  <2> QED BY <2>1, <2>2, <2>3, <2>4
<1> HIDE DEF r
<1>6. DOMAIN r = 1..(Len(s) - 1)
  BY <1>1, <1>5
<1>7. ASSUME NEW j \in 1..(Len(s) - 1) PROVE r[j] \in Range(s)
  <2>1. CASE j <= i - 1
    BY <1>1, <1>5, <2>1 DEF Range
  <2>2. CASE ~(j <= i - 1)
    <3>1. j \in i..(Len(s) - 1) /\ j + 1 \in 1..Len(s)
      BY <1>1, <2>2
    <3> QED BY <1>1, <1>5, <3>1 DEF Range
  <2> QED BY <2>1, <2>2
<1>8. ASSUME NEW j \in 1..Len(s), j # i PROVE s[j] \in Range(r)
  <2>1. CASE j < i
    <3>1. j \in 1..(i - 1) /\ j \in 1..(Len(s) - 1)
      BY <1>1, <2>1
    <3> QED BY <1>5, <1>6, <3>1 DEF Range
  <2>2. CASE j > i
    <3>1. j - 1 \in i..(Len(s) - 1) /\ j - 1 \in 1..(Len(s) - 1) /\ (j - 1) + 1 = j
      BY <1>1, <2>2
    <3>2. r[j - 1] = s[j]
      BY <1>5, <3>1
    <3> QED BY <1>6, <3>1, <3>2 DEF Range
  <2> QED BY <1>1, <1>8, <2>1, <2>2
<1>9. Range(r) \subseteq Range(s)
  BY <1>6, <1>7 DEF Range
<1>10. Range(s) \subseteq Range(r) \cup {s[i]}
  BY <1>1, <1>8 DEF Range
<1> QED BY <1>1, <1>4, <1>5, <1>9, <1>10

\* What a sequence gains with one more element.
LEMMA AppendedElement ==
  ASSUME NEW S, NEW s \in Seq(S), NEW e \in S
  PROVE  /\ Append(s, e) \in Seq(S) /\ Len(Append(s, e)) = Len(s) + 1
         /\ Range(Append(s, e)) = Range(s) \cup {e}
         /\ Last(Append(s, e)) = e
<1>1. /\ Len(s) \in Nat /\ DOMAIN s = 1..Len(s) /\ Append(s, e) \in Seq(S)
      /\ Len(Append(s, e)) = Len(s) + 1 /\ DOMAIN Append(s, e) = 1..(Len(s) + 1)
      /\ Append(s, e)[Len(s) + 1] = e /\ \A i \in 1..Len(s) : Append(s, e)[i] = s[i]
  OBVIOUS
<1>2. Range(Append(s, e)) \subseteq Range(s) \cup {e}
  <2>1. ASSUME NEW i \in 1..(Len(s) + 1) PROVE Append(s, e)[i] \in Range(s) \cup {e}
    <3>1. CASE i = Len(s) + 1
      BY <1>1, <3>1
    <3>2. CASE i # Len(s) + 1
      <4>1. i \in 1..Len(s)
        BY <1>1, <3>2
      <4> QED BY <1>1, <4>1 DEF Range
    <3> QED BY <3>1, <3>2
  <2> QED BY <1>1, <2>1 DEF Range
<1>3. Range(s) \cup {e} \subseteq Range(Append(s, e))
  <2>1. \A i \in 1..Len(s) : i \in 1..(Len(s) + 1)
    BY <1>1
  <2>2. Len(s) + 1 \in 1..(Len(s) + 1)
    BY <1>1
  <2> QED BY <1>1, <2>1, <2>2 DEF Range
<1>4. Last(Append(s, e)) = e
  BY <1>1 DEF Last
<1> QED BY <1>1, <1>2, <1>3, <1>4

\* get and set take out the entry of the key and leave the others.
LEMMA WithoutKey ==
  ASSUME cache \in Seq(StoreEntry), NEW k \in Keys
  PROVE  /\ Without(k) \in Seq(StoreEntry) /\ Len(Without(k)) <= Len(cache)
         /\ Entry(k) # {} => Len(Without(k)) + 1 = Len(cache)
         /\ Range(Without(k)) \subseteq Range(cache)
         /\ \A e \in Range(cache) : e.key # k => e \in Range(Without(k))
<1>0. Len(cache) \in Nat /\ DOMAIN cache = 1..Len(cache)
  OBVIOUS
<1>1. CASE Entry(k) = {}
  BY <1>0, <1>1 DEF Without
<1>2. CASE Entry(k) # {}
  <2> DEFINE i == CHOOSE j \in Entry(k) : TRUE
  <2>1. i \in Entry(k)
    BY <1>2
  <2>2. Without(k) = RemoveAt(cache, i)
    BY <1>2 DEF Without
  <2> HIDE DEF i
  <2>3. i \in 1..Len(cache) /\ cache[i].key = k
    BY <1>0, <2>1 DEF Entry
  <2>4. /\ RemoveAt(cache, i) \in Seq(StoreEntry) /\ Len(RemoveAt(cache, i)) = Len(cache) - 1
        /\ Range(RemoveAt(cache, i)) \subseteq Range(cache)
        /\ Range(cache) \subseteq Range(RemoveAt(cache, i)) \cup {cache[i]}
    BY <2>3, RemovedElement
  <2>5. Len(Without(k)) <= Len(cache) /\ Len(Without(k)) + 1 = Len(cache)
    BY <1>0, <2>2, <2>4
  <2> QED BY <2>2, <2>3, <2>4, <2>5
<1> QED BY <1>1, <1>2

\* popitem: what goes is blamed on the eviction, the rest stays.
LEMMA TrimKeeps ==
  ASSUME CacheSize \in Nat, NEW s \in Seq(StoreEntry)
  PROVE  /\ Trim(s) \in Seq(StoreEntry) /\ Len(Trim(s)) <= CacheSize
         /\ Range(Trim(s)) \subseteq Range(s)
         /\ \A e \in Range(s) : e.key \notin Popped(s) => e \in Range(Trim(s))
<1> DEFINE n == Excess(s)
           r == SubSeq(s, n + 1, Len(s))
<1>1. Len(s) \in Nat /\ DOMAIN s = 1..Len(s) /\ \A i \in 1..Len(s) : s[i] \in StoreEntry
  OBVIOUS
<1>2. n \in 0..Len(s) /\ Len(s) - n <= CacheSize
  <2>1. CASE Len(s) > CacheSize
    BY <1>1, <2>1 DEF Excess
  <2>2. CASE ~(Len(s) > CacheSize)
    BY <1>1, <2>2 DEF Excess
  <2> QED BY <2>1, <2>2
<1>3. Trim(s) = r /\ Popped(s) = {s[i].key : i \in 1..n}
  BY DEF Trim, Popped
<1> HIDE DEF n
<1>4. /\ r \in Seq(StoreEntry) /\ DOMAIN r = 1..(Len(s) - n) /\ Len(r) = Len(s) - n
      /\ \A i \in 1..(Len(s) - n) : r[i] = s[n + i]
  BY <1>2, Behind
<1> HIDE DEF r
<1>5. DOMAIN r = 1..(Len(s) - n)
  BY <1>4
<1>6. ASSUME NEW i \in 1..(Len(s) - n) PROVE r[i] \in Range(s)
  <2>1. n + i \in 1..Len(s)
    BY <1>1, <1>2
  <2> QED BY <1>1, <1>4, <2>1 DEF Range
<1>7. ASSUME NEW i \in 1..Len(s), s[i].key \notin Popped(s) PROVE s[i] \in Range(r)
  <2>1. i \notin 1..n
    BY <1>3, <1>7
  <2>2. i - n \in 1..(Len(s) - n) /\ n + (i - n) = i
    BY <1>1, <1>2, <2>1
  <2>3. r[i - n] = s[i]
    BY <1>4, <2>2
  <2> QED BY <1>5, <2>2, <2>3 DEF Range
<1>8. Range(r) \subseteq Range(s)
  BY <1>5, <1>6 DEF Range
<1>9. \A e \in Range(s) : e.key \notin Popped(s) => e \in Range(r)
  BY <1>1, <1>7 DEF Range
<1> QED BY <1>2, <1>3, <1>4, <1>8, <1>9

-----------------------------------------------------------------------------

Of(k) == {a \in Attempts : KeyOf[a[1]] = k}
Stored(k) == \E e \in Range(cache) : e.key = k

\* Nothing has happened yet that lets k through a second time: one attempt at a
\* most is beyond the store, the execution is remembered by the store or by that
\* attempt, and every 2xx tells of it.
KeyInv(k) ==
  why[k] = {} =>
    /\ \A a, b \in Serving(k) : a = b
    /\ Serving(k) # {} => ~Stored(k)
    /\ execs[k] = 0 \/ execs[k] = 1
    /\ execs[k] = 0 \/ Stored(k) \/ \E a \in Serving(k) : srv[a].pc = "executed"
    /\ \A a \in Serving(k) : srv[a].pc = "executed" =>
         srv[a].reply.exec = execs[k] /\ (srv[a].reply.status = "error" => execs[k] = 0)
    /\ \A a \in Of(k) : srv[a].reply.status = "ok" => srv[a].reply.exec = 1
    /\ \A e \in Range(cache) : e.key = k /\ e.reply.status = "ok" => e.reply.exec = 1

\* An attempt that a call has yet to make is unknown to the server.
Fresh ==
  \A c \in Calls, n \in 0..MaxResends :
    (\/ call[c].pc = "ready" /\ n >= call[c].attempt
     \/ call[c].pc = "waiting" /\ n > call[c].attempt)
      => srv[<<c, n>>].pc = "none"

CallsWell == call \in [Calls -> CallRecord] /\ Fresh
ServerWell == srv \in [Attempts -> AttemptRecord]
CacheWell == cache \in Seq(StoreEntry) /\ Len(cache) <= CacheSize
CountsWell ==
  /\ now \in 0..MaxNow /\ restarts \in 0..MaxRestarts
  /\ execs \in [Keys -> Nat] /\ why \in [Keys -> SUBSET Causes]
IdempotencyTypes == CallsWell /\ ServerWell /\ CacheWell /\ CountsWell
IdempotencyInv == IdempotencyTypes /\ \A k \in Keys : KeyInv(k)

\* The store has an entry of a key at some position, or at none.
LEMMA StoredIsEntry ==
  ASSUME NEW k
  PROVE  Stored(k) <=> Entry(k) # {}
BY DEF Stored, Entry, Range

\* A step that neither serves, stores nor executes under k, and tells at most
\* what the store told.
Inert(k) ==
  /\ Serving(k)' = Serving(k) /\ \A a \in Serving(k) : srv'[a] = srv[a]
  /\ execs'[k] = execs[k] /\ (Stored(k)' <=> Stored(k))
  /\ \A e \in Range(cache') : e.key = k => e \in Range(cache)
  /\ \A a \in Of(k) : srv'[a].reply.status = "ok" =>
       \/ srv'[a].reply = srv[a].reply
       \/ \E e \in Range(cache) : e.key = k /\ e.reply = srv'[a].reply

LEMMA InertKeeps ==
  ASSUME NEW k, KeyInv(k), why'[k] = {} => why[k] = {}, Inert(k)
  PROVE  KeyInv(k)'
<1>1. SUFFICES ASSUME why'[k] = {}
      PROVE  /\ \A a, b \in Serving(k)' : a = b
             /\ Serving(k)' # {} => ~Stored(k)'
             /\ execs'[k] = 0 \/ execs'[k] = 1
             /\ execs'[k] = 0 \/ Stored(k)' \/ \E a \in Serving(k)' : srv'[a].pc = "executed"
             /\ \A a \in Serving(k)' : srv'[a].pc = "executed" =>
                  srv'[a].reply.exec = execs'[k] /\ (srv'[a].reply.status = "error" => execs'[k] = 0)
             /\ \A a \in Of(k) : srv'[a].reply.status = "ok" => srv'[a].reply.exec = 1
             /\ \A e \in Range(cache') : e.key = k /\ e.reply.status = "ok" => e.reply.exec = 1
  BY DEF KeyInv, Of, Range
<1>2. /\ \A a, b \in Serving(k) : a = b
      /\ Serving(k) # {} => ~Stored(k)
      /\ execs[k] = 0 \/ execs[k] = 1
      /\ execs[k] = 0 \/ Stored(k) \/ \E a \in Serving(k) : srv[a].pc = "executed"
      /\ \A a \in Serving(k) : srv[a].pc = "executed" =>
           srv[a].reply.exec = execs[k] /\ (srv[a].reply.status = "error" => execs[k] = 0)
      /\ \A a \in Of(k) : srv[a].reply.status = "ok" => srv[a].reply.exec = 1
      /\ \A e \in Range(cache) : e.key = k /\ e.reply.status = "ok" => e.reply.exec = 1
  BY <1>1 DEF KeyInv
<1>3. \A a \in Of(k) : srv'[a].reply.status = "ok" => srv'[a].reply.exec = 1
  BY <1>2 DEF Inert
<1>4. \A e \in Range(cache') : e.key = k /\ e.reply.status = "ok" => e.reply.exec = 1
  BY <1>2 DEF Inert
<1> QED BY <1>2, <1>3, <1>4 DEF Inert

\* The attempts a handler is at, before and after one of them moves.
LEMMA ServingMoves ==
  ASSUME ServerWell, NEW a \in Attempts, NEW r \in AttemptRecord, srv' = [srv EXCEPT ![a] = r]
  PROVE  /\ ServerWell' /\ srv'[a] = r
         /\ \A b \in Attempts : b # a => srv'[b] = srv[b]
         /\ \A k : k # KeyOf[a[1]] => Serving(k)' = Serving(k)
         /\ r.pc \notin {"running", "executed"} => \A k : Serving(k)' = Serving(k) \ {a}
         /\ r.pc \in {"running", "executed"} =>
              Serving(KeyOf[a[1]])' = Serving(KeyOf[a[1]]) \cup {a}
<1>1. srv'[a] = r /\ ServerWell' /\ \A b \in Attempts : b # a => srv'[b] = srv[b]
  BY DEF ServerWell
<1> QED BY <1>1 DEF Serving

\* A call gives its attempt up: it is over, or goes on to the next one.
MovesOn(c) ==
  \E r \in CallRecord :
    /\ call' = [call EXCEPT ![c] = r]
    /\ r.pc = "done" \/ (r.pc = "ready" /\ r.attempt = call[c].attempt + 1)

LEMMA GivesUp ==
  ASSUME IdempotencyAssumption, CallsWell, NEW c \in Calls, NEW answer \in Response, GiveUp(c, answer)
  PROVE  MovesOn(c)
<1>1. /\ call[c].pc \in {"ready", "waiting", "done"} /\ call[c].attempt \in 0..MaxResends
      /\ call[c].answer \in Response /\ MaxResends \in Nat
  BY DEF CallsWell, CallRecord, IdempotencyAssumption
<1>0. call \in [Calls -> CallRecord] /\ call[c] \in CallRecord
  BY DEF CallsWell
<1> DEFINE again == [call[c] EXCEPT !.pc = "ready", !.attempt = call[c].attempt + 1]
           over == [call[c] EXCEPT !.pc = "done", !.answer = answer]
<1>2. CASE call[c].attempt < MaxResends
  <2>1. again \in CallRecord /\ again.pc = "ready" /\ again.attempt = call[c].attempt + 1
    <3>1. call[c].attempt + 1 \in 0..MaxResends
      BY <1>1, <1>2
    <3> QED BY <1>0, <3>1 DEF CallRecord
  <2>2. call' = [call EXCEPT ![c] = again]
    BY <1>0, <1>2 DEF GiveUp
  <2> HIDE DEF again
  <2> QED BY <2>1, <2>2 DEF MovesOn
<1>3. CASE ~(call[c].attempt < MaxResends)
  <2>1. over \in CallRecord /\ over.pc = "done"
    BY <1>0, <1>1 DEF CallRecord
  <2>2. call' = [call EXCEPT ![c] = over]
    BY <1>0, <1>3 DEF GiveUp
  <2> HIDE DEF over
  <2> QED BY <2>1, <2>2 DEF MovesOn
<1> QED BY <1>2, <1>3

\* As long as the server learns of no new attempt, the next ones stay fresh.
LEMMA FreshStays ==
  ASSUME IdempotencyAssumption, CallsWell, \A a \in Attempts : srv[a].pc = "none" => srv'[a].pc = "none",
         \/ call' = call
         \/ \E c \in Calls : MovesOn(c) /\ call[c].pc # "done"
  PROVE  CallsWell'
<1>0. call \in [Calls -> CallRecord] /\ Fresh /\ \A c \in Calls, n \in 0..MaxResends : <<c, n>> \in Attempts
  BY DEF CallsWell, Attempts
<1>1. CASE call' = call
  <2>1. Fresh'
    BY <1>0, <1>1 DEF Fresh
  <2> QED BY <1>0, <1>1, <2>1 DEF CallsWell
<1>2. ASSUME NEW c \in Calls, MovesOn(c), call[c].pc # "done" PROVE CallsWell'
  <2>1. PICK r \in CallRecord :
          /\ call' = [call EXCEPT ![c] = r]
          /\ r.pc = "done" \/ (r.pc = "ready" /\ r.attempt = call[c].attempt + 1)
    BY <1>2 DEF MovesOn
  <2>2. call' \in [Calls -> CallRecord] /\ call'[c] = r /\ \A d \in Calls : d # c => call'[d] = call[d]
    BY <1>0, <2>1
  <2>3. call[c].pc = "ready" \/ call[c].pc = "waiting"
    BY <1>0, <1>2 DEF CallRecord
  <2>4. ASSUME NEW d \in Calls, NEW n \in 0..MaxResends,
               \/ call'[d].pc = "ready" /\ n >= call'[d].attempt
               \/ call'[d].pc = "waiting" /\ n > call'[d].attempt
        PROVE  srv'[<<d, n>>].pc = "none"
    <3>1. CASE d # c
      <4>1. srv[<<d, n>>].pc = "none"
        BY <1>0, <2>2, <2>4, <3>1 DEF Fresh
      <4> QED BY <1>0, <4>1
    <3>2. CASE d = c
      <4>1. n >= call[c].attempt + 1
        BY <2>1, <2>2, <2>4, <3>2
      <4>2. call[c].attempt \in Nat /\ n \in Nat
        BY <1>0 DEF CallRecord, IdempotencyAssumption
      <4>3. n >= call[c].attempt /\ n > call[c].attempt
        BY <4>1, <4>2
      <4>4. srv[<<c, n>>].pc = "none"
        BY <1>0, <2>3, <4>3 DEF Fresh
      <4> QED BY <1>0, <3>2, <4>4
    <3> QED BY <3>1, <3>2
  <2>5. Fresh'
    BY <2>4 DEF Fresh
  <2> QED BY <2>2, <2>5 DEF CallsWell
<1> QED BY <1>1, <1>2

\* The response to an attempt that has reached the server.
LEMMA Delivered ==
  ASSUME IdempotencyAssumption, IdempotencyTypes, NEW a \in Attempts, NEW reply \in Response,
         srv[a].pc # "none", Deliver(a, reply)
  PROVE  /\ CallsWell'
         /\ srv' = [srv EXCEPT ![a] = [pc |-> "gone", reply |-> reply]]
         /\ [pc |-> "gone", reply |-> reply] \in AttemptRecord
<1>1. srv' = [srv EXCEPT ![a] = [pc |-> "gone", reply |-> reply]] /\ [pc |-> "gone", reply |-> reply] \in AttemptRecord
  BY DEF Deliver, AttemptRecord
<1>2. \A b \in Attempts : srv[b].pc = "none" => srv'[b].pc = "none"
  BY <1>1 DEF IdempotencyTypes, ServerWell
<1> DEFINE c == a[1]
<1>3. c \in Calls /\ CallsWell /\ call \in [Calls -> CallRecord]
  BY DEF Attempts, IdempotencyTypes, CallsWell
<1>4. \/ call' = call
      \/ call[c].pc = "waiting" /\ GiveUp(c, reply)
      \/ call[c].pc = "waiting" /\ call' = [call EXCEPT ![c].pc = "done", ![c].answer = reply]
  BY DEF Deliver
<1> HIDE DEF c
<1>5. CASE call' = call
  BY <1>1, <1>2, <1>3, <1>5, FreshStays
<1>6. CASE call[c].pc = "waiting" /\ GiveUp(c, reply)
  <2>1. MovesOn(c)
    BY <1>3, <1>6, GivesUp
  <2> QED BY <1>1, <1>2, <1>3, <1>6, <2>1, FreshStays
<1>7. CASE call[c].pc = "waiting" /\ call' = [call EXCEPT ![c].pc = "done", ![c].answer = reply]
  <2> DEFINE r == [call[c] EXCEPT !.pc = "done", !.answer = reply]
  <2>1. r \in CallRecord /\ r.pc = "done"
    BY <1>3 DEF CallRecord
  <2>2. call' = [call EXCEPT ![c] = r]
    BY <1>3, <1>7
  <2> HIDE DEF r
  <2>3. MovesOn(c)
    BY <2>1, <2>2 DEF MovesOn
  <2> QED BY <1>1, <1>2, <1>3, <1>7, <2>3, FreshStays
<1> QED BY <1>4, <1>5, <1>6, <1>7

LEMMA NoReplyIsResponse == NoReply \in Response /\ [status |-> "limited", exec |-> 0] \in Response
BY DEF NoReply, Response, Statuses

\* An attempt's move that stores, executes and tells nothing.
LEMMA QuietMove ==
  ASSUME ServerWell, NEW a \in Attempts, NEW r \in AttemptRecord, srv' = [srv EXCEPT ![a] = r],
         srv[a].pc \notin {"running", "executed"}, r.pc \notin {"running", "executed"},
         UNCHANGED <<execs, why>>, Range(cache') \subseteq Range(cache), \A k : Stored(k)' <=> Stored(k),
         \/ r.reply = srv[a].reply \/ r.reply.status # "ok"
         \/ \E e \in Range(cache) : e.key = KeyOf[a[1]] /\ e.reply = r.reply
  PROVE  \A k \in Keys : Inert(k)
<1>1. /\ srv'[a] = r /\ \A b \in Attempts : b # a => srv'[b] = srv[b]
      /\ \A k : Serving(k)' = Serving(k) \ {a}
  BY ServingMoves
<1>2. \A k : a \notin Serving(k) /\ Serving(k) \subseteq Attempts
  BY DEF Serving
<1>3. \A k : Stored(k)' <=> Stored(k)
  OBVIOUS
<1> SUFFICES ASSUME NEW k \in Keys PROVE Inert(k)
  OBVIOUS
<1>4. Serving(k)' = Serving(k) /\ \A b \in Serving(k) : srv'[b] = srv[b]
  BY <1>1, <1>2
<1>5. ASSUME NEW b \in Of(k), srv'[b].reply.status = "ok"
      PROVE  srv'[b].reply = srv[b].reply \/ \E e \in Range(cache) : e.key = k /\ e.reply = srv'[b].reply
  <2>1. b \in Attempts /\ KeyOf[b[1]] = k
    BY DEF Of
  <2>2. CASE b = a
    BY <1>1, <1>5, <2>1, <2>2
  <2>3. CASE b # a
    BY <1>1, <2>1, <2>3
  <2> QED BY <2>2, <2>3
<1> QED BY <1>3, <1>4, <1>5 DEF Inert

LEMMA AllInert ==
  ASSUME \A k \in Keys : KeyInv(k), \A k \in Keys : Inert(k), UNCHANGED why
  PROVE  \A k \in Keys : KeyInv(k)'
BY InertKeeps

LEMMA CallsInitially ==
  ASSUME IdempotencyAssumption, CallsInit
  PROVE  IdempotencyInv
<1>1. /\ cache = <<>> /\ now = 0 /\ restarts = 0 /\ execs = [k \in Keys |-> 0] /\ why = [k \in Keys |-> {}]
      /\ MaxResends \in Nat /\ CacheSize \in Nat /\ MaxNow \in Nat /\ MaxRestarts \in Nat
      /\ srv = [a \in Attempts |-> [pc |-> "none", reply |-> NoReply]]
      /\ call = [c \in Calls |-> [pc |-> "ready", attempt |-> 0, answer |-> NoReply]]
  BY DEF CallsInit, IdempotencyAssumption
<1>2. cache \in Seq(StoreEntry) /\ Len(cache) = 0 /\ Range(cache) = {}
  BY <1>1 DEF Range
<1>3. CallsWell
  <2>1. [pc |-> "ready", attempt |-> 0, answer |-> NoReply] \in CallRecord
    BY <1>1, NoReplyIsResponse DEF CallRecord
  <2>2. \A c \in Calls, n \in 0..MaxResends : <<c, n>> \in Attempts
    BY DEF Attempts
  <2> QED BY <1>1, <2>1, <2>2 DEF CallsWell, Fresh
<1>4. ServerWell
  <2>1. [pc |-> "none", reply |-> NoReply] \in AttemptRecord
    BY NoReplyIsResponse DEF AttemptRecord
  <2> QED BY <1>1, <2>1 DEF ServerWell
<1>5. CacheWell /\ CountsWell
  BY <1>1, <1>2 DEF CacheWell, CountsWell
<1>6. ASSUME NEW k \in Keys PROVE KeyInv(k)
  <2>1. \A a \in Attempts : srv[a].pc = "none" /\ srv[a].reply.status = "none"
    BY <1>1 DEF NoReply
  <2>2. Serving(k) = {}
    BY <2>1 DEF Serving
  <2>3. \A a \in Of(k) : srv[a].reply.status # "ok"
    BY <2>1 DEF Of
  <2>4. execs[k] = 0
    BY <1>1
  <2> QED BY <1>2, <2>2, <2>3, <2>4 DEF KeyInv
<1> QED BY <1>3, <1>4, <1>5, <1>6 DEF IdempotencyInv, IdempotencyTypes

LEMMA EntriesTyped ==
  ASSUME cache \in Seq(StoreEntry)
  PROVE  \A e \in Range(cache) : e \in StoreEntry /\ e.reply \in Response
<1>1. \A i \in DOMAIN cache : cache[i] \in StoreEntry
  OBVIOUS
<1>2. \A e \in StoreEntry : e.reply \in Response
  BY DEF StoreEntry
<1> QED BY <1>1, <1>2 DEF Range

\* What get returns was stored under the key, and stays so.
LEMMA GotHit ==
  ASSUME cache \in Seq(StoreEntry), NEW k \in Keys, Hit(k), cache' = Got(k)
  PROVE  /\ cache' \in Seq(StoreEntry) /\ Len(cache') = Len(cache)
         /\ Range(cache') \subseteq Range(cache) /\ \A q : Stored(q)' <=> Stored(q)
         /\ Last(Got(k)) \in Range(cache) /\ Last(Got(k)).key = k
<1> DEFINE e == cache[CHOOSE i \in Entry(k) : TRUE]
<1>1. Entry(k) # {} /\ cache' = Append(Without(k), e) /\ Got(k) = Append(Without(k), e)
  BY DEF Hit, Got
<1>2. e \in Range(cache) /\ e.key = k /\ e \in StoreEntry
  <2> DEFINE j == CHOOSE i \in Entry(k) : TRUE
  <2>1. j \in Entry(k)
    BY <1>1
  <2> HIDE DEF j
  <2>2. j \in DOMAIN cache /\ cache[j].key = k
    BY <2>1 DEF Entry
  <2>3. cache[j] \in Range(cache) /\ cache[j] \in StoreEntry
    BY <2>2, EntriesTyped DEF Range
  <2> QED BY <2>2, <2>3 DEF j
<1> HIDE DEF e
<1>3. /\ Without(k) \in Seq(StoreEntry) /\ Len(Without(k)) + 1 = Len(cache)
      /\ Range(Without(k)) \subseteq Range(cache)
      /\ \A d \in Range(cache) : d.key # k => d \in Range(Without(k))
  BY <1>1, WithoutKey
<1>4. /\ cache' \in Seq(StoreEntry) /\ Len(cache') = Len(Without(k)) + 1
      /\ Range(cache') = Range(Without(k)) \cup {e} /\ Last(Got(k)) = e
  BY <1>1, <1>2, <1>3, AppendedElement
<1>5. \A q : Stored(q)' <=> Stored(q)
  BY <1>2, <1>3, <1>4 DEF Stored
<1> QED BY <1>2, <1>3, <1>4, <1>5

\* An attempt is sent: the server did not know of it.
LEMMA RequestSent ==
  ASSUME IdempotencyAssumption, IdempotencyInv, NEW c \in Calls, Send(c)
  PROVE  IdempotencyInv'
<1>0. /\ call \in [Calls -> CallRecord] /\ Fresh /\ ServerWell /\ CacheWell /\ CountsWell
      /\ \A k \in Keys : KeyInv(k)
  BY DEF IdempotencyInv, IdempotencyTypes, CallsWell
<1> DEFINE n == call[c].attempt
           a == <<c, n>>
           r == [srv[a] EXCEPT !.pc = "received"]
<1>1. call[c].pc = "ready" /\ n \in 0..MaxResends /\ n \in Nat
  BY <1>0 DEF Send, CallRecord, IdempotencyAssumption
<1>2. a \in Attempts /\ srv[a].pc = "none" /\ srv[a] \in AttemptRecord
  BY <1>0, <1>1 DEF Fresh, Attempts, ServerWell
<1>3. r \in AttemptRecord /\ r.pc = "received" /\ r.reply = srv[a].reply
  BY <1>2 DEF AttemptRecord
<1>4. srv' = [srv EXCEPT ![a] = r]
  BY <1>0, <1>2 DEF Send, ServerWell
<1> HIDE DEF r
<1>5. ServerWell' /\ srv'[a] = r /\ \A b \in Attempts : b # a => srv'[b] = srv[b]
  BY <1>0, <1>2, <1>3, <1>4, ServingMoves
<1>6. UNCHANGED <<now, cache, execs, why, restarts>>
  BY DEF Send
<1>7. CallsWell'
  <2>1. /\ call' \in [Calls -> CallRecord] /\ call'[c].pc = "waiting" /\ call'[c].attempt = n
        /\ \A d \in Calls : d # c => call'[d] = call[d]
    <3>1. call' = [call EXCEPT ![c] = [call[c] EXCEPT !.pc = "waiting"]]
      BY <1>0 DEF Send
    <3>2. /\ [call[c] EXCEPT !.pc = "waiting"] \in CallRecord
          /\ [call[c] EXCEPT !.pc = "waiting"].pc = "waiting"
          /\ [call[c] EXCEPT !.pc = "waiting"].attempt = n
      BY <1>0 DEF CallRecord
    <3> QED BY <1>0, <3>1, <3>2
  <2>2. ASSUME NEW d \in Calls, NEW m \in 0..MaxResends,
               \/ call'[d].pc = "ready" /\ m >= call'[d].attempt
               \/ call'[d].pc = "waiting" /\ m > call'[d].attempt
        PROVE  srv'[<<d, m>>].pc = "none"
    <3>1. <<d, m>> \in Attempts
      BY DEF Attempts
    <3>2. CASE d # c
      <4>1. srv[<<d, m>>].pc = "none" /\ <<d, m>> # a
        BY <1>0, <2>1, <2>2, <3>2 DEF Fresh
      <4> QED BY <1>5, <3>1, <4>1
    <3>3. CASE d = c
      <4>1. m > n /\ m >= n /\ m # n
        BY <1>1, <2>1, <2>2, <3>3
      <4>2. srv[<<c, m>>].pc = "none" /\ <<c, m>> # a
        BY <1>0, <1>1, <4>1 DEF Fresh
      <4> QED BY <1>5, <3>1, <3>3, <4>2
    <3> QED BY <3>2, <3>3
  <2>3. Fresh'
    BY <2>2 DEF Fresh
  <2> QED BY <2>1, <2>3 DEF CallsWell
<1>8. CacheWell' /\ CountsWell'
  BY <1>0, <1>6 DEF CacheWell, CountsWell
<1>9. \A k \in Keys : Inert(k)
  <2>1. Range(cache') \subseteq Range(cache) /\ \A k : Stored(k)' <=> Stored(k)
    BY <1>6 DEF Stored
  <2>2. srv[a].pc \notin {"running", "executed"} /\ r.pc \notin {"running", "executed"}
    BY <1>2, <1>3
  <2> HIDE DEF a
  <2> QED BY <1>0, <1>2, <1>3, <1>4, <1>6, <2>1, <2>2, QuietMove
<1>10. \A k \in Keys : KeyInv(k)'
  BY <1>0, <1>6, <1>9, AllInert
<1> QED BY <1>5, <1>7, <1>8, <1>10 DEF IdempotencyInv, IdempotencyTypes

\* A call that fails to connect or times out is of no concern to the server.
LEMMA AttemptGivenUp ==
  ASSUME IdempotencyAssumption, IdempotencyInv, NEW c \in Calls, ConnectFails(c) \/ TimesOut(c)
  PROVE  IdempotencyInv'
<1>1. call[c].pc # "done" /\ GiveUp(c, NoReply) /\ UNCHANGED <<now, srv, cache, execs, why, restarts>>
  BY DEF ConnectFails, TimesOut
<1>2. IdempotencyTypes /\ CallsWell /\ \A k \in Keys : KeyInv(k)
  BY DEF IdempotencyInv, IdempotencyTypes
<1>3. CallsWell'
  <2>1. MovesOn(c)
    BY <1>1, <1>2, GivesUp, NoReplyIsResponse
  <2> QED BY <1>1, <1>2, <2>1, FreshStays
<1>4. ServerWell' /\ CacheWell' /\ CountsWell'
  BY <1>1, <1>2 DEF IdempotencyTypes, ServerWell, CacheWell, CountsWell
<1>5. \A k \in Keys : KeyInv(k)'
  BY <1>1, <1>2 DEF KeyInv, Serving, Stored
<1> QED BY <1>3, <1>4, <1>5 DEF IdempotencyInv, IdempotencyTypes

\* The limiter's refusal and the store's replay.
LEMMA AnsweredAtOnce ==
  ASSUME IdempotencyAssumption, IdempotencyInv, NEW a \in Attempts, Limited(a) \/ Replay(a)
  PROVE  IdempotencyInv'
<1>0. /\ IdempotencyTypes /\ ServerWell /\ CacheWell /\ CountsWell /\ \A k \in Keys : KeyInv(k)
      /\ KeyOf[a[1]] \in Keys
  BY DEF IdempotencyInv, IdempotencyTypes, Attempts, IdempotencyAssumption
<1>1. \E reply \in Response :
        /\ Deliver(a, reply) /\ srv[a].pc = "received" /\ UNCHANGED <<now, execs, why, restarts>>
        /\ CacheWell' /\ Range(cache') \subseteq Range(cache) /\ \A k : Stored(k)' <=> Stored(k)
        /\ \/ reply.status # "ok"
           \/ \E e \in Range(cache) : e.key = KeyOf[a[1]] /\ e.reply = reply
  <2>1. CASE Limited(a)
    <3>1. UNCHANGED cache
      BY <2>1 DEF Limited
    <3>2. CacheWell' /\ Range(cache') \subseteq Range(cache) /\ \A k : Stored(k)' <=> Stored(k)
      BY <1>0, <3>1 DEF CacheWell, Stored
    <3>3. [status |-> "limited", exec |-> 0].status # "ok"
      OBVIOUS
    <3> QED BY <2>1, <3>2, <3>3, NoReplyIsResponse DEF Limited
  <2>2. CASE Replay(a)
    <3> DEFINE k == KeyOf[a[1]]
               e == Last(Got(k))
    <3>1. /\ Hit(k) /\ cache' = Got(k) /\ Deliver(a, e.reply) /\ srv[a].pc = "received"
          /\ UNCHANGED <<now, execs, why, restarts>>
      BY <2>2 DEF Replay
    <3> HIDE DEF k
    <3>0. k \in Keys
      BY <1>0 DEF k
    <3>2. /\ cache' \in Seq(StoreEntry) /\ Len(cache') = Len(cache)
          /\ Range(cache') \subseteq Range(cache) /\ \A q : Stored(q)' <=> Stored(q)
          /\ e \in Range(cache) /\ e.key = k
      BY <1>0, <3>0, <3>1, GotHit DEF CacheWell
    <3> HIDE DEF e
    <3>3. CacheWell'
      BY <1>0, <3>2 DEF CacheWell
    <3>4. e.reply \in Response
      BY <1>0, <3>2, EntriesTyped DEF CacheWell
    <3> QED BY <3>1, <3>2, <3>3, <3>4 DEF k
  <2> QED BY <2>1, <2>2
<1>2. PICK reply \in Response :
        /\ Deliver(a, reply) /\ srv[a].pc = "received" /\ UNCHANGED <<now, execs, why, restarts>>
        /\ CacheWell' /\ Range(cache') \subseteq Range(cache) /\ \A k : Stored(k)' <=> Stored(k)
        /\ \/ reply.status # "ok"
           \/ \E e \in Range(cache) : e.key = KeyOf[a[1]] /\ e.reply = reply
  BY <1>1
<1> DEFINE r == [pc |-> "gone", reply |-> reply]
<1>3. CallsWell' /\ srv' = [srv EXCEPT ![a] = r] /\ r \in AttemptRecord /\ r.reply = reply /\ r.pc = "gone"
  BY <1>0, <1>2, Delivered
<1> HIDE DEF r
<1>4. ServerWell'
  BY <1>0, <1>3, ServingMoves
<1>5. CountsWell'
  BY <1>0, <1>2 DEF CountsWell
<1>6. \A k \in Keys : Inert(k)
  <2>1. srv[a].pc \notin {"running", "executed"} /\ r.pc \notin {"running", "executed"}
    BY <1>2, <1>3
  <2> QED BY <1>0, <1>2, <1>3, <2>1, QuietMove
<1>7. \A k \in Keys : KeyInv(k)'
  BY <1>0, <1>2, <1>6, AllInert
<1> QED BY <1>2, <1>3, <1>4, <1>5, <1>7 DEF IdempotencyInv, IdempotencyTypes

\* A move under one key is inert for the others.
LEMMA OthersInert ==
  ASSUME ServerWell, NEW a \in Attempts, NEW r \in AttemptRecord, srv' = [srv EXCEPT ![a] = r],
         NEW k \in Keys, k # KeyOf[a[1]], execs'[k] = execs[k], Stored(k)' <=> Stored(k),
         \A e \in Range(cache') : e.key = k => e \in Range(cache)
  PROVE  Inert(k)
<1>1. Serving(k)' = Serving(k) /\ \A b \in Attempts : b # a => srv'[b] = srv[b]
  BY ServingMoves
<1>2. \A b \in Serving(k) : b \in Attempts /\ b # a
  BY DEF Serving
<1>3. \A b \in Of(k) : b \in Attempts /\ b # a
  BY DEF Of
<1> QED BY <1>1, <1>2, <1>3 DEF Inert

\* An attempt goes past the store: it is alone, or its key is blamed.
LEMMA Missed ==
  ASSUME IdempotencyAssumption, IdempotencyInv, NEW a \in Attempts, Miss(a)
  PROVE  IdempotencyInv'
<1> DEFINE q == KeyOf[a[1]]
           r == [srv[a] EXCEPT !.pc = "running"]
<1>0. /\ IdempotencyTypes /\ ServerWell /\ CacheWell /\ CountsWell /\ CallsWell /\ \A k \in Keys : KeyInv(k)
      /\ q \in Keys /\ srv[a] \in AttemptRecord
  BY DEF IdempotencyInv, IdempotencyTypes, Attempts, IdempotencyAssumption, ServerWell
<1>1. /\ srv[a].pc = "received" /\ cache' = Without(q) /\ UNCHANGED <<now, call, execs, restarts>>
      /\ srv' = [srv EXCEPT ![a] = r]
      /\ why' = [why EXCEPT ![q] = @ \cup (IF Serving(q) # {} THEN {"overlap"} ELSE {}) \cup
                                          (IF Entry(q) # {} THEN {"expired"} ELSE {})]
  BY <1>0 DEF Miss, Got, ServerWell
<1>2. r \in AttemptRecord /\ r.pc = "running" /\ r.reply = srv[a].reply
  BY <1>0 DEF AttemptRecord
<1> HIDE DEF q, r
<1>3. /\ ServerWell' /\ srv'[a] = r /\ \A b \in Attempts : b # a => srv'[b] = srv[b]
  BY <1>0, <1>1, <1>2, ServingMoves
<1>4. Serving(q)' = Serving(q) \cup {a}
  BY <1>0, <1>1, <1>2, ServingMoves DEF q
<1>5. /\ cache' \in Seq(StoreEntry) /\ Len(cache') <= Len(cache) /\ Range(cache') \subseteq Range(cache)
      /\ \A e \in Range(cache) : e.key # q => e \in Range(cache')
  BY <1>0, <1>1, WithoutKey DEF CacheWell
<1>6. CacheWell'
  <2>1. Len(cache) \in Int /\ Len(cache') \in Int /\ CacheSize \in Int /\ Len(cache) <= CacheSize
    BY <1>0, <1>5 DEF CacheWell, IdempotencyAssumption
  <2> QED BY <1>5, <2>1 DEF CacheWell
<1>7. CountsWell'
  <2>1. why' \in [Keys -> SUBSET Causes]
    BY <1>0, <1>1 DEF CountsWell, Causes
  <2> QED BY <1>0, <1>1, <2>1 DEF CountsWell
<1>8. CallsWell'
  <2>1. \A b \in Attempts : srv[b].pc = "none" => srv'[b].pc = "none"
    BY <1>1, <1>3
  <2> QED BY <1>0, <1>1, <2>1, FreshStays
<1>9. ASSUME NEW k \in Keys, k # q PROVE KeyInv(k)'
  <2>1. Inert(k)
    BY <1>0, <1>1, <1>2, <1>5, <1>9, OthersInert DEF Stored, q
  <2>2. why'[k] = why[k]
    BY <1>0, <1>1, <1>9 DEF CountsWell
  <2> QED BY <1>0, <2>1, <2>2, InertKeeps
<1>10. ASSUME why'[q] = {}
       PROVE  /\ \A b, c \in Serving(q)' : b = c
              /\ Serving(q)' # {} => ~Stored(q)'
              /\ execs'[q] = 0 \/ execs'[q] = 1
              /\ execs'[q] = 0 \/ Stored(q)' \/ \E b \in Serving(q)' : srv'[b].pc = "executed"
              /\ \A b \in Serving(q)' : srv'[b].pc = "executed" =>
                   srv'[b].reply.exec = execs'[q] /\ (srv'[b].reply.status = "error" => execs'[q] = 0)
              /\ \A b \in Of(q) : srv'[b].reply.status = "ok" => srv'[b].reply.exec = 1
              /\ \A e \in Range(cache') : e.key = q /\ e.reply.status = "ok" => e.reply.exec = 1
  <2>1. why'[q] = why[q] \cup (IF Serving(q) # {} THEN {"overlap"} ELSE {}) \cup
                             (IF Entry(q) # {} THEN {"expired"} ELSE {})
    BY <1>0, <1>1 DEF CountsWell
  <2>2. why[q] = {} /\ Serving(q) = {} /\ Entry(q) = {}
    BY <1>10, <2>1
  <2>3. ~Stored(q) /\ ~Stored(q)'
    BY <1>5, <2>2, StoredIsEntry DEF Stored
  <2>4. /\ execs[q] = 0 /\ \A b \in Of(q) : srv[b].reply.status = "ok" => srv[b].reply.exec = 1
    BY <1>0, <2>2, <2>3 DEF KeyInv
  <2>5. Serving(q)' = {a} /\ srv'[a].pc = "running" /\ execs'[q] = 0
    BY <1>1, <1>2, <1>3, <1>4, <2>2, <2>4
  <2>6. \A b \in Of(q) : srv'[b].reply = srv[b].reply
    BY <1>2, <1>3 DEF Of
  <2>7. \A e \in Range(cache') : e.key # q
    BY <2>3 DEF Stored
  <2> QED BY <2>3, <2>4, <2>5, <2>6, <2>7
<1>11. KeyInv(q)'
  BY <1>10 DEF KeyInv, Of
<1> QED BY <1>0, <1>3, <1>6, <1>7, <1>8, <1>9, <1>11 DEF IdempotencyInv, IdempotencyTypes

\* The handler: the first execution under the key, unless the key is blamed.
LEMMA Executed ==
  ASSUME IdempotencyAssumption, IdempotencyInv, NEW a \in Attempts, Execute(a)
  PROVE  IdempotencyInv'
<1> DEFINE q == KeyOf[a[1]]
<1>0. /\ IdempotencyTypes /\ ServerWell /\ CacheWell /\ CountsWell /\ CallsWell /\ \A k \in Keys : KeyInv(k)
      /\ q \in Keys /\ srv[a] \in AttemptRecord /\ execs \in [Keys -> Nat] /\ execs[q] \in Nat
      /\ why \in [Keys -> SUBSET Causes]
  BY DEF IdempotencyInv, IdempotencyTypes, Attempts, IdempotencyAssumption, ServerWell, CountsWell
<1>1. PICK status \in {"ok", "rejected", "error"}, mutates \in BOOLEAN :
        /\ status = "ok" => mutates
        /\ status = "rejected" => ~mutates
        /\ execs' = [execs EXCEPT ![q] = IF mutates THEN execs[q] + 1 ELSE execs[q]]
        /\ srv' = [srv EXCEPT ![a] = [pc |-> "executed", reply |->
                     [status |-> status, exec |-> IF mutates THEN execs[q] + 1 ELSE 0]]]
        /\ why' = IF status = "error" /\ mutates THEN Blame({q}, "error") ELSE why
  BY DEF Execute
<1>2. srv[a].pc = "running" /\ UNCHANGED <<now, call, cache, restarts>>
  BY DEF Execute
<1> DEFINE made == IF mutates THEN execs[q] + 1 ELSE 0
           reply == [status |-> status, exec |-> made]
           r == [pc |-> "executed", reply |-> reply]
<1>3. /\ r \in AttemptRecord /\ r.pc = "executed" /\ r.reply.status = status /\ r.reply.exec = made
      /\ made \in Nat
  <2>1. made \in Nat
    BY <1>0
  <2> HIDE DEF made
  <2> QED BY <2>1 DEF AttemptRecord, Response, Statuses
<1>4. srv' = [srv EXCEPT ![a] = r]
  BY <1>1
<1> HIDE DEF q, r, reply
<1>5. /\ ServerWell' /\ srv'[a] = r /\ \A b \in Attempts : b # a => srv'[b] = srv[b]
  BY <1>0, <1>3, <1>4, ServingMoves
<1>6. Serving(q)' = Serving(q) \cup {a}
  BY <1>0, <1>3, <1>4, ServingMoves DEF q
<1>7. /\ execs'[q] = (IF mutates THEN execs[q] + 1 ELSE execs[q]) /\ execs' \in [Keys -> Nat]
      /\ \A k \in Keys : k # q => execs'[k] = execs[k]
  <2>1. (IF mutates THEN execs[q] + 1 ELSE execs[q]) \in Nat
    BY <1>0
  <2> QED BY <1>0, <1>1, <2>1
<1>8. /\ why' \in [Keys -> SUBSET Causes] /\ \A k \in Keys : why'[k] = {} => why[k] = {}
      /\ why'[q] = {} => ~(status = "error" /\ mutates)
  <2>1. CASE status = "error" /\ mutates
    <3>1. why' = [k \in Keys |-> IF k = q THEN why[k] \cup {"error"} ELSE why[k]]
      BY <1>1, <2>1 DEF Blame
    <3> QED BY <1>0, <3>1 DEF Causes
  <2>2. CASE ~(status = "error" /\ mutates)
    <3>1. why' = why
      BY <1>1, <2>2
    <3> QED BY <1>0, <2>2, <3>1
  <2> QED BY <2>1, <2>2
<1>9. CountsWell' /\ CacheWell'
  BY <1>0, <1>2, <1>7, <1>8 DEF CountsWell, CacheWell
<1>10. CallsWell'
  <2>1. \A b \in Attempts : srv[b].pc = "none" => srv'[b].pc = "none"
    BY <1>2, <1>5
  <2> QED BY <1>0, <1>2, <2>1, FreshStays
<1>11. ASSUME NEW k \in Keys, k # q PROVE KeyInv(k)'
  <2>1. Inert(k)
    BY <1>0, <1>2, <1>3, <1>4, <1>7, <1>11, OthersInert DEF Stored, q
  <2> QED BY <1>0, <1>8, <2>1, InertKeeps
<1>12. ASSUME why'[q] = {}
       PROVE  /\ \A b, c \in Serving(q)' : b = c
              /\ Serving(q)' # {} => ~Stored(q)'
              /\ execs'[q] = 0 \/ execs'[q] = 1
              /\ execs'[q] = 0 \/ Stored(q)' \/ \E b \in Serving(q)' : srv'[b].pc = "executed"
              /\ \A b \in Serving(q)' : srv'[b].pc = "executed" =>
                   srv'[b].reply.exec = execs'[q] /\ (srv'[b].reply.status = "error" => execs'[q] = 0)
              /\ \A b \in Of(q) : srv'[b].reply.status = "ok" => srv'[b].reply.exec = 1
              /\ \A e \in Range(cache') : e.key = q /\ e.reply.status = "ok" => e.reply.exec = 1
  <2>1. why[q] = {} /\ KeyInv(q)
    BY <1>0, <1>8, <1>12
  <2>2. a \in Serving(q)
    BY <1>2 DEF Serving, q
  <2>3. /\ Serving(q) = {a} /\ ~Stored(q) /\ execs[q] = 0
        /\ \A b \in Of(q) : srv[b].reply.status = "ok" => srv[b].reply.exec = 1
    BY <1>2, <2>1, <2>2 DEF KeyInv
  <2>4. Serving(q)' = {a} /\ ~Stored(q)'
    BY <1>2, <1>6, <2>3 DEF Stored
  <2>5. execs'[q] = (IF mutates THEN 1 ELSE 0) /\ made = (IF mutates THEN 1 ELSE 0)
    BY <1>7, <2>3
  <2> HIDE DEF made
  <2>6. srv'[a].reply.exec = execs'[q] /\ srv'[a].reply.status = status
    BY <1>3, <1>5, <2>5
  <2>7. (status = "error" => execs'[q] = 0) /\ (status = "ok" => execs'[q] = 1)
    BY <1>1, <1>8, <1>12, <2>5
  <2>8. srv'[a].pc = "executed"
    BY <1>3, <1>5
  <2>9. \A b \in Of(q) : srv'[b].reply.status = "ok" => srv'[b].reply.exec = 1
    <3>1. ASSUME NEW b \in Of(q), srv'[b].reply.status = "ok" PROVE srv'[b].reply.exec = 1
      <4>1. CASE b = a
        BY <2>6, <2>7, <3>1, <4>1
      <4>2. CASE b # a
        BY <1>5, <2>3, <3>1, <4>2 DEF Of
      <4> QED BY <4>1, <4>2
    <3> QED BY <3>1
  <2>10. \A e \in Range(cache') : e.key # q
    BY <2>4 DEF Stored
  <2>11. execs'[q] = 0 \/ execs'[q] = 1
    BY <2>5
  <2> QED BY <2>4, <2>6, <2>7, <2>8, <2>9, <2>10, <2>11
<1>13. KeyInv(q)'
  BY <1>12 DEF KeyInv, Of
<1> QED BY <1>0, <1>5, <1>9, <1>10, <1>11, <1>13 DEF IdempotencyInv, IdempotencyTypes

\* set: the response goes to the end of the store, what is popped is blamed.
LEMMA AddedKeeps ==
  ASSUME IdempotencyAssumption, cache \in Seq(StoreEntry), NEW k \in Keys, NEW reply \in Response,
         now \in Nat, cache' = Trim(Added(k, reply))
  PROVE  /\ CacheWell'
         /\ \A e \in Range(cache') : e \in Range(cache) \/ (e.key = k /\ e.reply = reply)
         /\ \A q : q \notin Popped(Added(k, reply)) =>
              (Stored(q)' <=> Stored(q) \/ q = k)
<1> DEFINE d == [key |-> k, born |-> now, reply |-> reply]
           full == Added(k, reply)
<1>1. d \in StoreEntry /\ d.key = k /\ d.reply = reply /\ full = Append(Without(k), d)
  BY DEF StoreEntry, Added
<1> HIDE DEF d, full
<1>2. /\ Without(k) \in Seq(StoreEntry) /\ Range(Without(k)) \subseteq Range(cache)
      /\ \A e \in Range(cache) : e.key # k => e \in Range(Without(k))
  BY WithoutKey
<1>3. full \in Seq(StoreEntry) /\ Range(full) = Range(Without(k)) \cup {d}
  BY <1>1, <1>2, AppendedElement
<1>4. /\ cache' \in Seq(StoreEntry) /\ Len(cache') <= CacheSize /\ Range(cache') \subseteq Range(full)
      /\ \A e \in Range(full) : e.key \notin Popped(full) => e \in Range(cache')
  <2>1. CacheSize \in Nat /\ cache' = Trim(full)
    BY DEF IdempotencyAssumption, full
  <2> QED BY <1>3, <2>1, TrimKeeps
<1>5. CacheWell'
  BY <1>4 DEF CacheWell
<1>6. \A e \in Range(cache') : e \in Range(cache) \/ (e.key = k /\ e.reply = reply)
  BY <1>1, <1>2, <1>3, <1>4
<1>7. ASSUME NEW q, q \notin Popped(full) PROVE Stored(q)' <=> Stored(q) \/ q = k
  BY <1>1, <1>2, <1>3, <1>4, <1>7 DEF Stored
<1> QED BY <1>5, <1>6, <1>7 DEF full

\* The response is stored, or passed on as it is, and the attempt is over.
LEMMA Replied ==
  ASSUME IdempotencyAssumption, IdempotencyInv, NEW a \in Attempts, StoreAndReply(a)
  PROVE  IdempotencyInv'
<1> DEFINE q == KeyOf[a[1]]
           reply == srv[a].reply
           r == [pc |-> "gone", reply |-> reply]
<1>0. /\ IdempotencyTypes /\ ServerWell /\ CacheWell /\ CountsWell /\ CallsWell /\ \A k \in Keys : KeyInv(k)
      /\ q \in Keys /\ reply \in Response /\ why \in [Keys -> SUBSET Causes] /\ now \in Nat
  BY DEF IdempotencyInv, IdempotencyTypes, Attempts, IdempotencyAssumption, ServerWell, AttemptRecord, CountsWell
<1>1. /\ srv[a].pc = "executed" /\ Deliver(a, reply) /\ UNCHANGED <<now, execs, restarts>>
      /\ \/ reply.status = "error" /\ cache' = cache /\ why' = why
         \/ /\ reply.status # "error" /\ cache' = Trim(Added(q, reply))
            /\ why' = Blame(Popped(Added(q, reply)), "evicted")
  BY DEF StoreAndReply
<1>2. CallsWell' /\ srv' = [srv EXCEPT ![a] = r] /\ r \in AttemptRecord /\ r.pc = "gone" /\ r.reply = reply
  BY <1>0, <1>1, Delivered
<1> HIDE DEF r
<1>3. /\ ServerWell' /\ srv'[a] = r /\ \A b \in Attempts : b # a => srv'[b] = srv[b]
      /\ \A k : Serving(k)' = Serving(k) \ {a}
  BY <1>0, <1>2, ServingMoves
<1>4. a \in Serving(q)
  BY <1>1 DEF Serving
<1> HIDE DEF q, reply
<1>5. /\ CacheWell' /\ \A e \in Range(cache') : e \in Range(cache) \/ (e.key = q /\ e.reply = reply)
      /\ why' \in [Keys -> SUBSET Causes] /\ \A k \in Keys : why'[k] = {} => why[k] = {}
      /\ \A k \in Keys : why'[k] = {} => (Stored(k)' <=> Stored(k) \/ (k = q /\ reply.status # "error"))
  <2>1. CASE reply.status = "error" /\ cache' = cache /\ why' = why
    BY <1>0, <2>1 DEF CacheWell, Stored
  <2>2. CASE /\ reply.status # "error" /\ cache' = Trim(Added(q, reply))
             /\ why' = Blame(Popped(Added(q, reply)), "evicted")
    <3>1. /\ CacheWell'
          /\ \A e \in Range(cache') : e \in Range(cache) \/ (e.key = q /\ e.reply = reply)
          /\ \A k : k \notin Popped(Added(q, reply)) => (Stored(k)' <=> Stored(k) \/ k = q)
      BY <1>0, <2>2, AddedKeeps DEF CacheWell
    <3> DEFINE popped == Popped(Added(q, reply))
    <3> HIDE DEF popped
    <3>2. why' = [k \in Keys |-> IF k \in popped THEN why[k] \cup {"evicted"} ELSE why[k]]
      BY <2>2 DEF Blame, popped
    <3>3. /\ why' \in [Keys -> SUBSET Causes] /\ \A k \in Keys : why'[k] = {} => why[k] = {} /\ k \notin popped
      BY <1>0, <3>2 DEF Causes
    <3> QED BY <2>2, <3>1, <3>3 DEF popped
  <2> QED BY <1>1, <2>1, <2>2
<1>6. CountsWell'
  BY <1>0, <1>1, <1>5 DEF CountsWell
<1>7. ASSUME NEW k \in Keys, k # q PROVE KeyInv(k)'
  <2>1. CASE why'[k] # {}
    BY <2>1 DEF KeyInv
  <2>2. CASE why'[k] = {}
    <3>1. Stored(k)' <=> Stored(k)
      BY <1>5, <1>7, <2>2
    <3>2. \A e \in Range(cache') : e.key = k => e \in Range(cache)
      BY <1>5, <1>7
    <3>3. execs'[k] = execs[k]
      BY <1>1
    <3>4. Inert(k)
      BY <1>0, <1>2, <1>7, <3>1, <3>2, <3>3, OthersInert DEF q
    <3> QED BY <1>0, <1>5, <3>4, InertKeeps
  <2> QED BY <2>1, <2>2
<1>8. ASSUME why'[q] = {}
      PROVE  /\ \A b, c \in Serving(q)' : b = c
             /\ Serving(q)' # {} => ~Stored(q)'
             /\ execs'[q] = 0 \/ execs'[q] = 1
             /\ execs'[q] = 0 \/ Stored(q)' \/ \E b \in Serving(q)' : srv'[b].pc = "executed"
             /\ \A b \in Serving(q)' : srv'[b].pc = "executed" =>
                  srv'[b].reply.exec = execs'[q] /\ (srv'[b].reply.status = "error" => execs'[q] = 0)
             /\ \A b \in Of(q) : srv'[b].reply.status = "ok" => srv'[b].reply.exec = 1
             /\ \A e \in Range(cache') : e.key = q /\ e.reply.status = "ok" => e.reply.exec = 1
  <2>1. why[q] = {} /\ KeyInv(q)
    BY <1>0, <1>5, <1>8
  <2>2. /\ Serving(q) = {a} /\ (execs[q] = 0 \/ execs[q] = 1) /\ (reply.status = "error" => execs[q] = 0)
        /\ \A b \in Of(q) : srv[b].reply.status = "ok" => srv[b].reply.exec = 1
        /\ \A e \in Range(cache) : e.key = q /\ e.reply.status = "ok" => e.reply.exec = 1
    BY <1>1, <1>4, <2>1 DEF KeyInv, reply
  <2>3. Serving(q)' = {}
    BY <1>3, <2>2
  <2>4. execs'[q] = execs[q] /\ (execs'[q] = 0 \/ Stored(q)')
    BY <1>0, <1>1, <1>5, <1>8, <2>2
  <2>5. \A b \in Of(q) : srv'[b].reply = srv[b].reply
    BY <1>2, <1>3 DEF Of, reply
  <2>6. reply.status = "ok" => reply.exec = 1
    <3>1. a \in Of(q)
      BY DEF Of, q
    <3> QED BY <2>2, <3>1 DEF reply
  <2>7. \A e \in Range(cache') : e.key = q /\ e.reply.status = "ok" => e.reply.exec = 1
    BY <1>5, <2>2, <2>6
  <2> QED BY <2>2, <2>3, <2>4, <2>5, <2>7
<1>9. KeyInv(q)'
  BY <1>8 DEF KeyInv, Of
<1> QED BY <1>2, <1>3, <1>5, <1>6, <1>7, <1>9 DEF IdempotencyInv, IdempotencyTypes

\* After a restart every key is blamed, and the fresh attempts are still fresh.
LEMMA Restarted ==
  ASSUME IdempotencyAssumption, IdempotencyInv, Restart
  PROVE  IdempotencyInv'
<1>0. /\ call \in [Calls -> CallRecord] /\ Fresh /\ ServerWell /\ CacheWell /\ CountsWell
      /\ MaxRestarts \in Nat /\ CacheSize \in Nat
  BY DEF IdempotencyInv, IdempotencyTypes, CallsWell, IdempotencyAssumption
<1>1. /\ cache' = <<>> /\ restarts < MaxRestarts /\ restarts' = restarts + 1 /\ now' = now /\ execs' = execs
      /\ srv' = [a \in Attempts |-> IF srv[a].pc = "none" THEN srv[a] ELSE [srv[a] EXCEPT !.pc = "gone"]]
      /\ call' = [c \in Calls |-> IF call[c].pc = "waiting" THEN [call[c] EXCEPT !.pc = "done"] ELSE call[c]]
      /\ why' = [k \in Keys |-> IF k \in Keys THEN why[k] \cup {"restart"} ELSE why[k]]
  BY DEF Restart, Blame
<1>2. ServerWell'
  BY <1>0, <1>1 DEF ServerWell, AttemptRecord
<1>3. CacheWell'
  BY <1>0, <1>1 DEF CacheWell
<1>4. CountsWell' /\ \A k \in Keys : why'[k] # {}
  <2>1. why' \in [Keys -> SUBSET Causes] /\ \A k \in Keys : why'[k] # {}
    BY <1>0, <1>1 DEF CountsWell, Causes
  <2>2. restarts' \in 0..MaxRestarts
    BY <1>0, <1>1 DEF CountsWell
  <2> QED BY <1>0, <1>1, <2>1, <2>2 DEF CountsWell
<1>5. CallsWell'
  <2>1. call' \in [Calls -> CallRecord]
    BY <1>0, <1>1 DEF CallRecord
  <2>2. \A c \in Calls : call'[c].pc = "done" \/ call'[c] = call[c]
    BY <1>0, <1>1 DEF CallRecord
  <2>3. \A c \in Calls : call'[c].pc # "waiting" /\ (call'[c].pc = "ready" => call'[c] = call[c])
    BY <1>0, <1>1, <2>2
  <2>4. \A c \in Calls, n \in 0..MaxResends : <<c, n>> \in Attempts
    BY DEF Attempts
  <2>5. \A a \in Attempts : srv[a].pc = "none" => srv'[a].pc = "none"
    BY <1>1
  <2>6. Fresh'
    BY <1>0, <2>3, <2>4, <2>5 DEF Fresh
  <2> QED BY <2>1, <2>6 DEF CallsWell
<1>6. \A k \in Keys : KeyInv(k)'
  BY <1>4 DEF KeyInv
<1> QED BY <1>2, <1>3, <1>4, <1>5, <1>6 DEF IdempotencyInv, IdempotencyTypes

\* Time passes.
LEMMA ServesNone ==
  ASSUME IdempotencyAssumption, IdempotencyInv, now' \in 0..MaxNow,
         UNCHANGED <<call, srv, cache, execs, why, restarts>>
  PROVE  IdempotencyInv'
<1>1. IdempotencyTypes'
  BY DEF IdempotencyInv, IdempotencyTypes, CallsWell, Fresh, ServerWell, CacheWell, CountsWell
<1>2. \A k \in Keys : KeyInv(k)'
  BY DEF IdempotencyInv, KeyInv, Serving, Stored
<1> QED BY <1>1, <1>2 DEF IdempotencyInv

\* Every step keeps the invariant.
LEMMA CallsStep ==
  ASSUME IdempotencyAssumption, IdempotencyInv, [CallsNext]_callVars
  PROVE  IdempotencyInv'
<1>0. now \in 0..MaxNow /\ MaxNow \in Nat
  BY DEF IdempotencyInv, IdempotencyTypes, CountsWell, IdempotencyAssumption
<1>1. CASE UNCHANGED callVars
  BY <1>0, <1>1, ServesNone DEF callVars
<1>2. CASE Tick
  <2>1. now' \in 0..MaxNow
    BY <1>0, <1>2 DEF Tick
  <2> QED BY <1>2, <2>1, ServesNone DEF Tick
<1>3. CASE Restart
  BY <1>3, Restarted
<1>4. ASSUME NEW c \in Calls, Client(c) PROVE IdempotencyInv'
  BY <1>4, RequestSent, AttemptGivenUp DEF Client
<1>5. ASSUME NEW a \in Attempts, Serve(a) PROVE IdempotencyInv'
  BY <1>5, AnsweredAtOnce, Missed, Executed, Replied DEF Serve
<1> QED BY <1>1, <1>2, <1>3, <1>4, <1>5 DEF CallsNext, Finished

\* The invariant gives the properties.
LEMMA IdempotencyInvImplies ==
  ASSUME IdempotencyAssumption, IdempotencyInv
  PROVE  CallsTypeOK /\ DuplicatesExplained /\ AnswersAgree
<1>1. CallsTypeOK
  <2>1. \A a \in Attempts : srv[a].pc \in {"none", "received", "running", "executed", "gone"}
    BY DEF IdempotencyInv, IdempotencyTypes, ServerWell, AttemptRecord
  <2> QED BY <2>1 DEF IdempotencyInv, IdempotencyTypes, CallsWell, CacheWell, CountsWell, CallsTypeOK, CallRecord, Response
<1>2. DuplicatesExplained
  BY DEF IdempotencyInv, KeyInv, DuplicatesExplained
<1>3. ASSUME NEW a \in Attempts, NEW b \in Attempts, KeyOf[a[1]] = KeyOf[b[1]], why[KeyOf[a[1]]] = {},
             srv[a].reply.status = "ok", srv[b].reply.status = "ok"
      PROVE  srv[a].reply = srv[b].reply
  <2> DEFINE k == KeyOf[a[1]]
  <2>1. k \in Keys /\ a \in Of(k) /\ b \in Of(k)
    BY <1>3 DEF Attempts, IdempotencyAssumption, Of
  <2>2. srv[a].reply.exec = 1 /\ srv[b].reply.exec = 1
    BY <1>3, <2>1 DEF IdempotencyInv, KeyInv
  <2>3. srv[a].reply \in Response /\ srv[b].reply \in Response
    BY DEF IdempotencyInv, IdempotencyTypes, ServerWell, AttemptRecord
  <2>4. \A x, y \in Response : x.status = y.status /\ x.exec = y.exec => x = y
    BY DEF Response
  <2> QED BY <1>3, <2>2, <2>3, <2>4
<1>4. AnswersAgree
  BY <1>3 DEF AnswersAgree
<1> QED BY <1>1, <1>2, <1>4

LEMMA IdempotencyInvariance == CallsSpec => []IdempotencyInv
<1>1. CallsInit => IdempotencyInv
  BY CallsInitially, IdempotencyAssumption
<1>2. IdempotencyInv /\ [CallsNext]_callVars => IdempotencyInv'
  BY CallsStep, IdempotencyAssumption
<1> QED BY <1>1, <1>2, PTL DEF CallsSpec

\* Calls, attempts, store and counters keep to their types; the store to its size.
THEOREM CallsAlwaysTyped == CallsSpec => []CallsTypeOK
<1>1. IdempotencyInv => CallsTypeOK
  BY IdempotencyInvImplies, IdempotencyAssumption
<1> QED BY <1>1, IdempotencyInvariance, PTL

\* However calls, time-outs, retries, evictions and restarts interleave, a key
\* is executed twice only after one of the causes named (dispatch, get, set).
THEOREM DuplicatesAlwaysExplained == CallsSpec => []DuplicatesExplained
<1>1. IdempotencyInv => DuplicatesExplained
  BY IdempotencyInvImplies, IdempotencyAssumption
<1> QED BY <1>1, IdempotencyInvariance, PTL

\* Until then every 2xx under the key tells of the same execution (dispatch).
THEOREM AnswersAlwaysAgree == CallsSpec => []AnswersAgree
<1>1. IdempotencyInv => AnswersAgree
  BY IdempotencyInvImplies, IdempotencyAssumption
<1> QED BY <1>1, IdempotencyInvariance, PTL

-----------------------------------------------------------------------------
(* The rate limiter: the window a process keeps in its own memory is exact. *)

\* The timestamps of p later than `low`, and the requests admitted on its
\* memory since.
Times(p, low) == {i \in DOMAIN memory[p] : memory[p][i] > low}
Through(p, low) == {i \in DOMAIN admitted : /\ admitted[i].by = p /\ admitted[i].via = "memory"
                                            /\ admitted[i].at > low}

\* A list of timestamps in ascending order, none of them in the future.
Ascends(s) ==
  /\ s \in Seq(1..MaxClock)
  /\ \A i, j \in DOMAIN s : i <= j => s[i] <= s[j]
  /\ \A i \in DOMAIN s : s[i] <= clock

\* What is too old in such a list is its beginning.
LEMMA OldIsPrefix ==
  ASSUME NEW s \in Seq(Int), \A i, j \in DOMAIN s : i <= j => s[i] <= s[j], NEW cut \in Int
  PROVE  LET old == {i \in DOMAIN s : s[i] <= cut}
         IN  Cardinality(old) \in 0..Len(s) /\ old = 1..Cardinality(old)
<1> DEFINE old == {i \in DOMAIN s : s[i] <= cut}
           rest == {i \in 1..(Len(s) + 1) : i \notin old}
<1>1. Len(s) \in Nat /\ DOMAIN s = 1..Len(s) /\ \A i \in 1..Len(s) : s[i] \in Int
  OBVIOUS
<1>2. PICK m \in rest : \A i \in rest : m <= i
  <2>1. Len(s) + 1 \in rest /\ rest \subseteq Nat
    BY <1>1
  <2> HIDE DEF rest
  <2> QED BY <2>1, LeastExists
<1>3. old = 1..(m - 1)
  <2>1. ASSUME NEW i \in 1..(m - 1) PROVE i \in old
    BY <1>1, <1>2, <2>1
  <2>2. ASSUME NEW i \in old PROVE i \in 1..(m - 1)
    <3>1. CASE m = Len(s) + 1
      BY <1>1, <2>2, <3>1
    <3>2. CASE m # Len(s) + 1
      <4>1. m \in DOMAIN s /\ s[m] > cut /\ i \in DOMAIN s /\ s[i] <= cut
        BY <1>1, <1>2, <2>2, <3>2
      <4>2. ~(m <= i)
        BY <1>1, <4>1
      <4> QED BY <1>1, <1>2, <4>1, <4>2
    <3> QED BY <3>1, <3>2
  <2> QED BY <2>1, <2>2
<1>4. m \in 1..(Len(s) + 1)
  BY <1>2
<1> HIDE DEF old, rest
<1>5. Cardinality(1..(m - 1)) = m - 1
  BY <1>1, <1>4, FS_Interval
<1>6. Cardinality(old) = m - 1
  BY <1>3, <1>5
<1>7. Cardinality(old) \in 0..Len(s) /\ old = 1..Cardinality(old)
  BY <1>1, <1>3, <1>4, <1>6
<1> QED BY <1>7 DEF old

\* Positions shifted by a distance are as many.
LEMMA ShiftedAreAsMany ==
  ASSUME NEW A, NEW B, NEW n \in Int, IsFiniteSet(A), A \subseteq Int, B \subseteq Int,
         \A i \in Int : i \in A <=> i + n \in B
  PROVE  IsFiniteSet(B) /\ Cardinality(B) = Cardinality(A)
<1> DEFINE f == [i \in A |-> i + n]
<1>1. f \in Bijection(A, B)
  <2>1. f \in [A -> B]
    OBVIOUS
  <2>2. \A i, j \in A : f[i] = f[j] => i = j
    OBVIOUS
  <2>3. ASSUME NEW b \in B PROVE \E i \in A : f[i] = b
    <3>1. (b - n) + n = b /\ b - n \in Int
      OBVIOUS
    <3>2. b - n \in A
      BY <3>1
    <3> QED BY <3>1, <3>2
  <2> HIDE DEF f
  <2> QED BY <2>1, <2>2, <2>3 DEF Bijection, Injection, Surjection, IsInjective
<1> HIDE DEF f
<1>2. ExistsBijection(A, B)
  BY <1>1 DEF ExistsBijection
<1> QED BY <1>2, FS_Bijection

Later(s, low) == {i \in DOMAIN s : s[i] > low}

\* Filtering the list drops what no window from now on can hold.
LEMMA LiveList ==
  ASSUME LimiterAssumption, clock \in 1..MaxClock, NEW p \in Procs, Ascends(memory[p])
  PROVE  /\ Ascends(Live(p)) /\ Len(Live(p)) \in Nat /\ DOMAIN Live(p) = 1..Len(Live(p))
         /\ \A i \in DOMAIN Live(p) : Live(p)[i] > clock - Window
         /\ \A low \in Int : low >= clock - Window =>
              Cardinality(Later(Live(p), low)) = Cardinality(Times(p, low))
<1> DEFINE s == memory[p]
           cut == clock - Window
           n == Cardinality({i \in DOMAIN s : s[i] <= cut})
           L == SubSeq(s, n + 1, Len(s))
<1>0. Live(p) = L
  BY DEF Live
<1>1. /\ s \in Seq(1..MaxClock) /\ \A i, j \in DOMAIN s : i <= j => s[i] <= s[j]
      /\ \A i \in DOMAIN s : s[i] <= clock /\ s[i] \in Int
      /\ Len(s) \in Nat /\ DOMAIN s = 1..Len(s) /\ MaxClock \in Nat
  BY DEF Ascends, LimiterAssumption
<1>2. cut \in Int /\ s \in Seq(Int)
  BY <1>1 DEF LimiterAssumption
<1> HIDE DEF s, cut
<1>3. n \in 0..Len(s) /\ {i \in DOMAIN s : s[i] <= cut} = 1..n
  BY <1>1, <1>2, OldIsPrefix
<1> HIDE DEF n
<1>4. /\ L \in Seq(1..MaxClock) /\ Len(L) = Len(s) - n /\ DOMAIN L = 1..(Len(s) - n)
      /\ \A i \in 1..(Len(s) - n) : L[i] = s[n + i]
  <2>1. s \in Seq(1..MaxClock) /\ n \in 0..Len(s)
    BY <1>1, <1>3
  <2> QED BY <2>1, Behind
<1> HIDE DEF L
<1>5. ASSUME NEW i \in DOMAIN L PROVE n + i \in DOMAIN s /\ n + i \notin 1..n /\ L[i] = s[n + i]
  <2>1. i \in 1..(Len(s) - n) /\ L[i] = s[n + i]
    BY <1>4
  <2> QED BY <1>1, <1>3, <2>1
<1>6. \A i \in DOMAIN L : L[i] > cut
  BY <1>1, <1>2, <1>3, <1>5
<1>7. Ascends(L)
  <2>1. ASSUME NEW i \in DOMAIN L, NEW j \in DOMAIN L, i <= j PROVE L[i] <= L[j]
    <3>1. n + i <= n + j
      BY <1>3, <1>4, <2>1
    <3> QED BY <1>1, <1>5, <3>1
  <2>2. \A i \in DOMAIN L : L[i] <= clock
    BY <1>1, <1>5
  <2> QED BY <1>4, <2>1, <2>2 DEF Ascends
<1>8. ASSUME NEW low \in Int, low >= cut
      PROVE  Cardinality(Later(L, low)) = Cardinality(Times(p, low))
  <2> DEFINE A == Later(L, low)
             B == Times(p, low)
  <2>1. IsFiniteSet(1..(Len(s) - n))
    BY <1>1, <1>3, FS_Interval
  <2>2. A \subseteq 1..(Len(s) - n) /\ B \subseteq 1..Len(s)
    BY <1>1, <1>4 DEF Later, Times, s
  <2>3. IsFiniteSet(A)
    BY <2>1, <2>2, FS_Subset
  <2>4. ASSUME NEW i \in Int PROVE i \in A <=> i + n \in B
    <3>1. ASSUME i \in A PROVE i + n \in B
      <4>1. i \in DOMAIN L /\ L[i] > low
        BY <3>1 DEF Later
      <4>2. n + i \in DOMAIN s /\ s[n + i] > low /\ n + i = i + n
        BY <1>3, <1>5, <4>1
      <4> QED BY <4>2 DEF Times, s
    <3>2. ASSUME i + n \in B PROVE i \in A
      <4>1. i + n \in DOMAIN s /\ s[i + n] > low
        BY <3>2 DEF Times, s
      <4>2. i + n \notin 1..n
        BY <1>1, <1>2, <1>3, <1>8, <4>1
      <4>3. i \in 1..(Len(s) - n)
        BY <1>1, <1>3, <4>1, <4>2
      <4>4. n + i = i + n
        BY <1>3
      <4> QED BY <1>4, <4>1, <4>3, <4>4 DEF Later
    <3> QED BY <3>1, <3>2
  <2>5. n \in Int /\ A \subseteq Int /\ B \subseteq Int
    BY <1>3, <2>2
  <2> HIDE DEF A, B
  <2>6. Cardinality(B) = Cardinality(A)
    BY <2>3, <2>4, <2>5, ShiftedAreAsMany
  <2> QED BY <2>6 DEF A, B
<1>9. Len(L) \in Nat /\ DOMAIN L = 1..Len(L)
  BY <1>1, <1>3, <1>4
<1> QED BY <1>0, <1>6, <1>7, <1>8, <1>9 DEF cut

\* A timestamp added to a list counts from itself on.
LEMMA OneMoreLater ==
  ASSUME MaxClock \in Nat, NEW s \in Seq(1..MaxClock), NEW e \in 1..MaxClock, NEW low \in Int
  PROVE  /\ IsFiniteSet(Later(s, low)) /\ Cardinality(Later(s, low)) \in Nat
         /\ Cardinality(Later(Append(s, e), low)) = Cardinality(Later(s, low)) + (IF e > low THEN 1 ELSE 0)
<1>1. Len(s) \in Nat /\ DOMAIN s = 1..Len(s)
  OBVIOUS
<1>2. IsFiniteSet(1..Len(s)) /\ Later(s, low) \subseteq 1..Len(s)
  BY <1>1, FS_Interval DEF Later
<1>3. IsFiniteSet(Later(s, low)) /\ Cardinality(Later(s, low)) \in Nat
  BY <1>2, FS_Subset, FS_CardinalityType
<1>4. /\ DOMAIN Append(s, e) = 1..(Len(s) + 1) /\ Append(s, e)[Len(s) + 1] = e
      /\ \A i \in 1..Len(s) : Append(s, e)[i] = s[i]
  BY <1>1
<1>5. CASE e > low
  <2>1. Later(Append(s, e), low) = Later(s, low) \cup {Len(s) + 1}
    BY <1>1, <1>4, <1>5 DEF Later
  <2>2. Len(s) + 1 \notin Later(s, low)
    BY <1>1 DEF Later
  <2>3. Cardinality(Later(s, low) \cup {Len(s) + 1}) = Cardinality(Later(s, low)) + 1
    BY <1>3, <2>2, FS_AddElement
  <2> QED BY <1>3, <1>5, <2>1, <2>3
<1>6. CASE ~(e > low)
  <2>1. Later(Append(s, e), low) = Later(s, low)
    BY <1>1, <1>4, <1>6 DEF Later
  <2> QED BY <1>3, <1>6, <2>1
<1> QED BY <1>5, <1>6

\* After the seconds of Retry-After the oldest entry has left the window.
LEMMA RetryOutlasts ==
  ASSUME LimiterAssumption, NEW at \in Int, NEW oldest \in Int
  PROVE  /\ RetryAfter(at, oldest) \in Int
         /\ oldest > at - Window =>
              RetryAfter(at, oldest) >= 0 /\ at + RetryAfter(at, oldest) - Window > oldest
<1> DEFINE x == Window - (at - oldest)
<1>1. x \in Int /\ Second \in Nat /\ Second > 0
  BY DEF LimiterAssumption
<1>2. \A y \in Nat : y \div Second \in Nat /\ (y \div Second + 1) * Second > y
  BY <1>1
<1>3. Truncated(x) \in Int /\ (x >= 0 => Truncated(x) = x \div Second)
  BY <1>1, <1>2 DEF Truncated
<1>4. RetryAfter(at, oldest) = (Truncated(x) + 1) * Second
  BY DEF RetryAfter
<1> HIDE DEF x
<1>5. RetryAfter(at, oldest) \in Int
  BY <1>1, <1>3, <1>4
<1>6. ASSUME x > 0 PROVE RetryAfter(at, oldest) > x
  <2>1. x \in Nat
    BY <1>1, <1>6
  <2> QED BY <1>2, <1>3, <1>4, <2>1
<1>7. ASSUME oldest > at - Window
      PROVE  RetryAfter(at, oldest) >= 0 /\ at + RetryAfter(at, oldest) - Window > oldest
  <2>1. Window \in Int
    BY DEF LimiterAssumption
  <2>2. x > 0
    BY <1>7, <2>1 DEF x
  <2>3. RetryAfter(at, oldest) > Window - (at - oldest) /\ Window - (at - oldest) > 0
    BY <1>6, <2>2 DEF x
  <2> HIDE DEF RetryAfter
  <2> QED BY <1>5, <2>1, <2>3
<1> QED BY <1>5, <1>7

\* The requests of p that its memory admitted in the window (low, high].
InWindow(p, low, high) == {i \in Through(p, low) : admitted[i].at <= high}

AdmittedRecord == [at : 1..MaxClock, by : Procs, via : Via]

LimiterTypes ==
  /\ LimiterTypeOK
  /\ \A p \in Procs : proc[p].at <= clock /\ (proc[p].pc # "idle" => proc[p].at \in 1..MaxClock)
  /\ \A i \in DOMAIN admitted : admitted[i].at <= clock

\* The memory of a process tells how many it admitted since any instant that
\* a window may still reach back to.
Told(p) ==
  /\ Ascends(memory[p])
  /\ \A low \in Int : low >= clock - Window => Cardinality(Times(p, low)) = Cardinality(Through(p, low))
Exact(p) == \A t \in Int : Cardinality(InWindow(p, t - Window, t)) <= Limit
\* The last refusal was right and its Retry-After is long enough; for as long
\* as the clock stands at it, the memory is full.
Justified ==
  /\ refusal.by \in Procs /\ refusal.at \in 1..MaxClock /\ refusal.at <= clock /\ refusal.retry \in Int
  /\ Cardinality(InWindow(refusal.by, refusal.at - Window, refusal.at)) >= Limit
  /\ Cardinality(InWindow(refusal.by, refusal.at + refusal.retry - Window, refusal.at)) < Limit
  /\ refusal.at = clock => Cardinality(Times(refusal.by, clock - Window)) >= Limit

MemoryInv ==
  /\ \A p \in Procs : Told(p) /\ Exact(p)
  /\ refusal.via = "memory" => Justified

LimiterInv == LimiterTypes /\ MemoryInv

\* The history is a finite list, and so is what a window holds of it.
LEMMA AdmittedFinite ==
  ASSUME LimiterTypes
  PROVE  /\ Len(admitted) \in Nat /\ DOMAIN admitted = 1..Len(admitted)
         /\ \A i \in DOMAIN admitted : admitted[i] \in AdmittedRecord
         /\ \A p, low : IsFiniteSet(Through(p, low)) /\ Cardinality(Through(p, low)) \in Nat
         /\ \A p, low, high : IsFiniteSet(InWindow(p, low, high)) /\ Cardinality(InWindow(p, low, high)) \in Nat
<1>1. admitted \in Seq(AdmittedRecord)
  BY DEF LimiterTypes, LimiterTypeOK, AdmittedRecord
<1>2. Len(admitted) \in Nat /\ DOMAIN admitted = 1..Len(admitted)
  BY <1>1
<1>3. IsFiniteSet(DOMAIN admitted)
  BY <1>2, FS_Interval
<1>4. \A p, low : Through(p, low) \in SUBSET DOMAIN admitted
  BY DEF Through
<1>5. \A p, low, high : InWindow(p, low, high) \in SUBSET DOMAIN admitted
  BY <1>4 DEF InWindow
<1>6. \A i \in DOMAIN admitted : admitted[i] \in AdmittedRecord
  BY <1>1
<1> QED BY <1>2, <1>3, <1>4, <1>5, <1>6, FS_Subset, FS_CardinalityType

\* What the properties count.
LEMMA WithinIsWindow ==
  ASSUME NEW p, NEW low, NEW high
  PROVE  Within(low, high, {p}, {"memory"}) = Cardinality(InWindow(p, low, high))
<1>1. {i \in DOMAIN admitted : /\ admitted[i].by \in {p} /\ admitted[i].via \in {"memory"}
                               /\ admitted[i].at > low /\ admitted[i].at <= high} = InWindow(p, low, high)
  BY DEF InWindow, Through
<1> QED BY <1>1 DEF Within

\* The invariant gives the properties.
LEMMA LimiterInvImplies ==
  ASSUME LimiterAssumption, LimiterInv
  PROVE  MemoryWindowExact /\ RetryAfterSuffices
<1>1. \A p \in Procs, t \in 1..MaxClock : Cardinality(InWindow(p, t - Window, t)) <= Limit
  BY DEF LimiterInv, MemoryInv, Exact
<1>2. MemoryWindowExact
  BY <1>1, WithinIsWindow DEF MemoryWindowExact, LimiterInv, MemoryInv, Justified
<1>3. RetryAfterSuffices
  BY WithinIsWindow DEF RetryAfterSuffices, LimiterInv, MemoryInv, Justified
<1> QED BY <1>2, <1>3

\* As time passes, a window reaches back less far.
LEMMA WindowMovesOn ==
  ASSUME NEW before \in Int, NEW after \in Int, NEW width \in Int, before <= after
  PROVE  \A low \in Int : low >= after - width => low >= before - width
OBVIOUS

AdmittedByRedis ==
  \/ UNCHANGED admitted
  \/ \E e \in AdmittedRecord : e.via = "redis" /\ admitted' = Append(admitted, e)

\* Time passes, or Redis admits or refuses a request: the memories stand.
LEMMA MemoryStands ==
  ASSUME LimiterAssumption, LimiterInv, LimiterTypes', UNCHANGED memory, clock' \in {clock, clock + 1},
         AdmittedByRedis, UNCHANGED refusal \/ refusal'.via = "redis"
  PROVE  MemoryInv'
<1>0. /\ clock \in Int /\ Window \in Int /\ clock' \in Int /\ clock <= clock'
  BY DEF LimiterInv, LimiterTypes, LimiterTypeOK, LimiterAssumption
<1>1. /\ Len(admitted) \in Nat /\ DOMAIN admitted = 1..Len(admitted)
      /\ admitted \in Seq(AdmittedRecord)
  BY AdmittedFinite DEF LimiterInv, LimiterTypes, LimiterTypeOK, AdmittedRecord
<1>2. \A p, low : Through(p, low)' = Through(p, low)
  <2>1. CASE UNCHANGED admitted
    BY <2>1 DEF Through
  <2>2. ASSUME NEW e \in AdmittedRecord, e.via = "redis", admitted' = Append(admitted, e)
        PROVE  \A p, low : Through(p, low)' = Through(p, low)
    <3>1. /\ DOMAIN admitted' = 1..(Len(admitted) + 1) /\ admitted'[Len(admitted) + 1] = e
          /\ \A i \in 1..Len(admitted) : admitted'[i] = admitted[i]
      BY <1>1, <2>2
    <3>2. \A p : admitted'[Len(admitted) + 1].via # "memory"
      BY <2>2, <3>1
    <3> QED BY <1>1, <3>1, <3>2 DEF Through
  <2> QED BY <2>1, <2>2 DEF AdmittedByRedis
<1>3. \A i \in DOMAIN admitted : admitted'[i] = admitted[i]
  BY <1>1 DEF AdmittedByRedis
<1>4. \A p, low, high : InWindow(p, low, high)' = InWindow(p, low, high)
  <2>1. \A p, low : \A i \in Through(p, low) : i \in DOMAIN admitted
    BY DEF Through
  <2> QED BY <1>2, <1>3, <2>1 DEF InWindow
<1>5. \A p, low : Times(p, low)' = Times(p, low)
  BY DEF Times
<1>6. ASSUME NEW p \in Procs PROVE Told(p)' /\ Exact(p)'
  <2>1. Told(p) /\ Exact(p)
    BY DEF LimiterInv, MemoryInv
  <2>2. Ascends(memory[p])'
    BY <1>0, <2>1 DEF Told, Ascends
  <2>3. \A low \in Int : low >= clock' - Window => low >= clock - Window
    BY <1>0, WindowMovesOn
  <2> QED BY <1>2, <1>4, <1>5, <2>1, <2>2, <2>3 DEF Told, Exact
<1>7. ASSUME refusal'.via = "memory" PROVE Justified'
  <2>1. refusal' = refusal /\ Justified
    BY <1>7 DEF LimiterInv, MemoryInv
  <2>2. refusal.at <= clock' /\ (refusal.at = clock' => refusal.at = clock /\ clock' = clock)
    BY <1>0, <2>1 DEF Justified
  <2> QED BY <1>4, <1>5, <2>1, <2>2 DEF Justified
<1> QED BY <1>6, <1>7 DEF MemoryInv

\* What is admitted now, on the memory of p, counts in the windows that reach
\* back to before now.
LEMMA AdmittedNow ==
  ASSUME LimiterTypes, NEW p \in Procs, Admit(p, clock, "memory")
  PROVE  /\ \A q \in Procs, low \in Int : q # p => Through(q, low)' = Through(q, low)
         /\ \A q \in Procs, low, high \in Int :
              q # p \/ high < clock => InWindow(q, low, high)' = InWindow(q, low, high)
         /\ \A low \in Int : Cardinality(Through(p, low)') = Cardinality(Through(p, low)) + (IF clock > low THEN 1 ELSE 0)
         /\ \A low, high \in Int :
              \/ InWindow(p, low, high)' = InWindow(p, low, high)
              \/ /\ clock > low /\ clock <= high
                 /\ Cardinality(InWindow(p, low, high)') = Cardinality(InWindow(p, low, high)) + 1
<1> DEFINE n == Len(admitted) + 1
           e == [at |-> clock, by |-> p, via |-> "memory"]
<1>1. /\ Len(admitted) \in Nat /\ DOMAIN admitted = 1..Len(admitted)
      /\ admitted \in Seq(AdmittedRecord) /\ clock \in 1..MaxClock /\ clock \in Int
  BY AdmittedFinite DEF LimiterTypes, LimiterTypeOK, AdmittedRecord
<1>2. e \in AdmittedRecord
  BY <1>1 DEF AdmittedRecord, Via
<1>3. admitted' = Append(admitted, e)
  BY DEF Admit
<1>4. e.at = clock /\ e.by = p /\ e.via = "memory"
  OBVIOUS
<1> HIDE DEF e
<1>5. /\ DOMAIN admitted' = 1..n /\ admitted'[n] = e
      /\ \A i \in 1..Len(admitted) : admitted'[i] = admitted[i]
  BY <1>1, <1>2, <1>3
<1>6. n \notin DOMAIN admitted /\ DOMAIN admitted' = DOMAIN admitted \cup {n}
  BY <1>1, <1>5
<1> HIDE DEF n
<1>7. \A i \in DOMAIN admitted : admitted'[i] = admitted[i]
  BY <1>1, <1>5
<1>8. ASSUME NEW q \in Procs, NEW low \in Int
      PROVE  Through(q, low)' = Through(q, low) \cup (IF q = p /\ clock > low THEN {n} ELSE {})
  BY <1>4, <1>5, <1>6, <1>7 DEF Through
<1>9. ASSUME NEW q \in Procs, NEW low \in Int, NEW high \in Int
      PROVE  InWindow(q, low, high)' = InWindow(q, low, high)
               \cup (IF q = p /\ clock > low /\ clock <= high THEN {n} ELSE {})
  <2>1. Through(q, low) \subseteq DOMAIN admitted
    BY DEF Through
  <2> QED BY <1>4, <1>5, <1>6, <1>7, <1>8, <1>9, <2>1 DEF InWindow
<1>10. \A q, low, high : n \notin Through(q, low) /\ n \notin InWindow(q, low, high)
  BY <1>6 DEF Through, InWindow
<1>11. \A q \in Procs, low \in Int : q # p => Through(q, low)' = Through(q, low)
  BY <1>8
<1>12. \A q \in Procs, low, high \in Int :
         q # p \/ high < clock => InWindow(q, low, high)' = InWindow(q, low, high)
  <2>1. ASSUME NEW q \in Procs, NEW low \in Int, NEW high \in Int, q # p \/ high < clock
        PROVE  InWindow(q, low, high)' = InWindow(q, low, high)
    <3>1. ~(q = p /\ clock > low /\ clock <= high)
      BY <1>1, <2>1
    <3>2. InWindow(q, low, high)' = InWindow(q, low, high) \cup {}
      BY <1>9, <3>1
    <3> QED BY <3>2
  <2> QED BY <2>1
<1>13. ASSUME NEW low \in Int
       PROVE  Cardinality(Through(p, low)') = Cardinality(Through(p, low)) + (IF clock > low THEN 1 ELSE 0)
  <2>1. IsFiniteSet(Through(p, low)) /\ Cardinality(Through(p, low)) \in Nat
    BY AdmittedFinite
  <2>2. CASE clock > low
    <3>1. Through(p, low)' = Through(p, low) \cup {n}
      BY <1>8, <2>2
    <3>2. Cardinality(Through(p, low) \cup {n}) = Cardinality(Through(p, low)) + 1
      BY <1>10, <2>1, FS_AddElement
    <3> QED BY <2>2, <3>1, <3>2
  <2>3. CASE ~(clock > low)
    <3>1. Through(p, low)' = Through(p, low)
      BY <1>8, <2>3
    <3> QED BY <2>1, <2>3, <3>1
  <2> QED BY <2>2, <2>3
<1>14. ASSUME NEW low \in Int, NEW high \in Int
       PROVE  \/ InWindow(p, low, high)' = InWindow(p, low, high)
              \/ /\ clock > low /\ clock <= high
                 /\ Cardinality(InWindow(p, low, high)') = Cardinality(InWindow(p, low, high)) + 1
  <2>1. IsFiniteSet(InWindow(p, low, high))
    BY AdmittedFinite
  <2>2. CASE clock > low /\ clock <= high
    <3>1. InWindow(p, low, high)' = InWindow(p, low, high) \cup {n}
      BY <1>9, <2>2
    <3>2. Cardinality(InWindow(p, low, high) \cup {n}) = Cardinality(InWindow(p, low, high)) + 1
      BY <1>10, <2>1, FS_AddElement
    <3> QED BY <2>2, <3>1, <3>2
  <2>3. CASE ~(clock > low /\ clock <= high)
    <3>1. InWindow(p, low, high)' = InWindow(p, low, high) \cup {}
      BY <1>9, <2>3
    <3> QED BY <3>1
  <2> QED BY <2>2, <2>3
<1> QED BY <1>11, <1>12, <1>13, <1>14

\* Of the windows that hold the present, none holds more than the memory
\* tells of.
LEMMA WindowsShrink ==
  ASSUME LimiterTypes, NEW p \in Procs, NEW low \in Int, NEW back \in Int, NEW high \in Int, low >= back
  PROVE  Cardinality(InWindow(p, low, high)) <= Cardinality(Through(p, back))
<1>1. InWindow(p, low, high) \in SUBSET Through(p, back)
  <2>1. \A i \in DOMAIN admitted : admitted[i].at \in Int
    BY AdmittedFinite DEF AdmittedRecord
  <2> QED BY <2>1 DEF InWindow, Through
<1> QED BY <1>1, AdmittedFinite, FS_Subset

\* Nothing is admitted later than now.
LEMMA WindowOfNow ==
  ASSUME LimiterTypes, NEW p \in Procs, NEW low \in Int
  PROVE  InWindow(p, low, clock) = Through(p, low)
BY DEF LimiterTypes, InWindow, Through

\* Of the timestamps in an ascending list the first is not later than itself.
LEMMA LaterThanFirst ==
  ASSUME NEW s, Ascends(s), Len(s) \in Nat, DOMAIN s = 1..Len(s), Len(s) > 0, NEW low \in Int, low >= s[1]
  PROVE  Cardinality(Later(s, low)) <= Len(s) - 1
<1>1. s[1] \in Int
  <2>1. s \in Seq(1..MaxClock) /\ 1 \in 1..Len(s)
    BY DEF Ascends
  <2>2. s[1] \in 1..MaxClock
    BY <2>1, ElementOfSeq
  <2> QED BY <2>2
<1>2. Later(s, low) \in SUBSET (2..Len(s))
  BY <1>1 DEF Later
<1>3. IsFiniteSet(2..Len(s)) /\ Cardinality(2..Len(s)) = Len(s) - 1
  <2>1. 2 \in Int /\ Len(s) \in Int
    OBVIOUS
  <2>2. Cardinality(2..Len(s)) = IF 2 > Len(s) THEN 0 ELSE Len(s) - 2 + 1
    BY <2>1, FS_Interval
  <2>3. IsFiniteSet(2..Len(s))
    BY <2>1, FS_Interval
  <2> QED BY <2>2, <2>3
<1> QED BY <1>2, <1>3, FS_Subset

\* All of the live timestamps are in the window that ends now.
LEMMA LiveFillWindow ==
  ASSUME LimiterAssumption, LimiterInv, NEW p \in Procs
  PROVE  /\ Cardinality(Times(p, clock - Window)) = Len(Live(p))
         /\ Cardinality(Through(p, clock - Window)) = Len(Live(p))
<1>1. Told(p) /\ clock \in 1..MaxClock /\ clock - Window \in Int /\ clock - Window >= clock - Window
  BY DEF LimiterInv, LimiterTypes, LimiterTypeOK, MemoryInv, LimiterAssumption
<1>2. Ascends(memory[p])
  BY <1>1 DEF Told
<1>3. /\ Len(Live(p)) \in Nat /\ DOMAIN Live(p) = 1..Len(Live(p))
      /\ \A i \in DOMAIN Live(p) : Live(p)[i] > clock - Window
      /\ Cardinality(Later(Live(p), clock - Window)) = Cardinality(Times(p, clock - Window))
  BY <1>1, <1>2, LiveList
<1>4. Later(Live(p), clock - Window) = 1..Len(Live(p))
  BY <1>3 DEF Later
<1>5. Cardinality(1..Len(Live(p))) = Len(Live(p))
  <2>1. \A n \in Nat : Cardinality(1..n) = n
    BY FS_Interval
  <2> QED BY <1>3, <2>1
<1>6. Cardinality(Times(p, clock - Window)) = Cardinality(Through(p, clock - Window))
  BY <1>1 DEF Told
<1> QED BY <1>3, <1>4, <1>5, <1>6

\* The memory of p after its check.
MemorySet(p, list) == memory' = [memory EXCEPT ![p] = list]

LEMMA TimesAfter ==
  ASSUME LimiterTypes, NEW p \in Procs, NEW list, MemorySet(p, list)
  PROVE  /\ memory'[p] = list /\ \A low : Times(p, low)' = Later(list, low)
         /\ \A q \in Procs : q # p => memory'[q] = memory[q] /\ \A low : Times(q, low)' = Times(q, low)
<1>1. memory \in [Procs -> Seq(1..MaxClock)]
  BY DEF LimiterTypes, LimiterTypeOK
<1>2. memory'[p] = list /\ \A q \in Procs : q # p => memory'[q] = memory[q]
  BY <1>1 DEF MemorySet
<1> QED BY <1>2 DEF Times, Later

\* A check that admits: the window had room, and the list records it.
LEMMA AdmittingKeeps ==
  ASSUME LimiterAssumption, LimiterInv, LimiterTypes', NEW p \in Procs, UNCHANGED clock,
         Len(Live(p)) < Limit, MemorySet(p, Append(Live(p), clock)), Admit(p, clock, "memory"),
         UNCHANGED refusal
  PROVE  MemoryInv'
<1>0. /\ LimiterTypes /\ clock \in 1..MaxClock /\ clock \in Int /\ Window \in Int /\ Limit \in Int
      /\ MaxClock \in Nat /\ \A q \in Procs : Told(q) /\ Exact(q)
  BY DEF LimiterInv, LimiterTypes, LimiterTypeOK, MemoryInv, LimiterAssumption
<1>1. Ascends(memory[p])
  BY <1>0 DEF Told
<1> DEFINE L == Live(p)
<1>2. /\ Ascends(L) /\ Len(L) \in Nat /\ DOMAIN L = 1..Len(L)
      /\ \A low \in Int : low >= clock - Window => Cardinality(Later(L, low)) = Cardinality(Times(p, low))
  BY <1>0, <1>1, LiveList
<1>3. Cardinality(Times(p, clock - Window)) = Len(L) /\ Cardinality(Through(p, clock - Window)) = Len(L)
  BY LiveFillWindow
<1>4. Len(L) < Limit /\ MemorySet(p, Append(L, clock))
  OBVIOUS
<1>5. L \in Seq(1..MaxClock)
  BY <1>2 DEF Ascends
<1> HIDE DEF L
<1>6. /\ memory'[p] = Append(L, clock) /\ \A low : Times(p, low)' = Later(Append(L, clock), low)
      /\ \A q \in Procs : q # p => memory'[q] = memory[q] /\ \A low : Times(q, low)' = Times(q, low)
  BY <1>0, <1>4, TimesAfter
<1>7. /\ \A q \in Procs, low \in Int : q # p => Through(q, low)' = Through(q, low)
      /\ \A q \in Procs, low, high \in Int :
           q # p \/ high < clock => InWindow(q, low, high)' = InWindow(q, low, high)
  BY <1>0, AdmittedNow
<1>8. \A low \in Int : Cardinality(Through(p, low)') = Cardinality(Through(p, low)) + (IF clock > low THEN 1 ELSE 0)
  BY <1>0, AdmittedNow
<1>9. \A low, high \in Int :
        \/ InWindow(p, low, high)' = InWindow(p, low, high)
        \/ /\ clock > low /\ clock <= high
           /\ Cardinality(InWindow(p, low, high)') = Cardinality(InWindow(p, low, high)) + 1
  BY <1>0, AdmittedNow
<1>10. clock' = clock /\ refusal' = refusal
  OBVIOUS
<1>11. ASSUME NEW q \in Procs, q # p  PROVE Told(q)' /\ Exact(q)'
  <2>1. Told(q) /\ Exact(q)
    BY <1>0
  <2>2. Ascends(memory[q])'
    BY <1>6, <1>10, <1>11, <2>1 DEF Told, Ascends
  <2>3. Told(q)'
    BY <1>6, <1>7, <1>10, <1>11, <2>1, <2>2 DEF Told
  <2>4. Exact(q)'
    BY <1>0, <1>7, <1>11, <2>1 DEF Exact
  <2> QED BY <2>3, <2>4
<1>12. Told(p)'
  <2>1. Ascends(Append(L, clock))
    <3>1. /\ Append(L, clock) \in Seq(1..MaxClock) /\ DOMAIN Append(L, clock) = 1..(Len(L) + 1)
          /\ Append(L, clock)[Len(L) + 1] = clock /\ \A i \in 1..Len(L) : Append(L, clock)[i] = L[i]
      BY <1>0, <1>2, <1>5
    <3>2. \A i, j \in DOMAIN L : i <= j => L[i] <= L[j]
      BY <1>2 DEF Ascends
    <3>3. \A i \in DOMAIN L : L[i] <= clock
      BY <1>2 DEF Ascends
    <3> HIDE DEF L
    <3>4. \A i, j \in 1..(Len(L) + 1) : i <= j => Append(L, clock)[i] <= Append(L, clock)[j]
      <4>1. ASSUME NEW i \in 1..(Len(L) + 1), NEW j \in 1..(Len(L) + 1), i <= j
            PROVE  Append(L, clock)[i] <= Append(L, clock)[j]
        <5>1. CASE j = Len(L) + 1 /\ i = Len(L) + 1
          BY <1>0, <3>1, <5>1
        <5>2. CASE j = Len(L) + 1 /\ i # Len(L) + 1
          <6>1. i \in 1..Len(L)
            BY <1>2, <5>2
          <6> QED BY <1>2, <3>1, <3>3, <5>2, <6>1
        <5>3. CASE j # Len(L) + 1
          <6>1. i \in 1..Len(L) /\ j \in 1..Len(L)
            BY <1>2, <4>1, <5>3
          <6> QED BY <1>2, <3>1, <3>2, <4>1, <6>1
        <5> QED BY <5>1, <5>2, <5>3
      <4> QED BY <4>1
    <3>5. \A i \in 1..(Len(L) + 1) : Append(L, clock)[i] <= clock
      <4>1. ASSUME NEW i \in 1..(Len(L) + 1) PROVE Append(L, clock)[i] <= clock
        <5>1. CASE i = Len(L) + 1
          BY <1>0, <3>1, <5>1
        <5>2. CASE i # Len(L) + 1
          <6>1. i \in 1..Len(L)
            BY <1>2, <5>2
          <6> QED BY <1>2, <3>1, <3>3, <6>1
        <5> QED BY <5>1, <5>2
      <4> QED BY <4>1
    <3> QED BY <3>1, <3>4, <3>5 DEF Ascends
  <2>2. Ascends(memory[p])'
    BY <1>6, <1>10, <2>1 DEF Ascends
  <2>3. ASSUME NEW low \in Int, low >= clock - Window
        PROVE  Cardinality(Times(p, low)') = Cardinality(Through(p, low)')
    <3>1. Cardinality(Times(p, low)') = Cardinality(Later(L, low)) + (IF clock > low THEN 1 ELSE 0)
      <4>1. Cardinality(Later(Append(L, clock), low)) = Cardinality(Later(L, low)) + (IF clock > low THEN 1 ELSE 0)
        BY <1>0, <1>5, <2>3, OneMoreLater
      <4>2. Times(p, low)' = Later(Append(L, clock), low)
        BY <1>6
      <4> QED BY <4>1, <4>2
    <3>2. Cardinality(Later(L, low)) = Cardinality(Times(p, low))
      BY <1>2, <2>3
    <3>3. Cardinality(Times(p, low)) = Cardinality(Through(p, low))
      BY <1>0, <2>3 DEF Told
    <3> QED BY <1>8, <3>1, <3>2, <3>3
  <2>4. \A low : Cardinality(Times(p, low)') = Cardinality(Times(p, low))'
                 /\ Cardinality(Through(p, low)') = Cardinality(Through(p, low))'
    OBVIOUS
  <2> QED BY <1>10, <2>2, <2>3, <2>4 DEF Told
<1>13. Exact(p)'
  <2>1. ASSUME NEW t \in Int PROVE Cardinality(InWindow(p, t - Window, t)') <= Limit
    <3>1. t - Window \in Int
      BY <1>0
    <3>2. CASE InWindow(p, t - Window, t)' = InWindow(p, t - Window, t)
      BY <1>0, <3>2 DEF Exact
    <3>3. CASE /\ clock > t - Window /\ clock <= t
               /\ Cardinality(InWindow(p, t - Window, t)') = Cardinality(InWindow(p, t - Window, t)) + 1
      <4>1. t - Window >= clock - Window /\ clock - Window \in Int
        BY <1>0, <3>3
      <4>2. Cardinality(InWindow(p, t - Window, t)) <= Cardinality(Through(p, clock - Window))
        BY <1>0, <3>1, <4>1, WindowsShrink
      <4>3. Cardinality(InWindow(p, t - Window, t)) \in Nat
        BY <1>0, AdmittedFinite
      <4> QED BY <1>0, <1>2, <1>3, <1>4, <3>3, <4>2, <4>3
    <3> QED BY <1>9, <3>1, <3>2, <3>3
  <2> QED BY <2>1 DEF Exact
<1>14. ASSUME refusal'.via = "memory" PROVE Justified'
  <2>1. Justified
    BY <1>10, <1>14 DEF LimiterInv, MemoryInv
  <2> DEFINE q == refusal.by
  <2>2. /\ q \in Procs /\ refusal.at \in Int /\ refusal.retry \in Int /\ refusal.at <= clock
        /\ refusal.at - Window \in Int /\ refusal.at + refusal.retry - Window \in Int
    BY <1>0, <2>1 DEF Justified
  <2>3. q # p \/ refusal.at # clock
    <3>1. refusal.at = clock => Cardinality(Times(q, clock - Window)) >= Limit
      BY <2>1 DEF Justified
    <3> HIDE DEF q
    <3> QED BY <1>0, <1>2, <1>3, <1>4, <3>1
  <2>4. q # p \/ refusal.at < clock
    BY <1>0, <2>2, <2>3
  <2>5. /\ InWindow(q, refusal.at - Window, refusal.at)' = InWindow(q, refusal.at - Window, refusal.at)
        /\ InWindow(q, refusal.at + refusal.retry - Window, refusal.at)'
             = InWindow(q, refusal.at + refusal.retry - Window, refusal.at)
    BY <1>7, <1>10, <2>2, <2>4
  <2>6. refusal.at = clock => Times(q, clock - Window)' = Times(q, clock - Window)
    BY <1>6, <1>10, <2>2, <2>3
  <2> QED BY <1>10, <2>1, <2>5, <2>6 DEF Justified
<1> QED BY <1>11, <1>12, <1>13, <1>14 DEF MemoryInv

\* A check that refuses: the window is full, and no longer so after Retry-After.
LEMMA RefusingKeeps ==
  ASSUME LimiterAssumption, LimiterInv, LimiterTypes', NEW p \in Procs, UNCHANGED clock,
         Len(Live(p)) >= Limit, MemorySet(p, Live(p)), Refuse(p, clock, Live(p)[1], "memory"),
         UNCHANGED admitted
  PROVE  MemoryInv'
<1>0. /\ LimiterTypes /\ clock \in 1..MaxClock /\ clock \in Int /\ Window \in Int /\ Limit \in Int
      /\ Limit > 0 /\ MaxClock \in Nat /\ \A q \in Procs : Told(q) /\ Exact(q)
  BY DEF LimiterInv, LimiterTypes, LimiterTypeOK, MemoryInv, LimiterAssumption
<1>1. Ascends(memory[p])
  BY <1>0 DEF Told
<1> DEFINE L == Live(p)
           retry == RetryAfter(clock, L[1])
<1>2. /\ Ascends(L) /\ Len(L) \in Nat /\ DOMAIN L = 1..Len(L)
      /\ \A i \in DOMAIN L : L[i] > clock - Window
      /\ \A low \in Int : low >= clock - Window => Cardinality(Later(L, low)) = Cardinality(Times(p, low))
  BY <1>0, <1>1, LiveList
<1>3. Cardinality(Times(p, clock - Window)) = Len(L) /\ Cardinality(Through(p, clock - Window)) = Len(L)
  BY LiveFillWindow
<1>4. Len(L) >= Limit /\ MemorySet(p, L) /\ Len(L) > 0
  BY <1>0, <1>2
<1>5. refusal' = [at |-> clock, retry |-> retry, by |-> p, via |-> "memory"]
  BY DEF Refuse
<1> HIDE DEF L
<1>6. /\ memory'[p] = L /\ \A low : Times(p, low)' = Later(L, low)
      /\ \A q \in Procs : q # p => memory'[q] = memory[q] /\ \A low : Times(q, low)' = Times(q, low)
  BY <1>0, <1>4, TimesAfter
<1>7. \A q, low, high : Through(q, low)' = Through(q, low) /\ InWindow(q, low, high)' = InWindow(q, low, high)
  BY DEF Through, InWindow
<1>8. clock' = clock
  OBVIOUS
<1>9. ASSUME NEW q \in Procs PROVE Told(q)' /\ Exact(q)'
  <2>1. Told(q) /\ Exact(q)
    BY <1>0
  <2>2. Ascends(memory[q])'
    <3>1. CASE q = p
      BY <1>2, <1>6, <1>8, <3>1 DEF Ascends
    <3>2. CASE q # p
      BY <1>6, <1>8, <2>1, <3>2 DEF Told, Ascends
    <3> QED BY <3>1, <3>2
  <2>3. ASSUME NEW low \in Int, low >= clock - Window
        PROVE  Cardinality(Times(q, low))' = Cardinality(Through(q, low))'
    <3>1. Cardinality(Times(q, low)) = Cardinality(Through(q, low))
      BY <2>1, <2>3 DEF Told
    <3>2. CASE q = p
      <4>1. Cardinality(Later(L, low)) = Cardinality(Times(p, low))
        BY <1>2, <2>3
      <4> QED BY <1>6, <1>7, <3>1, <3>2, <4>1
    <3>3. CASE q # p
      BY <1>6, <1>7, <3>1, <3>3
    <3> QED BY <3>2, <3>3
  <2>4. Told(q)'
    BY <1>8, <2>2, <2>3 DEF Told
  <2>5. Exact(q)'
    BY <1>7, <2>1 DEF Exact
  <2> QED BY <2>4, <2>5
<1>10. Justified'
  <2>1. L[1] \in Int /\ L[1] > clock - Window
    <3>1. L \in Seq(1..MaxClock) /\ 1 \in 1..Len(L)
      BY <1>2, <1>4 DEF Ascends
    <3>2. L[1] \in 1..MaxClock
      BY <3>1, ElementOfSeq
    <3> QED BY <1>2, <3>1, <3>2
  <2>2. retry \in Int /\ retry >= 0 /\ clock + retry - Window > L[1]
    BY <1>0, <2>1, RetryOutlasts
  <2> HIDE DEF retry
  <2>3. /\ refusal'.by = p /\ refusal'.at = clock /\ refusal'.retry = retry
    BY <1>5
  <2>4. /\ clock - Window \in Int /\ clock + retry - Window \in Int
        /\ clock + retry - Window >= clock - Window /\ clock + retry - Window >= L[1]
    BY <1>0, <2>1, <2>2
  <2>5. Cardinality(InWindow(p, clock - Window, clock)) >= Limit
    BY <1>0, <1>3, <1>4, <2>4, WindowOfNow
  <2>6. Len(L) <= Limit
    <3>1. Cardinality(InWindow(p, clock - Window, clock)) <= Limit
      BY <1>0 DEF Exact
    <3> QED BY <1>0, <1>3, <2>4, <3>1, WindowOfNow
  <2>7. Cardinality(InWindow(p, clock + retry - Window, clock)) < Limit
    <3>1. InWindow(p, clock + retry - Window, clock) = Through(p, clock + retry - Window)
      BY <1>0, <2>4, WindowOfNow
    <3>2. Cardinality(Through(p, clock + retry - Window)) = Cardinality(Times(p, clock + retry - Window))
      BY <1>0, <2>4 DEF Told
    <3>3. Cardinality(Later(L, clock + retry - Window)) = Cardinality(Times(p, clock + retry - Window))
      BY <1>2, <2>4
    <3>4. Cardinality(Later(L, clock + retry - Window)) <= Len(L) - 1
      BY <1>2, <1>4, <2>4, LaterThanFirst
    <3>5. Cardinality(InWindow(p, clock + retry - Window, clock)) \in Nat
      BY <1>0, AdmittedFinite
    <3> QED BY <1>0, <1>2, <2>6, <3>1, <3>2, <3>3, <3>4, <3>5
  <2>8. Cardinality(Times(p, clock - Window)') >= Limit
    <3>1. Cardinality(Later(L, clock - Window)) = Cardinality(Times(p, clock - Window))
      BY <1>2, <2>4
    <3> QED BY <1>3, <1>4, <1>6, <3>1
  <2> QED BY <1>0, <1>7, <1>8, <2>2, <2>3, <2>5, <2>7, <2>8 DEF Justified
<1> QED BY <1>9, <1>10 DEF MemoryInv

\* check() of the limiter in memory.
LEMMA CheckMemoryKeeps ==
  ASSUME LimiterAssumption, LimiterInv, LimiterTypes', NEW p \in Procs, UNCHANGED clock, CheckMemory(p)
  PROVE  MemoryInv'
<1>1. CASE Len(Live(p)) >= Limit
  BY <1>1, RefusingKeeps DEF CheckMemory, MemorySet
<1>2. CASE ~(Len(Live(p)) >= Limit)
  <2>1. Len(Live(p)) < Limit
    <3>1. Ascends(memory[p]) /\ clock \in 1..MaxClock
      BY DEF LimiterInv, LimiterTypes, LimiterTypeOK, MemoryInv, Told
    <3>2. Len(Live(p)) \in Nat
      BY <3>1, LiveList
    <3> QED BY <1>2, <3>2 DEF LimiterAssumption
  <2> QED BY <1>2, <2>1, AdmittingKeeps DEF CheckMemory, MemorySet
<1> QED BY <1>1, <1>2

ProcRecord == [pc : {"idle", "clock", "over", "removed"}, at : 0..MaxClock]
RefusalRecord == [at : 0..MaxClock, retry : Int, by : Procs, via : Via]

\* A check in memory leaves lists, records and instants behind.
LEMMA CheckMemoryTypes ==
  ASSUME LimiterAssumption, LimiterInv, NEW p \in Procs, CheckMemory(p), UNCHANGED clock
  PROVE  /\ memory' \in [Procs -> Seq(1..MaxClock)] /\ admitted' \in Seq(AdmittedRecord)
         /\ refusal' \in RefusalRecord \cup {NoRefusal}
         /\ \A i \in DOMAIN admitted' : admitted'[i].at <= clock
<1>0. /\ clock \in 1..MaxClock /\ MaxClock \in Nat /\ Limit \in Nat /\ Limit > 0
      /\ memory \in [Procs -> Seq(1..MaxClock)] /\ admitted \in Seq(AdmittedRecord)
      /\ refusal \in RefusalRecord \cup {NoRefusal} /\ Ascends(memory[p])
      /\ \A i \in DOMAIN admitted : admitted[i].at <= clock
  BY DEF LimiterInv, LimiterTypes, LimiterTypeOK, MemoryInv, Told, LimiterAssumption, AdmittedRecord, RefusalRecord
<1> DEFINE L == Live(p)
           e == [at |-> clock, by |-> p, via |-> "memory"]
<1>1. Ascends(L) /\ Len(L) \in Nat
  BY <1>0, LiveList
<1>2. L \in Seq(1..MaxClock)
  BY <1>1 DEF Ascends
<1>3. e \in AdmittedRecord /\ e.at = clock
  BY <1>0 DEF AdmittedRecord, Via
<1>4. CASE Len(L) >= Limit
  <2>1. memory' = [memory EXCEPT ![p] = L] /\ Refuse(p, clock, L[1], "memory") /\ admitted' = admitted
    BY <1>4 DEF CheckMemory
  <2> HIDE DEF L
  <2>2. L[1] \in Int
    <3>1. 1 \in 1..Len(L)
      BY <1>0, <1>1, <1>4
    <3>2. L[1] \in 1..MaxClock
      BY <1>2, <3>1, ElementOfSeq
    <3> QED BY <3>2
  <2>3. RetryAfter(clock, L[1]) \in Int
    <3>1. LimiterAssumption /\ clock \in Int
      BY <1>0
    <3> QED BY <2>2, <3>1, RetryOutlasts
  <2>4. refusal' \in RefusalRecord
    BY <1>0, <2>1, <2>3 DEF Refuse, RefusalRecord, Via
  <2> QED BY <1>0, <1>2, <2>1, <2>4
<1>5. CASE ~(Len(L) >= Limit)
  <2>1. memory' = [memory EXCEPT ![p] = Append(L, clock)] /\ admitted' = Append(admitted, e) /\ refusal' = refusal
    BY <1>5 DEF CheckMemory, Admit
  <2> HIDE DEF L, e
  <2>2. Append(L, clock) \in Seq(1..MaxClock)
    BY <1>0, <1>2
  <2>3. admitted' \in Seq(AdmittedRecord)
    BY <1>0, <1>3, <2>1
  <2>4. \A i \in DOMAIN admitted' : admitted'[i].at <= clock
    <3>1. Len(admitted) \in Nat /\ DOMAIN admitted = 1..Len(admitted)
      BY <1>0
    <3>2. /\ DOMAIN admitted' = 1..(Len(admitted) + 1) /\ admitted'[Len(admitted) + 1] = e
          /\ \A i \in 1..Len(admitted) : admitted'[i] = admitted[i]
      BY <1>0, <1>3, <2>1, <3>1
    <3>3. ASSUME NEW i \in 1..(Len(admitted) + 1) PROVE admitted'[i].at <= clock
      <4>1. CASE i = Len(admitted) + 1
        BY <1>0, <1>3, <3>2, <4>1
      <4>2. CASE i # Len(admitted) + 1
        <5>1. i \in 1..Len(admitted)
          BY <3>1, <3>3, <4>2
        <5> QED BY <1>0, <3>1, <3>2, <5>1
      <4> QED BY <4>1, <4>2
    <3> QED BY <3>2, <3>3
  <2> QED BY <1>0, <2>1, <2>2, <2>3, <2>4
<1> QED BY <1>4, <1>5

\* The steps of a check over Redis: what they may do besides to the memories.
RedisStep ==
  /\ UNCHANGED memory /\ clock' \in {clock, clock + 1} /\ AdmittedByRedis
  /\ UNCHANGED refusal \/ refusal'.via = "redis"

LEMMA LimiterInitially ==
  ASSUME LimiterAssumption, LimiterInit
  PROVE  LimiterInv
<1>1. /\ MaxClock \in Nat /\ MaxClock >= 1 /\ clock = 1 /\ Limit \in Nat /\ Limit > 0 /\ Window \in Int
      /\ admitted = <<>> /\ refusal.via = "none"
  BY DEF LimiterAssumption, LimiterInit, NoRefusal
<1>2. LimiterTypes
  <2>1. \A p \in Procs : memory[p] = <<>> /\ proc[p] = [pc |-> "idle", at |-> 0]
    BY DEF LimiterInit
  <2>2. memory \in [Procs -> Seq(1..MaxClock)] /\ proc \in [Procs -> ProcRecord]
    BY <1>1 DEF LimiterInit, ProcRecord
  <2>3. admitted \in Seq(AdmittedRecord) /\ DOMAIN admitted = {}
    BY <1>1
  <2> QED BY <1>1, <2>1, <2>2, <2>3 DEF LimiterTypes, LimiterTypeOK, LimiterInit, AdmittedRecord, ProcRecord
<1>3. ASSUME NEW p \in Procs PROVE Told(p) /\ Exact(p)
  <2>1. memory[p] = <<>> /\ memory[p] \in Seq(1..MaxClock) /\ DOMAIN memory[p] = {} /\ DOMAIN admitted = {}
    BY <1>1 DEF LimiterInit
  <2>2. \A low : Times(p, low) = {} /\ Through(p, low) = {}
    BY <2>1 DEF Times, Through
  <2>3. \A low, high : InWindow(p, low, high) = {}
    BY <2>2 DEF InWindow
  <2>4. Cardinality({}) = 0
    BY FS_EmptySet
  <2>5. Ascends(memory[p])
    BY <2>1 DEF Ascends
  <2>6. \A low, high : Cardinality(Times(p, low)) = Cardinality(Through(p, low))
                      /\ Cardinality(InWindow(p, low, high)) = 0
    BY <2>2, <2>3, <2>4
  <2>7. 0 <= Limit
    BY <1>1
  <2> QED BY <2>5, <2>6, <2>7 DEF Told, Exact
<1> QED BY <1>1, <1>2, <1>3 DEF LimiterInv, MemoryInv

\* The oldest member of the sorted set is one of its instants.
LEMMA OldestIsInstant ==
  ASSUME redis \subseteq 1..MaxClock, MaxClock \in Nat, NEW d \in Int
  PROVE  Oldest(d) \in Int
<1>1. CASE redis = {}
  BY <1>1 DEF Oldest
<1>2. CASE redis # {}
  <2>1. \E t \in redis : \A u \in redis : t <= u
    <3>1. redis \subseteq Nat
      OBVIOUS
    <3> QED BY <1>2, <3>1, LeastExists
  <2>2. Oldest(d) \in redis
    BY <1>2, <2>1 DEF Oldest
  <2> HIDE DEF Oldest
  <2>3. Oldest(d) \in 1..MaxClock
    BY <2>2
  <2> QED BY <2>3
<1> QED BY <1>1, <1>2

\* The type invariant in parts, by what the steps change.
ProcsWell ==
  /\ proc \in [Procs -> ProcRecord]
  /\ \A p \in Procs : proc[p].at <= clock /\ (proc[p].pc # "idle" => proc[p].at \in 1..MaxClock)
RedisWell == redis \subseteq 1..MaxClock /\ fallback \subseteq Procs
HistoryWell ==
  /\ memory \in [Procs -> Seq(1..MaxClock)]
  /\ admitted \in Seq(AdmittedRecord) /\ \A i \in DOMAIN admitted : admitted[i].at <= clock
  /\ refusal \in RefusalRecord \cup {NoRefusal}

LEMMA TypesInParts ==
  /\ LimiterTypes <=> clock \in 1..MaxClock /\ ProcsWell /\ RedisWell /\ HistoryWell
  /\ LimiterTypes' <=> clock' \in 1..MaxClock /\ ProcsWell' /\ RedisWell' /\ HistoryWell'
BY DEF LimiterTypes, LimiterTypeOK, ProcsWell, RedisWell, HistoryWell, ProcRecord, AdmittedRecord, RefusalRecord

LEMMA ProcMoves ==
  ASSUME LimiterAssumption, ProcsWell, clock \in 1..MaxClock, clock' \in 1..MaxClock, clock <= clock',
         NEW p \in Procs, NEW r \in ProcRecord, proc' = [proc EXCEPT ![p] = r],
         r.at <= clock', r.pc # "idle" => r.at \in 1..MaxClock
  PROVE  ProcsWell'
<1>1. \A q \in Procs : proc'[q] = IF q = p THEN r ELSE proc[q]
  BY DEF ProcsWell
<1>2. proc' \in [Procs -> ProcRecord]
  BY DEF ProcsWell
<1>3. ASSUME NEW q \in Procs PROVE proc'[q].at <= clock' /\ (proc'[q].pc # "idle" => proc'[q].at \in 1..MaxClock)
  <2>1. CASE q = p
    BY <1>1, <2>1
  <2>2. CASE q # p
    <3>1. proc[q].at \in Int /\ proc[q].at <= clock /\ (proc[q].pc # "idle" => proc[q].at \in 1..MaxClock)
      BY DEF ProcsWell, ProcRecord
    <3> QED BY <1>1, <2>2, <3>1
  <2> QED BY <2>1, <2>2
<1> QED BY <1>2, <1>3 DEF ProcsWell

LEMMA HistoryStands ==
  ASSUME HistoryWell, clock \in 1..MaxClock, clock' \in 1..MaxClock, clock <= clock',
         UNCHANGED <<memory, admitted, refusal>>
  PROVE  HistoryWell'
<1>1. ASSUME NEW i \in DOMAIN admitted PROVE admitted[i].at <= clock'
  <2>1. admitted[i] \in AdmittedRecord /\ admitted[i].at <= clock
    BY DEF HistoryWell
  <2> QED BY <2>1 DEF AdmittedRecord
<1> QED BY <1>1 DEF HistoryWell

\* Every step keeps the invariant.
LEMMA LimiterStep ==
  ASSUME LimiterAssumption, LimiterInv, [LimiterNext]_limiterVars
  PROVE  LimiterInv'
<1>0. /\ clock \in 1..MaxClock /\ ProcsWell /\ RedisWell /\ HistoryWell /\ LimiterTypes /\ MemoryInv
      /\ MaxClock \in Nat /\ MaxClock >= 1 /\ clock \in Int
  BY TypesInParts DEF LimiterInv, LimiterAssumption
<1>a. ASSUME LimiterTypes', RedisStep PROVE LimiterInv'
  <2>1. MemoryInv'
    BY <1>a, MemoryStands DEF RedisStep
  <2> QED BY <1>a, <2>1 DEF LimiterInv
<1>b. ASSUME NEW p \in Procs, CheckMemory(p), UNCHANGED clock, ProcsWell', RedisWell' PROVE LimiterInv'
  <2>1. HistoryWell'
    BY <1>b, CheckMemoryTypes DEF HistoryWell
  <2>2. LimiterTypes'
    BY <1>0, <1>b, <2>1, TypesInParts
  <2>3. MemoryInv'
    BY <1>b, <2>2, CheckMemoryKeeps
  <2> QED BY <2>2, <2>3 DEF LimiterInv
<1>c. \A p \in Procs : [pc |-> "idle", at |-> 0] \in ProcRecord /\ 0 <= clock
                       /\ [pc |-> "idle", at |-> 0].at = 0 /\ [pc |-> "idle", at |-> 0].pc = "idle"
  BY <1>0 DEF ProcRecord
<1>d. \A p \in Procs : /\ proc[p] \in ProcRecord /\ proc[p].at <= clock
                       /\ proc[p].pc # "idle" => proc[p].at \in 1..MaxClock
  BY <1>0 DEF ProcsWell
<1>1. CASE UNCHANGED limiterVars
  <2>1. LimiterTypes' /\ RedisStep
    BY <1>0, <1>1 DEF limiterVars, LimiterTypes, LimiterTypeOK, RedisStep, AdmittedByRedis
  <2> QED BY <1>a, <2>1
<1>2. CASE ClockTick
  <2>1. clock' = clock + 1 /\ clock' \in 1..MaxClock /\ clock <= clock'
    BY <1>0, <1>2 DEF ClockTick
  <2>2. ProcsWell'
    <3>1. proc' = proc
      BY <1>2 DEF ClockTick
    <3>2. \A p \in Procs : proc[p].at <= clock'
      BY <1>0, <1>d, <2>1 DEF ProcRecord
    <3> QED BY <1>0, <3>1, <3>2 DEF ProcsWell
  <2>3. HistoryWell' /\ RedisWell'
    BY <1>0, <1>2, <2>1, HistoryStands DEF ClockTick, RedisWell
  <2>4. LimiterTypes'
    BY <2>1, <2>2, <2>3, TypesInParts
  <2>5. RedisStep
    BY <1>2, <2>1 DEF ClockTick, RedisStep, AdmittedByRedis
  <2> QED BY <1>a, <2>4, <2>5
<1>3. ASSUME NEW p \in Procs, InMemory(p) PROVE LimiterInv'
  BY <1>0, <1>3, <1>b DEF InMemory, ProcsWell, RedisWell
<1>4. ASSUME NEW p \in Procs, ReadClock(p) PROVE LimiterInv'
  <2> DEFINE r == [pc |-> "clock", at |-> clock + 1]
  <2>1. clock' = clock + 1 /\ clock' \in 1..MaxClock /\ clock <= clock'
    BY <1>0, <1>4 DEF ReadClock
  <2>2. r \in ProcRecord /\ r.at = clock'
    BY <1>0, <2>1 DEF ProcRecord
  <2>3. proc' = [proc EXCEPT ![p] = r]
    BY <1>4, <2>1 DEF ReadClock
  <2> HIDE DEF r
  <2>4. r.at <= clock' /\ r.at \in 1..MaxClock
    BY <2>1, <2>2
  <2>5. ProcsWell'
    BY <1>0, <2>1, <2>2, <2>3, <2>4, ProcMoves
  <2>6. HistoryWell' /\ RedisWell'
    BY <1>0, <1>4, <2>1, HistoryStands DEF ReadClock, RedisWell
  <2>7. LimiterTypes'
    BY <2>1, <2>5, <2>6, TypesInParts
  <2>8. RedisStep
    BY <1>4, <2>1 DEF ReadClock, RedisStep, AdmittedByRedis
  <2> QED BY <1>a, <2>7, <2>8
<1>5. ASSUME NEW p \in Procs, proc' = AtRest(p), clock' = clock PROVE ProcsWell'
  <2>1. proc' = [proc EXCEPT ![p] = [pc |-> "idle", at |-> 0]]
    BY <1>5 DEF AtRest
  <2>2. clock' \in 1..MaxClock /\ clock <= clock'
    BY <1>0, <1>5
  <2> QED BY <1>0, <1>5, <1>c, <2>1, <2>2, ProcMoves
<1>6. ASSUME NEW p \in Procs, NEW pc \in {"over", "removed"}, proc[p].pc # "idle",
             proc' = [proc EXCEPT ![p].pc = pc], clock' = clock PROVE ProcsWell'
  <2> DEFINE r == [proc[p] EXCEPT !.pc = pc]
  <2>1. r \in ProcRecord /\ r.at = proc[p].at /\ r.at \in 1..MaxClock /\ r.at <= clock
    BY <1>6, <1>d DEF ProcRecord
  <2>2. proc' = [proc EXCEPT ![p] = r]
    BY <1>0, <1>6 DEF ProcsWell
  <2>3. clock' \in 1..MaxClock /\ clock <= clock'
    BY <1>0, <1>6
  <2> HIDE DEF r
  <2> QED BY <1>0, <1>6, <2>1, <2>2, <2>3, ProcMoves
<1>7. ASSUME NEW p \in Procs, proc[p].pc # "idle"
      PROVE  Kept(proc[p].at) \cup {proc[p].at} \subseteq 1..MaxClock
  BY <1>0, <1>d, <1>7 DEF Kept, RedisWell
<1>8. ASSUME NEW p \in Procs, Pipeline(p) PROVE LimiterInv'
  <2> DEFINE set == Kept(proc[p].at) \cup {proc[p].at}
             e == [at |-> proc[p].at, by |-> p, via |-> "redis"]
  <2>1. /\ proc[p].pc = "clock" /\ redis' = set /\ clock' = clock /\ memory' = memory /\ fallback' = fallback
        /\ refusal' = refusal
        /\ \/ proc' = [proc EXCEPT ![p].pc = "over"] /\ admitted' = admitted
           \/ proc' = AtRest(p) /\ admitted' = Append(admitted, e)
    BY <1>8 DEF Pipeline, Admit
  <2>2. set \subseteq 1..MaxClock /\ proc[p].at \in 1..MaxClock /\ proc[p].at <= clock
    BY <1>7, <1>d, <2>1
  <2>3. e \in AdmittedRecord /\ e.via = "redis" /\ e.at = proc[p].at
    BY <2>2 DEF AdmittedRecord, Via
  <2> HIDE DEF set, e
  <2>4. RedisWell'
    BY <1>0, <2>1, <2>2 DEF RedisWell
  <2>5. CASE proc' = [proc EXCEPT ![p].pc = "over"] /\ admitted' = admitted
    <3>1. ProcsWell'
      BY <1>6, <2>1, <2>5
    <3>2. HistoryWell' /\ clock' \in 1..MaxClock
      BY <1>0, <2>1, <2>5 DEF HistoryWell
    <3>3. LimiterTypes'
      BY <2>4, <3>1, <3>2, TypesInParts
    <3>4. RedisStep
      BY <2>1, <2>5 DEF RedisStep, AdmittedByRedis
    <3> QED BY <1>a, <3>3, <3>4
  <2>6. CASE proc' = AtRest(p) /\ admitted' = Append(admitted, e)
    <3>1. ProcsWell'
      BY <1>5, <2>1, <2>6
    <3>2. HistoryWell'
      <4>1. admitted \in Seq(AdmittedRecord) /\ \A i \in DOMAIN admitted : admitted[i].at <= clock
        BY <1>0 DEF HistoryWell
      <4>2. Len(admitted) \in Nat /\ DOMAIN admitted = 1..Len(admitted)
        BY <4>1
      <4>3. /\ admitted' \in Seq(AdmittedRecord) /\ DOMAIN admitted' = 1..(Len(admitted) + 1)
            /\ admitted'[Len(admitted) + 1] = e
            /\ \A i \in 1..Len(admitted) : admitted'[i] = admitted[i]
        BY <2>3, <2>6, <4>1, <4>2
      <4>4. \A i \in DOMAIN admitted' : admitted'[i].at <= clock
        BY <2>2, <2>3, <4>1, <4>2, <4>3
      <4> QED BY <1>0, <2>1, <4>3, <4>4 DEF HistoryWell
    <3>3. LimiterTypes'
      BY <1>0, <2>1, <2>4, <3>1, <3>2, TypesInParts
    <3>4. RedisStep
      BY <2>1, <2>3, <2>6 DEF RedisStep, AdmittedByRedis
    <3> QED BY <1>a, <3>3, <3>4
  <2> QED BY <2>1, <2>5, <2>6
<1>9. ASSUME NEW p \in Procs, RemoveOwn(p) PROVE LimiterInv'
  <2>1. ProcsWell'
    BY <1>6, <1>9 DEF RemoveOwn
  <2>2. RedisWell' /\ HistoryWell' /\ clock' \in 1..MaxClock
    BY <1>0, <1>9 DEF RemoveOwn, RedisWell, HistoryWell
  <2>3. LimiterTypes'
    BY <2>1, <2>2, TypesInParts
  <2>4. RedisStep
    BY <1>9 DEF RemoveOwn, RedisStep, AdmittedByRedis
  <2> QED BY <1>a, <2>3, <2>4
<1>10. ASSUME NEW p \in Procs, Respond(p) PROVE LimiterInv'
  <2>1. ProcsWell'
    BY <1>5, <1>10 DEF Respond
  <2>2. RetryAfter(proc[p].at, Oldest(proc[p].at)) \in Int /\ proc[p].at \in 0..MaxClock
    <3>1. proc[p].at \in 0..MaxClock /\ proc[p].at \in Int
      BY <1>0, <1>d DEF ProcRecord
    <3>2. Oldest(proc[p].at) \in Int
      BY <1>0, <3>1, OldestIsInstant DEF RedisWell
    <3> QED BY <3>1, <3>2, RetryOutlasts
  <2>3. refusal' \in RefusalRecord /\ refusal'.via = "redis"
    BY <1>10, <2>2 DEF Respond, Refuse, RefusalRecord, Via
  <2>4. RedisWell' /\ HistoryWell' /\ clock' \in 1..MaxClock
    BY <1>0, <1>10, <2>3 DEF Respond, RedisWell, HistoryWell
  <2>5. LimiterTypes'
    BY <2>1, <2>4, TypesInParts
  <2>6. RedisStep
    BY <1>10, <2>3 DEF Respond, RedisStep, AdmittedByRedis
  <2> QED BY <1>a, <2>5, <2>6
<1>11. ASSUME NEW p \in Procs, RedisFails(p) PROVE LimiterInv'
  <2>1. ProcsWell' /\ clock' = clock
    BY <1>5, <1>11 DEF RedisFails
  <2>2. redis' \subseteq 1..MaxClock
    <3>1. \/ redis' = redis \/ redis' = Kept(proc[p].at) \cup {proc[p].at}
          \/ redis' = redis \ {proc[p].at}
      BY <1>11 DEF RedisFails
    <3>2. proc[p].pc # "idle"
      BY <1>11 DEF RedisFails
    <3> QED BY <1>0, <1>7, <3>1, <3>2 DEF RedisWell
  <2>3. RedisWell'
    BY <1>0, <1>11, <2>2 DEF RedisFails, RedisWell
  <2> QED BY <1>11, <1>b, <2>1, <2>3 DEF RedisFails
<1> QED
  BY <1>1, <1>2, <1>3, <1>4, <1>8, <1>9, <1>10, <1>11 DEF LimiterNext, Check, Horizon

\* No process on its own memory admits more than Limit requests in any window,
\* nor refuses one while fewer were admitted in the window (check).
THEOREM MemoryWindowAlwaysExact == LimiterSpec => []MemoryWindowExact
<1>1. LimiterInit => LimiterInv
  BY LimiterInitially, LimiterAssumption
<1>2. LimiterInv /\ [LimiterNext]_limiterVars => LimiterInv'
  BY LimiterStep, LimiterAssumption
<1>3. LimiterInv => MemoryWindowExact
  BY LimiterInvImplies, LimiterAssumption
<1> QED BY <1>1, <1>2, <1>3, PTL DEF LimiterSpec

\* A caller that waits out its Retry-After is not refused for what was admitted
\* before the refusal (retry_after).
THEOREM RetryAfterAlwaysSuffices == LimiterSpec => []RetryAfterSuffices
<1>1. LimiterInit => LimiterInv
  BY LimiterInitially, LimiterAssumption
<1>2. LimiterInv /\ [LimiterNext]_limiterVars => LimiterInv'
  BY LimiterStep, LimiterAssumption
<1>3. LimiterInv => RetryAfterSuffices
  BY LimiterInvImplies, LimiterAssumption
<1> QED BY <1>1, <1>2, <1>3, PTL DEF LimiterSpec

\* The clock, the stores and the histories keep to their types.
THEOREM LimiterAlwaysTyped == LimiterSpec => []LimiterTypeOK
<1>1. LimiterInit => LimiterInv
  BY LimiterInitially, LimiterAssumption
<1>2. LimiterInv /\ [LimiterNext]_limiterVars => LimiterInv'
  BY LimiterStep, LimiterAssumption
<1>3. LimiterInv => LimiterTypeOK
  BY DEF LimiterInv, LimiterTypes
<1> QED BY <1>1, <1>2, <1>3, PTL DEF LimiterSpec

-----------------------------------------------------------------------------
(* The rate limiter: the bound of the whole fleet.                         *)

\* What was admitted in the window that ends at t, over Redis and in memory.
AdmittedVia(t, via) == {i \in DOMAIN admitted : /\ admitted[i].via = via
                                             /\ admitted[i].at > t - Window /\ admitted[i].at <= t}
ByRedis(t) == AdmittedVia(t, "redis")
ByMemory(t) == AdmittedVia(t, "memory")

\* Processes that have read the clock in that window and not yet asked Redis.
Early(t) == {p \in Procs : /\ proc[p].pc = "clock"
                           /\ proc[p].at > t - Window /\ proc[p].at <= t}

\* The instant of a process that may have its entry in the sorted set is its own.
Dated(p) == proc[p].pc \in {"clock", "over"}
OwnInstants ==
  /\ \A p, q \in Procs : Dated(p) /\ Dated(q) /\ proc[p].at = proc[q].at => p = q
  /\ \A p \in Procs, i \in DOMAIN admitted : Dated(p) /\ admitted[i].via = "redis" => admitted[i].at # proc[p].at
  /\ \A i, j \in DOMAIN admitted :
       /\ admitted[i].via = "redis" /\ admitted[j].via = "redis" /\ admitted[i].at = admitted[j].at => i = j
MemoryIsFallback == \A i \in DOMAIN admitted : admitted[i].via = "memory" => admitted[i].by \in fallback

\* Either Redis still has all that was admitted in the window, or some process
\* has trimmed it since, and only those that were early can add to it.
InSet(t) == (\A i \in ByRedis(t) : admitted[i].at \in redis) /\ Cardinality(ByRedis(t)) <= Limit
Trimmed(t) == clock > t /\ Cardinality(ByRedis(t)) + Cardinality(Early(t)) <= Limit + Cardinality(Procs) - 1
WindowBounded(t) == InSet(t) \/ Trimmed(t)

FleetInv == OwnInstants /\ MemoryIsFallback /\ \A t \in Int : WindowBounded(t)

-----------------------------------------------------------------------------

LEMMA FleetFinite ==
  ASSUME LimiterTypes
  PROVE  /\ \A t : IsFiniteSet(ByRedis(t)) /\ Cardinality(ByRedis(t)) \in Nat
         /\ \A t : IsFiniteSet(ByMemory(t)) /\ Cardinality(ByMemory(t)) \in Nat
         /\ \A t : IsFiniteSet(Early(t)) /\ Cardinality(Early(t)) \in Nat /\ Early(t) \subseteq Procs
         /\ IsFiniteSet(Procs) /\ Cardinality(Procs) \in Nat /\ Cardinality(Procs) >= 1
         /\ Limit \in Nat /\ Window \in Nat /\ Window > 0 /\ clock \in Nat /\ MaxClock \in Nat
<1>1. DOMAIN admitted = 1..Len(admitted) /\ Len(admitted) \in Nat
  BY AdmittedFinite
<1>2. IsFiniteSet(DOMAIN admitted)
  BY <1>1, FS_Interval
<1>3. \A t, via : AdmittedVia(t, via) \in SUBSET DOMAIN admitted
  BY DEF AdmittedVia
<1>4. \A t, via : IsFiniteSet(AdmittedVia(t, via)) /\ Cardinality(AdmittedVia(t, via)) \in Nat
  BY <1>2, <1>3, FS_Subset, FS_CardinalityType
<1>5. \A t : Early(t) \in SUBSET Procs
  BY DEF Early
<1>6. \A t : IsFiniteSet(Early(t)) /\ Cardinality(Early(t)) \in Nat
  BY <1>5, FleetAssumption, FS_Subset, FS_CardinalityType
<1>7. Cardinality(Procs) \in Nat /\ Cardinality(Procs) # 0
  BY FleetAssumption, FS_CardinalityType, FS_EmptySet
<1>8. Cardinality(Procs) >= 1
  BY <1>7
<1>9. Limit \in Nat /\ Window \in Nat /\ Window > 0 /\ clock \in Nat /\ MaxClock \in Nat
  BY LimiterAssumption DEF LimiterTypes, LimiterTypeOK
<1> QED BY <1>4, <1>5, <1>6, <1>7, <1>8, <1>9, FleetAssumption, Zenon DEF ByRedis, ByMemory

\* The instants of the history, and of the processes, are not in the future.
LEMMA InstantsPast ==
  ASSUME LimiterTypes
  PROVE  /\ \A i \in DOMAIN admitted : admitted[i].at \in Nat /\ admitted[i].at <= clock
         /\ \A p \in Procs : proc[p].at \in Nat /\ proc[p].at <= clock
<1>1. \A i \in DOMAIN admitted : admitted[i].at \in 1..MaxClock
  BY AdmittedFinite DEF AdmittedRecord
<1>2. MaxClock \in Nat
  BY LimiterAssumption
<1>3. \A p \in Procs : proc[p].at \in 0..MaxClock
  <2>1. proc \in [Procs -> ProcRecord]
    BY DEF LimiterTypes, LimiterTypeOK, ProcRecord
  <2> QED BY <2>1 DEF ProcRecord
<1>4. \A x : x \in 0..MaxClock \/ x \in 1..MaxClock => x \in Nat
  BY <1>2
<1> QED BY <1>1, <1>3, <1>4, Zenon DEF LimiterTypes

\* A step that admits nobody over Redis.
NoneByRedis == UNCHANGED admitted \/ \E e : e.via = "memory" /\ admitted' = Append(admitted, e)

LEMMA SameByRedis ==
  ASSUME LimiterTypes, NoneByRedis
  PROVE  /\ \A i \in DOMAIN admitted : i \in DOMAIN admitted' /\ admitted'[i] = admitted[i]
         /\ \A i \in DOMAIN admitted' : admitted'[i].via = "redis" => i \in DOMAIN admitted
         /\ \A t : ByRedis(t)' = ByRedis(t)
<1>1. DOMAIN admitted = 1..Len(admitted) /\ Len(admitted) \in Nat /\ admitted \in Seq(AdmittedRecord)
  BY AdmittedFinite DEF LimiterTypes, LimiterTypeOK, AdmittedRecord
<1>2. /\ \A i \in DOMAIN admitted : i \in DOMAIN admitted' /\ admitted'[i] = admitted[i]
      /\ \A i \in DOMAIN admitted' : admitted'[i].via = "redis" => i \in DOMAIN admitted
  <2>1. CASE UNCHANGED admitted
    BY <2>1
  <2>2. ASSUME NEW e, e.via = "memory", admitted' = Append(admitted, e)
        PROVE  /\ \A i \in DOMAIN admitted : i \in DOMAIN admitted' /\ admitted'[i] = admitted[i]
               /\ \A i \in DOMAIN admitted' : admitted'[i].via = "redis" => i \in DOMAIN admitted
    <3>1. /\ DOMAIN admitted' = 1..(Len(admitted) + 1) /\ admitted'[Len(admitted) + 1] = e
          /\ \A i \in 1..Len(admitted) : admitted'[i] = admitted[i]
      BY <1>1, <2>2
    <3>2. admitted'[Len(admitted) + 1].via # "redis"
      BY <2>2, <3>1
    <3>3. \A i \in 1..(Len(admitted) + 1) : i \in 1..Len(admitted) \/ i = Len(admitted) + 1
      BY <1>1
    <3>4. \A i \in 1..Len(admitted) : i \in 1..(Len(admitted) + 1)
      BY <1>1
    <3> QED BY <1>1, <3>1, <3>2, <3>3, <3>4, Zenon
  <2> QED BY <2>1, <2>2, Zenon DEF NoneByRedis
<1>3. ASSUME NEW t  PROVE ByRedis(t)' = ByRedis(t)
  BY <1>2 DEF ByRedis, AdmittedVia
<1> QED BY <1>2, <1>3

\* A step that trims nothing and admits nobody over Redis; an entry it removes
\* was not admitted.
LEMMA CalmBounded ==
  ASSUME LimiterTypes, LimiterTypes', NoneByRedis, clock <= clock', NEW t \in Int, WindowBounded(t),
         clock > t => Early(t)' \subseteq Early(t),
         \A i \in DOMAIN admitted : admitted[i].via = "redis" /\ admitted[i].at \in redis => admitted[i].at \in redis'
  PROVE  WindowBounded(t)'
<1>1. /\ \A i \in DOMAIN admitted : i \in DOMAIN admitted' /\ admitted'[i] = admitted[i]
      /\ ByRedis(t)' = ByRedis(t)
  BY SameByRedis
<1>2. CASE InSet(t)
  <2>1. ASSUME NEW i \in ByRedis(t)  PROVE admitted'[i].at \in redis'
    <3>1. i \in DOMAIN admitted /\ admitted[i].via = "redis"
      BY <2>1 DEF ByRedis, AdmittedVia
    <3>2. admitted[i].at \in redis
      BY <1>2, <2>1 DEF InSet
    <3> QED BY <1>1, <3>1, <3>2
  <2>2. Cardinality(ByRedis(t)') <= Limit
    BY <1>1, <1>2, Zenon DEF InSet
  <2>3. InSet(t)'
    BY <1>1, <2>1, <2>2, Zenon DEF InSet
  <2> QED BY <2>3, Zenon DEF WindowBounded
<1>3. CASE Trimmed(t)
  <2>1. clock > t /\ Cardinality(ByRedis(t)) + Cardinality(Early(t)) <= Limit + Cardinality(Procs) - 1
    BY <1>3 DEF Trimmed
  <2>2. clock' > t
    BY <2>1, FleetFinite DEF LimiterTypes, LimiterTypeOK
  <2>3. Cardinality(Early(t)') <= Cardinality(Early(t)) /\ Cardinality(Early(t)') \in Nat
    <3>1. IsFiniteSet(Early(t)) /\ Early(t)' \subseteq Early(t)
      BY <2>1, FleetFinite
    <3> QED BY <3>1, FS_Subset, FS_CardinalityType
  <2> DEFINE r == Cardinality(ByRedis(t)) x == Cardinality(Early(t)) y == Cardinality(Early(t)') n == Cardinality(Procs)
  <2>4. r \in Nat /\ x \in Nat /\ n \in Nat /\ Limit \in Nat
    BY FleetFinite
  <2> HIDE DEF r, x, y, n
  <2>5. r + y <= Limit + n - 1
    <3>1. r + x <= Limit + n - 1 /\ y <= x /\ y \in Nat
      BY <2>1, <2>3, Zenon DEF r, x, y, n
    <3> QED BY <2>4, <3>1
  <2>6. Cardinality(ByRedis(t)') + Cardinality(Early(t)') <= Limit + Cardinality(Procs) - 1
    BY <1>1, <2>5, Zenon DEF r, y, n
  <2>7. Trimmed(t)'
    BY <2>2, <2>6, Zenon DEF Trimmed
  <2> QED BY <2>7, Zenon DEF WindowBounded
<1> QED BY <1>2, <1>3 DEF WindowBounded

\* An early process is one of the others once somebody has read a later clock.
LEMMA EarlyOthers ==
  ASSUME LimiterTypes, LimiterTypes', NEW p \in Procs, NEW t \in Int, proc' = [proc EXCEPT ![p] = proc'[p]],
         proc'[p].pc # "clock"
  PROVE  /\ Early(t)' = Early(t) \ {p}
         /\ p \in Early(t) => Cardinality(Early(t)') = Cardinality(Early(t)) - 1
         /\ Cardinality(Early(t)') <= Cardinality(Early(t)) /\ Cardinality(Early(t)') \in Nat
         /\ p \notin Early(t) => Cardinality(Early(t)) <= Cardinality(Procs) - 1
<1>1. proc \in [Procs -> ProcRecord]
  BY DEF LimiterTypes, LimiterTypeOK, ProcRecord
<1>2. \A q \in Procs : q # p => proc'[q] = proc[q]
  BY <1>1
<1>3. Early(t)' = Early(t) \ {p}
  BY <1>2 DEF Early
<1>4. IsFiniteSet(Early(t)) /\ Cardinality(Early(t)) \in Nat /\ Early(t) \subseteq Procs
  BY FleetFinite
<1>5. /\ Cardinality(Early(t) \ {p}) = IF p \in Early(t) THEN Cardinality(Early(t)) - 1 ELSE Cardinality(Early(t))
      /\ IsFiniteSet(Early(t) \ {p}) /\ Cardinality(Early(t) \ {p}) \in Nat
  BY <1>4, FS_RemoveElement, FS_CardinalityType
<1>6. p \notin Early(t) => Cardinality(Early(t)) <= Cardinality(Procs) - 1
  <2> SUFFICES ASSUME p \notin Early(t)  PROVE Cardinality(Early(t)) <= Cardinality(Procs) - 1
    OBVIOUS
  <2>1. Early(t) \subseteq Procs \ {p}
    BY <1>4
  <2>2. IsFiniteSet(Procs \ {p}) /\ Cardinality(Procs \ {p}) = Cardinality(Procs) - 1
    BY FleetAssumption, FS_RemoveElement
  <2> QED BY <2>1, <2>2, FS_Subset
<1> QED BY <1>3, <1>4, <1>5, <1>6

\* Redis executes the pipeline of p, and p is not admitted by it.
LEMMA TrimBounded ==
  ASSUME LimiterTypes, LimiterTypes', NoneByRedis, clock' = clock, NEW t \in Int, WindowBounded(t),
         NEW p \in Procs, proc[p].pc = "clock", redis' = Kept(proc[p].at) \cup {proc[p].at},
         proc' = [proc EXCEPT ![p] = proc'[p]], proc'[p].pc # "clock"
  PROVE  WindowBounded(t)'
<1> DEFINE a == proc[p].at
<1>1. /\ \A i \in DOMAIN admitted : i \in DOMAIN admitted' /\ admitted'[i] = admitted[i]
      /\ ByRedis(t)' = ByRedis(t)
  BY SameByRedis
<1>2. /\ Cardinality(Early(t)') <= Cardinality(Early(t))
      /\ p \in Early(t) => Cardinality(Early(t)') = Cardinality(Early(t)) - 1
      /\ p \notin Early(t) => Cardinality(Early(t)) <= Cardinality(Procs) - 1
  BY EarlyOthers
<1> DEFINE r == Cardinality(ByRedis(t)) x == Cardinality(Early(t)) y == Cardinality(Early(t)') n == Cardinality(Procs)
<1>3. r \in Nat /\ x \in Nat /\ y \in Nat /\ n \in Nat /\ Limit \in Nat /\ clock \in Nat /\ a \in Nat /\ Window \in Nat /\ a <= clock
  <2>1. y \in Nat
    BY EarlyOthers
  <2> QED BY <2>1, FleetFinite, InstantsPast
<1>4. CASE InSet(t) /\ a <= t
  <2>1. ASSUME NEW i \in ByRedis(t)  PROVE admitted'[i].at \in redis'
    <3>1. i \in DOMAIN admitted /\ admitted[i].at > t - Window
      BY <2>1 DEF ByRedis, AdmittedVia
    <3>2. admitted[i].at \in redis
      BY <1>4, <2>1 DEF InSet
    <3>3. admitted[i].at > a - Window
      BY <1>3, <1>4, <3>1, InstantsPast
    <3>4. admitted[i].at \in Kept(a)
      BY <3>2, <3>3 DEF Kept
    <3> QED BY <1>1, <3>1, <3>4
  <2>2. Cardinality(ByRedis(t)') <= Limit
    BY <1>1, <1>4, Zenon DEF InSet
  <2>3. InSet(t)'
    BY <1>1, <2>1, <2>2, Zenon DEF InSet
  <2> QED BY <2>3, Zenon DEF WindowBounded
<1>5. CASE InSet(t) /\ ~(a <= t)
  <2>1. p \notin Early(t)
    BY <1>5 DEF Early
  <2>2. r <= Limit
    BY <1>5, Zenon DEF InSet
  <2>3. y <= n - 1
    <3>1. y <= x /\ x <= n - 1
      BY <1>2, <2>1, Zenon
    <3> HIDE DEF y, x, n
    <3> QED BY <1>3, <3>1
  <2>4. r + y <= Limit + n - 1
    <3> HIDE DEF r, x, y, n, a
    <3> QED BY <1>3, <2>2, <2>3
  <2>5. clock' > t
    BY <1>3, <1>5
  <2>6. Cardinality(ByRedis(t)') + Cardinality(Early(t)') <= Limit + Cardinality(Procs) - 1
    BY <1>1, <2>4, Zenon
  <2>7. Trimmed(t)'
    BY <2>5, <2>6, Zenon DEF Trimmed
  <2> QED BY <2>7, Zenon DEF WindowBounded
<1>6. CASE Trimmed(t)
  <2>1. clock' > t /\ r + x <= Limit + n - 1
    BY <1>6, Zenon DEF Trimmed
  <2>2. y <= x
    BY <1>2, Zenon
  <2>3. r + y <= Limit + n - 1
    <3> HIDE DEF r, x, y, n, a
    <3> QED BY <1>3, <2>1, <2>2
  <2>4. Cardinality(ByRedis(t)') + Cardinality(Early(t)') <= Limit + Cardinality(Procs) - 1
    BY <1>1, <2>3, Zenon
  <2>5. Trimmed(t)'
    BY <2>1, <2>4, Zenon DEF Trimmed
  <2> QED BY <2>5, Zenon DEF WindowBounded
<1> QED BY <1>4, <1>5, <1>6, Zenon DEF WindowBounded

\* Entries with instants of their own are no more than the instants.
LEMMA AsManyInstants ==
  ASSUME NEW S, NEW h, NEW T, IsFiniteSet(T), \A i \in S : h[i].at \in T,
         \A i, j \in S : h[i].at = h[j].at => i = j
  PROVE  Cardinality(S) <= Cardinality(T)
<1> DEFINE f == [i \in S |-> h[i].at]
<1>1. f \in Injection(S, T)
  BY DEF Injection, IsInjective
<1> QED BY <1>1, FS_Injection

\* Redis admits p.
LEMMA AdmitBounded ==
  ASSUME LimiterTypes, LimiterTypes', OwnInstants, clock' = clock, NEW t \in Int, WindowBounded(t),
         NEW p \in Procs, proc[p].pc = "clock", redis' = Kept(proc[p].at) \cup {proc[p].at},
         Cardinality(redis') <= Limit, Admit(p, proc[p].at, "redis"),
         proc' = [proc EXCEPT ![p] = proc'[p]], proc'[p].pc # "clock"
  PROVE  WindowBounded(t)'
<1> DEFINE a == proc[p].at
           k == Len(admitted) + 1
           e == [at |-> a, by |-> p, via |-> "redis"]
<1>1. DOMAIN admitted = 1..Len(admitted) /\ Len(admitted) \in Nat /\ admitted \in Seq(AdmittedRecord)
  BY AdmittedFinite DEF LimiterTypes, LimiterTypeOK, AdmittedRecord
<1>2. /\ DOMAIN admitted' = 1..k /\ admitted'[k] = e
      /\ \A i \in 1..Len(admitted) : admitted'[i] = admitted[i]
  BY <1>1 DEF Admit
<1>3. e.at = a /\ e.via = "redis"
  OBVIOUS
<1>4. k \notin ByRedis(t) /\ k \in 1..k /\ \A i \in 1..k : i = k \/ i \in 1..Len(admitted)
  BY <1>1 DEF ByRedis, AdmittedVia
<1> HIDE DEF e, k
<1>5. ByRedis(t)' = IF a > t - Window /\ a <= t THEN ByRedis(t) \cup {k} ELSE ByRedis(t)
  <2>1. \A i \in 1..Len(admitted) : i \in 1..k
    BY <1>1 DEF k
  <2> QED BY <1>1, <1>2, <1>3, <1>4, <2>1 DEF ByRedis, AdmittedVia
<1>6. /\ Cardinality(Early(t)') <= Cardinality(Early(t))
      /\ p \in Early(t) => Cardinality(Early(t)') = Cardinality(Early(t)) - 1
      /\ p \notin Early(t) => Cardinality(Early(t)) <= Cardinality(Procs) - 1
  BY EarlyOthers
<1> DEFINE r == Cardinality(ByRedis(t)) r1 == Cardinality(ByRedis(t)') x == Cardinality(Early(t))
           y == Cardinality(Early(t)') n == Cardinality(Procs)
<1>7. /\ r \in Nat /\ x \in Nat /\ y \in Nat /\ n \in Nat /\ Limit \in Nat /\ clock \in Nat /\ a \in Nat
      /\ Window \in Nat /\ a <= clock /\ IsFiniteSet(ByRedis(t))
  <2>1. y \in Nat
    BY EarlyOthers
  <2> QED BY <2>1, FleetFinite, InstantsPast
<1>8. r1 = IF a > t - Window /\ a <= t THEN r + 1 ELSE r
  <2>1. Cardinality(ByRedis(t) \cup {k}) = Cardinality(ByRedis(t)) + 1
    BY <1>4, <1>7, FS_AddElement
  <2> QED BY <1>5, <2>1
<1>9. p \in Early(t) <=> a > t - Window /\ a <= t
  BY DEF Early
<1>10. ASSUME Trimmed(t) \/ (InSet(t) /\ ~(a <= t))  PROVE Trimmed(t)'
  <2>1. r1 + y <= Limit + n - 1 /\ clock > t
    <3>1. CASE Trimmed(t)
      <4>1. clock > t /\ r + x <= Limit + n - 1
        BY <3>1, Zenon DEF Trimmed
      <4>2. r1 + y <= r + x
        <5>1. CASE p \in Early(t)
          <6>1. r1 = r + 1 /\ y = x - 1
            BY <1>6, <1>8, <1>9, <5>1, Zenon
          <6> HIDE DEF r, r1, x, y
          <6> QED BY <1>7, <6>1
        <5>2. CASE p \notin Early(t)
          <6>1. r1 = r /\ y <= x
            BY <1>6, <1>8, <1>9, <5>2, Zenon
          <6> HIDE DEF r, r1, x, y
          <6> QED BY <1>7, <6>1
        <5> QED BY <5>1, <5>2
      <4>3. r1 \in Nat
        BY <1>7, <1>8
      <4> HIDE DEF r, r1, x, y, n
      <4> QED BY <1>7, <4>1, <4>2, <4>3
    <3>2. CASE InSet(t) /\ ~(a <= t)
      <4>1. r1 = r /\ r <= Limit /\ y <= x /\ x <= n - 1
        BY <1>6, <1>8, <1>9, <3>2, Zenon DEF InSet
      <4>2. clock > t
        BY <1>7, <3>2
      <4> HIDE DEF r, r1, x, y, n
      <4> QED BY <1>7, <4>1, <4>2
    <3> QED BY <1>10, <3>1, <3>2
  <2> QED BY <2>1, Zenon DEF Trimmed
<1>11. ASSUME InSet(t), a <= t  PROVE InSet(t)'
  <2>1. ASSUME NEW i \in ByRedis(t)'  PROVE admitted'[i].at \in redis'
    <3>1. CASE i = k
      BY <1>2, <1>3, <3>1
    <3>2. CASE i # k
      <4>1. i \in ByRedis(t)
        BY <1>5, <2>1, <3>2
      <4>2. i \in 1..Len(admitted) /\ admitted[i].at > t - Window
        BY <1>1, <4>1 DEF ByRedis, AdmittedVia
      <4>3. admitted[i].at \in redis
        BY <1>11, <4>1 DEF InSet
      <4>4. admitted[i].at > a - Window
        <5> DEFINE v == admitted[i].at
        <5>1. v \in Nat
          BY <1>1, <4>2, InstantsPast
        <5>2. v > t - Window /\ a <= t /\ a \in Nat /\ t \in Int /\ Window \in Nat
          BY <1>7, <1>11, <4>2
        <5> HIDE DEF v, a
        <5>3. v > a - Window
          BY <5>1, <5>2
        <5> QED BY <5>3 DEF v
      <4>5. admitted[i].at \in Kept(a)
        BY <4>3, <4>4 DEF Kept
      <4> QED BY <1>2, <4>2, <4>5
    <3> QED BY <3>1, <3>2
  <2>2. ASSUME NEW i \in ByRedis(t)', NEW j \in ByRedis(t)', admitted'[i].at = admitted'[j].at  PROVE i = j
    <3>1. \A l \in ByRedis(t) : l \in 1..Len(admitted) /\ admitted[l].via = "redis" /\ admitted[l].at # a
      BY <1>1, Zenon DEF ByRedis, AdmittedVia, OwnInstants, Dated
    <3>2. (i = k \/ i \in ByRedis(t)) /\ (j = k \/ j \in ByRedis(t))
      BY <1>5, <2>2
    <3>3. admitted'[k].at = a
      BY <1>2, <1>3
    <3>4. \A l \in ByRedis(t) : admitted'[l] = admitted[l]
      BY <1>2, <3>1
    <3>5. ASSUME i \in ByRedis(t), j \in ByRedis(t)  PROVE i = j
      BY <1>1, <2>2, <3>1, <3>4, <3>5, Zenon DEF OwnInstants
    <3> QED BY <2>2, <3>1, <3>2, <3>3, <3>4, <3>5, Zenon
  <2>3. IsFiniteSet(redis')
    <3>1. redis' \subseteq 1..MaxClock /\ MaxClock \in Nat
      BY LimiterAssumption DEF LimiterTypes, LimiterTypeOK
    <3>2. IsFiniteSet(1..MaxClock)
      BY <3>1, FS_Interval
    <3> QED BY <3>1, <3>2, FS_Subset
  <2>4. r1 <= Cardinality(redis')
    BY <2>1, <2>2, <2>3, AsManyInstants, Zenon
  <2>5. r1 \in Nat /\ Cardinality(redis') \in Nat
    BY <1>7, <1>8, <2>3, FS_CardinalityType
  <2>6. r1 <= Limit
    <3> HIDE DEF r1
    <3> QED BY <1>7, <2>4, <2>5
  <2> QED BY <2>1, <2>6, Zenon DEF InSet
<1> QED BY <1>10, <1>11, Zenon DEF WindowBounded

\* Nobody takes an instant, and what is held is held as before.
LEMMA OwnStays ==
  ASSUME LimiterTypes, NoneByRedis, OwnInstants,
         \A q \in Procs : Dated(q)' => Dated(q) /\ proc'[q].at = proc[q].at
  PROVE  OwnInstants'
<1>1. /\ \A i \in DOMAIN admitted : i \in DOMAIN admitted' /\ admitted'[i] = admitted[i]
      /\ \A i \in DOMAIN admitted' : admitted'[i].via = "redis" => i \in DOMAIN admitted
  BY SameByRedis
<1>2. ASSUME NEW p \in Procs, NEW q \in Procs, Dated(p)', Dated(q)', proc'[p].at = proc'[q].at  PROVE p = q
  BY <1>2, Zenon DEF OwnInstants
<1>3. ASSUME NEW p \in Procs, NEW i \in DOMAIN admitted', Dated(p)', admitted'[i].via = "redis"
      PROVE  admitted'[i].at # proc'[p].at
  <2>1. i \in DOMAIN admitted /\ admitted'[i] = admitted[i] /\ Dated(p) /\ proc'[p].at = proc[p].at
    BY <1>1, <1>3, Zenon
  <2> QED BY <1>3, <2>1, Zenon DEF OwnInstants
<1>4. ASSUME NEW i \in DOMAIN admitted', NEW j \in DOMAIN admitted', admitted'[i].via = "redis",
             admitted'[j].via = "redis", admitted'[i].at = admitted'[j].at
      PROVE  i = j
  <2>1. /\ i \in DOMAIN admitted /\ admitted'[i] = admitted[i]
        /\ j \in DOMAIN admitted /\ admitted'[j] = admitted[j]
    BY <1>1, <1>4, Zenon
  <2> QED BY <1>4, <2>1, Zenon DEF OwnInstants
<1> QED BY <1>2, <1>3, <1>4, Zenon DEF OwnInstants, Dated

\* A process reads the clock: its instant is later than all before.
LEMMA ReadClockOwns ==
  ASSUME LimiterTypes, OwnInstants, NEW p \in Procs, ReadClock(p)
  PROVE  OwnInstants'
<1>1. clock' = clock + 1 /\ proc' = [proc EXCEPT ![p] = [pc |-> "clock", at |-> clock']] /\ admitted' = admitted
  BY DEF ReadClock
<1>2. proc \in [Procs -> ProcRecord] /\ clock \in Nat
  BY FleetFinite DEF LimiterTypes, LimiterTypeOK, ProcRecord
<1>3. proc'[p].at = clock + 1 /\ \A q \in Procs : q # p => proc'[q] = proc[q]
  BY <1>1, <1>2
<1>4. /\ \A i \in DOMAIN admitted : admitted[i].at # clock + 1
      /\ \A q \in Procs : proc[q].at # clock + 1
  <2>1. ASSUME NEW x \in Nat, x <= clock  PROVE x # clock + 1
    BY <1>2, <2>1
  <2> QED BY <2>1, InstantsPast, Zenon
<1>5. ASSUME NEW a \in Procs, NEW b \in Procs, Dated(a)', Dated(b)', proc'[a].at = proc'[b].at  PROVE a = b
  <2>1. \A q \in Procs : q # p => (Dated(q)' <=> Dated(q))
    BY <1>3 DEF Dated
  <2> QED BY <1>3, <1>4, <1>5, <2>1, Zenon DEF OwnInstants
<1>6. ASSUME NEW a \in Procs, NEW i \in DOMAIN admitted', Dated(a)', admitted'[i].via = "redis"
      PROVE  admitted'[i].at # proc'[a].at
  <2>1. CASE a = p
    BY <1>1, <1>3, <1>4, <2>1, Zenon
  <2>2. CASE a # p
    <3>1. Dated(a)
      BY <1>3, <1>6, <2>2 DEF Dated
    <3>2. admitted[i].at # proc[a].at
      BY <1>1, <1>6, <3>1, Zenon DEF OwnInstants
    <3> QED BY <1>1, <1>3, <2>2, <3>2, Zenon
  <2> QED BY <2>1, <2>2, Zenon
<1>7. \A i, j \in DOMAIN admitted' :
        /\ admitted'[i].via = "redis" /\ admitted'[j].via = "redis" /\ admitted'[i].at = admitted'[j].at => i = j
  BY <1>1 DEF OwnInstants
<1> QED BY <1>5, <1>6, <1>7, Zenon DEF OwnInstants, Dated

\* An instant passes from a process to the history.
LEMMA AdmitOwns ==
  ASSUME LimiterTypes, OwnInstants, NEW p \in Procs, proc[p].pc = "clock", proc' = AtRest(p),
         Admit(p, proc[p].at, "redis")
  PROVE  OwnInstants'
<1> DEFINE a == proc[p].at
           k == Len(admitted) + 1
           e == [at |-> a, by |-> p, via |-> "redis"]
<1>1. DOMAIN admitted = 1..Len(admitted) /\ Len(admitted) \in Nat /\ admitted \in Seq(AdmittedRecord)
  BY AdmittedFinite DEF LimiterTypes, LimiterTypeOK, AdmittedRecord
<1>2. /\ DOMAIN admitted' = 1..k /\ admitted'[k] = e
      /\ \A i \in 1..Len(admitted) : admitted'[i] = admitted[i]
  BY <1>1 DEF Admit
<1>3. admitted'[k].at = a
  BY <1>2
<1>4. \A i \in 1..k : i = k \/ i \in DOMAIN admitted
  BY <1>1
<1>5. proc \in [Procs -> ProcRecord]
  BY DEF LimiterTypes, LimiterTypeOK, ProcRecord
<1>6. ~Dated(p)' /\ \A q \in Procs : q # p => proc'[q] = proc[q]
  BY <1>5 DEF AtRest, Dated
<1>7. \A q \in Procs : Dated(q)' => q # p /\ Dated(q) /\ proc'[q].at = proc[q].at
  BY <1>6 DEF Dated
<1>8. Dated(p)
  BY DEF Dated
<1> HIDE DEF e, k, a
<1>9. ASSUME NEW q \in Procs, NEW i \in DOMAIN admitted', Dated(q)', admitted'[i].via = "redis"
      PROVE  admitted'[i].at # proc'[q].at
  <2>1. CASE i = k
    BY <1>3, <1>7, <1>8, <1>9, <2>1, Zenon DEF OwnInstants, a
  <2>2. CASE i # k
    <3>1. i \in DOMAIN admitted /\ admitted'[i] = admitted[i]
      BY <1>1, <1>2, <1>4, <1>9, <2>2, Zenon
    <3> QED BY <1>7, <1>9, <3>1, Zenon DEF OwnInstants
  <2> QED BY <2>1, <2>2
<1>10. ASSUME NEW i \in DOMAIN admitted, admitted[i].via = "redis"  PROVE admitted'[i].at # a /\ admitted'[i] = admitted[i]
  BY <1>1, <1>2, <1>8, <1>10, Zenon DEF OwnInstants, a
<1>11. ASSUME NEW i \in DOMAIN admitted', NEW j \in DOMAIN admitted', admitted'[i].via = "redis",
              admitted'[j].via = "redis", admitted'[i].at = admitted'[j].at
       PROVE  i = j
  <2>1. (i = k \/ i \in DOMAIN admitted) /\ (j = k \/ j \in DOMAIN admitted)
    BY <1>2, <1>4, <1>11, Zenon
  <2>2. \A l \in DOMAIN admitted : admitted'[l] = admitted[l]
    BY <1>1, <1>2, Zenon
  <2>3. CASE i \in DOMAIN admitted /\ j \in DOMAIN admitted
    BY <1>11, <2>2, <2>3, Zenon DEF OwnInstants
  <2> QED BY <1>3, <1>10, <1>11, <2>1, <2>2, <2>3, Zenon
<1>12. ASSUME NEW b \in Procs, NEW q \in Procs, Dated(b)', Dated(q)', proc'[b].at = proc'[q].at  PROVE b = q
  BY <1>7, <1>12, Zenon DEF OwnInstants
<1> QED BY <1>9, <1>11, <1>12, Zenon DEF OwnInstants, Dated

\* Who admits in memory is on its memory for good.
LEMMA FallbackKept ==
  ASSUME LimiterTypes, MemoryIsFallback, fallback \subseteq fallback',
         \/ UNCHANGED admitted
         \/ \E e : (e.via = "memory" => e.by \in fallback') /\ admitted' = Append(admitted, e)
  PROVE  MemoryIsFallback'
<1>1. DOMAIN admitted = 1..Len(admitted) /\ Len(admitted) \in Nat /\ admitted \in Seq(AdmittedRecord)
  BY AdmittedFinite DEF LimiterTypes, LimiterTypeOK, AdmittedRecord
<1>2. CASE UNCHANGED admitted
  BY <1>2 DEF MemoryIsFallback
<1>3. ASSUME NEW e, e.via = "memory" => e.by \in fallback', admitted' = Append(admitted, e)
      PROVE  MemoryIsFallback'
  <2>1. /\ DOMAIN admitted' = 1..(Len(admitted) + 1) /\ admitted'[Len(admitted) + 1] = e
        /\ \A i \in 1..Len(admitted) : admitted'[i] = admitted[i]
    <3> DEFINE h == admitted
    <3>1. Len(h) \in Nat /\ DOMAIN h = 1..Len(h) /\ h \in Seq(AdmittedRecord)
      BY <1>1
    <3> HIDE DEF h
    <3>2. /\ DOMAIN Append(h, e) = 1..(Len(h) + 1) /\ Append(h, e)[Len(h) + 1] = e
          /\ \A i \in 1..Len(h) : Append(h, e)[i] = h[i]
      BY <3>1
    <3>3. admitted' = Append(h, e)
      BY <1>3 DEF h
    <3> QED BY <3>2, <3>3, Zenon DEF h
  <2>2. ASSUME NEW i \in 1..(Len(admitted) + 1), admitted'[i].via = "memory"  PROVE admitted'[i].by \in fallback'
    <3>1. CASE i = Len(admitted) + 1
      BY <1>3, <2>1, <2>2, <3>1
    <3>2. CASE i # Len(admitted) + 1
      <4>1. i \in DOMAIN admitted /\ admitted'[i] = admitted[i]
        BY <1>1, <2>1, <3>2
      <4> QED BY <2>2, <4>1, Zenon DEF MemoryIsFallback
    <3> QED BY <3>1, <3>2
  <2> QED BY <2>1, <2>2, Zenon DEF MemoryIsFallback
<1> QED BY <1>2, <1>3, Zenon

\* A check in memory, after Redis was or was not trimmed.
LEMMA CheckMemoryAdmits ==
  ASSUME NEW p \in Procs, CheckMemory(p), p \in fallback'
  PROVE  /\ NoneByRedis
         /\ \/ UNCHANGED admitted
            \/ \E e : (e.via = "memory" => e.by \in fallback') /\ admitted' = Append(admitted, e)
<1> DEFINE e == [at |-> clock, by |-> p, via |-> "memory"]
<1>1. UNCHANGED admitted \/ admitted' = Append(admitted, e)
  BY DEF CheckMemory, Admit
<1>2. e.via = "memory" /\ e.by = p
  OBVIOUS
<1> HIDE DEF e
<1> QED BY <1>1, <1>2, Zenon DEF NoneByRedis

LEMMA FleetInitially ==
  ASSUME LimiterInit
  PROVE  FleetInv
<1>1. DOMAIN admitted = {} /\ \A p \in Procs : proc[p].pc = "idle"
  BY DEF LimiterInit
<1>2. OwnInstants /\ MemoryIsFallback
  BY <1>1 DEF OwnInstants, MemoryIsFallback, Dated
<1>3. ASSUME NEW t \in Int  PROVE WindowBounded(t)
  <2>1. ByRedis(t) = {}
    BY <1>1 DEF ByRedis, AdmittedVia
  <2>2. Cardinality(ByRedis(t)) <= Limit
    BY <2>1, FS_EmptySet, LimiterAssumption
  <2> QED BY <2>1, <2>2 DEF WindowBounded, InSet
<1> QED BY <1>2, <1>3 DEF FleetInv

LEMMA FleetStep ==
  ASSUME LimiterInv, LimiterInv', FleetInv, [LimiterNext]_limiterVars
  PROVE  FleetInv'
<1>0. /\ LimiterTypes /\ LimiterTypes' /\ OwnInstants /\ MemoryIsFallback
      /\ proc \in [Procs -> ProcRecord] /\ clock \in Nat
  BY FleetFinite DEF LimiterInv, FleetInv, LimiterTypes, LimiterTypeOK, ProcRecord
<1>1. \A t \in Int : WindowBounded(t)
  BY DEF FleetInv
<1>2. ASSUME UNCHANGED <<redis, proc, admitted, fallback>>, clock <= clock'  PROVE FleetInv'
  <2>1. OwnInstants'
    BY <1>0, <1>2, OwnStays DEF NoneByRedis, Dated
  <2>2. MemoryIsFallback'
    BY <1>0, <1>2, Zenon DEF MemoryIsFallback
  <2>3. ASSUME NEW t \in Int  PROVE WindowBounded(t)'
    <3>1. Early(t)' \subseteq Early(t) /\ NoneByRedis
      BY <1>2 DEF Early, NoneByRedis
    <3> QED BY <1>0, <1>1, <1>2, <3>1, CalmBounded
  <2> QED BY <2>1, <2>2, <2>3 DEF FleetInv
<1>3. CASE UNCHANGED limiterVars
  BY <1>0, <1>2, <1>3 DEF limiterVars
<1>4. CASE ClockTick
  <2>1. clock <= clock'
    BY <1>0, <1>4 DEF ClockTick
  <2> QED BY <1>2, <1>4, <2>1 DEF ClockTick
<1>5. ASSUME NEW p \in Procs, InMemory(p)  PROVE FleetInv'
  <2>1. /\ p \in fallback' /\ CheckMemory(p) /\ clock <= clock' /\ UNCHANGED <<redis, proc, fallback>>
    BY <1>0, <1>5 DEF InMemory
  <2>2. /\ NoneByRedis
        /\ \/ UNCHANGED admitted
           \/ \E e : (e.via = "memory" => e.by \in fallback') /\ admitted' = Append(admitted, e)
    BY <2>1, CheckMemoryAdmits
  <2>3. OwnInstants'
    BY <1>0, <2>1, <2>2, OwnStays DEF Dated
  <2>4. MemoryIsFallback'
    BY <1>0, <2>1, <2>2, FallbackKept
  <2>5. ASSUME NEW t \in Int  PROVE WindowBounded(t)'
    <3>1. Early(t)' \subseteq Early(t)
      BY <2>1 DEF Early
    <3> QED BY <1>0, <1>1, <2>1, <2>2, <3>1, CalmBounded
  <2> QED BY <2>3, <2>4, <2>5 DEF FleetInv
<1>6. ASSUME NEW p \in Procs, ReadClock(p)  PROVE FleetInv'
  <2>1. /\ clock' = clock + 1 /\ clock <= clock' /\ UNCHANGED <<redis, fallback, admitted>> /\ NoneByRedis
        /\ proc' = [proc EXCEPT ![p] = [pc |-> "clock", at |-> clock']]
    BY <1>0, <1>6 DEF ReadClock, NoneByRedis
  <2>2. OwnInstants'
    BY <1>0, <1>6, ReadClockOwns
  <2>3. MemoryIsFallback'
    BY <1>0, <2>1, Zenon DEF MemoryIsFallback
  <2>4. ASSUME NEW t \in Int  PROVE WindowBounded(t)'
    <3>1. ASSUME clock > t, NEW q \in Early(t)'  PROVE q \in Early(t)
      <4>1. q \in Procs /\ proc'[q].pc = "clock" /\ proc'[q].at > t - Window /\ proc'[q].at <= t
        BY <3>1 DEF Early
      <4>2. q # p
        <5>1. proc'[p].at = clock + 1
          BY <1>0, <2>1
        <5>2. ~(clock + 1 <= t)
          BY <1>0, <3>1
        <5> QED BY <4>1, <5>1, <5>2, Zenon
      <4>3. proc'[q] = proc[q]
        BY <1>0, <2>1, <4>1, <4>2
      <4> QED BY <4>1, <4>3 DEF Early
    <3> QED BY <1>0, <1>1, <2>1, <3>1, CalmBounded
  <2> QED BY <2>2, <2>3, <2>4 DEF FleetInv
<1>7. ASSUME NEW p \in Procs, proc' = AtRest(p) \/ \E pc \in {"over", "removed"} : proc' = [proc EXCEPT ![p].pc = pc]
      PROVE  /\ proc' = [proc EXCEPT ![p] = proc'[p]] /\ proc'[p].pc # "clock"
             /\ \A q \in Procs : q # p => proc'[q] = proc[q]
             /\ \A t : Early(t)' \subseteq Early(t)
  <2>1. PICK r : proc' = [proc EXCEPT ![p] = r] /\ r.pc # "clock"
    <3>1. CASE proc' = AtRest(p)
      <4> DEFINE r == [pc |-> "idle", at |-> 0]
      <4>1. r.pc # "clock"
        OBVIOUS
      <4>2. proc' = [proc EXCEPT ![p] = r]
        BY <3>1 DEF AtRest
      <4> HIDE DEF r
      <4> QED BY <4>1, <4>2, Zenon
    <3>2. ASSUME NEW pc \in {"over", "removed"}, proc' = [proc EXCEPT ![p].pc = pc]
          PROVE  \E r : proc' = [proc EXCEPT ![p] = r] /\ r.pc # "clock"
      <4> DEFINE r == [proc[p] EXCEPT !.pc = pc]
      <4>1. proc' = [proc EXCEPT ![p] = r]
        BY <1>0, <3>2
      <4>2. r.pc = pc
        BY <1>0 DEF ProcRecord
      <4> QED BY <3>2, <4>1, <4>2
    <3> QED BY <1>7, <3>1, <3>2
  <2>2. proc'[p] = r /\ \A q \in Procs : q # p => proc'[q] = proc[q]
    BY <1>0, <2>1
  <2>3. ASSUME NEW t, NEW q \in Early(t)'  PROVE q \in Early(t)
    <3>1. q \in Procs /\ q # p
      BY <2>1, <2>2, <2>3 DEF Early
    <3> QED BY <2>2, <2>3, <3>1 DEF Early
  <2>4. proc'[p].pc # "clock"
    BY <2>1, <2>2, Zenon
  <2>5. proc' = [proc EXCEPT ![p] = proc'[p]]
    BY <2>1, <2>2
  <2> QED BY <2>2, <2>3, <2>4, <2>5
<1>8. ASSUME NEW p \in Procs, Pipeline(p)  PROVE FleetInv'
  <2>1. /\ proc[p].pc = "clock" /\ redis' = Kept(proc[p].at) \cup {proc[p].at}
        /\ clock' = clock /\ fallback' = fallback
    BY <1>8 DEF Pipeline
  <2>2. CASE proc' = [proc EXCEPT ![p].pc = "over"] /\ UNCHANGED admitted
    <3>1. /\ proc' = [proc EXCEPT ![p] = proc'[p]] /\ proc'[p].pc # "clock" /\ NoneByRedis
          /\ \A q \in Procs : q # p => proc'[q] = proc[q]
      BY <1>7, <2>2 DEF NoneByRedis
    <3>2. proc'[p].at = proc[p].at /\ Dated(p)
      BY <1>0, <2>1, <2>2 DEF ProcRecord, Dated
    <3>3. \A q \in Procs : Dated(q)' => Dated(q) /\ proc'[q].at = proc[q].at
      BY <3>1, <3>2 DEF Dated
    <3>4. OwnInstants'
      BY <1>0, <3>1, <3>3, OwnStays
    <3>5. MemoryIsFallback'
      BY <1>0, <2>1, <2>2, Zenon DEF MemoryIsFallback
    <3>6. \A t \in Int : WindowBounded(t)'
      BY <1>0, <1>1, <2>1, <3>1, TrimBounded
    <3> QED BY <3>4, <3>5, <3>6 DEF FleetInv
  <2>3. CASE proc' = AtRest(p) /\ Admit(p, proc[p].at, "redis") /\ ~(Cardinality(redis') > Limit)
    <3>1. proc' = [proc EXCEPT ![p] = proc'[p]] /\ proc'[p].pc # "clock"
      BY <1>7, <2>3
    <3>2. OwnInstants'
      BY <1>0, <2>1, <2>3, AdmitOwns
    <3>3. MemoryIsFallback'
      <4> DEFINE e == [at |-> proc[p].at, by |-> p, via |-> "redis"]
      <4>1. admitted' = Append(admitted, e) /\ e.via # "memory"
        BY <2>3 DEF Admit
      <4> HIDE DEF e
      <4>2. \E x : (x.via = "memory" => x.by \in fallback') /\ admitted' = Append(admitted, x)
        BY <4>1, Zenon
      <4> QED BY <1>0, <2>1, <4>2, FallbackKept
    <3>4. Cardinality(redis') <= Limit
      <4>1. redis' \subseteq 1..MaxClock /\ MaxClock \in Nat /\ Limit \in Nat
        BY <1>0, LimiterAssumption DEF LimiterTypes, LimiterTypeOK
      <4>2. IsFiniteSet(1..MaxClock)
        BY <4>1, FS_Interval
      <4>3. Cardinality(redis') \in Nat
        BY <4>1, <4>2, FS_Subset, FS_CardinalityType
      <4> QED BY <2>3, <4>1, <4>3
    <3>5. \A t \in Int : WindowBounded(t)'
      BY <1>0, <1>1, <2>1, <2>3, <3>1, <3>4, AdmitBounded
    <3> QED BY <3>2, <3>3, <3>5 DEF FleetInv
  <2> QED BY <1>8, <2>1, <2>2, <2>3 DEF Pipeline
<1>9. ASSUME NEW p \in Procs, RemoveOwn(p)  PROVE FleetInv'
  <2>1. /\ proc[p].pc = "over" /\ redis' = redis \ {proc[p].at} /\ proc' = [proc EXCEPT ![p].pc = "removed"]
        /\ UNCHANGED <<fallback, admitted>> /\ NoneByRedis /\ clock <= clock'
    BY <1>0, <1>9 DEF RemoveOwn, NoneByRedis
  <2>2. (\A q \in Procs : q # p => proc'[q] = proc[q]) /\ \A t : Early(t)' \subseteq Early(t)
    BY <1>7, <2>1
  <2>3. proc'[p].pc = "removed"
    BY <1>0, <2>1 DEF ProcRecord
  <2>4. OwnInstants'
    <3>1. \A q \in Procs : Dated(q)' => Dated(q) /\ proc'[q].at = proc[q].at
      BY <2>2, <2>3 DEF Dated
    <3> QED BY <1>0, <2>1, <3>1, OwnStays
  <2>5. MemoryIsFallback'
    BY <1>0, <2>1, Zenon DEF MemoryIsFallback
  <2>6. \A i \in DOMAIN admitted : admitted[i].via = "redis" => admitted[i].at # proc[p].at
    BY <1>0, <2>1 DEF OwnInstants, Dated
  <2>7. \A t \in Int : WindowBounded(t)'
    BY <1>0, <1>1, <2>1, <2>2, <2>6, CalmBounded
  <2> QED BY <2>4, <2>5, <2>7 DEF FleetInv
<1>10. ASSUME NEW p \in Procs, Respond(p)  PROVE FleetInv'
  <2>1. /\ proc' = AtRest(p) /\ UNCHANGED <<redis, fallback, admitted>> /\ NoneByRedis /\ clock <= clock'
    BY <1>0, <1>10 DEF Respond, NoneByRedis
  <2>2. (\A q \in Procs : q # p => proc'[q] = proc[q]) /\ \A t : Early(t)' \subseteq Early(t)
    BY <1>7, <2>1
  <2>3. proc'[p].pc = "idle"
    BY <1>0, <2>1 DEF AtRest
  <2>4. OwnInstants'
    <3>1. \A q \in Procs : Dated(q)' => Dated(q) /\ proc'[q].at = proc[q].at
      BY <2>2, <2>3 DEF Dated
    <3> QED BY <1>0, <2>1, <3>1, OwnStays
  <2>5. MemoryIsFallback'
    BY <1>0, <2>1, Zenon DEF MemoryIsFallback
  <2>6. \A t \in Int : WindowBounded(t)'
    BY <1>0, <1>1, <2>1, <2>2, CalmBounded
  <2> QED BY <2>4, <2>5, <2>6 DEF FleetInv
<1>11. ASSUME NEW p \in Procs, RedisFails(p)  PROVE FleetInv'
  <2>1. /\ proc' = AtRest(p) /\ CheckMemory(p) /\ clock' = clock /\ clock <= clock'
        /\ p \in fallback' /\ fallback \subseteq fallback'
    BY <1>0, <1>11 DEF RedisFails
  <2>2. /\ proc' = [proc EXCEPT ![p] = proc'[p]] /\ proc'[p].pc # "clock"
        /\ \A q \in Procs : q # p => proc'[q] = proc[q]
        /\ \A t : Early(t)' \subseteq Early(t)
    BY <1>7, <2>1
  <2>3. proc'[p].pc = "idle"
    BY <1>0, <2>1 DEF AtRest
  <2>4. /\ NoneByRedis
        /\ \/ UNCHANGED admitted
           \/ \E e : (e.via = "memory" => e.by \in fallback') /\ admitted' = Append(admitted, e)
    BY <2>1, CheckMemoryAdmits
  <2>5. OwnInstants'
    <3>1. \A q \in Procs : Dated(q)' => Dated(q) /\ proc'[q].at = proc[q].at
      BY <2>2, <2>3 DEF Dated
    <3> QED BY <1>0, <2>4, <3>1, OwnStays
  <2>6. MemoryIsFallback'
    BY <1>0, <2>1, <2>4, FallbackKept
  <2>7. CASE redis' = redis
    <3>1. \A t \in Int : WindowBounded(t)'
      BY <1>0, <1>1, <2>1, <2>2, <2>4, <2>7, CalmBounded
    <3> QED BY <2>5, <2>6, <3>1 DEF FleetInv
  <2>8. CASE proc[p].pc = "clock" /\ redis' = Kept(proc[p].at) \cup {proc[p].at}
    <3>1. \A t \in Int : WindowBounded(t)'
      BY <1>0, <1>1, <2>1, <2>2, <2>4, <2>8, TrimBounded
    <3> QED BY <2>5, <2>6, <3>1 DEF FleetInv
  <2>9. CASE proc[p].pc = "over" /\ redis' = redis \ {proc[p].at}
    <3>1. \A i \in DOMAIN admitted : admitted[i].via = "redis" => admitted[i].at # proc[p].at
      BY <1>0, <2>9 DEF OwnInstants, Dated
    <3>2. \A t \in Int : WindowBounded(t)'
      BY <1>0, <1>1, <2>1, <2>2, <2>4, <2>9, <3>1, CalmBounded
    <3> QED BY <2>5, <2>6, <3>2 DEF FleetInv
  <2> QED BY <1>11, <2>7, <2>8, <2>9 DEF RedisFails
<1> QED
  BY <1>3, <1>4, <1>5, <1>6, <1>8, <1>9, <1>10, <1>11 DEF LimiterNext, Check, Horizon

-----------------------------------------------------------------------------

\* How many of A come up to i tells members of A apart.
UpTo(A, i) == {l \in A : l <= i}

LEMMA RankGrows ==
  ASSUME NEW A, A \subseteq Nat, IsFiniteSet(A), NEW i \in A, NEW j \in A, i < j
  PROVE  Cardinality(UpTo(A, i)) # Cardinality(UpTo(A, j))
<1>1. UpTo(A, i) \subseteq UpTo(A, j) \ {j}
  <2>1. ASSUME NEW l \in UpTo(A, i)
        PROVE  l \in UpTo(A, j) /\ l # j
    <3>1. l \in A /\ l <= i
      BY DEF UpTo
    <3>2. l \in Nat /\ i \in Nat /\ j \in Nat
      BY <3>1
    <3>3. l <= j /\ l # j
      BY <3>1, <3>2
    <3> QED BY <3>1, <3>3 DEF UpTo
  <2> QED BY <2>1
<1>2. j \in UpTo(A, j)
  BY DEF UpTo
<1>3. IsFiniteSet(UpTo(A, j)) /\ IsFiniteSet(UpTo(A, i))
  <2>1. UpTo(A, j) \subseteq A /\ UpTo(A, i) \subseteq A
    BY DEF UpTo
  <2> QED BY <2>1, FS_Subset
<1>4. /\ IsFiniteSet(UpTo(A, j) \ {j}) /\ Cardinality(UpTo(A, j) \ {j}) = Cardinality(UpTo(A, j)) - 1
  BY <1>2, <1>3, FS_RemoveElement
<1>5. Cardinality(UpTo(A, i)) <= Cardinality(UpTo(A, j)) - 1
  BY <1>1, <1>4, FS_Subset, Zenon
<1> DEFINE x == Cardinality(UpTo(A, i)) y == Cardinality(UpTo(A, j))
<1>6. x \in Nat /\ y \in Nat
  BY <1>3, FS_CardinalityType
<1> HIDE DEF x, y
<1>7. x # y
  BY <1>5, <1>6 DEF x, y
<1> QED BY <1>7 DEF x, y

\* Those on their memory admit Limit each in a window at most.
LEMMA MemoryBounded ==
  ASSUME LimiterInv, FleetInv, NEW t \in Int
  PROVE  Cardinality(ByMemory(t)) <= Limit * Cardinality(fallback)
<1> DEFINE Own(i) == InWindow(admitted[i].by, t - Window, t)
           rank(i) == Cardinality(UpTo(Own(i), i))
           f == [i \in ByMemory(t) |-> <<rank(i), admitted[i].by>>]
<1>1. LimiterTypes /\ MemoryIsFallback /\ Limit \in Nat
  BY LimiterAssumption DEF LimiterInv, FleetInv
<1>2. ASSUME NEW i \in ByMemory(t)
      PROVE  /\ i \in Own(i) /\ Own(i) \subseteq Nat /\ IsFiniteSet(Own(i)) /\ admitted[i].by \in fallback
             /\ rank(i) \in 1..Limit
  <2>1. /\ i \in DOMAIN admitted /\ admitted[i].via = "memory" /\ admitted[i].at > t - Window /\ admitted[i].at <= t
    BY <1>2 DEF ByMemory, AdmittedVia
  <2>2. i \in Own(i) /\ Own(i) \subseteq DOMAIN admitted
    BY <2>1 DEF InWindow, Through
  <2>3. DOMAIN admitted \subseteq Nat
    BY <1>1, AdmittedFinite
  <2>4. IsFiniteSet(Own(i))
    BY <1>1, AdmittedFinite
  <2>5. admitted[i].by \in fallback
    BY <1>1, <2>1 DEF MemoryIsFallback
  <2>6. Cardinality(Own(i)) <= Limit
    <3>1. admitted[i].by \in Procs
      BY <1>1, <2>1, AdmittedFinite DEF AdmittedRecord
    <3>2. Exact(admitted[i].by)
      BY <3>1 DEF LimiterInv, MemoryInv
    <3> QED BY <3>2 DEF Exact
  <2> HIDE DEF Own
  <2>7. UpTo(Own(i), i) \subseteq Own(i) /\ i \in UpTo(Own(i), i)
    BY <2>2, <2>3 DEF UpTo
  <2>8. /\ IsFiniteSet(UpTo(Own(i), i)) /\ Cardinality(UpTo(Own(i), i)) <= Cardinality(Own(i))
        /\ Cardinality(UpTo(Own(i), i)) \in Nat /\ Cardinality(Own(i)) \in Nat
    BY <2>4, <2>7, FS_Subset, FS_CardinalityType
  <2>9. rank(i) # 0
    BY <2>7, <2>8, FS_EmptySet
  <2>10. rank(i) \in 1..Limit
    <3> DEFINE x == rank(i) y == Cardinality(Own(i))
    <3>1. x \in Nat /\ y \in Nat /\ x <= y /\ y <= Limit /\ x # 0
      BY <2>6, <2>8, <2>9
    <3> HIDE DEF x, y
    <3>2. x \in 1..Limit
      BY <1>1, <3>1
    <3> QED BY <3>2 DEF x
  <2> QED BY <2>2, <2>3, <2>4, <2>5, <2>10
<1>3. f \in [ByMemory(t) -> (1..Limit) \X fallback]
  <2>1. ASSUME NEW i \in ByMemory(t)  PROVE <<rank(i), admitted[i].by>> \in (1..Limit) \X fallback
    <3>1. rank(i) \in 1..Limit /\ admitted[i].by \in fallback
      BY <1>2
    <3> HIDE DEF rank
    <3> QED BY <3>1
  <2> HIDE DEF rank
  <2> QED BY <2>1
<1>4. ASSUME NEW i \in ByMemory(t), NEW j \in ByMemory(t), f[i] = f[j]  PROVE i = j
  <2>1. rank(i) = rank(j) /\ admitted[i].by = admitted[j].by
    <3> HIDE DEF rank
    <3>1. <<rank(i), admitted[i].by>> = <<rank(j), admitted[j].by>>
      BY <1>4
    <3> QED BY <3>1
  <2>2. Own(i) = Own(j)
    BY <2>1
  <2>3. i \in Own(i) /\ j \in Own(i) /\ Own(i) \subseteq Nat /\ IsFiniteSet(Own(i))
    BY <1>2, <2>2
  <2>4. Cardinality(UpTo(Own(i), i)) = Cardinality(UpTo(Own(i), j))
    BY <2>1, <2>2
  <2> HIDE DEF Own
  <2>5. ~(i < j) /\ ~(j < i)
    BY <2>3, <2>4, RankGrows
  <2>6. i \in Nat /\ j \in Nat
    BY <2>3
  <2> QED BY <2>5, <2>6
<1>5. f \in Injection(ByMemory(t), (1..Limit) \X fallback)
  <2> HIDE DEF f
  <2> QED BY <1>3, <1>4 DEF Injection, IsInjective
<1>6. IsFiniteSet(1..Limit) /\ Cardinality(1..Limit) = Limit
  <2>1. 1 \in Int /\ Limit \in Int /\ Limit >= 1
    BY LimiterAssumption
  <2>2. IsFiniteSet(1..Limit) /\ Cardinality(1..Limit) = IF 1 > Limit THEN 0 ELSE Limit - 1 + 1
    BY <2>1, FS_Interval, Zenon
  <2> QED BY <2>1, <2>2
<1>7. IsFiniteSet(fallback)
  <2>1. fallback \subseteq Procs
    BY <1>1 DEF LimiterTypes, LimiterTypeOK
  <2> QED BY <2>1, FleetAssumption, FS_Subset
<1>8. /\ IsFiniteSet((1..Limit) \X fallback)
      /\ Cardinality((1..Limit) \X fallback) = Cardinality(1..Limit) * Cardinality(fallback)
  BY <1>6, <1>7, FS_Product, Zenon
<1> HIDE DEF f
<1>9. Cardinality(ByMemory(t)) <= Cardinality((1..Limit) \X fallback)
  BY <1>5, <1>8, FS_Injection, Zenon
<1>10. Cardinality((1..Limit) \X fallback) = Limit * Cardinality(fallback)
  BY <1>6, <1>8, Zenon
<1> QED BY <1>9, <1>10, Zenon

LEMMA FleetBounded ==
  ASSUME LimiterInv, FleetInv
  PROVE  FleetBound
<1> SUFFICES ASSUME NEW t \in 1..MaxClock
             PROVE  Within(t - Window, t, Procs, Via) <= Limit + Cardinality(Procs) - 1 + Limit * Cardinality(fallback)
  BY DEF FleetBound
<1>1. LimiterTypes /\ t \in Int
  BY LimiterAssumption DEF LimiterInv
<1>2. Within(t - Window, t, Procs, Via) = Cardinality(ByRedis(t) \cup ByMemory(t))
  <2>1. {i \in DOMAIN admitted : /\ admitted[i].by \in Procs /\ admitted[i].via \in Via
                                 /\ admitted[i].at > t - Window /\ admitted[i].at <= t}
          = ByRedis(t) \cup ByMemory(t)
    <3>1. \A i \in DOMAIN admitted : admitted[i].by \in Procs /\ admitted[i].via \in Via
      BY <1>1, AdmittedFinite DEF AdmittedRecord
    <3> QED BY <3>1 DEF ByRedis, ByMemory, AdmittedVia, Via
  <2> QED BY <2>1 DEF Within
<1> DEFINE r == Cardinality(ByRedis(t)) m == Cardinality(ByMemory(t)) n == Cardinality(Procs)
           w == Cardinality(ByRedis(t) \cup ByMemory(t)) l == Limit * Cardinality(fallback)
           x == Cardinality(Early(t)) b == Cardinality(ByRedis(t) \cap ByMemory(t))
<1>3. /\ r \in Nat /\ m \in Nat /\ n \in Nat /\ n >= 1 /\ x \in Nat /\ Limit \in Nat
      /\ IsFiniteSet(ByRedis(t)) /\ IsFiniteSet(ByMemory(t))
  BY <1>1, FleetFinite
<1>4. w = r + m - b /\ b \in Nat /\ w \in Nat
  <2>1. w = r + m - b /\ IsFiniteSet(ByRedis(t) \cup ByMemory(t))
    BY <1>3, FS_Union, Zenon
  <2>2. ByRedis(t) \cap ByMemory(t) \subseteq ByRedis(t)
    OBVIOUS
  <2>3. IsFiniteSet(ByRedis(t) \cap ByMemory(t))
    BY <1>3, <2>2, FS_Subset
  <2> QED BY <2>1, <2>3, FS_CardinalityType
<1>5. m <= l
  BY <1>1, MemoryBounded
<1>6. l \in Nat
  <2>1. fallback \subseteq Procs
    BY <1>1 DEF LimiterTypes, LimiterTypeOK
  <2>2. Cardinality(fallback) \in Nat
    BY <2>1, FleetAssumption, FS_Subset, FS_CardinalityType
  <2> QED BY <1>3, <2>2
<1>7. r <= Limit + n - 1
  <2>1. CASE InSet(t)
    <3>1. r <= Limit
      BY <2>1, Zenon DEF InSet
    <3> HIDE DEF r, n
    <3> QED BY <1>3, <3>1
  <2>2. CASE Trimmed(t)
    <3>1. r + x <= Limit + n - 1
      BY <2>2, Zenon DEF Trimmed
    <3> HIDE DEF r, n, x
    <3> QED BY <1>3, <3>1
  <2> QED BY <1>1, <2>1, <2>2 DEF FleetInv, WindowBounded
<1> HIDE DEF r, m, n, w, l, x, b
<1>8. w <= Limit + n - 1 + l
  BY <1>3, <1>4, <1>5, <1>6, <1>7
<1> QED BY <1>2, <1>8, Zenon DEF w, n, l

\* However many processes share the Redis: a window of the fleet exceeds the
\* limit by one request per other process that read the clock early, and the
\* limit once more for each process thrown back on its memory (_fallback).
THEOREM FleetAlwaysBounded == LimiterSpec => []FleetBound
<1>1. LimiterInit => LimiterInv /\ FleetInv
  BY LimiterInitially, LimiterAssumption, FleetInitially
<1>2. LimiterInv /\ FleetInv /\ [LimiterNext]_limiterVars => LimiterInv' /\ FleetInv'
  BY LimiterStep, LimiterAssumption, FleetStep
<1>3. LimiterInv /\ FleetInv => FleetBound
  BY FleetBounded
<1> QED BY <1>1, <1>2, <1>3, PTL DEF LimiterSpec

=============================================================================
