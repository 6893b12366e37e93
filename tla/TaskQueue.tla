----------------------------- MODULE TaskQueue ------------------------------
(***************************************************************************)
(* How a task travels from POST /tasks (api/tasks.py run_task) through the *)
(* Celery queue to a worker (worker.py) and back to its row.               *)
(*                                                                         *)
(* A request runs in one database transaction, and so does a worker's      *)
(* handling of a message: `row` is what is committed.  A worker's UPDATE   *)
(* of the row locks it until its transaction ends.  Celery over Redis with *)
(* acks_late delivers a message at least once: again when its worker dies, *)
(* and again when the visibility timeout passes before the ack.  A dead    *)
(* pool process alone loses it (task_reject_on_worker_lost is not set).    *)
(*                                                                         *)
(* One governed run (GovernedTask) is one step here, with its outcome.     *)
(***************************************************************************)
EXTENDS Integers, FiniteSets

CONSTANTS
  Tasks,        (* the tasks ever requested                                  *)
  Workers,      (* worker processes                                          *)
  MaxRetries,   (* max_retries of the Celery task                            *)
  MaxFaults     (* bound: worker deaths and visibility timeouts              *)

ASSUME QueueAssumption == MaxRetries \in Nat /\ MaxFaults \in Nat

VARIABLES
  row,          (* committed status of a task's row                          *)
  api,          (* where the request that creates the task stands            *)
  waiting,      (* how many of each message the broker can deliver           *)
  worker,       (* where a worker stands and the message it holds            *)
  early,        (* tasks whose message was dropped before their row was seen *)
  lost,         (* tasks a message of which was used up by a fault           *)
  faults

vars == <<row, api, waiting, worker, early, lost, faults>>

Outcomes == {"completed", "failed", "denied"}      (* AgentResult.status *)
Message == [task : Tasks, retries : 0..MaxRetries]
Idle == [pc |-> "idle"]
Busy(pc, m) == [pc |-> pc, msg |-> m]

Init ==
  /\ row = [t \in Tasks |-> "absent"]
  /\ api = [t \in Tasks |-> "idle"]
  /\ waiting = [m \in Message |-> 0]
  /\ worker = [w \in Workers |-> Idle]
  /\ early = {} /\ lost = {} /\ faults = 0

Publish(m) == waiting' = [waiting EXCEPT ![m] = @ + 1]

-----------------------------------------------------------------------------
(* The request.                                                            *)

\* Mutant of Submit: the row is committed at once, and written again later.
SubmitAndCommit(t) ==
  /\ api[t] = "idle"
  /\ api' = [api EXCEPT ![t] = "created"] /\ row' = [row EXCEPT ![t] = "queued"]
  /\ UNCHANGED <<waiting, worker, early, lost, faults>>

\* INSERT and flush: status "pending" or "running", seen by nobody else.
\* An unknown or deactivated agent ends the request before it.
Submit(t) ==
  /\ api[t] = "idle"
  /\ \E pc \in {"created", "inline", "refused"} : api' = [api EXCEPT ![t] = pc]
  /\ UNCHANGED <<row, waiting, worker, early, lost, faults>>

Dispatch(t) ==
  /\ api[t] = "created"
  /\ Publish([task |-> t, retries |-> 0])
  /\ api' = [api EXCEPT ![t] = "queued"]
  /\ UNCHANGED <<row, worker, early, lost, faults>>

\* .delay() raises, whether or not the broker took the message.
FallBack(t) ==
  /\ api[t] = "created"
  /\ UNCHANGED waiting \/ Publish([task |-> t, retries |-> 0])
  /\ api' = [api EXCEPT ![t] = "inline"]
  /\ UNCHANGED <<row, worker, early, lost, faults>>

RunInline(t) ==
  /\ api[t] = "inline"
  /\ api' = [api EXCEPT ![t] = "ran"]
  /\ UNCHANGED <<row, waiting, worker, early, lost, faults>>

\* db.commit() of run_task: "queued", or what the inline run returned.
CommitRequest(t) ==
  /\ \/ /\ api[t] = "queued"
        /\ row' = [row EXCEPT ![t] = "queued"]
     \/ /\ api[t] = "ran"
        /\ \E s \in Outcomes : row' = [row EXCEPT ![t] = s]
  /\ api' = [api EXCEPT ![t] = "answered"]
  /\ UNCHANGED <<waiting, worker, early, lost, faults>>

\* The request raises or its process dies: everything is rolled back.
AbortRequest(t) ==
  /\ api[t] \in {"created", "queued", "inline", "ran"}
  /\ api' = [api EXCEPT ![t] = "aborted"]
  /\ UNCHANGED <<row, waiting, worker, early, lost, faults>>

-----------------------------------------------------------------------------
(* The worker.                                                             *)

At(w, pc) == worker[w].pc = pc
Msg(w) == worker[w].msg
Task(w) == Msg(w).task
Goto(w, pc) == worker' = [worker EXCEPT ![w].pc = pc]
AckedBy(w) == worker' = [worker EXCEPT ![w] = Idle]

\* Mutant of Locks: the "running" status is not flushed.
LocksNothing(w, t) == FALSE

\* The flush of status "running" holds the row's lock to the transaction's end.
Locks(w, t) == worker[w].pc \in {"running", "ran", "failing"} /\ Task(w) = t

Receive(w) ==
  /\ At(w, "idle")
  /\ \E m \in Message :
       /\ waiting[m] > 0
       /\ waiting' = [waiting EXCEPT ![m] = @ - 1]
       /\ worker' = [worker EXCEPT ![w] = Busy("received", m)]
  /\ UNCHANGED <<row, api, early, lost, faults>>

\* SELECT of the task: a row that is not committed is not found, which the
\* worker logs and returns from as if the work were done.
Load(w) ==
  /\ At(w, "received")
  /\ IF row[Task(w)] = "absent"
     THEN AckedBy(w) /\ early' = early \cup {Task(w)}
     ELSE Goto(w, "found") /\ UNCHANGED early
  /\ UNCHANGED <<row, api, waiting, lost, faults>>

Lock(w) ==
  /\ At(w, "found")
  /\ ~\E o \in Workers : Locks(o, Task(w))
  /\ Goto(w, "running")
  /\ UNCHANGED <<row, api, waiting, early, lost, faults>>

Run(w) ==
  /\ At(w, "running")
  /\ Goto(w, "ran")
  /\ UNCHANGED <<row, api, waiting, early, lost, faults>>

CommitResult(w) ==
  /\ At(w, "ran")
  /\ \E s \in Outcomes : row' = [row EXCEPT ![Task(w)] = s]
  /\ AckedBy(w)
  /\ UNCHANGED <<api, waiting, early, lost, faults>>

\* Mutant of Raises: the exception is logged and swallowed.
RaisesSwallowed(w) ==
  /\ At(w, "running") \/ At(w, "ran")
  /\ AckedBy(w)
  /\ UNCHANGED <<row, api, waiting, early, lost, faults>>

\* load_policy, Agent() or the run raises and the session is still usable.
Raises(w) ==
  /\ At(w, "running") \/ At(w, "ran")
  /\ Goto(w, "failing")
  /\ UNCHANGED <<row, api, waiting, early, lost, faults>>

\* A flush or the commit raises: the handler's own SELECT raises too, nothing
\* is committed or retried, and Celery acks the failed message.
SessionBreaks(w) ==
  /\ worker[w].pc \in {"found", "running", "ran", "failing"}
  /\ AckedBy(w) /\ lost' = lost \cup {Task(w)}
  /\ UNCHANGED <<row, api, waiting, early, faults>>

\* The handler commits "failed" together with what the run had logged.
CommitFailure(w) ==
  /\ At(w, "failing")
  /\ row' = [row EXCEPT ![Task(w)] = "failed"]
  /\ IF Msg(w).retries < MaxRetries THEN Goto(w, "retrying") ELSE AckedBy(w)
  /\ UNCHANGED <<api, waiting, early, lost, faults>>

\* self.retry(): a new message, or none when publishing fails.
Retry(w) ==
  /\ At(w, "retrying")
  /\ UNCHANGED waiting \/ Publish([Msg(w) EXCEPT !.retries = @ + 1])
  /\ AckedBy(w)
  /\ UNCHANGED <<row, api, early, lost, faults>>

\* The worker dies and its message comes back; or its pool process dies
\* alone and the message is acknowledged.
Die(w) ==
  /\ ~At(w, "idle") /\ faults < MaxFaults
  /\ faults' = faults + 1
  /\ AckedBy(w)
  /\ \/ Publish(Msg(w)) /\ UNCHANGED lost
     \/ lost' = lost \cup {Task(w)} /\ UNCHANGED waiting
  /\ UNCHANGED <<row, api, early>>

\* The visibility timeout passes while the worker is still at it.
VisibilityTimeout(w) ==
  /\ ~At(w, "idle") /\ faults < MaxFaults
  /\ faults' = faults + 1
  /\ Publish(Msg(w))
  /\ UNCHANGED <<row, api, worker, early, lost>>

-----------------------------------------------------------------------------

Request(t) == Submit(t) \/ Dispatch(t) \/ FallBack(t) \/ RunInline(t) \/ CommitRequest(t)

Work(w) ==
  \/ Receive(w) \/ Load(w) \/ Lock(w) \/ Run(w) \/ CommitResult(w) \/ Raises(w)
  \/ SessionBreaks(w) \/ CommitFailure(w) \/ Retry(w)

\* Nothing left to do: all requests ended, no message anywhere.
Quiet ==
  /\ \A t \in Tasks : api[t] \in {"refused", "answered", "aborted"}
  /\ \A m \in Message : waiting[m] = 0
  /\ \A w \in Workers : At(w, "idle")
Rest == Quiet /\ UNCHANGED vars

Next ==
  \/ \E t \in Tasks : Request(t) \/ AbortRequest(t)
  \/ \E w \in Workers : Work(w) \/ Die(w) \/ VisibilityTimeout(w)
  \/ Rest

Spec == Init /\ [][Next]_vars

\* A server finishes its requests and a worker the message it holds, and
\* takes the next: a governed run ends (GovernedTask!EventuallyReturns).
FairSpec ==
  /\ Spec
  /\ \A t \in Tasks : WF_vars(Request(t) /\ api[t] # "idle")
  /\ \A w \in Workers : WF_vars(Work(w))

-----------------------------------------------------------------------------

TypeOK ==
  /\ row \in [Tasks -> Outcomes \cup {"absent", "queued"}]
  /\ api \in [Tasks -> {"idle", "refused", "created", "queued", "inline", "ran",
                        "answered", "aborted"}]
  /\ waiting \in [Message -> Nat]
  /\ worker \in [Workers -> {Idle} \cup
       [pc : {"received", "found", "running", "ran", "failing", "retrying"},
        msg : Message]]
  /\ early \subseteq Tasks /\ lost \subseteq Tasks /\ faults \in 0..MaxFaults

\* A task never runs twice at a time: not in two workers that were handed
\* the same message, nor in a worker and the request that fell back to
\* running it (the row lock, and the row hidden until the commit).
OneRunAtATime ==
  \A t \in Tasks :
    LET here == {w \in Workers : worker[w].pc \in {"running", "ran"} /\ Task(w) = t}
    IN  /\ \A w, o \in here : w = o
        /\ api[t] \in {"inline", "ran"} => here = {}

\* The request's late "queued" never covers up the outcome a fast worker has
\* already written (delay before commit, in one transaction).
OutcomeNotUndone ==
  [][\A t \in Tasks : row[t] \in Outcomes => row'[t] \in Outcomes]_vars

\* A queued task is given an outcome, or was lost in one of the ways the code
\* has: picked up before its row was committed, a session that broke, a pool
\* process that died.
QueuedSettles ==
  \A t \in Tasks : row[t] = "queued" ~> row[t] # "queued" \/ t \in early \cup lost

=============================================================================
