---------------------------- MODULE Checkpoints -----------------------------
(***************************************************************************)
(* Checkpoints of one task (core/checkpoint.py, DBCheckpointStore).  A     *)
(* process keeps the task's checkpoints in a list, and writes each to the  *)
(* checkpoints table inside the caller's transaction.  The runtime does    *)
(* not use the store: the caller here saves a checkpoint after each step,  *)
(* commits when it likes, and resumes as the module's comment says, from   *)
(* the table after a crash, from the list after a rollback.                *)
(***************************************************************************)
EXTENDS Integers, SequencesExt

CONSTANTS
  Processes,    (* the workers the task may be delivered to                  *)
  MaxStep,      (* bound: steps of the task                                  *)
  MaxList       (* bound: checkpoints in a process's list                    *)

ASSUME CheckpointAssumption == MaxStep \in Nat \ {0} /\ MaxList \in Nat

VARIABLES
  store,        (* _store[task_id] of each process: steps, as appended       *)
  saved,        (* checkpoints added in the open transaction: steps          *)
  records,      (* committed rows: their steps, in the order of commits       *)
  step,         (* the step the process has done, 0 when it does not run     *)
  overlapped,   (* two processes ran the task at once                        *)
  ahead         (* a process resumed from a checkpoint that was rolled back  *)

cvars == <<store, saved, records, step, overlapped, ahead>>

NotRunning == -1

CheckpointInit ==
  /\ store = [p \in Processes |-> <<>>] /\ saved = [p \in Processes |-> <<>>]
  /\ records = <<>> /\ step = [p \in Processes |-> NotRunning]
  /\ overlapped = FALSE /\ ahead = FALSE

-----------------------------------------------------------------------------
(* CheckpointStore.  GetLatest is 0 for None; keep_last is cut from the    *)
(* end with [-keep_last:], which for 0 is the whole list.                  *)

GetLatest(list) == IF list = <<>> THEN 0 ELSE Last(list)

Pruned(list, keepLast) ==
  IF Len(list) <= keepLast \/ keepLast = 0 THEN list
  ELSE SubSeq(list, Len(list) - keepLast + 1, Len(list))

\* The number that prune returns.
PrunedCount(list, keepLast) == IF Len(list) <= keepLast THEN 0 ELSE Len(list) - keepLast

-----------------------------------------------------------------------------
Steps == ToSet(records)

\* Mutant of LoadFromDb: the rows come in ascending order of step.
LoadOldest == IF Steps = {} THEN 0 ELSE CHOOSE s \in Steps : \A x \in Steps : s <= x

\* load_from_db: the committed checkpoint with the highest step, 0 for None.
LoadFromDb == IF Steps = {} THEN 0 ELSE CHOOSE s \in Steps : \A x \in Steps : x <= s

\* A process takes the task up from the table.
Resume(p) ==
  /\ step[p] = NotRunning /\ saved[p] = <<>>
  /\ step' = [step EXCEPT ![p] = LoadFromDb]
  /\ overlapped' = (overlapped \/ \E q \in Processes \ {p} : step[q] # NotRunning)
  /\ UNCHANGED <<store, saved, records, ahead>>

\* A step, and save_to_db: INSERT and flush, then the process's own list.
SaveToDb(p) ==
  /\ step[p] \in 0..MaxStep - 1 /\ Len(store[p]) < MaxList
  /\ step' = [step EXCEPT ![p] = @ + 1]
  /\ saved' = [saved EXCEPT ![p] = Append(@, step'[p])]
  /\ store' = [store EXCEPT ![p] = Append(@, step'[p])]
  /\ UNCHANGED <<records, overlapped, ahead>>

CommitSaved(p) ==
  /\ saved[p] # <<>> /\ saved' = [saved EXCEPT ![p] = <<>>]
  /\ records' = records \o saved[p]
  /\ UNCHANGED <<store, step, overlapped, ahead>>

\* The transaction is rolled back; the list keeps what was saved in it.  The
\* caller resumes from the list (get_latest) or from the table.
RollBack(p) ==
  /\ saved[p] # <<>> /\ saved' = [saved EXCEPT ![p] = <<>>]
  /\ \/ /\ step' = [step EXCEPT ![p] = GetLatest(store[p])]
        /\ ahead' = TRUE
     \/ /\ step' = [step EXCEPT ![p] = LoadFromDb]
        /\ UNCHANGED ahead
  /\ UNCHANGED <<store, records, overlapped>>

Crash(p) ==
  /\ step[p] # NotRunning
  /\ step' = [step EXCEPT ![p] = NotRunning]
  /\ saved' = [saved EXCEPT ![p] = <<>>] /\ store' = [store EXCEPT ![p] = <<>>]
  /\ UNCHANGED <<records, overlapped, ahead>>

Prune(p) ==
  /\ \E n \in 0..2 : store' = [store EXCEPT ![p] = Pruned(@, n)]
  /\ store' # store
  /\ UNCHANGED <<saved, records, step, overlapped, ahead>>

\* delete, when the task is over and its transaction committed: the table
\* keeps its rows.
DeleteAll(p) ==
  /\ step[p] = MaxStep /\ saved[p] = <<>>
  /\ store' = [store EXCEPT ![p] = <<>>] /\ step' = [step EXCEPT ![p] = NotRunning]
  /\ UNCHANGED <<saved, records, overlapped, ahead>>

CheckpointNext ==
  \E p \in Processes :
    \/ Resume(p) \/ SaveToDb(p) \/ CommitSaved(p) \/ RollBack(p)
    \/ Crash(p) \/ Prune(p) \/ DeleteAll(p)

-----------------------------------------------------------------------------
(* Properties.                                                             *)

\* As long as one process at a time runs the task and none goes on from a
\* checkpoint that was rolled back, the table holds every step once, in order
\* and without a gap, across crashes, rollbacks and pruned lists: what is
\* resumed from it is a step everything before which was committed.
TableWithoutGaps ==
  ~overlapped /\ ~ahead =>
    \A i \in DOMAIN records : records[i] = i
=============================================================================
