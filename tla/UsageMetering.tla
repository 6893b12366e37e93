--------------------------- MODULE UsageMetering ----------------------------
(***************************************************************************)
(* Usage records of one billing period (metering.py) and their push to     *)
(* Stripe (billing.py report_usage).  Nothing in the repository schedules  *)
(* either: jobs here aggregate all tenants, or push what is not billed,    *)
(* each in a transaction the caller commits.                               *)
(*                                                                         *)
(* The transactions are read committed, every await a point where others   *)
(* run.  No constraint makes the record of a tenant and period unique, and *)
(* usage is reported with action "increment" and no idempotency key.  A    *)
(* record is named by the job that inserted it and its tenant.             *)
(***************************************************************************)
EXTENDS Integers, FiniteSets

CONSTANTS
  Tenants,      (* active tenants                                            *)
  Metered,      (* those with a subscription that has the metered price      *)
  Jobs,
  Nothing,
  MaxTasks,     (* bound: tasks of a tenant in the period                    *)
  MaxStarts     (* bound: jobs started                                       *)

\* A pool of jobs is finite, and Nothing is none of the values it stands beside.
ASSUME MeteringAssumption ==
  /\ Metered \subseteq Tenants /\ MaxTasks \in Nat /\ MaxStarts \in Nat
  /\ IsFiniteSet(Jobs)
  /\ Nothing \notin Nat \cup Tenants \cup (Jobs \X Tenants) \cup [count : Nat, billed : BOOLEAN]

VARIABLES
  tasks,        (* committed tasks of a tenant                               *)
  record,       (* committed usage records: [count, billed], or Nothing  *)
  job,          (* where a job stands                                        *)
  reported,     (* what Stripe has been told of a tenant                     *)
  suspect,      (* tenants Stripe was told of by a push that did not commit, *)
                (* or whose record two pushes read at once                   *)
  crossing,     (* jobs during which another was under way                   *)
  starts

uvars == <<tasks, record, job, reported, suspect, crossing, starts>>

RecordIds == Jobs \X Tenants
RecordsOf(t) == {r \in Jobs \X {t} : record[r] # Nothing}
NoJob == [pc |-> "idle", todo |-> {}, tenant |-> Nothing, found |-> Nothing, count |-> 0,
          writes |-> [r \in RecordIds |-> Nothing],
          read |-> [r \in RecordIds |-> 0], took |-> {}]

UsageInit ==
  /\ tasks = [t \in Tenants |-> 0] /\ record = [r \in RecordIds |-> Nothing]
  /\ job = [j \in Jobs |-> NoJob] /\ reported = [t \in Tenants |-> 0]
  /\ suspect = {} /\ crossing = {} /\ starts = 0

\* A governed run is committed: its row and its audit entries together.
CompleteTask(t) ==
  /\ tasks[t] < MaxTasks /\ tasks' = [tasks EXCEPT ![t] = @ + 1]
  /\ UNCHANGED <<record, job, reported, suspect, crossing, starts>>

-----------------------------------------------------------------------------
Stands(j, pc) == job[j].pc = pc
Open(j) == job[j].pc # "idle"

Begin(j, new) ==
  /\ Stands(j, "idle") /\ starts < MaxStarts /\ starts' = starts + 1
  /\ job' = [job EXCEPT ![j] = new]
  /\ LET others == {o \in Jobs \ {j} : Open(o)}
     IN crossing' = IF others = {} THEN crossing ELSE others \cup {j}
  /\ UNCHANGED <<tasks, record, reported>>

InJob == UNCHANGED <<tasks, record, reported, suspect, crossing, starts>>

Close(j) == job' = [job EXCEPT ![j] = NoJob] /\ crossing' = crossing \ {j}

TenantsOf(rs) == {r[2] : r \in rs}

\* An exception leaves the job, or its process dies: it is rolled back.
AbandonJob(j) ==
  /\ Close(j)
  /\ suspect' = suspect \cup TenantsOf(job[j].took)
  /\ UNCHANGED <<tasks, record, reported, starts>>

-----------------------------------------------------------------------------
(* aggregate_all_tenants, tenant after tenant through create_usage_record. *)

StartAggregation(j) ==
  Begin(j, [NoJob EXCEPT !.pc = "next", !.todo = Tenants]) /\ UNCHANGED suspect

\* The record of the tenant and the period.
Existing(t) == RecordsOf(t)

\* The SELECT of the existing record: two of them, and it raises.
SelectRecord(j) ==
  /\ Stands(j, "next")
  /\ \E t \in job[j].todo :
       \/ /\ Cardinality(Existing(t)) <= 1
          /\ job' = [job EXCEPT ![j].pc = "tasks", ![j].tenant = t,
               ![j].todo = @ \ {t},
               ![j].found = IF Existing(t) = {} THEN Nothing
                            ELSE CHOOSE r \in Existing(t) : TRUE,
               ![j].read = [r \in RecordIds |->
                              IF r \in Existing(t) THEN record[r].count ELSE @[r]]]
          /\ InJob
       \/ Cardinality(Existing(t)) > 1 /\ AbandonJob(j)

\* Mutant of CountTasks: what Stripe has been told of is not counted again.
CountUnreported(j) ==
  /\ Stands(j, "tasks")
  /\ job' = [job EXCEPT ![j].pc = "store",
                        ![j].count = tasks[job[j].tenant] - reported[job[j].tenant]]
  /\ InJob

\* aggregate_tenant_usage, of which the number of tasks is what is billed.
CountTasks(j) ==
  /\ Stands(j, "tasks")
  /\ job' = [job EXCEPT ![j].pc = "store", ![j].count = tasks[job[j].tenant]]
  /\ InJob

\* An INSERT, or an UPDATE of the count when it is not what was read, once no
\* other job's UPDATE of the record is open; is_billed is a column of its own.
StoreRecord(j) ==
  /\ Stands(j, "store")
  /\ LET r == IF job[j].found = Nothing THEN <<j, job[j].tenant>> ELSE job[j].found
         writes == job[j].found = Nothing \/ job[j].count # job[j].read[r]
     IN /\ writes /\ record[r] # Nothing => \A o \in Jobs \ {j} : job[o].writes[r] = Nothing
        /\ job' = [job EXCEPT ![j].pc = "next", ![j].tenant = Nothing, ![j].found = Nothing,
                              ![j].count = 0,
                              ![j].writes = [x \in RecordIds |->
                                IF x = r /\ writes THEN job[j].count ELSE @[x]]]
  /\ InJob

CommitAggregation(j) ==
  /\ Stands(j, "next") /\ job[j].todo = {}
  /\ record' = [r \in RecordIds |->
       LET new == job[j].writes[r]
       IN IF new = Nothing THEN record[r]
          ELSE [count |-> new, billed |-> record[r] # Nothing /\ record[r].billed]]
  /\ Close(j)
  /\ UNCHANGED <<tasks, reported, suspect, starts>>

-----------------------------------------------------------------------------
(* push_usage_to_stripe.                                                   *)

\* Mutant of Unbilled: every record of the period is pushed.
AllRecords == {r \in RecordIds : record[r] # Nothing}

Unbilled == {r \in RecordIds : record[r] # Nothing /\ ~record[r].billed}

\* The SELECT of the unbilled records; a tenant without a subscription or
\* without the metered price is passed over.
StartPush(j) ==
  LET mine == {r \in Unbilled : r[2] \in Metered}
  IN /\ Begin(j, [NoJob EXCEPT !.pc = "push", !.todo = mine,
          !.read = [r \in RecordIds |-> IF r \in mine THEN record[r].count ELSE 0]])
     /\ suspect' = suspect \cup
          TenantsOf({r \in mine : \E o \in Jobs : r \in job[o].todo \cup job[o].took})

\* report_usage: Stripe adds the count as it was read; is_billed is set on
\* the object only.  The answer may not come back, and then the push raises.
ReportUsage(j) ==
  /\ Stands(j, "push")
  /\ \E r \in job[j].todo :
       /\ reported' = [reported EXCEPT ![r[2]] = @ + job[j].read[r]]
       /\ \/ /\ job' = [job EXCEPT ![j].todo = @ \ {r}, ![j].took = @ \cup {r}]
             /\ UNCHANGED <<suspect, crossing>>
          \/ /\ Close(j)
             /\ suspect' = suspect \cup TenantsOf(job[j].took \cup {r})
  /\ UNCHANGED <<tasks, record, starts>>

CommitPush(j) ==
  /\ Stands(j, "push") /\ job[j].todo = {}
  /\ record' = [r \in RecordIds |-> IF r \in job[j].took
                                    THEN [record[r] EXCEPT !.billed = TRUE] ELSE record[r]]
  /\ Close(j)
  /\ UNCHANGED <<tasks, reported, suspect, starts>>

Fail(j) == Open(j) /\ AbandonJob(j)

UsageNext ==
  \/ \E t \in Tenants : CompleteTask(t)
  \/ \E j \in Jobs : StartAggregation(j) \/ SelectRecord(j) \/ CountTasks(j)
       \/ StoreRecord(j) \/ CommitAggregation(j)
       \/ StartPush(j) \/ ReportUsage(j) \/ CommitPush(j) \/ Fail(j)
-----------------------------------------------------------------------------
(* Properties.                                                             *)

\* Stripe is never told of more tasks than a tenant ran, although every push
\* reports an increment: unless a push that Stripe had taken did not commit,
\* two pushes had read the same record, or two aggregations that crossed left
\* the tenant two records of the period.
NeverOverbilled ==
  \A t \in Tenants :
    reported[t] > tasks[t] => t \in suspect \/ Cardinality(RecordsOf(t)) > 1

\* Aggregating again never takes tasks off a record, unless another job was
\* under way in between: a job that counted earlier can commit later.
RecordsOnlyGrow ==
  [][\A r \in RecordIds :
       record[r] # Nothing /\ record'[r].count < record[r].count =>
         \E j \in crossing : Open(j) /\ job'[j] = NoJob]_uvars
=============================================================================
