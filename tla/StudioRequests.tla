--------------------------- MODULE StudioRequests ---------------------------
(***************************************************************************)
(* The requests of the Studio API (studio/router.py): workflows are        *)
(* created, updated, deleted, run, and given webhook tokens that run them. *)
(* Each request has a session of its own; its query and its commit are     *)
(* steps of their own, and other requests come in between.  No foreign     *)
(* key joins workflows, runs and tokens.                                   *)
(*                                                                         *)
(* A workflow, a token and a run are named by the request that inserted    *)
(* them, a definition by the request that sent it.  What becomes of a run  *)
(* is the module Workflow; requests that only read are left out.           *)
(***************************************************************************)
EXTENDS Integers, FiniteSets

CONSTANTS
  Served,       (* bound: requests, numbered as they come in                 *)
  Accounts,     (* tenants                                                   *)
  Owner         (* the tenant of the first workflow                          *)

ASSUME StudioAssumption == Served \in Nat /\ Owner \in Accounts

VARIABLES
  workflows,    (* committed rows: [tenant, definition, active], or NoRow    *)
  tokens,       (* committed tokens: [workflow, tenant], or NoRow            *)
  runs,         (* committed runs: [workflow, tenant, definition], or NoRow  *)
  request,      (* where a request stands: [pc, op, read]                    *)
  seen,         (* the rows its workflow had while a request was under way   *)
  lastAsked     (* of a workflow's column, the request that last committed   *)
                (* an update of it                                           *)

svars == <<workflows, tokens, runs, request, seen, lastAsked>>

Requests == 1..Served
Initial == 0        (* the workflow there is at first, and its definition *)
NoRow == [tenant |-> "none"]
WorkflowIds == Requests \cup {Initial}
Columns == {"definition", "active"}
NoOp == [kind |-> "none", tenant |-> Owner, target |-> Initial, asks |-> {}, active |-> TRUE]

StudioInit ==
  /\ workflows = [w \in WorkflowIds |-> IF w = Initial
       THEN [tenant |-> Owner, definition |-> Initial, active |-> TRUE] ELSE NoRow]
  /\ tokens = [q \in Requests |-> NoRow] /\ runs = [q \in Requests |-> NoRow]
  /\ request = [q \in Requests |-> [pc |-> "new", op |-> NoOp, read |-> NoRow]]
  /\ seen = [q \in Requests |-> {}]
  /\ lastAsked = [w \in WorkflowIds |-> [c \in Columns |-> Initial]]

Op(q) == request[q].op
In(q, pc) == request[q].pc = pc
UnderWay(q) == request[q].pc \notin {"new", "done"}
There(row) == row # NoRow

MoveTo(q, pc) == request' = [request EXCEPT ![q].pc = pc]
Reply(q) == MoveTo(q, "done")

\* Every request under way sees the new rows go by.
Committed(rows) ==
  /\ workflows' = rows
  /\ seen' = [q \in Requests |->
       IF UnderWay(q) THEN seen[q] \cup {rows[Op(q).target]} ELSE seen[q]]

-----------------------------------------------------------------------------
(* A request comes in, for a workflow that is there, of whichever tenant,  *)
(* or with a token, whose workflow may be gone.                            *)

\* An update asks for a new definition, for a value of is_active, or both.
Operations ==
  [kind : {"update"}, tenant : Accounts, target : WorkflowIds, asks : (SUBSET Columns) \ {{}},
   active : BOOLEAN]
    \cup [kind : {"create", "delete", "run", "webhook"}, tenant : Accounts, target : WorkflowIds,
          asks : {{}}, active : {TRUE}]

Listed(op) ==
  /\ IF op.kind = "create" THEN op.target = Initial ELSE There(workflows[op.target])
  /\ "active" \notin op.asks => op.active

IsNext(q) == In(q, "new") /\ \A p \in 1..q - 1 : ~In(p, "new")

Arrive(q) ==
  /\ IsNext(q)
  /\ \E op \in Operations :
       /\ Listed(op)
       /\ request' = [request EXCEPT ![q].op = op,
            ![q].pc = IF op.kind = "create" THEN "commit" ELSE "select"]
       /\ seen' = [seen EXCEPT ![q] = {workflows[op.target]}]
  /\ UNCHANGED <<workflows, tokens, runs, lastAsked>>

\* receive_webhook: the token is looked up; it names tenant and workflow.
ArriveByToken(q) ==
  /\ IsNext(q)
  /\ \E t \in Requests :
       /\ There(tokens[t])
       /\ request' = [request EXCEPT ![q].pc = "select",
            ![q].op = [NoOp EXCEPT !.kind = "received", !.tenant = tokens[t].tenant,
                                   !.target = tokens[t].workflow]]
       /\ seen' = [seen EXCEPT ![q] = {workflows[tokens[t].workflow]}]
  /\ UNCHANGED <<workflows, tokens, runs, lastAsked>>

-----------------------------------------------------------------------------
(* The handlers.                                                           *)

\* Mutant of Refused: a workflow that is switched off is found all the same.
RefusedUnknown(q, row) ==
  ~There(row) \/ (Op(q).kind # "received" /\ row.tenant # Op(q).tenant)

\* 404 for a workflow that is not there or another tenant's, which is not
\* asked of a token's; 409 for one that is to run and is not active.
Refused(q, row) ==
  \/ ~There(row)
  \/ Op(q).kind # "received" /\ row.tenant # Op(q).tenant
  \/ Op(q).kind \in {"run", "received"} /\ ~row.active

\* db.get(Workflow, workflow_id).
SelectWorkflow(q) ==
  /\ In(q, "select")
  /\ LET row == workflows[Op(q).target]
     IN IF Refused(q, row) THEN Reply(q)
        ELSE request' = [request EXCEPT ![q].pc = "commit", ![q].read = row]
  /\ UNCHANGED <<workflows, tokens, runs, seen, lastAsked>>

Committing(q, kind) == In(q, "commit") /\ Op(q).kind = kind

CreateWorkflow(q) ==
  /\ Committing(q, "create")
  /\ Committed([workflows EXCEPT ![q] =
       [tenant |-> Op(q).tenant, definition |-> q, active |-> TRUE]])
  /\ Reply(q)
  /\ UNCHANGED <<tokens, runs, lastAsked>>

Asked(q) == [definition |-> q, active |-> Op(q).active]

\* Mutant of Written: the UPDATE sets every column.
WrittenWhole(q) == Columns

\* The columns of the UPDATE: those set to another value than was read.
Written(q) == {c \in Op(q).asks : Asked(q)[c] # request[q].read[c]}

\* The UPDATE of a row that is gone raises.  What the refresh after the commit
\* reads goes into the answer only.
UpdateWorkflow(q) ==
  LET w == Op(q).target
      set == [c \in Columns |-> IF c \in Op(q).asks THEN Asked(q)[c] ELSE request[q].read[c]]
      new(c) == IF c \in Written(q) THEN set[c] ELSE workflows[w][c]
  IN /\ Committing(q, "update")
     /\ IF There(workflows[w])
        THEN /\ Committed([workflows EXCEPT ![w].definition = new("definition"),
                                            ![w].active = new("active")])
             /\ lastAsked' = [lastAsked EXCEPT ![w] =
                  [c \in Columns |-> IF c \in Op(q).asks THEN q ELSE @[c]]]
        ELSE UNCHANGED <<workflows, seen, lastAsked>>
     /\ Reply(q)
     /\ UNCHANGED <<tokens, runs>>

\* The DELETE of a row that is gone is only warned of.
DeleteWorkflow(q) ==
  /\ Committing(q, "delete")
  /\ Committed([workflows EXCEPT ![Op(q).target] = NoRow])
  /\ Reply(q)
  /\ UNCHANGED <<tokens, runs, lastAsked>>

CreateWebhook(q) ==
  /\ Committing(q, "webhook")
  /\ tokens' = [tokens EXCEPT ![q] = [tenant |-> Op(q).tenant, workflow |-> Op(q).target]]
  /\ Reply(q)
  /\ UNCHANGED <<workflows, runs, seen, lastAsked>>

\* trigger_workflow and receive_webhook: the run is inserted with the tenant
\* of the key or the token; the background task gets the definition as read.
TriggerWorkflow(q) ==
  /\ Committing(q, "run") \/ Committing(q, "received")
  /\ runs' = [runs EXCEPT ![q] = [workflow |-> Op(q).target, tenant |-> Op(q).tenant,
                                  definition |-> request[q].read.definition]]
  /\ Reply(q)
  /\ UNCHANGED <<workflows, tokens, seen, lastAsked>>

\* The process dies, or the database fails: nothing of the request is left.
LoseRequest(q) ==
  /\ UnderWay(q) /\ Reply(q)
  /\ UNCHANGED <<workflows, tokens, runs, seen, lastAsked>>

StudioNext ==
  \E q \in Requests :
    \/ Arrive(q) \/ ArriveByToken(q) \/ SelectWorkflow(q)
    \/ CreateWorkflow(q) \/ UpdateWorkflow(q) \/ DeleteWorkflow(q)
    \/ CreateWebhook(q) \/ TriggerWorkflow(q) \/ LoseRequest(q)

-----------------------------------------------------------------------------
(* Properties.                                                             *)

\* A run belongs to the tenant of its workflow, whoever asked for it, and
\* executes a definition the workflow had, while active, at some moment of
\* the request: no run follows a deactivation, a deletion or an edit that was
\* answered before the request came in, by a token that outlived it neither.
RunsFollowUpdates ==
  \A q \in Requests : There(runs[q]) =>
    [tenant |-> runs[q].tenant, definition |-> runs[q].definition, active |-> TRUE]
      \in seen[q]

\* Updates of different columns do not undo one another, and an update is
\* undone only by a later one of the column; unless it found the value it
\* asked for already there, for then it writes nothing, and what an earlier
\* reader of the row commits in between stands.
UpdatesKept ==
  \A w \in WorkflowIds, c \in Columns :
    LET q == lastAsked[w][c]
    IN There(workflows[w]) /\ q # Initial =>
         workflows[w][c] = Asked(q)[c] \/ request[q].read[c] = Asked(q)[c]
=============================================================================
