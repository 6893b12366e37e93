---------------------------- MODULE StudioProofs ----------------------------
(***************************************************************************)
(* What holds of the Studio for any number of requests, tenants, nodes and *)
(* edges.  Of the requests: a run follows a row its workflow had while the *)
(* request was under way, and updates do not undo one another.  Of the     *)
(* sort: it puts every node behind its predecessors, or there is a cycle.  *)
(* Of a run: its steps tell its outcome, and nodes run behind their        *)
(* predecessors and on the branches taken only.                            *)
(***************************************************************************)
EXTENDS Workflow, StudioRequests, OperatorLemmas, FiniteSetTheorems, SequenceTheorems, TLAPS

StudioSpec == StudioInit /\ [][StudioNext]_svars

-----------------------------------------------------------------------------
Rows == [tenant : Accounts, definition : WorkflowIds, active : BOOLEAN]
TokenRows == [workflow : WorkflowIds, tenant : Accounts]
RunRows == [workflow : WorkflowIds, tenant : Accounts, definition : WorkflowIds]
Kinds == {"none", "create", "update", "delete", "run", "webhook", "received"}
Ops == [kind : Kinds, tenant : Accounts, target : WorkflowIds,
        asks : SUBSET Columns, active : BOOLEAN]
RequestStates == [pc : {"new", "select", "commit", "done"}, op : Ops, read : Rows \cup {NoRow}]

\* The rows are rows of their tables, and each request is at one of its steps.
StudioTypeOK ==
  /\ workflows \in [WorkflowIds -> Rows \cup {NoRow}]
  /\ tokens \in [Requests -> TokenRows \cup {NoRow}]
  /\ runs \in [Requests -> RunRows \cup {NoRow}]
  /\ request \in [Requests -> RequestStates]
  /\ seen \in [Requests -> SUBSET (Rows \cup {NoRow})]
  /\ lastAsked \in [WorkflowIds -> [Columns -> WorkflowIds]]

\* A workflow that is there, or was, and the tenant it is made for.
Made(w) == w = Initial \/ In(w, "done")
Home(w) == IF w = Initial THEN Owner ELSE Op(w).tenant

\* What names a workflow names one that was made, and tokens keep its tenant.
RowsAtHome ==
  \A w \in WorkflowIds : There(workflows[w]) => Made(w) /\ workflows[w].tenant = Home(w)
TokensAtHome ==
  \A t \in Requests : There(tokens[t]) =>
    Made(tokens[t].workflow) /\ tokens[t].tenant = Home(tokens[t].workflow)
TargetsMade ==
  \A q \in Requests : ~In(q, "new") =>
    /\ Made(Op(q).target)
    /\ Op(q).kind = "received" => Op(q).tenant = Home(Op(q).target)

\* A request under way has seen what its workflow is now, and what it is
\* about to act on was let through and seen.
SeesPresent ==
  \A q \in Requests : UnderWay(q) => workflows[Op(q).target] \in seen[q]
ReadLetThrough ==
  \A q \in Requests : In(q, "commit") /\ Op(q).kind # "create" =>
    /\ request[q].read \in seen[q] /\ There(request[q].read)
    /\ request[q].read.tenant = Op(q).tenant /\ Op(q).tenant = Home(Op(q).target)
    /\ Op(q).kind \in {"run", "received"} => request[q].read.active

\* Only requests that are over have updated anything, and only what was made.
UpdatersDone ==
  \A w \in WorkflowIds, c \in Columns :
    lastAsked[w][c] # Initial => Made(w) /\ In(lastAsked[w][c], "done")

\* A request that has a run is over.
RunnersDone == \A q \in Requests : There(runs[q]) => In(q, "done")

StudioInv ==
  /\ StudioTypeOK
  /\ RowsAtHome /\ TokensAtHome /\ TargetsMade
  /\ SeesPresent /\ ReadLetThrough /\ UpdatersDone /\ RunnersDone
  /\ RunsFollowUpdates /\ UpdatesKept

\* Every row differs from the absent one, and is what its columns say.
LEMMA RowFacts ==
  ASSUME NEW row \in Rows
  PROVE  /\ row # NoRow
         /\ row = [tenant |-> row.tenant, definition |-> row.definition, active |-> row.active]
BY DEF Rows, NoRow

LEMMA Initially == StudioInit => StudioInv
<1> SUFFICES ASSUME StudioInit  PROVE StudioInv
  OBVIOUS
<1>1. Initial \in WorkflowIds /\ Requests \subseteq WorkflowIds /\ Initial \notin Requests
  BY StudioAssumption DEF WorkflowIds, Initial, Requests
<1>2. [tenant |-> Owner, definition |-> Initial, active |-> TRUE] \in Rows
  BY <1>1, StudioAssumption DEF Rows
<1>3. NoOp \in Ops
  BY <1>1, StudioAssumption DEF NoOp, Ops, Kinds
<1>4. StudioTypeOK
  <2>1. \A q \in Requests : request[q] \in RequestStates
    BY <1>3 DEF StudioInit, RequestStates
  <2> QED  BY <1>1, <1>2, <2>1 DEF StudioInit, StudioTypeOK
<1>5. RowsAtHome
  BY <1>1 DEF StudioInit, RowsAtHome, There, Made, Home
<1>6. TokensAtHome /\ TargetsMade /\ SeesPresent /\ ReadLetThrough
  BY DEF StudioInit, TokensAtHome, TargetsMade, SeesPresent, ReadLetThrough, There, In, UnderWay
<1>7. UpdatersDone /\ RunnersDone /\ RunsFollowUpdates /\ UpdatesKept
  BY DEF StudioInit, UpdatersDone, RunnersDone, RunsFollowUpdates, UpdatesKept, There
<1> QED
  BY <1>4, <1>5, <1>6, <1>7 DEF StudioInv

-----------------------------------------------------------------------------
(* What the end of a request does to the others: nothing.                  *)

LEMMA ReplyFacts ==
  ASSUME StudioTypeOK, NEW q \in Requests, UnderWay(q), Reply(q)
  PROVE  /\ request' \in [Requests -> RequestStates]
         /\ \A p \in Requests : Op(p)' = Op(p) /\ request'[p].read = request[p].read
         /\ \A p \in Requests : In(p, "done")' <=> p = q \/ In(p, "done")
         /\ \A p \in Requests : In(p, "commit")' <=> p # q /\ In(p, "commit")
         /\ \A p \in Requests : UnderWay(p)' <=> p # q /\ UnderWay(p)
         /\ \A p \in Requests : In(p, "new")' <=> In(p, "new")
<1>1. request \in [Requests -> RequestStates]
  BY DEF StudioTypeOK
<1>2. request' = [request EXCEPT ![q] = [request[q] EXCEPT !.pc = "done"]]
  BY <1>1 DEF Reply, MoveTo
<1>3. [request[q] EXCEPT !.pc = "done"] \in RequestStates
  BY <1>1 DEF RequestStates
<1>4. request' \in [Requests -> RequestStates]
  BY <1>1, <1>2, <1>3
<1>5. \A p \in Requests : p # q => request'[p] = request[p]
  BY <1>1, <1>2
<1>6. request'[q].pc = "done" /\ request'[q].op = request[q].op
        /\ request'[q].read = request[q].read
  BY <1>1, <1>2, <1>3 DEF RequestStates
<1> QED
  BY <1>4, <1>5, <1>6 DEF Op, In, UnderWay

\* What was made stays made, at the same home.
LEMMA HomeStays ==
  ASSUME StudioTypeOK, NEW q \in Requests, UnderWay(q), Reply(q)
  PROVE  \A w \in WorkflowIds : Made(w) => Made(w)' /\ Home(w)' = Home(w)
BY ReplyFacts DEF Made, Home, WorkflowIds

LEMMA TargetsStay ==
  ASSUME StudioInv, NEW q \in Requests, UnderWay(q), Reply(q)
  PROVE  TargetsMade'
<1>1. SUFFICES ASSUME NEW p \in Requests, ~In(p, "new")'
               PROVE  /\ Made(Op(p).target)'
                      /\ Op(p)'.kind = "received" => Op(p)'.tenant = Home(Op(p).target)'
  BY DEF TargetsMade
<1>2. StudioTypeOK /\ TargetsMade
  BY DEF StudioInv
<1>3. ~In(p, "new") /\ Op(p)' = Op(p)
  BY <1>1, <1>2, ReplyFacts
<1>4. Op(p).target \in WorkflowIds
  BY <1>2 DEF StudioTypeOK, RequestStates, Ops, Op
<1>5. Made(Op(p).target) /\ (Op(p).kind = "received" => Op(p).tenant = Home(Op(p).target))
  BY <1>2, <1>3 DEF TargetsMade
<1>6. Made(Op(p).target)' /\ Home(Op(p).target)' = Home(Op(p).target)
  <2> DEFINE w == Op(p).target
  <2>1. w' = w
    BY <1>3
  <2>2. w \in WorkflowIds /\ Made(w)
    BY <1>4, <1>5
  <2>3. Made(w)' /\ Home(w)' = Home(w)
    BY <1>2, <1>3, <2>2, ReplyFacts DEF Made, Home, WorkflowIds
  <2> QED  BY <2>1, <2>3
<1> QED
  BY <1>3, <1>5, <1>6

\* What a request under way is about to act on stays what it was let through
\* for, as long as no row is forgotten that was seen.
LEMMA ReadStays ==
  ASSUME StudioInv, NEW q \in Requests, UnderWay(q), Reply(q),
         \A p \in Requests : seen[p] \subseteq seen'[p]
  PROVE  ReadLetThrough'
<1>1. StudioTypeOK /\ ReadLetThrough /\ TargetsMade
  BY DEF StudioInv
<1>2. \A p \in Requests :
        /\ In(p, "commit")' => In(p, "commit")
        /\ Op(p)' = Op(p) /\ request'[p].read = request[p].read
  BY <1>1, ReplyFacts
<1>3. ASSUME NEW p \in Requests, In(p, "commit")  PROVE Home(Op(p).target)' = Home(Op(p).target)
  <2> DEFINE w == Op(p).target
  <2>1. w \in WorkflowIds /\ Made(w) /\ w' = w
    BY <1>1, <1>2, <1>3 DEF StudioTypeOK, RequestStates, Ops, Op, TargetsMade, In
  <2>2. Home(w)' = Home(w)
    BY <1>1, <1>2, <2>1 DEF Home, WorkflowIds
  <2> QED  BY <2>1, <2>2
<1> QED
  BY <1>1, <1>2, <1>3 DEF ReadLetThrough, There

LEMMA RunnersStay ==
  ASSUME StudioInv, NEW q \in Requests, UnderWay(q), Reply(q), UNCHANGED runs
  PROVE  RunnersDone'
<1>1. StudioTypeOK /\ RunnersDone
  BY DEF StudioInv
<1> QED
  BY <1>1, ReplyFacts DEF RunnersDone, There

\* As long as no workflow that was made is written, updates stay kept.
LEMMA UpdatesStay ==
  ASSUME StudioInv, NEW q \in Requests, UnderWay(q), Reply(q), UNCHANGED lastAsked,
         \A w \in WorkflowIds :
           Made(w) => workflows'[w] = workflows[w] \/ ~There(workflows'[w])
  PROVE  UpdatersDone' /\ UpdatesKept'
<1>1. StudioTypeOK /\ UpdatersDone /\ UpdatesKept
  BY DEF StudioInv
<1>2. \A w \in WorkflowIds, c \in Columns : lastAsked[w][c] # Initial =>
        lastAsked[w][c] \in Requests
  BY <1>1 DEF StudioTypeOK, WorkflowIds
<1>3. UpdatersDone'
  BY <1>1, <1>2, ReplyFacts DEF UpdatersDone, Made, WorkflowIds
<1>4. ASSUME NEW w \in WorkflowIds, NEW c \in Columns, NEW u \in Requests,
             There(workflows'[w]), u = lastAsked[w][c], u # Initial
      PROVE  workflows'[w][c] = Asked(u)'[c] \/ request'[u].read[c] = Asked(u)'[c]
  <2>1. workflows'[w] = workflows[w]
    BY <1>1, <1>4 DEF UpdatersDone
  <2>2. Asked(u)' = Asked(u) /\ request'[u].read = request[u].read
    BY <1>1, ReplyFacts DEF Asked
  <2> QED  BY <1>1, <1>4, <2>1, <2>2 DEF UpdatesKept
<1>5. UpdatesKept'
  BY <1>2, <1>4 DEF UpdatesKept
<1> QED
  BY <1>3, <1>5

-----------------------------------------------------------------------------
(* One lemma per step.                                                     *)

\* A request that ends without having changed anything: a refusal, a failure,
\* an update that finds its row gone.
LEMMA EndStep ==
  ASSUME StudioInv, NEW q \in Requests, UnderWay(q), Reply(q),
         UNCHANGED <<workflows, tokens, runs, seen, lastAsked>>
  PROVE  StudioInv'
<1>1. StudioTypeOK /\ RowsAtHome /\ TokensAtHome /\ SeesPresent /\ RunsFollowUpdates
  BY DEF StudioInv
<1>2. StudioTypeOK'
  BY <1>1, ReplyFacts DEF StudioTypeOK
<1>3. RowsAtHome'
  BY <1>1, HomeStays DEF RowsAtHome, There
<1>4. TokensAtHome'
  BY <1>1, HomeStays DEF TokensAtHome, There, StudioTypeOK, TokenRows
<1>5. SeesPresent'
  BY <1>1, ReplyFacts DEF SeesPresent
<1>6. RunsFollowUpdates'
  BY <1>1 DEF RunsFollowUpdates, There
<1>7. TargetsMade' /\ ReadLetThrough' /\ UpdatersDone' /\ RunnersDone' /\ UpdatesKept'
  BY TargetsStay, ReadStays, UpdatesStay, RunnersStay
<1> QED
  BY <1>2, <1>3, <1>4, <1>5, <1>6, <1>7 DEF StudioInv

\* What the new rows mean to the requests that see them go by.
LEMMA CommittedFacts ==
  ASSUME StudioInv, NEW q \in Requests, UnderWay(q), Reply(q),
         NEW new \in [WorkflowIds -> Rows \cup {NoRow}], Committed(new)
  PROVE  /\ seen' \in [Requests -> SUBSET (Rows \cup {NoRow})]
         /\ \A p \in Requests : seen[p] \subseteq seen'[p]
         /\ SeesPresent'
         /\ UNCHANGED runs => RunsFollowUpdates'
<1>1. StudioTypeOK /\ SeesPresent /\ RunsFollowUpdates
  BY DEF StudioInv
<1>2. \A p \in Requests : Op(p).target \in WorkflowIds
  BY <1>1 DEF StudioTypeOK, RequestStates, Ops, Op
<1>3. /\ seen' \in [Requests -> SUBSET (Rows \cup {NoRow})]
      /\ \A p \in Requests : seen[p] \subseteq seen'[p]
      /\ \A p \in Requests : UnderWay(p) => new[Op(p).target] \in seen'[p]
  BY <1>1, <1>2 DEF Committed, StudioTypeOK
<1>4. SeesPresent'
  BY <1>1, <1>3, ReplyFacts DEF SeesPresent, Committed
<1>5. UNCHANGED runs => RunsFollowUpdates'
  BY <1>1, <1>3 DEF RunsFollowUpdates, There
<1> QED
  BY <1>3, <1>4, <1>5

\* A handler that leaves each workflow as it is, deletes it, or makes it, and
\* leaves the rest alone.
LEMMA CommitStep ==
  ASSUME StudioInv, NEW q \in Requests, UnderWay(q), Reply(q),
         NEW new \in [WorkflowIds -> Rows \cup {NoRow}], Committed(new),
         \A w \in WorkflowIds :
           \/ new[w] = workflows[w] \/ ~There(new[w])
           \/ w = q /\ new[w].tenant = Op(q).tenant,
         UNCHANGED <<tokens, runs, lastAsked>>
  PROVE  StudioInv'
<1>1. StudioTypeOK /\ RowsAtHome /\ TokensAtHome
  BY DEF StudioInv
<1>2. StudioTypeOK'
  BY <1>1, ReplyFacts, CommittedFacts DEF StudioTypeOK, Committed
<1>3. RowsAtHome'
  <2>1. SUFFICES ASSUME NEW w \in WorkflowIds, There(new[w])
                 PROVE  Made(w)' /\ new[w].tenant = Home(w)'
    BY DEF RowsAtHome, Committed, There
  <2>2. CASE new[w] = workflows[w]
    BY <1>1, <2>1, <2>2, HomeStays DEF RowsAtHome
  <2>3. CASE w = q /\ new[w].tenant = Op(q).tenant
    BY <1>1, <2>3, ReplyFacts, StudioAssumption DEF Made, Home, Initial, Requests
  <2> QED  BY <2>1, <2>2, <2>3
<1>4. TokensAtHome'
  BY <1>1, HomeStays DEF TokensAtHome, There, StudioTypeOK, TokenRows
<1>5. SeesPresent' /\ RunsFollowUpdates'
  BY CommittedFacts
<1>6. TargetsMade' /\ ReadLetThrough' /\ RunnersDone'
  BY TargetsStay, ReadStays, RunnersStay, CommittedFacts
<1>7. UpdatersDone' /\ UpdatesKept'
  <2>1. \A w \in WorkflowIds : Made(w) => workflows'[w] = workflows[w] \/ ~There(workflows'[w])
    <3>1. ~Made(q)
      BY StudioAssumption DEF Made, UnderWay, In, Initial, Requests
    <3> QED  BY <3>1 DEF Committed, There
  <2> QED  BY <2>1, UpdatesStay
<1> QED
  BY <1>2, <1>3, <1>4, <1>5, <1>6, <1>7 DEF StudioInv

LEMMA CreateStep ==
  ASSUME StudioInv, NEW q \in Requests, CreateWorkflow(q)  PROVE StudioInv'
<1> DEFINE row == [tenant |-> Op(q).tenant, definition |-> q, active |-> TRUE]
           new == [workflows EXCEPT ![q] = row]
<1>1. StudioTypeOK
  BY DEF StudioInv
<1>2. row \in Rows
  BY <1>1 DEF StudioTypeOK, RequestStates, Ops, Op, Rows, WorkflowIds
<1>3. new \in [WorkflowIds -> Rows \cup {NoRow}]
  BY <1>1, <1>2 DEF StudioTypeOK
<1>4. UnderWay(q) /\ Reply(q) /\ Committed(new) /\ UNCHANGED <<tokens, runs, lastAsked>>
  BY DEF CreateWorkflow, Committing, UnderWay, In
<1>5. \A w \in WorkflowIds : new[w] = workflows[w] \/ (w = q /\ new[w].tenant = Op(q).tenant)
  BY <1>1 DEF StudioTypeOK
<1> HIDE DEF new
<1> QED
  BY <1>3, <1>4, <1>5, CommitStep

LEMMA DeleteStep ==
  ASSUME StudioInv, NEW q \in Requests, DeleteWorkflow(q)  PROVE StudioInv'
<1> DEFINE new == [workflows EXCEPT ![Op(q).target] = NoRow]
<1>1. StudioTypeOK
  BY DEF StudioInv
<1>2. new \in [WorkflowIds -> Rows \cup {NoRow}]
  BY <1>1 DEF StudioTypeOK
<1>3. UnderWay(q) /\ Reply(q) /\ Committed(new) /\ UNCHANGED <<tokens, runs, lastAsked>>
  BY DEF DeleteWorkflow, Committing, UnderWay, In
<1>4. \A w \in WorkflowIds : new[w] = workflows[w] \/ ~There(new[w])
  BY <1>1 DEF StudioTypeOK, There
<1> HIDE DEF new
<1> QED
  BY <1>2, <1>3, <1>4, CommitStep

LEMMA RowUpdated ==
  ASSUME NEW row \in Rows, NEW d \in WorkflowIds, NEW a \in BOOLEAN
  PROVE  [row EXCEPT !.definition = d, !.active = a]
           = [tenant |-> row.tenant, definition |-> d, active |-> a]
<1> DEFINE left == [row EXCEPT !.definition = d, !.active = a]
           right == [tenant |-> row.tenant, definition |-> d, active |-> a]
<1>1. left \in Rows /\ right \in Rows
  BY DEF Rows
<1>2. left.tenant = right.tenant /\ left.definition = right.definition
        /\ left.active = right.active
  BY DEF Rows
<1> HIDE DEF left, right
<1>3. left = right
  BY <1>1, <1>2, RowFacts
<1> QED  BY <1>3 DEF left, right

LEMMA UpdateStep ==
  ASSUME StudioInv, NEW q \in Requests, UpdateWorkflow(q)  PROVE StudioInv'
<1> DEFINE w == Op(q).target
           set == [c \in Columns |-> IF c \in Op(q).asks THEN Asked(q)[c] ELSE request[q].read[c]]
           new(c) == IF c \in Written(q) THEN set[c] ELSE workflows[w][c]
           rows == [workflows EXCEPT ![w].definition = new("definition"),
                                     ![w].active = new("active")]
<1>1. /\ StudioTypeOK /\ RowsAtHome /\ TokensAtHome /\ SeesPresent /\ ReadLetThrough
      /\ UpdatersDone /\ UpdatesKept
  BY DEF StudioInv
<1>2. UnderWay(q) /\ Reply(q) /\ UNCHANGED <<tokens, runs>>
  BY DEF UpdateWorkflow, Committing, UnderWay, In
<1>3. CASE ~There(workflows[w])
  BY <1>2, <1>3, EndStep DEF UpdateWorkflow
<1>4. CASE There(workflows[w])
  <2>1. /\ Committed(rows)
        /\ lastAsked' = [lastAsked EXCEPT ![w] =
             [c \in Columns |-> IF c \in Op(q).asks THEN q ELSE lastAsked[w][c]]]
    BY <1>4 DEF UpdateWorkflow
  <2>2. /\ w \in WorkflowIds /\ Op(q).asks \subseteq Columns /\ q \in WorkflowIds
        /\ workflows[w] \in Rows /\ Op(q).active \in BOOLEAN
    BY <1>1, <1>4 DEF StudioTypeOK, RequestStates, Ops, Op, WorkflowIds, There
  <2>3. Asked(q).definition \in WorkflowIds /\ Asked(q).active \in BOOLEAN
    BY <2>2 DEF Asked
  <2>4. \A c \in Columns :
          /\ c \in Written(q) => c \in Op(q).asks /\ new(c) = Asked(q)[c]
          /\ c \notin Written(q) => new(c) = workflows[w][c]
    BY DEF Written
  <2>5. new("definition") \in WorkflowIds /\ new("active") \in BOOLEAN
    BY <2>2, <2>3, <2>4 DEF Columns, Rows
  <2> HIDE DEF new
  <2>6. /\ rows \in [WorkflowIds -> Rows \cup {NoRow}]
        /\ \A v \in WorkflowIds \ {w} : rows[v] = workflows[v]
        /\ rows[w].tenant = workflows[w].tenant
        /\ \A c \in Columns : rows[w][c] = new(c)
    <3>1. rows = [workflows EXCEPT ![w] = [workflows[w] EXCEPT
                    !.definition = new("definition"), !.active = new("active")]]
      BY <1>1, <2>2 DEF StudioTypeOK
    <3>2. [workflows[w] EXCEPT !.definition = new("definition"), !.active = new("active")]
            = [tenant |-> workflows[w].tenant, definition |-> new("definition"),
               active |-> new("active")]
      BY <2>2, <2>5, RowUpdated
    <3>3. [tenant |-> workflows[w].tenant, definition |-> new("definition"),
           active |-> new("active")] \in Rows
      BY <2>2, <2>5 DEF Rows
    <3> QED  BY <1>1, <2>2, <3>1, <3>2, <3>3 DEF StudioTypeOK, Columns
  <2> HIDE DEF rows
  <2>7. /\ lastAsked' \in [WorkflowIds -> [Columns -> WorkflowIds]]
        /\ \A v \in WorkflowIds \ {w} : lastAsked'[v] = lastAsked[v]
        /\ \A c \in Columns :
             lastAsked'[w][c] = IF c \in Op(q).asks THEN q ELSE lastAsked[w][c]
    BY <1>1, <2>1, <2>2 DEF StudioTypeOK
  <2>8. StudioTypeOK'
    BY <1>1, <1>2, <2>1, <2>6, <2>7, ReplyFacts, CommittedFacts DEF StudioTypeOK, Committed
  <2>9. RowsAtHome'
    BY <1>1, <1>2, <1>4, <2>1, <2>2, <2>6, HomeStays DEF RowsAtHome, Committed, There
  <2>10. TokensAtHome'
    BY <1>1, <1>2, HomeStays DEF TokensAtHome, There, StudioTypeOK, TokenRows
  <2>11. SeesPresent' /\ RunsFollowUpdates' /\ TargetsMade' /\ ReadLetThrough' /\ RunnersDone'
    BY <1>2, <2>1, <2>6, TargetsStay, ReadStays, RunnersStay, CommittedFacts
  <2>12. UpdatersDone'
    <3>1. Made(w)
      BY <1>1, <1>4, <2>2 DEF RowsAtHome
    <3>2. \A v \in WorkflowIds : Made(v) => Made(v)'
      BY <1>1, <1>2, HomeStays
    <3>3. \A u \in Requests : In(u, "done") \/ u = q => In(u, "done")'
      BY <1>1, <1>2, ReplyFacts
    <3>4. \A v \in WorkflowIds, c \in Columns :
            lastAsked'[v][c] = lastAsked[v][c] \/ (v = w /\ lastAsked'[v][c] = q)
      BY <2>7
    <3>5. \A v \in WorkflowIds, c \in Columns : lastAsked[v][c] # Initial =>
            lastAsked[v][c] \in Requests
      BY <1>1 DEF StudioTypeOK, WorkflowIds
    <3> QED  BY <1>1, <3>1, <3>2, <3>3, <3>4, <3>5 DEF UpdatersDone
  <2>13. UpdatesKept'
    <3>1. SUFFICES ASSUME NEW v \in WorkflowIds, NEW c \in Columns, NEW u \in Requests,
                          u = lastAsked'[v][c], There(rows[v])
                   PROVE  rows[v][c] = Asked(u)[c] \/ request[u].read[c] = Asked(u)[c]
      <4>1. \A u \in Requests : Asked(u)' = Asked(u) /\ request'[u].read = request[u].read
        BY <1>1, <1>2, ReplyFacts DEF Asked
      <4>2. \A v \in WorkflowIds, c \in Columns : lastAsked'[v][c] # Initial =>
              lastAsked'[v][c] \in Requests
        BY <2>7 DEF WorkflowIds
      <4>3. workflows' = rows
        BY <2>1 DEF Committed
      <4> QED  BY <4>1, <4>2, <4>3 DEF UpdatesKept, There
    <3>2. u # Initial
      BY StudioAssumption DEF Requests, Initial
    <3>3. CASE v # w
      <4>1. rows[v] = workflows[v]
        BY <2>6, <3>3
      <4>2. u = lastAsked[v][c]
        BY <2>7, <3>1, <3>3
      <4> QED  BY <1>1, <3>1, <3>2, <4>1, <4>2 DEF UpdatesKept
    <3>4. CASE v = w /\ c \notin Op(q).asks
      <4>1. rows[w][c] = workflows[w][c]
        BY <2>4, <2>6, <3>4
      <4>2. u = lastAsked[w][c]
        BY <2>7, <3>1, <3>4
      <4> QED  BY <1>1, <1>4, <3>2, <3>4, <4>1, <4>2 DEF UpdatesKept
    <3>5. CASE v = w /\ c \in Op(q).asks
      <4>1. u = q
        BY <2>7, <3>1, <3>5
      <4>2. CASE c \in Written(q)
        BY <2>4, <2>6, <3>5, <4>1, <4>2
      <4>3. CASE c \notin Written(q)
        BY <3>5, <4>1, <4>3 DEF Written
      <4> QED  BY <4>2, <4>3
    <3> QED  BY <3>3, <3>4, <3>5
  <2> QED
    BY <2>8, <2>9, <2>10, <2>11, <2>12, <2>13 DEF StudioInv
<1> QED
  BY <1>3, <1>4

LEMMA WebhookStep ==
  ASSUME StudioInv, NEW q \in Requests, CreateWebhook(q)  PROVE StudioInv'
<1> DEFINE token == [tenant |-> Op(q).tenant, workflow |-> Op(q).target]
<1>1. /\ StudioTypeOK /\ RowsAtHome /\ TokensAtHome /\ TargetsMade /\ SeesPresent
      /\ ReadLetThrough /\ RunsFollowUpdates
  BY DEF StudioInv
<1>2. /\ UnderWay(q) /\ Reply(q) /\ UNCHANGED <<workflows, runs, seen, lastAsked>>
      /\ In(q, "commit") /\ Op(q).kind = "webhook" /\ tokens' = [tokens EXCEPT ![q] = token]
  BY DEF CreateWebhook, Committing, UnderWay, In
<1>3. token \in TokenRows
  BY <1>1 DEF StudioTypeOK, RequestStates, Ops, Op, TokenRows
<1>4. Made(token.workflow) /\ token.tenant = Home(token.workflow)
  BY <1>1, <1>2 DEF TargetsMade, ReadLetThrough, In
<1> HIDE DEF token
<1>5. StudioTypeOK'
  BY <1>1, <1>2, <1>3, ReplyFacts DEF StudioTypeOK
<1>6. RowsAtHome'
  BY <1>1, <1>2, HomeStays DEF RowsAtHome, There
<1>7. TokensAtHome'
  <2>1. SUFFICES ASSUME NEW t \in Requests, There(tokens'[t])
                 PROVE  Made(tokens[t].workflow)' /\ tokens'[t].tenant = Home(tokens[t].workflow)'
    BY DEF TokensAtHome, There
  <2>2. PICK row \in TokenRows : row = tokens'[t]
    BY <1>5, <2>1 DEF StudioTypeOK, There
  <2>3. row.workflow \in WorkflowIds
    BY <2>2 DEF TokenRows
  <2>4. Made(row.workflow) /\ row.tenant = Home(row.workflow)
    <3>1. row = token \/ row = tokens[t]
      BY <1>1, <1>2, <2>2 DEF StudioTypeOK
    <3> QED  BY <1>1, <1>4, <2>1, <2>2, <3>1 DEF TokensAtHome, There
  <2>5. \A w \in WorkflowIds : Made(w) => Made(w)' /\ Home(w)' = Home(w)
    BY <1>1, <1>2, HomeStays
  <2> DEFINE w == row.workflow
  <2>6. Made(w)' /\ Home(w)' = Home(w)
    BY <2>3, <2>4, <2>5
  <2> QED  BY <2>2, <2>4, <2>6 DEF Made, Home, Op, In
<1>8. SeesPresent' /\ RunsFollowUpdates'
  BY <1>1, <1>2, ReplyFacts DEF SeesPresent, RunsFollowUpdates, There
<1>9. TargetsMade' /\ ReadLetThrough' /\ UpdatersDone' /\ RunnersDone' /\ UpdatesKept'
  BY <1>2, TargetsStay, ReadStays, UpdatesStay, RunnersStay
<1> QED
  BY <1>5, <1>6, <1>7, <1>8, <1>9 DEF StudioInv

LEMMA TriggerStep ==
  ASSUME StudioInv, NEW q \in Requests, TriggerWorkflow(q)  PROVE StudioInv'
<1> DEFINE it == [workflow |-> Op(q).target, tenant |-> Op(q).tenant,
                   definition |-> request[q].read.definition]
<1>1. /\ StudioTypeOK /\ RowsAtHome /\ TokensAtHome /\ SeesPresent
      /\ ReadLetThrough /\ RunnersDone /\ RunsFollowUpdates
  BY DEF StudioInv
<1>2. /\ UnderWay(q) /\ Reply(q) /\ UNCHANGED <<workflows, tokens, seen, lastAsked>>
      /\ In(q, "commit") /\ Op(q).kind \in {"run", "received"}
      /\ runs' = [runs EXCEPT ![q] = it]
  BY DEF TriggerWorkflow, Committing, UnderWay, In
<1>3. PICK row \in Rows : row = request[q].read
  BY <1>1, <1>2 DEF StudioTypeOK, RequestStates, ReadLetThrough, There
<1>4. row \in seen[q] /\ row.tenant = Op(q).tenant /\ row.active
  BY <1>1, <1>2, <1>3 DEF ReadLetThrough
<1>5. it \in RunRows
  BY <1>1, <1>3 DEF StudioTypeOK, RequestStates, Ops, Op, RunRows, Rows
<1>6. [tenant |-> it.tenant, definition |-> it.definition, active |-> TRUE] \in seen[q]
  <2>1. row.active = TRUE
    BY <1>4 DEF Rows
  <2>2. row = [tenant |-> it.tenant, definition |-> it.definition, active |-> TRUE]
    BY <1>3, <1>4, <2>1, RowFacts
  <2> QED  BY <1>4, <2>2
<1> HIDE DEF it
<1>7. StudioTypeOK'
  BY <1>1, <1>2, <1>5, ReplyFacts DEF StudioTypeOK
<1>8. RowsAtHome' /\ TokensAtHome'
  BY <1>1, <1>2, HomeStays DEF RowsAtHome, TokensAtHome, There, StudioTypeOK, TokenRows
<1>9. RunsFollowUpdates' /\ RunnersDone'
  <2>1. \A p \in Requests : runs'[p] = IF p = q THEN it ELSE runs[p]
    BY <1>1, <1>2 DEF StudioTypeOK
  <2> QED  BY <1>1, <1>2, <1>6, <2>1, ReplyFacts DEF RunsFollowUpdates, RunnersDone, There
<1>10. SeesPresent'
  BY <1>1, <1>2, ReplyFacts DEF SeesPresent
<1>11. TargetsMade' /\ ReadLetThrough' /\ UpdatersDone' /\ UpdatesKept'
  BY <1>2, TargetsStay, ReadStays, UpdatesStay
<1> QED
  BY <1>7, <1>8, <1>9, <1>10, <1>11 DEF StudioInv

\* Selecting moves a request on with the row it was let through for.
LEMMA SelectStep ==
  ASSUME StudioInv, NEW q \in Requests, SelectWorkflow(q)  PROVE StudioInv'
<1> DEFINE row == workflows[Op(q).target]
<1>1. /\ StudioTypeOK /\ RowsAtHome /\ TokensAtHome /\ TargetsMade /\ SeesPresent
      /\ ReadLetThrough /\ UpdatersDone /\ RunnersDone /\ RunsFollowUpdates /\ UpdatesKept
  BY DEF StudioInv
<1>2. /\ UnderWay(q) /\ In(q, "select")
      /\ UNCHANGED <<workflows, tokens, runs, seen, lastAsked>>
  BY DEF SelectWorkflow, UnderWay, In
<1>3. CASE Refused(q, row)
  BY <1>2, <1>3, EndStep DEF SelectWorkflow
<1>4. CASE ~Refused(q, row)
  <2>1. request' = [request EXCEPT ![q] = [request[q] EXCEPT !.pc = "commit", !.read = row]]
    BY <1>1, <1>4 DEF SelectWorkflow, StudioTypeOK
  <2>2. Op(q).target \in WorkflowIds /\ row \in Rows
    BY <1>1, <1>4 DEF StudioTypeOK, RequestStates, Ops, Op, Refused, There
  <2>3. [request[q] EXCEPT !.pc = "commit", !.read = row] \in RequestStates
    BY <1>1, <2>2 DEF StudioTypeOK, RequestStates
  <2>4. /\ request' \in [Requests -> RequestStates]
        /\ \A p \in Requests : p # q => request'[p] = request[p]
        /\ request'[q].pc = "commit" /\ request'[q].read = row /\ Op(q)' = Op(q)
    BY <1>1, <2>1, <2>3 DEF StudioTypeOK, RequestStates, Op
  <2>5. \A p \in Requests :
          /\ Op(p)' = Op(p) /\ (In(p, "done")' <=> In(p, "done"))
          /\ (In(p, "new")' <=> In(p, "new")) /\ (UnderWay(p)' <=> UnderWay(p))
          /\ In(p, "commit")' => p = q \/ (In(p, "commit") /\ request'[p] = request[p])
    BY <1>2, <2>4 DEF Op, In, UnderWay
  <2>6. \A w \in WorkflowIds : (Made(w)' <=> Made(w)) /\ Home(w)' = Home(w)
    BY <2>5 DEF Made, Home, WorkflowIds
  <2>7. \A p \in Requests : Op(p).target \in WorkflowIds
    BY <1>1 DEF StudioTypeOK, RequestStates, Ops, Op
  <2>8. \A p \in Requests :
          /\ Made(Op(p).target)' <=> Made(Op(p).target)
          /\ Home(Op(p).target)' = Home(Op(p).target)
    <3>1. SUFFICES ASSUME NEW p \in Requests
                   PROVE  /\ Made(Op(p).target)' <=> Made(Op(p).target)
                          /\ Home(Op(p).target)' = Home(Op(p).target)
      OBVIOUS
    <3> DEFINE w == Op(p).target
    <3>2. w \in WorkflowIds /\ w' = w
      BY <2>5, <2>7
    <3>3. (Made(w)' <=> Made(w)) /\ Home(w)' = Home(w)
      BY <2>5, <3>2 DEF Made, Home, WorkflowIds
    <3> QED  BY <3>3
  <2>9. StudioTypeOK' /\ RowsAtHome' /\ TokensAtHome'
    BY <1>1, <1>2, <2>4, <2>6 DEF StudioTypeOK, RowsAtHome, TokensAtHome, There, TokenRows
  <2>10. TargetsMade' /\ SeesPresent'
    BY <1>1, <1>2, <2>5, <2>8 DEF TargetsMade, SeesPresent
  <2>11. ReadLetThrough'
    <3>1. There(row) /\ row.tenant = Home(Op(q).target) /\ row \in seen[q]
      BY <1>1, <1>2, <1>4, <2>2 DEF Refused, RowsAtHome, SeesPresent
    <3>2. Op(q).tenant = Home(Op(q).target) /\ (Op(q).kind \in {"run", "received"} => row.active)
      BY <1>1, <1>2, <1>4, <3>1 DEF Refused, TargetsMade, In
    <3> QED  BY <1>1, <1>2, <2>4, <2>5, <2>8, <3>1, <3>2 DEF ReadLetThrough, There
  <2>12. UpdatersDone' /\ UpdatesKept'
    <3>1. \A w \in WorkflowIds, c \in Columns : lastAsked[w][c] # Initial =>
            /\ lastAsked[w][c] \in Requests
            /\ In(lastAsked[w][c], "done") /\ Made(w)
      BY <1>1 DEF StudioTypeOK, WorkflowIds, UpdatersDone
    <3>2. \A u \in Requests : In(u, "done") => u # q /\ request'[u] = request[u]
      BY <1>2, <2>4 DEF In
    <3>3. UpdatersDone'
      BY <1>2, <2>5, <2>6, <3>1 DEF UpdatersDone
    <3>4. UpdatesKept'
      BY <1>1, <1>2, <3>1, <3>2 DEF UpdatesKept, There, Asked, Op
    <3> QED  BY <3>3, <3>4
  <2>13. RunsFollowUpdates' /\ RunnersDone'
    BY <1>1, <1>2, <2>5 DEF RunsFollowUpdates, RunnersDone, There
  <2> QED
    BY <2>9, <2>10, <2>11, <2>12, <2>13 DEF StudioInv
<1> QED
  BY <1>3, <1>4

\* A request that comes in is for a workflow that was made; one with a token
\* is its tenant's.
LEMMA ArrivalStep ==
  ASSUME StudioInv, NEW q \in Requests, In(q, "new"), NEW op \in Ops,
         NEW stands \in {"select", "commit"},
         request' = [request EXCEPT ![q].op = op, ![q].pc = stands],
         seen' = [seen EXCEPT ![q] = {workflows[op.target]}],
         UNCHANGED <<workflows, tokens, runs, lastAsked>>,
         Made(op.target), op.kind = "received" => op.tenant = Home(op.target),
         stands = "commit" => op.kind = "create"
  PROVE  StudioInv'
<1>1. /\ StudioTypeOK /\ RowsAtHome /\ TokensAtHome /\ TargetsMade /\ SeesPresent
      /\ ReadLetThrough /\ UpdatersDone /\ RunnersDone /\ RunsFollowUpdates /\ UpdatesKept
  BY DEF StudioInv
<1>2. op.target \in WorkflowIds /\ op.target # q
  BY StudioAssumption DEF Ops, Made, In, Requests, Initial
<1>3. request' = [request EXCEPT ![q] = [request[q] EXCEPT !.op = op, !.pc = stands]]
  BY <1>1 DEF StudioTypeOK
<1>4. [request[q] EXCEPT !.op = op, !.pc = stands] \in RequestStates
  BY <1>1 DEF StudioTypeOK, RequestStates
<1>5. /\ request' \in [Requests -> RequestStates]
      /\ \A p \in Requests : p # q => request'[p] = request[p]
      /\ request'[q].pc = stands /\ Op(q)' = op
  BY <1>1, <1>3, <1>4 DEF StudioTypeOK, RequestStates, Op
<1>6. /\ seen' \in [Requests -> SUBSET (Rows \cup {NoRow})]
      /\ \A p \in Requests : p # q => seen'[p] = seen[p]
      /\ seen'[q] = {workflows[op.target]}
  BY <1>1, <1>2 DEF StudioTypeOK
<1>7. \A w \in WorkflowIds : Made(w) => Made(w)' /\ Home(w)' = Home(w)
  BY <1>5 DEF Made, Home, In, Op, WorkflowIds
<1>8. StudioTypeOK' /\ RowsAtHome' /\ TokensAtHome'
  BY <1>1, <1>5, <1>6, <1>7 DEF StudioTypeOK, RowsAtHome, TokensAtHome, There, TokenRows
<1>9. TargetsMade'
  <2>1. SUFFICES ASSUME NEW p \in Requests, ~In(p, "new")'
                 PROVE  /\ Made(Op(p).target)'
                        /\ Op(p)'.kind = "received" => Op(p)'.tenant = Home(Op(p).target)'
    BY DEF TargetsMade
  <2>2. PICK o \in Ops : /\ o = Op(p)' /\ o.target \in WorkflowIds
                         /\ Made(o.target) /\ (o.kind = "received" => o.tenant = Home(o.target))
    <3>1. CASE p = q
      BY <1>2, <1>5, <3>1
    <3>2. CASE p # q
      <4>1. Op(p)' = Op(p) /\ ~In(p, "new")
        BY <1>5, <2>1, <3>2 DEF Op, In
      <4>2. Op(p) \in Ops /\ Op(p).target \in WorkflowIds
        BY <1>1 DEF StudioTypeOK, RequestStates, Ops, Op
      <4> QED  BY <1>1, <4>1, <4>2 DEF TargetsMade
    <3> QED  BY <3>1, <3>2
  <2> DEFINE w == o.target
  <2>3. Made(w)' /\ Home(w)' = Home(w)
    BY <1>7, <2>2
  <2> QED  BY <2>2, <2>3 DEF Made, Home, Op, In
<1>10. SeesPresent'
  BY <1>1, <1>5, <1>6 DEF SeesPresent, UnderWay, Op
<1>11. ReadLetThrough'
  <2>1. SUFFICES ASSUME NEW p \in Requests, In(p, "commit")', Op(p)'.kind # "create"
                 PROVE  /\ request'[p].read \in seen'[p] /\ There(request'[p].read)
                        /\ request'[p].read.tenant = Op(p)'.tenant
                        /\ Op(p)'.tenant = Home(Op(p).target)'
                        /\ Op(p)'.kind \in {"run", "received"} => request'[p].read.active
    BY DEF ReadLetThrough, There
  <2>2. p # q /\ request'[p] = request[p] /\ seen'[p] = seen[p] /\ Op(p)' = Op(p)
    BY <1>5, <1>6, <2>1 DEF In, Op
  <2>3. In(p, "commit") /\ ~In(p, "new")
    BY <2>1, <2>2 DEF In
  <2> DEFINE w == Op(p).target
  <2>4. w \in WorkflowIds /\ Made(w) /\ w' = w
    BY <1>1, <2>2, <2>3 DEF StudioTypeOK, RequestStates, Ops, Op, TargetsMade
  <2>5. Home(w)' = Home(w)
    BY <1>5, <2>4 DEF Made, Home, In, Op, WorkflowIds
  <2> QED  BY <1>1, <2>1, <2>2, <2>3, <2>5 DEF ReadLetThrough
<1>12. UpdatersDone' /\ UpdatesKept'
  <2>1. \A w \in WorkflowIds, c \in Columns : lastAsked[w][c] # Initial =>
          lastAsked[w][c] \in Requests /\ In(lastAsked[w][c], "done") /\ Made(w)
    BY <1>1 DEF StudioTypeOK, WorkflowIds, UpdatersDone
  <2>2. \A u \in Requests : In(u, "done") => request'[u] = request[u] /\ In(u, "done")'
    BY <1>5 DEF In
  <2>3. UpdatersDone'
    BY <1>7, <2>1, <2>2 DEF UpdatersDone
  <2>4. UpdatesKept'
    <3>1. ASSUME NEW w \in WorkflowIds, NEW c \in Columns, NEW u \in Requests,
                 There(workflows[w]), u = lastAsked[w][c], u # Initial
          PROVE  workflows[w][c] = Asked(u)'[c] \/ request'[u].read[c] = Asked(u)'[c]
      <4>1. Asked(u)' = Asked(u) /\ request'[u].read = request[u].read
        BY <2>1, <2>2, <3>1 DEF Asked, Op
      <4> QED  BY <1>1, <3>1, <4>1 DEF UpdatesKept
    <3> QED  BY <2>1, <3>1 DEF UpdatesKept, There
  <2> QED  BY <2>3, <2>4
<1>13. RunnersDone' /\ RunsFollowUpdates'
  <2>1. \A p \in Requests : There(runs[p]) => p # q /\ In(p, "done")'
    BY <1>1, <1>5 DEF RunnersDone, In
  <2> QED  BY <1>1, <1>6, <2>1 DEF RunnersDone, RunsFollowUpdates, There
<1> QED
  BY <1>8, <1>9, <1>10, <1>11, <1>12, <1>13 DEF StudioInv

LEMMA ArriveStep ==
  ASSUME StudioInv, NEW q \in Requests, Arrive(q)  PROVE StudioInv'
<1>1. PICK op \in Operations :
        /\ Listed(op)
        /\ request' = [request EXCEPT ![q].op = op,
             ![q].pc = IF op.kind = "create" THEN "commit" ELSE "select"]
        /\ seen' = [seen EXCEPT ![q] = {workflows[op.target]}]
  BY DEF Arrive
<1>2. In(q, "new") /\ UNCHANGED <<workflows, tokens, runs, lastAsked>>
  BY DEF Arrive, IsNext
<1>3. op \in Ops /\ op.kind # "received"
  BY <1>1 DEF Operations, Ops, Kinds
<1>4. Made(op.target)
  BY <1>1, <1>3 DEF Listed, Made, StudioInv, RowsAtHome, Ops
<1> DEFINE stands == IF op.kind = "create" THEN "commit" ELSE "select"
<1>5. stands \in {"select", "commit"} /\ (stands = "commit" => op.kind = "create")
  OBVIOUS
<1>6. request' = [request EXCEPT ![q].op = op, ![q].pc = stands]
  BY <1>1
<1> HIDE DEF stands
<1> QED
  BY <1>1, <1>2, <1>3, <1>4, <1>5, <1>6, ArrivalStep

LEMMA ArriveByTokenStep ==
  ASSUME StudioInv, NEW q \in Requests, ArriveByToken(q)  PROVE StudioInv'
<1>1. PICK t \in Requests :
        /\ There(tokens[t])
        /\ request' = [request EXCEPT ![q].pc = "select",
             ![q].op = [NoOp EXCEPT !.kind = "received", !.tenant = tokens[t].tenant,
                                    !.target = tokens[t].workflow]]
        /\ seen' = [seen EXCEPT ![q] = {workflows[tokens[t].workflow]}]
  BY DEF ArriveByToken
<1>2. In(q, "new") /\ UNCHANGED <<workflows, tokens, runs, lastAsked>>
  BY DEF ArriveByToken, IsNext
<1>3. StudioTypeOK /\ TokensAtHome
  BY DEF StudioInv
<1> DEFINE op == [NoOp EXCEPT !.kind = "received", !.tenant = tokens[t].tenant,
                              !.target = tokens[t].workflow]
<1>4. tokens[t] \in TokenRows
  BY <1>1, <1>3 DEF StudioTypeOK, There
<1>5. /\ op \in Ops /\ op.kind = "received"
      /\ op.tenant = tokens[t].tenant /\ op.target = tokens[t].workflow
  BY <1>4 DEF NoOp, Ops, Kinds, TokenRows
<1> HIDE DEF op
<1>6. Made(op.target) /\ op.tenant = Home(op.target)
  BY <1>1, <1>3, <1>5 DEF TokensAtHome
<1>7. request' = [request EXCEPT ![q].op = op, ![q].pc = "select"]
  <2>1. request' = [request EXCEPT ![q].pc = "select", ![q].op = op]
    BY <1>1 DEF op
  <2> QED  BY <1>3, <2>1 DEF StudioTypeOK, RequestStates
<1> QED
  BY <1>1, <1>2, <1>5, <1>6, <1>7, ArrivalStep

-----------------------------------------------------------------------------
LEMMA StudioStep == StudioInv /\ [StudioNext]_svars => StudioInv'
<1>1. ASSUME StudioInv, NEW q \in Requests, LoseRequest(q)  PROVE StudioInv'
  BY <1>1, EndStep DEF LoseRequest
<1>2. ASSUME StudioInv, StudioNext  PROVE StudioInv'
  BY <1>1, <1>2, ArriveStep, ArriveByTokenStep, SelectStep, CreateStep, UpdateStep,
     DeleteStep, WebhookStep, TriggerStep DEF StudioNext
<1>3. ASSUME StudioInv, UNCHANGED svars  PROVE StudioInv'
  BY <1>3 DEF svars, StudioInv, StudioTypeOK, RowsAtHome, TokensAtHome, TargetsMade,
     SeesPresent, ReadLetThrough, UpdatersDone, RunnersDone, RunsFollowUpdates, UpdatesKept,
     Made, Home, There, In, Op, UnderWay, Asked
<1> QED
  BY <1>2, <1>3

\* In every reachable state of the Studio requests, the invariant holds.
THEOREM StudioInvariance == StudioSpec => []StudioInv
  BY Initially, StudioStep, PTL DEF StudioSpec

\* For any number of requests and tenants, a run is its workflow's tenant's
\* and executes what the workflow was, while active, during the request
\* (trigger_workflow, receive_webhook).
THEOREM RunsAlwaysFollowUpdates == StudioSpec => []RunsFollowUpdates
<1>1. StudioInv => RunsFollowUpdates
  BY DEF StudioInv
<1> QED
  BY <1>1, StudioInvariance, PTL

\* For any number of requests and tenants, an update of a column stands until
\* a later one, unless it found its value there and wrote nothing
\* (update_workflow).
THEOREM UpdatesAlwaysKept == StudioSpec => []UpdatesKept
<1>1. StudioInv => UpdatesKept
  BY DEF StudioInv
<1> QED
  BY <1>1, StudioInvariance, PTL

-----------------------------------------------------------------------------
(* A run of a workflow (executor.py).  Of its steps: only the last one can  *)
(* be open, and it is the node's being executed.                            *)

Statuses == {"running", "completed", "failed"}
StepRows == [node : Ids(def), status : Statuses]

WorkflowTypes == def \in Definitions /\ at \in Nat \ {0} /\ steps \in Seq(StepRows)

StoryTold ==
  /\ \A i \in DOMAIN steps : steps[i].status # "completed" => i = Len(steps) /\ pc # "walk" /\ run # "completed"
  /\ pc \in {"request", "background", "sort"} => steps = <<>>
  /\ run = "completed" => pc = "done"
  /\ pc = "node" => steps # <<>> /\ steps[Len(steps)].node = Node
  /\ pc = "done" /\ run = "failed" /\ steps # <<>> => steps[Len(steps)].status = "failed"

StoryInv == WorkflowTypes /\ StoryTold

\* A step is added, or the last one gets another status.
LEMMA StepAdded ==
  ASSUME NEW R, NEW s \in Seq(R), NEW r \in R, NEW t, t = Append(s, r)
  PROVE  /\ t \in Seq(R) /\ t # <<>> /\ Len(s) \in Nat /\ Len(t) = Len(s) + 1 /\ t[Len(t)] = r
         /\ DOMAIN s = 1..Len(s) /\ DOMAIN t = 1..(Len(s) + 1)
         /\ \A i \in DOMAIN s : t[i] = s[i]
<1>1. /\ t \in Seq(R) /\ Len(s) \in Nat /\ Len(t) = Len(s) + 1 /\ t[Len(s) + 1] = r
      /\ \A i \in 1..Len(s) : t[i] = s[i]
  BY AppendProperties
<1>2. DOMAIN s = 1..Len(s) /\ DOMAIN t = 1..Len(t)
  BY <1>1, LenProperties
<1>3. t # <<>>
  BY <1>1
<1> QED BY <1>1, <1>2, <1>3

LEMMA StepSet ==
  ASSUME WorkflowTypes, steps # <<>>, NEW what \in Statuses, SetStep(what), UNCHANGED def
  PROVE  /\ steps' \in Seq(StepRows)' /\ steps' # <<>> /\ Len(steps) \in Nat \ {0} /\ Len(steps') = Len(steps)
         /\ DOMAIN steps = 1..Len(steps) /\ DOMAIN steps' = 1..Len(steps) /\ steps'[Len(steps)].status = what
         /\ \A i \in DOMAIN steps : steps'[i].node = steps[i].node /\ (i # Len(steps) => steps'[i] = steps[i])
<1>1. Len(steps) \in Nat \ {0} /\ DOMAIN steps = 1..Len(steps)
  BY EmptySeq, LenProperties DEF WorkflowTypes
<1>2. steps' = [steps EXCEPT ![Len(steps)] = [steps[Len(steps)] EXCEPT !.status = what]]
  BY DEF SetStep
<1>3. steps[Len(steps)] \in StepRows
  <2>1. Len(steps) \in 1..Len(steps)
    BY <1>1
  <2> QED BY <2>1, ElementOfSeq DEF WorkflowTypes
<1>4. [steps[Len(steps)] EXCEPT !.status = what] \in StepRows
  BY <1>3 DEF StepRows
<1>5. steps' \in Seq(StepRows) /\ Len(steps') = Len(steps)
  BY <1>1, <1>2, <1>4, ExceptSeq DEF WorkflowTypes
<1>6. StepRows' = StepRows
  BY DEF StepRows
<1>7. steps[Len(steps)] \in [node : Ids(def), status : Statuses]
  BY <1>3 DEF StepRows
<1> QED BY <1>1, <1>2, <1>5, <1>6, <1>7

LEMMA StoryStarts == Init => StoryInv
<1> SUFFICES ASSUME Init PROVE StoryInv
  OBVIOUS
<1>1. <<>> \in Seq(StepRows)
  OBVIOUS
<1> QED BY <1>1 DEF Init, StoryInv, WorkflowTypes, StoryTold

LEMMA StoryStep ==
  ASSUME StoryInv, [Next]_vars
  PROVE  StoryInv'
<1>1. /\ def \in Definitions /\ at \in Nat \ {0} /\ steps \in Seq(StepRows) /\ DOMAIN steps = 1..Len(steps)
      /\ Len(steps) \in Nat /\ StoryTold
  BY LenProperties DEF StoryInv, WorkflowTypes
<1>2. ASSUME UNCHANGED <<def, steps, at>>, StoryTold'
      PROVE  StoryInv'
  BY <1>1, <1>2 DEF StoryInv, WorkflowTypes, StepRows
<1>3. CASE Trigger \/ Begin \/ Sort \/ UnknownNode \/ Fault \/ UNCHANGED vars \/ Ended
  <2>1. UNCHANGED <<def, steps, at>>
    BY <1>3 DEF Trigger, Begin, Sort, UnknownNode, Fault, vars, Ended
  <2>2. CASE UNCHANGED vars \/ Ended
    BY <1>1, <1>2, <2>1, <2>2 DEF vars, Ended, StoryTold, Node
  <2>3. CASE Sort
    <3>1. steps = <<>> /\ run # "completed" /\ DOMAIN steps = {}
      BY <1>1, <2>3 DEF Sort, StoryTold
    <3>2. StoryTold'
      BY <2>1, <2>3, <3>1 DEF Sort, StoryTold
    <3> QED BY <1>2, <2>1, <3>2
  <2>4. CASE Trigger \/ Begin \/ UnknownNode \/ Fault
    <3>1. StoryTold'
      BY <1>1, <2>1, <2>4 DEF Trigger, Begin, UnknownNode, Fault, Visiting, StoryTold
    <3> QED BY <1>2, <2>1, <3>1
  <2> QED BY <1>3, <2>2, <2>3, <2>4
<1>4. CASE VisitTrigger \/ Skip \/ Finish
  <2>1. pc = "walk" /\ UNCHANGED <<def, steps>> /\ at' \in Nat \ {0}
    BY <1>1, <1>4 DEF VisitTrigger, Skip, Finish, Visiting
  <2>2. StoryTold'
    BY <1>1, <1>4, <2>1 DEF VisitTrigger, Skip, Finish, StoryTold
  <2> QED BY <1>1, <2>1, <2>2 DEF StoryInv, WorkflowTypes, StepRows
<1>5. CASE StartStep
  <2> DEFINE r == [node |-> Node, status |-> "running"]
  <2>1. /\ pc = "walk" /\ pc' = "node" /\ r \in StepRows /\ steps' = Append(steps, r)
        /\ UNCHANGED <<def, run, order, at>>
    BY <1>5 DEF StartStep, Visiting, StepRows, Statuses
  <2>2. r.node = Node
    OBVIOUS
  <2> HIDE DEF r
  <2>3. /\ steps' \in Seq(StepRows) /\ steps' # <<>> /\ Len(steps') = Len(steps) + 1 /\ steps'[Len(steps')] = r
        /\ DOMAIN steps' = 1..(Len(steps) + 1)
        /\ \A i \in DOMAIN steps : steps'[i] = steps[i]
    BY <1>1, <2>1, StepAdded
  <2>4. run # "completed"
    BY <1>1, <2>1 DEF StoryTold
  <2>5. StoryTold'
    BY <1>1, <2>1, <2>2, <2>3, <2>4 DEF StoryTold, Node
  <2> QED BY <1>1, <2>1, <2>3, <2>5 DEF StoryInv, WorkflowTypes, StepRows
<1>6. ASSUME NEW what \in Statuses, SetStep(what), pc = "node", UNCHANGED def, at' \in Nat \ {0},
             \/ what = "completed" /\ pc' = "walk" /\ run' = run
             \/ what = "failed" /\ pc' = "done" /\ run' = "failed"
      PROVE  StoryInv'
  <2>1. steps # <<>> /\ run # "completed"
    BY <1>1, <1>6 DEF StoryTold
  <2>2. WorkflowTypes
    BY DEF StoryInv
  <2>3. /\ steps' \in Seq(StepRows)' /\ steps' # <<>> /\ Len(steps) \in Nat \ {0}
        /\ Len(steps') = Len(steps) /\ DOMAIN steps' = 1..Len(steps) /\ steps'[Len(steps)].status = what
        /\ \A i \in DOMAIN steps : i # Len(steps) => steps'[i] = steps[i]
    BY <1>6, <2>1, <2>2, StepSet
  <2>4. StoryTold'
    BY <1>1, <1>6, <2>1, <2>3 DEF StoryTold
  <2> QED BY <1>1, <1>6, <2>3, <2>4 DEF StoryInv, WorkflowTypes, StepRows
<1>7. CASE NodeReturns
  <2>1. SetStep("completed") /\ "completed" \in Statuses
    BY <1>7 DEF NodeReturns, Statuses
  <2> QED BY <1>1, <1>6, <1>7, <2>1 DEF NodeReturns
<1>8. CASE NodeRaises
  <2>1. SetStep("failed") /\ "failed" \in Statuses
    BY <1>8 DEF NodeRaises, Statuses
  <2> QED BY <1>1, <1>6, <1>8, <2>1 DEF NodeRaises
<1> QED BY <1>3, <1>4, <1>5, <1>7, <1>8 DEF Next, Proceed

\* For any definition, a run and its steps tell the same story: a completed
\* run has completed steps only, at most the last step of any run is open or
\* failed, and a run that failed with steps ends in a failed one (executor.py,
\* whose commits a fault may cut off).
THEOREM StepsAlwaysTellOutcome == Spec => []StepsTellOutcome
<1>1. StoryInv => StepsTellOutcome
  BY LenProperties DEF StoryInv, StoryTold, StepsTellOutcome, Last
<1> QED BY <1>1, StoryStarts, StoryStep, PTL DEF Spec

-----------------------------------------------------------------------------
(* Kahn's algorithm.                                                       *)

\* The members of a set of positions in ascending order: each once.
LEMMA AscendingLists ==
  ASSUME NEW S, NEW n \in Nat, S \subseteq 1..n
  PROVE  /\ Cardinality(S) \in Nat /\ DOMAIN Ascending(S) = 1..Cardinality(S)
         /\ \A k \in 1..Cardinality(S) : Ascending(S)[k] \in S
         /\ \A k, l \in 1..Cardinality(S) : Ascending(S)[k] = Ascending(S)[l] => k = l
         /\ \A i \in S : \E k \in 1..Cardinality(S) : Ascending(S)[k] = i
<1> DEFINE upTo(i) == {j \in S : j <= i}
           rank == [i \in S |-> Cardinality(upTo(i))]
<1>1. IsFiniteSet(S) /\ Cardinality(S) \in Nat
  <2>1. S \in SUBSET (1..n) /\ IsFiniteSet(1..n)
    BY FS_Interval
  <2>2. IsFiniteSet(S)
    BY <2>1, FS_Subset
  <2> QED BY <2>2, FS_CardinalityType
<1>2. ASSUME NEW i \in S
      PROVE  /\ upTo(i) \in SUBSET S /\ IsFiniteSet(upTo(i))
             /\ Cardinality(upTo(i)) \in 1..Cardinality(S)
  <2>1. upTo(i) \in SUBSET S /\ i \in upTo(i)
    OBVIOUS
  <2> HIDE DEF upTo
  <2>2. IsFiniteSet(upTo(i)) /\ Cardinality(upTo(i)) <= Cardinality(S)
    BY <1>1, <2>1, FS_Subset
  <2>3. Cardinality(upTo(i)) \in Nat /\ Cardinality(upTo(i)) # 0
    BY <2>1, <2>2, FS_CardinalityType, FS_EmptySet
  <2> QED BY <1>1, <2>1, <2>2, <2>3
<1>3. ASSUME NEW i \in S, NEW j \in S, i < j
      PROVE  Cardinality(upTo(i)) # Cardinality(upTo(j))
  <2>1. upTo(i) \in SUBSET upTo(j) /\ upTo(i) # upTo(j)
    <3>1. i \in Nat /\ j \in Nat
      OBVIOUS
    <3>2. j \in upTo(j) /\ j \notin upTo(i)
      BY <1>3, <3>1
    <3>3. \A m \in upTo(i) : m \in upTo(j)
      <4> SUFFICES ASSUME NEW m \in S, m <= i PROVE m <= j
        OBVIOUS
      <4>1. m \in Nat
        OBVIOUS
      <4> QED BY <1>3, <3>1, <4>1
    <3> QED BY <3>2, <3>3
  <2> HIDE DEF upTo
  <2>2. IsFiniteSet(upTo(j))
    BY <1>2
  <2> QED BY <2>1, <2>2, FS_Subset
<1>4. \A i, j \in S : Cardinality(upTo(i)) = Cardinality(upTo(j)) => i = j
  <2> HIDE DEF upTo
  <2> SUFFICES ASSUME NEW i \in S, NEW j \in S, i # j
               PROVE  Cardinality(upTo(i)) # Cardinality(upTo(j))
    OBVIOUS
  <2>1. i < j \/ j < i
    OBVIOUS
  <2> QED BY <1>3, <2>1
<1>5. rank \in Injection(S, 1..Cardinality(S))
  <2> HIDE DEF upTo
  <2> QED BY <1>2, <1>4 DEF Injection, IsInjective
<1>6. IsFiniteSet(1..Cardinality(S)) /\ Cardinality(1..Cardinality(S)) = Cardinality(S)
  BY <1>1, FS_Interval
<1>7. rank \in Surjection(S, 1..Cardinality(S))
  <2> HIDE DEF rank
  <2> QED BY <1>5, <1>6, FS_Injection
<1>8. \A k \in 1..Cardinality(S) : \E i \in S : Cardinality({j \in S : j <= i}) = k
  BY <1>7, Zenon DEF Surjection
<1>9. \A k \in 1..Cardinality(S) :
        Ascending(S)[k] \in S /\ Cardinality(upTo(Ascending(S)[k])) = k
  BY <1>8, Zenon DEF Ascending
<1>10. DOMAIN Ascending(S) = 1..Cardinality(S)
  BY Zenon DEF Ascending
<1>11. ASSUME NEW i \in S
       PROVE  \E k \in 1..Cardinality(S) : Ascending(S)[k] = i
  <2> HIDE DEF upTo
  <2>1. Cardinality(upTo(i)) \in 1..Cardinality(S)
    BY <1>2
  <2>2. Ascending(S)[Cardinality(upTo(i))] = i
    BY <1>4, <1>9, <2>1
  <2> QED BY <2>1, <2>2
<1>12. \A k, l \in 1..Cardinality(S) : Ascending(S)[k] = Ascending(S)[l] => k = l
  <2> HIDE DEF upTo
  <2> QED BY <1>9, Zenon
<1>13. \A k \in 1..Cardinality(S) : Ascending(S)[k] \in S
  BY <1>9, Zenon
<1> QED BY <1>1, <1>10, <1>11, <1>12, <1>13, Zenon

-----------------------------------------------------------------------------
\* A name no edge leads to but from those in `popped`.
Free(d, popped, m) ==
  \A i \in DOMAIN d.edges : d.edges[i].target = m => d.edges[i].source \in popped

Distinct(s) == \A i, j \in DOMAIN s : s[i] = s[j] => i = j

Graph(d) ==
  /\ Len(d.nodes) \in Nat /\ DOMAIN d.nodes = 1..Len(d.nodes)
  /\ Len(d.edges) \in Nat /\ DOMAIN d.edges = 1..Len(d.edges)

LEMMA InDegreeZero ==
  ASSUME NEW d, Graph(d), NEW popped, NEW m
  PROVE  InDegree(d, popped, m) = 0 <=> Free(d, popped, m)
<1> DEFINE waiting == {i \in DOMAIN d.edges : d.edges[i].target = m /\ d.edges[i].source \notin popped}
<1>1. IsFiniteSet(waiting)
  <2>1. waiting \in SUBSET (1..Len(d.edges)) /\ IsFiniteSet(1..Len(d.edges))
    BY FS_Interval DEF Graph
  <2> HIDE DEF waiting
  <2> QED BY <2>1, FS_Subset
<1>2. waiting = {} <=> Free(d, popped, m)
  BY DEF Free
<1>3. InDegree(d, popped, m) = Cardinality(waiting)
  BY Zenon DEF InDegree
<1> HIDE DEF waiting
<1> QED BY <1>1, <1>2, <1>3, FS_EmptySet

\* What is appended when n is taken: each of its targets that has no other
\* predecessor left, once.
OnceEachFreed(d, popped, n, names) ==
  /\ names \in Seq(Names(d)) /\ Distinct(names)
  /\ \A m : m \in ToSet(names) <=>
       /\ Free(d, popped \cup {n}, m)
       /\ \E i \in DOMAIN d.edges : d.edges[i].source = n /\ d.edges[i].target = m

LEMMA ReleasedNames ==
  ASSUME NEW d, Graph(d), NEW popped, NEW n
  PROVE  OnceEachFreed(d, popped, n, Released(d, popped, n))
<1> DEFINE last == {i \in DOMAIN d.edges :
                      /\ d.edges[i].source = n
                      /\ InDegree(d, popped \cup {n}, d.edges[i].target) = 0
                      /\ \A j \in DOMAIN d.edges :
                           d.edges[j].source = n /\ d.edges[j].target = d.edges[i].target => j <= i}
           R == Released(d, popped, n)
<1>1. last \subseteq 1..Len(d.edges)
  BY DEF Graph
<1>2. \A i \in last : /\ i \in DOMAIN d.edges /\ d.edges[i].source = n
                      /\ Free(d, popped \cup {n}, d.edges[i].target)
  BY InDegreeZero
<1>3. \A i, j \in last : d.edges[i].target = d.edges[j].target => i = j
  <2> SUFFICES ASSUME NEW i \in last, NEW j \in last, d.edges[i].target = d.edges[j].target
               PROVE  i = j
    OBVIOUS
  <2>1. i <= j /\ j <= i
    OBVIOUS
  <2>2. i \in 1..Len(d.edges) /\ j \in 1..Len(d.edges)
    BY <1>1
  <2> QED BY <2>1, <2>2 DEF Graph
<1>4. ASSUME NEW m, Free(d, popped \cup {n}, m),
             \E i \in DOMAIN d.edges : d.edges[i].source = n /\ d.edges[i].target = m
      PROVE  \E i \in last : d.edges[i].target = m
  <2> DEFINE there == {i \in DOMAIN d.edges : d.edges[i].source = n /\ d.edges[i].target = m}
  <2>1. there \subseteq Nat /\ there # {} /\ \A x \in there : x <= Len(d.edges)
    BY <1>4 DEF Graph
  <2>2. Len(d.edges) \in Nat
    BY DEF Graph
  <2>3. PICK i \in there : \A x \in there : x <= i
    <3> HIDE DEF there
    <3> QED BY <2>1, <2>2, GreatestExists
  <2>4. i \in DOMAIN d.edges /\ d.edges[i].source = n /\ d.edges[i].target = m
    BY <2>3
  <2>5. InDegree(d, popped \cup {n}, d.edges[i].target) = 0
    BY <1>4, <2>4, InDegreeZero
  <2>6. \A j \in DOMAIN d.edges :
          d.edges[j].source = n /\ d.edges[j].target = d.edges[i].target => j <= i
    BY <2>3, <2>4
  <2> QED BY <2>4, <2>5, <2>6
<1>5. R = [k \in DOMAIN Ascending(last) |-> d.edges[Ascending(last)[k]].target]
  BY Zenon DEF Released
<1> HIDE DEF last, R
<1> DEFINE c == Cardinality(last)
<1>6. /\ c \in Nat /\ DOMAIN Ascending(last) = 1..c
      /\ \A k \in 1..c : Ascending(last)[k] \in last
      /\ \A k, l \in 1..c : Ascending(last)[k] = Ascending(last)[l] => k = l
      /\ \A i \in last : \E k \in 1..c : Ascending(last)[k] = i
  BY <1>1, AscendingLists DEF Graph
<1> HIDE DEF c
<1>7. DOMAIN R = 1..c /\ \A k \in 1..c : R[k] = d.edges[Ascending(last)[k]].target
  BY <1>5, <1>6
<1>8. R \in Seq(Names(d))
  <2>1. \A k \in 1..c : R[k] \in Names(d)
    BY <1>2, <1>6, <1>7 DEF Names
  <2>2. R = [k \in 1..c |-> R[k]]
    BY <1>5, <1>6, <1>7
  <2>3. R \in [1..c -> Names(d)]
    BY <2>1, <2>2
  <2> QED BY <1>6, <2>3, SeqDef
<1>9. Distinct(R)
  BY <1>3, <1>6, <1>7 DEF Distinct
<1>10. ASSUME NEW m
       PROVE  m \in ToSet(R) <=> \E i \in last : d.edges[i].target = m
  BY <1>6, <1>7 DEF ToSet
<1> QED
  <2>1. \A m : m \in ToSet(R) <=>
              /\ Free(d, popped \cup {n}, m)
              /\ \E i \in DOMAIN d.edges : d.edges[i].source = n /\ d.edges[i].target = m
    BY <1>2, <1>4, <1>10
  <2> QED BY <1>8, <1>9, <2>1 DEF R, OnceEachFreed

\* The first nodes in the queue: those no edge leads to, each once.
LEMMA RootNames ==
  ASSUME NEW d, Graph(d)
  PROVE  /\ Roots(d) \in Seq(Names(d)) /\ Distinct(Roots(d))
         /\ \A m : m \in ToSet(Roots(d)) <=> m \in Ids(d) /\ Free(d, {}, m)
<1> DEFINE first == {i \in DOMAIN d.nodes : /\ InDegree(d, {}, d.nodes[i].id) = 0
                                            /\ \A j \in 1..(i - 1) : d.nodes[j].id # d.nodes[i].id}
           R == Roots(d)
<1>1. first \subseteq 1..Len(d.nodes)
  BY DEF Graph
<1>2. \A i \in first : i \in DOMAIN d.nodes /\ Free(d, {}, d.nodes[i].id)
  BY InDegreeZero
<1>3. \A i, j \in first : d.nodes[i].id = d.nodes[j].id => i = j
  <2> SUFFICES ASSUME NEW i \in first, NEW j \in first, i # j
               PROVE  d.nodes[i].id # d.nodes[j].id
    OBVIOUS
  <2>1. i \in 1..Len(d.nodes) /\ j \in 1..Len(d.nodes)
    BY <1>1
  <2>2. (i < j /\ i \in 1..(j - 1)) \/ (j < i /\ j \in 1..(i - 1))
    BY <2>1 DEF Graph
  <2> QED BY <2>2
<1>4. ASSUME NEW m \in Ids(d), Free(d, {}, m)
      PROVE  \E i \in first : d.nodes[i].id = m
  <2> DEFINE there == {i \in DOMAIN d.nodes : d.nodes[i].id = m}
  <2>1. there \subseteq Nat /\ there # {}
    BY <1>4 DEF Graph, Ids
  <2>2. PICK i \in there : \A x \in there : i <= x
    <3> HIDE DEF there
    <3> QED BY <2>1, LeastExists
  <2>3. i \in DOMAIN d.nodes /\ d.nodes[i].id = m /\ i \in 1..Len(d.nodes)
    BY <2>2 DEF Graph
  <2>4. InDegree(d, {}, d.nodes[i].id) = 0
    BY <1>4, <2>3, InDegreeZero
  <2>5. ASSUME NEW j \in 1..(i - 1)
        PROVE  d.nodes[j].id # d.nodes[i].id
    <3>1. j \in DOMAIN d.nodes /\ ~(i <= j)
      BY <2>3 DEF Graph
    <3> QED BY <2>2, <2>3, <3>1
  <2> QED BY <2>3, <2>4, <2>5
<1>5. R = [k \in DOMAIN Ascending(first) |-> d.nodes[Ascending(first)[k]].id]
  BY Zenon DEF Roots
<1> HIDE DEF first, R
<1> DEFINE c == Cardinality(first)
<1>6. /\ c \in Nat /\ DOMAIN Ascending(first) = 1..c
      /\ \A k \in 1..c : Ascending(first)[k] \in first
      /\ \A k, l \in 1..c : Ascending(first)[k] = Ascending(first)[l] => k = l
      /\ \A i \in first : \E k \in 1..c : Ascending(first)[k] = i
  BY <1>1, AscendingLists DEF Graph
<1> HIDE DEF c
<1>7. DOMAIN R = 1..c /\ \A k \in 1..c : R[k] = d.nodes[Ascending(first)[k]].id
  BY <1>5, <1>6
<1>8. R \in Seq(Names(d))
  <2>1. \A k \in 1..c : R[k] \in Names(d)
    BY <1>2, <1>6, <1>7 DEF Names, Ids
  <2>2. R = [k \in 1..c |-> R[k]]
    BY <1>5, <1>6, <1>7
  <2>3. R \in [1..c -> Names(d)]
    BY <2>1, <2>2
  <2> QED BY <1>6, <2>3, SeqDef
<1>9. Distinct(R)
  BY <1>3, <1>6, <1>7 DEF Distinct
<1>10. ASSUME NEW m
       PROVE  m \in ToSet(R) <=> \E i \in first : d.nodes[i].id = m
  BY <1>6, <1>7 DEF ToSet
<1> QED
  <2>1. \A m : m \in ToSet(R) <=> m \in Ids(d) /\ Free(d, {}, m)
    BY <1>2, <1>4, <1>10 DEF Ids
  <2> QED BY <1>8, <1>9, <2>1 DEF R

-----------------------------------------------------------------------------
(* The loop.  The names in queue and result are distinct, those in the     *)
(* queue have all their predecessors in the result, as have those in the   *)
(* result ahead of them, and no name that has is missing.                  *)

Ahead(d, sorted) ==
  \A i \in DOMAIN d.edges : \A l \in DOMAIN sorted :
    sorted[l] = d.edges[i].target => \E k \in 1..(l - 1) : sorted[k] = d.edges[i].source

Halfway(d, s) ==
  /\ s \in Sorting(d)
  /\ Distinct(s.sorted) /\ Distinct(s.queue) /\ ToSet(s.sorted) \cap ToSet(s.queue) = {}
  /\ \A m \in ToSet(s.queue) : Free(d, ToSet(s.sorted), m)
  /\ Ahead(d, s.sorted)
  /\ \A m \in Names(d) : Free(d, ToSet(s.sorted), m) => m \in ToSet(s.sorted) \cup ToSet(s.queue)

SortedNames(d, sorted) ==
  /\ sorted \in Seq(Names(d)) /\ Distinct(sorted) /\ Ahead(d, sorted)
  /\ \A m \in Names(d) : Free(d, ToSet(sorted), m) => m \in ToSet(sorted)

\* A sequence's first element and the others.
LEMMA FirstAndRest ==
  ASSUME NEW A, NEW s \in Seq(A), s # <<>>
  PROVE  /\ Head(s) \in A /\ Tail(s) \in Seq(A)
         /\ ToSet(s) = {Head(s)} \cup ToSet(Tail(s))
         /\ Distinct(s) => Distinct(Tail(s)) /\ Head(s) \notin ToSet(Tail(s))
<1>1. /\ Head(s) \in A /\ Tail(s) \in Seq(A) /\ Len(Tail(s)) = Len(s) - 1
      /\ \A i \in 1..Len(Tail(s)) : Tail(s)[i] = s[i + 1]
  BY HeadTailProperties
<1>2. Len(s) \in Nat /\ DOMAIN s = 1..Len(s) /\ DOMAIN Tail(s) = 1..(Len(s) - 1) /\ Len(s) # 0
  BY <1>1, LenProperties, EmptySeq
<1>3. Head(s) = s[1] /\ 1 \in DOMAIN s
  BY <1>2
<1> DEFINE h == Head(s) t == Tail(s)
<1>4. \A i \in DOMAIN t : t[i] = s[i + 1] /\ i + 1 \in DOMAIN s /\ i + 1 # 1
  BY <1>1, <1>2
<1>5. \A j \in DOMAIN s : j = 1 \/ (j - 1 \in DOMAIN t /\ (j - 1) + 1 = j)
  BY <1>1, <1>2
<1>6. \A i, j \in DOMAIN t : i + 1 = j + 1 => i = j
  BY <1>1, <1>2
<1>7. h = s[1]
  BY <1>3
<1> HIDE DEF h, t
<1>8. ToSet(s) = {h} \cup ToSet(t)
  <2>1. \A j \in DOMAIN s : s[j] = h \/ \E i \in DOMAIN t : s[j] = t[i]
    BY <1>4, <1>5, <1>7
  <2> QED BY <1>3, <1>4, <1>7, <2>1 DEF ToSet
<1>9. ASSUME Distinct(s) PROVE Distinct(t) /\ h \notin ToSet(t)
  BY <1>3, <1>4, <1>6, <1>7, <1>9 DEF Distinct, ToSet
<1> QED BY <1>1, <1>8, <1>9 DEF h, t

\* A sequence with an element more.
LEMMA OneMore ==
  ASSUME NEW A, NEW s \in Seq(A), NEW x \in A
  PROVE  /\ Append(s, x) \in Seq(A) /\ ToSet(Append(s, x)) = ToSet(s) \cup {x}
         /\ Distinct(s) /\ x \notin ToSet(s) => Distinct(Append(s, x))
<1> DEFINE t == Append(s, x) n == Len(s)
<1>1. /\ t \in Seq(A) /\ Len(t) = n + 1 /\ t[n + 1] = x
      /\ \A i \in 1..n : t[i] = s[i]
  BY AppendProperties
<1>2. n \in Nat /\ DOMAIN s = 1..n /\ DOMAIN t = 1..(n + 1)
  BY <1>1, LenProperties
<1>3. \A i \in DOMAIN t : i \in DOMAIN s \/ i = n + 1
  BY <1>2
<1>4. DOMAIN s \subseteq DOMAIN t /\ n + 1 \in DOMAIN t
  BY <1>2
<1> HIDE DEF t
<1>5. \A i \in DOMAIN s : t[i] = s[i]
  BY <1>1, <1>2
<1> HIDE DEF n
<1>6. ToSet(t) = ToSet(s) \cup {x}
  BY <1>1, <1>3, <1>4, <1>5 DEF ToSet
<1>7. Distinct(s) /\ x \notin ToSet(s) => Distinct(t)
  BY <1>1, <1>3, <1>4, <1>5 DEF Distinct, ToSet
<1> QED BY <1>1, <1>6, <1>7 DEF t

\* One sequence behind another.
LEMMA OneBehindOther ==
  ASSUME NEW A, NEW s \in Seq(A), NEW t \in Seq(A)
  PROVE  /\ s \o t \in Seq(A) /\ ToSet(s \o t) = ToSet(s) \cup ToSet(t)
         /\ Distinct(s) /\ Distinct(t) /\ ToSet(s) \cap ToSet(t) = {} => Distinct(s \o t)
<1> DEFINE u == s \o t n == Len(s)
<1>1. /\ u \in Seq(A) /\ Len(u) = n + Len(t)
      /\ \A i \in 1..(n + Len(t)) : u[i] = IF i <= n THEN s[i] ELSE t[i - n]
  BY ConcatProperties
<1>2. /\ n \in Nat /\ DOMAIN s = 1..n /\ Len(t) \in Nat /\ DOMAIN t = 1..Len(t)
      /\ DOMAIN u = 1..(n + Len(t))
  BY <1>1, LenProperties
<1> HIDE DEF u, n
<1>3. \A i \in DOMAIN s : i \in DOMAIN u /\ u[i] = s[i]
  BY <1>1, <1>2
<1>4. \A i \in DOMAIN t : n + i \in DOMAIN u /\ u[n + i] = t[i]
  <2> SUFFICES ASSUME NEW i \in DOMAIN t PROVE n + i \in DOMAIN u /\ u[n + i] = t[i]
    OBVIOUS
  <2>1. n + i \in 1..(n + Len(t)) /\ ~(n + i <= n) /\ (n + i) - n = i
    BY <1>2
  <2> QED BY <1>1, <1>2, <2>1
<1>5. ASSUME NEW i \in DOMAIN u
      PROVE  (i \in DOMAIN s /\ u[i] = s[i]) \/ (i - n \in DOMAIN t /\ u[i] = t[i - n] /\ n + (i - n) = i)
  <2>1. i \in 1..(n + Len(t)) /\ u[i] = IF i <= n THEN s[i] ELSE t[i - n]
    BY <1>1, <1>2
  <2>2. CASE i <= n
    BY <1>2, <2>1, <2>2
  <2>3. CASE ~(i <= n)
    <3>1. i - n \in 1..Len(t) /\ n + (i - n) = i
      BY <1>2, <2>1, <2>3
    <3> QED BY <1>2, <2>1, <2>3, <3>1
  <2> QED BY <2>2, <2>3
<1>6. ToSet(u) = ToSet(s) \cup ToSet(t)
  BY <1>3, <1>4, <1>5 DEF ToSet
<1>7. ASSUME Distinct(s), Distinct(t), ToSet(s) \cap ToSet(t) = {} PROVE Distinct(u)
  <2>1. \A i \in DOMAIN s : \A j \in DOMAIN t : s[i] # t[j]
    BY <1>7 DEF ToSet
  <2>2. ASSUME NEW i \in DOMAIN u, NEW j \in DOMAIN u, u[i] = u[j]
        PROVE  i = j
    BY <1>5, <1>7, <2>1, <2>2 DEF Distinct
  <2> QED BY <2>2 DEF Distinct
<1> QED BY <1>1, <1>6, <1>7 DEF u

LEMMA SortStarts ==
  ASSUME NEW d, Graph(d)
  PROVE  Halfway(d, [queue |-> Roots(d), sorted |-> <<>>])
<1> DEFINE s == [queue |-> Roots(d), sorted |-> <<>>]
<1>1. s.queue = Roots(d) /\ s.sorted = <<>> /\ ToSet(<<>>) = {} /\ DOMAIN <<>> = {}
  BY DEF ToSet
<1>2. <<>> \in Seq(Names(d))
  OBVIOUS
<1>3. s \in Sorting(d)
  BY <1>2, RootNames DEF Sorting
<1>4. ASSUME NEW m \in Names(d), Free(d, {}, m)
      PROVE  m \in Ids(d)
  BY <1>4 DEF Names, Free
<1> HIDE DEF s
<1> QED BY <1>1, <1>3, <1>4, RootNames DEF Halfway, Distinct, Ahead, s

LEMMA SortGoesOn ==
  ASSUME NEW d, Graph(d), NEW s, Halfway(d, s), s.queue # <<>>
  PROVE  Halfway(d, TakeFirst(d, s)) /\ Len(TakeFirst(d, s).sorted) = Len(s.sorted) + 1
<1> DEFINE h == Head(s.queue) rest == Tail(s.queue) S == s.sorted
           R == Released(d, ToSet(S), h) t == TakeFirst(d, s)
<1>1. S \in Seq(Names(d)) /\ s.queue \in Seq(Names(d))
  BY DEF Halfway, Sorting
<1>2. /\ h \in Names(d) /\ rest \in Seq(Names(d)) /\ ToSet(s.queue) = {h} \cup ToSet(rest)
      /\ Distinct(rest) /\ h \notin ToSet(rest)
  BY <1>1, FirstAndRest DEF Halfway
<1>4. t = [queue |-> rest \o R, sorted |-> Append(S, h)]
  BY Zenon DEF TakeFirst
<1>5. h \notin ToSet(S) /\ Free(d, ToSet(S), h) /\ ToSet(S) \cap ToSet(rest) = {}
  BY <1>2 DEF Halfway
<1>18. OnceEachFreed(d, ToSet(S), h, R)
  BY ReleasedNames, Zenon
<1> HIDE DEF h, rest, S, R, t
<1>3. /\ R \in Seq(Names(d)) /\ Distinct(R)
      /\ \A m : m \in ToSet(R) <=>
           /\ Free(d, ToSet(S) \cup {h}, m)
           /\ \E i \in DOMAIN d.edges : d.edges[i].source = h /\ d.edges[i].target = m
  BY <1>18 DEF OnceEachFreed
<1>6. \A i \in DOMAIN d.edges : d.edges[i].source = h => d.edges[i].target \notin ToSet(S) \cup {h}
  <2> SUFFICES ASSUME NEW i \in DOMAIN d.edges, d.edges[i].source = h
               PROVE  d.edges[i].target \notin ToSet(S) \cup {h}
    OBVIOUS
  <2>1. d.edges[i].target # h
    BY <1>5 DEF Free
  <2>2. ASSUME d.edges[i].target \in ToSet(S) PROVE FALSE
    <3>1. PICK l \in DOMAIN S : S[l] = d.edges[i].target
      BY <2>2 DEF ToSet
    <3>2. PICK k \in 1..(l - 1) : S[k] = h
      BY <3>1 DEF Halfway, Ahead, S
    <3>3. k \in DOMAIN S
      BY <1>1, <3>1, <3>2, LenProperties
    <3> QED BY <1>5, <3>2, <3>3 DEF ToSet
  <2> QED BY <2>1, <2>2
<1>7. \A m \in ToSet(rest) : Free(d, ToSet(S), m)
  BY <1>2 DEF Halfway, S
<1>8. ToSet(R) \cap (ToSet(S) \cup {h}) = {} /\ ToSet(R) \cap ToSet(rest) = {}
  <2>1. ASSUME NEW m \in ToSet(R), m \in ToSet(rest) PROVE FALSE
    BY <1>3, <1>5, <1>7, <2>1 DEF Free
  <2> QED BY <1>3, <1>6, <2>1
<1>9. /\ Append(S, h) \in Seq(Names(d)) /\ ToSet(Append(S, h)) = ToSet(S) \cup {h}
      /\ Distinct(Append(S, h))
  BY <1>1, <1>2, <1>5, OneMore DEF Halfway, S
<1>10. /\ rest \o R \in Seq(Names(d)) /\ ToSet(rest \o R) = ToSet(rest) \cup ToSet(R)
       /\ Distinct(rest \o R)
  BY <1>2, <1>3, <1>8, OneBehindOther
<1>11. t.queue = rest \o R /\ t.sorted = Append(S, h) /\ t \in Sorting(d)
  BY <1>4, <1>9, <1>10 DEF Sorting
<1>12. \A m \in ToSet(t.queue) : Free(d, ToSet(t.sorted), m)
  BY <1>3, <1>7, <1>9, <1>10, <1>11 DEF Free
<1>13. /\ Len(S) \in Nat /\ DOMAIN S = 1..Len(S) /\ Len(t.sorted) = Len(S) + 1
       /\ DOMAIN t.sorted = 1..(Len(S) + 1) /\ t.sorted[Len(S) + 1] = h
       /\ \A i \in 1..Len(S) : t.sorted[i] = S[i]
  BY <1>1, <1>2, <1>9, <1>11, AppendProperties, LenProperties
<1>14. Ahead(d, t.sorted)
  <2> SUFFICES ASSUME NEW i \in DOMAIN d.edges, NEW l \in DOMAIN t.sorted, t.sorted[l] = d.edges[i].target
               PROVE  \E k \in 1..(l - 1) : t.sorted[k] = d.edges[i].source
    BY DEF Ahead
  <2>1. CASE l = Len(S) + 1
    <3>1. d.edges[i].source \in ToSet(S)
      BY <1>5, <1>13, <2>1 DEF Free
    <3>2. PICK k \in DOMAIN S : S[k] = d.edges[i].source
      BY <3>1 DEF ToSet
    <3> QED BY <1>13, <2>1, <3>2
  <2>2. CASE l \in 1..Len(S)
    <3>1. S[l] = d.edges[i].target /\ l \in DOMAIN S
      BY <1>13, <2>2
    <3>2. PICK k \in 1..(l - 1) : S[k] = d.edges[i].source
      BY <3>1 DEF Halfway, Ahead, S
    <3>3. k \in 1..Len(S)
      BY <1>13, <2>2, <3>2
    <3> QED BY <1>13, <3>2, <3>3
  <2> QED BY <1>13, <2>1, <2>2
<1>15. ASSUME NEW m \in Names(d), Free(d, ToSet(t.sorted), m)
       PROVE  m \in ToSet(t.sorted) \cup ToSet(t.queue)
  <2>1. Free(d, ToSet(S) \cup {h}, m)
    BY <1>9, <1>11, <1>15
  <2>2. CASE Free(d, ToSet(S), m)
    <3>1. m \in ToSet(S) \cup ToSet(s.queue)
      BY <2>2 DEF Halfway, S
    <3> QED BY <1>2, <1>9, <1>10, <1>11, <3>1
  <2>3. CASE ~Free(d, ToSet(S), m)
    <3>1. PICK i \in DOMAIN d.edges : d.edges[i].target = m /\ d.edges[i].source \notin ToSet(S)
      BY <2>3 DEF Free
    <3>2. d.edges[i].source = h
      BY <2>1, <3>1 DEF Free
    <3> QED BY <1>3, <1>10, <1>11, <2>1, <3>1, <3>2
  <2> QED BY <2>2, <2>3
<1>16. ToSet(t.sorted) \cap ToSet(t.queue) = {}
  BY <1>5, <1>2, <1>8, <1>9, <1>10, <1>11
<1>17. Halfway(d, t)
  BY <1>9, <1>10, <1>11, <1>12, <1>14, <1>15, <1>16 DEF Halfway
<1> QED BY <1>13, <1>17 DEF t, S

\* A name comes once: there are no more of them in the result than names.
LEMMA NoMoreThanNames ==
  ASSUME NEW d, Graph(d), NEW s, Halfway(d, s)
  PROVE  /\ IsFiniteSet(Names(d)) /\ Cardinality(Names(d)) \in Nat
         /\ Len(s.sorted) \in Nat /\ Len(s.sorted) <= Cardinality(Names(d))
<1> DEFINE nodes == [i \in 1..Len(d.nodes) |-> d.nodes[i].id]
           targets == [i \in 1..Len(d.edges) |-> d.edges[i].target]
           ends == {d.edges[i].target : i \in DOMAIN d.edges}
<1>1. IsFiniteSet(1..Len(d.nodes)) /\ IsFiniteSet(1..Len(d.edges))
  <2>1. Len(d.nodes) \in Int /\ Len(d.edges) \in Int /\ 1 \in Int
    BY DEF Graph
  <2> QED BY <2>1, FS_Interval
<1>2. nodes \in Surjection(1..Len(d.nodes), Ids(d)) /\ targets \in Surjection(1..Len(d.edges), ends)
  BY DEF Graph, Surjection, Ids
<1> HIDE DEF nodes, targets
<1>3. IsFiniteSet(Ids(d))
  BY <1>1, <1>2, FS_Surjection
<1>4. IsFiniteSet(ends)
  <2> HIDE DEF ends
  <2> QED BY <1>1, <1>2, FS_Surjection
<1>5. Names(d) = Ids(d) \cup ends
  BY DEF Names
<1> HIDE DEF ends
<1>6. IsFiniteSet(Names(d)) /\ Cardinality(Names(d)) \in Nat
  BY <1>3, <1>4, <1>5, FS_Union, FS_CardinalityType
<1>7. s.sorted \in Seq(Names(d)) /\ Distinct(s.sorted)
  BY DEF Halfway, Sorting
<1>8. Len(s.sorted) \in Nat /\ DOMAIN s.sorted = 1..Len(s.sorted) /\ s.sorted \in [1..Len(s.sorted) -> Names(d)]
  BY <1>7, LenProperties
<1>9. s.sorted \in Injection(1..Len(s.sorted), Names(d))
  BY <1>7, <1>8 DEF Distinct, Injection, IsInjective
<1>10. Cardinality(1..Len(s.sorted)) = Len(s.sorted)
  BY <1>8, FS_Interval
<1> QED BY <1>6, <1>8, <1>9, <1>10, FS_Injection

-----------------------------------------------------------------------------
(* That the loop ends where the invariant says, and that the function that *)
(* stands for it in TopologicalSort exists: a state's value is what every  *)
(* relation closed under the loop gives it.                                *)

Loops(d, f) ==
  f = [s \in Sorting(d) |-> IF s.queue = <<>> THEN s.sorted ELSE f[TakeFirst(d, s)]]

\* Each state of the loop is followed by one.
LEMMA TakesWithin ==
  ASSUME NEW d, Graph(d), NEW s \in Sorting(d), s.queue # <<>>
  PROVE  TakeFirst(d, s) \in Sorting(d)
<1> DEFINE h == Head(s.queue) rest == Tail(s.queue) R == Released(d, ToSet(s.sorted), h)
<1>1. s.sorted \in Seq(Names(d)) /\ s.queue \in Seq(Names(d))
  BY DEF Sorting
<1>2. h \in Names(d) /\ rest \in Seq(Names(d))
  BY <1>1, FirstAndRest
<1>3. R \in Seq(Names(d))
  BY ReleasedNames, Zenon DEF OnceEachFreed
<1>4. TakeFirst(d, s) = [queue |-> rest \o R, sorted |-> Append(s.sorted, h)]
  BY Zenon DEF TakeFirst
<1> HIDE DEF h, rest, R
<1>5. rest \o R \in Seq(Names(d)) /\ Append(s.sorted, h) \in Seq(Names(d))
  BY <1>1, <1>2, <1>3, OneBehindOther, OneMore
<1> QED BY <1>4, <1>5 DEF Sorting

LEMMA LoopExists ==
  ASSUME NEW d, Graph(d)
  PROVE  \E f : Loops(d, f)
<1> DEFINE All == Sorting(d) \X Seq(Names(d))
           Closed(C) ==
             \A s \in Sorting(d) : \A r \in Seq(Names(d)) :
               IF s.queue = <<>> THEN r = s.sorted => <<s, r>> \in C
               ELSE <<TakeFirst(d, s), r>> \in C => <<s, r>> \in C
           Results(s) == {r \in Seq(Names(d)) : \A C \in SUBSET All : Closed(C) => <<s, r>> \in C}
           f == [s \in Sorting(d) |-> CHOOSE r : r \in Results(s)]
<1>1. ASSUME NEW s \in Sorting(d), s.queue = <<>>
      PROVE  Results(s) = {s.sorted}
  <2>1. s.sorted \in Seq(Names(d))
    BY DEF Sorting
  <2>2. s.sorted \in Results(s)
    BY <1>1, <2>1
  <2>3. ASSUME NEW r \in Results(s), r # s.sorted
        PROVE  FALSE
    <3> DEFINE C == All \ {<<s, r>>}
    <3>1. Closed(C)
      <4> SUFFICES ASSUME NEW t \in Sorting(d), NEW q \in Seq(Names(d))
                   PROVE  IF t.queue = <<>> THEN q = t.sorted => <<t, q>> \in C
                          ELSE <<TakeFirst(d, t), q>> \in C => <<t, q>> \in C
        OBVIOUS
      <4>1. <<t, q>> \in All
        OBVIOUS
      <4>2. <<t, q>> = <<s, r>> => t = s /\ q = r
        OBVIOUS
      <4> QED BY <1>1, <2>3, <4>1, <4>2
    <3>2. C \in SUBSET All
      OBVIOUS
    <3>3. <<s, r>> \in C
      BY <3>1, <3>2
    <3> QED BY <3>3
  <2> QED BY <2>2, <2>3
<1>2. ASSUME NEW s \in Sorting(d), s.queue # <<>>
      PROVE  Results(s) = Results(TakeFirst(d, s))
  <2>1. TakeFirst(d, s) \in Sorting(d)
    BY <1>2, TakesWithin
  <2>2. ASSUME NEW r \in Results(TakeFirst(d, s))
        PROVE  r \in Results(s)
    BY <1>2
  <2>3. ASSUME NEW r \in Results(s)
        PROVE  r \in Results(TakeFirst(d, s))
    <3> SUFFICES ASSUME NEW C \in SUBSET All, Closed(C), <<TakeFirst(d, s), r>> \notin C
                 PROVE  FALSE
      OBVIOUS
    <3> DEFINE E == C \ {<<s, r>>}
    <3>1. Closed(E)
      <4> SUFFICES ASSUME NEW t \in Sorting(d), NEW q \in Seq(Names(d))
                   PROVE  IF t.queue = <<>> THEN q = t.sorted => <<t, q>> \in E
                          ELSE <<TakeFirst(d, t), q>> \in E => <<t, q>> \in E
        OBVIOUS
      <4>1. <<t, q>> = <<s, r>> => t = s /\ q = r
        OBVIOUS
      <4>2. IF t.queue = <<>> THEN q = t.sorted => <<t, q>> \in C
            ELSE <<TakeFirst(d, t), q>> \in C => <<t, q>> \in C
        OBVIOUS
      <4> QED BY <1>2, <4>1, <4>2
    <3>2. E \in SUBSET All
      OBVIOUS
    <3>3. <<s, r>> \in E
      BY <3>1, <3>2
    <3> QED BY <3>3
  <2> QED BY <2>2, <2>3
<1> HIDE DEF Results
<1>3. ASSUME NEW s \in Sorting(d)
      PROVE  f[s] = IF s.queue = <<>> THEN s.sorted ELSE f[TakeFirst(d, s)]
  <2>1. CASE s.queue = <<>>
    <3>1. f[s] \in Results(s)
      <4>1. \E r : r \in Results(s)
        BY <1>1, <2>1
      <4> QED BY <4>1
    <3> QED BY <1>1, <2>1, <3>1
  <2>2. CASE s.queue # <<>>
    <3>1. TakeFirst(d, s) \in Sorting(d) /\ Results(s) = Results(TakeFirst(d, s))
      BY <1>2, <2>2, TakesWithin
    <3> QED BY <2>2, <3>1
  <2> QED BY <2>1, <2>2
<1> HIDE DEF f
<1>4. f = [s \in Sorting(d) |-> f[s]]
  BY DEF f
<1> QED BY <1>3, <1>4 DEF Loops

\* From every state of the invariant the loop ends in a sorted result.
LEMMA LoopEnds ==
  ASSUME NEW d, Graph(d), NEW f, Loops(d, f), NEW s, Halfway(d, s)
  PROVE  SortedNames(d, f[s])
<1> DEFINE c == Cardinality(Names(d))
           Wrong(t) == Halfway(d, t) /\ ~SortedNames(d, f[t])
           K == {k \in Nat : \E t \in Sorting(d) : Wrong(t) /\ k = c - Len(t.sorted)}
<1>1. ASSUME NEW t, Halfway(d, t)
      PROVE  t \in Sorting(d) /\ c \in Nat /\ Len(t.sorted) \in Nat /\ c - Len(t.sorted) \in Nat
  <2>1. c \in Nat /\ Len(t.sorted) \in Nat /\ Len(t.sorted) <= c
    BY <1>1, NoMoreThanNames
  <2> HIDE DEF c
  <2> QED BY <1>1, <2>1 DEF Halfway
<1>2. ASSUME NEW t, Halfway(d, t)
      PROVE  f[t] = IF t.queue = <<>> THEN t.sorted ELSE f[TakeFirst(d, t)]
  BY <1>1, <1>2, Zenon DEF Loops
<1> SUFFICES ASSUME Wrong(s) PROVE FALSE
  OBVIOUS
<1>3. K \subseteq Nat /\ K # {}
  BY <1>1
<1>4. PICK k \in K : \A j \in K : k <= j
  <2> HIDE DEF K
  <2> QED BY <1>3, LeastExists
<1>5. PICK t \in Sorting(d) : Wrong(t) /\ k = c - Len(t.sorted)
  BY <1>4
<1>6. CASE t.queue = <<>>
  <2>1. f[t] = t.sorted /\ t.sorted \in Seq(Names(d)) /\ ToSet(t.queue) = {}
    BY <1>2, <1>5, <1>6 DEF Sorting, ToSet
  <2> QED BY <1>5, <2>1 DEF Halfway, SortedNames
<1>7. CASE t.queue # <<>>
  <2> DEFINE u == TakeFirst(d, t)
  <2>1. Halfway(d, u) /\ Len(u.sorted) = Len(t.sorted) + 1
    BY <1>5, <1>7, SortGoesOn
  <2>2. f[t] = f[u]
    BY <1>2, <1>5, <1>7
  <2> HIDE DEF u
  <2>3. Wrong(u)
    BY <1>5, <2>1, <2>2
  <2>4. /\ u \in Sorting(d) /\ c \in Nat /\ Len(t.sorted) \in Nat
        /\ c - Len(u.sorted) \in Nat
    BY <1>1, <1>5, <2>1
  <2> HIDE DEF c
  <2>5. c - Len(u.sorted) \in K
    BY <2>3, <2>4
  <2>6. k <= c - Len(u.sorted)
    BY <1>4, <2>5
  <2> QED BY <1>5, <2>1, <2>4, <2>6
<1> QED BY <1>6, <1>7

\* What _topological_sort returns: names that are distinct, each behind its
\* predecessors, and all that can be put behind them.
LEMMA SortReturns ==
  ASSUME NEW d, Graph(d)
  PROVE  SortedNames(d, TopologicalSort(d))
<1> DEFINE f == CHOOSE g : Loops(d, g)
           s == [queue |-> Roots(d), sorted |-> <<>>]
<1>1. Loops(d, f)
  BY LoopExists, Zenon
<1>2. TopologicalSort(d) = f[s]
  BY Zenon DEF TopologicalSort, Loops
<1>3. Halfway(d, s)
  BY SortStarts
<1> HIDE DEF f, s
<1> QED BY <1>1, <1>2, <1>3, LoopEnds

\* Nodes that all have a predecessor among them contain some that all have a
\* successor among them: the fewest such nodes do.
LEMMA PredecessorsMeanCycle ==
  ASSUME NEW d, NEW A, IsFiniteSet(A), A \subseteq Ids(d), A # {},
         \A n \in A : \E i \in DOMAIN d.edges : d.edges[i].target = n /\ d.edges[i].source \in A
  PROVE  Cyclic(d)
<1> DEFINE Fed(B) == B # {} /\ \A n \in B : \E i \in DOMAIN d.edges :
                                d.edges[i].target = n /\ d.edges[i].source \in B
           K == {k \in Nat : \E B \in SUBSET A : Fed(B) /\ k = Cardinality(B)}
<1>1. ASSUME NEW B \in SUBSET A
      PROVE  IsFiniteSet(B) /\ Cardinality(B) \in Nat
  <2>1. IsFiniteSet(B)
    BY FS_Subset
  <2> QED BY <2>1, FS_CardinalityType
<1>2. K \subseteq Nat /\ K # {}
  <2>1. Fed(A) /\ A \in SUBSET A
    OBVIOUS
  <2> QED BY <1>1, <2>1
<1>3. PICK k \in K : \A j \in K : k <= j
  <2> HIDE DEF K
  <2> QED BY <1>2, LeastExists
<1>4. PICK B \in SUBSET A : Fed(B) /\ k = Cardinality(B)
  BY <1>3
<1>5. ASSUME NEW n \in B
      PROVE  \E i \in DOMAIN d.edges : d.edges[i].source = n /\ d.edges[i].target \in B
  <2> SUFFICES ASSUME \A i \in DOMAIN d.edges : d.edges[i].source = n => d.edges[i].target \notin B
               PROVE  FALSE
    OBVIOUS
  <2> DEFINE E == B \ {n}
  <2>1. \A m \in B : \E i \in DOMAIN d.edges : d.edges[i].target = m /\ d.edges[i].source \in E
    BY <1>4
  <2>2. E \in SUBSET A /\ Fed(E)
    BY <1>5, <2>1
  <2>3. Cardinality(E) = Cardinality(B) - 1
    BY <1>1, <1>5, FS_RemoveElement
  <2> HIDE DEF E
  <2>4. Cardinality(E) \in K
    BY <1>1, <2>2
  <2> QED BY <1>1, <1>3, <1>4, <2>3, <2>4
<1>6. B \in (SUBSET Ids(d)) \ {{}}
  BY <1>4
<1> QED BY <1>5, <1>6 DEF Cyclic

\* A sort that serves the walk: no name comes twice and an edge's source comes
\* before its target, or else the graph has a cycle or names no node.
SortSound(d) ==
  LET sorted == TopologicalSort(d)
  IN  IF Rejected(d, sorted)
      THEN WellFormed(d) => Cyclic(d)
      ELSE /\ sorted \in Seq(Names(d))
           /\ \A i, j \in DOMAIN sorted : sorted[i] = sorted[j] => i = j
           /\ \A e \in ToSet(d.edges) : \A j \in DOMAIN sorted :
                sorted[j] = e.target => \E i \in 1..(j - 1) : sorted[i] = e.source

\* Whatever the client sent, parallel edges, cycles, edges to nodes that are
\* not there, two nodes of one id: the walk gets an order in which no name
\* comes twice and every source is ahead, and of the graphs whose edges join
\* nodes only a cyclic one is refused (_topological_sort).
THEOREM SortAlwaysSound == \A d \in Definitions : SortSound(d)
<1> SUFFICES ASSUME NEW d \in Definitions PROVE SortSound(d)
  OBVIOUS
<1>1. Graph(d)
  BY WorkflowAssumption DEF Graph
<1> DEFINE sorted == TopologicalSort(d)
<1>2. SortedNames(d, sorted)
  BY <1>1, SortReturns
<1> HIDE DEF sorted
<1>3. sorted \in Seq(Names(d)) /\ Distinct(sorted) /\ Ahead(d, sorted)
  BY <1>2 DEF SortedNames
<1>4. Len(sorted) \in Nat /\ DOMAIN sorted = 1..Len(sorted) /\ sorted \in [1..Len(sorted) -> Names(d)]
  BY <1>3, LenProperties
<1>5. ASSUME Rejected(d, sorted), WellFormed(d)
      PROVE  Cyclic(d)
  <2> DEFINE A == Ids(d) \ ToSet(sorted)
  <2>1. Names(d) = Ids(d) /\ Cardinality(Ids(d)) = Len(d.nodes)
    BY <1>5 DEF Names, WellFormed
  <2>2. IsFiniteSet(Ids(d))
    <3>1. Halfway(d, [queue |-> Roots(d), sorted |-> <<>>])
      BY <1>1, SortStarts
    <3> QED BY <1>1, <2>1, <3>1, NoMoreThanNames
  <2>3. A # {}
    <3> SUFFICES ASSUME Ids(d) \subseteq ToSet(sorted) PROVE FALSE
      OBVIOUS
    <3>1. sorted \in Bijection(1..Len(sorted), Ids(d))
      BY <1>3, <1>4, <2>1 DEF Distinct, ToSet, Bijection, Injection, Surjection, IsInjective
    <3>2. Cardinality(Ids(d)) = Len(sorted)
      BY <1>4, <3>1, FS_CountingElements DEF ExistsBijection
    <3> QED BY <1>5, <2>1, <3>2 DEF Rejected
  <2>4. A \in SUBSET Ids(d) /\ IsFiniteSet(A)
    <3>1. A \in SUBSET Ids(d)
      OBVIOUS
    <3> HIDE DEF A
    <3> QED BY <2>2, <3>1, FS_Subset
  <2>5. ASSUME NEW n \in A
        PROVE  \E i \in DOMAIN d.edges : d.edges[i].target = n /\ d.edges[i].source \in A
    <3>1. ~Free(d, ToSet(sorted), n)
      BY <1>2, <2>1 DEF SortedNames
    <3>2. PICK i \in DOMAIN d.edges : d.edges[i].target = n /\ d.edges[i].source \notin ToSet(sorted)
      BY <3>1 DEF Free
    <3>3. d.edges[i].source \in Ids(d)
      BY <1>5, <3>2 DEF WellFormed
    <3> QED BY <3>2, <3>3
  <2> HIDE DEF A
  <2> QED BY <2>3, <2>4, <2>5, PredecessorsMeanCycle
<1>6. \A i, j \in DOMAIN sorted : sorted[i] = sorted[j] => i = j
  BY <1>3 DEF Distinct
<1>7. \A e \in ToSet(d.edges) : \A j \in DOMAIN sorted :
        sorted[j] = e.target => \E i \in 1..(j - 1) : sorted[i] = e.source
  BY <1>3 DEF Ahead, ToSet
<1> QED BY <1>3, <1>5, <1>6, <1>7, Zenon DEF SortSound, sorted

-----------------------------------------------------------------------------
(* The walk.  Where it has been, a node ran if and only if it should have,  *)
(* and that stays so: the sources of its edges were visited before it.      *)

InOrder == order = TopologicalSort(def) /\ ~Rejected(def, order)

Visited(k) ==
  /\ order[k] \in Ids(def)
  /\ order[k] \in DOMAIN handles <=> order[k] \in Triggers \cup Ran
  /\ order[k] \notin Triggers => (order[k] \in Ran <=> ShouldRun(order[k]))

Walked ==
  /\ InOrder /\ at \in 1..(Len(order) + 1)
  /\ \A k \in 1..(at - 1) : Visited(k)
  /\ DOMAIN handles \subseteq {order[k] : k \in 1..(at - 1)}

\* The step's node has been visited, or it is the one being executed.
StepAt(i) ==
  \E k \in DOMAIN order :
    /\ k <= at /\ order[k] = steps[i].node
    /\ pc = "walk" \/ (pc = "node" /\ i # Len(steps)) => k < at

Placed ==
  /\ \A i \in DOMAIN steps : StepAt(i)
  /\ \A i, j \in DOMAIN steps : i < j =>
       \A k, l \in DOMAIN order : order[k] = steps[i].node /\ order[l] = steps[j].node => k < l

WalkInv ==
  /\ StoryInv
  /\ pc \in {"request", "background", "sort"} => at = 1 /\ DOMAIN handles = {}
  /\ pc \in {"walk", "node"} \/ run = "completed" => Walked
  /\ run = "completed" => at = Len(order) + 1
  /\ pc = "node" => at <= Len(order) /\ Node \notin Triggers /\ Node \in Ids(def) /\ ShouldRun(Node)
  /\ Placed
  /\ steps # <<>> => InOrder
  /\ run = "failed" /\ steps = <<>> => Rejected(def, TopologicalSort(def))

-----------------------------------------------------------------------------
LEMMA OrderFacts ==
  ASSUME SortSound(def), InOrder
  PROVE  /\ order \in Seq(Names(def)) /\ Len(order) \in Nat /\ DOMAIN order = 1..Len(order)
         /\ Len(order) = Len(def.nodes)
         /\ \A i, j \in DOMAIN order : order[i] = order[j] => i = j
         /\ \A n : \A e \in Incoming(def, n) : \A j \in DOMAIN order :
              order[j] = n => \E i \in 1..(j - 1) : order[i] = e.source
<1>1. /\ order \in Seq(Names(def))
      /\ \A i, j \in DOMAIN order : order[i] = order[j] => i = j
      /\ \A e \in ToSet(def.edges) : \A j \in DOMAIN order :
           order[j] = e.target => \E i \in 1..(j - 1) : order[i] = e.source
  BY DEF SortSound, InOrder
<1>2. Len(order) \in Nat /\ DOMAIN order = 1..Len(order)
  BY <1>1, LenProperties
<1>3. Len(order) = Len(def.nodes)
  BY DEF InOrder, Rejected
<1>4. \A n : \A e \in Incoming(def, n) : e \in ToSet(def.edges) /\ e.target = n
  BY DEF Incoming, ToSet
<1> QED BY <1>1, <1>2, <1>3, <1>4

\* An order of nodes only has them all.
LEMMA OrderCovers ==
  ASSUME def \in Definitions, SortSound(def), InOrder, \A k \in 1..Len(order) : order[k] \in Ids(def)
  PROVE  \A n \in Ids(def) : \E k \in 1..Len(order) : order[k] = n
<1> DEFINE named == [i \in 1..Len(def.nodes) |-> def.nodes[i].id]
<1>1. Len(def.nodes) \in Nat /\ DOMAIN def.nodes = 1..Len(def.nodes)
  BY WorkflowAssumption
<1>2. /\ order \in Seq(Names(def)) /\ Len(order) \in Nat /\ DOMAIN order = 1..Len(order)
      /\ Len(order) = Len(def.nodes) /\ \A i, j \in DOMAIN order : order[i] = order[j] => i = j
  BY OrderFacts
<1>3. IsFiniteSet(1..Len(order)) /\ Cardinality(1..Len(order)) = Len(order)
  BY <1>2, FS_Interval
<1>4. named \in Surjection(1..Len(def.nodes), Ids(def))
  BY <1>1 DEF Surjection, Ids
<1>5. IsFiniteSet(Ids(def)) /\ Cardinality(Ids(def)) <= Len(order)
  BY <1>2, <1>3, <1>4, FS_Surjection
<1>6. order \in Injection(1..Len(order), Ids(def))
  <2>1. order = [k \in 1..Len(order) |-> order[k]]
    BY <1>2, SeqDef
  <2>2. order \in [1..Len(order) -> Ids(def)]
    BY <2>1
  <2> QED BY <1>2, <2>2 DEF Injection, IsInjective
<1>7. Len(order) <= Cardinality(Ids(def)) /\ (Len(order) = Cardinality(Ids(def)) <=> order \in Surjection(1..Len(order), Ids(def)))
  BY <1>3, <1>5, <1>6, FS_Injection
<1>8. Cardinality(Ids(def)) \in Nat
  BY <1>5, FS_CardinalityType
<1>9. order \in Surjection(1..Len(order), Ids(def))
  BY <1>2, <1>5, <1>7, <1>8
<1> QED BY <1>9 DEF Surjection

\* The handles of other nodes are kept when a node is visited.
HandlesKept ==
  /\ DOMAIN handles \subseteq DOMAIN handles' /\ DOMAIN handles' \subseteq DOMAIN handles \cup {Node}
  /\ \A m \in DOMAIN handles \ {Node} : handles'[m] = handles[m]

\* Whether a node should run does not change once it was visited.
LEMMA ShouldRunStays ==
  ASSUME SortSound(def), InOrder, at \in 1..Len(order), NEW k \in 1..at, UNCHANGED <<def, order>>, HandlesKept
  PROVE  ShouldRun(order[k])' <=> ShouldRun(order[k])
<1>1. /\ Len(order) \in Nat /\ DOMAIN order = 1..Len(order)
      /\ \A i, j \in DOMAIN order : order[i] = order[j] => i = j
      /\ \A n : \A e \in Incoming(def, n) : \A j \in DOMAIN order :
           order[j] = n => \E i \in 1..(j - 1) : order[i] = e.source
  BY OrderFacts
<1>2. ASSUME NEW e \in Incoming(def, order[k])
      PROVE  Active(e)' <=> Active(e)
  <2>1. k \in DOMAIN order /\ at \in DOMAIN order /\ k <= at
    BY <1>1
  <2>2. PICK i \in 1..(k - 1) : order[i] = e.source
    BY <1>1, <1>2, <2>1
  <2>3. i \in DOMAIN order /\ i # at
    BY <1>1, <2>1, <2>2
  <2>4. e.source # Node
    BY <1>1, <2>1, <2>2, <2>3 DEF Node
  <2>5. (e.source \in DOMAIN handles)' <=> e.source \in DOMAIN handles
    BY <2>4 DEF HandlesKept
  <2>6. e.source \in DOMAIN handles => handles'[e.source] = handles[e.source]
    BY <2>4 DEF HandlesKept
  <2> QED BY <2>5, <2>6 DEF Active
<1>3. Incoming(def, order[k])' = Incoming(def, order[k])
  BY DEF Incoming
<1> QED BY <1>2, <1>3 DEF ShouldRun

LEMMA VisitedStays ==
  ASSUME SortSound(def), Walked, at \in 1..Len(order), NEW k \in 1..(at - 1), UNCHANGED <<def, order>>, HandlesKept,
         Ran' \ {Node} = Ran \ {Node}
  PROVE  Visited(k)'
<1>1. /\ Len(order) \in Nat /\ DOMAIN order = 1..Len(order)
      /\ \A i, j \in DOMAIN order : order[i] = order[j] => i = j
  BY OrderFacts DEF Walked
<1>2. k \in DOMAIN order /\ at \in DOMAIN order /\ k # at /\ k \in 1..at
  BY <1>1
<1>3. order[k] # Node
  BY <1>1, <1>2 DEF Node
<1>4. Visited(k)
  BY DEF Walked
<1>5. ShouldRun(order[k])' <=> ShouldRun(order[k])
  BY <1>2, ShouldRunStays DEF Walked
<1>6. (order[k] \in Ran)' <=> order[k] \in Ran
  BY <1>3
<1>7. (order[k] \in DOMAIN handles)' <=> order[k] \in DOMAIN handles
  BY <1>3 DEF HandlesKept
<1>8. Triggers' = Triggers /\ Ids(def)' = Ids(def)
  BY DEF Triggers
<1> QED BY <1>4, <1>5, <1>6, <1>7, <1>8 DEF Visited

\* The walk goes on to the next node, once this one has been visited.
LEMMA WalkedOn ==
  ASSUME SortSound(def), Walked, at \in 1..Len(order), UNCHANGED <<def, order>>, HandlesKept,
         Ran' \ {Node} = Ran \ {Node}, at' = at + 1, NEW here, here = at, Visited(here)'
  PROVE  Walked'
<1>1. Len(order) \in Nat /\ InOrder /\ DOMAIN handles \subseteq {order[k] : k \in 1..(at - 1)}
  BY OrderFacts DEF Walked
<1>2. InOrder' /\ at' \in 1..(Len(order') + 1)
  BY <1>1 DEF InOrder
<1>3. ASSUME NEW k \in 1..(at' - 1)
      PROVE  Visited(k)'
  <2>1. k = at \/ k \in 1..(at - 1)
    BY <1>1, <1>3
  <2>2. CASE k \in 1..(at - 1)
    BY <2>2, VisitedStays
  <2>3. CASE k = here
    BY <2>3
  <2> QED BY <2>1, <2>2, <2>3
<1>4. DOMAIN handles' \subseteq {order'[k] : k \in 1..(at' - 1)}
  BY <1>1 DEF HandlesKept, Node
<1> QED BY <1>2, <1>3, <1>4 DEF Walked
-----------------------------------------------------------------------------
\* Steps that change no step leave them where they are.
LEMMA PlacedStays ==
  ASSUME Placed, steps # <<>> => DOMAIN order \subseteq Nat, UNCHANGED <<steps, order>>,
         at \in Nat, at' \in Nat, at <= at', pc' = "walk" => pc = "walk", pc' # "node"
  PROVE  Placed'
<1>1. ASSUME NEW i \in DOMAIN steps
      PROVE  StepAt(i)'
  <2>1. PICK k \in DOMAIN order :
          /\ k <= at /\ order[k] = steps[i].node
          /\ pc = "walk" \/ (pc = "node" /\ i # Len(steps)) => k < at
    BY <1>1 DEF Placed, StepAt
  <2>2. k \in Nat
    BY <1>1
  <2> QED BY <2>1, <2>2 DEF StepAt
<1> QED BY <1>1 DEF Placed

LEMMA WalkStarts == Init => WalkInv
<1> SUFFICES ASSUME Init PROVE WalkInv
  OBVIOUS
<1>1. StoryInv
  BY StoryStarts
<1>2. steps = <<>> /\ DOMAIN steps = {} /\ DOMAIN handles = {} /\ at = 1 /\ pc = "request" /\ run = "absent"
  BY DEF Init
<1> QED BY <1>1, <1>2 DEF WalkInv, Placed

\* What the steps before the walk, and those that end it, leave alone.
LEMMA WalkOutside ==
  ASSUME WalkInv, SortSound(def), Trigger \/ Begin \/ Sort \/ UnknownNode \/ Finish \/ Fault
  PROVE  WalkInv'
<1>1. StoryInv' /\ StoryInv /\ Placed
  BY StoryStep DEF WalkInv, Next, Proceed
<1>2. UNCHANGED <<def, steps, at, handles>> /\ at \in Nat \ {0} /\ pc' # "node"
  BY <1>1 DEF Trigger, Begin, Sort, UnknownNode, Finish, Fault, StoryInv, WorkflowTypes
<1>3. steps # <<>> => InOrder /\ DOMAIN order \subseteq Nat
  BY OrderFacts DEF WalkInv
<1>4. CASE Trigger \/ Begin
  <2>1. steps = <<>> /\ DOMAIN steps = {} /\ at = 1 /\ DOMAIN handles = {} /\ pc' \notin {"walk", "node"}
        /\ run' # "completed" /\ (run' = "failed" => run = "failed") /\ order' = order
    BY <1>1, <1>4 DEF WalkInv, StoryInv, StoryTold, Trigger, Begin
  <2> QED BY <1>1, <1>2, <2>1 DEF WalkInv, Placed
<1>5. CASE Sort
  <2>1. steps = <<>> /\ DOMAIN steps = {} /\ at = 1 /\ DOMAIN handles = {} /\ run # "completed"
    BY <1>1, <1>5 DEF WalkInv, StoryInv, StoryTold, Sort
  <2>2. CASE Rejected(def, TopologicalSort(def))
    <3>1. pc' = "done" /\ run' = "failed"
      BY <1>5, <2>2 DEF Sort
    <3> QED BY <1>1, <1>2, <2>1, <2>2, <3>1 DEF WalkInv, Placed
  <2>3. CASE ~Rejected(def, TopologicalSort(def))
    <3>1. pc' = "walk" /\ order' = TopologicalSort(def) /\ run' = run
      BY <1>5, <2>3 DEF Sort
    <3>2. run = "failed" => Rejected(def, TopologicalSort(def))
      BY <2>1 DEF WalkInv
    <3>3. InOrder'
      BY <1>2, <2>3, <3>1 DEF InOrder
    <3>4. Len(order') \in Nat
      BY <2>3, <3>1, LenProperties DEF SortSound
    <3>5. Walked'
      BY <1>2, <2>1, <3>3, <3>4 DEF Walked
    <3> QED BY <1>1, <1>2, <2>1, <2>3, <3>1, <3>2, <3>5 DEF WalkInv, Placed
  <2> QED BY <2>2, <2>3
<1>6. CASE UnknownNode \/ Fault
  <2>1. order' = order /\ run' = run /\ pc' = "escaped"
    BY <1>6 DEF UnknownNode, Fault
  <2>2. run # "completed"
    BY <1>1, <1>6 DEF StoryInv, StoryTold, UnknownNode, Fault, Visiting
  <2>3. Placed'
    BY <1>1, <1>2, <1>3, <2>1, PlacedStays
  <2> QED BY <1>1, <1>2, <2>1, <2>2, <2>3 DEF WalkInv, InOrder
<1>7. CASE Finish
  <2>1. order' = order /\ run' = "completed" /\ pc' = "done" /\ pc = "walk" /\ at > Len(order)
    BY <1>7 DEF Finish
  <2>2. Placed'
    BY <1>1, <1>2, <1>3, <2>1, PlacedStays
  <2>3. Walked /\ Len(order) \in Nat
    BY <2>1, OrderFacts DEF WalkInv, Walked
  <2>4. at = Len(order) + 1
    BY <2>1, <2>3 DEF Walked
  <2>5. Walked'
    <3>1. ASSUME NEW k
          PROVE  Visited(k)' <=> Visited(k)
      BY <1>2, <2>1 DEF Visited, Triggers, Ran, ShouldRun, Active, Incoming
    <3>2. InOrder' <=> InOrder
      BY <1>2, <2>1 DEF InOrder
    <3> QED BY <1>2, <2>1, <2>3, <3>1, <3>2 DEF Walked
  <2> QED BY <1>1, <1>2, <2>1, <2>2, <2>4, <2>5 DEF WalkInv, InOrder
<1> QED BY <1>4, <1>5, <1>6, <1>7

\* A node is passed over, or a trigger is: no step is added.
LEMMA WalkPasses ==
  ASSUME WalkInv, SortSound(def), VisitTrigger \/ Skip
  PROVE  WalkInv'
<1>1. StoryInv' /\ StoryInv /\ Placed
  BY StoryStep DEF WalkInv, Next, Proceed
<1>2. /\ UNCHANGED <<def, steps, pc, run, order>> /\ at \in Nat \ {0} /\ at' = at + 1 /\ pc = "walk" /\ at <= Len(order)
      /\ Node \in Ids(def) /\ run # "completed"
  BY <1>1 DEF VisitTrigger, Skip, Visiting, StoryInv, WorkflowTypes, StoryTold
<1>3. /\ Walked /\ InOrder /\ Len(order) \in Nat /\ at \in 1..Len(order) /\ DOMAIN order = 1..Len(order)
      /\ \A i, j \in DOMAIN order : order[i] = order[j] => i = j
  BY <1>2, OrderFacts DEF WalkInv, Walked
<1>4. HandlesKept /\ Ran' = Ran
  BY <1>2 DEF VisitTrigger, Skip, Complete, HandlesKept, Ran
<1>5. Placed'
  BY <1>1, <1>2, <1>3, PlacedStays
<1>6. Node \notin Ran
  <2> SUFFICES ASSUME NEW i \in DOMAIN steps, steps[i].node = Node PROVE FALSE
    BY DEF Ran
  <2>1. PICK k \in DOMAIN order : order[k] = steps[i].node /\ k < at
    BY <1>1, <1>2 DEF Placed, StepAt
  <2> QED BY <1>3, <2>1 DEF Node
<1>7. ASSUME NEW here, here = at
      PROVE  Visited(here)'
  <2>1. order[here] = Node /\ order'[here] = Node /\ Triggers' = Triggers /\ Ids(def)' = Ids(def)
    BY <1>2, <1>7 DEF Node, Triggers
  <2>2. CASE VisitTrigger
    <3>1. Node \in Triggers /\ Node \in DOMAIN handles'
      BY <1>2, <2>2 DEF VisitTrigger, Triggers, Complete
    <3> QED BY <1>2, <2>1, <3>1 DEF Visited
  <2>3. CASE Skip
    <3>1. Node \notin Triggers /\ ~ShouldRun(Node) /\ handles' = handles
      BY <2>3 DEF Skip, Triggers
    <3>2. Node \notin DOMAIN handles
      BY <1>3, <1>2 DEF Walked, Node
    <3>3. ~ShouldRun(order[here])'
      <4>1. UNCHANGED <<def, order, handles>>
        BY <1>2, <3>1
      <4>2. ShouldRun(order[here])' <=> ShouldRun(order[here])
        BY <4>1 DEF ShouldRun, Active, Incoming
      <4> QED BY <2>1, <3>1, <4>2
    <3> QED BY <1>2, <1>4, <1>6, <2>1, <3>1, <3>2, <3>3 DEF Visited
  <2> QED BY <2>2, <2>3
<1>8. Walked'
  BY <1>2, <1>3, <1>4, <1>7, WalkedOn
<1> QED BY <1>1, <1>2, <1>5, <1>8 DEF WalkInv, InOrder

\* A step is added for the node.
LEMMA WalkStartsStep ==
  ASSUME WalkInv, SortSound(def), StartStep
  PROVE  WalkInv'
<1> DEFINE r == [node |-> Node, status |-> "running"]
<1>1. StoryInv' /\ StoryInv /\ Placed
  BY StoryStep DEF WalkInv, Next, Proceed
<1>2. /\ UNCHANGED <<def, run, order, at, handles>> /\ at \in Nat \ {0} /\ pc = "walk" /\ pc' = "node" /\ at <= Len(order)
      /\ Node \in Ids(def) /\ Node \notin Triggers /\ ShouldRun(Node) /\ run # "completed"
      /\ steps' = Append(steps, r) /\ steps \in Seq(StepRows)
  BY <1>1 DEF StartStep, Visiting, Triggers, StoryInv, WorkflowTypes, StoryTold
<1>3. /\ Walked /\ InOrder /\ Len(order) \in Nat /\ at \in 1..Len(order) /\ DOMAIN order = 1..Len(order)
      /\ \A i, j \in DOMAIN order : order[i] = order[j] => i = j
  BY <1>2, OrderFacts DEF WalkInv, Walked
<1>4. r \in StepRows /\ r.node = Node
  BY <1>2 DEF StepRows, Statuses
<1> HIDE DEF r
<1>5. /\ steps' # <<>> /\ Len(steps) \in Nat /\ Len(steps') = Len(steps) + 1 /\ steps'[Len(steps) + 1] = r
      /\ DOMAIN steps = 1..Len(steps) /\ DOMAIN steps' = 1..(Len(steps) + 1)
      /\ \A i \in DOMAIN steps : steps'[i] = steps[i]
  <2>1. /\ steps' # <<>> /\ Len(steps) \in Nat /\ Len(steps') = Len(steps) + 1 /\ steps'[Len(steps')] = r
        /\ DOMAIN steps = 1..Len(steps) /\ DOMAIN steps' = 1..(Len(steps) + 1)
        /\ \A i \in DOMAIN steps : steps'[i] = steps[i]
    BY <1>2, <1>4, StepAdded
  <2> QED BY <2>1
<1>6. \A i \in DOMAIN steps' : i = Len(steps) + 1 \/ i \in DOMAIN steps
  BY <1>5
<1>7. ASSUME NEW i \in DOMAIN steps
      PROVE  \E k \in DOMAIN order : order[k] = steps[i].node /\ k < at
  BY <1>1, <1>2 DEF Placed, StepAt
<1>8. Placed'
  <2>1. ASSUME NEW i \in DOMAIN steps'
        PROVE  StepAt(i)'
    <3>1. CASE i = Len(steps) + 1
      BY <1>2, <1>3, <1>4, <1>5, <3>1 DEF StepAt, Node
    <3>2. CASE i \in DOMAIN steps
      <4>1. PICK k \in DOMAIN order : order[k] = steps[i].node /\ k < at
        BY <1>7, <3>2
      <4>2. k <= at
        BY <1>3, <4>1
      <4> QED BY <1>2, <1>5, <3>2, <4>1, <4>2 DEF StepAt
    <3> QED BY <1>6, <3>1, <3>2
  <2>2. ASSUME NEW i \in DOMAIN steps', NEW j \in DOMAIN steps', i < j,
               NEW k \in DOMAIN order, NEW l \in DOMAIN order, order[k] = steps'[i].node, order[l] = steps'[j].node
        PROVE  k < l
    <3>1. i \in DOMAIN steps
      BY <1>5, <1>6, <2>2
    <3>2. CASE j \in DOMAIN steps
      BY <1>1, <1>5, <2>2, <3>1, <3>2 DEF Placed
    <3>3. CASE j = Len(steps) + 1
      <4>1. l = at
        BY <1>3, <1>4, <1>5, <2>2, <3>3 DEF Node
      <4>2. PICK m \in DOMAIN order : order[m] = steps[i].node /\ m < at
        BY <1>7, <3>1
      <4>3. m = k
        BY <1>3, <1>5, <2>2, <3>1, <4>2
      <4> QED BY <4>1, <4>2, <4>3
    <3> QED BY <1>6, <3>2, <3>3
  <2> QED BY <1>2, <2>1, <2>2 DEF Placed
<1>9. Ran' \ {Node} = Ran \ {Node} /\ HandlesKept
  <2>1. Ran' \subseteq Ran \cup {Node} /\ Ran \subseteq Ran'
    BY <1>4, <1>5, <1>6 DEF Ran
  <2> QED BY <1>2, <2>1 DEF HandlesKept
<1>10. \A k \in 1..(at - 1) : Visited(k)'
  BY <1>2, <1>3, <1>9, VisitedStays
<1>11. InOrder'
  BY <1>2, <1>3 DEF InOrder
<1>12. Walked'
  BY <1>2, <1>3, <1>10, <1>11 DEF Walked
<1>13. Node' = Node /\ Triggers' = Triggers /\ Ids(def)' = Ids(def) /\ (ShouldRun(Node)' <=> ShouldRun(Node))
  BY <1>2 DEF Node, Triggers, ShouldRun, Active, Incoming
<1> QED BY <1>1, <1>2, <1>5, <1>8, <1>11, <1>12, <1>13 DEF WalkInv

\* The node's step ends, and its run with it when the node raises.
LEMMA WalkEndsStep ==
  ASSUME WalkInv, SortSound(def), NodeReturns \/ NodeRaises
  PROVE  WalkInv'
<1>1. StoryInv' /\ StoryInv /\ Placed /\ StoryTold /\ WorkflowTypes
  BY StoryStep DEF WalkInv, Next, Proceed, StoryInv
<1>2. /\ UNCHANGED <<def, order>> /\ at \in Nat \ {0} /\ pc = "node" /\ at <= Len(order)
      /\ Node \in Ids(def) /\ Node \notin Triggers /\ ShouldRun(Node) /\ run # "completed"
      /\ steps # <<>> /\ steps[Len(steps)].node = Node
      /\ at' \in {at, at + 1}
  BY <1>1 DEF NodeReturns, NodeRaises, WalkInv, StoryTold, WorkflowTypes
<1>3. /\ Walked /\ InOrder /\ Len(order) \in Nat /\ at \in 1..Len(order) /\ DOMAIN order = 1..Len(order)
      /\ \A i, j \in DOMAIN order : order[i] = order[j] => i = j
  BY <1>2, OrderFacts DEF WalkInv, Walked
<1>4. PICK what \in Statuses : SetStep(what)
  BY DEF NodeReturns, NodeRaises, Statuses
<1>5. /\ steps' # <<>> /\ Len(steps) \in Nat \ {0} /\ DOMAIN steps = 1..Len(steps) /\ DOMAIN steps' = DOMAIN steps
      /\ \A i \in DOMAIN steps : steps'[i].node = steps[i].node
  <2>1. /\ steps' # <<>> /\ Len(steps) \in Nat \ {0} /\ DOMAIN steps = 1..Len(steps) /\ DOMAIN steps' = 1..Len(steps)
        /\ \A i \in DOMAIN steps : steps'[i].node = steps[i].node
    BY <1>1, <1>2, <1>4, StepSet
  <2> QED BY <2>1
<1>6. Ran' = Ran /\ Node \in Ran
  <2>1. Len(steps) \in DOMAIN steps
    BY <1>5
  <2> QED BY <1>2, <1>5, <2>1 DEF Ran
<1>7. Placed'
  <2>1. ASSUME NEW i \in DOMAIN steps'
        PROVE  StepAt(i)'
    <3>1. PICK k \in DOMAIN order : k <= at /\ order[k] = steps[i].node
      BY <1>1, <1>5, <2>1 DEF Placed, StepAt
    <3>2. k \in Nat
      BY <1>3
    <3>3. CASE NodeReturns
      BY <1>2, <1>5, <2>1, <3>1, <3>2, <3>3 DEF StepAt, NodeReturns
    <3>4. CASE NodeRaises
      BY <1>2, <1>5, <2>1, <3>1, <3>2, <3>4 DEF StepAt, NodeRaises
    <3> QED BY <3>3, <3>4
  <2>2. \A i, j \in DOMAIN steps' : i < j =>
          \A k, l \in DOMAIN order' : order'[k] = steps'[i].node /\ order'[l] = steps'[j].node => k < l
    BY <1>1, <1>2, <1>5 DEF Placed
  <2> QED BY <2>1, <2>2 DEF Placed
<1>8. InOrder'
  BY <1>2, <1>3 DEF InOrder
<1>9. CASE NodeReturns
  <2>1. at' = at + 1 /\ pc' = "walk" /\ run' = run
    BY <1>9 DEF NodeReturns
  <2>2. HandlesKept /\ Node \in DOMAIN handles'
    BY <1>9 DEF NodeReturns, Complete, HandlesKept
  <2>3. ASSUME NEW here, here = at
        PROVE  Visited(here)'
    <3>1. order'[here] = Node /\ order[here] = Node /\ Triggers' = Triggers /\ Ids(def)' = Ids(def) /\ here \in 1..at
      BY <1>2, <1>3, <2>3 DEF Node, Triggers
    <3>2. ShouldRun(order[here])'
      BY <1>2, <1>3, <2>2, <3>1, ShouldRunStays
    <3> QED BY <1>2, <1>6, <2>2, <3>1, <3>2 DEF Visited
  <2>4. Walked'
    BY <1>2, <1>3, <1>6, <2>1, <2>2, <2>3, WalkedOn
  <2> QED BY <1>1, <1>2, <1>5, <1>7, <1>8, <2>1, <2>4 DEF WalkInv
<1>10. CASE NodeRaises
  BY <1>1, <1>2, <1>5, <1>7, <1>8, <1>10 DEF NodeRaises, WalkInv
<1> QED BY <1>9, <1>10

LEMMA WalkStep ==
  ASSUME WalkInv, [Next]_vars
  PROVE  WalkInv'
<1>1. SortSound(def)
  BY SortAlwaysSound DEF WalkInv, StoryInv, WorkflowTypes
<1>2. CASE Ended \/ UNCHANGED vars
  <2>1. StoryInv' /\ UNCHANGED vars
    BY <1>2, StoryStep DEF WalkInv, Ended
  <2>2. UNCHANGED <<def, pc, run, steps, order, at, handles>>
    BY <2>1 DEF vars
  <2>3. \A k : Visited(k)' <=> Visited(k)
    BY <2>2 DEF Visited, Triggers, Ran, ShouldRun, Active, Incoming
  <2>4. (InOrder' <=> InOrder) /\ (Walked' <=> Walked)
    BY <2>2, <2>3 DEF InOrder, Walked
  <2>5. Placed' <=> Placed
    BY <2>2 DEF Placed, StepAt
  <2>6. Node' = Node /\ Triggers' = Triggers /\ Ids(def)' = Ids(def) /\ (ShouldRun(Node)' <=> ShouldRun(Node))
    BY <2>2 DEF Node, Triggers, ShouldRun, Active, Incoming
  <2> QED BY <2>1, <2>2, <2>4, <2>5, <2>6 DEF WalkInv
<1> QED BY <1>1, <1>2, WalkOutside, WalkPasses, WalkStartsStep, WalkEndsStep DEF Next, Proceed

-----------------------------------------------------------------------------
\* Where the run is completed, every node has been visited.
LEMMA AllVisited ==
  ASSUME WalkInv, SortSound(def), run = "completed"
  PROVE  \A n \in Ids(def) : \E k \in DOMAIN order : order[k] = n /\ k \in 1..(at - 1)
<1>1. Walked /\ InOrder /\ at = Len(order) + 1 /\ def \in Definitions
  BY DEF WalkInv, StoryInv, WorkflowTypes, Walked
<1>2. Len(order) \in Nat /\ DOMAIN order = 1..Len(order)
  BY <1>1, OrderFacts
<1>3. \A k \in 1..Len(order) : order[k] \in Ids(def)
  BY <1>1, <1>2 DEF Walked, Visited
<1> QED BY <1>1, <1>2, <1>3, OrderCovers

\* For any definitions, a completed run visited exactly the nodes on the
\* branches its conditions took (executor.py, the gate of a node by its
\* incoming edges).
THEOREM BranchesAlwaysFollowed == Spec => []BranchesFollowed
<1>1. ASSUME WalkInv
      PROVE  BranchesFollowed
  <2> SUFFICES ASSUME run = "completed", NEW n \in Ids(def) \ Triggers
        PROVE  n \in Ran <=> \/ \A i \in DOMAIN def.edges : def.edges[i].target # n
                             \/ \E e \in ToSet(def.edges) :
                                  /\ e.target = n /\ e.source \in Ran \cup Triggers
                                  /\ e.handle # NoHandle => e.handle = handles[e.source]
    BY DEF BranchesFollowed
  <2>1. SortSound(def) /\ Walked /\ InOrder
    BY <1>1, SortAlwaysSound DEF WalkInv, StoryInv, WorkflowTypes, Walked
  <2>2. PICK k \in DOMAIN order : order[k] = n /\ k \in 1..(at - 1)
    BY <1>1, <2>1, AllVisited
  <2>3. n \in Ran <=> ShouldRun(n)
    BY <2>1, <2>2 DEF Walked, Visited
  <2>4. Incoming(def, n) = {e \in ToSet(def.edges) : e.target = n}
    BY DEF Incoming, ToSet
  <2>5. Incoming(def, n) = {} <=> \A i \in DOMAIN def.edges : def.edges[i].target # n
    BY DEF Incoming
  <2>6. ASSUME NEW e \in Incoming(def, n)
        PROVE  e.source \in DOMAIN handles <=> e.source \in Ran \cup Triggers
    <3>1. PICK i \in 1..(k - 1) : order[i] = e.source
      BY <2>1, <2>2, OrderFacts
    <3>2. i \in 1..(at - 1)
      BY <2>1, <2>2, <3>1, OrderFacts DEF Walked
    <3> QED BY <2>1, <3>1, <3>2 DEF Walked, Visited
  <2>7. \A e \in Incoming(def, n) : Active(e) <=> /\ e.source \in Ran \cup Triggers
                                                  /\ e.handle # NoHandle => e.handle = handles[e.source]
    BY <2>6 DEF Active
  <2> QED BY <2>3, <2>4, <2>5, <2>7 DEF ShouldRun
<1> QED BY <1>1, WalkStarts, WalkStep, PTL DEF Spec

-----------------------------------------------------------------------------
\* A graph whose nodes all come behind their predecessors has no cycle.
LEMMA SortedAcyclic ==
  ASSUME def \in Definitions, SortSound(def), InOrder, WellFormed(def)
  PROVE  ~Cyclic(def)
<1>1. /\ order \in Seq(Names(def)) /\ Len(order) \in Nat /\ DOMAIN order = 1..Len(order)
      /\ \A i, j \in DOMAIN order : order[i] = order[j] => i = j
      /\ \A n : \A e \in Incoming(def, n) : \A j \in DOMAIN order :
           order[j] = n => \E i \in 1..(j - 1) : order[i] = e.source
  BY OrderFacts
<1>2. Names(def) = Ids(def)
  BY DEF Names, WellFormed
<1>3. \A n \in Ids(def) : \E k \in 1..Len(order) : order[k] = n
  <2>1. \A k \in 1..Len(order) : order[k] \in Ids(def)
    BY <1>1, <1>2, ElementOfSeq
  <2> QED BY <2>1, OrderCovers
<1> SUFFICES ASSUME NEW S \in (SUBSET Ids(def)) \ {{}},
                    \A n \in S : \E i \in DOMAIN def.edges : def.edges[i].source = n /\ def.edges[i].target \in S
             PROVE  FALSE
  BY DEF Cyclic
<1> DEFINE places == {k \in 1..Len(order) : order[k] \in S}
<1>4. places \subseteq 1..Len(order) /\ places # {}
  <2>1. PICK n \in S : n \in Ids(def)
    <3>1. S # {} /\ S \subseteq Ids(def)
      OBVIOUS
    <3> QED BY <3>1
  <2>2. PICK k \in 1..Len(order) : order[k] = n
    BY <1>3, <2>1
  <2> QED BY <2>1, <2>2
<1>5. PICK k \in places : \A m \in places : m <= k
  <2>1. places \subseteq Nat /\ \A m \in places : m <= Len(order)
    BY <1>1
  <2> HIDE DEF places
  <2> QED BY <1>1, <1>4, <2>1, GreatestExists
<1>6. PICK i \in DOMAIN def.edges : def.edges[i].source = order[k] /\ def.edges[i].target \in S
  BY <1>5
<1>7. PICK l \in 1..Len(order) : order[l] = def.edges[i].target
  BY <1>3, <1>6
<1>8. PICK j \in 1..(l - 1) : order[j] = order[k]
  <2>1. def.edges[i] \in Incoming(def, order[l])
    BY <1>6, <1>7 DEF Incoming
  <2> QED BY <1>1, <1>6, <1>7, <2>1
<1>9. j = k /\ j < l /\ l \in places
  BY <1>1, <1>5, <1>6, <1>7, <1>8
<1>10. l <= k /\ l \in Nat /\ k \in Nat
  BY <1>5, <1>9
<1> QED BY <1>9, <1>10

\* For any definitions, a cyclic graph is refused before a node runs, no node
\* runs twice, and when one starts its predecessors that ever run have
\* completed (executor.py, the walk in the order of _topological_sort).
THEOREM PredecessorsAlwaysFirst == Spec => []PredecessorsFirst
<1>1. ASSUME WalkInv
      PROVE  PredecessorsFirst
  <2> SUFFICES ASSUME WellFormed(def)
        PROVE  /\ pc \in {"walk", "node"} => ~Cyclic(def)
               /\ run = "failed" /\ steps = <<>> => Cyclic(def)
               /\ \A i, j \in DOMAIN steps : steps[i].node = steps[j].node => i = j
               /\ \A e \in ToSet(def.edges) : \A i, j \in DOMAIN steps :
                    e.source = steps[i].node /\ e.target = steps[j].node
                      => i < j /\ steps[i].status = "completed"
    BY DEF PredecessorsFirst
  <2>1. /\ SortSound(def) /\ def \in Definitions /\ Placed /\ StoryTold /\ (steps # <<>> => InOrder)
        /\ Len(steps) \in Nat /\ DOMAIN steps = 1..Len(steps)
    BY <1>1, SortAlwaysSound, LenProperties DEF WalkInv, StoryInv, WorkflowTypes
  <2>2. pc \in {"walk", "node"} => ~Cyclic(def)
    BY <1>1, <2>1, SortedAcyclic DEF WalkInv, Walked
  <2>3. run = "failed" /\ steps = <<>> => Cyclic(def)
    BY <1>1, <2>1 DEF WalkInv, SortSound
  <2>4. ASSUME NEW i \in DOMAIN steps
        PROVE  InOrder /\ \E k \in DOMAIN order : order[k] = steps[i].node
    BY <2>1, <2>4 DEF Placed, StepAt
  <2>5. ASSUME NEW i \in DOMAIN steps, NEW j \in DOMAIN steps, i < j
        PROVE  steps[i].node # steps[j].node
    <3>1. PICK k \in DOMAIN order : order[k] = steps[i].node
      BY <2>4
    <3>2. k \in Nat
      BY <2>1, <2>4, OrderFacts
    <3> QED BY <2>1, <2>5, <3>1, <3>2 DEF Placed
  <2>6. \A i, j \in DOMAIN steps : steps[i].node = steps[j].node => i = j
    <3> SUFFICES ASSUME NEW i \in DOMAIN steps, NEW j \in DOMAIN steps, i # j
                 PROVE  steps[i].node # steps[j].node
      OBVIOUS
    <3>1. i < j \/ j < i
      BY <2>1
    <3> QED BY <2>5, <3>1
  <2>7. ASSUME NEW e \in ToSet(def.edges), NEW i \in DOMAIN steps, NEW j \in DOMAIN steps,
               e.source = steps[i].node, e.target = steps[j].node
        PROVE  i < j /\ steps[i].status = "completed"
    <3>1. PICK l \in DOMAIN order : order[l] = steps[j].node
      BY <2>4
    <3>2. InOrder /\ DOMAIN order = 1..Len(order) /\ Len(order) \in Nat
      BY <2>1, <2>4, OrderFacts
    <3>3. e \in Incoming(def, order[l])
      BY <2>7, <3>1 DEF Incoming, ToSet
    <3>4. PICK k \in 1..(l - 1) : order[k] = e.source
      BY <2>1, <3>1, <3>2, <3>3, OrderFacts
    <3>5. k \in DOMAIN order /\ k < l /\ k \in Nat /\ l \in Nat
      BY <3>1, <3>2, <3>4
    <3>6. ~(j < i)
      <4> SUFFICES ASSUME j < i PROVE FALSE
        OBVIOUS
      <4>1. l < k
        BY <2>1, <2>7, <3>1, <3>4, <3>5 DEF Placed
      <4> QED BY <3>5, <4>1
    <3>7. i # j
      <4> SUFFICES ASSUME i = j PROVE FALSE
        OBVIOUS
      <4>1. k = l
        BY <2>1, <2>7, <3>1, <3>2, <3>4, <3>5, OrderFacts
      <4> QED BY <3>5, <4>1
    <3>8. i < j /\ i # Len(steps)
      BY <2>1, <3>6, <3>7
    <3> QED BY <2>1, <3>8 DEF StoryTold
  <2> QED BY <2>2, <2>3, <2>6, <2>7
<1> QED BY <1>1, WalkStarts, WalkStep, PTL DEF Spec

=============================================================================
