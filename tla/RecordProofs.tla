---------------------------- MODULE RecordProofs ----------------------------
(***************************************************************************)
(* What a reader may believe of the two records the runtime keeps of what  *)
(* agents do.                                                              *)
(*                                                                         *)
(* The audit table, for any number of sessions, tenants and rows.  With    *)
(* any sharing of tenants a visible entry's predecessor is visible         *)
(* (AlwaysKept), the chain itself is unbroken until two transactions of a  *)
(* tenant overlap (AlwaysIntactUnlessOverlapped), and once broken it stays *)
(* so (BrokenAlwaysStays).                                                 *)
(*                                                                         *)
(* The event stream, for any agents, responses, costs and clocks.  Its     *)
(* events tell what ran (StreamAlwaysTellsRuns), and what ran went through *)
(* the gates execute_task has, but for the one the stream leaves out       *)
(* (StreamImplements).                                                     *)
(***************************************************************************)
EXTENDS AuditChain, GovernedStream, OperatorLemmas

-----------------------------------------------------------------------------
(* The audit table.                                                        *)

\* What PredecessorsKept needs of the rows nobody sees yet: a row's
\* predecessor is committed, or is pending beside it in one transaction.
Linked ==
  \A i \in DOMAIN rows :
    rows[i].status # "gone" =>
      \/ rows[i].prev = Genesis
      \/ /\ rows[i].prev \in DOMAIN rows
         /\ rows[i].prev < i
         /\ rows[rows[i].prev].tenant = rows[i].tenant
         /\ \/ rows[rows[i].prev].status = "committed"
            \/ /\ rows[rows[i].prev].status = "pending"
               /\ rows[i].status = "pending"
               /\ rows[rows[i].prev].by = rows[i].by

\* A hash read and not yet used is of a row its reader still sees.
Aware ==
  \A s \in Sessions :
    seen[s] # NotRead => seen[s] = Genesis \/ seen[s] \in Of(TenantOf[s], Visible(s))

KeptInv == TypeOK /\ Linked /\ Aware

\* The newest of a set of row ids is the start of the chain or one of them.
LEMMA NewestOfRows ==
  ASSUME rows \in Seq(Row), NEW S, S \subseteq DOMAIN rows
  PROVE  Newest(S) \in Nat /\ (Newest(S) = Genesis \/ Newest(S) \in S)
<1>0. Len(rows) \in Nat /\ DOMAIN rows = 1..Len(rows)
  OBVIOUS
<1>1. CASE S = {}
  BY <1>1 DEF Newest, Genesis
<1>2. CASE S # {}
  <2>1. S \subseteq Nat /\ \A x \in S : x <= Len(rows)
    BY <1>0
  <2>2. PICK n \in S : \A m \in S : m <= n
    BY <1>0, <1>2, <2>1, GreatestExists
  <2>3. \E x \in S : \A m \in S : x >= m
    BY <2>1, <2>2
  <2>4. Max(S) \in S
    BY <2>3, Zenon DEF Max
  <2>5. Newest(S) = Max(S)
    BY <1>2 DEF Newest
  <2> QED  BY <2>1, <2>4, <2>5
<1> QED  BY <1>1, <1>2

\* Ending a transaction changes the status of its pending rows and no more.
LEMMA EndEffect ==
  ASSUME rows \in Seq(Row), NEW s \in Sessions,
         NEW st \in {"committed", "gone"}, End(s, st)
  PROVE  /\ rows' \in Seq(Row)
         /\ DOMAIN rows' = DOMAIN rows
         /\ \A i \in DOMAIN rows :
              /\ rows[i] \in Row /\ rows'[i] \in Row
              /\ rows'[i].tenant = rows[i].tenant
              /\ rows'[i].prev = rows[i].prev
              /\ rows'[i].by = rows[i].by
              /\ rows'[i].status = IF rows[i].by = s /\ rows[i].status = "pending"
                                   THEN st ELSE rows[i].status
<1>0. Len(rows) \in Nat /\ DOMAIN rows = 1..Len(rows)
  OBVIOUS
<1>1. \A i \in DOMAIN rows : rows[i] \in Row
  OBVIOUS
<1>2. rows' = [i \in DOMAIN rows |->
                 IF rows[i].by = s /\ rows[i].status = "pending"
                 THEN [rows[i] EXCEPT !.status = st] ELSE rows[i]]
  BY DEF End
<1>3. ASSUME NEW i \in DOMAIN rows
      PROVE  /\ rows'[i] \in Row
             /\ rows'[i].tenant = rows[i].tenant
             /\ rows'[i].prev = rows[i].prev
             /\ rows'[i].by = rows[i].by
             /\ rows'[i].status = IF rows[i].by = s /\ rows[i].status = "pending"
                                  THEN st ELSE rows[i].status
  BY <1>1, <1>2 DEF Row
<1>4. DOMAIN rows' = DOMAIN rows
  BY <1>2
<1>5. rows' \in [1..Len(rows) -> Row]
  BY <1>0, <1>2, <1>3
<1>6. rows' \in Seq(Row)
  BY <1>0, <1>5
<1> QED  BY <1>1, <1>3, <1>4, <1>6

\* An insert keeps the rows there are and adds its own at the end.
LEMMA InsertEffect ==
  ASSUME TypeOK, ChainAssumption, NEW s \in Sessions, Insert(s)
  PROVE  /\ rows' \in Seq(Row)
         /\ Len(rows) \in Nat
         /\ DOMAIN rows = 1..Len(rows)
         /\ DOMAIN rows' = 1..(Len(rows) + 1)
         /\ \A i \in DOMAIN rows : rows'[i] = rows[i]
         /\ rows'[Len(rows) + 1] = [tenant |-> TenantOf[s], prev |-> seen[s],
                                    by |-> s, status |-> "pending"]
<1>1. seen[s] \in Nat
  BY DEF TypeOK, Insert
<1>2. TenantOf[s] \in Tenants
  BY DEF ChainAssumption
<1>3. [tenant |-> TenantOf[s], prev |-> seen[s], by |-> s, status |-> "pending"] \in Row
  BY <1>1, <1>2 DEF Row
<1> DEFINE row == [tenant |-> TenantOf[s], prev |-> seen[s], by |-> s, status |-> "pending"]
<1>4. rows' = Append(rows, row)
  BY DEF Insert
<1>5. rows \in Seq(Row) /\ row \in Row
  BY <1>3 DEF TypeOK
<1> HIDE DEF row
<1>6. /\ rows' \in Seq(Row)
      /\ Len(rows) \in Nat
      /\ DOMAIN rows = 1..Len(rows)
      /\ DOMAIN rows' = 1..(Len(rows) + 1)
      /\ \A i \in DOMAIN rows : rows'[i] = rows[i]
      /\ rows'[Len(rows) + 1] = row
  BY <1>4, <1>5
<1> QED
  BY <1>6 DEF row

\* The types are kept by every step.
LEMMA TypeStep ==
  ASSUME TypeOK, ChainAssumption, [ChainNext]_chainVars
  PROVE  TypeOK'
<1>1. CASE UNCHANGED chainVars
  BY <1>1 DEF chainVars, TypeOK
<1>2. CASE ChainNext
  <2>0. PICK s \in Sessions : ReadTail(s) \/ Insert(s) \/ Commit(s) \/ Rollback(s)
    BY <1>2 DEF ChainNext
  <2>1. CASE ReadTail(s)
    <3>1. Of(TenantOf[s], Visible(s)) \subseteq DOMAIN rows
      BY DEF Of, Visible
    <3>2. Newest(Of(TenantOf[s], Visible(s))) \in Nat
      BY <3>1, NewestOfRows DEF TypeOK
    <3>3. overlapped' \subseteq Tenants
      BY <2>1 DEF ReadTail, Overlap, TypeOK, ChainAssumption
    <3> QED  BY <2>1, <3>2, <3>3 DEF ReadTail, TypeOK
  <2>2. CASE Insert(s)
    <3>1. rows' \in Seq(Row)
      BY <2>2, InsertEffect
    <3> QED  BY <2>2, <3>1 DEF Insert, TypeOK
  <2>3. CASE Commit(s)
    BY <2>3, EndEffect DEF Commit, TypeOK
  <2>4. CASE Rollback(s)
    BY <2>4, EndEffect DEF Rollback, TypeOK
  <2> QED  BY <2>0, <2>1, <2>2, <2>3, <2>4
<1> QED  BY <1>1, <1>2

-----------------------------------------------------------------------------
(* PredecessorsKept, whoever shares a tenant.                              *)

\* A row that stays visible to s stays among the rows of its tenant.
LEMMA StaysVisible ==
  ASSUME NEW s \in Sessions, NEW t, NEW i \in Of(t, Visible(s)),
         i \in DOMAIN rows', rows'[i].tenant = rows[i].tenant,
         \/ rows'[i].status = "committed"
         \/ rows'[i].status = rows[i].status /\ rows'[i].by = rows[i].by
  PROVE  i \in Of(t, Visible(s))'
BY DEF Of, Visible

LEMMA KeptStep ==
  ASSUME KeptInv, ChainAssumption, [ChainNext]_chainVars
  PROVE  KeptInv'
<1>0. TypeOK' /\ TypeOK /\ Linked /\ Aware
  BY TypeStep DEF KeptInv
<1>1. CASE UNCHANGED chainVars
  BY <1>0, <1>1 DEF chainVars, KeptInv, Linked, Aware, Of, Visible
<1>2. ASSUME NEW s \in Sessions, ReadTail(s)  PROVE Linked' /\ Aware'
  <2>1. Linked'
    BY <1>0, <1>2 DEF ReadTail, Linked
  <2>2. Of(TenantOf[s], Visible(s)) \subseteq DOMAIN rows
    BY DEF Of, Visible
  <2>3. seen'[s] = Genesis \/ seen'[s] \in Of(TenantOf[s], Visible(s))
    BY <1>0, <1>2, <2>2, NewestOfRows DEF ReadTail, TypeOK
  <2>4. \A o \in Sessions \ {s} : seen'[o] = seen[o]
    BY <1>0, <1>2 DEF ReadTail, TypeOK
  <2>5. \A o \in Sessions : Of(TenantOf[o], Visible(o))' = Of(TenantOf[o], Visible(o))
    BY <1>2 DEF ReadTail, Of, Visible
  <2>6. Aware'
    BY <1>0, <2>3, <2>4, <2>5 DEF Aware
  <2> QED  BY <2>1, <2>6
<1>3. ASSUME NEW s \in Sessions, Insert(s)  PROVE Linked' /\ Aware'
  <2> DEFINE n == Len(rows) + 1
  <2>0. /\ Len(rows) \in Nat
        /\ DOMAIN rows = 1..Len(rows)
        /\ DOMAIN rows' = 1..n
        /\ \A i \in DOMAIN rows : rows'[i] = rows[i]
        /\ rows'[n] = [tenant |-> TenantOf[s], prev |-> seen[s],
                       by |-> s, status |-> "pending"]
    BY <1>0, <1>3, InsertEffect
  <2>1. seen[s] = Genesis \/ seen[s] \in Of(TenantOf[s], Visible(s))
    BY <1>0, <1>3 DEF Aware, Insert
  <2>2. ASSUME NEW i \in DOMAIN rows', rows'[i].status # "gone"
        PROVE  \/ rows'[i].prev = Genesis
               \/ /\ rows'[i].prev \in DOMAIN rows'
                  /\ rows'[i].prev < i
                  /\ rows'[rows'[i].prev].tenant = rows'[i].tenant
                  /\ \/ rows'[rows'[i].prev].status = "committed"
                     \/ /\ rows'[rows'[i].prev].status = "pending"
                        /\ rows'[i].status = "pending"
                        /\ rows'[rows'[i].prev].by = rows'[i].by
    <3>1. CASE i = n
      <4>1. CASE seen[s] = Genesis
        BY <2>0, <3>1, <4>1
      <4>2. CASE seen[s] \in Of(TenantOf[s], Visible(s))
        <5>1. /\ seen[s] \in DOMAIN rows
              /\ rows[seen[s]].tenant = TenantOf[s]
              /\ \/ rows[seen[s]].status = "committed"
                 \/ rows[seen[s]].status = "pending" /\ rows[seen[s]].by = s
          BY <4>2 DEF Of, Visible
        <5>2. seen[s] < n /\ seen[s] \in DOMAIN rows' /\ rows'[seen[s]] = rows[seen[s]]
          BY <2>0, <5>1
        <5>3. rows'[i].prev = seen[s] /\ rows'[i].tenant = TenantOf[s]
              /\ rows'[i].by = s /\ rows'[i].status = "pending"
          BY <2>0, <3>1
        <5> HIDE DEF n
        <5> QED  BY <3>1, <5>1, <5>2, <5>3
      <4> QED  BY <2>1, <4>1, <4>2
    <3>2. CASE i # n
      <4>1. i \in DOMAIN rows /\ rows'[i] = rows[i]
        BY <2>0, <3>2
      <4>2. CASE rows[i].prev = Genesis
        BY <4>1, <4>2
      <4>3. CASE rows[i].prev # Genesis
        <5>1. /\ rows[i].prev \in DOMAIN rows
              /\ rows[i].prev < i
              /\ rows[rows[i].prev].tenant = rows[i].tenant
              /\ \/ rows[rows[i].prev].status = "committed"
                 \/ /\ rows[rows[i].prev].status = "pending"
                    /\ rows[i].status = "pending"
                    /\ rows[rows[i].prev].by = rows[i].by
          BY <1>0, <2>2, <4>1, <4>3 DEF Linked
        <5>2. rows'[rows[i].prev] = rows[rows[i].prev] /\ rows[i].prev \in DOMAIN rows'
          BY <2>0, <5>1
        <5> HIDE DEF n
        <5> QED  BY <4>1, <5>1, <5>2
      <4> QED  BY <4>2, <4>3
    <3> QED  BY <3>1, <3>2
  <2>3. Linked'
    BY <2>2 DEF Linked
  <2>4. Aware'
    <3>1. SUFFICES ASSUME NEW o \in Sessions, seen'[o] # NotRead
                   PROVE  seen'[o] = Genesis \/ seen'[o] \in Of(TenantOf[o], Visible(o))'
      BY DEF Aware
    <3>2. seen'[o] = seen[o]
      BY <1>0, <1>3, <3>1 DEF Insert, TypeOK
    <3>3. seen[o] = Genesis \/ seen[o] \in Of(TenantOf[o], Visible(o))
      BY <1>0, <3>1, <3>2 DEF Aware
    <3>4. ASSUME seen[o] \in Of(TenantOf[o], Visible(o))
          PROVE  seen[o] \in Of(TenantOf[o], Visible(o))'
      <4>1. seen[o] \in DOMAIN rows
        BY <3>4 DEF Of, Visible
      <4>2. seen[o] \in DOMAIN rows' /\ rows'[seen[o]] = rows[seen[o]]
        BY <2>0, <4>1
      <4> QED  BY <3>4, <4>2 DEF Of, Visible
    <3> QED  BY <3>2, <3>3, <3>4
  <2> QED  BY <2>3, <2>4
<1>4. ASSUME NEW s \in Sessions, NEW st \in {"committed", "gone"}, End(s, st),
             \A o \in Sessions : seen'[o] # NotRead =>
                seen'[o] = seen[o] /\ (st = "gone" => o # s)
      PROVE  Linked' /\ Aware'
  <2>0. /\ DOMAIN rows' = DOMAIN rows
        /\ \A i \in DOMAIN rows :
             /\ rows[i] \in Row
             /\ rows'[i].tenant = rows[i].tenant
             /\ rows'[i].prev = rows[i].prev
             /\ rows'[i].by = rows[i].by
             /\ rows'[i].status = IF rows[i].by = s /\ rows[i].status = "pending"
                                  THEN st ELSE rows[i].status
    BY <1>0, <1>4, EndEffect DEF TypeOK
  <2>1. Linked'
    <3>1. SUFFICES ASSUME NEW i \in DOMAIN rows', rows'[i].status # "gone",
                          rows'[i].prev # Genesis
                   PROVE  /\ rows'[i].prev \in DOMAIN rows'
                          /\ rows'[i].prev < i
                          /\ rows'[rows'[i].prev].tenant = rows'[i].tenant
                          /\ \/ rows'[rows'[i].prev].status = "committed"
                             \/ /\ rows'[rows'[i].prev].status = "pending"
                                /\ rows'[i].status = "pending"
                                /\ rows'[rows'[i].prev].by = rows'[i].by
      BY DEF Linked
    <3> DEFINE p == rows[i].prev
    <3>2. i \in DOMAIN rows /\ rows'[i].prev = p /\ rows[i].status # "gone" /\ p # Genesis
      BY <2>0, <3>1
    <3>3. /\ p \in DOMAIN rows
          /\ p < i
          /\ rows[p].tenant = rows[i].tenant
          /\ \/ rows[p].status = "committed"
             \/ /\ rows[p].status = "pending"
                /\ rows[i].status = "pending"
                /\ rows[p].by = rows[i].by
      BY <1>0, <3>2 DEF Linked
    <3> HIDE DEF p
    <3>4. rows'[p].tenant = rows'[i].tenant /\ p \in DOMAIN rows'
      BY <2>0, <3>2, <3>3
    <3>5. CASE rows[p].status = "committed"
      <4>1. rows'[p].status = "committed"
        BY <2>0, <3>3, <3>5
      <4> QED  BY <3>2, <3>3, <3>4, <4>1
    <3>6. CASE /\ rows[p].status = "pending"
               /\ rows[i].status = "pending"
               /\ rows[p].by = rows[i].by
      <4>1. \/ rows'[p].status = "committed"
            \/ rows'[p].status = "pending" /\ rows'[i].status = "pending"
        BY <1>4, <2>0, <3>1, <3>2, <3>3, <3>6
      <4>2. rows'[p].by = rows'[i].by
        BY <2>0, <3>2, <3>3, <3>6
      <4> QED  BY <3>2, <3>3, <3>4, <4>1, <4>2
    <3> QED  BY <3>3, <3>5, <3>6
  <2>2. Aware'
    <3>1. SUFFICES ASSUME NEW o \in Sessions, seen'[o] # NotRead, seen[o] # Genesis
                   PROVE  seen'[o] \in Of(TenantOf[o], Visible(o))'
      BY <1>4 DEF Aware
    <3>2. seen'[o] = seen[o] /\ (st = "gone" => o # s)
      BY <1>4, <3>1
    <3>3. seen[o] \in Of(TenantOf[o], Visible(o))
      BY <1>0, <3>1, <3>2 DEF Aware
    <3> DEFINE i == seen[o]
    <3>4. /\ i \in DOMAIN rows
          /\ \/ rows[i].status = "committed"
             \/ rows[i].status = "pending" /\ rows[i].by = o
      BY <3>3 DEF Of, Visible
    <3> HIDE DEF i
    <3>5. /\ i \in DOMAIN rows'
          /\ rows'[i].tenant = rows[i].tenant
          /\ rows'[i].by = rows[i].by
      BY <2>0, <3>4
    <3>6. rows'[i].status = "committed" \/ rows'[i].status = rows[i].status
      BY <1>4, <2>0, <3>2, <3>4
    <3>7. i \in Of(TenantOf[o], Visible(o))'
      BY <3>3, <3>5, <3>6, StaysVisible DEF i
    <3> QED  BY <3>2, <3>7 DEF i
  <2> QED  BY <2>1, <2>2
<1>5. ASSUME NEW s \in Sessions, Commit(s)  PROVE Linked' /\ Aware'
  <2>1. \A o \in Sessions : seen'[o] # NotRead => seen'[o] = seen[o]
    BY <1>5 DEF Commit
  <2>2. End(s, "committed")
    BY <1>5 DEF Commit
  <2> QED  BY <1>4, <2>1, <2>2
<1>6. ASSUME NEW s \in Sessions, Rollback(s)  PROVE Linked' /\ Aware'
  <2>1. \A o \in Sessions : seen'[o] # NotRead => seen'[o] = seen[o] /\ o # s
    BY <1>0, <1>6 DEF Rollback, TypeOK
  <2>2. End(s, "gone")
    BY <1>6 DEF Rollback
  <2> QED  BY <1>4, <2>1, <2>2
<1> QED
  BY <1>0, <1>1, <1>2, <1>3, <1>5, <1>6 DEF KeptInv, ChainNext

LEMMA KeptInit ==
  ASSUME ChainInit, ChainAssumption  PROVE KeptInv
<1>1. rows = <<>> /\ seen = [s \in Sessions |-> NotRead] /\ overlapped = {}
  BY DEF ChainInit
<1>2. <<>> \in Seq(Row)
  OBVIOUS
<1>3. DOMAIN rows = {}
  BY <1>1
<1>4. TypeOK
  BY <1>1, <1>2 DEF TypeOK
<1>5. Linked /\ Aware
  BY <1>1, <1>3 DEF Linked, Aware
<1> QED  BY <1>4, <1>5 DEF KeptInv

\* The strengthening gives the property.
LEMMA KeptImplies ==
  ASSUME KeptInv  PROVE PredecessorsKept
<1>1. SUFFICES ASSUME NEW s \in Sessions, NEW i \in Visible(s), rows[i].prev # Genesis
               PROVE  /\ rows[i].prev \in Of(rows[i].tenant, Visible(s))
                      /\ rows[i].prev < i
  BY DEF PredecessorsKept
<1>2. /\ i \in DOMAIN rows
      /\ \/ rows[i].status = "committed"
         \/ rows[i].status = "pending" /\ rows[i].by = s
  BY DEF Visible
<1>3. /\ rows[i].prev \in DOMAIN rows
      /\ rows[i].prev < i
      /\ rows[rows[i].prev].tenant = rows[i].tenant
      /\ \/ rows[rows[i].prev].status = "committed"
         \/ /\ rows[rows[i].prev].status = "pending"
            /\ rows[i].status = "pending"
            /\ rows[rows[i].prev].by = rows[i].by
  BY <1>1, <1>2 DEF KeptInv, Linked
<1> QED  BY <1>2, <1>3 DEF Of, Visible

\* The table's types, for any sessions, tenants and number of rows.
THEOREM AuditTypeCorrect == ChainSpec => []TypeOK
<1>1. ChainInit => TypeOK
  BY KeptInit, ChainAssumption DEF KeptInv
<1>2. TypeOK /\ [ChainNext]_chainVars => TypeOK'
  BY TypeStep, ChainAssumption
<1> QED  BY <1>1, <1>2, PTL DEF ChainSpec

\* log_event never leaves a visible entry chained to a row that was rolled
\* back, is not yet committed elsewhere, or belongs to another tenant.
THEOREM AlwaysKept == ChainSpec => []PredecessorsKept
<1>1. ChainInit => KeptInv
  BY KeptInit, ChainAssumption
<1>2. KeptInv /\ [ChainNext]_chainVars => KeptInv'
  BY KeptStep, ChainAssumption
<1>3. KeptInv => PredecessorsKept
  BY KeptImplies
<1> QED  BY <1>1, <1>2, <1>3, PTL DEF ChainSpec

-----------------------------------------------------------------------------
(* BrokenOnlyByOverlap.                                                    *)

\* The rows of t that are not lost, and those of them before i.
Live(t) == {i \in DOMAIN rows : rows[i].status # "gone" /\ rows[i].tenant = t}
Before(t, i) == {j \in Live(t) : j < i}

\* Tenants of which no two transactions have overlapped.
Undisturbed == Tenants \ overlapped

\* Rows are written for the tenant of their session.
Owned == \A i \in DOMAIN rows : rows[i].tenant = TenantOf[rows[i].by]

\* Of an undisturbed tenant at most one session is open.
Alone ==
  \A s, o \in Sessions :
    TenantOf[s] \in Undisturbed /\ TenantOf[o] = TenantOf[s] /\ Open(s) /\ Open(o) => s = o

\* Its unlost rows form a chain, whoever may see them.
Chained == \A t \in Undisturbed : \A i \in Live(t) : rows[i].prev = Newest(Before(t, i))

\* A hash read and not yet used is the tail's.
Fresh ==
  \A s \in Sessions :
    TenantOf[s] \in Undisturbed /\ seen[s] # NotRead => seen[s] = Newest(Live(TenantOf[s]))

\* Within a tenant, what is committed is older than what is not.
CommittedFirst ==
  \A t \in Undisturbed : \A i, j \in Live(t) :
    rows[i].status = "committed" /\ rows[j].status = "pending" => i < j

IntactInv == TypeOK /\ Owned /\ Alone /\ Chained /\ Fresh /\ CommittedFirst

\* Who has written what is not yet committed is open.
LEMMA PendingIsOpen ==
  ASSUME TypeOK, NEW i \in DOMAIN rows, rows[i].status = "pending"
  PROVE  rows[i].by \in Sessions /\ Open(rows[i].by)
<1>1. rows[i] \in Row
  BY DEF TypeOK
<1> QED  BY <1>1 DEF Row, Open

\* The only open session of a tenant sees all that is left of its trail.
LEMMA SoleSeesAll ==
  ASSUME TypeOK, Owned, NEW s \in Sessions,
         \A o \in Sessions \ {s} : TenantOf[o] = TenantOf[s] => ~Open(o)
  PROVE  Of(TenantOf[s], Visible(s)) = Live(TenantOf[s])
<1>1. ASSUME NEW i \in Live(TenantOf[s])  PROVE i \in Of(TenantOf[s], Visible(s))
  <2>1. i \in DOMAIN rows /\ rows[i].status # "gone" /\ rows[i].tenant = TenantOf[s]
    BY <1>1 DEF Live
  <2>2. rows[i] \in Row
    BY <2>1 DEF TypeOK
  <2>3. rows[i].status = "committed" \/ rows[i].status = "pending"
    BY <2>1, <2>2 DEF Row
  <2>4. rows[i].status = "pending" => rows[i].by = s
    BY <2>1, PendingIsOpen DEF Owned
  <2> QED  BY <2>1, <2>3, <2>4 DEF Of, Visible
<1>2. ASSUME NEW i \in Of(TenantOf[s], Visible(s))  PROVE i \in Live(TenantOf[s])
  BY <1>2 DEF Of, Visible, Live
<1> QED  BY <1>1, <1>2

\* Anyone else sees what is committed, a prefix of what is left.
LEMMA OthersSeePrefix ==
  ASSUME IntactInv, NEW s \in Sessions, NEW t \in Undisturbed, ~(TenantOf[s] = t /\ Open(s))
  PROVE  /\ Of(t, Visible(s)) \subseteq Live(t)
         /\ \A i \in Of(t, Visible(s)) : {j \in Of(t, Visible(s)) : j < i} = Before(t, i)
<1>1. \A i \in Of(t, Visible(s)) : i \in Live(t) /\ rows[i].status = "committed"
  <2>1. SUFFICES ASSUME NEW i \in Of(t, Visible(s))
                 PROVE  i \in Live(t) /\ rows[i].status = "committed"
    OBVIOUS
  <2>2. /\ i \in DOMAIN rows /\ rows[i].tenant = t
        /\ \/ rows[i].status = "committed"
           \/ rows[i].status = "pending" /\ rows[i].by = s
    BY <2>1 DEF Of, Visible
  <2>3. ~(rows[i].status = "pending" /\ rows[i].by = s)
    BY <2>2, PendingIsOpen DEF IntactInv, Owned
  <2> QED  BY <2>2, <2>3 DEF Live
<1>2. ASSUME NEW i \in Of(t, Visible(s)), NEW j \in Before(t, i)
      PROVE  j \in Of(t, Visible(s))
  <2>1. i \in Live(t) /\ rows[i].status = "committed" /\ j \in Live(t) /\ j < i
    BY <1>1, <1>2 DEF Before
  <2>2. j \in DOMAIN rows /\ i \in DOMAIN rows /\ rows[j].tenant = t /\ rows[j].status # "gone"
    BY <2>1 DEF Live
  <2>3. rows[j] \in Row /\ i \in Nat /\ j \in Nat
    BY <2>2 DEF IntactInv, TypeOK
  <2>4. rows[j].status # "pending"
    <3>1. rows[j].status = "pending" => i < j
      BY <2>1 DEF IntactInv, CommittedFirst
    <3> QED  BY <2>1, <2>3, <3>1
  <2>5. rows[j].status = "committed"
    BY <2>2, <2>3, <2>4 DEF Row
  <2> QED  BY <2>2, <2>5 DEF Of, Visible
<1>3. \A i \in Of(t, Visible(s)) : {j \in Of(t, Visible(s)) : j < i} = Before(t, i)
  <2>1. SUFFICES ASSUME NEW i \in Of(t, Visible(s)), NEW j
                 PROVE  j \in Of(t, Visible(s)) /\ j < i <=> j \in Before(t, i)
    OBVIOUS
  <2>2. j \in Before(t, i) => j < i
    BY DEF Before
  <2>3. j \in Of(t, Visible(s)) /\ j < i => j \in Before(t, i)
    BY <1>1 DEF Before
  <2> QED  BY <1>2, <2>1, <2>2, <2>3
<1> QED  BY <1>1, <1>3

LEMMA IntactImplies ==
  ASSUME IntactInv, ChainAssumption  PROVE BrokenOnlyByOverlap
<1>1. SUFFICES ASSUME NEW s \in Sessions, NEW t \in Undisturbed, NEW i \in Of(t, Visible(s))
               PROVE  rows[i].prev = Newest({j \in Of(t, Visible(s)) : j < i})
  BY DEF BrokenOnlyByOverlap, VerifyChain, Verified, Undisturbed
<1>2. i \in Live(t) /\ {j \in Of(t, Visible(s)) : j < i} = Before(t, i)
  <2>1. CASE TenantOf[s] = t /\ Open(s)
    <3>1. Of(t, Visible(s)) = Live(t)
      BY <2>1, SoleSeesAll DEF IntactInv, Alone
    <3> QED  BY <1>1, <3>1 DEF Before
  <2>2. CASE ~(TenantOf[s] = t /\ Open(s))
    BY <1>1, <2>2, OthersSeePrefix
  <2> QED  BY <2>1, <2>2
<1>3. rows[i].prev = Newest(Before(t, i))
  BY <1>2 DEF IntactInv, Chained
<1> QED  BY <1>2, <1>3

LEMMA IntactStep ==
  ASSUME IntactInv, ChainAssumption, [ChainNext]_chainVars
  PROVE  IntactInv'
<1>0. /\ TypeOK' /\ TypeOK /\ Owned /\ Alone /\ Chained /\ Fresh /\ CommittedFirst
      /\ Len(rows) \in Nat /\ DOMAIN rows = 1..Len(rows)
  BY TypeStep DEF IntactInv, TypeOK
<1>1. CASE UNCHANGED chainVars
  BY <1>0, <1>1 DEF chainVars, IntactInv, Owned, Alone, Chained, Fresh, CommittedFirst, Live, Before,
    Undisturbed, Open
<1>2. ASSUME NEW s \in Sessions, ReadTail(s)
      PROVE  Owned' /\ Alone' /\ Chained' /\ Fresh' /\ CommittedFirst'
  <2>1. /\ rows' = rows /\ seen[s] = NotRead
        /\ seen' = [seen EXCEPT ![s] = Newest(Of(TenantOf[s], Visible(s)))]
    BY <1>2 DEF ReadTail
  <2>2. /\ Undisturbed' \subseteq Undisturbed
        /\ TenantOf[s] \in Undisturbed' =>
             \A o \in Sessions \ {s} : TenantOf[o] = TenantOf[s] => ~Open(o)
    BY <1>2 DEF ReadTail, Overlap, Undisturbed
  <2>3. \A t : Live(t)' = Live(t) /\ \A i : Before(t, i)' = Before(t, i)
    BY <2>1 DEF Live, Before
  <2>4. Owned' /\ Chained' /\ CommittedFirst'
    BY <1>0, <2>1, <2>2, <2>3 DEF Owned, Chained, CommittedFirst
  <2>5. \A o \in Sessions \ {s} : seen'[o] = seen[o] /\ (Open(o)' <=> Open(o))
    BY <1>0, <2>1 DEF TypeOK, Open
  <2>6. Alone'
    BY <1>0, <2>2, <2>5 DEF Alone
  <2>7. Fresh'
    <3>1. SUFFICES ASSUME NEW o \in Sessions, TenantOf[o] \in Undisturbed', seen'[o] # NotRead
                   PROVE  seen'[o] = Newest(Live(TenantOf[o])')
      BY DEF Fresh, Newest
    <3>2. CASE o = s
      <4>1. Of(TenantOf[s], Visible(s)) = Live(TenantOf[s])
        BY <1>0, <2>2, <3>1, <3>2, SoleSeesAll
      <4>2. seen'[s] = Newest(Of(TenantOf[s], Visible(s)))
        BY <1>0, <2>1 DEF TypeOK
      <4> QED  BY <2>3, <3>2, <4>1, <4>2
    <3>3. CASE o # s
      <4>1. seen'[o] = seen[o] /\ TenantOf[o] \in Undisturbed
        BY <2>2, <2>5, <3>1, <3>3
      <4>2. seen[o] = Newest(Live(TenantOf[o]))
        BY <1>0, <3>1, <4>1 DEF Fresh
      <4> QED  BY <2>3, <4>1, <4>2
    <3> QED  BY <3>2, <3>3
  <2> QED  BY <2>4, <2>6, <2>7
<1>3. ASSUME NEW s \in Sessions, Insert(s)
      PROVE  Owned' /\ Alone' /\ Chained' /\ Fresh' /\ CommittedFirst'
  <2> DEFINE n == Len(rows) + 1
  <2>0. /\ Len(rows) \in Nat
        /\ DOMAIN rows = 1..Len(rows)
        /\ DOMAIN rows' = 1..n
        /\ \A i \in DOMAIN rows : rows'[i] = rows[i]
        /\ rows'[n] = [tenant |-> TenantOf[s], prev |-> seen[s],
                       by |-> s, status |-> "pending"]
    BY <1>0, <1>3, InsertEffect
  <2>1. /\ n \in Nat /\ n \notin DOMAIN rows
        /\ DOMAIN rows' = DOMAIN rows \cup {n}
        /\ \A i \in DOMAIN rows : i \in Nat /\ i < n
    BY <2>0
  <2>2. /\ rows'[n].tenant = TenantOf[s] /\ rows'[n].prev = seen[s]
        /\ rows'[n].by = s /\ rows'[n].status = "pending"
    BY <2>0
  <2>10. Undisturbed' = Undisturbed /\ Open(s)
    BY <1>3 DEF Insert, Undisturbed, Open
  <2> HIDE DEF n
  <2>3. \A t : Live(t)' = IF t = TenantOf[s] THEN Live(t) \cup {n} ELSE Live(t)
    BY <2>0, <2>1, <2>2 DEF Live
  <2>4. \A t : \A i \in Live(t) : i \in DOMAIN rows /\ i < n /\ i \in Nat
    BY <2>1 DEF Live
  <2>5. Owned'
    BY <1>0, <2>0, <2>1, <2>2 DEF Owned
  <2>6. Chained'
    <3>1. SUFFICES ASSUME NEW t \in Undisturbed', NEW i \in Live(t)'
                   PROVE  rows'[i].prev = Newest(Before(t, i)')
      BY DEF Chained, Newest
    <3>2. CASE i = n
      <4>1. t = TenantOf[s] /\ rows'[i].prev = seen[s]
        BY <2>2, <2>3, <2>4, <3>1, <3>2
      <4>2. Before(t, i)' = Live(t)
        <5>1. Live(t)' = Live(t) \cup {n}
          BY <2>3, <4>1
        <5>2. \A j \in Live(t) : j < n
          BY <2>4
        <5>3. ~(n < n)
          BY <2>1
        <5> QED  BY <3>2, <5>1, <5>2, <5>3 DEF Before
      <4>3. seen[s] = Newest(Live(TenantOf[s]))
        BY <1>0, <1>3, <2>10, <3>1, <4>1 DEF Fresh, Insert
      <4> QED  BY <4>1, <4>2, <4>3
    <3>3. CASE i # n
      <4>1. i \in Live(t) /\ i \in DOMAIN rows /\ i < n /\ rows'[i] = rows[i]
        BY <2>0, <2>3, <2>4, <3>1, <3>3
      <4>2. ~(n < i)
        BY <2>1, <4>1
      <4>3. Before(t, i)' = Before(t, i)
        BY <2>3, <4>2 DEF Before
      <4> QED  BY <1>0, <2>10, <3>1, <4>1, <4>3 DEF Chained
    <3> QED  BY <3>2, <3>3
  <2>7. Fresh'
    <3>1. SUFFICES ASSUME NEW o \in Sessions, TenantOf[o] \in Undisturbed', seen'[o] # NotRead
                   PROVE  seen'[o] = Newest(Live(TenantOf[o])')
      BY DEF Fresh, Newest
    <3>2. o # s /\ seen'[o] = seen[o]
      BY <1>0, <1>3, <3>1 DEF Insert, TypeOK
    <3>3. TenantOf[o] # TenantOf[s]
      BY <1>0, <2>10, <3>1, <3>2 DEF Alone, Open
    <3>4. Live(TenantOf[o])' = Live(TenantOf[o])
      BY <2>3, <3>3
    <3> QED  BY <1>0, <2>10, <3>1, <3>2, <3>4 DEF Fresh
  <2>8. CommittedFirst'
    <3>1. SUFFICES ASSUME NEW t \in Undisturbed', NEW i \in Live(t)', NEW j \in Live(t)',
                          rows'[i].status = "committed", rows'[j].status = "pending"
                   PROVE  i < j
      BY DEF CommittedFirst
    <3>2. i # n
      BY <2>2, <3>1
    <3>3. i \in Live(t) /\ rows'[i] = rows[i] /\ i < n
      BY <2>0, <2>3, <2>4, <3>1, <3>2
    <3>4. CASE j = n
      BY <3>3, <3>4
    <3>5. CASE j # n
      <4>1. j \in Live(t) /\ rows'[j] = rows[j]
        BY <2>0, <2>3, <2>4, <3>1, <3>5
      <4> QED  BY <1>0, <2>10, <3>1, <3>3, <4>1 DEF CommittedFirst
    <3> QED  BY <3>4, <3>5
  <2>9. Alone'
    <3>1. ASSUME NEW o \in Sessions, Open(o)'  PROVE Open(o)
      <4>1. CASE o = s
        BY <2>10, <4>1
      <4>2. CASE o # s
        <5>1. seen'[o] = seen[o]
          BY <1>0, <1>3, <4>2 DEF Insert, TypeOK
        <5>2. \A i \in DOMAIN rows' : rows'[i].by = o => i \in DOMAIN rows /\ rows'[i] = rows[i]
          BY <2>0, <2>1, <2>2, <4>2
        <5> QED  BY <3>1, <5>1, <5>2 DEF Open
      <4> QED  BY <4>1, <4>2
    <3> QED  BY <1>0, <2>10, <3>1 DEF Alone
  <2> QED  BY <2>5, <2>6, <2>7, <2>8, <2>9
<1>4. ASSUME NEW s \in Sessions, NEW st \in {"committed", "gone"}, End(s, st),
             seen' = [seen EXCEPT ![s] = NotRead], overlapped' = overlapped
      PROVE  Owned' /\ Alone' /\ Chained' /\ Fresh' /\ CommittedFirst'
  <2>0. /\ DOMAIN rows' = DOMAIN rows
        /\ \A i \in DOMAIN rows :
             /\ rows[i] \in Row
             /\ rows'[i].tenant = rows[i].tenant
             /\ rows'[i].prev = rows[i].prev
             /\ rows'[i].by = rows[i].by
             /\ rows'[i].status = IF rows[i].by = s /\ rows[i].status = "pending"
                                  THEN st ELSE rows[i].status
    BY <1>0, <1>4, EndEffect DEF TypeOK
  <2>1. \A t : Live(t)' \subseteq Live(t)
    BY <2>0 DEF Live
  <2>2. /\ Undisturbed' = Undisturbed
        /\ \A i \in DOMAIN rows : rows[i].by = s => rows[i].tenant = TenantOf[s]
        /\ \A o \in Sessions : seen'[o] # NotRead => o # s /\ seen'[o] = seen[o]
        /\ \A o \in Sessions : Open(o)' => Open(o)
    <3>1. \A o \in Sessions : seen'[o] # NotRead => o # s /\ seen'[o] = seen[o]
      BY <1>0, <1>4 DEF TypeOK
    <3>2. ASSUME NEW i \in DOMAIN rows', rows'[i].status = "pending"
          PROVE  i \in DOMAIN rows /\ rows[i].status = "pending" /\ rows'[i].by = rows[i].by
      BY <1>4, <2>0, <3>2
    <3>3. \A o \in Sessions : Open(o)' => Open(o)
      BY <3>1, <3>2 DEF Open
    <3> QED  BY <1>0, <1>4, <3>1, <3>3 DEF Owned, Undisturbed
  <2> DEFINE writes == \E i \in DOMAIN rows : rows[i].by = s /\ rows[i].status = "pending"
  <2>11. writes /\ TenantOf[s] \in Undisturbed =>
           \A i \in DOMAIN rows : rows[i].tenant = TenantOf[s] /\ rows[i].status = "pending" => rows[i].by = s
    <3>1. SUFFICES ASSUME writes, TenantOf[s] \in Undisturbed, NEW i \in DOMAIN rows,
                          rows[i].tenant = TenantOf[s], rows[i].status = "pending"
                   PROVE  rows[i].by = s
      OBVIOUS
    <3>2. Open(s)
      BY <3>1 DEF Open
    <3>3. rows[i].by \in Sessions /\ Open(rows[i].by) /\ TenantOf[rows[i].by] = TenantOf[s]
      BY <1>0, <3>1, PendingIsOpen DEF Owned
    <3> QED  BY <1>0, <3>1, <3>2, <3>3 DEF Alone
  <2>12. ~writes => \A i \in DOMAIN rows : rows'[i].status = rows[i].status
    BY <2>0
  <2> HIDE DEF writes
  <2>3. \A t : t # TenantOf[s] => /\ Live(t)' = Live(t)
                                  /\ \A i \in Live(t) : rows'[i].status = rows[i].status
    BY <2>0, <2>2 DEF Live
  <2>13. ~writes => \A t : Live(t)' = Live(t)
    BY <2>0, <2>12 DEF Live
  <2>4. writes /\ TenantOf[s] \in Undisturbed =>
          \A i \in Live(TenantOf[s])' : rows'[i].status = "committed"
    <3>1. SUFFICES ASSUME writes, TenantOf[s] \in Undisturbed, NEW i \in Live(TenantOf[s])'
                   PROVE  rows'[i].status = "committed"
      OBVIOUS
    <3>2. i \in DOMAIN rows' /\ rows'[i].status # "gone" /\ rows'[i].tenant = TenantOf[s]
      BY <3>1 DEF Live
    <3>3. i \in DOMAIN rows /\ rows[i].tenant = TenantOf[s] /\ rows[i].status \in {"committed", "pending", "gone"}
      BY <2>0, <3>2 DEF Row
    <3>4. rows[i].status = "pending" => rows[i].by = s
      BY <2>11, <3>1, <3>3
    <3> QED  BY <1>4, <2>0, <3>2, <3>3, <3>4
  <2>5. Owned'
    BY <1>0, <2>0 DEF Owned
  <2>6. \A t \in Undisturbed : \A i \in Live(t)' : Before(t, i)' = Before(t, i)
    <3>1. SUFFICES ASSUME NEW t \in Undisturbed, NEW i \in Live(t)', NEW j \in Live(t), j < i
                   PROVE  j \in Live(t)'
      BY <2>1 DEF Before
    <3>2. CASE t # TenantOf[s] \/ ~writes
      BY <2>3, <2>13, <3>1, <3>2
    <3>3. CASE t = TenantOf[s] /\ writes
      <4>1. /\ i \in Live(t) /\ i \in DOMAIN rows /\ rows[i].status # "gone" /\ rows[i].tenant = t
            /\ j \in DOMAIN rows /\ rows[j].status # "gone" /\ rows[j].tenant = t
            /\ i \in Nat /\ j \in Nat
        BY <1>0, <2>1, <3>1 DEF Live
      <4>2. rows'[i].status = "committed"
        BY <2>4, <3>1, <3>3
      <4>3. rows[i].status \in {"committed", "pending"} /\ rows[j].status \in {"committed", "pending"}
        BY <2>0, <4>1 DEF Row
      <4>4. CASE rows[j].status = "committed"
        <5>1. rows'[j].status = "committed" /\ rows'[j].tenant = t /\ j \in DOMAIN rows'
          BY <2>0, <4>1, <4>4
        <5> QED  BY <5>1 DEF Live
      <4>5. CASE rows[j].status = "pending"
        <5>1. rows[i].status # "committed"
          <6>1. rows[i].status = "committed" => i < j
            BY <1>0, <3>1, <4>1, <4>5 DEF CommittedFirst
          <6> QED  BY <3>1, <4>1, <6>1
        <5>2. st = "committed"
          BY <2>0, <4>1, <4>2, <4>3, <5>1
        <5>3. rows[j].by = s
          BY <2>11, <3>1, <3>3, <4>1, <4>5
        <5>4. rows'[j].status = "committed" /\ rows'[j].tenant = t /\ j \in DOMAIN rows'
          BY <2>0, <4>1, <4>5, <5>2, <5>3
        <5> QED  BY <5>4 DEF Live
      <4> QED  BY <4>3, <4>4, <4>5
    <3> QED  BY <3>2, <3>3
  <2>7. Chained'
    <3>1. SUFFICES ASSUME NEW t \in Undisturbed', NEW i \in Live(t)'
                   PROVE  rows'[i].prev = Newest(Before(t, i)')
      BY DEF Chained, Newest
    <3>2. i \in Live(t) /\ i \in DOMAIN rows
      BY <2>1, <3>1 DEF Live
    <3>3. rows[i].prev = Newest(Before(t, i)) /\ Before(t, i)' = Before(t, i)
      BY <1>0, <2>2, <2>6, <3>1, <3>2 DEF Chained
    <3> QED  BY <2>0, <3>2, <3>3
  <2>8. Fresh'
    <3>1. SUFFICES ASSUME NEW o \in Sessions, TenantOf[o] \in Undisturbed', seen'[o] # NotRead
                   PROVE  seen'[o] = Newest(Live(TenantOf[o])')
      BY DEF Fresh, Newest
    <3>2. o # s /\ seen'[o] = seen[o] /\ TenantOf[o] \in Undisturbed /\ Open(o)
      BY <2>2, <3>1 DEF Open
    <3>3. Live(TenantOf[o])' = Live(TenantOf[o])
      <4>1. CASE TenantOf[o] # TenantOf[s] \/ ~writes
        BY <2>3, <2>13, <4>1
      <4>2. CASE TenantOf[o] = TenantOf[s] /\ writes
        <5>1. Open(s)
          BY <4>2 DEF Open, writes
        <5> QED  BY <1>0, <3>2, <4>2, <5>1 DEF Alone
      <4> QED  BY <4>1, <4>2
    <3> QED  BY <1>0, <3>1, <3>2, <3>3 DEF Fresh
  <2>9. CommittedFirst'
    <3>1. SUFFICES ASSUME NEW t \in Undisturbed', NEW i \in Live(t)', NEW j \in Live(t)',
                          rows'[i].status = "committed", rows'[j].status = "pending"
                   PROVE  i < j
      BY DEF CommittedFirst
    <3>2. t # TenantOf[s] \/ ~writes
      BY <2>2, <2>4, <3>1
    <3>3. /\ i \in Live(t) /\ j \in Live(t) /\ t \in Undisturbed
          /\ rows[i].status = "committed" /\ rows[j].status = "pending"
      <4>1. i \in Live(t) /\ j \in Live(t) /\ t \in Undisturbed
        BY <2>1, <2>2, <3>1
      <4>2. i \in DOMAIN rows /\ j \in DOMAIN rows
        BY <4>1 DEF Live
      <4>3. CASE t # TenantOf[s]
        BY <2>3, <3>1, <4>1, <4>3
      <4>4. CASE ~writes
        BY <2>12, <3>1, <4>1, <4>2, <4>4
      <4> QED  BY <3>2, <4>3, <4>4
    <3> QED  BY <1>0, <3>3 DEF CommittedFirst
  <2>10. Alone'
    BY <1>0, <2>2 DEF Alone
  <2> QED  BY <2>5, <2>7, <2>8, <2>9, <2>10
<1>5. ASSUME NEW s \in Sessions, Commit(s)
      PROVE  Owned' /\ Alone' /\ Chained' /\ Fresh' /\ CommittedFirst'
  <2>1. seen' = [seen EXCEPT ![s] = NotRead] /\ overlapped' = overlapped
    BY <1>0, <1>5 DEF Commit, TypeOK
  <2>2. End(s, "committed")
    BY <1>5 DEF Commit
  <2> QED  BY <1>4, <2>1, <2>2
<1>6. ASSUME NEW s \in Sessions, Rollback(s)
      PROVE  Owned' /\ Alone' /\ Chained' /\ Fresh' /\ CommittedFirst'
  <2>1. seen' = [seen EXCEPT ![s] = NotRead] /\ End(s, "gone") /\ overlapped' = overlapped
    BY <1>6 DEF Rollback
  <2> QED  BY <1>4, <2>1
<1> QED
  BY <1>0, <1>1, <1>2, <1>3, <1>5, <1>6 DEF IntactInv, ChainNext

LEMMA IntactInit == ChainInit => IntactInv
<1>1. SUFFICES ASSUME ChainInit  PROVE IntactInv
  OBVIOUS
<1>2. TypeOK
  BY <1>1, KeptInit, ChainAssumption DEF KeptInv
<1>3. rows = <<>> /\ seen = [s \in Sessions |-> NotRead] /\ DOMAIN rows = {}
  BY <1>1 DEF ChainInit
<1>4. Owned /\ Alone /\ Chained /\ Fresh /\ CommittedFirst
  BY <1>3 DEF Owned, Alone, Open, Chained, Fresh, CommittedFirst, Live
<1> QED  BY <1>2, <1>4 DEF IntactInv

\* verify_chain accepts the trail of a tenant at every moment, however many
\* sessions write for it and whichever of them is rolled back, unless one read
\* the tail while another had not ended its transaction.
THEOREM AlwaysIntactUnlessOverlapped == ChainSpec => []BrokenOnlyByOverlap
<1>1. ChainInit => IntactInv
  BY IntactInit
<1>2. IntactInv /\ [ChainNext]_chainVars => IntactInv'
  BY IntactStep, ChainAssumption
<1>3. IntactInv => BrokenOnlyByOverlap
  BY IntactImplies, ChainAssumption
<1> QED  BY <1>1, <1>2, <1>3, PTL DEF ChainSpec

-----------------------------------------------------------------------------
(* BrokenStaysBroken.                                                      *)

\* What a step may do to a broken trail.
StaysBroken == \A t \in Tenants : ~Accepted(t) => ~Accepted(t)'

\* The newest of a set of row ids is as new as any of them.
LEMMA NewestIsGreatest ==
  ASSUME NEW n \in Nat, NEW S, S \subseteq 1..n
  PROVE  /\ S = {} => Newest(S) = Genesis
         /\ S # {} => Newest(S) \in S /\ \A x \in S : x <= Newest(S)
<1>1. S = {} => Newest(S) = Genesis
  BY DEF Newest
<1>2. ASSUME S # {}  PROVE Newest(S) \in S /\ \A x \in S : x <= Newest(S)
  <2>1. S \subseteq Nat /\ \A x \in S : x <= n
    OBVIOUS
  <2>2. PICK m \in S : \A x \in S : x <= m
    BY <1>2, <2>1, GreatestExists
  <2>3. \E y \in S : \A x \in S : y >= x
    BY <2>1, <2>2
  <2>4. Max(S) \in S /\ \A x \in S : Max(S) >= x
    BY <2>3, Zenon DEF Max
  <2>5. Newest(S) = Max(S)
    BY <1>2 DEF Newest
  <2> QED  BY <2>1, <2>4, <2>5
<1> QED  BY <1>1, <1>2

\* What is committed stays, with the predecessor it was given.
LEMMA CommittedStays ==
  ASSUME TypeOK, ChainAssumption, [ChainNext]_chainVars, NEW t
  PROVE  \A i \in Committed(t) : i \in Committed(t)' /\ rows'[i].prev = rows[i].prev
<1>0. Len(rows) \in Nat /\ DOMAIN rows = 1..Len(rows)
  BY DEF TypeOK
<1>1. CASE rows' = rows
  BY <1>1 DEF Committed
<1>2. ASSUME NEW s \in Sessions, Insert(s)
      PROVE  \A i \in Committed(t) : i \in Committed(t)' /\ rows'[i].prev = rows[i].prev
  <2>1. DOMAIN rows' = 1..(Len(rows) + 1) /\ \A i \in DOMAIN rows : rows'[i] = rows[i]
    BY <1>2, InsertEffect
  <2> QED  BY <1>0, <2>1 DEF Committed
<1>3. ASSUME NEW s \in Sessions, NEW st \in {"committed", "gone"}, End(s, st)
      PROVE  \A i \in Committed(t) : i \in Committed(t)' /\ rows'[i].prev = rows[i].prev
  <2>1. /\ DOMAIN rows' = DOMAIN rows
        /\ \A i \in DOMAIN rows :
             /\ rows'[i].tenant = rows[i].tenant /\ rows'[i].prev = rows[i].prev
             /\ rows'[i].status = IF rows[i].by = s /\ rows[i].status = "pending"
                                  THEN st ELSE rows[i].status
    BY <1>3, EndEffect DEF TypeOK
  <2> QED  BY <2>1 DEF Committed
<1> QED  BY <1>1, <1>2, <1>3 DEF ChainNext, chainVars, ReadTail, Commit, Rollback

\* The entry that skips another goes on doing so: its own predecessor is
\* committed before it, and the one it skips is newer than that and stays.
LEMMA BrokenStep ==
  ASSUME KeptInv, ChainAssumption, [ChainNext]_chainVars
  PROVE  StaysBroken
<1>1. SUFFICES ASSUME NEW t \in Tenants, ~Accepted(t)  PROVE ~Accepted(t)'
  BY DEF StaysBroken
<1> DEFINE Older(i) == {j \in Committed(t) : j < i}
<1>2. PICK i \in Committed(t) : rows[i].prev # Newest(Older(i))
  BY <1>1 DEF Accepted, Verified
<1>3. TypeOK /\ TypeOK' /\ \A j \in Committed(t) : j \in Committed(t)' /\ rows'[j].prev = rows[j].prev
  BY TypeStep, CommittedStays DEF KeptInv
<1> DEFINE n == Len(rows)  later == {j \in Committed(t)' : j < i}  m == Len(rows')
<1>4. /\ n \in Nat /\ m \in Nat /\ Older(i) \subseteq 1..n /\ later \subseteq 1..m
      /\ Older(i) \subseteq later /\ i \in Nat
  BY <1>3 DEF TypeOK, Committed
<1>5. rows[i].prev = Genesis \/ rows[i].prev \in Older(i)
  BY <1>2 DEF KeptInv, Linked, Committed
<1>6. PICK q \in Older(i) : rows[i].prev < q
  <2>1. Older(i) # {}
    BY <1>2, <1>4, <1>5, NewestIsGreatest
  <2>2. Newest(Older(i)) \in Older(i) /\ \A x \in Older(i) : x <= Newest(Older(i))
    BY <1>4, <2>1, NewestIsGreatest
  <2> DEFINE g == Newest(Older(i))
  <2>3. g \in Nat /\ g > 0
    BY <1>4, <2>2
  <2>4. rows[i].prev \in Nat /\ rows[i].prev <= g /\ rows[i].prev # g
    <3>1. rows[i].prev = Genesis \/ (rows[i].prev \in Older(i) /\ rows[i].prev <= g)
      BY <1>5, <2>2
    <3> HIDE DEF g
    <3> QED  BY <1>2, <1>4, <2>3, <3>1 DEF Genesis, g
  <2> HIDE DEF g
  <2>5. rows[i].prev < g
    BY <2>3, <2>4
  <2> QED  BY <2>2, <2>5 DEF g
<1>7. Newest(later) \in later /\ q <= Newest(later)
  <2>1. later # {} /\ q \in later
    BY <1>4, <1>6
  <2> HIDE DEF later, m
  <2> QED  BY <1>4, <2>1, NewestIsGreatest
<1>8. rows'[i].prev # Newest(later)
  <2> DEFINE g == Newest(later)  p == rows[i].prev
  <2>1. g \in Nat /\ q \in Nat /\ p \in Nat
    BY <1>4, <1>5, <1>6, <1>7 DEF Genesis
  <2>2. p < q /\ q <= g
    BY <1>6, <1>7
  <2> HIDE DEF g, p
  <2>3. p # g
    BY <2>1, <2>2
  <2> QED  BY <1>2, <1>3, <2>3 DEF g, p
<1> QED  BY <1>2, <1>3, <1>8 DEF Accepted, Verified, Newest

\* For any number of sessions and tenants, overlapping in any way: a trail
\* verify_chain has refused is never accepted again.
THEOREM BrokenAlwaysStays == ChainSpec => BrokenStaysBroken
<1>1. KeptInv /\ [ChainNext]_chainVars => KeptInv'
  BY KeptStep, ChainAssumption
<1>2. ChainInit => KeptInv
  BY KeptInit, ChainAssumption
<1>3. KeptInv /\ [ChainNext]_chainVars => [\A t \in Tenants : ~Accepted(t) => ~Accepted(t)']_chainVars
  BY BrokenStep, ChainAssumption DEF StaysBroken
<1> QED  BY <1>1, <1>2, <1>3, PTL DEF ChainSpec, BrokenStaysBroken

-----------------------------------------------------------------------------
(* The event stream.                                                       *)

CallRecord == [tool : Names, effect : Effects \cup {"none"}, yes : Nat]
RunRecord == [call : CallRecord, before : Nat, ok : BOOLEAN]
EventKinds == {"task_start", "step_start", "tool_denied", "tool_call", "tool_result",
               "final_answer", "task_complete", "task_error"}
EventRecord == [event : EventKinds, tool : Names \cup {NoTool}]

InGates == {"gates", "escalated", "budget", "exec"}
Considering == {"escalated", "budget", "exec"}
Case == [tool |-> Tool, effect |-> effect, yes |-> yes]

StreamTyped ==
  /\ agent \in Agents /\ now \in Clocks
  /\ step \in Nat /\ spent \in Nat
  /\ calls \in Responses \cup {<<>>} /\ at \in Nat \ {0}
  /\ pc \in InGates => at \in 1..Len(calls)
  /\ effect \in Effects \cup {"none"} /\ yes \in Nat
  /\ ran \in Seq(RunRecord) /\ events \in Seq(EventRecord)

(***************************************************************************)
(* What each of the four gates has established about the current call.     *)
(***************************************************************************)
Judged ==
  /\ pc \in Considering =>
       /\ Tool \in DOMAIN agent.specs
       /\ CheckPermissions(agent.scopes, ToolSpec.scopes)
       /\ effect \in {"allow", "escalate"}
  /\ pc = "escalated" => agent.approver
  /\ pc \in {"budget", "exec"} => (effect = "escalate" => yes >= 1)
  /\ pc = "exec" => CheckCost(agent.limits, spent, ToolSpec.cost) = "allow"

StreamIInv == StreamTyped /\ Judged

-----------------------------------------------------------------------------
(* The helpers the stream's steps share.                                   *)

\* The call the loop is at is one the model requested, by a known name.
LEMMA StreamToolType ==
  ASSUME StreamTyped, pc \in InGates
  PROVE  /\ Tool \in Names /\ calls \in Seq(Names) /\ at \in 1..Len(calls)
         /\ Tool \in DOMAIN agent.specs => ToolSpec.cost \in Nat /\ ToolSpec.approval \in BOOLEAN
<1>1. calls \in Seq(Names)
  <2>1. calls \in Responses \cup {<<>>}
    BY DEF StreamTyped
  <2>2. <<>> \in Seq(Names)
    OBVIOUS
  <2> QED  BY <2>1, <2>2, EnvironmentAssumption
<1>2. at \in 1..Len(calls) /\ agent \in Agents
  BY DEF StreamTyped
<1> QED
  BY <1>1, <1>2, AgentsAssumption DEF Tool, ToolSpec

\* An event extends the stream with a well-typed record.
Event(kind, tool) == [event |-> kind, tool |-> tool]
LEMMA YieldType ==
  ASSUME StreamTyped, NEW kind \in EventKinds, NEW tool \in Names \cup {NoTool}, Yield(kind, tool)
  PROVE  /\ Event(kind, tool) \in EventRecord /\ events' = Append(events, Event(kind, tool))
         /\ Event(kind, tool).event = kind /\ Event(kind, tool).tool = tool
         /\ events' \in Seq(EventRecord)
<1>1. Event(kind, tool) \in EventRecord
  BY DEF EventRecord, Event
<1>2. events \in Seq(EventRecord)
  BY DEF StreamTyped
<1>3. events' = Append(events, Event(kind, tool))
  BY DEF Yield, Event
<1> QED
  BY <1>1, <1>2, <1>3 DEF Event

\* What an answered call leaves behind.
Moved ==
  /\ calls' = calls /\ result' = result /\ at' \in Nat \ {0}
  /\ \/ pc' = "gates" /\ at' \in 1..Len(calls')
     \/ pc' = "loop"

LEMMA NextCallMoves ==
  ASSUME StreamTyped, pc \in InGates, NextCall
  PROVE  Moved
<1>1. at \in 1..Len(calls) /\ calls \in Seq(Names)
  BY StreamToolType
<1> QED
  BY <1>1 DEF NextCall, Moved

\* A refused call is answered by an event, and the loop moves on.
LEMMA RefusalMoves ==
  ASSUME StreamTyped, pc \in InGates, Refuse
  PROVE  Moved /\ events' \in Seq(EventRecord)
<1>1. Tool \in Names \cup {NoTool} /\ "tool_denied" \in EventKinds
  BY StreamToolType DEF EventKinds
<1> QED
  BY <1>1, YieldType, NextCallMoves DEF Refuse

-----------------------------------------------------------------------------
(* Induction.                                                              *)

LEMMA StreamInit == Init => StreamIInv
<1> SUFFICES ASSUME Init  PROVE StreamIInv
  OBVIOUS
<1>1. <<>> \in Seq(RunRecord) /\ <<>> \in Seq(EventRecord)
  OBVIOUS
<1>2. StreamTyped
  BY <1>1 DEF Init, StreamTyped, InGates
<1>3. Judged
  BY DEF Init, Judged, Considering
<1> QED
  BY <1>2, <1>3 DEF StreamIInv

\* Outside the gates the tools that ran are left alone, and nothing is judged.
LEMMA StreamOuter ==
  ASSUME StreamIInv,
         Start \/ BeginStep \/ TaskError \/ CompletionFails \/ TaskComplete \/ Disconnect
  PROVE  StreamIInv'
<1> USE DEF StreamIInv
<1>1. \/ UNCHANGED events
      \/ \E kind \in EventKinds : Yield(kind, NoTool)
  BY DEF Start, BeginStep, TaskError, CompletionFails, TaskComplete, Disconnect, Fail, EventKinds
<1>2. events' \in Seq(EventRecord)
  BY <1>1, YieldType DEF StreamTyped
<1>3. /\ UNCHANGED <<agent, now, spent, calls, at, effect, yes, ran>>
      /\ pc' \in {"loop", "fail", "llm", "done"} /\ step' \in Nat
  BY DEF Start, BeginStep, TaskError, CompletionFails, TaskComplete, Disconnect, Fail, Return,
     config, turn, ruling, StreamTyped
<1>4. StreamTyped'
  BY <1>2, <1>3 DEF StreamTyped, InGates
<1>5. Judged'
  BY <1>3 DEF Judged, Considering
<1> QED
  BY <1>4, <1>5

LEMMA StreamCompletion ==
  ASSUME StreamIInv, Completion
  PROVE  StreamIInv'
<1> USE DEF StreamIInv
<1>1. PICK r \in Responses, c \in LLMCosts :
        /\ calls' = r /\ spent' = spent + c
        /\ IF r = <<>> THEN Yield("final_answer", NoTool) /\ pc' = "answer"
                       ELSE pc' = "gates" /\ UNCHANGED events
  BY DEF Completion
<1>2. r \in Seq(Names) /\ c \in Nat /\ (r # <<>> => 1 \in 1..Len(r))
  BY <1>1, EnvironmentAssumption
<1>3. UNCHANGED <<agent, now, step, effect, yes, ran>> /\ at' = 1
  BY DEF Completion, config, ruling
<1>4. events' \in Seq(EventRecord)
  BY <1>1, YieldType DEF StreamTyped, EventKinds
<1>5. StreamTyped'
  BY <1>1, <1>2, <1>3, <1>4 DEF StreamTyped, InGates
<1>6. Judged'
  BY <1>1 DEF Judged, Considering
<1> QED
  BY <1>5, <1>6

\* A refusal, by whichever gate, and the end of a tool leave nothing judged.
LEMMA StreamMoves ==
  ASSUME StreamIInv, Moved, events' \in Seq(EventRecord), ran' \in Seq(RunRecord),
         UNCHANGED <<agent, now, step>>, spent' \in Nat,
         effect' \in Effects \cup {"none"}, yes' \in Nat
  PROVE  StreamIInv'
<1> USE DEF StreamIInv
<1>1. StreamTyped'
  BY DEF StreamTyped, Moved, InGates
<1>2. Judged'
  BY DEF Judged, Moved, Considering
<1> QED
  BY <1>1, <1>2

\* A gate that lets the call pass stays on it.
LEMMA StreamPasses ==
  ASSUME StreamIInv, pc \in InGates, UNCHANGED <<agent, now, step, spent, turn, ran>>,
         pc' \in InGates, effect' \in Effects \cup {"none"}, yes' \in Nat,
         events' \in Seq(EventRecord), Judged'
  PROVE  StreamIInv'
BY DEF StreamIInv, StreamTyped, turn

LEMMA StreamEarlyGates ==
  ASSUME StreamIInv, UnknownTool \/ LacksPermission
  PROVE  StreamIInv'
<1>1. pc \in InGates /\ Refuse /\ UNCHANGED <<agent, now, step, spent, effect, yes, ran>>
  BY DEF UnknownTool, LacksPermission, InGates, config, ruling
<1>2. Moved /\ events' \in Seq(EventRecord)
  BY <1>1, RefusalMoves DEF StreamIInv
<1> QED
  BY <1>1, <1>2, StreamMoves DEF StreamIInv, StreamTyped

LEMMA StreamPolicyGate ==
  ASSUME StreamIInv, PolicyGate
  PROVE  StreamIInv'
<1>1. /\ pc \in InGates /\ UNCHANGED <<agent, now, step, spent, ran>>
      /\ Tool \in DOMAIN agent.specs /\ CheckPermissions(agent.scopes, ToolSpec.scopes)
      /\ effect' = Evaluate(agent.rules, Tool, <<>>, now) /\ yes' = 0
  BY DEF PolicyGate, InGates, config
<1>2. effect' \in Effects
  <2>1. agent.rules \in Seq(ToSet(agent.rules))
    BY AgentsAssumption DEF StreamIInv, StreamTyped
  <2> QED  BY <1>1, <2>1, EvaluateType
<1>3. CASE Refuse
  <2>1. Moved /\ events' \in Seq(EventRecord)
    BY <1>1, <1>3, RefusalMoves DEF StreamIInv
  <2> QED
    BY <1>1, <1>2, <2>1, StreamMoves DEF StreamIInv, StreamTyped
<1>4. CASE /\ UNCHANGED <<turn, events, result>>
           /\ \/ effect' = "allow" /\ pc' = "budget"
              \/ effect' = "escalate" /\ pc' = "escalated" /\ agent.approver
  <2>1. Tool' = Tool /\ ToolSpec' = ToolSpec
    BY <1>1, <1>4 DEF Tool, ToolSpec, turn
  <2>2. Judged'
    BY <1>1, <1>4, <2>1 DEF Judged, Considering
  <2> QED
    BY <1>1, <1>2, <1>4, <2>2, StreamPasses DEF InGates, StreamIInv, StreamTyped
<1> QED
  BY <1>2, <1>3, <1>4 DEF PolicyGate, Effects

LEMMA StreamEscalation ==
  ASSUME StreamIInv, Escalation
  PROVE  StreamIInv'
<1>1. pc \in InGates /\ pc = "escalated" /\ UNCHANGED <<agent, now, step, spent, effect, ran>>
  BY DEF Escalation, InGates, config
<1>2. effect \in Effects \cup {"none"} /\ yes \in Nat
  BY DEF StreamIInv, StreamTyped
<1>3. CASE Refuse /\ UNCHANGED yes
  <2>1. Moved /\ events' \in Seq(EventRecord)
    BY <1>1, <1>3, RefusalMoves DEF StreamIInv
  <2> QED
    BY <1>1, <1>2, <1>3, <2>1, StreamMoves DEF StreamIInv, StreamTyped
<1>4. CASE pc' = "budget" /\ yes' = yes + 1 /\ UNCHANGED <<turn, events, result>>
  <2>1. Tool' = Tool /\ ToolSpec' = ToolSpec
    BY <1>1, <1>4 DEF Tool, ToolSpec, turn
  <2>2. Judged'
    BY <1>1, <1>2, <1>4, <2>1 DEF Judged, StreamIInv, Considering
  <2> QED
    BY <1>1, <1>2, <1>4, <2>2, StreamPasses DEF InGates, StreamIInv, StreamTyped
<1>5. CASE Fail /\ UNCHANGED <<turn, yes>>
  <2>1. events' \in Seq(EventRecord) /\ pc' = "done"
    BY <1>5, YieldType DEF Fail, Return, StreamIInv, EventKinds
  <2> QED
    BY <1>1, <1>2, <1>5, <2>1 DEF StreamIInv, StreamTyped, Judged, InGates, Considering, turn
<1> QED
  BY <1>3, <1>4, <1>5 DEF Escalation

LEMMA StreamBudgetGate ==
  ASSUME StreamIInv, BudgetGate
  PROVE  StreamIInv'
<1>1. /\ pc \in InGates /\ pc = "budget"
      /\ UNCHANGED <<agent, now, step, spent, effect, yes, ran>>
  BY DEF BudgetGate, InGates, config, ruling
<1>2. CASE Refuse
  <2>1. Moved /\ events' \in Seq(EventRecord)
    BY <1>1, <1>2, RefusalMoves DEF StreamIInv
  <2> QED
    BY <1>1, <2>1, StreamMoves DEF StreamIInv, StreamTyped
<1>3. CASE /\ CheckCost(agent.limits, spent, ToolSpec.cost) = "allow"
           /\ Yield("tool_call", Tool) /\ pc' = "exec" /\ UNCHANGED <<turn, result>>
  <2>1. Tool' = Tool /\ ToolSpec' = ToolSpec
    BY <1>1, <1>3 DEF Tool, ToolSpec, turn
  <2>2. Judged'
    BY <1>1, <1>3, <2>1 DEF Judged, StreamIInv, Considering
  <2>3. events' \in Seq(EventRecord)
    BY <1>1, <1>3, StreamToolType, YieldType DEF StreamIInv, EventKinds
  <2> QED
    BY <1>1, <1>3, <2>2, <2>3, StreamPasses DEF InGates, StreamIInv, StreamTyped
<1> QED
  BY <1>2, <1>3 DEF BudgetGate

LEMMA StreamToolRuns ==
  ASSUME StreamIInv, ToolRuns
  PROVE  /\ StreamIInv' /\ Moved /\ Yield("tool_result", Tool)
         /\ \E ok \in BOOLEAN :
              /\ [call |-> Case, before |-> spent, ok |-> ok] \in RunRecord
              /\ ran' = Append(ran, [call |-> Case, before |-> spent, ok |-> ok])
              /\ spent' = IF ok THEN spent + ToolSpec.cost ELSE spent
<1>1. /\ pc \in InGates /\ pc = "exec" /\ UNCHANGED <<agent, now, step, effect, yes>>
      /\ Yield("tool_result", Tool) /\ NextCall
  BY DEF ToolRuns, InGates, config, ruling
<1>2. PICK ok \in BOOLEAN :
        /\ ran' = Append(ran, [call |-> Case, before |-> spent, ok |-> ok])
        /\ spent' = IF ok THEN spent + ToolSpec.cost ELSE spent
  BY DEF ToolRuns, Case
<1>3. /\ Tool \in Names /\ Tool \in DOMAIN agent.specs /\ ToolSpec.cost \in Nat
      /\ effect \in Effects \cup {"none"} /\ yes \in Nat /\ spent \in Nat
      /\ ran \in Seq(RunRecord)
  BY <1>1, StreamToolType DEF StreamIInv, StreamTyped, Judged, Considering
<1>4. Moved /\ events' \in Seq(EventRecord)
  BY <1>1, <1>3, NextCallMoves, YieldType DEF StreamIInv, EventKinds
<1>5. [call |-> Case, before |-> spent, ok |-> ok] \in RunRecord
  BY <1>3 DEF RunRecord, CallRecord, Case
<1>6. ran' \in Seq(RunRecord) /\ spent' \in Nat
  BY <1>2, <1>3, <1>5
<1>7. StreamIInv'
  BY <1>1, <1>3, <1>4, <1>6, StreamMoves
<1> QED
  BY <1>1, <1>2, <1>4, <1>5, <1>7

LEMMA StreamRests ==
  ASSUME StreamIInv, Tick \/ UNCHANGED vars
  PROVE  StreamIInv'
<1>1. now' \in Clocks
      /\ UNCHANGED <<agent, pc, step, spent, calls, at, effect, yes, ran, events>>
  BY DEF Tick, vars, turn, ruling, StreamIInv, StreamTyped
<1>2. Tool' = Tool /\ ToolSpec' = ToolSpec
  BY <1>1 DEF Tool, ToolSpec
<1>3. StreamTyped'
  BY <1>1 DEF StreamIInv, StreamTyped
<1>4. Judged'
  BY <1>1, <1>2 DEF StreamIInv, Judged
<1> QED
  BY <1>3, <1>4 DEF StreamIInv

LEMMA StreamInduction == StreamIInv /\ [Next]_vars => StreamIInv'
BY StreamOuter, StreamCompletion, StreamEarlyGates, StreamPolicyGate, StreamEscalation,
   StreamBudgetGate, StreamToolRuns, StreamRests
   DEF Next, Proceed, Returned

\* Every behaviour of execute_task_stream keeps the inductive invariant.
THEOREM StreamInvariance == Spec => []StreamIInv
BY StreamInit, StreamInduction, PTL DEF Spec

-----------------------------------------------------------------------------
(* Refinement: for agents without tools that demand approval every step of *)
(* the stream is a step of Governance or a stutter.                        *)

Plain == \A a \in Agents : \A t \in DOMAIN a.specs : ~a.specs[t].approval

\* The abstract specification judges with the operators of the same module.
LEMMA SamePolicy ==
  ASSUME NEW a, NEW b, NEW c
  PROVE  /\ G!CheckPermissions(a, b) = CheckPermissions(a, b)
         /\ G!CheckCost(a, b, c) = CheckCost(a, b, c)
BY DEF G!CheckPermissions, CheckPermissions, G!HasScope, HasScope, G!CheckCost, CheckCost,
   G!Star, Star

LEMMA SameDecides ==
  ASSUME NEW rule, NEW action, NEW context, NEW clock
  PROVE  G!Decides(rule, action, context, clock) = Decides(rule, action, context, clock)
<1>1. G!ActionMatches(rule.action, action) = ActionMatches(rule.action, action)
  BY DEF G!ActionMatches, ActionMatches, G!Star, Star, G!Last, Last, G!Front, Front,
     G!IsPrefix, IsPrefix, G!IsSuffix, IsSuffix, G!Reverse, Reverse
<1>2. ASSUME NEW c  PROVE G!Holds(c, context, clock) = Holds(c, context, clock)
  BY DEF G!Holds, Holds, G!Lookup, Lookup
<1> QED
  BY <1>1, <1>2, Zenon DEF G!Decides, Decides, G!Effects, Effects

LEMMA SameEvaluate ==
  ASSUME NEW rules, NEW action, NEW context, NEW clock
  PROVE  G!Evaluate(rules, action, context, clock) = Evaluate(rules, action, context, clock)
<1> DEFINE I == {i \in 1..Len(rules) : Decides(rules[i], action, context, clock)}
           J == {i \in 1..Len(rules) : G!Decides(rules[i], action, context, clock)}
           First(S) == LET i == IF S # {} THEN CHOOSE x \in S : \A y \in S : x <= y ELSE 0
                       IN  IF i = 0 THEN "deny" ELSE rules[i].effect
<1>1. I = J
  BY SameDecides, Zenon
<1>2. Evaluate(rules, action, context, clock) = First(I)
  BY Zenon DEF Evaluate, SelectInSeq, Min
<1>3. G!Evaluate(rules, action, context, clock) = First(J)
  BY Zenon DEF G!Evaluate, G!SelectInSeq, G!Min
<1> HIDE DEF I, J, First
<1> QED
  BY <1>1, <1>2, <1>3, Zenon

LEMMA StreamInitRefines == Init => G!Init
BY DEF Init, G!Init, G!Idle

\* The call under consideration is dropped, refused or never existed.
LEMMA StreamDropRefines ==
  ASSUME UNCHANGED <<agent, now, spent, ran>>, pc' \notin Considering, pc # "done"
  PROVE  G!Drop
BY DEF G!Drop, G!Idle, Considering

\* Outside the gates, at a refusal and when the client leaves.
LEMMA StreamOuterRefines ==
  ASSUME Start \/ BeginStep \/ TaskError \/ CompletionFails \/ TaskComplete \/ Disconnect
         \/ UnknownTool \/ LacksPermission
  PROVE  G!Next
<1>1. /\ UNCHANGED <<agent, now, spent, ran>> /\ pc # "done"
      /\ pc' \in {"loop", "fail", "llm", "done", "gates"}
  BY DEF Start, BeginStep, TaskError, CompletionFails, TaskComplete, Disconnect, Fail, Return,
     config, UnknownTool, LacksPermission, Refuse, NextCall
<1> QED
  BY <1>1, StreamDropRefines DEF G!Next, Considering

LEMMA StreamCompletionRefines ==
  ASSUME Completion
  PROVE  G!Next
<1>1. \E c \in LLMCosts : spent' = spent + c
  BY DEF Completion
<1>2. pc = "llm" /\ pc' \in {"answer", "gates"} /\ UNCHANGED <<agent, now, ran>>
  BY DEF Completion, config
<1> QED
  BY <1>1, <1>2 DEF G!Next, G!Think, G!Idle

LEMMA StreamPolicyGateRefines ==
  ASSUME StreamIInv, PolicyGate
  PROVE  G!Next
<1>1. /\ pc = "gates" /\ UNCHANGED <<agent, now, spent, ran>>
      /\ Tool \in DOMAIN agent.specs /\ CheckPermissions(agent.scopes, ToolSpec.scopes)
      /\ effect' = Evaluate(agent.rules, Tool, <<>>, now) /\ yes' = 0
  BY DEF PolicyGate, config
<1>2. effect' \in Effects
  <2>1. agent.rules \in Seq(ToSet(agent.rules))
    BY AgentsAssumption DEF StreamIInv, StreamTyped
  <2> QED  BY <1>1, <2>1, EvaluateType
<1>3. CASE Refuse
  <2>1. pc' \in {"gates", "loop"}
    BY <1>3 DEF Refuse, NextCall
  <2> QED
    BY <1>1, <2>1, StreamDropRefines DEF G!Next, Considering
<1>4. CASE effect' # "deny" /\ UNCHANGED turn /\ pc' \in {"budget", "escalated"}
  <2>1. Tool' = Tool
    BY <1>4 DEF Tool, turn
  <2>2. G!CheckPermissions(agent.scopes, agent.specs[Tool].scopes)
    BY <1>1, SamePolicy DEF ToolSpec
  <2>3. effect' = G!Evaluate(agent.rules, Tool, <<>>, now)
    BY <1>1, SameEvaluate
  <2>4. G!Consider
    BY <1>1, <1>4, <2>1, <2>2, <2>3 DEF G!Consider, G!Idle
  <2> QED
    BY <2>4 DEF G!Next
<1> QED
  BY <1>2, <1>3, <1>4 DEF PolicyGate, Effects

\* A human's yes is the abstract approval, a no or an exception drops the call.
LEMMA StreamHumansRefine ==
  ASSUME StreamIInv, Escalation
  PROVE  G!Next
<1>1. pc = "escalated" /\ UNCHANGED <<agent, now, spent, effect, ran>>
  BY DEF Escalation, config
<1>2. CASE pc' \in {"gates", "loop", "done"}
  BY <1>1, <1>2, StreamDropRefines DEF G!Next, Considering
<1>3. CASE pc' = "budget" /\ agent.approver /\ yes' = yes + 1 /\ UNCHANGED turn
  <2>1. Tool' = Tool /\ Tool \in Names
    BY <1>1, <1>3, StreamToolType DEF Tool, turn, StreamIInv, InGates
  <2>2. Case' = [Case EXCEPT !.yes = @ + 1]
    BY <1>1, <1>3, <2>1 DEF Case
  <2>3. Case # G!Idle
    <3>1. effect # "none"
      BY <1>1 DEF StreamIInv, Judged, Considering
    <3> QED  BY <3>1 DEF Case, G!Idle
  <2>4. G!Approve
    BY <1>1, <1>3, <2>2, <2>3 DEF G!Approve, Case
  <2> QED
    BY <2>4 DEF G!Next
<1> QED
  BY <1>1, <1>2, <1>3 DEF Escalation, Refuse, NextCall, Fail, Return, StreamIInv, Judged

LEMMA StreamBudgetGateRefines ==
  ASSUME BudgetGate
  PROVE  G!Next \/ UNCHANGED G!vars
<1>1. pc = "budget" /\ UNCHANGED <<agent, now, spent, effect, yes, ran>>
  BY DEF BudgetGate, config, ruling
<1>2. CASE pc' \in {"gates", "loop"}
  BY <1>1, <1>2, StreamDropRefines DEF G!Next, Considering
<1>3. CASE pc' = "exec" /\ UNCHANGED turn
  BY <1>1, <1>3 DEF G!vars, Tool, turn
<1> QED
  BY <1>2, <1>3 DEF BudgetGate, Refuse, NextCall

\* The approvals a call needs are the policy's, as no tool demands one itself.
LEMMA StreamToolRunsRefines ==
  ASSUME Plain, StreamIInv, ToolRuns
  PROVE  G!Next
<1>1. pc = "exec" /\ pc' \in {"gates", "loop"} /\ UNCHANGED <<agent, now>>
  BY DEF ToolRuns, config, NextCall
<1>2. \E ok \in BOOLEAN :
        /\ ran' = Append(ran, [call |-> Case, before |-> spent, ok |-> ok])
        /\ spent' = IF ok THEN spent + agent.specs[Tool].cost ELSE spent
  BY DEF ToolRuns, Case, ToolSpec
<1>3. Case.tool = Tool /\ Case.effect = effect /\ Case.yes = yes
  BY DEF Case
<1>4. /\ Tool \in DOMAIN agent.specs /\ effect \in {"allow", "escalate"}
      /\ CheckPermissions(agent.scopes, agent.specs[Tool].scopes)
      /\ CheckCost(agent.limits, spent, agent.specs[Tool].cost) = "allow"
      /\ effect = "escalate" => yes >= 1
  BY <1>1 DEF StreamIInv, Judged, ToolSpec, Considering
<1>5. yes >= G!Needed(agent, Case)
  <2>1. ~agent.specs[Tool].approval /\ yes \in Nat
    BY <1>4 DEF Plain, StreamIInv, StreamTyped
  <2>2. G!Needed(agent, Case) = (IF effect = "escalate" THEN 1 ELSE 0)
    BY <1>3, <2>1 DEF G!Needed
  <2> QED  BY <1>4, <2>1, <2>2
<1>6. G!Authorised(agent, Case, spent)
  BY <1>3, <1>4, <1>5, SamePolicy DEF G!Authorised
<1>7. Case # G!Idle
  BY <1>3, <1>4 DEF G!Idle
<1>8. G!Run
  <2>1. pc # "done" /\ pc' # "done"
    BY <1>1
  <2> QED
    BY <1>1, <1>2, <1>3, <1>6, <1>7, <2>1 DEF G!Run, Case, G!Idle
<1> QED
  BY <1>8 DEF G!Next

LEMMA StreamTickRefines ==
  ASSUME Tick
  PROVE  G!Next
<1>1. now' \in Clocks /\ UNCHANGED <<agent, pc, spent, calls, at, effect, yes, ran>>
  BY DEF Tick, turn, ruling
<1>2. G!Tick
  BY <1>1 DEF G!Tick, Tool
<1> QED
  BY <1>2 DEF G!Next

LEMMA StreamStepRefines ==
  ASSUME Plain
  PROVE  StreamIInv /\ [Next]_vars => [G!Next]_(G!vars)
<1> SUFFICES ASSUME StreamIInv, [Next]_vars  PROVE G!Next \/ UNCHANGED G!vars
  OBVIOUS
<1>1. CASE UNCHANGED vars
  BY <1>1 DEF vars, G!vars, Tool
<1>2. CASE Proceed \/ Disconnect \/ Tick
  BY <1>2, StreamOuterRefines, StreamCompletionRefines, StreamPolicyGateRefines,
     StreamHumansRefine, StreamBudgetGateRefines, StreamToolRunsRefines, StreamTickRefines
     DEF Proceed
<1> QED
  BY <1>1, <1>2 DEF Next, Returned

(***************************************************************************)
(* "Same governance as execute_task": as long as no tool demands approval  *)
(* itself, each step of the stream is one the abstract specification       *)
(* allows, wherever the client leaves.                                     *)
(***************************************************************************)
THEOREM StreamImplements ==
  ASSUME Plain
  PROVE  Spec => SameGovernance
<1>1. StreamIInv /\ [Next]_vars => [G!Next]_(G!vars)
  BY StreamStepRefines
<1> QED
  BY <1>1, StreamInitRefines, StreamInvariance, PTL DEF Spec, SameGovernance, G!Spec

-----------------------------------------------------------------------------
(* What the events of one kind name.                                       *)

NamedWith(kind, e, named) == IF e.event = kind THEN Append(named, e.tool) ELSE named
Tools == Names \cup {NoTool}

\* c goes from nothing to what the entries name, entry by entry.
NamesBySteps(c, entries, kind) ==
  /\ c[0] = <<>> /\ Named(entries, kind) = c[Len(entries)]
  /\ \A k \in 1..Len(entries) : c[k] = NamedWith(kind, entries[k], c[k - 1])

\* What some events name is the end of a chain that grows event by event.
LEMMA NamedChain ==
  ASSUME NEW entries \in Seq(EventRecord), NEW kind
  PROVE  \E c : NamesBySteps(c, entries, kind)
<1> DEFINE n == Len(entries)
           adds == [p \in (1..n) \X Seq(Tools) |-> NamedWith(kind, entries[p[1]], p[2])]
           Solves(g) == g = [t \in SUBSET DOMAIN entries |->
                               IF t = {} THEN <<>>
                               ELSE IF entries[Max(t)].event = kind
                                    THEN Append(g[t \ {Max(t)}], entries[Max(t)].tool)
                                    ELSE g[t \ {Max(t)}]]
           iter == CHOOSE g : Solves(g)
<1>1. n \in Nat /\ DOMAIN entries = 1..n /\ <<>> \in Seq(Tools)
  OBVIOUS
<1>2. Named(entries, kind) = iter[1..n]
  BY <1>1, Zenon DEF Named, FoldLeft, MapThenFoldSet
<1>3. PICK g \in [SUBSET (1..n) -> Seq(Tools)] : FoldsPositions(g, n, <<>>, adds)
  <2>1. adds \in [(1..n) \X Seq(Tools) -> Seq(Tools)]
    <3>1. ASSUME NEW k \in 1..n, NEW named \in Seq(Tools)
          PROVE  NamedWith(kind, entries[k], named) \in Seq(Tools)
      <4>1. entries[k] \in EventRecord
        OBVIOUS
      <4>2. entries[k].tool \in Tools
        BY <4>1 DEF EventRecord, Tools
      <4> QED  BY <4>2 DEF NamedWith
    <3> QED  BY <3>1
  <2> HIDE DEF adds, n
  <2> QED
    BY <1>1, <2>1, FoldExists DEF Foldable
<1>4. Solves(g)
  <2>1. ASSUME NEW t \in SUBSET (1..n)
        PROVE  g[t] = IF t = {} THEN <<>>
                      ELSE IF entries[Max(t)].event = kind
                           THEN Append(g[t \ {Max(t)}], entries[Max(t)].tool)
                           ELSE g[t \ {Max(t)}]
    <3>1. CASE t = {}
      BY <1>3, <3>1 DEF FoldsPositions
    <3>2. CASE t # {}
      <4>1. Max(t) \in 1..n /\ t \ {Max(t)} \in SUBSET (1..n)
        BY <1>1, <3>2, MaxOfPositions
      <4>2. g[t \ {Max(t)}] \in Seq(Tools)
        BY <1>3, <4>1
      <4>3. adds[<<Max(t), g[t \ {Max(t)}]>>] = NamedWith(kind, entries[Max(t)], g[t \ {Max(t)}])
        BY <4>1, <4>2
      <4>4. g[t] = adds[<<Max(t), g[t \ {Max(t)}]>>]
        BY <1>3, <3>2 DEF FoldsPositions
      <4> HIDE DEF adds
      <4> QED  BY <3>2, <4>3, <4>4 DEF NamedWith
    <3> QED  BY <3>1, <3>2
  <2> QED
    BY <1>1, <1>3, <2>1
<1>5. Solves(iter)
  <2> HIDE DEF Solves
  <2> QED  BY <1>4
<1>6. iter[{}] = <<>>
  BY <1>1, <1>5
<1>7. ASSUME NEW k \in 1..n
      PROVE  iter[1..k] = NamedWith(kind, entries[k], iter[1..(k - 1)])
  <2>1. k - 1 \in Nat /\ (k - 1) + 1 = k
    BY <1>1
  <2>2. Max(1..k) = k /\ (1..k) \ {k} = 1..(k - 1) /\ 1..k # {}
    BY <2>1, LastOfAll
  <2>3. 1..k \in SUBSET DOMAIN entries
    BY <1>1
  <2> HIDE DEF iter
  <2>4. iter[1..k] = IF entries[Max(1..k)].event = kind
                     THEN Append(iter[(1..k) \ {Max(1..k)}], entries[Max(1..k)].tool)
                     ELSE iter[(1..k) \ {Max(1..k)}]
    BY <1>5, <2>2, <2>3
  <2> QED
    BY <2>2, <2>4 DEF NamedWith
<1> DEFINE c == [k \in 0..n |-> iter[1..k]]
<1>8. /\ c[0] = <<>> /\ c[n] = iter[1..n]
      /\ \A k \in 1..n : c[k] = NamedWith(kind, entries[k], c[k - 1])
  <2>1. 1..0 = {}
    OBVIOUS
  <2> HIDE DEF iter
  <2> QED  BY <1>1, <1>6, <1>7, <2>1
<1> HIDE DEF c, iter
<1>9. NamesBySteps(c, entries, kind)
  BY <1>2, <1>8 DEF NamesBySteps
<1> QED
  BY <1>9

LEMMA NamedByNone ==
  ASSUME NEW kind  PROVE Named(<<>>, kind) = <<>>
<1>1. <<>> \in Seq(EventRecord) /\ Len(<<>>) = 0
  OBVIOUS
<1> QED
  BY <1>1, NamedChain DEF NamesBySteps

\* One more event names one more tool, if it is of the kind.
LEMMA NamedOneMore ==
  ASSUME NEW entries \in Seq(EventRecord), NEW e \in EventRecord, NEW kind
  PROVE  Named(Append(entries, e), kind) = NamedWith(kind, e, Named(entries, kind))
<1> DEFINE n == Len(entries)
           more == Append(entries, e)
<1>1. PICK c : NamesBySteps(c, entries, kind)
  BY NamedChain, Zenon
<1>2. /\ n \in Nat /\ Len(more) = n + 1 /\ more[n + 1] = e /\ more \in Seq(EventRecord)
      /\ \A k \in 1..n : more[k] = entries[k]
  OBVIOUS
<1> HIDE DEF more, n
<1>3. PICK d : NamesBySteps(d, more, kind)
  BY <1>2, NamedChain, Zenon
<1>4. c[n] = d[n]
  <2>1. \A k \in 1..n : c[k - 1] = d[k - 1] => c[k] = d[k]
    BY <1>1, <1>2, <1>3 DEF NamesBySteps, n
  <2>2. c[0] = d[0]
    BY <1>1, <1>3 DEF NamesBySteps
  <2> QED  BY <1>2, <2>1, <2>2, ChainsAgree
<1>5. d[n + 1] = NamedWith(kind, e, d[n])
  BY <1>2, <1>3 DEF NamesBySteps
<1>6. Named(entries, kind) = c[n] /\ Named(more, kind) = d[n + 1]
  BY <1>1, <1>2, <1>3 DEF NamesBySteps, n
<1> QED
  BY <1>4, <1>5, <1>6 DEF more

\* The tools of some runs and one more.
LEMMA ToolsOfOneMore ==
  ASSUME NEW runs \in Seq(RunRecord), NEW r \in RunRecord
  PROVE  /\ ToolsOf(runs) \in Seq(Names) /\ r.call.tool \in Names
         /\ ToolsOf(Append(runs, r)) = Append(ToolsOf(runs), r.call.tool)
         /\ Front(ToolsOf(Append(runs, r))) = ToolsOf(runs)
<1>1. r.call.tool \in Names /\ \A i \in DOMAIN runs : runs[i].call.tool \in Names
  <2>1. \A i \in DOMAIN runs : runs[i] \in RunRecord
    OBVIOUS
  <2>2. \A x \in RunRecord : x.call.tool \in Names
    BY DEF RunRecord, CallRecord
  <2> QED  BY <2>1, <2>2
<1>2. ToolsOf(runs) \in Seq(Names) /\ Len(ToolsOf(runs)) = Len(runs)
  BY <1>1 DEF ToolsOf
<1>3. ToolsOf(Append(runs, r)) \in Seq(Names) /\ Len(ToolsOf(Append(runs, r))) = Len(runs) + 1
  BY <1>1 DEF ToolsOf
<1>4. \A i \in 1..(Len(runs) + 1) :
        ToolsOf(Append(runs, r))[i] = Append(ToolsOf(runs), r.call.tool)[i]
  <2>1. \A i \in 1..Len(runs) : ToolsOf(Append(runs, r))[i] = ToolsOf(runs)[i]
    BY DEF ToolsOf
  <2>2. ToolsOf(Append(runs, r))[Len(runs) + 1] = r.call.tool
    BY DEF ToolsOf
  <2> QED  BY <1>1, <1>2, <2>1, <2>2
<1>5. ToolsOf(Append(runs, r)) = Append(ToolsOf(runs), r.call.tool)
  <2> DEFINE x == ToolsOf(Append(runs, r))
             y == ToolsOf(runs)
             m == r.call.tool
  <2> HIDE DEF x, y, m
  <2>1. x = Append(y, m)
    BY <1>1, <1>2, <1>3, <1>4 DEF x, y, m
  <2> QED  BY <2>1 DEF x, y, m
<1>6. Front(Append(ToolsOf(runs), r.call.tool)) = ToolsOf(runs)
  <2> DEFINE y == ToolsOf(runs)
             m == r.call.tool
  <2> HIDE DEF y, m
  <2>1. y \in Seq(Names) /\ m \in Names
    BY <1>1, <1>2 DEF y, m
  <2>2. Front(Append(y, m)) = y
    BY <2>1 DEF Front
  <2> QED  BY <2>2 DEF y, m
<1> QED
  BY <1>1, <1>2, <1>5, <1>6

-----------------------------------------------------------------------------
(* The events tell what ran.                                               *)

(***************************************************************************)
(* While the client stays: a tool is announced just before it runs and its *)
(* result follows at once, and nothing closes the stream but its end.      *)
(***************************************************************************)
Telling ==
  /\ Named(events, "tool_result") = ToolsOf(ran)
  /\ Named(events, "tool_call") = IF pc = "exec" THEN Append(ToolsOf(ran), Tool) ELSE ToolsOf(ran)
  /\ result = "none" /\ \A i \in DOMAIN events : events[i].event \notin Closing
TellInv == (pc # "done" => Telling) /\ StreamTellsRuns

\* What is left of a list without what was appended to it.
LEMMA FrontOfAppend ==
  ASSUME NEW S, NEW x \in Seq(S), NEW t
  PROVE  Append(x, t) # <<>> /\ Front(Append(x, t)) = x
<1>1. x \in Seq(S \cup {t}) /\ t \in S \cup {t}
  OBVIOUS
<1> DEFINE A == S \cup {t}
<1> HIDE DEF A
<1>2. x \in Seq(A) /\ t \in A
  BY <1>1 DEF A
<1> QED
  BY <1>2 DEF Front

LEMMA ToolsOfType ==
  ASSUME NEW runs \in Seq(RunRecord)
  PROVE  ToolsOf(runs) \in Seq(Names)
<1>1. \A i \in DOMAIN runs : runs[i] \in RunRecord
  OBVIOUS
<1>2. \A r \in RunRecord : r.call.tool \in Names
  BY DEF RunRecord, CallRecord
<1> QED
  BY <1>1, <1>2 DEF ToolsOf

\* A stream that has not ended and tells what ran satisfies the invariant.
LEMMA TellingSuffices ==
  /\ pc # "done" /\ ran \in Seq(RunRecord) /\ Telling => TellInv
  /\ pc' # "done" /\ ran' \in Seq(RunRecord) /\ Telling' => TellInv'
<1>1. ASSUME ran \in Seq(RunRecord)
      PROVE  /\ Append(ToolsOf(ran), Tool) # <<>>
             /\ Front(Append(ToolsOf(ran), Tool)) = ToolsOf(ran)
  BY <1>1, ToolsOfType, FrontOfAppend, Zenon
<1>2. ASSUME ran' \in Seq(RunRecord)
      PROVE  /\ Append(ToolsOf(ran'), Tool') # <<>>
             /\ Front(Append(ToolsOf(ran'), Tool')) = ToolsOf(ran')
  BY <1>2, ToolsOfType, FrontOfAppend, Zenon
<1>3. ToolsOf(ran)' = ToolsOf(ran')
  BY DEF ToolsOf
<1> QED
  BY <1>1, <1>2, <1>3 DEF TellInv, Telling, StreamTellsRuns

\* What an event adds to what the events name, and to what closes.
LEMMA EventAdds ==
  ASSUME StreamTyped, NEW kind \in EventKinds, NEW tool \in Names \cup {NoTool},
         Yield(kind, tool)
  PROVE  /\ \A k : Named(events', k) =
                     IF kind = k THEN Append(Named(events, k), tool) ELSE Named(events, k)
         /\ \A i \in DOMAIN events' : \/ i \in DOMAIN events /\ events'[i] = events[i]
                                      \/ i = Len(events') /\ events'[i].event = kind
         /\ Last(events').event = kind
<1>1. /\ Event(kind, tool) \in EventRecord /\ events' = Append(events, Event(kind, tool))
      /\ Event(kind, tool).event = kind /\ Event(kind, tool).tool = tool
  BY YieldType
<1>2. events \in Seq(EventRecord)
  BY DEF StreamTyped
<1>3. ASSUME NEW k
      PROVE  Named(events', k) =
               IF kind = k THEN Append(Named(events, k), tool) ELSE Named(events, k)
  <2>1. Named(events', k) = NamedWith(k, Event(kind, tool), Named(events, k))
    BY <1>1, <1>2, NamedOneMore
  <2> QED  BY <1>1, <2>1 DEF NamedWith
<1> DEFINE e == Event(kind, tool)
<1>4. e \in EventRecord /\ events' = Append(events, e) /\ e.event = kind
  BY <1>1
<1> HIDE DEF e
<1>5. \A i \in DOMAIN events' : \/ i \in DOMAIN events /\ events'[i] = events[i]
                                \/ i = Len(events') /\ events'[i] = e
  BY <1>2, <1>4
<1>6. \A i \in DOMAIN events' : \/ i \in DOMAIN events /\ events'[i] = events[i]
                                \/ i = Len(events') /\ events'[i].event = kind
  BY <1>4, <1>5, Zenon
<1>7. Last(events') = e
  BY <1>2, <1>4 DEF Last
<1>8. Last(events').event = kind
  BY <1>4, <1>7
<1> QED
  BY <1>3, <1>6, <1>8, Zenon

\* An event that is not about a run and leaves the stream open, or none.
LEMMA StreamGoesOn ==
  ASSUME StreamIInv, StreamIInv', TellInv, pc \notin {"done", "exec"}, pc' \notin {"done", "exec"},
         UNCHANGED <<ran, result>>,
         \/ UNCHANGED events
         \/ \E kind \in EventKinds \ (Closing \cup {"tool_call", "tool_result"}),
               tool \in Names \cup {NoTool} : Yield(kind, tool)
  PROVE  TellInv'
<1>1. Telling /\ StreamTyped
  BY DEF TellInv, StreamIInv
<1>2. /\ Named(events', "tool_result") = Named(events, "tool_result")
      /\ Named(events', "tool_call") = Named(events, "tool_call")
      /\ \A i \in DOMAIN events' : events'[i].event \notin Closing
  <2>1. CASE UNCHANGED events
    BY <1>1, <2>1 DEF Telling
  <2>2. ASSUME NEW kind \in EventKinds \ (Closing \cup {"tool_call", "tool_result"}),
               NEW tool \in Names \cup {NoTool}, Yield(kind, tool)
        PROVE  <1>2!:
    <3>1. kind \in EventKinds /\ kind \notin Closing /\ kind # "tool_call" /\ kind # "tool_result"
      BY <2>2
    <3> QED  BY <1>1, <2>2, <3>1, EventAdds DEF Telling
  <2> QED  BY <2>1, <2>2
<1>3. Telling'
  BY <1>1, <1>2 DEF Telling, ToolsOf
<1> QED
  BY <1>3, TellingSuffices DEF StreamIInv, StreamTyped

\* The stream ends with its closing event.
LEMMA StreamFails ==
  ASSUME StreamIInv, StreamIInv', TellInv, pc # "done", pc' = "done", UNCHANGED ran,
         \/ Yield("task_error", NoTool) /\ result' = "error" /\ pc # "exec"
         \/ Yield("task_complete", NoTool) /\ result' = "completed" /\ pc # "exec"
  PROVE  TellInv'
<1>1. PICK kind \in Closing :
        /\ Yield(kind, NoTool)
        /\ result' = IF kind = "task_complete" THEN "completed" ELSE "error"
  BY DEF Closing
<1>2. kind \in EventKinds /\ kind # "tool_call" /\ kind # "tool_result"
      /\ (kind = "task_complete" \/ kind = "task_error")
  BY DEF Closing, EventKinds
<1>3. Telling /\ StreamTyped /\ pc # "exec"
  BY DEF TellInv, StreamIInv
<1>4. /\ Named(events', "tool_result") = ToolsOf(ran)
      /\ Named(events', "tool_call") = ToolsOf(ran)
      /\ \A i \in DOMAIN events' : \/ i \in DOMAIN events /\ events'[i] = events[i]
                                   \/ i = Len(events') /\ events'[i].event = kind
      /\ Last(events').event = kind
  BY <1>1, <1>2, <1>3, EventAdds DEF Telling
<1>5. \A i \in DOMAIN events' : events'[i].event \in Closing => i = Len(events')
  BY <1>3, <1>4 DEF Telling
<1>6. ToolsOf(ran') = ToolsOf(ran)
  BY DEF ToolsOf
<1>7. /\ result' # "none"
      /\ Last(events').event = IF result' = "completed" THEN "task_complete" ELSE "task_error"
  BY <1>1, <1>2, <1>4
<1> QED
  BY <1>4, <1>5, <1>6, <1>7 DEF TellInv, StreamTellsRuns

\* The client leaves: nothing more is told.
LEMMA StreamAbandoned ==
  ASSUME StreamIInv, TellInv, Disconnect
  PROVE  TellInv'
<1>1. pc # "done" /\ pc' = "done" /\ result' = "abandoned" /\ UNCHANGED <<ran, events>>
  BY DEF Disconnect, Return
<1>2. Telling /\ StreamTellsRuns /\ ran \in Seq(RunRecord)
  BY <1>1 DEF TellInv, StreamIInv, StreamTyped
<1>3. \/ Named(events, "tool_call") = ToolsOf(ran)
      \/ /\ Named(events, "tool_call") # <<>>
         /\ Front(Named(events, "tool_call")) = ToolsOf(ran)
  BY <1>2 DEF StreamTellsRuns
<1>4. ToolsOf(ran') = ToolsOf(ran)
  BY <1>1 DEF ToolsOf
<1> QED
  BY <1>1, <1>2, <1>3, <1>4 DEF TellInv, StreamTellsRuns, Telling

\* The tool is announced, and is the one about to run.
LEMMA StreamAnnounces ==
  ASSUME StreamIInv, StreamIInv', TellInv, pc = "budget", pc' = "exec",
         Yield("tool_call", Tool), UNCHANGED <<ran, turn, result>>
  PROVE  TellInv'
<1>1. Telling /\ StreamTyped /\ Tool \in Names \cup {NoTool} /\ "tool_call" \in EventKinds
  BY StreamToolType DEF TellInv, StreamIInv, InGates, EventKinds
<1>2. /\ Named(events', "tool_result") = Named(events, "tool_result")
      /\ Named(events', "tool_call") = Append(Named(events, "tool_call"), Tool)
      /\ \A i \in DOMAIN events' : \/ i \in DOMAIN events /\ events'[i] = events[i]
                                   \/ i = Len(events') /\ events'[i].event = "tool_call"
  BY <1>1, EventAdds
<1>3. \A i \in DOMAIN events' : events'[i].event \notin Closing
  BY <1>1, <1>2 DEF Telling, Closing
<1>4. Tool' = Tool /\ ToolsOf(ran') = ToolsOf(ran) /\ result' = "none"
  BY <1>1 DEF Tool, turn, ToolsOf, Telling
<1>5. /\ Named(events', "tool_result") = ToolsOf(ran)
      /\ Named(events', "tool_call") = Append(ToolsOf(ran), Tool)
  BY <1>1, <1>2 DEF Telling
<1>6. Telling'
  BY <1>3, <1>4, <1>5 DEF Telling
<1> QED
  BY <1>6, TellingSuffices DEF StreamIInv, StreamTyped

\* The tool that was announced has run, and its result is told.
LEMMA StreamTellsRun ==
  ASSUME StreamIInv, TellInv, ToolRuns
  PROVE  TellInv'
<1>1. /\ StreamIInv' /\ Moved /\ Yield("tool_result", Tool) /\ pc = "exec"
      /\ \E r \in RunRecord : r.call.tool = Tool /\ ran' = Append(ran, r)
  <2>1. PICK ok \in BOOLEAN :
          /\ [call |-> Case, before |-> spent, ok |-> ok] \in RunRecord
          /\ ran' = Append(ran, [call |-> Case, before |-> spent, ok |-> ok])
    BY StreamToolRuns
  <2>2. [call |-> Case, before |-> spent, ok |-> ok].call.tool = Tool
    BY DEF Case
  <2>3. StreamIInv' /\ Moved /\ Yield("tool_result", Tool)
    BY StreamToolRuns
  <2> QED  BY <2>1, <2>2, <2>3 DEF ToolRuns
<1>2. PICK r \in RunRecord : r.call.tool = Tool /\ ran' = Append(ran, r)
  BY <1>1
<1>3. Telling /\ StreamTyped /\ Tool \in Names \cup {NoTool} /\ "tool_result" \in EventKinds
      /\ ran \in Seq(RunRecord)
  BY <1>1, StreamToolType DEF TellInv, StreamIInv, InGates, EventKinds, StreamTyped
<1>4. ToolsOf(ran') = Append(ToolsOf(ran), Tool)
  BY <1>2, <1>3, ToolsOfOneMore
<1>5. /\ Named(events', "tool_result") = Append(Named(events, "tool_result"), Tool)
      /\ Named(events', "tool_call") = Named(events, "tool_call")
      /\ \A i \in DOMAIN events' : \/ i \in DOMAIN events /\ events'[i] = events[i]
                                   \/ i = Len(events') /\ events'[i].event = "tool_result"
  BY <1>1, <1>3, EventAdds
<1>6. \A i \in DOMAIN events' : events'[i].event \notin Closing
  BY <1>3, <1>5 DEF Telling, Closing
<1>7. /\ Named(events', "tool_result") = ToolsOf(ran')
      /\ Named(events', "tool_call") = ToolsOf(ran')
  BY <1>1, <1>3, <1>4, <1>5 DEF Telling
<1>8. pc' # "exec" /\ pc' # "done" /\ result' = "none"
  BY <1>1, <1>3 DEF Moved, Telling
<1>9. Telling'
  BY <1>6, <1>7, <1>8 DEF Telling
<1> QED
  BY <1>1, <1>8, <1>9, TellingSuffices DEF StreamIInv, StreamTyped

LEMMA TellStep == StreamIInv /\ StreamIInv' /\ TellInv /\ [Next]_vars => TellInv'
<1> SUFFICES ASSUME StreamIInv, StreamIInv', TellInv, [Next]_vars  PROVE TellInv'
  OBVIOUS
<1>1. CASE UNCHANGED vars \/ Tick \/ Returned
  <2>1. UNCHANGED <<pc, ran, calls, at, events, result>>
    BY <1>1 DEF vars, Tick, Returned, turn
  <2> QED  BY <2>1 DEF TellInv, Telling, StreamTellsRuns, ToolsOf, Tool
<1>2. CASE Start \/ BeginStep \/ TaskError \/ Completion \/ CompletionFails \/ TaskComplete
  <2>1. /\ UNCHANGED ran /\ pc \notin {"done", "exec"}
        /\ \/ /\ pc' \notin {"done", "exec"} /\ result' = result
              /\ \/ UNCHANGED events \/ Yield("task_start", NoTool)
                 \/ Yield("step_start", NoTool) \/ Yield("final_answer", NoTool)
           \/ pc' = "done" /\ Yield("task_error", NoTool) /\ result' = "error"
           \/ pc' = "done" /\ Yield("task_complete", NoTool) /\ result' = "completed"
    BY <1>2 DEF Start, BeginStep, TaskError, Completion, CompletionFails, TaskComplete, Fail, Return
  <2>2. {"task_start", "step_start", "final_answer"}
          \subseteq EventKinds \ (Closing \cup {"tool_call", "tool_result"})
    BY DEF EventKinds, Closing
  <2>3. CASE pc' # "done"
    BY <2>1, <2>2, <2>3, StreamGoesOn
  <2>4. CASE pc' = "done"
    BY <2>1, <2>4, StreamFails
  <2> QED  BY <2>3, <2>4
<1>3. CASE UnknownTool \/ LacksPermission \/ PolicyGate \/ Escalation
  <2>1. /\ UNCHANGED ran /\ pc \notin {"done", "exec"} /\ pc \in InGates
        /\ \/ /\ pc' \notin {"done", "exec"} /\ result' = result
              /\ UNCHANGED events \/ Yield("tool_denied", Tool)
           \/ pc' = "done" /\ Yield("task_error", NoTool) /\ result' = "error"
    BY <1>3 DEF UnknownTool, LacksPermission, PolicyGate, Escalation, Refuse, NextCall, Fail,
       Return, InGates
  <2>2. "tool_denied" \in EventKinds \ (Closing \cup {"tool_call", "tool_result"})
    BY DEF EventKinds, Closing
  <2>3. Tool \in Names \cup {NoTool}
    BY <2>1, StreamToolType DEF StreamIInv
  <2>4. CASE pc' # "done"
    BY <2>1, <2>2, <2>3, <2>4, StreamGoesOn
  <2>5. CASE pc' = "done"
    BY <2>1, <2>5, StreamFails
  <2> QED  BY <2>4, <2>5
<1>4. CASE BudgetGate
  <2>1. /\ UNCHANGED ran /\ pc = "budget"
        /\ \/ Refuse
           \/ Yield("tool_call", Tool) /\ pc' = "exec" /\ UNCHANGED <<turn, result>>
    BY <1>4 DEF BudgetGate
  <2>2. CASE Refuse
    <3>1. pc' \notin {"done", "exec"} /\ result' = result /\ Yield("tool_denied", Tool)
      BY <2>2 DEF Refuse, NextCall
    <3>2. "tool_denied" \in EventKinds \ (Closing \cup {"tool_call", "tool_result"})
      BY DEF EventKinds, Closing
    <3>3. Tool \in Names \cup {NoTool}
      BY <2>1, StreamToolType DEF StreamIInv, InGates
    <3> QED  BY <2>1, <3>1, <3>2, <3>3, StreamGoesOn
  <2>3. CASE Yield("tool_call", Tool) /\ pc' = "exec" /\ UNCHANGED <<turn, result>>
    BY <2>1, <2>3, StreamAnnounces
  <2> QED  BY <2>1, <2>2, <2>3
<1>5. CASE ToolRuns
  BY <1>5, StreamTellsRun
<1>6. CASE Disconnect
  BY <1>6, StreamAbandoned
<1> QED
  BY <1>1, <1>2, <1>3, <1>4, <1>5, <1>6 DEF Next, Proceed

(***************************************************************************)
(* Whatever the model requests and wherever the client leaves, the events  *)
(* it was sent name the tools that ran, in order, and a stream it stays on *)
(* ends with the one closing event its outcome calls for.                  *)
(***************************************************************************)
THEOREM StreamAlwaysTellsRuns == Spec => []StreamTellsRuns
<1>1. Init => TellInv
  <2> SUFFICES ASSUME Init  PROVE TellInv
    OBVIOUS
  <2>1. /\ ran = <<>> /\ events = <<>> /\ result = "none" /\ pc = "start"
        /\ DOMAIN <<>> = {} /\ ToolsOf(<<>>) = <<>>
    BY DEF Init, ToolsOf
  <2>2. Named(events, "tool_result") = <<>> /\ Named(events, "tool_call") = <<>>
    BY <2>1, NamedByNone
  <2> QED  BY <2>1, <2>2 DEF TellInv, Telling, StreamTellsRuns
<1>2. TellInv => StreamTellsRuns
  BY DEF TellInv
<1> QED
  BY <1>1, <1>2, StreamInvariance, TellStep, PTL DEF Spec

=============================================================================
