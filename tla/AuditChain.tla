----------------------------- MODULE AuditChain -----------------------------
(***************************************************************************)
(* The hash-chained audit table of core/audit.py, written by concurrent    *)
(* database sessions (API requests, workers) under read-committed          *)
(* isolation.  log_event reads the newest entry_hash of its tenant, then   *)
(* inserts and flushes; the caller commits or rolls back later.            *)
(*                                                                         *)
(* A hash determines the entry it was computed from, so it is modelled by  *)
(* the row's id; ids are handed out by the insert.  The other columns of   *)
(* an entry are left out.                                                  *)
(***************************************************************************)
EXTENDS Integers, Sequences, FiniteSetsExt

CONSTANTS
  Sessions,     (* database sessions                                         *)
  Tenants,
  TenantOf,     (* the tenant a session writes for                           *)
  MaxRows       (* bound: inserts ever made                                  *)

ASSUME ChainAssumption == TenantOf \in [Sessions -> Tenants] /\ MaxRows \in Nat

VARIABLES
  rows,         (* rows ever inserted, by id: [tenant, prev, by, status]     *)
  seen,         (* prev_hash a session has read and not yet used, or NotRead *)
  overlapped    (* history: tenants of which two transactions overlapped     *)

chainVars == <<rows, seen, overlapped>>

Genesis == 0
NotRead == -1
Row == [tenant : Tenants, prev : Nat, by : Sessions, status : {"pending", "committed", "gone"}]

\* Mutant of Visible: dirty reads.
VisibleDirty(s) == {i \in DOMAIN rows : rows[i].status # "gone"}

\* What a query of session s sees: committed rows and its own.
Visible(s) == {i \in DOMAIN rows : \/ rows[i].status = "committed"
                                   \/ rows[i].status = "pending" /\ rows[i].by = s}
Of(t, S) == {i \in S : rows[i].tenant = t}
Newest(S) == IF S = {} THEN Genesis ELSE Max(S)

\* A session of which log_event is under way or has written what nobody else
\* can see yet.
Open(s) ==
  \/ seen[s] # NotRead
  \/ \E i \in DOMAIN rows : rows[i].by = s /\ rows[i].status = "pending"

ChainInit == rows = <<>> /\ seen = [s \in Sessions |-> NotRead] /\ overlapped = {}

\* s goes on to read the tail while another session of its tenant is open.
Overlap(s) ==
  overlapped' = overlapped \cup
    {TenantOf[o] : o \in {p \in Sessions \ {s} : TenantOf[p] = TenantOf[s] /\ Open(p)}}

\* Mutant of ReadTail: no filter on tenant_id.
ReadTailOfAll(s) ==
  /\ seen[s] = NotRead /\ Len(rows) < MaxRows
  /\ seen' = [seen EXCEPT ![s] = Newest(Visible(s))]
  /\ Overlap(s) /\ UNCHANGED rows

\* Mutant of ReadTail: the hash of the last insert is kept, not queried.
ReadTailKept(s) ==
  /\ seen[s] = NotRead /\ Len(rows) < MaxRows
  /\ seen' = [seen EXCEPT ![s] = Newest(Of(TenantOf[s], DOMAIN rows))]
  /\ Overlap(s) /\ UNCHANGED rows

\* log_event: SELECT entry_hash ... ORDER BY id DESC LIMIT 1.
ReadTail(s) ==
  /\ seen[s] = NotRead /\ Len(rows) < MaxRows
  /\ seen' = [seen EXCEPT ![s] = Newest(Of(TenantOf[s], Visible(s)))]
  /\ Overlap(s) /\ UNCHANGED rows

\* log_event: INSERT on flush, chained to what was read.
Insert(s) ==
  /\ seen[s] # NotRead /\ Len(rows) < MaxRows
  /\ rows' = Append(rows, [tenant |-> TenantOf[s], prev |-> seen[s], by |-> s, status |-> "pending"])
  /\ seen' = [seen EXCEPT ![s] = NotRead]
  /\ UNCHANGED overlapped

\* The transaction of s ends: all its pending rows share its fate.
End(s, status) ==
  rows' = [i \in DOMAIN rows |->
             IF rows[i].by = s /\ rows[i].status = "pending"
             THEN [rows[i] EXCEPT !.status = status] ELSE rows[i]]

\* db.commit() by the owner of the session, never inside log_event.
Commit(s) == seen[s] = NotRead /\ End(s, "committed") /\ UNCHANGED <<seen, overlapped>>

\* The session is closed or its process dies; a log_event under way is lost.
Rollback(s) == End(s, "gone") /\ seen' = [seen EXCEPT ![s] = NotRead] /\ UNCHANGED overlapped

ChainNext == \E s \in Sessions : ReadTail(s) \/ Insert(s) \/ Commit(s) \/ Rollback(s)

ChainSpec == ChainInit /\ [][ChainNext]_chainVars

-----------------------------------------------------------------------------

\* verify_chain: in id order each entry's prev_hash is the hash of the one
\* before it.
Verified(trail) == \A i \in trail : rows[i].prev = Newest({j \in trail : j < i})

\* As session s runs it for tenant t, and as one does that writes nothing.
VerifyChain(s, t) == Verified(Of(t, Visible(s)))
Committed(t) == {i \in DOMAIN rows : rows[i].status = "committed" /\ rows[i].tenant = t}
Accepted(t) == Verified(Committed(t))

-----------------------------------------------------------------------------

TypeOK ==
  /\ rows \in Seq(Row)
  /\ seen \in [Sessions -> Nat \cup {NotRead}]
  /\ overlapped \subseteq Tenants

\* The predecessor of a visible entry is itself visible, older and of the
\* same tenant: no commit order and no rollback leaves an entry chained to a
\* row that was never kept (the read of Visible and the atomic commit).
PredecessorsKept ==
  \A s \in Sessions : \A i \in Visible(s) :
    \/ rows[i].prev = Genesis
    \/ /\ rows[i].prev \in Of(rows[i].tenant, Visible(s))
       /\ rows[i].prev < i

\* verify_chain accepts the trail of a tenant, whoever runs it and at any
\* moment, as long as no log_event of the tenant read the tail between another's
\* read and the end of the transaction it was for (audit.py:57-90): however many
\* sessions write, one after the other, and whichever of them is rolled back.
BrokenOnlyByOverlap ==
  \A s \in Sessions, t \in Tenants : t \notin overlapped => VerifyChain(s, t)

\* However many sessions overlap: a trail that verify_chain has refused is
\* refused for good.  Rows become visible in another order than their ids, but
\* none that does so later fits into a gap, so a break is neither a false alarm
\* of the moment nor hidden by what is committed after it.
BrokenStaysBroken ==
  [][\A t \in Tenants : ~Accepted(t) => ~Accepted(t)']_chainVars

-----------------------------------------------------------------------------

\* models.py:126 "Each entry contains the SHA-256 hash of the previous entry,
\* forming a tamper-evident chain": so it is for every tenant, for those too
\* whose sessions overlap.
ChainIntact == \A s \in Sessions, t \in Tenants : VerifyChain(s, t)

=============================================================================
