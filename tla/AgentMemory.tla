---------------------------- MODULE AgentMemory -----------------------------
(***************************************************************************)
(* Persistent memory of agents (core/memory.py): objects that cache an     *)
(* agent's entries, and their flush to the memory_entries table inside a   *)
(* transaction of the caller.                                              *)
(*                                                                         *)
(* flush_memory_to_db awaits the database at every key: other flushes, and *)
(* set and delete on the same object, run in between.  The transactions    *)
(* are read committed: a SELECT sees what is committed, an UPDATE or a     *)
(* DELETE waits for the row's lock, and an UPDATE of a row that is gone by *)
(* then raises.  No constraint makes the row of a key unique.              *)
(*                                                                         *)
(* A row is named by the memory that inserted it and its key, a value by   *)
(* the memory that set it.  A caller flushes once per transaction.         *)
(***************************************************************************)
EXTENDS Integers, FiniteSets

CONSTANTS
  Memories,     (* PersistentMemory objects of one namespace                 *)
  AgentOf,      (* the agent each of them is flushed and loaded for          *)
  Keys,
  Expiring,     (* the memories with a ttl_hours                             *)
  None,         (* no value, no row                                          *)
  MaxChanges    (* bound: calls of set and delete                            *)

\* None is neither a memory nor a row or its name.
ASSUME MemoryAssumption ==
  /\ Expiring \subseteq Memories /\ MaxChanges \in Nat
  /\ None \notin Memories \cup (Memories \X Keys) \cup [by : Memories, live : BOOLEAN]
  /\ "nothing" \notin Memories

VARIABLES
  scope,        (* of every memory: "agent" or "org"                         *)
  cache,        (* _cache: whose value a key has, or None                    *)
  dirty,        (* _dirty                                                    *)
  deleted,      (* _deleted                                                  *)
  flush,        (* the flush of each memory and the transaction it is in     *)
  table,        (* committed rows: [by, live], or None where there is none   *)
  asked,        (* changes made to a memory that no commit has answered      *)
  last,         (* per agent and key, what the last committed change was     *)
  crossed,      (* agents' keys written by two open transactions, or loaded  *)
                (* between a change and its flush                            *)
  dropped,      (* keys of a memory whose flush did not commit               *)
  changes

mvars == <<scope, cache, dirty, deleted, flush, table, asked, last, crossed,
           dropped, changes>>

RowIds == Memories \X Keys
Gone == <<>>        (* in place of a row an UPDATE will not find any more *)
Owned == {AgentOf[m] : m \in Memories} \X Keys
NoFlush == [pc |-> "idle", deletes |-> {}, upserts |-> {}, todo |-> {}, found |-> None,
            writes |-> {}, removes |-> {}, value |-> [k \in Keys |-> None],
            meant |-> [k \in Keys |-> "nothing"]]

MemoryInit ==
  /\ scope \in {"agent", "org"}
  /\ cache = [m \in Memories |-> [k \in Keys |-> None]]
  /\ dirty = [m \in Memories |-> {}] /\ deleted = [m \in Memories |-> {}]
  /\ flush = [m \in Memories |-> NoFlush]
  /\ table = [r \in RowIds |-> None]
  /\ asked = [m \in Memories |-> [k \in Keys |-> "nothing"]]
  /\ last = [p \in Owned |-> "nothing"]
  /\ crossed = {} /\ dropped = [m \in Memories |-> {}] /\ changes = 0

-----------------------------------------------------------------------------
(* The object.                                                             *)

Change(m, k, what) ==
  /\ changes < MaxChanges /\ changes' = changes + 1
  /\ asked' = [asked EXCEPT ![m][k] = what]
  /\ dropped' = [dropped EXCEPT ![m] = @ \ {k}]
  /\ UNCHANGED <<scope, flush, table, last, crossed>>

Set(m, k) ==
  /\ Change(m, k, "set")
  /\ cache' = [cache EXCEPT ![m][k] = m]
  /\ dirty' = [dirty EXCEPT ![m] = @ \cup {k}]
  /\ deleted' = [deleted EXCEPT ![m] = @ \ {k}]

Delete(m, k) ==
  /\ Change(m, k, "deleted")
  /\ cache' = [cache EXCEPT ![m][k] = None]
  /\ dirty' = [dirty EXCEPT ![m] = @ \ {k}]
  /\ deleted' = [deleted EXCEPT ![m] = @ \cup {k}]

\* The rows a load for m reads: those of every agent in scope "org"; expired
\* ones are skipped.
Visible(m, k) ==
  {r \in Memories \X {k} : /\ table[r] # None /\ table[r].live
                           /\ scope = "agent" => AgentOf[r[1]] = AgentOf[m]}

\* load_memory_from_db and load_from_db: what was read replaces what the cache
\* holds, changes not yet flushed included; which of a key's rows wins depends
\* on the order they come in.
Load(m) ==
  /\ \E new \in [Keys -> Memories \cup {None}] :
       /\ \A k \in Keys :
            IF Visible(m, k) = {} THEN new[k] = cache[m][k]
            ELSE \E r \in Visible(m, k) : new[k] = table[r].by
       /\ cache' = [cache EXCEPT ![m] = new]
       /\ crossed' = crossed \cup
            {<<AgentOf[m], k>> : k \in {x \in dirty[m] \cup deleted[m] :
                                          new[x] # cache[m][x]}}
  /\ UNCHANGED <<scope, dirty, deleted, flush, table, asked, last, dropped, changes>>

-----------------------------------------------------------------------------
(* flush_memory_to_db.                                                     *)

At(m, pc) == flush[m].pc = pc
Touched(f) == f.deletes \cup f.upserts
Matching(m, k) == {r \in Memories \X {k} : table[r] # None /\ AgentOf[r[1]] = AgentOf[m]}
LockedFrom(m, r) == \E o \in Memories \ {m} : r \in flush[o].writes \cup flush[o].removes

\* Mutant of FlushChanges: the keys to delete are forgotten.
FlushOnlyDirty(m) == [deletes |-> {}, upserts |-> dirty[m]]

\* flush_changes; a dirty key that is not in the cache is left out.
FlushChanges(m) ==
  [deletes |-> deleted[m], upserts |-> {k \in dirty[m] : cache[m][k] # None}]

\* has_changes and flush_changes: the memory counts as clean before anything
\* is sent to the database.
StartFlush(m) ==
  /\ At(m, "idle") /\ dirty[m] \cup deleted[m] # {}
  /\ LET c == FlushChanges(m)
         keys == dirty[m] \cup deleted[m]
     IN /\ flush' = [flush EXCEPT ![m] =
              [NoFlush EXCEPT !.pc = "flushing", !.deletes = c.deletes,
                 !.upserts = c.upserts, !.todo = Touched(c), !.value = cache[m],
                 !.meant = [k \in Keys |-> IF k \in keys THEN asked[m][k] ELSE "nothing"]]]
        /\ crossed' = crossed \cup
             {<<AgentOf[m], k>> : k \in {x \in keys : \E o \in Memories \ {m} :
                          AgentOf[o] = AgentOf[m] /\ flush[o].meant[x] # "nothing"}}
  /\ dirty' = [dirty EXCEPT ![m] = {}] /\ deleted' = [deleted EXCEPT ![m] = {}]
  /\ UNCHANGED <<scope, cache, table, asked, last, dropped, changes>>

InFlush == UNCHANGED <<scope, cache, dirty, deleted, table, asked, last, crossed,
                       dropped, changes>>

\* DELETE of a key, once nobody else holds its rows.
DeleteRows(m, k) ==
  /\ At(m, "flushing") /\ k \in flush[m].todo \cap flush[m].deletes
  /\ \A r \in Matching(m, k) : ~LockedFrom(m, r)
  /\ flush' = [flush EXCEPT ![m].todo = @ \ {k},
                            ![m].removes = @ \cup Matching(m, k)]
  /\ InFlush

\* The transaction is rolled back: by the caller on an exception, or because
\* its process is gone.  The memory does not know its changes again.
GiveUp(m) ==
  /\ dropped' = [dropped EXCEPT ![m] =
       @ \cup {k \in Keys : flush[m].meant[k] # "nothing" /\ k \notin dirty[m] \cup deleted[m]}]
  /\ flush' = [flush EXCEPT ![m] = NoFlush]
  /\ UNCHANGED <<scope, cache, dirty, deleted, table, asked, last, crossed, changes>>

\* The row the SELECT of an upsert returns.
RowToWrite(m, k) == Matching(m, k) \ flush[m].removes

\* The SELECT of an upsert: no row, and one is added to the session; one row,
\* and it is changed in the session; several, and scalar_one_or_none raises.
SelectRow(m, k) ==
  /\ At(m, "flushing") /\ flush[m].found = None
  /\ flush[m].todo \cap flush[m].deletes = {} /\ k \in flush[m].todo
  /\ LET rows == RowToWrite(m, k)
     IN \/ /\ rows = {}
           /\ flush' = [flush EXCEPT ![m].todo = @ \ {k},
                                     ![m].writes = @ \cup {<<m, k>>}]
           /\ InFlush
        \/ /\ Cardinality(rows) = 1
           /\ flush' = [flush EXCEPT ![m].todo = @ \ {k},
                                     ![m].found = CHOOSE r \in rows : TRUE]
           /\ InFlush
        \/ Cardinality(rows) > 1 /\ GiveUp(m)

\* The UPDATE, sent by the next query or the last flush: it waits for the
\* row's lock, and raises when it finds the row gone.
UpdateRow(m) ==
  /\ At(m, "flushing") /\ flush[m].found # None
  /\ LET r == flush[m].found
     IN \/ /\ r = Gone
           /\ GiveUp(m)
        \/ /\ r # Gone /\ ~LockedFrom(m, r)
           /\ flush' = [flush EXCEPT ![m].found = None, ![m].writes = @ \cup {r}]
           /\ InFlush

\* The caller commits.  A row that goes makes the updates that found it fail.
Commit(m) ==
  /\ At(m, "flushing") /\ flush[m].todo = {} /\ flush[m].found = None
  /\ table' = [r \in RowIds |->
       IF r \in flush[m].writes THEN [by |-> flush[m].value[r[2]], live |-> TRUE]
       ELSE IF r \in flush[m].removes THEN None ELSE table[r]]
  /\ flush' = [o \in Memories |->
       IF o = m THEN NoFlush
       ELSE IF flush[o].found \in flush[m].removes \ flush[m].writes
            THEN [flush[o] EXCEPT !.found = Gone] ELSE flush[o]]
  /\ asked' = [asked EXCEPT ![m] = [k \in Keys |->
       IF flush[m].meant[k] = "nothing" \/ k \in dirty[m] \cup deleted[m] THEN @[k]
       ELSE "nothing"]]
  /\ last' = [p \in Owned |->
       IF p[1] # AgentOf[m] \/ flush[m].meant[p[2]] = "nothing" THEN last[p]
       ELSE IF flush[m].meant[p[2]] = "set" THEN m ELSE None]
  /\ UNCHANGED <<scope, cache, dirty, deleted, crossed, dropped, changes>>

Abort(m) == At(m, "flushing") /\ GiveUp(m)

\* Time passes an entry's expires_at; the row stays.
Expire(r) ==
  /\ table[r] # None /\ table[r].by \in Expiring /\ table[r].live
  /\ table' = [table EXCEPT ![r].live = FALSE]
  /\ UNCHANGED <<scope, cache, dirty, deleted, flush, asked, last, crossed, dropped,
                 changes>>

MemoryNext ==
  \/ \E m \in Memories, k \in Keys :
       Set(m, k) \/ Delete(m, k) \/ DeleteRows(m, k) \/ SelectRow(m, k)
  \/ \E m \in Memories :
       Load(m) \/ StartFlush(m) \/ UpdateRow(m) \/ Commit(m) \/ Abort(m)
  \/ \E r \in RowIds : Expire(r)

-----------------------------------------------------------------------------
(* Properties.                                                             *)

\* The table says what the last committed change of an agent's key was: one
\* row with the value that was set, or none when it was deleted.  Only a key
\* whose changes crossed is exempt: two flushes of it in open transactions at
\* once can both insert it, or insert it past a delete, and a load between
\* a change and its flush replaces the value the flush will write.
TableTellsLastChange ==
  \A p \in Owned \ crossed :
    LET rows == {r \in Memories \X {p[2]} : table[r] # None /\ AgentOf[r[1]] = p[1]}
    IN IF last[p] \in Memories
       THEN Cardinality(rows) = 1 /\ \A r \in rows : table[r].by = last[p]
       ELSE rows = {}

\* A change made to a memory is on its way to the table until a commit answers
\* it: it is marked in the memory, or in a flush under way.  It is forgotten
\* only when the transaction of its flush did not commit, for flush_changes
\* clears the marks before the database has the change.
NothingForgotten ==
  \A m \in Memories, k \in Keys :
    /\ asked[m][k] = "set" =>
         k \in dirty[m] \cup flush[m].upserts \cup dropped[m]
    /\ asked[m][k] = "deleted" =>
         k \in deleted[m] \cup flush[m].deletes \cup dropped[m]

\* Every change made to a memory reaches the table, or is still on its way, or
\* was in a flush that did not commit.
ChangesReachTable == TableTellsLastChange /\ NothingForgotten
=============================================================================
