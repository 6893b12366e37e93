------------------------- MODULE DurableStateProofs -------------------------
(***************************************************************************)
(* What holds of the three libraries that keep state in tables inside their *)
(* caller's transaction, for any number of memories, processes, jobs, keys  *)
(* and tenants: the memory table tells the last change of a key, the        *)
(* checkpoints table has no gap, and Stripe is told of no more tasks than   *)
(* ran, each where the module's ghost variables say nothing crossed.        *)
(***************************************************************************)
EXTENDS AgentMemory, Checkpoints, UsageMetering, FiniteSetTheorems, TLAPS

-----------------------------------------------------------------------------
(* Agents' memory (memory.py).  A flush under way knows how far it is with  *)
(* each key, and is alone with it unless the key is crossed; so what it     *)
(* commits of the key is one row, or none.                                  *)

MemorySpec == MemoryInit /\ [][MemoryNext]_mvars

Words == {"nothing", "set", "deleted"}
FlushRecord ==
  [pc : {"idle", "flushing"}, deletes : SUBSET Keys, upserts : SUBSET Keys, todo : SUBSET Keys,
   found : RowIds \cup {None, Gone}, writes : SUBSET RowIds, removes : SUBSET RowIds,
   value : [Keys -> Memories \cup {None}], meant : [Keys -> Words]]

MemoryTypes ==
  /\ cache \in [Memories -> [Keys -> Memories \cup {None}]]
  /\ dirty \in [Memories -> SUBSET Keys] /\ deleted \in [Memories -> SUBSET Keys]
  /\ flush \in [Memories -> FlushRecord]
  /\ table \in [RowIds -> {None} \cup [by : Memories, live : BOOLEAN]]
  /\ asked \in [Memories -> [Keys -> Words]] /\ dropped \in [Memories -> SUBSET Keys]
  /\ last \in [Owned -> Memories \cup {None, "nothing"}]

OwnKey(m, k) == <<AgentOf[m], k>>

\* A mark says what was asked; a dirty key is in the cache, with its own value
\* unless a load crossed.
Marked(m, k) ==
  /\ k \in dirty[m] => asked[m][k] = "set" /\ cache[m][k] # None
  /\ k \in deleted[m] => asked[m][k] = "deleted"
  /\ k \in dirty[m] /\ OwnKey(m, k) \notin crossed => cache[m][k] = m

OfKey(S, k) == {r \in S : r[2] = k}
IsRowOf(r, k) == r \in RowIds /\ r[2] = k

\* What a flush f of m holds are rows of its agent's keys.
Sent(m, f) ==
  /\ f.pc = "idle" => f = NoFlush
  /\ f.upserts = {k \in Keys : f.meant[k] = "set"}
  /\ f.deletes = {k \in Keys : f.meant[k] = "deleted"}
  /\ \A k \in f.upserts : f.value[k] # None
  /\ \A r \in f.writes : AgentOf[r[1]] = AgentOf[m] /\ r[2] \in f.upserts
  /\ \A r \in f.removes : AgentOf[r[1]] = AgentOf[m] /\ r[2] \in f.deletes
  /\ f.found \in RowIds => AgentOf[f.found[1]] = AgentOf[m] /\ f.found[2] \in f.upserts
  /\ f.todo \subseteq f.deletes \cup f.upserts

MemoryInv == MemoryTypes /\ \A m \in Memories : Sent(m, flush[m]) /\ \A k \in Keys : Marked(m, k)

-----------------------------------------------------------------------------
LEMMA NoFlushRecord ==
  /\ NoFlush \in FlushRecord /\ NoFlush.pc = "idle" /\ NoFlush.found = None
  /\ NoFlush.deletes = {} /\ NoFlush.upserts = {} /\ NoFlush.todo = {}
  /\ NoFlush.writes = {} /\ NoFlush.removes = {}
  /\ \A k \in Keys : NoFlush.meant[k] = "nothing"
BY DEF NoFlush, FlushRecord, Words

LEMMA NoRowNames == None \notin RowIds /\ Gone \notin RowIds /\ None \notin Memories
                    /\ None \notin [by : Memories, live : BOOLEAN]
BY MemoryAssumption DEF RowIds, Gone

LEMMA NoFlushSent == ASSUME NEW m PROVE Sent(m, NoFlush)
BY NoFlushRecord, NoRowNames DEF Sent

\* A flush as it goes on: what it has still to do, found, wrote and removed.
Moved(f, todo, found, writes, removes) ==
  [f EXCEPT !.todo = todo, !.found = found, !.writes = writes, !.removes = removes]

LEMMA MovedRecord ==
  ASSUME NEW f \in FlushRecord, NEW todo \in SUBSET Keys, NEW found \in RowIds \cup {None, Gone},
         NEW writes \in SUBSET RowIds, NEW removes \in SUBSET RowIds,
         NEW g, g = Moved(f, todo, found, writes, removes)
  PROVE  /\ g \in FlushRecord /\ g.pc = f.pc /\ g.deletes = f.deletes /\ g.upserts = f.upserts
         /\ g.value = f.value /\ g.meant = f.meant
         /\ g.todo = todo /\ g.found = found /\ g.writes = writes /\ g.removes = removes
BY DEF Moved, FlushRecord

\* Where flushes stand after one of them moved.
LEMMA FlushesStand ==
  ASSUME MemoryTypes, NEW m \in Memories, NEW new \in FlushRecord, flush' = [flush EXCEPT ![m] = new]
  PROVE  /\ flush'[m] = new /\ \A o \in Memories \ {m} : flush'[o] = flush[o]
         /\ flush' \in [Memories -> FlushRecord] /\ flush[m] \in FlushRecord
BY DEF MemoryTypes

LEMMA FlushKeeps ==
  ASSUME MemoryInv, UNCHANGED <<cache, dirty, deleted, table, asked, last, crossed>>,
         dropped' \in [Memories -> SUBSET Keys],
         NEW m \in Memories, NEW new \in FlushRecord, flush' = [flush EXCEPT ![m] = new], Sent(m, new)
  PROVE  MemoryInv'
<1>1. /\ flush'[m] = new /\ \A o \in Memories \ {m} : flush'[o] = flush[o]
      /\ flush' \in [Memories -> FlushRecord]
  BY FlushesStand DEF MemoryInv
<1>2. MemoryTypes'
  BY <1>1 DEF MemoryInv, MemoryTypes
<1>3. \A o \in Memories : Sent(o, flush'[o])
  BY <1>1 DEF MemoryInv
<1>4. \A o \in Memories, k \in Keys : Marked(o, k)'
  BY DEF MemoryInv, Marked
<1> QED BY <1>2, <1>3, <1>4 DEF MemoryInv

LEMMA GiveUpKeeps ==
  ASSUME MemoryInv, NEW m \in Memories, GiveUp(m)
  PROVE  MemoryInv'
<1>1. dropped' \in [Memories -> SUBSET Keys]
  BY DEF GiveUp, MemoryInv, MemoryTypes
<1> QED BY <1>1, NoFlushRecord, NoFlushSent, FlushKeeps DEF GiveUp

\* A flush that moves on within what it was sent for.
LEMMA MoveKeeps ==
  ASSUME MemoryInv, InFlush, NEW m \in Memories, At(m, "flushing"),
         NEW todo, todo \subseteq flush[m].todo,
         NEW found \in RowIds \cup {None, Gone}, NEW writes, NEW removes,
         found \in RowIds => AgentOf[found[1]] = AgentOf[m] /\ found[2] \in flush[m].upserts,
         \A r \in writes : r \in RowIds /\ AgentOf[r[1]] = AgentOf[m] /\ r[2] \in flush[m].upserts,
         \A r \in removes : r \in RowIds /\ AgentOf[r[1]] = AgentOf[m] /\ r[2] \in flush[m].deletes,
         flush' = [flush EXCEPT ![m] = Moved(flush[m], todo, found, writes, removes)]
  PROVE  MemoryInv'
<1>1. flush[m] \in FlushRecord /\ Sent(m, flush[m])
  BY DEF MemoryInv, MemoryTypes
<1>2. todo \in SUBSET Keys /\ writes \in SUBSET RowIds /\ removes \in SUBSET RowIds
  BY <1>1 DEF FlushRecord
<1> DEFINE g == Moved(flush[m], todo, found, writes, removes)
<1>3. /\ g \in FlushRecord /\ g.pc = flush[m].pc /\ g.deletes = flush[m].deletes /\ g.upserts = flush[m].upserts
      /\ g.value = flush[m].value /\ g.meant = flush[m].meant
      /\ g.todo = todo /\ g.found = found /\ g.writes = writes /\ g.removes = removes
  <2>1. g = Moved(flush[m], todo, found, writes, removes)
    OBVIOUS
  <2> HIDE DEF g
  <2> QED BY <1>1, <1>2, <2>1, MovedRecord
<1> HIDE DEF g
<1>4. Sent(m, g)
  BY <1>1, <1>3 DEF Sent, At
<1>5. flush' = [flush EXCEPT ![m] = g]
  BY DEF g
<1> QED BY <1>3, <1>4, <1>5, FlushKeeps DEF InFlush, MemoryInv, MemoryTypes

-----------------------------------------------------------------------------
\* The steps of a flush, as moves.
LEMMA DeleteRowsMoves ==
  ASSUME MemoryInv, NEW m \in Memories, NEW k \in Keys, DeleteRows(m, k)
  PROVE  /\ At(m, "flushing") /\ InFlush /\ flush[m] \in FlushRecord /\ Sent(m, flush[m])
         /\ k \in flush[m].todo /\ k \in flush[m].deletes
         /\ flush' = [flush EXCEPT ![m] = Moved(flush[m], flush[m].todo \ {k}, flush[m].found, flush[m].writes,
                                                flush[m].removes \cup Matching(m, k))]
<1>1. flush[m] \in FlushRecord /\ Sent(m, flush[m]) /\ flush \in [Memories -> FlushRecord]
  BY DEF MemoryInv, MemoryTypes
<1>2. flush' = [flush EXCEPT ![m].todo = @ \ {k}, ![m].removes = @ \cup Matching(m, k)]
  BY DEF DeleteRows
<1> DEFINE f == flush[m] g == [f EXCEPT !.todo = f.todo \ {k}, !.removes = f.removes \cup Matching(m, k)]
<1>3. flush' = [flush EXCEPT ![m] = g]
  BY <1>1, <1>2
<1>4. g = Moved(f, f.todo \ {k}, f.found, f.writes, f.removes \cup Matching(m, k))
  BY <1>1 DEF Moved, FlushRecord
<1> HIDE DEF g
<1> QED BY <1>1, <1>3, <1>4 DEF DeleteRows

LEMMA SelectRowMoves ==
  ASSUME MemoryInv, NEW m \in Memories, NEW k \in Keys, SelectRow(m, k), ~GiveUp(m)
  PROVE  /\ At(m, "flushing") /\ InFlush /\ flush[m] \in FlushRecord /\ Sent(m, flush[m])
         /\ k \in flush[m].todo /\ flush[m].todo \cap flush[m].deletes = {} /\ flush[m].found = None
         /\ \/ /\ RowToWrite(m, k) = {}
               /\ flush' = [flush EXCEPT ![m] = Moved(flush[m], flush[m].todo \ {k}, flush[m].found,
                                                      flush[m].writes \cup {<<m, k>>}, flush[m].removes)]
            \/ \E r \in RowToWrite(m, k) :
                 flush' = [flush EXCEPT ![m] = Moved(flush[m], flush[m].todo \ {k}, r,
                                                     flush[m].writes, flush[m].removes)]
<1>1. flush[m] \in FlushRecord /\ Sent(m, flush[m]) /\ flush \in [Memories -> FlushRecord]
  BY DEF MemoryInv, MemoryTypes
<1> DEFINE rows == RowToWrite(m, k)
<1>2. \/ /\ rows = {}
         /\ flush' = [flush EXCEPT ![m].todo = @ \ {k}, ![m].writes = @ \cup {<<m, k>>}]
         /\ InFlush
      \/ /\ Cardinality(rows) = 1
         /\ flush' = [flush EXCEPT ![m].todo = @ \ {k}, ![m].found = CHOOSE r \in rows : TRUE]
         /\ InFlush
  BY DEF SelectRow
<1> HIDE DEF rows
<1> DEFINE f == flush[m]
           c == CHOOSE r \in rows : TRUE
           g == [f EXCEPT !.todo = f.todo \ {k}, !.writes = f.writes \cup {<<m, k>>}]
           h == [f EXCEPT !.todo = f.todo \ {k}, !.found = c]
<1>3. g = Moved(f, f.todo \ {k}, f.found, f.writes \cup {<<m, k>>}, f.removes)
  BY <1>1 DEF Moved, FlushRecord
<1>4. Cardinality(rows) = 1 => c \in rows
  BY FS_EmptySet
<1> HIDE DEF c
<1>5. h = Moved(f, f.todo \ {k}, c, f.writes, f.removes)
  BY <1>1 DEF Moved, FlushRecord
<1>6. CASE rows = {} /\ flush' = [flush EXCEPT ![m].todo = @ \ {k}, ![m].writes = @ \cup {<<m, k>>}] /\ InFlush
  <2>1. flush' = [flush EXCEPT ![m] = g]
    BY <1>1, <1>6
  <2> HIDE DEF g
  <2> QED BY <1>1, <1>3, <1>6, <2>1 DEF SelectRow, rows
<1>7. CASE Cardinality(rows) = 1 /\ flush' = [flush EXCEPT ![m].todo = @ \ {k}, ![m].found = c] /\ InFlush
  <2>1. flush' = [flush EXCEPT ![m] = h]
    BY <1>1, <1>7
  <2> HIDE DEF h
  <2>2. flush' = [flush EXCEPT ![m] = Moved(f, f.todo \ {k}, c, f.writes, f.removes)]
    BY <1>5, <2>1
  <2> QED BY <1>1, <1>4, <1>7, <2>2 DEF SelectRow, rows
<1> QED BY <1>2, <1>6, <1>7 DEF c

LEMMA UpdateRowMoves ==
  ASSUME MemoryInv, NEW m \in Memories, UpdateRow(m), ~GiveUp(m)
  PROVE  /\ At(m, "flushing") /\ InFlush /\ flush[m] \in FlushRecord /\ Sent(m, flush[m])
         /\ flush[m].found \in RowIds
         /\ flush' = [flush EXCEPT ![m] = Moved(flush[m], flush[m].todo, None,
                                                flush[m].writes \cup {flush[m].found}, flush[m].removes)]
<1>1. flush[m] \in FlushRecord /\ Sent(m, flush[m]) /\ flush \in [Memories -> FlushRecord]
  BY DEF MemoryInv, MemoryTypes
<1> DEFINE f == flush[m]
           g == [f EXCEPT !.found = None, !.writes = f.writes \cup {f.found}]
<1>2. flush' = [flush EXCEPT ![m].found = None, ![m].writes = @ \cup {flush[m].found}]
      /\ InFlush /\ f.found # Gone /\ f.found # None
  BY DEF UpdateRow
<1>3. flush' = [flush EXCEPT ![m] = g]
  BY <1>1, <1>2
<1>4. g = Moved(f, f.todo, None, f.writes \cup {f.found}, f.removes)
  BY <1>1 DEF Moved, FlushRecord
<1>5. f.found \in RowIds
  BY <1>1, <1>2 DEF FlushRecord
<1> HIDE DEF g
<1> QED BY <1>1, <1>2, <1>3, <1>4, <1>5 DEF UpdateRow

-----------------------------------------------------------------------------
LEMMA DeleteRowsKeeps ==
  ASSUME MemoryInv, NEW m \in Memories, NEW k \in Keys, DeleteRows(m, k)
  PROVE  MemoryInv'
<1>1. /\ At(m, "flushing") /\ InFlush /\ flush[m] \in FlushRecord /\ Sent(m, flush[m])
      /\ k \in flush[m].todo /\ k \in flush[m].deletes
      /\ flush' = [flush EXCEPT ![m] = Moved(flush[m], flush[m].todo \ {k}, flush[m].found, flush[m].writes,
                                             flush[m].removes \cup Matching(m, k))]
  BY DeleteRowsMoves
<1>2. \A r \in Matching(m, k) : r \in RowIds /\ AgentOf[r[1]] = AgentOf[m] /\ r[2] = k
  BY DEF Matching, RowIds
<1>3. /\ \A r \in flush[m].writes : r \in RowIds /\ AgentOf[r[1]] = AgentOf[m] /\ r[2] \in flush[m].upserts
      /\ \A r \in flush[m].removes : r \in RowIds /\ AgentOf[r[1]] = AgentOf[m] /\ r[2] \in flush[m].deletes
      /\ flush[m].found \in RowIds \cup {None, Gone}
      /\ flush[m].found \in RowIds => AgentOf[flush[m].found[1]] = AgentOf[m] /\ flush[m].found[2] \in flush[m].upserts
  BY <1>1 DEF Sent, FlushRecord
<1>4. \A r \in flush[m].removes \cup Matching(m, k) :
         r \in RowIds /\ AgentOf[r[1]] = AgentOf[m] /\ r[2] \in flush[m].deletes
  BY <1>1, <1>2, <1>3
<1>5. flush[m].todo \ {k} \subseteq flush[m].todo
  OBVIOUS
<1> QED BY <1>1, <1>3, <1>4, <1>5, MoveKeeps

LEMMA SelectRowKeeps ==
  ASSUME MemoryInv, NEW m \in Memories, NEW k \in Keys, SelectRow(m, k)
  PROVE  MemoryInv'
<1>1. CASE GiveUp(m)
  BY <1>1, GiveUpKeeps
<1>2. CASE ~GiveUp(m)
  <2>1. /\ At(m, "flushing") /\ InFlush /\ flush[m] \in FlushRecord /\ Sent(m, flush[m])
        /\ k \in flush[m].todo /\ flush[m].todo \cap flush[m].deletes = {} /\ flush[m].found = None
        /\ \/ /\ RowToWrite(m, k) = {}
              /\ flush' = [flush EXCEPT ![m] = Moved(flush[m], flush[m].todo \ {k}, flush[m].found,
                                                     flush[m].writes \cup {<<m, k>>}, flush[m].removes)]
           \/ \E r \in RowToWrite(m, k) :
                flush' = [flush EXCEPT ![m] = Moved(flush[m], flush[m].todo \ {k}, r,
                                                    flush[m].writes, flush[m].removes)]
    BY <1>2, SelectRowMoves
  <2>2. k \in flush[m].upserts
    BY <2>1 DEF Sent
  <2>3. /\ \A r \in flush[m].writes : r \in RowIds /\ AgentOf[r[1]] = AgentOf[m] /\ r[2] \in flush[m].upserts
        /\ \A r \in flush[m].removes : r \in RowIds /\ AgentOf[r[1]] = AgentOf[m] /\ r[2] \in flush[m].deletes
        /\ flush[m].found \in RowIds \cup {None, Gone} /\ flush[m].found \notin RowIds
    BY <2>1, NoRowNames DEF Sent, FlushRecord
  <2>4. flush[m].todo \ {k} \subseteq flush[m].todo
    OBVIOUS
  <2>5. \A r \in flush[m].writes \cup {<<m, k>>} :
           r \in RowIds /\ AgentOf[r[1]] = AgentOf[m] /\ r[2] \in flush[m].upserts
    BY <2>2, <2>3 DEF RowIds
  <2>6. \A r \in RowToWrite(m, k) : r \in RowIds /\ AgentOf[r[1]] = AgentOf[m] /\ r[2] \in flush[m].upserts
    BY <2>2 DEF RowToWrite, Matching, RowIds
  <2>7. CASE flush' = [flush EXCEPT ![m] = Moved(flush[m], flush[m].todo \ {k}, flush[m].found,
                                                     flush[m].writes \cup {<<m, k>>}, flush[m].removes)]
    BY <2>1, <2>3, <2>4, <2>5, <2>7, MoveKeeps
  <2>8. ASSUME NEW r \in RowToWrite(m, k),
               flush' = [flush EXCEPT ![m] = Moved(flush[m], flush[m].todo \ {k}, r, flush[m].writes, flush[m].removes)]
        PROVE  MemoryInv'
    BY <2>1, <2>3, <2>4, <2>6, <2>8, MoveKeeps
  <2> QED BY <2>1, <2>7, <2>8
<1> QED BY <1>1, <1>2

LEMMA UpdateRowKeeps ==
  ASSUME MemoryInv, NEW m \in Memories, UpdateRow(m)
  PROVE  MemoryInv'
<1>1. CASE GiveUp(m)
  BY <1>1, GiveUpKeeps
<1>2. CASE ~GiveUp(m)
  <2>1. /\ At(m, "flushing") /\ InFlush /\ flush[m] \in FlushRecord /\ Sent(m, flush[m])
        /\ flush[m].found \in RowIds
        /\ flush' = [flush EXCEPT ![m] = Moved(flush[m], flush[m].todo, None,
                                               flush[m].writes \cup {flush[m].found}, flush[m].removes)]
    BY <1>2, UpdateRowMoves
  <2>2. /\ \A r \in flush[m].writes \cup {flush[m].found} :
              r \in RowIds /\ AgentOf[r[1]] = AgentOf[m] /\ r[2] \in flush[m].upserts
        /\ \A r \in flush[m].removes : r \in RowIds /\ AgentOf[r[1]] = AgentOf[m] /\ r[2] \in flush[m].deletes
    BY <2>1 DEF Sent, FlushRecord
  <2>3. None \in RowIds \cup {None, Gone} /\ None \notin RowIds /\ flush[m].todo \subseteq flush[m].todo
    BY NoRowNames
  <2> QED BY <2>1, <2>2, <2>3, MoveKeeps
<1> QED BY <1>1, <1>2

\* What set and delete do to the marks.
LEMMA ChangeKeeps ==
  ASSUME MemoryInv, NEW m \in Memories, NEW k \in Keys, Set(m, k) \/ Delete(m, k)
  PROVE  MemoryInv'
<1>1. UNCHANGED <<flush, table, last, crossed>> /\ dropped' = [dropped EXCEPT ![m] = @ \ {k}]
  BY DEF Set, Delete, Change
<1>2. MemoryTypes
  BY DEF MemoryInv
<1>3. MemoryTypes'
  <2>1. CASE Set(m, k)
    BY <1>1, <1>2, <2>1 DEF Set, Change, MemoryTypes, Words
  <2>2. CASE Delete(m, k)
    BY <1>1, <1>2, <2>2 DEF Delete, Change, MemoryTypes, Words
  <2> QED BY <2>1, <2>2
<1>4. ASSUME NEW o \in Memories, NEW x \in Keys PROVE Marked(o, x)'
  <2>1. Marked(o, x)
    BY DEF MemoryInv
  <2>2. CASE <<o, x>> # <<m, k>>
    <3>1. cache'[o][x] = cache[o][x] /\ asked'[o][x] = asked[o][x]
          /\ (x \in dirty'[o] <=> x \in dirty[o]) /\ (x \in deleted'[o] <=> x \in deleted[o])
      BY <1>2, <2>2 DEF Set, Delete, Change, MemoryTypes
    <3> QED BY <1>1, <2>1, <3>1 DEF Marked
  <2>3. CASE o = m /\ x = k /\ Set(m, k)
    <3>1. cache'[m][k] = m /\ asked'[m][k] = "set" /\ k \notin deleted'[m]
      BY <1>2, <2>3 DEF Set, Change, MemoryTypes
    <3> QED BY <2>3, <3>1, NoRowNames DEF Marked
  <2>4. CASE o = m /\ x = k /\ Delete(m, k)
    <3>1. asked'[m][k] = "deleted" /\ k \notin dirty'[m]
      BY <1>2, <2>4 DEF Delete, Change, MemoryTypes
    <3> QED BY <2>4, <3>1 DEF Marked
  <2> QED BY <2>2, <2>3, <2>4
<1>5. \A o \in Memories : Sent(o, flush'[o])
  BY <1>1 DEF MemoryInv
<1> QED BY <1>3, <1>4, <1>5 DEF MemoryInv

LEMMA LoadKeeps ==
  ASSUME MemoryInv, NEW m \in Memories, Load(m)
  PROVE  MemoryInv'
<1>1. UNCHANGED <<scope, dirty, deleted, flush, table, asked, last, dropped, changes>>
  BY DEF Load
<1>2. PICK new \in [Keys -> Memories \cup {None}] :
        /\ \A k \in Keys : IF Visible(m, k) = {} THEN new[k] = cache[m][k]
                           ELSE \E r \in Visible(m, k) : new[k] = table[r].by
        /\ cache' = [cache EXCEPT ![m] = new]
        /\ crossed' = crossed \cup {<<AgentOf[m], k>> : k \in {x \in dirty[m] \cup deleted[m] : new[x] # cache[m][x]}}
  BY DEF Load
<1>3. MemoryTypes /\ MemoryTypes'
  BY <1>1, <1>2 DEF MemoryInv, MemoryTypes
<1>4. \A k \in Keys : new[k] = cache[m][k] \/ new[k] \in Memories
  <2> SUFFICES ASSUME NEW k \in Keys, new[k] # cache[m][k] PROVE new[k] \in Memories
    OBVIOUS
  <2>1. PICK r \in Visible(m, k) : new[k] = table[r].by
    BY <1>2
  <2>2. r \in RowIds /\ table[r] # None
    BY <2>1 DEF Visible, RowIds
  <2> QED BY <1>3, <2>1, <2>2 DEF MemoryTypes
<1>5. ASSUME NEW o \in Memories, NEW x \in Keys PROVE Marked(o, x)'
  <2>1. Marked(o, x)
    BY DEF MemoryInv
  <2>2. CASE o # m
    <3>1. cache'[o] = cache[o] /\ crossed \subseteq crossed'
      BY <1>2, <1>3, <2>2 DEF MemoryTypes
    <3> QED BY <1>1, <2>1, <3>1 DEF Marked
  <2>3. CASE o = m
    <3>1. cache'[o] = new /\ crossed \subseteq crossed'
      BY <1>2, <1>3, <2>3 DEF MemoryTypes
    <3>2. x \in dirty[o] /\ OwnKey(o, x) \notin crossed' => new[x] = cache[o][x]
      BY <1>2, <2>3 DEF OwnKey
    <3> QED BY <1>1, <1>4, <2>1, <2>3, <3>1, <3>2, NoRowNames DEF Marked
  <2> QED BY <2>2, <2>3
<1>6. \A o \in Memories : Sent(o, flush'[o])
  BY <1>1 DEF MemoryInv
<1> QED BY <1>3, <1>5, <1>6 DEF MemoryInv

\* A flush as it begins: nothing is sent yet.
Began(m, f) ==
  /\ f \in FlushRecord /\ f.pc = "flushing" /\ f.deletes = deleted[m] /\ f.upserts = dirty[m]
  /\ f.todo = deleted[m] \cup dirty[m] /\ f.value = cache[m] /\ f.found = None
  /\ f.writes = {} /\ f.removes = {}
  /\ \A k \in Keys : f.meant[k] = IF k \in dirty[m] \cup deleted[m] THEN asked[m][k] ELSE "nothing"

LEMMA StartFlushBegins ==
  ASSUME MemoryInv, NEW m \in Memories, StartFlush(m)
  PROVE  \E f : Began(m, f) /\ flush' = [flush EXCEPT ![m] = f]
<1>1. MemoryTypes /\ \A k \in Keys : Marked(m, k)
  BY DEF MemoryInv
<1> DEFINE c == FlushChanges(m)
           keys == dirty[m] \cup deleted[m]
           meant == [k \in Keys |-> IF k \in keys THEN asked[m][k] ELSE "nothing"]
           f == [NoFlush EXCEPT !.pc = "flushing", !.deletes = c.deletes,
                 !.upserts = c.upserts, !.todo = Touched(c), !.value = cache[m], !.meant = meant]
<1>2. flush' = [flush EXCEPT ![m] = f]
  BY DEF StartFlush
<1>3. dirty[m] \subseteq Keys /\ deleted[m] \subseteq Keys /\ cache[m] \in [Keys -> Memories \cup {None}]
      /\ asked[m] \in [Keys -> Words]
  BY <1>1 DEF MemoryTypes
<1>4. c.deletes = deleted[m] /\ c.upserts = dirty[m] /\ Touched(c) = deleted[m] \cup dirty[m]
  <2>1. {k \in dirty[m] : cache[m][k] # None} = dirty[m]
    BY <1>1, <1>3 DEF Marked
  <2> QED BY <2>1 DEF FlushChanges, Touched
<1>5. meant \in [Keys -> Words]
  BY <1>3 DEF Words
<1>6. \A k \in Keys : meant[k] = IF k \in keys THEN asked[m][k] ELSE "nothing"
  OBVIOUS
<1> HIDE DEF c, meant
<1>7. f.pc = "flushing" /\ f.deletes = deleted[m] /\ f.upserts = dirty[m] /\ f.todo = deleted[m] \cup dirty[m]
      /\ f.value = cache[m] /\ f.found = None /\ f.writes = {} /\ f.removes = {} /\ f.meant = meant
  BY <1>4 DEF NoFlush
<1>8. f \in FlushRecord
  BY <1>3, <1>4, <1>5 DEF NoFlush, FlushRecord
<1> HIDE DEF f
<1>9. Began(m, f)
  BY <1>6, <1>7, <1>8 DEF Began
<1> QED BY <1>2, <1>9

LEMMA StartFlushKeeps ==
  ASSUME MemoryInv, NEW m \in Memories, StartFlush(m)
  PROVE  MemoryInv'
<1>1. PICK f : Began(m, f) /\ flush' = [flush EXCEPT ![m] = f]
  BY StartFlushBegins
<1>2. MemoryTypes /\ \A k \in Keys : Marked(m, k)
  BY DEF MemoryInv
<1>3. UNCHANGED <<cache, table, asked, last, dropped>> /\ dirty' = [dirty EXCEPT ![m] = {}]
      /\ deleted' = [deleted EXCEPT ![m] = {}] /\ crossed \subseteq crossed'
  BY DEF StartFlush
<1>4. flush'[m] = f /\ (\A o \in Memories \ {m} : flush'[o] = flush[o]) /\ flush' \in [Memories -> FlushRecord]
  BY <1>1, <1>2, FlushesStand DEF Began
<1>5. MemoryTypes'
  BY <1>2, <1>3, <1>4 DEF MemoryTypes
<1>6. Sent(m, f)
  <2>1. f.upserts = {k \in Keys : f.meant[k] = "set"}
    BY <1>1, <1>2 DEF Began, Marked, MemoryTypes
  <2>2. f.deletes = {k \in Keys : f.meant[k] = "deleted"}
    BY <1>1, <1>2 DEF Began, Marked, MemoryTypes
  <2>3. \A k \in f.upserts : f.value[k] # None
    BY <1>1, <1>2 DEF Began, Marked, MemoryTypes
  <2> QED BY <1>1, <2>1, <2>2, <2>3, NoRowNames DEF Began, Sent
<1>7. \A o \in Memories : Sent(o, flush'[o])
  BY <1>4, <1>6 DEF MemoryInv
<1>8. ASSUME NEW o \in Memories, NEW k \in Keys PROVE Marked(o, k)'
  <2>1. Marked(o, k)
    BY DEF MemoryInv
  <2>2. dirty'[o] \subseteq dirty[o] /\ deleted'[o] \subseteq deleted[o]
    BY <1>2, <1>3 DEF MemoryTypes
  <2> QED BY <1>3, <2>1, <2>2 DEF Marked
<1> QED BY <1>5, <1>7, <1>8 DEF MemoryInv

LEMMA ExpireKeeps ==
  ASSUME MemoryInv, NEW r \in RowIds, Expire(r)
  PROVE  /\ MemoryInv' /\ UNCHANGED <<cache, dirty, deleted, flush, asked, last, crossed, dropped>>
         /\ \A x \in RowIds : (table'[x] # None <=> table[x] # None) /\ table'[x].by = table[x].by
<1>1. UNCHANGED <<cache, dirty, deleted, flush, asked, last, crossed, dropped>>
      /\ table' = [table EXCEPT ![r].live = FALSE] /\ table[r] # None
  BY DEF Expire
<1>2. MemoryTypes
  BY DEF MemoryInv
<1>3. table[r] \in [by : Memories, live : BOOLEAN]
  BY <1>1, <1>2 DEF MemoryTypes
<1> DEFINE new == [table[r] EXCEPT !.live = FALSE]
<1>4. table' = [table EXCEPT ![r] = new]
  BY <1>1, <1>2 DEF MemoryTypes
<1>5. new \in [by : Memories, live : BOOLEAN] /\ new.by = table[r].by
  BY <1>3
<1> HIDE DEF new
<1>6. MemoryTypes'
  BY <1>1, <1>2, <1>4, <1>5 DEF MemoryTypes
<1>7. \A x \in RowIds : (table'[x] # None <=> table[x] # None) /\ table'[x].by = table[x].by
  BY <1>1, <1>2, <1>4, <1>5, NoRowNames DEF MemoryTypes
<1>8. \A o \in Memories, k \in Keys : Marked(o, k)'
  BY <1>1 DEF MemoryInv, Marked
<1>9. \A o \in Memories : Sent(o, flush'[o])
  BY <1>1 DEF MemoryInv
<1> QED BY <1>1, <1>6, <1>7, <1>8, <1>9 DEF MemoryInv

\* What a commit leaves of the other flushes.
LEMMA CommitFlushes ==
  ASSUME MemoryInv, NEW m \in Memories, Commit(m)
  PROVE  /\ flush'[m] = NoFlush /\ flush' \in [Memories -> FlushRecord]
         /\ \A o \in Memories \ {m} :
              \/ flush'[o] = flush[o] /\ flush[o].found \notin flush[m].removes \ flush[m].writes
              \/ /\ flush[o].found \in flush[m].removes
                 /\ flush'[o] = Moved(flush[o], flush[o].todo, Gone, flush[o].writes, flush[o].removes)
<1>1. flush \in [Memories -> FlushRecord]
  BY DEF MemoryInv, MemoryTypes
<1>2. flush' = [o \in Memories |->
       IF o = m THEN NoFlush
       ELSE IF flush[o].found \in flush[m].removes \ flush[m].writes
            THEN [flush[o] EXCEPT !.found = Gone] ELSE flush[o]]
  BY DEF Commit
<1>3. ASSUME NEW o \in Memories
      PROVE  LET g == [flush[o] EXCEPT !.found = Gone]
             IN g \in FlushRecord /\ g = Moved(flush[o], flush[o].todo, Gone, flush[o].writes, flush[o].removes)
  BY <1>1 DEF FlushRecord, Moved
<1>4. flush' \in [Memories -> FlushRecord]
  BY <1>1, <1>2, <1>3, NoFlushRecord
<1>5. \A o \in Memories \ {m} :
        \/ flush'[o] = flush[o] /\ flush[o].found \notin flush[m].removes \ flush[m].writes
        \/ /\ flush[o].found \in flush[m].removes
           /\ flush'[o] = Moved(flush[o], flush[o].todo, Gone, flush[o].writes, flush[o].removes)
  BY <1>2, <1>3
<1>6. flush'[m] = NoFlush
  BY <1>2
<1> QED BY <1>4, <1>5, <1>6

LEMMA CommitTable ==
  ASSUME MemoryInv, NEW m \in Memories, Commit(m)
  PROVE  /\ table' \in [RowIds -> {None} \cup [by : Memories, live : BOOLEAN]]
         /\ \A r \in flush[m].writes : r \in RowIds /\ table'[r] # None /\ table'[r].by = flush[m].value[r[2]]
         /\ \A r \in RowIds \ flush[m].writes : table'[r] = IF r \in flush[m].removes THEN None ELSE table[r]
<1>1. MemoryTypes /\ flush[m] \in FlushRecord /\ Sent(m, flush[m])
  BY DEF MemoryInv, MemoryTypes
<1>2. table' = [r \in RowIds |->
       IF r \in flush[m].writes THEN [by |-> flush[m].value[r[2]], live |-> TRUE]
       ELSE IF r \in flush[m].removes THEN None ELSE table[r]]
  BY DEF Commit
<1>3. ASSUME NEW r \in flush[m].writes
      PROVE  /\ r \in RowIds /\ table'[r] \in [by : Memories, live : BOOLEAN]
             /\ table'[r].by = flush[m].value[r[2]]
  <2>1. r \in RowIds /\ r[2] \in flush[m].upserts /\ r[2] \in Keys
    BY <1>1 DEF Sent, FlushRecord
  <2>2. flush[m].value[r[2]] \in Memories
    BY <1>1, <2>1 DEF Sent, FlushRecord
  <2>3. table'[r] = [by |-> flush[m].value[r[2]], live |-> TRUE]
    BY <1>2, <2>1
  <2> QED BY <2>1, <2>2, <2>3
<1>4. \A r \in RowIds \ flush[m].writes : table'[r] = IF r \in flush[m].removes THEN None ELSE table[r]
  BY <1>2
<1>5. \A r \in RowIds : table'[r] \in {None} \cup [by : Memories, live : BOOLEAN]
  BY <1>1, <1>3, <1>4 DEF MemoryTypes
<1>6. table' = [r \in RowIds |-> table'[r]]
  BY <1>2
<1>7. table' \in [RowIds -> {None} \cup [by : Memories, live : BOOLEAN]]
  BY <1>5, <1>6
<1> QED BY <1>3, <1>4, <1>7, NoRowNames

LEMMA CommitKeeps ==
  ASSUME MemoryInv, NEW m \in Memories, Commit(m)
  PROVE  MemoryInv'
<1>1. MemoryTypes /\ flush[m] \in FlushRecord
  BY DEF MemoryInv, MemoryTypes
<1>2. UNCHANGED <<cache, dirty, deleted, crossed, dropped>>
      /\ asked' = [asked EXCEPT ![m] = [k \in Keys |->
           IF flush[m].meant[k] = "nothing" \/ k \in dirty[m] \cup deleted[m] THEN asked[m][k] ELSE "nothing"]]
  BY <1>1 DEF Commit, MemoryTypes
<1>3. asked' \in [Memories -> [Keys -> Words]]
      /\ \A k \in Keys : k \in dirty[m] \cup deleted[m] => asked'[m][k] = asked[m][k]
      /\ \A o \in Memories \ {m} : asked'[o] = asked[o]
  BY <1>1, <1>2 DEF MemoryTypes, Words
<1>4. last' \in [Owned -> Memories \cup {None, "nothing"}]
  BY <1>1 DEF Commit, MemoryTypes
<1>5. MemoryTypes'
  BY <1>1, <1>2, <1>3, <1>4, CommitFlushes, CommitTable DEF MemoryTypes
<1>6. ASSUME NEW o \in Memories, NEW k \in Keys PROVE Marked(o, k)'
  <2>1. Marked(o, k)
    BY DEF MemoryInv
  <2> QED BY <1>2, <1>3, <2>1 DEF Marked
<1>7. ASSUME NEW o \in Memories PROVE Sent(o, flush'[o])
  <2>1. CASE o = m
    BY <2>1, CommitFlushes, NoFlushSent
  <2>2. CASE o # m /\ flush'[o] = flush[o]
    BY <2>2 DEF MemoryInv
  <2>3. CASE o # m /\ flush[o].found \in flush[m].removes
               /\ flush'[o] = Moved(flush[o], flush[o].todo, Gone, flush[o].writes, flush[o].removes)
    <3>1. flush[o] \in FlushRecord /\ Sent(o, flush[o])
      BY DEF MemoryInv, MemoryTypes
    <3> DEFINE g == flush'[o]
    <3>2. flush[o].todo \in SUBSET Keys /\ Gone \in RowIds \cup {None, Gone}
          /\ flush[o].writes \in SUBSET RowIds /\ flush[o].removes \in SUBSET RowIds
      BY <3>1 DEF FlushRecord
    <3>3. g = Moved(flush[o], flush[o].todo, Gone, flush[o].writes, flush[o].removes)
      BY <2>3
    <3> HIDE DEF g
    <3>4. /\ g \in FlushRecord /\ g.pc = flush[o].pc /\ g.deletes = flush[o].deletes /\ g.upserts = flush[o].upserts
          /\ g.value = flush[o].value /\ g.meant = flush[o].meant
          /\ g.todo = flush[o].todo /\ g.found = Gone /\ g.writes = flush[o].writes /\ g.removes = flush[o].removes
      BY <3>1, <3>2, <3>3, MovedRecord
    <3>5. flush[o].found \in RowIds
      BY <1>1, <2>3 DEF FlushRecord
    <3>6. flush[o].pc # "idle"
      BY <3>1, <3>5, NoFlushRecord, NoRowNames DEF Sent
    <3>7. Sent(o, g)
      BY <3>1, <3>4, <3>6, NoRowNames DEF Sent
    <3> QED BY <3>7 DEF g
  <2> QED BY <2>1, <2>2, <2>3, CommitFlushes
<1> QED BY <1>5, <1>6, <1>7 DEF MemoryInv

LEMMA MemoryStarts == MemoryInit => MemoryInv
<1> SUFFICES ASSUME MemoryInit PROVE MemoryInv
  OBVIOUS
<1>1. MemoryTypes
  BY NoFlushRecord DEF MemoryInit, MemoryTypes, Words
<1>2. \A m \in Memories : flush[m] = NoFlush /\ dirty[m] = {} /\ deleted[m] = {}
  BY DEF MemoryInit
<1> QED BY <1>1, <1>2, NoFlushSent DEF MemoryInv, Marked

LEMMA MemoryStep == MemoryInv /\ [MemoryNext]_mvars => MemoryInv'
<1> SUFFICES ASSUME MemoryInv, [MemoryNext]_mvars PROVE MemoryInv'
  OBVIOUS
<1>1. ASSUME UNCHANGED mvars PROVE MemoryInv'
  BY <1>1 DEF mvars, MemoryInv, MemoryTypes, Marked
<1>2. ASSUME NEW m \in Memories, NEW k \in Keys, Set(m, k) \/ Delete(m, k) PROVE MemoryInv'
  BY <1>2, ChangeKeeps
<1>3. ASSUME NEW m \in Memories, NEW k \in Keys, DeleteRows(m, k) PROVE MemoryInv'
  BY <1>3, DeleteRowsKeeps
<1>4. ASSUME NEW m \in Memories, NEW k \in Keys, SelectRow(m, k) PROVE MemoryInv'
  BY <1>4, SelectRowKeeps
<1>5. ASSUME NEW m \in Memories, Load(m) PROVE MemoryInv'
  BY <1>5, LoadKeeps
<1>6. ASSUME NEW m \in Memories, StartFlush(m) PROVE MemoryInv'
  BY <1>6, StartFlushKeeps
<1>7. ASSUME NEW m \in Memories, UpdateRow(m) PROVE MemoryInv'
  BY <1>7, UpdateRowKeeps
<1>8. ASSUME NEW m \in Memories, Commit(m) PROVE MemoryInv'
  BY <1>8, CommitKeeps
<1>9. ASSUME NEW m \in Memories, Abort(m) PROVE MemoryInv'
  BY <1>9, GiveUpKeeps DEF Abort
<1>10. ASSUME NEW r \in RowIds, Expire(r) PROVE MemoryInv'
  BY <1>10, ExpireKeeps
<1> QED BY <1>1, <1>2, <1>3, <1>4, <1>5, <1>6, <1>7, <1>8, <1>9, <1>10 DEF MemoryNext

-----------------------------------------------------------------------------
(* No change is forgotten but by a flush that did not commit.               *)

OnItsWay(m, k) ==
  /\ asked[m][k] = "set" => k \in dirty[m] \cup flush[m].upserts \cup dropped[m]
  /\ asked[m][k] = "deleted" => k \in deleted[m] \cup flush[m].deletes \cup dropped[m]

MovesOn(m, todo, found, writes, removes) ==
  /\ flush'[m] = Moved(flush[m], todo, found, writes, removes)
  /\ flush'[m].todo = todo /\ flush'[m].found = found
  /\ flush'[m].writes = writes /\ flush'[m].removes = removes /\ flush'[m].value = flush[m].value
  /\ \A o \in Memories : /\ flush'[o].upserts = flush[o].upserts /\ flush'[o].deletes = flush[o].deletes
                         /\ flush'[o].meant = flush[o].meant
  /\ \A o \in Memories \ {m} : flush'[o] = flush[o]

\* The steps of a flush leave its keys as they are, until it ends.
LEMMA MovesStayOnTheirWay ==
  ASSUME MemoryInv, NEW m \in Memories, NEW todo \in SUBSET Keys, NEW found \in RowIds \cup {None, Gone},
         NEW writes \in SUBSET RowIds, NEW removes \in SUBSET RowIds,
         flush' = [flush EXCEPT ![m] = Moved(flush[m], todo, found, writes, removes)]
  PROVE  MovesOn(m, todo, found, writes, removes)
<1>1. flush[m] \in FlushRecord /\ MemoryTypes
  BY DEF MemoryInv, MemoryTypes
<1> DEFINE g == Moved(flush[m], todo, found, writes, removes)
<1>2. flush' = [flush EXCEPT ![m] = g]
  OBVIOUS
<1>3. g = Moved(flush[m], todo, found, writes, removes)
  OBVIOUS
<1> HIDE DEF g
<1>4. /\ g \in FlushRecord /\ g.pc = flush[m].pc /\ g.deletes = flush[m].deletes /\ g.upserts = flush[m].upserts
      /\ g.value = flush[m].value /\ g.meant = flush[m].meant
      /\ g.todo = todo /\ g.found = found /\ g.writes = writes /\ g.removes = removes
  BY <1>1, <1>3, MovedRecord
<1>5. flush'[m] = g /\ \A o \in Memories \ {m} : flush'[o] = flush[o]
  BY <1>1, <1>2, <1>4, FlushesStand
<1> QED BY <1>3, <1>4, <1>5 DEF MovesOn

LEMMA FlushStepStays ==
  ASSUME MemoryInv, NEW m \in Memories, InFlush,
         \/ \E k \in Keys : DeleteRows(m, k)
         \/ \E k \in Keys : SelectRow(m, k) /\ ~GiveUp(m)
         \/ UpdateRow(m) /\ ~GiveUp(m)
  PROVE  \A o \in Memories : flush'[o].upserts = flush[o].upserts /\ flush'[o].deletes = flush[o].deletes
                             /\ flush'[o].meant = flush[o].meant
<1>1. /\ flush[m] \in FlushRecord
      /\ flush[m].todo \in SUBSET Keys /\ flush[m].found \in RowIds \cup {None, Gone}
      /\ flush[m].writes \in SUBSET RowIds /\ flush[m].removes \in SUBSET RowIds
      /\ None \in RowIds \cup {None, Gone}
  BY DEF MemoryInv, MemoryTypes, FlushRecord
<1>2. \A k \in Keys : flush[m].todo \ {k} \in SUBSET Keys /\ Matching(m, k) \in SUBSET RowIds
         /\ flush[m].writes \cup {<<m, k>>} \in SUBSET RowIds /\ flush[m].removes \cup Matching(m, k) \in SUBSET RowIds
  BY <1>1 DEF Matching, RowIds
<1>3. ASSUME NEW k \in Keys, DeleteRows(m, k)
      PROVE  \A o \in Memories : flush'[o].upserts = flush[o].upserts /\ flush'[o].deletes = flush[o].deletes
                                 /\ flush'[o].meant = flush[o].meant
  <2>1. flush' = [flush EXCEPT ![m] = Moved(flush[m], flush[m].todo \ {k}, flush[m].found, flush[m].writes,
                                                flush[m].removes \cup Matching(m, k))]
    BY <1>3, DeleteRowsMoves
  <2> QED BY <1>1, <1>2, <2>1, MovesStayOnTheirWay DEF MovesOn
<1>4. ASSUME NEW k \in Keys, SelectRow(m, k), ~GiveUp(m)
      PROVE  \A o \in Memories : flush'[o].upserts = flush[o].upserts /\ flush'[o].deletes = flush[o].deletes
                                 /\ flush'[o].meant = flush[o].meant
  <2>1. \/ flush' = [flush EXCEPT ![m] = Moved(flush[m], flush[m].todo \ {k}, flush[m].found,
                                               flush[m].writes \cup {<<m, k>>}, flush[m].removes)]
        \/ \E r \in RowToWrite(m, k) :
             flush' = [flush EXCEPT ![m] = Moved(flush[m], flush[m].todo \ {k}, r,
                                                 flush[m].writes, flush[m].removes)]
    BY <1>4, SelectRowMoves
  <2>2. \A r \in RowToWrite(m, k) : r \in RowIds \cup {None, Gone}
    BY <1>2 DEF RowToWrite
  <2>3. CASE flush' = [flush EXCEPT ![m] = Moved(flush[m], flush[m].todo \ {k}, flush[m].found,
                                               flush[m].writes \cup {<<m, k>>}, flush[m].removes)]
    BY <1>1, <1>2, <2>3, MovesStayOnTheirWay DEF MovesOn
  <2>4. ASSUME NEW r \in RowToWrite(m, k),
               flush' = [flush EXCEPT ![m] = Moved(flush[m], flush[m].todo \ {k}, r, flush[m].writes, flush[m].removes)]
        PROVE  \A o \in Memories : flush'[o].upserts = flush[o].upserts /\ flush'[o].deletes = flush[o].deletes
                                   /\ flush'[o].meant = flush[o].meant
    BY <1>1, <1>2, <2>2, <2>4, MovesStayOnTheirWay DEF MovesOn
  <2> QED BY <2>1, <2>3, <2>4
<1>5. ASSUME UpdateRow(m), ~GiveUp(m)
      PROVE  \A o \in Memories : flush'[o].upserts = flush[o].upserts /\ flush'[o].deletes = flush[o].deletes
                                 /\ flush'[o].meant = flush[o].meant
  <2>1. flush[m].found \in RowIds
        /\ flush' = [flush EXCEPT ![m] = Moved(flush[m], flush[m].todo, None,
                                               flush[m].writes \cup {flush[m].found}, flush[m].removes)]
    BY <1>5, UpdateRowMoves
  <2>2. flush[m].writes \cup {flush[m].found} \in SUBSET RowIds
    BY <1>1, <2>1
  <2> QED BY <1>1, <2>1, <2>2, MovesStayOnTheirWay DEF MovesOn
<1> QED BY <1>3, <1>4, <1>5

LEMMA ForgottenFlush ==
  ASSUME NothingForgotten, UNCHANGED <<asked, dirty, deleted, dropped>>,
         \A o \in Memories : flush'[o].upserts = flush[o].upserts /\ flush'[o].deletes = flush[o].deletes
  PROVE  NothingForgotten'
BY DEF NothingForgotten

LEMMA ForgottenGiveUp ==
  ASSUME MemoryInv, NothingForgotten, NEW m \in Memories, GiveUp(m)
  PROVE  NothingForgotten'
<1>1. MemoryTypes /\ Sent(m, flush[m])
  BY DEF MemoryInv
<1>2. UNCHANGED <<asked, dirty, deleted>> /\ (\A o \in Memories \ {m} : flush'[o] = flush[o] /\ dropped'[o] = dropped[o])
      /\ dropped'[m] = dropped[m] \cup {k \in Keys : flush[m].meant[k] # "nothing" /\ k \notin dirty[m] \cup deleted[m]}
  BY <1>1 DEF GiveUp, MemoryTypes
<1>3. ASSUME NEW o \in Memories, NEW k \in Keys PROVE OnItsWay(o, k)'
  <2>1. OnItsWay(o, k)
    BY DEF NothingForgotten, OnItsWay
  <2>2. CASE o # m
    BY <1>2, <2>1, <2>2 DEF OnItsWay
  <2>3. CASE o = m
    <3>1. Marked(m, k)
      BY DEF MemoryInv
    <3>2. k \in flush[m].upserts \cup flush[m].deletes => k \in dropped'[m] \cup dirty[m] \cup deleted[m]
      BY <1>1, <1>2 DEF Sent
    <3> QED BY <1>2, <2>1, <2>3, <3>1, <3>2 DEF OnItsWay, Marked
  <2> QED BY <2>2, <2>3
<1> QED BY <1>3 DEF NothingForgotten, OnItsWay

LEMMA ForgottenStep == MemoryInv /\ NothingForgotten /\ [MemoryNext]_mvars => NothingForgotten'
<1> SUFFICES ASSUME MemoryInv, NothingForgotten, [MemoryNext]_mvars PROVE NothingForgotten'
  OBVIOUS
<1>0. MemoryTypes
  BY DEF MemoryInv
<1>1. ASSUME UNCHANGED mvars PROVE NothingForgotten'
  BY <1>1 DEF mvars, NothingForgotten
<1>2. ASSUME NEW m \in Memories, NEW k \in Keys, Set(m, k) PROVE NothingForgotten'
  BY <1>0, <1>2 DEF Set, Change, MemoryTypes, NothingForgotten
<1>3. ASSUME NEW m \in Memories, NEW k \in Keys, Delete(m, k) PROVE NothingForgotten'
  BY <1>0, <1>3 DEF Delete, Change, MemoryTypes, NothingForgotten
<1>4. ASSUME NEW m \in Memories, NEW k \in Keys, DeleteRows(m, k) PROVE NothingForgotten'
  <2>1. InFlush
    BY <1>4 DEF DeleteRows
  <2> QED BY <1>4, <2>1, FlushStepStays, ForgottenFlush DEF InFlush
<1>5. ASSUME NEW m \in Memories, NEW k \in Keys, SelectRow(m, k) PROVE NothingForgotten'
  <2>1. CASE ~GiveUp(m)
    <3>1. InFlush
      BY <1>5, <2>1 DEF SelectRow
    <3> QED BY <1>5, <2>1, <3>1, FlushStepStays, ForgottenFlush DEF InFlush
  <2> QED BY <2>1, ForgottenGiveUp
<1>6. ASSUME NEW m \in Memories, UpdateRow(m) PROVE NothingForgotten'
  <2>1. CASE ~GiveUp(m)
    <3>1. InFlush
      BY <1>6, <2>1 DEF UpdateRow
    <3> QED BY <1>6, <2>1, <3>1, FlushStepStays, ForgottenFlush DEF InFlush
  <2> QED BY <2>1, ForgottenGiveUp
<1>7. ASSUME NEW m \in Memories, Load(m) PROVE NothingForgotten'
  BY <1>7, ForgottenFlush DEF Load
<1>8. ASSUME NEW m \in Memories, StartFlush(m) PROVE NothingForgotten'
  <2>1. PICK f : Began(m, f) /\ flush' = [flush EXCEPT ![m] = f]
    BY <1>8, StartFlushBegins
  <2>2. flush'[m] = f /\ \A o \in Memories \ {m} : flush'[o] = flush[o]
    BY <1>0, <2>1, FlushesStand DEF Began
  <2>3. flush[m].upserts = {} /\ flush[m].deletes = {}
    BY <1>8, NoFlushRecord DEF StartFlush, At, MemoryInv, Sent
  <2>4. UNCHANGED <<asked, dropped>> /\ \A o \in Memories \ {m} : dirty'[o] = dirty[o] /\ deleted'[o] = deleted[o]
    BY <1>0, <1>8 DEF StartFlush, MemoryTypes
  <2>5. ASSUME NEW o \in Memories, NEW k \in Keys PROVE OnItsWay(o, k)'
    <3>1. OnItsWay(o, k)
      BY DEF NothingForgotten, OnItsWay
    <3>2. CASE o # m
      BY <2>2, <2>4, <3>1, <3>2 DEF OnItsWay
    <3>3. CASE o = m
      BY <2>1, <2>2, <2>3, <2>4, <3>1, <3>3 DEF OnItsWay, Began
    <3> QED BY <3>2, <3>3
  <2> QED BY <2>5 DEF NothingForgotten, OnItsWay
<1>9. ASSUME NEW m \in Memories, Commit(m) PROVE NothingForgotten'
  <2>1. UNCHANGED <<dirty, deleted, dropped>>
        /\ asked' = [asked EXCEPT ![m] = [k \in Keys |->
             IF flush[m].meant[k] = "nothing" \/ k \in dirty[m] \cup deleted[m] THEN asked[m][k] ELSE "nothing"]]
    BY <1>0, <1>9 DEF Commit, MemoryTypes
  <2>2. /\ \A k \in Keys : asked'[m][k] = IF flush[m].meant[k] = "nothing" \/ k \in dirty[m] \cup deleted[m]
                                           THEN asked[m][k] ELSE "nothing"
        /\ \A o \in Memories \ {m} : asked'[o] = asked[o]
    BY <1>0, <2>1 DEF MemoryTypes
  <2>3. \A o \in Memories \ {m} : flush'[o].upserts = flush[o].upserts /\ flush'[o].deletes = flush[o].deletes
    <3> SUFFICES ASSUME NEW o \in Memories \ {m},
                        flush'[o] = Moved(flush[o], flush[o].todo, Gone, flush[o].writes, flush[o].removes)
                 PROVE  flush'[o].upserts = flush[o].upserts /\ flush'[o].deletes = flush[o].deletes
      BY <1>9, CommitFlushes
    <3>1. flush[o] \in FlushRecord
      BY <1>0 DEF MemoryTypes
    <3> QED BY <3>1 DEF Moved, FlushRecord
  <2>4. ASSUME NEW o \in Memories, NEW k \in Keys PROVE OnItsWay(o, k)'
    <3>1. OnItsWay(o, k) /\ Marked(m, k) /\ Sent(m, flush[m])
      BY DEF NothingForgotten, OnItsWay, MemoryInv
    <3>2. CASE o # m
      BY <2>1, <2>2, <2>3, <3>1, <3>2 DEF OnItsWay
    <3>3. CASE o = m
      <4>1. k \in flush[m].upserts \cup flush[m].deletes => flush[m].meant[k] # "nothing"
        BY <3>1 DEF Sent
      <4> QED BY <2>1, <2>2, <3>1, <3>3, <4>1 DEF OnItsWay, Marked
    <3> QED BY <3>2, <3>3
  <2> QED BY <2>4 DEF NothingForgotten, OnItsWay
<1>10. ASSUME NEW m \in Memories, Abort(m) PROVE NothingForgotten'
  BY <1>10, ForgottenGiveUp DEF Abort
<1>11. ASSUME NEW r \in RowIds, Expire(r) PROVE NothingForgotten'
  BY <1>11, ForgottenFlush DEF Expire
<1> QED BY <1>1, <1>2, <1>3, <1>4, <1>5, <1>6, <1>7, <1>8, <1>9, <1>10, <1>11 DEF MemoryNext

-----------------------------------------------------------------------------
(* The table tells the last change of a key that nobody crossed.            *)

\* How far a flush f of m is with a key, of which the table has rows.
Reached(m, k, f, rows) ==
  /\ k \in f.upserts => f.value[k] = m
  /\ k \in f.deletes /\ k \notin f.todo => rows \subseteq f.removes
  /\ k \in f.upserts /\ k \notin f.todo =>
       IF IsRowOf(f.found, k) THEN rows = {f.found} /\ OfKey(f.writes, k) = {}
       ELSE \E r \in RowIds : OfKey(f.writes, k) = {r} /\ rows \subseteq {r}
  /\ k \in f.todo => OfKey(f.writes, k) = {} /\ ~IsRowOf(f.found, k)

RowsOf(p) == {r \in Memories \X {p[2]} : table[r] # None /\ AgentOf[r[1]] = p[1]}
TellsLast(p) ==
  IF last[p] \in Memories THEN \E r \in RowIds : RowsOf(p) = {r} /\ table[r].by = last[p] ELSE RowsOf(p) = {}

\* No two flushes of one agent are under way with a key.
AloneWith(m, k) ==
  \A o \in Memories :
    AgentOf[o] = AgentOf[m] /\ flush[o].meant[k] # "nothing" /\ flush[m].meant[k] # "nothing" => o = m

TableInv ==
  /\ \A m \in Memories, k \in Keys :
       OwnKey(m, k) \notin crossed => AloneWith(m, k) /\ Reached(m, k, flush[m], Matching(m, k))
  /\ \A p \in Owned \ crossed : TellsLast(p)

LEMMA RowsMatch ==
  ASSUME NEW m \in Memories, NEW k \in Keys
  PROVE  /\ Matching(m, k) = RowsOf(OwnKey(m, k)) /\ OwnKey(m, k) \in Owned
         /\ Matching(m, k) \subseteq RowIds /\ \A r \in Matching(m, k) : r[2] = k /\ AgentOf[r[1]] = AgentOf[m]
BY DEF Matching, RowsOf, OwnKey, Owned, RowIds

LEMMA ReachedNothing == ASSUME NEW m, NEW k, NEW rows PROVE Reached(m, k, NoFlush, rows)
BY NoFlushRecord DEF Reached

\* Where rows come and go only in their expiry, what they tell stays.
RowsStand ==
  /\ UNCHANGED last
  /\ \A r \in RowIds : (table'[r] # None <=> table[r] # None) /\ table'[r].by = table[r].by

LEMMA TellsLastStays ==
  ASSUME RowsStand
  PROVE  /\ \A p \in Owned : TellsLast(p) => TellsLast(p)'
         /\ \A m \in Memories, k \in Keys : Matching(m, k)' = Matching(m, k)
<1>1. ASSUME NEW p \in Owned PROVE RowsOf(p)' = RowsOf(p)
  <2>1. \A r \in Memories \X {p[2]} : r \in RowIds
    BY DEF Owned, RowIds
  <2>2. RowsOf(p)' = {r \in Memories \X {p[2]} : table'[r] # None /\ AgentOf[r[1]] = p[1]}
    BY DEF RowsOf
  <2> QED BY <2>1, <2>2 DEF RowsStand, RowsOf
<1>2. ASSUME NEW p \in Owned, TellsLast(p) PROVE TellsLast(p)'
  <2>1. last'[p] = last[p]
    BY DEF RowsStand
  <2> QED BY <1>1, <1>2, <2>1 DEF RowsStand, TellsLast
<1>3. ASSUME NEW m \in Memories, NEW k \in Keys PROVE Matching(m, k)' = Matching(m, k)
  <2>1. \A r \in Memories \X {k} : r \in RowIds
    BY DEF RowIds
  <2>2. Matching(m, k)' = {r \in Memories \X {k} : table'[r] # None /\ AgentOf[r[1]] = AgentOf[m]}
    BY DEF Matching
  <2> QED BY <2>1, <2>2 DEF RowsStand, Matching
<1> QED BY <1>2, <1>3

\* A step of the objects alone: flushes and rows stand.
LEMMA TableStands ==
  ASSUME TableInv, UNCHANGED flush, crossed \subseteq crossed', RowsStand
  PROVE  TableInv'
<1>1. ASSUME NEW m \in Memories, NEW k \in Keys, OwnKey(m, k) \notin crossed'
      PROVE  AloneWith(m, k)' /\ Reached(m, k, flush'[m], Matching(m, k)')
  <2>1. AloneWith(m, k) /\ Reached(m, k, flush[m], Matching(m, k))
    BY <1>1 DEF TableInv
  <2>2. Matching(m, k)' = Matching(m, k)
    BY TellsLastStays
  <2> QED BY <2>1, <2>2 DEF AloneWith
<1>2. \A p \in Owned \ crossed' : TellsLast(p)'
  BY TellsLastStays DEF TableInv
<1> QED BY <1>1, <1>2 DEF TableInv, OwnKey

\* A flush goes on with its keys.
LEMMA TableFlush ==
  ASSUME TableInv, UNCHANGED <<table, last, crossed>>, NEW m \in Memories,
         \A o \in Memories \ {m} : flush'[o] = flush[o],
         \A k \in Keys : flush'[m].meant[k] # "nothing" => flush[m].meant[k] # "nothing",
         \A k \in Keys : OwnKey(m, k) \notin crossed /\ Reached(m, k, flush[m], Matching(m, k))
                           => Reached(m, k, flush'[m], Matching(m, k))
  PROVE  TableInv'
<1>0. RowsStand
  BY DEF RowsStand
<1>1. ASSUME NEW o \in Memories, NEW k \in Keys, OwnKey(o, k) \notin crossed'
      PROVE  AloneWith(o, k)' /\ Reached(o, k, flush'[o], Matching(o, k)')
  <2>1. AloneWith(o, k) /\ Reached(o, k, flush[o], Matching(o, k))
    BY <1>1 DEF TableInv
  <2>2. Matching(o, k)' = Matching(o, k)
    BY <1>0, TellsLastStays
  <2>3. Reached(o, k, flush'[o], Matching(o, k))
    BY <1>1, <2>1
  <2>4. \A p \in Memories : flush'[p].meant[k] # "nothing" => flush[p].meant[k] # "nothing"
    OBVIOUS
  <2> QED BY <2>1, <2>2, <2>3, <2>4 DEF AloneWith
<1>2. \A p \in Owned \ crossed' : TellsLast(p)'
  BY <1>0, TellsLastStays DEF TableInv
<1> QED BY <1>1, <1>2 DEF TableInv, OwnKey

LEMMA TableGiveUp ==
  ASSUME MemoryInv, TableInv, NEW m \in Memories, GiveUp(m)
  PROVE  TableInv'
<1>1. UNCHANGED <<table, last, crossed>> /\ flush'[m] = NoFlush /\ \A o \in Memories \ {m} : flush'[o] = flush[o]
  BY NoFlushRecord, FlushesStand DEF GiveUp, MemoryInv
<1> QED BY <1>1, NoFlushRecord, ReachedNothing, TableFlush

LEMMA TableDeleteRows ==
  ASSUME MemoryInv, TableInv, NEW m \in Memories, NEW k \in Keys, DeleteRows(m, k)
  PROVE  TableInv'
<1>1. /\ InFlush /\ flush[m] \in FlushRecord /\ Sent(m, flush[m])
      /\ k \in flush[m].todo /\ k \in flush[m].deletes
      /\ flush' = [flush EXCEPT ![m] = Moved(flush[m], flush[m].todo \ {k}, flush[m].found, flush[m].writes,
                                             flush[m].removes \cup Matching(m, k))]
  BY DeleteRowsMoves
<1>2. /\ flush[m].todo \ {k} \in SUBSET Keys /\ flush[m].found \in RowIds \cup {None, Gone}
      /\ flush[m].writes \in SUBSET RowIds /\ flush[m].removes \cup Matching(m, k) \in SUBSET RowIds
  BY <1>1, RowsMatch DEF FlushRecord
<1>3. /\ flush'[m].todo = flush[m].todo \ {k} /\ flush'[m].found = flush[m].found /\ flush'[m].writes = flush[m].writes
      /\ flush'[m].removes = flush[m].removes \cup Matching(m, k) /\ flush'[m].value = flush[m].value
      /\ flush'[m].upserts = flush[m].upserts /\ flush'[m].deletes = flush[m].deletes
      /\ flush'[m].meant = flush[m].meant /\ \A o \in Memories \ {m} : flush'[o] = flush[o]
  <2>1. MovesOn(m, flush[m].todo \ {k}, flush[m].found, flush[m].writes, flush[m].removes \cup Matching(m, k))
    BY <1>1, <1>2, MovesStayOnTheirWay, Zenon
  <2> QED BY <2>1 DEF MovesOn
<1>4. k \notin flush[m].upserts
  BY <1>1 DEF Sent
<1>5. ASSUME NEW x \in Keys, Reached(m, x, flush[m], Matching(m, x)) PROVE Reached(m, x, flush'[m], Matching(m, x))
  BY <1>3, <1>4, <1>5 DEF Reached
<1> QED BY <1>1, <1>3, <1>5, TableFlush DEF InFlush

LEMMA TableSelectRow ==
  ASSUME MemoryInv, TableInv, NEW m \in Memories, NEW k \in Keys, SelectRow(m, k), ~GiveUp(m)
  PROVE  TableInv'
<1>1. /\ InFlush /\ flush[m] \in FlushRecord /\ Sent(m, flush[m])
      /\ k \in flush[m].todo /\ flush[m].todo \cap flush[m].deletes = {} /\ flush[m].found = None
      /\ \/ /\ RowToWrite(m, k) = {}
            /\ flush' = [flush EXCEPT ![m] = Moved(flush[m], flush[m].todo \ {k}, flush[m].found,
                                                   flush[m].writes \cup {<<m, k>>}, flush[m].removes)]
         \/ \E r \in RowToWrite(m, k) :
              flush' = [flush EXCEPT ![m] = Moved(flush[m], flush[m].todo \ {k}, r,
                                                  flush[m].writes, flush[m].removes)]
  BY SelectRowMoves
<1>2. /\ flush[m].todo \ {k} \in SUBSET Keys /\ flush[m].found \in RowIds \cup {None, Gone}
      /\ flush[m].writes \in SUBSET RowIds /\ flush[m].removes \in SUBSET RowIds
      /\ flush[m].writes \cup {<<m, k>>} \in SUBSET RowIds /\ <<m, k>> \in RowIds
  BY <1>1 DEF FlushRecord, RowIds
<1>3. k \in flush[m].upserts /\ k \notin flush[m].deletes
  BY <1>1 DEF Sent
<1>4. RowToWrite(m, k) = Matching(m, k)
  BY <1>1, <1>3, RowsMatch DEF RowToWrite, Sent
<1>5. \A x : ~IsRowOf(None, x)
  BY NoRowNames DEF IsRowOf
<1>6. CASE RowToWrite(m, k) = {} /\ flush' = [flush EXCEPT ![m] = Moved(flush[m], flush[m].todo \ {k}, flush[m].found,
                                                   flush[m].writes \cup {<<m, k>>}, flush[m].removes)]
  <2>1. /\ flush'[m].todo = flush[m].todo \ {k} /\ flush'[m].found = flush[m].found /\ flush'[m].writes = flush[m].writes \cup {<<m, k>>}
        /\ flush'[m].removes = flush[m].removes /\ flush'[m].value = flush[m].value
        /\ flush'[m].upserts = flush[m].upserts /\ flush'[m].deletes = flush[m].deletes
        /\ flush'[m].meant = flush[m].meant /\ \A o \in Memories \ {m} : flush'[o] = flush[o]
    <3>1. MovesOn(m, flush[m].todo \ {k}, flush[m].found, flush[m].writes \cup {<<m, k>>}, flush[m].removes)
      BY <1>2, <1>6, MovesStayOnTheirWay, Zenon
    <3> QED BY <3>1 DEF MovesOn
  <2>2. ASSUME NEW x \in Keys, Reached(m, x, flush[m], Matching(m, x)) PROVE Reached(m, x, flush'[m], Matching(m, x))
    <3>1. CASE x = k
      <4>1. OfKey(flush[m].writes, k) = {}
        BY <1>1, <2>2, <3>1 DEF Reached
      <4>2. OfKey(flush'[m].writes, k) = {<<m, k>>}
        BY <2>1, <4>1 DEF OfKey
      <4>3. Matching(m, k) \subseteq {<<m, k>>}
        BY <1>4, <1>6
      <4>4. ~IsRowOf(flush'[m].found, k)
        BY <1>1, <1>5, <2>1
      <4> QED BY <1>2, <1>3, <2>1, <2>2, <3>1, <4>2, <4>3, <4>4 DEF Reached
    <3>2. CASE x # k
      <4>1. OfKey(flush'[m].writes, x) = OfKey(flush[m].writes, x)
        BY <2>1, <3>2 DEF OfKey
      <4> QED BY <2>1, <2>2, <3>2, <4>1 DEF Reached
    <3> QED BY <3>1, <3>2
  <2> QED BY <1>1, <2>1, <2>2, TableFlush DEF InFlush
<1>7. ASSUME NEW r \in RowToWrite(m, k),
             flush' = [flush EXCEPT ![m] = Moved(flush[m], flush[m].todo \ {k}, r, flush[m].writes, flush[m].removes)]
      PROVE  TableInv'
  <2>0. r \in RowIds /\ r[2] = k /\ r \in Matching(m, k) /\ r \in RowIds \cup {None, Gone}
    BY <1>4, RowsMatch
  <2>1. /\ flush'[m].todo = flush[m].todo \ {k} /\ flush'[m].found = r /\ flush'[m].writes = flush[m].writes
        /\ flush'[m].removes = flush[m].removes /\ flush'[m].value = flush[m].value
        /\ flush'[m].upserts = flush[m].upserts /\ flush'[m].deletes = flush[m].deletes
        /\ flush'[m].meant = flush[m].meant /\ \A o \in Memories \ {m} : flush'[o] = flush[o]
    <3>1. MovesOn(m, flush[m].todo \ {k}, r, flush[m].writes, flush[m].removes)
      BY <1>2, <1>7, <2>0, MovesStayOnTheirWay, Zenon
    <3> QED BY <3>1 DEF MovesOn
  <2>2. ASSUME NEW x \in Keys, OwnKey(m, x) \notin crossed, Reached(m, x, flush[m], Matching(m, x))
        PROVE  Reached(m, x, flush'[m], Matching(m, x))
    <3>1. CASE x = k
      <4>1. OfKey(flush[m].writes, k) = {}
        BY <1>1, <2>2, <3>1 DEF Reached
      <4>2. TellsLast(OwnKey(m, k))
        BY <2>2, <3>1, RowsMatch DEF TableInv
      <4>3. Matching(m, k) = {r}
        BY <2>0, <4>2, RowsMatch DEF TellsLast
      <4>4. IsRowOf(flush'[m].found, k)
        BY <2>0, <2>1 DEF IsRowOf
      <4> QED BY <1>3, <2>1, <2>2, <3>1, <4>1, <4>3, <4>4 DEF Reached
    <3>2. CASE x # k
      <4>1. ~IsRowOf(flush'[m].found, x) /\ ~IsRowOf(flush[m].found, x)
        BY <1>1, <1>5, <2>0, <2>1, <3>2 DEF IsRowOf
      <4> QED BY <2>1, <2>2, <3>2, <4>1 DEF Reached
    <3> QED BY <3>1, <3>2
  <2> QED BY <1>1, <2>1, <2>2, TableFlush DEF InFlush
<1> QED BY <1>1, <1>6, <1>7

LEMMA TableUpdateRow ==
  ASSUME MemoryInv, TableInv, NEW m \in Memories, UpdateRow(m), ~GiveUp(m)
  PROVE  TableInv'
<1>1. /\ InFlush /\ flush[m] \in FlushRecord /\ Sent(m, flush[m])
      /\ flush[m].found \in RowIds
      /\ flush' = [flush EXCEPT ![m] = Moved(flush[m], flush[m].todo, None,
                                             flush[m].writes \cup {flush[m].found}, flush[m].removes)]
  BY UpdateRowMoves
<1>2. /\ flush[m].todo \in SUBSET Keys /\ None \in RowIds \cup {None, Gone}
      /\ flush[m].writes \cup {flush[m].found} \in SUBSET RowIds /\ flush[m].removes \in SUBSET RowIds
  BY <1>1 DEF FlushRecord
<1>3. \A x : ~IsRowOf(None, x)
  BY NoRowNames DEF IsRowOf
<1>4. /\ flush'[m].todo = flush[m].todo /\ flush'[m].found = None /\ flush'[m].writes = flush[m].writes \cup {flush[m].found}
      /\ flush'[m].removes = flush[m].removes /\ flush'[m].value = flush[m].value
      /\ flush'[m].upserts = flush[m].upserts /\ flush'[m].deletes = flush[m].deletes
      /\ flush'[m].meant = flush[m].meant /\ \A o \in Memories \ {m} : flush'[o] = flush[o]
  <2>1. MovesOn(m, flush[m].todo, None, flush[m].writes \cup {flush[m].found}, flush[m].removes)
    BY <1>1, <1>2, MovesStayOnTheirWay, Zenon
  <2> QED BY <2>1 DEF MovesOn
<1>5. ASSUME NEW x \in Keys, Reached(m, x, flush[m], Matching(m, x)) PROVE Reached(m, x, flush'[m], Matching(m, x))
  <2>1. CASE x = flush[m].found[2]
    <3>1. IsRowOf(flush[m].found, x)
      BY <1>1, <2>1 DEF IsRowOf
    <3>2. x \notin flush[m].todo
      BY <1>5, <3>1 DEF Reached
    <3>3. x \in flush[m].upserts /\ x \notin flush[m].deletes
      BY <1>1, <2>1 DEF Sent
    <3>4. Matching(m, x) = {flush[m].found} /\ OfKey(flush[m].writes, x) = {}
      BY <1>5, <3>1, <3>2, <3>3 DEF Reached
    <3>5. OfKey(flush'[m].writes, x) = {flush[m].found}
      BY <1>4, <2>1, <3>4 DEF OfKey
    <3>6. flush[m].value[x] = m
      BY <1>5, <3>3 DEF Reached
    <3> QED BY <1>1, <1>3, <1>4, <3>2, <3>3, <3>4, <3>5, <3>6 DEF Reached
  <2>2. CASE x # flush[m].found[2]
    <3>1. OfKey(flush'[m].writes, x) = OfKey(flush[m].writes, x)
      BY <1>4, <2>2 DEF OfKey
    <3>2. ~IsRowOf(flush'[m].found, x) /\ ~IsRowOf(flush[m].found, x)
      BY <1>3, <1>4, <2>2 DEF IsRowOf
    <3> QED BY <1>4, <1>5, <3>1, <3>2 DEF Reached
  <2> QED BY <2>1, <2>2
<1> QED BY <1>1, <1>4, <1>5, TableFlush DEF InFlush

LEMMA TableStartFlush ==
  ASSUME MemoryInv, TableInv, NEW m \in Memories, StartFlush(m)
  PROVE  TableInv'
<1>1. PICK f : Began(m, f) /\ flush' = [flush EXCEPT ![m] = f]
  BY StartFlushBegins
<1>2. flush'[m] = f /\ \A o \in Memories \ {m} : flush'[o] = flush[o]
  BY <1>1, FlushesStand DEF Began, MemoryInv
<1>3. UNCHANGED <<table, last>> /\ crossed \subseteq crossed'
  BY DEF StartFlush
<1>4. RowsStand
  BY <1>3 DEF RowsStand
<1>5. \A o \in Memories \ {m}, k \in Keys :
        k \in dirty[m] \cup deleted[m] /\ AgentOf[o] = AgentOf[m] /\ flush[o].meant[k] # "nothing"
          => OwnKey(m, k) \in crossed'
  BY DEF StartFlush, OwnKey
<1>6. ASSUME NEW o \in Memories, NEW k \in Keys, OwnKey(o, k) \notin crossed', NEW q \in Memories,
             AgentOf[q] = AgentOf[o], flush'[q].meant[k] # "nothing", flush'[o].meant[k] # "nothing"
      PROVE  q = o
  <2>1. AloneWith(o, k)
    BY <1>3, <1>6 DEF TableInv
  <2>2. CASE o # m /\ q # m
    BY <1>2, <1>6, <2>1, <2>2 DEF AloneWith
  <2>3. CASE o = m /\ q # m
    <3>1. k \in dirty[m] \cup deleted[m] /\ flush[q].meant[k] # "nothing"
      BY <1>1, <1>2, <1>6, <2>3 DEF Began
    <3> QED BY <1>5, <1>6, <2>3, <3>1
  <2>4. CASE o # m /\ q = m
    <3>1. k \in dirty[m] \cup deleted[m] /\ flush[o].meant[k] # "nothing"
      BY <1>1, <1>2, <1>6, <2>4 DEF Began
    <3>2. OwnKey(m, k) = OwnKey(o, k)
      BY <1>6, <2>4 DEF OwnKey
    <3> QED BY <1>5, <1>6, <2>4, <3>1, <3>2
  <2> QED BY <2>2, <2>3, <2>4
<1>7. ASSUME NEW k \in Keys, OwnKey(m, k) \notin crossed' PROVE Reached(m, k, f, Matching(m, k)')
  <2>1. k \in dirty[m] => cache[m][k] = m
    BY <1>3, <1>7 DEF MemoryInv, Marked
  <2>2. ~IsRowOf(f.found, k) /\ OfKey(f.writes, k) = {}
    BY <1>1, NoRowNames DEF Began, IsRowOf, OfKey
  <2> QED BY <1>1, <2>1, <2>2 DEF Began, Reached
<1>8. ASSUME NEW o \in Memories, NEW k \in Keys, OwnKey(o, k) \notin crossed'
      PROVE  AloneWith(o, k)' /\ Reached(o, k, flush'[o], Matching(o, k)')
  <2>1. AloneWith(o, k)'
    BY <1>6, <1>8 DEF AloneWith
  <2>2. CASE o = m
    BY <1>2, <1>7, <1>8, <2>1, <2>2
  <2>3. CASE o # m
    <3>1. Reached(o, k, flush[o], Matching(o, k)) /\ Matching(o, k)' = Matching(o, k)
      BY <1>3, <1>4, <1>8, TellsLastStays DEF TableInv
    <3> QED BY <1>2, <2>1, <2>3, <3>1
  <2> QED BY <2>2, <2>3
<1>9. \A p \in Owned \ crossed' : TellsLast(p)'
  BY <1>3, <1>4, TellsLastStays DEF TableInv
<1> QED BY <1>8, <1>9 DEF TableInv, OwnKey

-----------------------------------------------------------------------------
(* The commit.                                                              *)

\* What p's rows are after the commit of m, when m had nothing to do with p.
LEMMA CommitElsewhere ==
  ASSUME MemoryInv, NEW m \in Memories, Commit(m), NEW p \in Owned,
         p[1] # AgentOf[m] \/ flush[m].meant[p[2]] = "nothing"
  PROVE  RowsOf(p)' = RowsOf(p) /\ last'[p] = last[p] /\ \A r \in RowsOf(p) : table'[r] = table[r]
<1>1. MemoryTypes /\ flush[m] \in FlushRecord /\ Sent(m, flush[m])
  BY DEF MemoryInv, MemoryTypes
<1>2. last'[p] = last[p]
  BY DEF Commit
<1>3. ASSUME NEW r \in Memories \X {p[2]}, AgentOf[r[1]] = p[1] PROVE table'[r] = table[r] /\ r \in RowIds
  <2>1. r \in RowIds /\ r[2] = p[2]
    BY DEF Owned, RowIds
  <2>2. r \notin flush[m].writes /\ r \notin flush[m].removes
    BY <1>1, <1>3, <2>1 DEF Sent
  <2> QED BY <2>1, <2>2, CommitTable
<1>4. RowsOf(p)' = {r \in Memories \X {p[2]} : table'[r] # None /\ AgentOf[r[1]] = p[1]}
  BY DEF RowsOf
<1> QED BY <1>2, <1>3, <1>4 DEF RowsOf

LEMMA CommitTells ==
  ASSUME MemoryInv, TableInv, NEW m \in Memories, Commit(m), NEW p \in Owned, p \notin crossed'
  PROVE  TellsLast(p)'
<1>1. MemoryTypes /\ flush[m] \in FlushRecord /\ Sent(m, flush[m]) /\ crossed' = crossed
  BY DEF MemoryInv, MemoryTypes, Commit
<1>2. TellsLast(p) /\ p[2] \in Keys /\ p = <<p[1], p[2]>>
  BY <1>1 DEF TableInv, Owned
<1> DEFINE k == p[2] f == flush[m]
<1>3. CASE p[1] # AgentOf[m] \/ flush[m].meant[k] = "nothing"
  <2>1. RowsOf(p)' = RowsOf(p) /\ last'[p] = last[p] /\ \A r \in RowsOf(p) : table'[r] = table[r]
    BY <1>3, CommitElsewhere
  <2>2. CASE last[p] \in Memories
    <3>1. PICK r \in RowIds : RowsOf(p) = {r} /\ table[r].by = last[p]
      BY <1>2, <2>2 DEF TellsLast
    <3>2. table'[r] = table[r]
      BY <2>1, <3>1
    <3> QED BY <2>1, <2>2, <3>1, <3>2 DEF TellsLast
  <2>3. CASE last[p] \notin Memories
    BY <1>2, <2>1, <2>3 DEF TellsLast
  <2> QED BY <2>2, <2>3
<1>4. CASE p[1] = AgentOf[m] /\ flush[m].meant[k] # "nothing"
  <2>0. p = OwnKey(m, k) /\ f.todo = {} /\ f.found = None
    BY <1>2, <1>4 DEF OwnKey, Commit
  <2>1. Reached(m, k, f, Matching(m, k))
    BY <1>1, <1>2, <2>0 DEF TableInv
  <2>2. RowsOf(p)' = {r \in Memories \X {k} : table'[r] # None /\ AgentOf[r[1]] = AgentOf[m]}
    BY <1>4 DEF RowsOf
  <2>3. \A r \in Memories \X {k} : r \in RowIds /\ r[2] = k
    BY <1>2 DEF RowIds
  <2>4. \A r \in Memories \X {k} : AgentOf[r[1]] = AgentOf[m] /\ r \notin Matching(m, k) => table[r] = None
    BY DEF Matching
  <2>5. CASE flush[m].meant[k] = "set"
    <3>1. k \in f.upserts /\ k \notin f.deletes
      BY <1>1, <1>2, <2>5 DEF Sent
    <3>2. last'[p] = m
      BY <1>4, <2>5 DEF Commit
    <3>3. ~IsRowOf(f.found, k)
      BY <2>0, NoRowNames DEF IsRowOf
    <3>4. PICK r \in RowIds : OfKey(f.writes, k) = {r} /\ Matching(m, k) \subseteq {r}
      BY <2>0, <2>1, <3>1, <3>3 DEF Reached
    <3>5. r \in f.writes /\ r[2] = k /\ AgentOf[r[1]] = AgentOf[m]
      BY <1>1, <3>4 DEF OfKey, Sent
    <3>6. table'[r] # None /\ table'[r].by = m
      BY <2>1, <3>1, <3>5, CommitTable DEF Reached
    <3>7. r \in Memories \X {k}
      BY <3>4, <3>5 DEF RowIds
    <3>8. ASSUME NEW x \in Memories \X {k}, AgentOf[x[1]] = AgentOf[m], x # r PROVE table'[x] = None
      <4>1. x \notin f.writes
        BY <2>3, <3>4, <3>8 DEF OfKey
      <4>2. table[x] = None
        BY <2>4, <3>4, <3>8
      <4> QED BY <2>3, <4>1, <4>2, CommitTable
    <3>9. RowsOf(p)' = {r}
      BY <2>2, <3>5, <3>6, <3>7, <3>8
    <3> QED BY <3>2, <3>4, <3>6, <3>9 DEF TellsLast
  <2>6. CASE flush[m].meant[k] = "deleted"
    <3>1. k \in f.deletes /\ k \notin f.upserts
      BY <1>1, <1>2, <2>6 DEF Sent
    <3>2. last'[p] = None
      BY <1>4, <2>6 DEF Commit
    <3>3. Matching(m, k) \subseteq f.removes
      BY <2>0, <2>1, <3>1 DEF Reached
    <3>4. ASSUME NEW x \in Memories \X {k}, AgentOf[x[1]] = AgentOf[m] PROVE table'[x] = None
      <4>1. x \notin f.writes
        BY <1>1, <2>3, <3>1 DEF Sent
      <4> QED BY <2>3, <2>4, <3>3, <3>4, <4>1, CommitTable
    <3>5. RowsOf(p)' = {}
      BY <2>2, <3>4
    <3> QED BY <3>2, <3>5, NoRowNames DEF TellsLast
  <2> QED BY <1>1, <1>2, <1>4, <2>5, <2>6 DEF FlushRecord, Words
<1> QED BY <1>3, <1>4

LEMMA TableCommit ==
  ASSUME MemoryInv, TableInv, NEW m \in Memories, Commit(m)
  PROVE  TableInv'
<1>1. MemoryTypes /\ flush[m] \in FlushRecord /\ Sent(m, flush[m]) /\ crossed' = crossed
  BY DEF MemoryInv, MemoryTypes, Commit
<1>2. \A o \in Memories : \/ flush'[o] = NoFlush /\ o = m
                          \/ o # m /\ flush'[o] = flush[o]
                          \/ /\ o # m /\ flush[o].found \in flush[m].removes
                             /\ flush'[o] = Moved(flush[o], flush[o].todo, Gone, flush[o].writes, flush[o].removes)
  BY CommitFlushes
<1>3. ASSUME NEW o \in Memories
      PROVE  LET g == Moved(flush[o], flush[o].todo, Gone, flush[o].writes, flush[o].removes)
             IN /\ g.meant = flush[o].meant /\ g.upserts = flush[o].upserts /\ g.deletes = flush[o].deletes
                /\ g.todo = flush[o].todo /\ g.writes = flush[o].writes /\ g.removes = flush[o].removes
                /\ g.value = flush[o].value /\ g.found = Gone
  BY <1>1 DEF Moved, MemoryTypes, FlushRecord
<1>4. \A o \in Memories, k \in Keys : flush'[o].meant[k] # "nothing" => flush[o].meant[k] # "nothing" /\ o # m
  BY <1>2, <1>3, NoFlushRecord
<1>5. ASSUME NEW o \in Memories, NEW k \in Keys, OwnKey(o, k) \notin crossed'
      PROVE  AloneWith(o, k)' /\ Reached(o, k, flush'[o], Matching(o, k)')
  <2>1. AloneWith(o, k) /\ Reached(o, k, flush[o], Matching(o, k))
    BY <1>1, <1>5 DEF TableInv
  <2>2. AloneWith(o, k)'
    BY <1>4, <2>1 DEF AloneWith
  <2>3. CASE o = m
    BY <1>2, <2>2, <2>3, ReachedNothing
  <2>4. CASE o # m /\ flush[o].meant[k] = "nothing"
    <3>1. Sent(o, flush[o])
      BY DEF MemoryInv
    <3>2. k \notin flush[o].upserts /\ k \notin flush[o].deletes /\ k \notin flush[o].todo
      BY <2>4, <3>1 DEF Sent
    <3>3. k \notin flush'[o].upserts /\ k \notin flush'[o].deletes /\ k \notin flush'[o].todo
      BY <1>2, <1>3, <2>4, <3>2
    <3> QED BY <2>2, <3>3 DEF Reached
  <2>5. CASE o # m /\ flush[o].meant[k] # "nothing"
    <3>1. AgentOf[o] # AgentOf[m] \/ flush[m].meant[k] = "nothing"
      BY <2>1, <2>5 DEF AloneWith
    <3>2. Matching(o, k)' = Matching(o, k)
      <4>1. RowsOf(OwnKey(o, k))' = RowsOf(OwnKey(o, k))
        <5>1. OwnKey(o, k) \in Owned /\ OwnKey(o, k)[1] = AgentOf[o] /\ OwnKey(o, k)[2] = k
          BY RowsMatch DEF OwnKey
        <5> QED BY <3>1, <5>1, CommitElsewhere DEF OwnKey
      <4>2. Matching(o, k)' = {r \in Memories \X {k} : table'[r] # None /\ AgentOf[r[1]] = AgentOf[o]}
        BY DEF Matching
      <4>3. RowsOf(OwnKey(o, k))' = {r \in Memories \X {k} : table'[r] # None /\ AgentOf[r[1]] = AgentOf[o]}
        BY DEF RowsOf, OwnKey
      <4> QED BY <4>1, <4>2, <4>3, RowsMatch
    <3>3. CASE flush'[o] = flush[o]
      BY <2>1, <2>2, <3>2, <3>3
    <3>4. CASE flush[o].found \in flush[m].removes
               /\ flush'[o] = Moved(flush[o], flush[o].todo, Gone, flush[o].writes, flush[o].removes)
      <4>1. flush[o].found \in RowIds /\ AgentOf[flush[o].found[1]] = AgentOf[m]
            /\ flush[m].meant[flush[o].found[2]] = "deleted"
        BY <1>1, <3>4 DEF Sent, FlushRecord
      <4>2. AgentOf[flush[o].found[1]] = AgentOf[o]
        BY <4>1 DEF MemoryInv, Sent
      <4>3. ~IsRowOf(flush[o].found, k)
        BY <3>1, <4>1, <4>2 DEF IsRowOf
      <4>4. ~IsRowOf(Gone, k)
        BY NoRowNames DEF IsRowOf
      <4>5. Reached(o, k, flush'[o], Matching(o, k))
        BY <1>3, <2>1, <3>4, <4>3, <4>4 DEF Reached
      <4> QED BY <2>2, <3>2, <4>5
    <3> QED BY <1>2, <2>5, <3>3, <3>4
  <2> QED BY <2>3, <2>4, <2>5
<1>6. \A p \in Owned \ crossed' : TellsLast(p)'
  BY CommitTells
<1> QED BY <1>5, <1>6 DEF TableInv, OwnKey

LEMMA TableStep == MemoryInv /\ TableInv /\ [MemoryNext]_mvars => TableInv'
<1> SUFFICES ASSUME MemoryInv, TableInv, [MemoryNext]_mvars PROVE TableInv'
  OBVIOUS
<1>1. ASSUME UNCHANGED <<flush, table, last>>, crossed \subseteq crossed' PROVE TableInv'
  BY <1>1, TableStands DEF RowsStand
<1>2. ASSUME NEW m \in Memories, NEW k \in Keys, Set(m, k) \/ Delete(m, k) PROVE TableInv'
  BY <1>1, <1>2 DEF Set, Delete, Change
<1>3. ASSUME NEW m \in Memories, NEW k \in Keys, DeleteRows(m, k) PROVE TableInv'
  BY <1>3, TableDeleteRows
<1>4. ASSUME NEW m \in Memories, NEW k \in Keys, SelectRow(m, k) PROVE TableInv'
  BY <1>4, TableSelectRow, TableGiveUp
<1>5. ASSUME NEW m \in Memories, Load(m) PROVE TableInv'
  BY <1>1, <1>5 DEF Load
<1>6. ASSUME NEW m \in Memories, StartFlush(m) PROVE TableInv'
  BY <1>6, TableStartFlush
<1>7. ASSUME NEW m \in Memories, UpdateRow(m) PROVE TableInv'
  BY <1>7, TableUpdateRow, TableGiveUp
<1>8. ASSUME NEW m \in Memories, Commit(m) PROVE TableInv'
  BY <1>8, TableCommit
<1>9. ASSUME NEW m \in Memories, Abort(m) PROVE TableInv'
  BY <1>9, TableGiveUp DEF Abort
<1>10. ASSUME NEW r \in RowIds, Expire(r) PROVE TableInv'
  BY <1>10, ExpireKeeps, TableStands DEF RowsStand
<1>11. ASSUME UNCHANGED mvars PROVE TableInv'
  BY <1>1, <1>11 DEF mvars
<1> QED BY <1>2, <1>3, <1>4, <1>5, <1>6, <1>7, <1>8, <1>9, <1>10, <1>11 DEF MemoryNext

LEMMA TableStarts == MemoryInit => TableInv /\ NothingForgotten
<1> SUFFICES ASSUME MemoryInit PROVE TableInv /\ NothingForgotten
  OBVIOUS
<1>1. \A m \in Memories : flush[m] = NoFlush
  BY DEF MemoryInit
<1>2. \A p \in Owned : RowsOf(p) = {} /\ last[p] \notin Memories
  BY MemoryAssumption DEF MemoryInit, RowsOf, RowIds, Owned
<1>3. \A m \in Memories, k \in Keys : AloneWith(m, k) /\ Reached(m, k, flush[m], Matching(m, k))
  BY <1>1, NoFlushRecord, ReachedNothing DEF AloneWith
<1>4. NothingForgotten
  BY DEF MemoryInit, NothingForgotten
<1> QED BY <1>2, <1>3, <1>4 DEF TableInv, TellsLast

LEMMA TableTells == TableInv => TableTellsLastChange
<1> SUFFICES ASSUME TableInv, NEW p \in Owned \ crossed
             PROVE  IF last[p] \in Memories
                    THEN Cardinality(RowsOf(p)) = 1 /\ \A r \in RowsOf(p) : table[r].by = last[p]
                    ELSE RowsOf(p) = {}
  BY DEF TableTellsLastChange, RowsOf
<1>1. TellsLast(p)
  BY DEF TableInv
<1>2. CASE last[p] \in Memories
  <2>1. PICK r \in RowIds : RowsOf(p) = {r} /\ table[r].by = last[p]
    BY <1>1, <1>2 DEF TellsLast
  <2>2. Cardinality(RowsOf(p)) = 1
    BY <2>1, FS_Singleton
  <2> QED BY <1>2, <2>1, <2>2
<1>3. CASE last[p] \notin Memories
  BY <1>1, <1>3 DEF TellsLast
<1> QED BY <1>2, <1>3

\* For any number of memories, agents and keys, flushes of them interleaved at
\* every query, commits, rollbacks, loads and expiries: the table says what the
\* last committed change of an agent's key was, unless two open transactions or
\* a load crossed it, and no change is forgotten but by a flush that did not
\* commit (flush_memory_to_db, load_memory_from_db).
THEOREM ChangesAlwaysReachTable == MemorySpec => []ChangesReachTable
<1>1. MemoryInit => MemoryInv /\ TableInv /\ NothingForgotten
  BY MemoryStarts, TableStarts
<1>2. MemoryInv /\ TableInv /\ NothingForgotten /\ [MemoryNext]_mvars => (MemoryInv /\ TableInv /\ NothingForgotten)'
  BY MemoryStep, TableStep, ForgottenStep
<1>3. TableInv /\ NothingForgotten => ChangesReachTable
  BY TableTells DEF ChangesReachTable
<1> QED BY <1>1, <1>2, <1>3, PTL DEF MemorySpec

-----------------------------------------------------------------------------
(* Checkpoints (checkpoint.py).  The table has no gap, as long as one      *)
(* process at a time runs the task and none resumes from a checkpoint that  *)
(* was rolled back.                                                         *)

CheckpointSpec == CheckpointInit /\ [][CheckpointNext]_cvars

-----------------------------------------------------------------------------
Running(p) == step[p] # NotRunning

\* What the open transaction of the running process adds continues the table,
\* and the process stands at its end.
Continues(p) ==
  /\ saved[p] \in Seq(Nat)
  /\ \A i \in 1..Len(saved[p]) : saved[p][i] = Len(records) + i
  /\ step[p] = Len(records) + Len(saved[p])

InSequence ==
  ~overlapped /\ ~ahead =>
    /\ records \in Seq(Nat) /\ \A i \in 1..Len(records) : records[i] = i
    /\ \A p, q \in Processes : Running(p) /\ Running(q) => p = q
    /\ \A p \in Processes : IF Running(p) THEN Continues(p) ELSE saved[p] = <<>>

CheckpointInv == DOMAIN step = Processes /\ DOMAIN saved = Processes /\ InSequence

LEMMA CheckpointInitially == CheckpointInit => CheckpointInv
BY DEF CheckpointInit, CheckpointInv, InSequence, Running

\* The latest step of a table without gaps is as many as it has rows.
LEMMA LatestIsLast ==
  ASSUME records \in Seq(Nat), \A i \in 1..Len(records) : records[i] = i
  PROVE  LoadFromDb = Len(records)
<1>1. Len(records) \in Nat /\ DOMAIN records = 1..Len(records)
  OBVIOUS
<1>2. Steps = 1..Len(records)
  BY <1>1 DEF Steps, ToSet
<1>3. CASE Len(records) = 0
  BY <1>2, <1>3 DEF LoadFromDb
<1>4. CASE Len(records) > 0
  <2>1. Steps # {} /\ Len(records) \in Steps /\ \A x \in Steps : x <= Len(records)
    BY <1>1, <1>2, <1>4
  <2>2. \A s \in Steps : (\A x \in Steps : x <= s) => s = Len(records)
    <3>1. SUFFICES ASSUME NEW s \in Steps, \A x \in Steps : x <= s  PROVE s = Len(records)
      OBVIOUS
    <3>2. s \in Nat /\ s <= Len(records) /\ Len(records) <= s
      BY <1>1, <1>2, <2>1, <3>1
    <3>3. \A m, n \in Nat : m <= n /\ n <= m => m = n
      OBVIOUS
    <3> QED  BY <1>1, <3>2, <3>3, Zenon
  <2>3. LoadFromDb \in Steps /\ \A x \in Steps : x <= LoadFromDb
    BY <2>1 DEF LoadFromDb
  <2> QED  BY <2>2, <2>3
<1> QED
  BY <1>1, <1>3, <1>4

\* A process that is not running is the only one to have been, or to become.
LEMMA ResumeStep ==
  ASSUME CheckpointInv, NEW p \in Processes, Resume(p)  PROVE CheckpointInv'
<1>1. /\ ~Running(p) /\ saved[p] = <<>> /\ UNCHANGED <<saved, records, ahead>>
      /\ step' = [step EXCEPT ![p] = LoadFromDb]
  BY DEF Resume, Running
<1>2. ~overlapped' => ~overlapped /\ \A q \in Processes \ {p} : ~Running(q)
  BY DEF Resume, Running
<1>3. step'[p] = LoadFromDb /\ \A q \in Processes : q # p => step'[q] = step[q]
  BY <1>1 DEF CheckpointInv
<1>4. ASSUME ~overlapped', ~ahead'
      PROVE  /\ records' \in Seq(Nat) /\ \A i \in 1..Len(records') : records'[i] = i
             /\ \A q, r \in Processes : Running(q)' /\ Running(r)' => q = r
             /\ \A q \in Processes : IF Running(q)' THEN Continues(q)' ELSE saved'[q] = <<>>
  <2>1. /\ records \in Seq(Nat) /\ \A i \in 1..Len(records) : records[i] = i
        /\ \A q \in Processes : q # p => ~Running(q) /\ saved[q] = <<>>
    BY <1>1, <1>2, <1>4 DEF CheckpointInv, InSequence
  <2>2. LoadFromDb = Len(records) /\ Len(records) \in Nat
    BY <2>1, LatestIsLast
  <2>3. Running(p)' /\ Continues(p)'
    <3>1. <<>> \in Seq(Nat) /\ Len(<<>>) = 0
      OBVIOUS
    <3>2. saved'[p] = <<>> /\ records' = records /\ step'[p] = Len(records) + 0
      BY <1>1, <1>3, <2>2
    <3>3. Running(p)'
      BY <2>2, <3>2 DEF Running, NotRunning
    <3>4. Continues(p)'
      BY <3>1, <3>2 DEF Continues
    <3> QED  BY <3>3, <3>4
  <2>4. \A q \in Processes : q # p => ~Running(q)' /\ saved'[q] = <<>>
    BY <1>1, <1>3, <2>1 DEF Running
  <2> QED  BY <1>1, <2>1, <2>3, <2>4
<1> QED
  BY <1>1, <1>4 DEF CheckpointInv, InSequence

\* Steps of the running process: the others have nothing open.
LEMMA Alone ==
  ASSUME CheckpointInv, ~overlapped, ~ahead, NEW p \in Processes,
         saved[p] # <<>> \/ Running(p)
  PROVE  /\ records \in Seq(Nat) /\ \A i \in 1..Len(records) : records[i] = i
         /\ Running(p) /\ Continues(p)
         /\ \A q \in Processes : q # p => ~Running(q) /\ saved[q] = <<>>
BY DEF CheckpointInv, InSequence

\* What is to be shown of a step of one process.
LEMMA AloneAfter ==
  ASSUME NEW p \in Processes, ~overlapped', ~ahead',
         records' \in Seq(Nat), \A i \in 1..Len(records') : records'[i] = i,
         \A q \in Processes : q # p => ~Running(q)' /\ saved'[q] = <<>>,
         (Running(p)' /\ Continues(p)') \/ (~Running(p)' /\ saved'[p] = <<>>)
  PROVE  InSequence'
BY DEF InSequence

LEMMA SaveStep ==
  ASSUME CheckpointInv, NEW p \in Processes, SaveToDb(p)  PROVE CheckpointInv'
<1>1. /\ step[p] \in 0..MaxStep - 1 /\ UNCHANGED <<records, overlapped, ahead>>
      /\ step' = [step EXCEPT ![p] = @ + 1] /\ saved' = [saved EXCEPT ![p] = Append(@, step'[p])]
  BY DEF SaveToDb
<1>2. /\ step'[p] = step[p] + 1 /\ saved'[p] = Append(saved[p], step[p] + 1)
      /\ \A q \in Processes : q # p => step'[q] = step[q] /\ saved'[q] = saved[q]
      /\ DOMAIN step' = Processes /\ DOMAIN saved' = Processes
  BY <1>1 DEF CheckpointInv
<1>3. ASSUME ~overlapped, ~ahead  PROVE InSequence'
  <2>1. Running(p)
    BY <1>1, CheckpointAssumption DEF Running, NotRunning
  <2>2. /\ records \in Seq(Nat) /\ \A i \in 1..Len(records) : records[i] = i
        /\ Continues(p) /\ \A q \in Processes : q # p => ~Running(q) /\ saved[q] = <<>>
    BY <1>3, <2>1, Alone
  <2>3. step[p] \in Nat /\ saved[p] \in Seq(Nat) /\ Len(records) \in Nat /\ Len(saved[p]) \in Nat
    BY <2>2, <1>1 DEF Continues
  <2>4. /\ saved'[p] \in Seq(Nat) /\ Len(saved'[p]) = Len(saved[p]) + 1
        /\ saved'[p][Len(saved[p]) + 1] = step[p] + 1
        /\ \A i \in 1..Len(saved[p]) : saved'[p][i] = saved[p][i]
    BY <1>2, <2>3
  <2>5. Running(p)' /\ Continues(p)'
    <3>1. Running(p)'
      BY <1>2, <2>3 DEF Running, NotRunning
    <3>2. step'[p] = Len(records) + Len(saved'[p])
      BY <1>2, <2>2, <2>3, <2>4 DEF Continues
    <3>3. ASSUME NEW i \in 1..Len(saved'[p])  PROVE saved'[p][i] = Len(records) + i
      <4>1. CASE i \in 1..Len(saved[p])
        BY <2>2, <2>4, <4>1 DEF Continues
      <4>2. CASE i = Len(saved[p]) + 1
        <5>1. saved'[p][i] = step[p] + 1
          BY <2>4, <4>2
        <5>2. step[p] = Len(records) + Len(saved[p])
          BY <2>2 DEF Continues
        <5> QED  BY <2>3, <4>2, <5>1, <5>2
      <4> QED  BY <2>3, <2>4, <4>1, <4>2
    <3> QED  BY <1>1, <2>4, <3>1, <3>2, <3>3 DEF Continues
  <2>6. \A q \in Processes : q # p => ~Running(q)' /\ saved'[q] = <<>>
    BY <1>2, <2>2 DEF Running
  <2> QED  BY <1>1, <1>3, <2>2, <2>5, <2>6, AloneAfter
<1> QED
  BY <1>1, <1>2, <1>3 DEF CheckpointInv, InSequence

\* The commit appends what continues the table.
LEMMA CommitSavedStep ==
  ASSUME CheckpointInv, NEW p \in Processes, CommitSaved(p)  PROVE CheckpointInv'
<1>1. /\ saved[p] # <<>> /\ saved' = [saved EXCEPT ![p] = <<>>]
      /\ records' = records \o saved[p] /\ UNCHANGED <<step, overlapped, ahead>>
  BY DEF CommitSaved
<1>2. /\ saved'[p] = <<>> /\ \A q \in Processes : q # p => saved'[q] = saved[q]
      /\ DOMAIN saved' = Processes
  BY <1>1 DEF CheckpointInv
<1>3. ASSUME ~overlapped, ~ahead  PROVE InSequence'
  <2>1. /\ records \in Seq(Nat) /\ \A i \in 1..Len(records) : records[i] = i
        /\ Running(p) /\ Continues(p)
        /\ \A q \in Processes : q # p => ~Running(q) /\ saved[q] = <<>>
    BY <1>1, <1>3, Alone
  <2>2. saved[p] \in Seq(Nat) /\ Len(records) \in Nat /\ Len(saved[p]) \in Nat
    BY <2>1 DEF Continues
  <2>3. records' \in Seq(Nat) /\ Len(records') = Len(records) + Len(saved[p])
    BY <1>1, <2>1, <2>2
  <2>4. ASSUME NEW i \in 1..Len(records')  PROVE records'[i] = i
    <3>1. CASE i <= Len(records)
      BY <1>1, <2>1, <2>2, <2>3, <3>1
    <3>2. CASE i > Len(records)
      <4>1. i - Len(records) \in 1..Len(saved[p])
        BY <2>2, <2>3, <3>2
      <4>2. records'[i] = saved[p][i - Len(records)]
        BY <1>1, <2>1, <2>2, <2>3, <3>2
      <4>3. saved[p][i - Len(records)] = Len(records) + (i - Len(records))
        BY <2>1, <4>1 DEF Continues
      <4> QED  BY <2>2, <4>1, <4>2, <4>3
    <3> QED  BY <2>2, <2>3, <3>1, <3>2
  <2>5. Running(p)' /\ Continues(p)'
    <3>1. <<>> \in Seq(Nat) /\ Len(<<>>) = 0
      OBVIOUS
    <3>2. step'[p] = Len(records') + 0
      BY <1>1, <2>1, <2>2, <2>3 DEF Continues
    <3> QED  BY <1>1, <1>2, <2>1, <3>1, <3>2 DEF Running, Continues
  <2>6. \A q \in Processes : q # p => ~Running(q)' /\ saved'[q] = <<>>
    BY <1>1, <1>2, <2>1 DEF Running
  <2> QED  BY <1>1, <1>3, <2>3, <2>4, <2>5, <2>6, AloneAfter
<1> QED
  BY <1>1, <1>2, <1>3 DEF CheckpointInv, InSequence

\* A rollback, a crash and the end of the task leave nothing open.
LEMMA NothingOpenStep ==
  ASSUME CheckpointInv, NEW p \in Processes, RollBack(p) \/ Crash(p) \/ DeleteAll(p)
  PROVE  CheckpointInv'
<1>1. /\ saved' = [saved EXCEPT ![p] = <<>>] \/ (saved' = saved /\ saved[p] = <<>>)
      /\ UNCHANGED <<records, overlapped>> /\ (~ahead' => ~ahead)
      /\ saved[p] # <<>> \/ Running(p)
      /\ ~ahead' => step' = [step EXCEPT ![p] = LoadFromDb] \/ step' = [step EXCEPT ![p] = NotRunning]
  BY CheckpointAssumption DEF RollBack, Crash, DeleteAll, Running, NotRunning
<1>2. DOMAIN step' = Processes /\ DOMAIN saved' = Processes
  BY DEF CheckpointInv, RollBack, Crash, DeleteAll
<1>3. saved'[p] = <<>> /\ \A q \in Processes : q # p => saved'[q] = saved[q]
  BY <1>1 DEF CheckpointInv
<1>4. ASSUME ~overlapped, ~ahead'  PROVE InSequence'
  <2>1. /\ records \in Seq(Nat) /\ \A i \in 1..Len(records) : records[i] = i
        /\ \A q \in Processes : q # p => ~Running(q) /\ saved[q] = <<>>
    BY <1>1, <1>4, Alone
  <2>2. LoadFromDb = Len(records) /\ Len(records) \in Nat
    BY <2>1, LatestIsLast
  <2>3. /\ step'[p] = LoadFromDb \/ step'[p] = NotRunning
        /\ \A q \in Processes : q # p => step'[q] = step[q]
    BY <1>1, <1>4 DEF CheckpointInv
  <2>4. (Running(p)' /\ Continues(p)') \/ (~Running(p)' /\ saved'[p] = <<>>)
    <3>1. <<>> \in Seq(Nat) /\ Len(<<>>) = 0
      OBVIOUS
    <3> QED  BY <1>1, <1>3, <2>2, <2>3, <3>1 DEF Running, Continues, NotRunning
  <2>5. \A q \in Processes : q # p => ~Running(q)' /\ saved'[q] = <<>>
    BY <1>3, <2>1, <2>3 DEF Running
  <2> QED  BY <1>1, <1>4, <2>1, <2>4, <2>5, AloneAfter
<1> QED
  BY <1>1, <1>2, <1>4 DEF CheckpointInv, InSequence

LEMMA CheckpointStep == CheckpointInv /\ [CheckpointNext]_cvars => CheckpointInv'
<1>1. ASSUME CheckpointInv, UNCHANGED <<saved, records, step, overlapped, ahead>>
      PROVE  CheckpointInv'
  BY <1>1 DEF CheckpointInv, InSequence, Running, Continues
<1> QED
  BY <1>1, ResumeStep, SaveStep, CommitSavedStep, NothingOpenStep DEF CheckpointNext, Prune, cvars

\* In every reachable state the running process continues the table.
THEOREM CheckpointInvariance == CheckpointSpec => []CheckpointInv
  BY CheckpointInitially, CheckpointStep, PTL DEF CheckpointSpec

\* For any number of processes, steps, crashes, rollbacks and prunings, the
\* table of a task that one process at a time runs from it has no gap
\* (save_to_db, load_from_db).
THEOREM TableAlwaysWithoutGaps == CheckpointSpec => []TableWithoutGaps
<1>1. CheckpointInv => TableWithoutGaps
  BY DEF CheckpointInv, InSequence, TableWithoutGaps
<1> QED
  BY <1>1, CheckpointInvariance, PTL

-----------------------------------------------------------------------------
(* Usage records and what Stripe is told (metering.py, billing.py).  A push *)
(* holds the records it has read until it ends; the one record of a tenant  *)
(* is reported while it is held, and billed or its tenant suspect after.    *)

UsageSpec == UsageInit /\ [][UsageNext]_uvars

JobRecord ==
  [pc : {"idle", "next", "tasks", "store", "push"}, todo : SUBSET (Tenants \cup RecordIds),
   tenant : Tenants \cup {Nothing}, found : RecordIds \cup {Nothing}, count : Nat,
   writes : [RecordIds -> Nat \cup {Nothing}], read : [RecordIds -> Nat], took : SUBSET RecordIds]

UsageTypes ==
  /\ tasks \in [Tenants -> Nat] /\ reported \in [Tenants -> Nat]
  /\ record \in [RecordIds -> {Nothing} \cup [count : Nat, billed : BOOLEAN]]
  /\ job \in [Jobs -> JobRecord] /\ crossing \subseteq Jobs

\* What a job counts, writes and reports its tenants ran.
Counted(j) ==
  /\ Stands(j, "idle") => job[j] = NoJob
  /\ job[j].pc \in {"next", "tasks", "store"} => job[j].todo \subseteq Tenants /\ job[j].took = {}
  /\ job[j].pc \in {"tasks", "store"} =>
       job[j].tenant \in Tenants /\ job[j].found \in (Jobs \X {job[j].tenant}) \cup {Nothing}
  /\ Stands(j, "store") => job[j].count <= tasks[job[j].tenant]
  /\ \A r \in RecordIds : job[j].writes[r] # Nothing => job[j].writes[r] <= tasks[r[2]]
  /\ Stands(j, "push") =>
       /\ job[j].todo \subseteq RecordIds /\ job[j].todo \cap job[j].took = {}
       /\ \A r \in job[j].todo \cup job[j].took : record[r] # Nothing /\ job[j].read[r] <= tasks[r[2]]

CountsAreTasks ==
  /\ \A r \in RecordIds : record[r] # Nothing => record[r].count <= tasks[r[2]]
  /\ \A j \in Jobs : Counted(j)

\* Two jobs under way cross; one that crosses no other has counted no less than
\* the records of its tenants hold.
Ahead(j) ==
  /\ \A r \in RecordIds : job[j].writes[r] # Nothing /\ record[r] # Nothing => record[r].count <= job[j].writes[r]
  /\ Stands(j, "store") => \A r \in RecordsOf(job[j].tenant) : record[r].count <= job[j].count
Crossings ==
  /\ \A j, o \in Jobs : j # o /\ Open(j) /\ Open(o) => j \in crossing
  /\ \A j \in Jobs : Open(j) /\ j \notin crossing => Ahead(j)

\* A record is held by the push that has read it.
Holds(j, r) == Stands(j, "push") /\ r \in job[j].todo \cup job[j].took
Sole(t) == t \notin suspect /\ Cardinality(RecordsOf(t)) <= 1
Billing(t) ==
  /\ \A r \in RecordsOf(t), j, o \in Jobs : Holds(j, r) /\ Holds(o, r) => j = o
  /\ \A r \in RecordsOf(t), j \in Jobs : Holds(j, r) => ~record[r].billed
  /\ (\A r \in RecordsOf(t) : ~record[r].billed /\ \A j \in Jobs : r \notin job[j].took) => reported[t] = 0
  /\ reported[t] <= tasks[t]
BilledOnce == \A t \in Tenants : Sole(t) => Billing(t)

UsageInv == UsageTypes /\ CountsAreTasks

OtherJobsStay(j) == \A o \in Jobs \ {j} : job'[o] = job[o]

LEMMA NoJobRecord == NoJob \in JobRecord
BY DEF NoJob, JobRecord

\* Nothing stands beside numbers, rows and their names.
LEMMA NothingElse ==
  /\ Nothing \notin Nat /\ Nothing \notin Tenants /\ Nothing \notin RecordIds
  /\ Nothing \notin [count : Nat, billed : BOOLEAN]
BY MeteringAssumption DEF RecordIds

LEMMA JobClosed ==
  ASSUME UsageTypes, NEW j \in Jobs, Close(j)
  PROVE  /\ job' \in [Jobs -> JobRecord] /\ job'[j] = NoJob /\ OtherJobsStay(j)
         /\ crossing' = crossing \ {j} /\ crossing' \subseteq Jobs
BY NoJobRecord DEF UsageTypes, Close, OtherJobsStay

\* Tasks and records are added to, never taken away.
UsageGrows ==
  /\ tasks' \in [Tenants -> Nat] /\ \A t \in Tenants : tasks[t] <= tasks'[t]
  /\ record' \in [RecordIds -> {Nothing} \cup [count : Nat, billed : BOOLEAN]]
  /\ \A r \in RecordIds : record[r] # Nothing => record'[r] # Nothing

LEMMA UsageStands == ASSUME UsageTypes, UNCHANGED <<tasks, record>> PROVE UsageGrows
BY DEF UsageTypes, UsageGrows

LEMMA OwnTenant == ASSUME NEW r \in RecordIds PROVE r[1] \in Jobs /\ r[2] \in Tenants /\ r = <<r[1], r[2]>>
BY DEF RecordIds

\* A job that stands still stays right.
LEMMA CountedStays ==
  ASSUME UsageTypes, UsageGrows, NEW o \in Jobs, Counted(o), job'[o] = job[o]
  PROVE  Counted(o)'
<1>1. job[o] \in JobRecord
  BY DEF UsageTypes
<1>2. \A r \in RecordIds : tasks[r[2]] <= tasks'[r[2]] /\ tasks[r[2]] \in Nat /\ tasks'[r[2]] \in Nat
  BY OwnTenant DEF UsageGrows, UsageTypes
<1>3. \A r \in RecordIds : job[o].writes[r] \in Nat \cup {Nothing} /\ job[o].read[r] \in Nat
  BY <1>1 DEF JobRecord
<1>4. \A r \in RecordIds : job[o].writes[r] # Nothing => job[o].writes[r] <= tasks'[r[2]]
  BY <1>2, <1>3 DEF Counted
<1>5. Stands(o, "store") => job[o].count <= tasks'[job[o].tenant]
  <2> SUFFICES ASSUME Stands(o, "store") PROVE job[o].count <= tasks'[job[o].tenant]
    OBVIOUS
  <2>1. job[o].tenant \in Tenants /\ job[o].count <= tasks[job[o].tenant] /\ job[o].count \in Nat
    BY <1>1 DEF Counted, Stands, JobRecord
  <2> QED BY <2>1 DEF UsageGrows, UsageTypes
<1>6. Stands(o, "push") => \A r \in job[o].todo \cup job[o].took : record'[r] # Nothing /\ job[o].read[r] <= tasks'[r[2]]
  <2> SUFFICES ASSUME Stands(o, "push"), NEW r \in job[o].todo \cup job[o].took
               PROVE  record'[r] # Nothing /\ job[o].read[r] <= tasks'[r[2]]
    OBVIOUS
  <2>1. r \in RecordIds
    BY <1>1 DEF Counted, JobRecord
  <2> QED BY <1>2, <1>3, <2>1 DEF Counted, UsageGrows
<1> QED BY <1>4, <1>5, <1>6 DEF Counted, Stands

LEMMA UsageInvStays ==
  ASSUME UsageInv, UsageGrows, NEW j \in Jobs, OtherJobsStay(j), job' \in [Jobs -> JobRecord],
         reported' \in [Tenants -> Nat], crossing' \subseteq Jobs, Counted(j)',
         \A r \in RecordIds : record'[r] # Nothing => record'[r].count <= tasks'[r[2]]
  PROVE  UsageInv'
<1>1. \A o \in Jobs : Counted(o)'
  BY CountedStays DEF UsageInv, CountsAreTasks, OtherJobsStay
<1> QED BY <1>1 DEF UsageInv, UsageTypes, CountsAreTasks, UsageGrows

LEMMA IdleCounted ==
  ASSUME NEW j \in Jobs, job'[j] = NoJob
  PROVE  Counted(j)'
BY DEF Counted, Stands, NoJob

LEMMA CloseKeeps ==
  ASSUME UsageInv, UNCHANGED <<tasks, record>>, reported' \in [Tenants -> Nat], NEW j \in Jobs, Close(j)
  PROVE  UsageInv'
<1>1. UsageTypes
  BY DEF UsageInv
<1>2. \A r \in RecordIds : record'[r] # Nothing => record'[r].count <= tasks'[r[2]]
  BY DEF UsageInv, CountsAreTasks
<1> QED BY <1>1, <1>2, JobClosed, UsageStands, IdleCounted, UsageInvStays

\* A job takes its next step among its tables as they are.
LEMMA GoesOnKeeps ==
  ASSUME UsageInv, UNCHANGED <<tasks, record, reported>>, crossing' \subseteq Jobs,
         NEW j \in Jobs, NEW new \in JobRecord, job' = [job EXCEPT ![j] = new], Counted(j)'
  PROVE  UsageInv'
<1>1. job' \in [Jobs -> JobRecord] /\ OtherJobsStay(j)
  BY DEF UsageInv, UsageTypes, OtherJobsStay
<1>2. \A r \in RecordIds : record'[r] # Nothing => record'[r].count <= tasks'[r[2]]
  BY DEF UsageInv, CountsAreTasks
<1>3. reported' \in [Tenants -> Nat] /\ UsageGrows
  BY UsageStands DEF UsageInv, UsageTypes
<1> QED BY <1>1, <1>2, <1>3, UsageInvStays

LEMMA CompleteTaskKeeps ==
  ASSUME UsageInv, NEW t \in Tenants, CompleteTask(t)
  PROVE  UsageInv'
<1>1. tasks' = [tasks EXCEPT ![t] = tasks[t] + 1] /\ UNCHANGED <<record, job, reported, crossing>>
  BY DEF CompleteTask
<1>2. UsageGrows
  BY <1>1 DEF UsageInv, UsageTypes, UsageGrows
<1>3. \A r \in RecordIds : record'[r] # Nothing => record'[r].count <= tasks'[r[2]]
  <2> SUFFICES ASSUME NEW r \in RecordIds, record[r] # Nothing PROVE record[r].count <= tasks'[r[2]]
    BY <1>1
  <2>1. record[r] \in [count : Nat, billed : BOOLEAN] /\ record[r].count <= tasks[r[2]]
    BY DEF UsageInv, UsageTypes, CountsAreTasks
  <2> QED BY <1>2, <2>1, OwnTenant DEF UsageInv, UsageTypes, UsageGrows
<1>4. \A o \in Jobs : Counted(o)'
  BY <1>1, <1>2, CountedStays DEF UsageInv, CountsAreTasks
<1> QED BY <1>1, <1>2, <1>3, <1>4 DEF UsageInv, UsageTypes, CountsAreTasks, UsageGrows

LEMMA StartAggregationKeeps ==
  ASSUME UsageInv, NEW j \in Jobs, StartAggregation(j)
  PROVE  UsageInv'
<1> DEFINE new == [NoJob EXCEPT !.pc = "next", !.todo = Tenants]
<1>1. job' = [job EXCEPT ![j] = new] /\ UNCHANGED <<tasks, record, reported>> /\ crossing' \subseteq Jobs
  BY DEF StartAggregation, Begin, UsageInv, UsageTypes
<1>2. new \in JobRecord /\ new.pc = "next" /\ new.todo = Tenants /\ new.took = {} /\ new.writes = [r \in RecordIds |-> Nothing]
  BY DEF NoJob, JobRecord
<1> HIDE DEF new
<1>3. job'[j] = new
  BY <1>1 DEF UsageInv, UsageTypes
<1>4. Counted(j)'
  BY <1>2, <1>3 DEF Counted, Stands
<1> QED BY <1>1, <1>2, <1>4, GoesOnKeeps

\* What a step of j makes of its record.
LEMMA JobBecomes ==
  ASSUME UsageTypes, NEW j \in Jobs, NEW new, job' = [job EXCEPT ![j] = new]
  PROVE  job'[j] = new /\ OtherJobsStay(j) /\ job[j] \in JobRecord
BY DEF UsageTypes, OtherJobsStay

LEMMA SelectRecordKeeps ==
  ASSUME UsageInv, NEW j \in Jobs, SelectRecord(j)
  PROVE  UsageInv'
<1>1. PICK t \in job[j].todo :
       \/ /\ Cardinality(Existing(t)) <= 1
          /\ job' = [job EXCEPT ![j].pc = "tasks", ![j].tenant = t,
               ![j].todo = @ \ {t},
               ![j].found = IF Existing(t) = {} THEN Nothing
                            ELSE CHOOSE r \in Existing(t) : TRUE,
               ![j].read = [r \in RecordIds |->
                              IF r \in Existing(t) THEN record[r].count ELSE @[r]]]
          /\ InJob
       \/ Cardinality(Existing(t)) > 1 /\ AbandonJob(j)
  BY DEF SelectRecord
<1>2. UsageTypes /\ Counted(j) /\ job[j] \in JobRecord /\ Stands(j, "next") /\ reported \in [Tenants -> Nat]
  BY DEF UsageInv, CountsAreTasks, UsageTypes, SelectRecord
<1>3. t \in Tenants
  BY <1>1, <1>2 DEF Counted, Stands
<1>4. CASE AbandonJob(j)
  BY <1>2, <1>4, CloseKeeps DEF AbandonJob
<1>5. CASE ~AbandonJob(j)
  <2> DEFINE f == IF Existing(t) = {} THEN Nothing ELSE CHOOSE r \in Existing(t) : TRUE
             rd == [r \in RecordIds |-> IF r \in Existing(t) THEN record[r].count ELSE job[j].read[r]]
             new == [job[j] EXCEPT !.pc = "tasks", !.tenant = t, !.todo = job[j].todo \ {t}, !.found = f, !.read = rd]
  <2>1. job' = [job EXCEPT ![j] = new] /\ InJob
    BY <1>1, <1>2, <1>5 DEF UsageTypes
  <2>2. Existing(t) \subseteq Jobs \X {t} /\ Existing(t) \subseteq RecordIds
    BY <1>3 DEF Existing, RecordsOf, RecordIds
  <2>3. f \in (Jobs \X {t}) \cup {Nothing} /\ f \in RecordIds \cup {Nothing}
    BY <2>2
  <2>4. rd \in [RecordIds -> Nat]
    <3>1. \A r \in Existing(t) : record[r] # Nothing
      BY DEF Existing, RecordsOf
    <3>2. \A r \in Existing(t) : record[r].count \in Nat
      BY <1>2, <2>2, <3>1 DEF UsageTypes
    <3> QED BY <1>2, <3>2 DEF JobRecord
  <2> HIDE DEF f, rd
  <2>5. new \in JobRecord
    BY <1>2, <1>3, <2>3, <2>4 DEF JobRecord
  <2>6. /\ new.pc = "tasks" /\ new.tenant = t /\ new.todo \subseteq Tenants /\ new.found = f
        /\ new.took = job[j].took /\ new.writes = job[j].writes
    BY <1>2 DEF JobRecord, Counted, Stands
  <2> HIDE DEF new
  <2>7. job'[j] = new
    BY <1>2, <2>1, JobBecomes
  <2>8. Counted(j)'
    BY <1>2, <1>3, <2>1, <2>3, <2>6, <2>7 DEF Counted, Stands, InJob
  <2> QED BY <1>2, <2>1, <2>5, <2>8, GoesOnKeeps DEF InJob, UsageTypes
<1> QED BY <1>4, <1>5

LEMMA CountTasksKeeps ==
  ASSUME UsageInv, NEW j \in Jobs, CountTasks(j)
  PROVE  UsageInv'
<1> DEFINE new == [job[j] EXCEPT !.pc = "store", !.count = tasks[job[j].tenant]]
<1>1. UsageTypes /\ Counted(j) /\ job[j] \in JobRecord /\ Stands(j, "tasks")
  BY DEF UsageInv, CountsAreTasks, UsageTypes, CountTasks
<1>2. job' = [job EXCEPT ![j] = new] /\ InJob
  BY <1>1 DEF CountTasks, UsageTypes
<1>3. job[j].tenant \in Tenants /\ tasks[job[j].tenant] \in Nat
  BY <1>1 DEF Counted, Stands, UsageTypes
<1>4. new \in JobRecord
  BY <1>1, <1>3 DEF JobRecord
<1>5. /\ new.pc = "store" /\ new.tenant = job[j].tenant /\ new.todo = job[j].todo /\ new.found = job[j].found
      /\ new.took = job[j].took /\ new.writes = job[j].writes /\ new.count = tasks[job[j].tenant]
  BY <1>1 DEF JobRecord
<1> HIDE DEF new
<1>6. job'[j] = new
  BY <1>1, <1>2, JobBecomes
<1>7. Counted(j)'
  BY <1>1, <1>2, <1>3, <1>5, <1>6 DEF Counted, Stands, InJob
<1> QED BY <1>1, <1>2, <1>4, <1>7, GoesOnKeeps DEF InJob, UsageTypes

\* The row that StoreRecord writes, and that it writes.
Row(j) == IF job[j].found = Nothing THEN <<j, job[j].tenant>> ELSE job[j].found
Writes(j) == job[j].found = Nothing \/ job[j].count # job[j].read[Row(j)]
StoredWrites(j) == [x \in RecordIds |-> IF x = Row(j) /\ Writes(j) THEN job[j].count ELSE job[j].writes[x]]
Stored(j) == [job[j] EXCEPT !.pc = "next", !.tenant = Nothing, !.found = Nothing, !.count = 0,
                            !.writes = StoredWrites(j)]

LEMMA StoredRecord ==
  ASSUME UsageInv, NEW j \in Jobs, StoreRecord(j)
  PROVE  /\ UsageTypes /\ Counted(j) /\ job[j] \in JobRecord /\ Stands(j, "store") /\ InJob
         /\ job' = [job EXCEPT ![j] = Stored(j)] /\ Stored(j) \in JobRecord
         /\ Row(j) \in RecordIds /\ Row(j)[2] = job[j].tenant /\ job[j].tenant \in Tenants
         /\ Stored(j).pc = "next" /\ Stored(j).todo = job[j].todo /\ Stored(j).took = job[j].took
         /\ \A r \in RecordIds : Stored(j).writes[r] = IF r = Row(j) /\ Writes(j) THEN job[j].count ELSE job[j].writes[r]
<1>1. UsageTypes /\ Counted(j) /\ job[j] \in JobRecord /\ Stands(j, "store") /\ InJob
  BY DEF UsageInv, CountsAreTasks, UsageTypes, StoreRecord
<1>2. job[j].tenant \in Tenants /\ job[j].found \in (Jobs \X {job[j].tenant}) \cup {Nothing}
  BY <1>1 DEF Counted, Stands
<1>3. Row(j) \in RecordIds /\ Row(j)[2] = job[j].tenant
  BY <1>2 DEF Row, RecordIds
<1>4. job' = [job EXCEPT ![j] = Stored(j)]
  <2>1. job' = [job EXCEPT ![j].pc = "next", ![j].tenant = Nothing, ![j].found = Nothing,
                              ![j].count = 0, ![j].writes = StoredWrites(j)]
    BY <1>1 DEF StoreRecord, Row, Writes, StoredWrites, UsageTypes, JobRecord
  <2> QED BY <1>1, <2>1 DEF Stored, UsageTypes
<1>5. job[j].writes \in [RecordIds -> Nat \cup {Nothing}] /\ job[j].count \in Nat
  BY <1>1 DEF JobRecord
<1>6. StoredWrites(j) \in [RecordIds -> Nat \cup {Nothing}]
      /\ \A r \in RecordIds : StoredWrites(j)[r] = IF r = Row(j) /\ Writes(j) THEN job[j].count ELSE job[j].writes[r]
  BY <1>5 DEF StoredWrites
<1>8. /\ Stored(j) \in JobRecord /\ Stored(j).pc = "next" /\ Stored(j).todo = job[j].todo
      /\ Stored(j).took = job[j].took /\ Stored(j).writes = StoredWrites(j)
  BY <1>1, <1>6 DEF JobRecord, Stored
<1> QED BY <1>1, <1>2, <1>3, <1>4, <1>6, <1>8

LEMMA StoreRecordKeeps ==
  ASSUME UsageInv, NEW j \in Jobs, StoreRecord(j)
  PROVE  UsageInv'
<1>1. /\ UsageTypes /\ Counted(j) /\ job[j] \in JobRecord /\ Stands(j, "store") /\ InJob
      /\ job' = [job EXCEPT ![j] = Stored(j)] /\ Stored(j) \in JobRecord
      /\ Row(j) \in RecordIds /\ Row(j)[2] = job[j].tenant
      /\ Stored(j).pc = "next" /\ Stored(j).todo = job[j].todo /\ Stored(j).took = job[j].took
      /\ \A r \in RecordIds : Stored(j).writes[r] = IF r = Row(j) /\ Writes(j) THEN job[j].count ELSE job[j].writes[r]
  BY StoredRecord, Zenon
<1>2. job'[j] = Stored(j)
  BY <1>1, JobBecomes
<1>3. \A r \in RecordIds : job'[j].writes[r] # Nothing => job'[j].writes[r] <= tasks'[r[2]]
  BY <1>1, <1>2 DEF Counted, InJob, Stands
<1>4. Counted(j)'
  BY <1>1, <1>2, <1>3 DEF Counted, Stands, InJob
<1> QED BY <1>1, <1>4, GoesOnKeeps DEF InJob, UsageTypes

LEMMA CommitAggregationKeeps ==
  ASSUME UsageInv, NEW j \in Jobs, CommitAggregation(j)
  PROVE  /\ UsageInv' /\ UsageGrows
         /\ \A r \in RecordIds : record'[r] # Nothing => \/ record'[r] = record[r]
              \/ /\ job[j].writes[r] # Nothing /\ record'[r].count = job[j].writes[r]
                 /\ record'[r].billed = (record[r] # Nothing /\ record[r].billed)
<1>1. UsageTypes /\ Counted(j) /\ job[j] \in JobRecord /\ Stands(j, "next")
  BY DEF UsageInv, CountsAreTasks, UsageTypes, CommitAggregation
<1>2. Close(j) /\ UNCHANGED <<tasks, reported>>
  BY DEF CommitAggregation
<1>3. \A r \in RecordIds : record'[r] = IF job[j].writes[r] = Nothing THEN record[r]
          ELSE [count |-> job[j].writes[r], billed |-> record[r] # Nothing /\ record[r].billed]
  BY DEF CommitAggregation
<1>4. ASSUME NEW r \in RecordIds, job[j].writes[r] # Nothing
      PROVE  /\ record'[r] \in [count : Nat, billed : BOOLEAN] /\ record'[r].count = job[j].writes[r]
             /\ record'[r].billed = (record[r] # Nothing /\ record[r].billed)
             /\ record'[r].count <= tasks[r[2]]
  <2>1. job[j].writes[r] \in Nat /\ job[j].writes[r] <= tasks[r[2]]
    BY <1>1, <1>4 DEF JobRecord, Counted
  <2> DEFINE b == record[r] # Nothing /\ record[r].billed
  <2>2. record'[r] = [count |-> job[j].writes[r], billed |-> b]
    BY <1>3, <1>4, Zenon
  <2>3. b \in BOOLEAN
    OBVIOUS
  <2> HIDE DEF b
  <2>4. record'[r] \in [count : Nat, billed : BOOLEAN] /\ record'[r].count = job[j].writes[r]
    BY <2>1, <2>2, <2>3
  <2>5. record'[r].billed = b
    BY <2>2
  <2> USE DEF b
  <2> QED BY <2>1, <2>4, <2>5, Zenon
<1>5. record' \in [RecordIds -> {Nothing} \cup [count : Nat, billed : BOOLEAN]]
  <2>1. \A r \in RecordIds : record'[r] \in {Nothing} \cup [count : Nat, billed : BOOLEAN]
    BY <1>1, <1>3, <1>4 DEF UsageTypes
  <2>2. record' = [r \in RecordIds |-> record'[r]]
    BY DEF CommitAggregation
  <2> QED BY <2>1, <2>2
<1>6. \A r \in RecordIds : record[r] # Nothing => record'[r] # Nothing
  BY <1>3, <1>4, NothingElse
<1>7. UsageGrows
  BY <1>1, <1>2, <1>5, <1>6 DEF UsageGrows, UsageTypes
<1>8. \A r \in RecordIds : record'[r] # Nothing => record'[r].count <= tasks'[r[2]]
  BY <1>2, <1>3, <1>4 DEF UsageInv, CountsAreTasks
<1>9. UsageInv'
  BY <1>1, <1>2, <1>7, <1>8, JobClosed, IdleCounted, UsageInvStays DEF UsageTypes
<1> QED BY <1>3, <1>4, <1>7, <1>9

\* A record as a push reads it.
Mine == {r \in Unbilled : r[2] \in Metered}
Pushing == [NoJob EXCEPT !.pc = "push", !.todo = Mine,
              !.read = [r \in RecordIds |-> IF r \in Mine THEN record[r].count ELSE 0]]

LEMMA PushStarts ==
  ASSUME UsageInv, NEW j \in Jobs, StartPush(j)
  PROVE  /\ UsageTypes /\ Pushing \in JobRecord /\ Pushing.pc = "push" /\ Pushing.todo = Mine /\ Pushing.took = {}
         /\ \A r \in RecordIds : Pushing.writes[r] = Nothing
         /\ \A r \in Mine : Pushing.read[r] = record[r].count
         /\ Mine \subseteq RecordIds /\ \A r \in Mine : record[r] # Nothing /\ ~record[r].billed
         /\ job' = [job EXCEPT ![j] = Pushing] /\ UNCHANGED <<tasks, record, reported>>
         /\ suspect' = suspect \cup TenantsOf({r \in Mine : \E o \in Jobs : r \in job[o].todo \cup job[o].took})
<1>1. UsageTypes
  BY DEF UsageInv
<1>2. Mine \subseteq RecordIds /\ \A r \in Mine : record[r] # Nothing /\ ~record[r].billed
  BY DEF Mine, Unbilled
<1>3. \A r \in Mine : record[r].count \in Nat
  BY <1>1, <1>2 DEF UsageTypes
<1> DEFINE rd == [r \in RecordIds |-> IF r \in Mine THEN record[r].count ELSE 0]
<1>4. rd \in [RecordIds -> Nat] /\ \A r \in Mine : rd[r] = record[r].count
  BY <1>2, <1>3
<1> HIDE DEF rd
<1>5. Pushing = [NoJob EXCEPT !.pc = "push", !.todo = Mine, !.read = rd]
  BY DEF Pushing, rd
<1>6. /\ Pushing \in JobRecord /\ Pushing.pc = "push" /\ Pushing.todo = Mine /\ Pushing.took = {}
      /\ Pushing.writes = [r \in RecordIds |-> Nothing] /\ Pushing.read = rd
  BY <1>2, <1>4, <1>5 DEF NoJob, JobRecord
<1>7. /\ job' = [job EXCEPT ![j] = Pushing] /\ UNCHANGED <<tasks, record, reported>>
      /\ suspect' = suspect \cup TenantsOf({r \in Mine : \E o \in Jobs : r \in job[o].todo \cup job[o].took})
  BY DEF StartPush, Begin, Mine, Pushing
<1> QED BY <1>1, <1>2, <1>4, <1>6, <1>7

LEMMA StartPushKeeps ==
  ASSUME UsageInv, NEW j \in Jobs, StartPush(j)
  PROVE  UsageInv'
<1>1. /\ UsageTypes /\ Pushing \in JobRecord /\ Pushing.pc = "push" /\ Pushing.todo = Mine /\ Pushing.took = {}
      /\ \A r \in RecordIds : Pushing.writes[r] = Nothing
      /\ \A r \in Mine : Pushing.read[r] = record[r].count
      /\ Mine \subseteq RecordIds /\ \A r \in Mine : record[r] # Nothing /\ ~record[r].billed
      /\ job' = [job EXCEPT ![j] = Pushing] /\ UNCHANGED <<tasks, record, reported>>
  BY PushStarts, Zenon
<1>2. crossing' \subseteq Jobs
  BY <1>1 DEF StartPush, Begin, UsageTypes
<1>3. job'[j] = Pushing
  BY <1>1, JobBecomes
<1>4. \A r \in Mine : record[r].count <= tasks[r[2]]
  BY <1>1 DEF UsageInv, CountsAreTasks
<1>5. Counted(j)'
  BY <1>1, <1>3, <1>4 DEF Counted, Stands
<1> QED BY <1>1, <1>2, <1>5, GoesOnKeeps

\* What ReportUsage tells Stripe, and where it leaves the job.
Told(j, r) == [job[j] EXCEPT !.todo = job[j].todo \ {r}, !.took = job[j].took \cup {r}]

LEMMA UsageReported ==
  ASSUME UsageInv, NEW j \in Jobs, ReportUsage(j)
  PROVE  \E r \in RecordIds :
           /\ r \in job[j].todo /\ r \notin job[j].took /\ Stands(j, "push") /\ record[r] # Nothing
           /\ job[j].read[r] \in Nat /\ job[j].read[r] <= tasks[r[2]]
           /\ reported' = [reported EXCEPT ![r[2]] = reported[r[2]] + job[j].read[r]]
           /\ UNCHANGED <<tasks, record>>
           /\ \/ /\ job' = [job EXCEPT ![j] = Told(j, r)] /\ UNCHANGED <<suspect, crossing>>
                 /\ Told(j, r) \in JobRecord /\ Told(j, r).pc = "push" /\ Told(j, r).writes = job[j].writes
                 /\ Told(j, r).todo = job[j].todo \ {r} /\ Told(j, r).took = job[j].took \cup {r}
                 /\ Told(j, r).read = job[j].read
              \/ Close(j) /\ suspect' = suspect \cup TenantsOf(job[j].took \cup {r})
<1>1. UsageTypes /\ Counted(j) /\ job[j] \in JobRecord /\ Stands(j, "push") /\ UNCHANGED <<tasks, record>>
  BY DEF UsageInv, CountsAreTasks, UsageTypes, ReportUsage
<1>2. PICK r \in job[j].todo :
       /\ reported' = [reported EXCEPT ![r[2]] = @ + job[j].read[r]]
       /\ \/ /\ job' = [job EXCEPT ![j].todo = @ \ {r}, ![j].took = @ \cup {r}]
             /\ UNCHANGED <<suspect, crossing>>
          \/ /\ Close(j)
             /\ suspect' = suspect \cup TenantsOf(job[j].took \cup {r})
  BY DEF ReportUsage
<1>3. r \in RecordIds /\ r \notin job[j].took /\ record[r] # Nothing /\ job[j].read[r] <= tasks[r[2]]
  BY <1>1 DEF Counted
<1>4. job[j].read[r] \in Nat
  BY <1>1, <1>3 DEF JobRecord
<1>5. reported' = [reported EXCEPT ![r[2]] = reported[r[2]] + job[j].read[r]]
  BY <1>2
<1>6. /\ Told(j, r) \in JobRecord /\ Told(j, r).pc = "push" /\ Told(j, r).writes = job[j].writes
      /\ Told(j, r).todo = job[j].todo \ {r} /\ Told(j, r).took = job[j].took \cup {r}
      /\ Told(j, r).read = job[j].read
  BY <1>1, <1>3 DEF Told, JobRecord, Stands
<1>7. job' = [job EXCEPT ![j].todo = @ \ {r}, ![j].took = @ \cup {r}] => job' = [job EXCEPT ![j] = Told(j, r)]
  BY <1>1 DEF Told, UsageTypes
<1> QED BY <1>1, <1>2, <1>3, <1>4, <1>5, <1>6, <1>7

LEMMA ReportUsageKeeps ==
  ASSUME UsageInv, NEW j \in Jobs, ReportUsage(j)
  PROVE  UsageInv'
<1>1. PICK r \in RecordIds :
           /\ r \in job[j].todo /\ r \notin job[j].took /\ Stands(j, "push") /\ record[r] # Nothing
           /\ job[j].read[r] \in Nat /\ job[j].read[r] <= tasks[r[2]]
           /\ reported' = [reported EXCEPT ![r[2]] = reported[r[2]] + job[j].read[r]]
           /\ UNCHANGED <<tasks, record>>
           /\ \/ /\ job' = [job EXCEPT ![j] = Told(j, r)] /\ UNCHANGED <<suspect, crossing>>
                 /\ Told(j, r) \in JobRecord /\ Told(j, r).pc = "push" /\ Told(j, r).writes = job[j].writes
                 /\ Told(j, r).todo = job[j].todo \ {r} /\ Told(j, r).took = job[j].took \cup {r}
                 /\ Told(j, r).read = job[j].read
              \/ Close(j) /\ suspect' = suspect \cup TenantsOf(job[j].took \cup {r})
  BY UsageReported, Zenon
<1>2. UsageTypes /\ Counted(j) /\ r[2] \in Tenants
  BY OwnTenant DEF UsageInv, CountsAreTasks
<1>3. reported' \in [Tenants -> Nat]
  <2>1. reported \in [Tenants -> Nat]
    BY <1>2 DEF UsageTypes
  <2>2. reported[r[2]] + job[j].read[r] \in Nat
    BY <1>1, <1>2, <2>1
  <2> QED BY <1>1, <2>1, <2>2
<1>4. CASE Close(j)
  BY <1>1, <1>3, <1>4, CloseKeeps
<1>5. CASE ~Close(j)
  <2>1. /\ job' = [job EXCEPT ![j] = Told(j, r)] /\ UNCHANGED crossing
        /\ Told(j, r) \in JobRecord /\ Told(j, r).pc = "push" /\ Told(j, r).writes = job[j].writes
        /\ Told(j, r).todo = job[j].todo \ {r} /\ Told(j, r).took = job[j].took \cup {r}
        /\ Told(j, r).read = job[j].read
    BY <1>1, <1>5
  <2>2. job'[j] = Told(j, r) /\ OtherJobsStay(j) /\ job' \in [Jobs -> JobRecord]
    BY <1>2, <2>1, JobBecomes DEF UsageTypes
  <2>3. Counted(j)'
    BY <1>1, <1>2, <2>1, <2>2 DEF Counted, Stands
  <2>4. \A x \in RecordIds : record'[x] # Nothing => record'[x].count <= tasks'[x[2]]
    BY <1>1 DEF UsageInv, CountsAreTasks
  <2>5. UsageGrows /\ crossing' \subseteq Jobs
    BY <1>1, <1>2, <2>1, UsageStands DEF UsageTypes
  <2> QED BY <1>3, <2>2, <2>3, <2>4, <2>5, UsageInvStays
<1> QED BY <1>4, <1>5

LEMMA CommitPushKeeps ==
  ASSUME UsageInv, NEW j \in Jobs, CommitPush(j)
  PROVE  /\ UsageInv' /\ UsageGrows /\ job[j].took \subseteq RecordIds
         /\ \A r \in RecordIds : (record'[r] # Nothing <=> record[r] # Nothing) /\ (r \notin job[j].took => record'[r] = record[r])
         /\ \A r \in job[j].took : record[r] # Nothing /\ record'[r].billed /\ record'[r].count = record[r].count
<1>1. UsageTypes /\ Counted(j) /\ job[j] \in JobRecord /\ Stands(j, "push") /\ reported \in [Tenants -> Nat]
  BY DEF UsageInv, CountsAreTasks, UsageTypes, CommitPush
<1>2. Close(j) /\ UNCHANGED <<tasks, reported>>
  BY DEF CommitPush
<1>3. \A r \in RecordIds : record'[r] = IF r \in job[j].took THEN [record[r] EXCEPT !.billed = TRUE] ELSE record[r]
  BY DEF CommitPush
<1>4. job[j].took \subseteq RecordIds
  BY <1>1 DEF JobRecord
<1>5. ASSUME NEW r \in job[j].took
      PROVE  /\ record[r] # Nothing /\ record'[r] \in [count : Nat, billed : BOOLEAN]
             /\ record'[r].billed /\ record'[r].count = record[r].count
  <2>1. record[r] # Nothing /\ r \in RecordIds
    BY <1>1, <1>4 DEF Counted
  <2>2. record[r] \in [count : Nat, billed : BOOLEAN]
    BY <1>1, <2>1 DEF UsageTypes
  <2>3. record'[r] = [record[r] EXCEPT !.billed = TRUE]
    BY <1>3, <2>1
  <2> QED BY <2>1, <2>2, <2>3
<1>6. record' \in [RecordIds -> {Nothing} \cup [count : Nat, billed : BOOLEAN]]
  <2>1. \A r \in RecordIds : record'[r] \in {Nothing} \cup [count : Nat, billed : BOOLEAN]
    BY <1>1, <1>3, <1>5 DEF UsageTypes
  <2>2. record' = [r \in RecordIds |-> record'[r]]
    BY DEF CommitPush
  <2> QED BY <2>1, <2>2
<1>7. \A r \in RecordIds : (record'[r] # Nothing <=> record[r] # Nothing) /\ (r \notin job[j].took => record'[r] = record[r])
  BY <1>3, <1>5, NothingElse
<1>8. UsageGrows
  BY <1>1, <1>2, <1>6, <1>7 DEF UsageGrows, UsageTypes
<1>9. \A r \in RecordIds : record'[r] # Nothing => record'[r].count <= tasks'[r[2]]
  BY <1>2, <1>5, <1>7 DEF UsageInv, CountsAreTasks
<1>10. UsageInv'
  BY <1>1, <1>2, <1>8, <1>9, JobClosed, IdleCounted, UsageInvStays
<1> QED BY <1>4, <1>5, <1>7, <1>8, <1>10

LEMMA UsageStarts == UsageInit => UsageInv
<1> SUFFICES ASSUME UsageInit PROVE UsageInv
  OBVIOUS
<1>1. record = [r \in RecordIds |-> Nothing] /\ job = [j \in Jobs |-> NoJob]
  BY DEF UsageInit
<1>2. UsageTypes
  BY <1>1, NoJobRecord DEF UsageInit, UsageTypes
<1>3. \A j \in Jobs : Counted(j)
  BY <1>1 DEF Counted, Stands, NoJob
<1> QED BY <1>1, <1>2, <1>3 DEF UsageInv, CountsAreTasks

LEMMA UsageInvStep == UsageInv /\ [UsageNext]_uvars => UsageInv'
<1> SUFFICES ASSUME UsageInv, [UsageNext]_uvars PROVE UsageInv'
  OBVIOUS
<1>1. ASSUME NEW t \in Tenants, CompleteTask(t) PROVE UsageInv'
  BY <1>1, CompleteTaskKeeps
<1>2. ASSUME NEW j \in Jobs, StartAggregation(j) PROVE UsageInv'
  BY <1>2, StartAggregationKeeps
<1>3. ASSUME NEW j \in Jobs, SelectRecord(j) PROVE UsageInv'
  BY <1>3, SelectRecordKeeps
<1>4. ASSUME NEW j \in Jobs, CountTasks(j) PROVE UsageInv'
  BY <1>4, CountTasksKeeps
<1>5. ASSUME NEW j \in Jobs, StoreRecord(j) PROVE UsageInv'
  BY <1>5, StoreRecordKeeps
<1>6. ASSUME NEW j \in Jobs, CommitAggregation(j) PROVE UsageInv'
  BY <1>6, CommitAggregationKeeps
<1>7. ASSUME NEW j \in Jobs, StartPush(j) PROVE UsageInv'
  BY <1>7, StartPushKeeps
<1>8. ASSUME NEW j \in Jobs, ReportUsage(j) PROVE UsageInv'
  BY <1>8, ReportUsageKeeps
<1>9. ASSUME NEW j \in Jobs, CommitPush(j) PROVE UsageInv'
  BY <1>9, CommitPushKeeps
<1>10. ASSUME NEW j \in Jobs, Fail(j) PROVE UsageInv'
  BY <1>10, CloseKeeps DEF Fail, AbandonJob, UsageInv, UsageTypes
<1>11. ASSUME UNCHANGED uvars PROVE UsageInv'
  BY <1>11 DEF uvars, UsageInv, UsageTypes, CountsAreTasks, Counted, Stands
<1> QED BY <1>1, <1>2, <1>3, <1>4, <1>5, <1>6, <1>7, <1>8, <1>9, <1>10, <1>11 DEF UsageNext

-----------------------------------------------------------------------------
(* Records only grow, unless jobs crossed.                                  *)

\* A job that stands still among records as they were.
LEMMA AheadStays ==
  ASSUME UNCHANGED record, NEW o \in Jobs, job'[o] = job[o], Ahead(o)
  PROVE  Ahead(o)'
BY DEF Ahead, Stands, RecordsOf

\* A job begins: whoever is under way now crosses it.
LEMMA BeginCrosses ==
  ASSUME UsageTypes, Crossings, NEW j \in Jobs, NEW new, Begin(j, new),
         new.pc # "store", \A r \in RecordIds : new.writes[r] = Nothing
  PROVE  Crossings'
<1>1. job'[j] = new /\ OtherJobsStay(j) /\ ~Open(j) /\ UNCHANGED record
  BY JobBecomes DEF Begin, Open, Stands
<1> DEFINE others == {o \in Jobs \ {j} : Open(o)}
<1>2. crossing' = IF others = {} THEN crossing ELSE others \cup {j}
  BY DEF Begin
<1>3. ASSUME NEW o \in Jobs, o # j, Open(o)' PROVE o \in crossing' /\ j \in crossing'
  BY <1>1, <1>2, <1>3 DEF OtherJobsStay, Open
<1>4. ASSUME NEW o \in Jobs, NEW p \in Jobs, o # p, Open(o)', Open(p)' PROVE o \in crossing'
  BY <1>3, <1>4
<1>5. Ahead(j)'
  BY <1>1 DEF Ahead, Stands
<1> QED BY <1>3, <1>4, <1>5 DEF Crossings

\* A job goes on, and is as far ahead as it was.
LEMMA GoesOnCrosses ==
  ASSUME Crossings, NEW j \in Jobs, Open(j), OtherJobsStay(j), UNCHANGED <<record, crossing>>,
         Ahead(j) => Ahead(j)'
  PROVE  Crossings'
<1>1. \A o \in Jobs : Open(o)' => Open(o)
  BY DEF Open, OtherJobsStay
<1>2. \A o \in Jobs : Ahead(o) => Ahead(o)'
  BY AheadStays DEF OtherJobsStay
<1> QED BY <1>1, <1>2 DEF Crossings

\* A job ends: the others under way crossed it.
LEMMA CloseCrosses ==
  ASSUME UsageTypes, Crossings, NEW j \in Jobs, Close(j), UNCHANGED record \/ Open(j)
  PROVE  Crossings'
<1>1. job'[j] = NoJob /\ OtherJobsStay(j) /\ crossing' = crossing \ {j}
  BY JobClosed
<1>2. ~Open(j)'
  BY <1>1 DEF Open, NoJob
<1>3. \A o \in Jobs : Open(o)' => o # j /\ Open(o)
  BY <1>1, <1>2 DEF Open, OtherJobsStay
<1>4. ASSUME NEW o \in Jobs, Open(o)', o \notin crossing' PROVE Ahead(o)'
  <2>1. o # j /\ Open(o) /\ o \notin crossing /\ Ahead(o) /\ job'[o] = job[o]
    BY <1>1, <1>3, <1>4 DEF Crossings, OtherJobsStay
  <2>2. ~Open(j)
    BY <2>1 DEF Crossings
  <2> QED BY <2>1, <2>2, AheadStays
<1>5. ASSUME NEW o \in Jobs, NEW p \in Jobs, o # p, Open(o)', Open(p)' PROVE o \in crossing'
  BY <1>1, <1>3, <1>5 DEF Crossings
<1> QED BY <1>4, <1>5 DEF Crossings

LEMMA SelectRecordCrosses ==
  ASSUME UsageInv, Crossings, NEW j \in Jobs, SelectRecord(j)
  PROVE  Crossings'
<1>1. UsageTypes /\ job[j] \in JobRecord /\ Open(j)
  BY DEF UsageInv, UsageTypes, SelectRecord, Stands, Open
<1>2. CASE Close(j)
  BY <1>1, <1>2, CloseCrosses
<1>3. CASE ~Close(j)
  <2>1. PICK t \in job[j].todo : job' = [job EXCEPT ![j].pc = "tasks", ![j].tenant = t,
               ![j].todo = @ \ {t},
               ![j].found = IF Existing(t) = {} THEN Nothing
                            ELSE CHOOSE r \in Existing(t) : TRUE,
               ![j].read = [r \in RecordIds |->
                              IF r \in Existing(t) THEN record[r].count ELSE @[r]]]
            /\ InJob
    BY <1>3 DEF SelectRecord, AbandonJob
  <2>2. OtherJobsStay(j) /\ UNCHANGED <<record, crossing>>
    BY <1>1, <2>1 DEF OtherJobsStay, InJob, UsageTypes
  <2>3. job'[j].pc = "tasks" /\ job'[j].writes = job[j].writes
    BY <1>1, <2>1 DEF UsageTypes, JobRecord
  <2>4. Ahead(j) => Ahead(j)'
    BY <2>2, <2>3 DEF Ahead, Stands
  <2> QED BY <1>1, <2>2, <2>4, GoesOnCrosses
<1> QED BY <1>2, <1>3

LEMMA CountTasksCrosses ==
  ASSUME UsageInv, Crossings, NEW j \in Jobs, CountTasks(j)
  PROVE  Crossings'
<1>1. UsageTypes /\ Counted(j) /\ job[j] \in JobRecord /\ Stands(j, "tasks") /\ Open(j)
  BY DEF UsageInv, CountsAreTasks, UsageTypes, CountTasks, Stands, Open
<1>2. OtherJobsStay(j) /\ UNCHANGED <<tasks, record, crossing>>
  BY <1>1 DEF CountTasks, OtherJobsStay, InJob, UsageTypes
<1>3. job'[j].tenant = job[j].tenant /\ job'[j].writes = job[j].writes /\ job'[j].count = tasks[job[j].tenant]
  BY <1>1 DEF CountTasks, UsageTypes, JobRecord
<1>4. \A r \in RecordsOf(job[j].tenant) : r \in RecordIds /\ r[2] = job[j].tenant /\ record[r] # Nothing
  BY <1>1 DEF RecordsOf, RecordIds, Counted, Stands
<1>5. \A r \in RecordsOf(job[j].tenant) : record[r].count <= tasks[job[j].tenant]
  BY <1>4 DEF UsageInv, CountsAreTasks
<1>6. Ahead(j) => Ahead(j)'
  BY <1>2, <1>3, <1>5 DEF Ahead, Stands, RecordsOf
<1> QED BY <1>1, <1>2, <1>6, GoesOnCrosses

LEMMA StoreRecordCrosses ==
  ASSUME UsageInv, Crossings, NEW j \in Jobs, StoreRecord(j)
  PROVE  Crossings'
<1>1. /\ UsageTypes /\ Counted(j) /\ Stands(j, "store") /\ InJob
      /\ job' = [job EXCEPT ![j] = Stored(j)]
      /\ Row(j) \in RecordIds /\ Row(j)[2] = job[j].tenant
      /\ Stored(j).pc = "next"
      /\ \A r \in RecordIds : Stored(j).writes[r] = IF r = Row(j) /\ Writes(j) THEN job[j].count ELSE job[j].writes[r]
  BY StoredRecord, Zenon
<1>2. job'[j] = Stored(j) /\ OtherJobsStay(j) /\ Open(j) /\ UNCHANGED <<record, crossing>>
  BY <1>1, JobBecomes DEF Stands, Open, InJob
<1>3. record[Row(j)] # Nothing => Row(j) \in RecordsOf(job[j].tenant)
  BY <1>1, OwnTenant DEF RecordsOf
<1>4. ASSUME Ahead(j), NEW r \in RecordIds, job'[j].writes[r] # Nothing, record[r] # Nothing
      PROVE  record[r].count <= job'[j].writes[r]
  BY <1>1, <1>2, <1>3, <1>4 DEF Ahead
<1>5. Ahead(j) => Ahead(j)'
  BY <1>1, <1>2, <1>4 DEF Ahead, Stands
<1> QED BY <1>2, <1>5, GoesOnCrosses

LEMMA ReportUsageCrosses ==
  ASSUME UsageInv, Crossings, NEW j \in Jobs, ReportUsage(j)
  PROVE  Crossings'
<1>1. PICK r \in RecordIds :
           /\ Stands(j, "push") /\ UNCHANGED record
           /\ \/ /\ job' = [job EXCEPT ![j] = Told(j, r)] /\ UNCHANGED crossing
                 /\ Told(j, r).pc = "push" /\ Told(j, r).writes = job[j].writes
              \/ Close(j)
  BY UsageReported
<1>2. UsageTypes /\ Open(j)
  BY <1>1 DEF UsageInv, Stands, Open
<1>3. CASE Close(j)
  BY <1>1, <1>2, <1>3, CloseCrosses
<1>4. CASE ~Close(j)
  <2>1. job'[j] = Told(j, r) /\ OtherJobsStay(j)
    BY <1>1, <1>2, <1>4, JobBecomes
  <2>2. Ahead(j) => Ahead(j)'
    BY <1>1, <1>4, <2>1 DEF Ahead, Stands
  <2> QED BY <1>1, <1>2, <1>4, <2>1, <2>2, GoesOnCrosses
<1> QED BY <1>3, <1>4

LEMMA CrossingsStep == UsageInv /\ Crossings /\ [UsageNext]_uvars => Crossings'
<1> SUFFICES ASSUME UsageInv, Crossings, [UsageNext]_uvars PROVE Crossings'
  OBVIOUS
<1>0. UsageTypes
  BY DEF UsageInv
<1>1. ASSUME NEW t \in Tenants, CompleteTask(t) PROVE Crossings'
  BY <1>1 DEF CompleteTask, Crossings, Open, Ahead, Stands, RecordsOf
<1>2. ASSUME NEW j \in Jobs, StartAggregation(j) PROVE Crossings'
  <2> DEFINE new == [NoJob EXCEPT !.pc = "next", !.todo = Tenants]
  <2>1. Begin(j, new)
    BY <1>2 DEF StartAggregation
  <2>2. new.pc # "store" /\ \A r \in RecordIds : new.writes[r] = Nothing
    BY DEF NoJob
  <2> HIDE DEF new
  <2> QED BY <1>0, <2>1, <2>2, BeginCrosses
<1>3. ASSUME NEW j \in Jobs, SelectRecord(j) PROVE Crossings'
  BY <1>3, SelectRecordCrosses
<1>4. ASSUME NEW j \in Jobs, CountTasks(j) PROVE Crossings'
  BY <1>4, CountTasksCrosses
<1>5. ASSUME NEW j \in Jobs, StoreRecord(j) PROVE Crossings'
  BY <1>5, StoreRecordCrosses
<1>6. ASSUME NEW j \in Jobs, CommitAggregation(j) PROVE Crossings'
  BY <1>0, <1>6, CloseCrosses DEF CommitAggregation, Stands, Open
<1>7. ASSUME NEW j \in Jobs, StartPush(j) PROVE Crossings'
  <2>1. Begin(j, Pushing)
    BY <1>7 DEF StartPush, Pushing, Mine
  <2>2. Pushing.pc # "store" /\ \A r \in RecordIds : Pushing.writes[r] = Nothing
    BY <1>7, PushStarts
  <2> QED BY <1>0, <2>1, <2>2, BeginCrosses
<1>8. ASSUME NEW j \in Jobs, ReportUsage(j) PROVE Crossings'
  BY <1>8, ReportUsageCrosses
<1>9. ASSUME NEW j \in Jobs, CommitPush(j) PROVE Crossings'
  BY <1>0, <1>9, CloseCrosses DEF CommitPush, Stands, Open
<1>10. ASSUME NEW j \in Jobs, Fail(j) PROVE Crossings'
  BY <1>0, <1>10, CloseCrosses DEF Fail, AbandonJob
<1>11. ASSUME UNCHANGED uvars PROVE Crossings'
  BY <1>11 DEF uvars, Crossings, Open, Ahead, Stands, RecordsOf
<1> QED BY <1>1, <1>2, <1>3, <1>4, <1>5, <1>6, <1>7, <1>8, <1>9, <1>10, <1>11 DEF UsageNext

LEMMA RecordsGrowStep ==
  UsageInv /\ Crossings /\ [UsageNext]_uvars =>
    [\A r \in RecordIds :
       record[r] # Nothing /\ record'[r].count < record[r].count =>
         \E j \in crossing : Open(j) /\ job'[j] = NoJob]_uvars
<1> SUFFICES ASSUME UsageInv, Crossings, UsageNext, NEW r \in RecordIds,
                    record[r] # Nothing, record'[r].count < record[r].count
             PROVE  \E j \in crossing : Open(j) /\ job'[j] = NoJob
  OBVIOUS
<1>1. UsageTypes /\ record[r].count \in Nat
  BY DEF UsageInv, UsageTypes
<1>2. record'[r] # record[r]
  BY <1>1
<1>3. ASSUME NEW j \in Jobs, CommitAggregation(j) PROVE \E k \in crossing : Open(k) /\ job'[k] = NoJob
  <2>1. job[j].writes[r] # Nothing /\ record'[r].count = job[j].writes[r]
    <3>1. /\ UsageInv' /\ UsageGrows
          /\ \A x \in RecordIds : record'[x] # Nothing => \/ record'[x] = record[x]
               \/ /\ job[j].writes[x] # Nothing /\ record'[x].count = job[j].writes[x]
                  /\ record'[x].billed = (record[x] # Nothing /\ record[x].billed)
      BY <1>3, CommitAggregationKeeps, Zenon
    <3> QED BY <1>2, <3>1 DEF UsageGrows
  <2>2. job[j].writes[r] \in Nat
    BY <1>1, <2>1 DEF UsageTypes, JobRecord
  <2>3. ~Ahead(j)
    BY <1>1, <2>1, <2>2 DEF Ahead
  <2>4. Open(j) /\ job'[j] = NoJob
    BY <1>1, <1>3, JobClosed DEF CommitAggregation, Open, Stands
  <2> QED BY <2>3, <2>4 DEF Crossings
<1>4. ASSUME NEW j \in Jobs, CommitPush(j) PROVE FALSE
  <2>1. \/ r \notin job[j].took /\ record'[r] = record[r]
        \/ r \in job[j].took /\ record'[r].count = record[r].count
    BY <1>4, CommitPushKeeps
  <2> QED BY <1>1, <1>2, <2>1
<1>5. ASSUME UNCHANGED record PROVE FALSE
  BY <1>2, <1>5
<1>6. ASSUME NEW j \in Jobs,
             StartAggregation(j) \/ SelectRecord(j) \/ CountTasks(j) \/ StoreRecord(j)
               \/ StartPush(j) \/ ReportUsage(j) \/ Fail(j)
      PROVE  UNCHANGED record
  BY <1>6 DEF StartAggregation, SelectRecord, CountTasks, StoreRecord, StartPush, ReportUsage, Fail,
              Begin, InJob, AbandonJob
<1> QED BY <1>3, <1>4, <1>5, <1>6 DEF UsageNext, CompleteTask

LEMMA CrossingsStart == UsageInit => Crossings
BY DEF UsageInit, Crossings, Open, NoJob

\* For any number of jobs and tenants, a usage record loses tasks only to a job
\* that crossed another (create_usage_record, aggregate_all_tenants).
THEOREM RecordsOnlyGrowUnlessCrossed == UsageSpec => RecordsOnlyGrow
<1>1. UsageInit => UsageInv /\ Crossings
  BY UsageStarts, CrossingsStart
<1>2. UsageInv /\ Crossings /\ [UsageNext]_uvars => (UsageInv /\ Crossings)'
  BY UsageInvStep, CrossingsStep
<1> QED BY <1>1, <1>2, RecordsGrowStep, PTL DEF UsageSpec, RecordsOnlyGrow

-----------------------------------------------------------------------------
(* A tenant's one record is reported once, or the tenant is suspect.        *)

LEMMA RecordNames ==
  ASSUME NEW t \in Tenants
  PROVE  /\ RecordsOf(t) = {r \in RecordIds : record[r] # Nothing /\ r[2] = t}
         /\ IsFiniteSet(RecordsOf(t))
<1>1. IsFiniteSet(Jobs \X {t})
  BY MeteringAssumption, FS_Singleton, FS_Product
<1>2. RecordsOf(t) \subseteq Jobs \X {t}
  BY DEF RecordsOf
<1> QED BY <1>1, <1>2, FS_Subset DEF RecordsOf, RecordIds

\* Of one record at most, any two are the same.
LEMMA SoleRecord ==
  ASSUME NEW S, IsFiniteSet(S), Cardinality(S) <= 1, NEW r \in S, NEW s \in S
  PROVE  r = s
<1> SUFFICES ASSUME r # s PROVE FALSE
  OBVIOUS
<1>1. {r, s} \subseteq S
  OBVIOUS
<1>2. IsFiniteSet({r}) /\ Cardinality({r}) = 1 /\ s \notin {r}
  BY FS_Singleton
<1>3. {r} \cup {s} = {r, s}
  OBVIOUS
<1>4. Cardinality({r, s}) = 2
  BY <1>2, <1>3, FS_AddElement
<1>5. Cardinality({r, s}) <= Cardinality(S)
  BY <1>1, FS_Subset
<1>6. Cardinality(S) \in Nat
  BY FS_CardinalityType
<1> QED BY <1>4, <1>5, <1>6

\* A tenant whose record is its only one and beyond suspicion has always been so.
LEMMA SoleBefore ==
  ASSUME UsageGrows, NEW t \in Tenants, suspect \subseteq suspect', Sole(t)'
  PROVE  /\ Sole(t) /\ t \notin suspect' /\ RecordsOf(t) \subseteq RecordsOf(t)'
         /\ \A r, s \in RecordsOf(t)' : r = s
<1>1. RecordsOf(t) = {r \in RecordIds : record[r] # Nothing /\ r[2] = t}
  BY RecordNames
<1>2. RecordsOf(t)' = {r \in RecordIds : record'[r] # Nothing /\ r[2] = t}
  <2>1. RecordsOf(t)' = {r \in Jobs \X {t} : record'[r] # Nothing}
    BY DEF RecordsOf
  <2> QED BY <2>1 DEF RecordIds
<1>3. IsFiniteSet(RecordsOf(t)')
  <2>1. IsFiniteSet(Jobs \X {t})
    BY MeteringAssumption, FS_Singleton, FS_Product
  <2>2. RecordsOf(t)' \subseteq Jobs \X {t}
    BY DEF RecordsOf
  <2> QED BY <2>1, <2>2, FS_Subset
<1>4. RecordsOf(t) \subseteq RecordsOf(t)'
  BY <1>1, <1>2 DEF UsageGrows
<1>5. Cardinality(RecordsOf(t)') <= 1 /\ t \notin suspect'
  BY DEF Sole
<1> DEFINE now == RecordsOf(t)' before == RecordsOf(t)
<1>6. Cardinality(before) <= Cardinality(now) /\ Cardinality(now) \in Nat /\ Cardinality(before) \in Nat
  BY <1>3, <1>4, FS_Subset, FS_CardinalityType
<1>7. Sole(t)
  BY <1>5, <1>6 DEF Sole
<1>8. \A r, s \in now : r = s
  <2> SUFFICES ASSUME NEW r \in now, NEW s \in now PROVE r = s
    OBVIOUS
  <2> HIDE DEF now
  <2>1. IsFiniteSet(now) /\ Cardinality(now) <= 1
    BY <1>3, <1>5 DEF now
  <2> QED BY <2>1, SoleRecord
<1> QED BY <1>4, <1>5, <1>7, <1>8

\* Records may be let go of, tasks and records added: billing stays right.
LEMMA BillingStays ==
  ASSUME UsageTypes, UsageGrows, NEW t \in Tenants, Billing(t), reported'[t] = reported[t],
         RecordsOf(t) \subseteq RecordsOf(t)',
         \A r \in RecordsOf(t) : record'[r].billed <=> record[r].billed,
         \A r \in RecordsOf(t)', o \in Jobs : Holds(o, r)' => r \in RecordsOf(t) /\ Holds(o, r),
         \A r \in RecordsOf(t), o \in Jobs : r \in job[o].took => r \in job'[o].took
  PROVE  Billing(t)'
<1>1. \A r \in RecordsOf(t)', j, o \in Jobs : Holds(j, r)' /\ Holds(o, r)' => j = o
  BY DEF Billing
<1>2. \A r \in RecordsOf(t)', j \in Jobs : Holds(j, r)' => ~record'[r].billed
  BY DEF Billing
<1>3. (\A r \in RecordsOf(t)' : ~record'[r].billed /\ \A j \in Jobs : r \notin job'[j].took) => reported'[t] = 0
  <2> SUFFICES ASSUME \A r \in RecordsOf(t)' : ~record'[r].billed /\ \A j \in Jobs : r \notin job'[j].took
               PROVE  reported[t] = 0
    OBVIOUS
  <2>1. \A r \in RecordsOf(t) : ~record[r].billed /\ \A j \in Jobs : r \notin job[j].took
    OBVIOUS
  <2> QED BY <2>1 DEF Billing
<1>4. reported[t] <= tasks[t] /\ reported[t] \in Nat /\ tasks[t] \in Nat /\ tasks'[t] \in Nat /\ tasks[t] <= tasks'[t]
  BY DEF Billing, UsageTypes, UsageGrows
<1>5. reported'[t] <= tasks'[t]
  BY <1>4
<1> QED BY <1>1, <1>2, <1>3, <1>5 DEF Billing

\* A step of a job that neither was nor is a push.
LEMMA AggregationBills ==
  ASSUME UsageTypes, UsageGrows, UNCHANGED <<record, reported>>, NEW j \in Jobs, OtherJobsStay(j),
         ~Stands(j, "push")', job[j].took = {}, NEW t \in Tenants, Billing(t)
  PROVE  Billing(t)'
<1>1. RecordsOf(t)' = RecordsOf(t)
  BY DEF RecordsOf
<1>2. \A o \in Jobs : \A r \in RecordsOf(t) : Holds(o, r)' => Holds(o, r)
  BY DEF Holds, Stands, OtherJobsStay
<1>3. \A r \in RecordsOf(t), o \in Jobs : r \in job[o].took => r \in job'[o].took
  BY DEF OtherJobsStay
<1> QED BY <1>1, <1>2, <1>3, BillingStays

\* A job ends without a commit: who was told of is suspect.
LEMMA CloseBills ==
  ASSUME UsageTypes, UNCHANGED <<tasks, record>>, NEW j \in Jobs, Close(j), NEW t \in Tenants,
         reported'[t] = reported[t], \A r \in job[j].took : r[2] # t, Billing(t)
  PROVE  Billing(t)'
<1>1. RecordsOf(t)' = RecordsOf(t) /\ \A r \in RecordsOf(t) : r[2] = t
  BY DEF RecordsOf
<1>2. job'[j] = NoJob /\ OtherJobsStay(j) /\ UsageGrows
  BY JobClosed, UsageStands
<1>3. \A o \in Jobs : \A r \in RecordsOf(t) : Holds(o, r)' => Holds(o, r)
  BY <1>2 DEF Holds, Stands, OtherJobsStay, NoJob
<1>4. \A r \in RecordsOf(t), o \in Jobs : r \in job[o].took => r \in job'[o].took
  BY <1>1, <1>2 DEF OtherJobsStay
<1> QED BY <1>1, <1>2, <1>3, <1>4, BillingStays

\* Only a push has taken records.
LEMMA TakenHeld ==
  ASSUME UsageInv, NEW j \in Jobs, NEW r \in job[j].took
  PROVE  Holds(j, r) /\ record[r] # Nothing /\ r \in RecordIds
<1>1. job[j] \in JobRecord /\ Counted(j)
  BY DEF UsageInv, UsageTypes, CountsAreTasks
<1>2. Stands(j, "push")
  BY <1>1 DEF Counted, Stands, NoJob, JobRecord
<1> QED BY <1>1, <1>2 DEF Holds, Counted, JobRecord

\* A push holds records there are.
LEMMA HeldIsThere ==
  ASSUME UsageInv, NEW j \in Jobs, NEW r, Holds(j, r)
  PROVE  record[r] # Nothing /\ r \in RecordIds
<1>1. job[j] \in JobRecord /\ Counted(j)
  BY DEF UsageInv, UsageTypes, CountsAreTasks
<1> QED BY <1>1 DEF Holds, Counted, JobRecord

LEMMA SelectRecordBills ==
  ASSUME UsageInv, NEW j \in Jobs, SelectRecord(j), NEW t \in Tenants, Billing(t)
  PROVE  Billing(t)'
<1>1. UsageTypes /\ UsageGrows /\ UNCHANGED <<record, reported>> /\ OtherJobsStay(j)
  <2>1. UsageTypes /\ UNCHANGED <<tasks, record, reported>>
    BY DEF UsageInv, SelectRecord, AbandonJob, InJob
  <2> QED BY <2>1, UsageStands, JobClosed DEF SelectRecord, AbandonJob, UsageTypes, OtherJobsStay
<1>2. Counted(j) /\ Stands(j, "next") /\ job[j].took = {}
  BY DEF UsageInv, CountsAreTasks, SelectRecord, Counted, Stands
<1>3. job'[j].pc \in {"tasks", "idle"}
  <2>1. CASE Close(j)
    <3>1. job'[j] = NoJob
      BY <1>1, <2>1, JobClosed
    <3> QED BY <3>1 DEF NoJob
  <2>2. CASE ~Close(j)
    <3>1. PICK u, f, g : job' = [job EXCEPT ![j].pc = "tasks", ![j].tenant = u,
               ![j].todo = @ \ {u}, ![j].found = f, ![j].read = g]
      BY <2>2 DEF SelectRecord, AbandonJob
    <3>2. DOMAIN job = Jobs /\ job[j] \in JobRecord
      BY <1>1 DEF UsageTypes
    <3>3. job'[j] = [job[j] EXCEPT !.pc = "tasks", !.tenant = u, !.todo = @ \ {u},
                                  !.found = f, !.read = g]
      BY <3>1, <3>2
    <3> QED BY <3>2, <3>3 DEF JobRecord
  <2> QED BY <2>1, <2>2
<1> QED BY <1>1, <1>2, <1>3, AggregationBills DEF Stands

LEMMA CountTasksBills ==
  ASSUME UsageInv, NEW j \in Jobs, CountTasks(j), NEW t \in Tenants, Billing(t)
  PROVE  Billing(t)'
<1>1. UsageTypes /\ UNCHANGED <<tasks, record, reported>>
  BY DEF UsageInv, CountTasks, InJob
<1>2. OtherJobsStay(j) /\ job'[j].pc = "store" /\ UsageGrows
  BY <1>1, UsageStands DEF CountTasks, OtherJobsStay, UsageTypes, JobRecord
<1>3. job[j].took = {}
  BY DEF UsageInv, CountsAreTasks, CountTasks, Counted, Stands
<1> QED BY <1>1, <1>2, <1>3, AggregationBills DEF Stands

LEMMA StoreRecordBills ==
  ASSUME UsageInv, NEW j \in Jobs, StoreRecord(j), NEW t \in Tenants, Billing(t)
  PROVE  Billing(t)'
<1>1. /\ UsageTypes /\ Counted(j) /\ Stands(j, "store") /\ InJob
      /\ job' = [job EXCEPT ![j] = Stored(j)] /\ Stored(j).pc = "next"
  BY StoredRecord, Zenon
<1>2. OtherJobsStay(j) /\ job'[j].pc = "next" /\ UsageGrows /\ UNCHANGED <<record, reported>>
  BY <1>1, JobBecomes, UsageStands DEF InJob
<1>3. job[j].took = {}
  BY <1>1 DEF Counted, Stands
<1> QED BY <1>1, <1>2, <1>3, AggregationBills DEF Stands

LEMMA CommitAggregationBills ==
  ASSUME UsageInv, NEW j \in Jobs, CommitAggregation(j), NEW t \in Tenants,
         RecordsOf(t) \subseteq RecordsOf(t)', Billing(t)
  PROVE  Billing(t)'
<1>1. /\ UsageInv' /\ UsageGrows
      /\ \A x \in RecordIds : record'[x] # Nothing => \/ record'[x] = record[x]
           \/ /\ job[j].writes[x] # Nothing /\ record'[x].count = job[j].writes[x]
              /\ record'[x].billed = (record[x] # Nothing /\ record[x].billed)
  BY CommitAggregationKeeps, Zenon
<1>2. \A r \in RecordsOf(t) : r \in RecordIds /\ record[r] # Nothing /\ record'[r] # Nothing
  BY <1>1, RecordNames DEF UsageGrows
<1>3. \A r \in RecordsOf(t) : record'[r].billed <=> record[r].billed
  <2> SUFFICES ASSUME NEW r \in RecordsOf(t) PROVE record'[r].billed <=> record[r].billed
    OBVIOUS
  <2>1. r \in RecordIds /\ record[r] # Nothing /\ record'[r] # Nothing
    BY <1>2
  <2>2. CASE record'[r] = record[r]
    BY <2>2
  <2>3. CASE record'[r].billed = (record[r] # Nothing /\ record[r].billed)
    BY <2>1, <2>3, Zenon
  <2> QED BY <1>1, <2>1, <2>2, <2>3, Zenon
<1>4. UsageTypes /\ Close(j) /\ reported'[t] = reported[t] /\ Counted(j) /\ Stands(j, "next")
  BY DEF CommitAggregation, UsageInv, CountsAreTasks
<1>5. job'[j] = NoJob /\ OtherJobsStay(j) /\ job[j].took = {}
  BY <1>4, JobClosed DEF Counted, Stands
<1>6. \A o \in Jobs : \A r : Holds(o, r)' => Holds(o, r)
  BY <1>5 DEF Holds, Stands, OtherJobsStay, NoJob
<1>7. ASSUME NEW r \in RecordsOf(t)', NEW o \in Jobs, Holds(o, r)' PROVE r \in RecordsOf(t) /\ Holds(o, r)
  <2>1. Holds(o, r) /\ record[r] # Nothing /\ r \in RecordIds
    BY <1>6, <1>7, HeldIsThere
  <2>2. r \in Jobs \X {t}
    BY DEF RecordsOf
  <2> QED BY <2>1, <2>2 DEF RecordsOf
<1>8. \A r \in RecordsOf(t), o \in Jobs : r \in job[o].took => r \in job'[o].took
  BY <1>5 DEF OtherJobsStay
<1> QED BY <1>1, <1>3, <1>4, <1>7, <1>8, BillingStays

LEMMA StartPushBills ==
  ASSUME UsageInv, NEW j \in Jobs, StartPush(j), NEW t \in Tenants, t \notin suspect', Billing(t)
  PROVE  Billing(t)'
<1>1. /\ UsageTypes /\ Pushing.pc = "push" /\ Pushing.todo = Mine /\ Pushing.took = {}
      /\ Mine \subseteq RecordIds /\ \A r \in Mine : record[r] # Nothing /\ ~record[r].billed
      /\ job' = [job EXCEPT ![j] = Pushing] /\ UNCHANGED <<tasks, record, reported>>
      /\ suspect' = suspect \cup TenantsOf({r \in Mine : \E o \in Jobs : r \in job[o].todo \cup job[o].took})
  BY PushStarts, Zenon
<1>2. job'[j] = Pushing /\ OtherJobsStay(j)
  BY <1>1, JobBecomes
<1>3. RecordsOf(t)' = RecordsOf(t) /\ \A r \in RecordsOf(t) : r[2] = t
  BY <1>1 DEF RecordsOf
<1>4. \A r \in RecordsOf(t) : r \in Mine => \A o \in Jobs : r \notin job[o].todo \cup job[o].took
  BY <1>1, <1>3 DEF TenantsOf
<1>5. \A r : Holds(j, r)' <=> r \in Mine
  BY <1>1, <1>2 DEF Holds, Stands
<1>6. \A o \in Jobs \ {j}, r \in RecordsOf(t) : Holds(o, r)' => Holds(o, r) /\ r \notin Mine
  BY <1>2, <1>4 DEF Holds, Stands, OtherJobsStay
<1>7. ASSUME NEW r \in RecordsOf(t)', NEW o \in Jobs, NEW p \in Jobs, Holds(o, r)', Holds(p, r)' PROVE o = p
  BY <1>3, <1>5, <1>6, <1>7 DEF Billing
<1>8. ASSUME NEW r \in RecordsOf(t)', NEW o \in Jobs, Holds(o, r)' PROVE ~record'[r].billed
  <2>1. CASE o = j
    BY <1>1, <1>5, <1>8, <2>1
  <2>2. CASE o # j
    BY <1>1, <1>3, <1>6, <1>8, <2>2 DEF Billing
  <2> QED BY <2>1, <2>2
<1>9. job[j].took = {}
  BY DEF StartPush, Begin, UsageInv, CountsAreTasks, Counted, Stands, NoJob
<1>10. \A o \in Jobs : job'[o].took = job[o].took
  BY <1>1, <1>2, <1>9 DEF OtherJobsStay
<1>11. (\A r \in RecordsOf(t)' : ~record'[r].billed /\ \A o \in Jobs : r \notin job'[o].took) => reported'[t] = 0
  BY <1>1, <1>3, <1>10 DEF Billing
<1>12. reported'[t] <= tasks'[t]
  BY <1>1 DEF Billing
<1> QED BY <1>7, <1>8, <1>11, <1>12 DEF Billing

LEMMA ReportUsageBills ==
  ASSUME UsageInv, NEW j \in Jobs, ReportUsage(j), NEW t \in Tenants, t \notin suspect',
         \A r, s \in RecordsOf(t) : r = s, Billing(t)
  PROVE  Billing(t)'
<1>1. PICK r \in RecordIds :
           /\ r \in job[j].todo /\ r \notin job[j].took /\ Stands(j, "push") /\ record[r] # Nothing
           /\ job[j].read[r] \in Nat /\ job[j].read[r] <= tasks[r[2]]
           /\ reported' = [reported EXCEPT ![r[2]] = reported[r[2]] + job[j].read[r]]
           /\ UNCHANGED <<tasks, record>>
           /\ \/ /\ job' = [job EXCEPT ![j] = Told(j, r)] /\ UNCHANGED <<suspect, crossing>>
                 /\ Told(j, r) \in JobRecord /\ Told(j, r).pc = "push" /\ Told(j, r).writes = job[j].writes
                 /\ Told(j, r).todo = job[j].todo \ {r} /\ Told(j, r).took = job[j].took \cup {r}
                 /\ Told(j, r).read = job[j].read
              \/ Close(j) /\ suspect' = suspect \cup TenantsOf(job[j].took \cup {r})
  BY UsageReported, Zenon
<1>2. UsageTypes /\ UsageGrows /\ r[2] \in Tenants /\ Holds(j, r)
  BY <1>1, UsageStands, OwnTenant DEF UsageInv, Holds
<1>3. RecordsOf(t)' = RecordsOf(t) /\ \A x \in RecordsOf(t) : x[2] = t
  BY <1>1 DEF RecordsOf
<1>4. CASE Close(j)
  <2>1. CASE job' = [job EXCEPT ![j] = Told(j, r)] /\ Told(j, r).pc = "push"
    <3>1. job'[j] = NoJob /\ job'[j] = Told(j, r)
      BY <1>2, <1>4, <2>1, JobClosed, JobBecomes
    <3> QED BY <2>1, <3>1 DEF NoJob
  <2>2. CASE suspect' = suspect \cup TenantsOf(job[j].took \cup {r})
    <3>1. \A x \in job[j].took \cup {r} : x[2] # t
      BY <2>2 DEF TenantsOf
    <3>2. reported'[t] = reported[t]
      BY <1>1, <1>2, <3>1 DEF UsageTypes
    <3> QED BY <1>1, <1>2, <1>4, <3>1, <3>2, CloseBills
  <2> QED BY <1>1, <2>1, <2>2
<1>5. CASE ~Close(j)
  <2>1. /\ job' = [job EXCEPT ![j] = Told(j, r)] /\ Told(j, r).pc = "push"
        /\ Told(j, r).todo = job[j].todo \ {r} /\ Told(j, r).took = job[j].took \cup {r}
    BY <1>1, <1>5
  <2>2. job'[j] = Told(j, r) /\ OtherJobsStay(j)
    BY <1>2, <2>1, JobBecomes
  <2>3. \A o \in Jobs : \A x : Holds(o, x)' <=> Holds(o, x)
    BY <1>1, <2>1, <2>2 DEF Holds, Stands, OtherJobsStay
  <2>4. CASE r[2] # t
    <3>1. reported'[t] = reported[t]
      BY <1>1, <1>2, <2>4 DEF UsageTypes
    <3>2. \A x \in RecordsOf(t), o \in Jobs : x \in job[o].took => x \in job'[o].took
      BY <2>1, <2>2 DEF OtherJobsStay
    <3> QED BY <1>1, <1>2, <1>3, <2>3, <3>1, <3>2, BillingStays
  <2>5. CASE r[2] = t
    <3>1. r \in RecordsOf(t)
      BY <1>1, <2>5, OwnTenant DEF RecordsOf
    <3>2. ASSUME NEW o \in Jobs, r \in job[o].took PROVE FALSE
      <4>1. Holds(o, r)
        BY <3>2, TakenHeld
      <4>2. o = j
        BY <1>2, <3>1, <4>1 DEF Billing
      <4> QED BY <1>1, <3>2, <4>2
    <3>3. \A x \in RecordsOf(t) : ~record[x].billed /\ \A o \in Jobs : x \notin job[o].took
      <4>1. \A x \in RecordsOf(t) : x = r
        BY <3>1
      <4>2. ~record[r].billed
        BY <1>2, <3>1 DEF Billing
      <4> QED BY <3>2, <4>1, <4>2
    <3>4. reported[t] = 0
      BY <3>3 DEF Billing
    <3>5. reported'[t] <= tasks'[t]
      BY <1>1, <1>2, <2>5, <3>4 DEF UsageTypes
    <3>6. \A x \in RecordsOf(t)', o, p \in Jobs : Holds(o, x)' /\ Holds(p, x)' => o = p
      BY <1>3, <2>3 DEF Billing
    <3>7. \A x \in RecordsOf(t)', o \in Jobs : Holds(o, x)' => ~record'[x].billed
      BY <1>1, <1>3, <2>3 DEF Billing
    <3>8. r \in job'[j].took
      BY <2>1, <2>2
    <3>9. (\A x \in RecordsOf(t)' : ~record'[x].billed /\ \A o \in Jobs : x \notin job'[o].took) => reported'[t] = 0
      BY <1>3, <3>1, <3>8
    <3> QED BY <3>5, <3>6, <3>7, <3>9 DEF Billing
  <2> QED BY <2>4, <2>5
<1> QED BY <1>4, <1>5

LEMMA CommitPushBills ==
  ASSUME UsageInv, NEW j \in Jobs, CommitPush(j), NEW t \in Tenants, Billing(t)
  PROVE  Billing(t)'
<1>1. /\ UsageInv' /\ UsageGrows /\ job[j].took \subseteq RecordIds
      /\ \A r \in RecordIds : (record'[r] # Nothing <=> record[r] # Nothing) /\ (r \notin job[j].took => record'[r] = record[r])
      /\ \A r \in job[j].took : record[r] # Nothing /\ record'[r].billed /\ record'[r].count = record[r].count
  BY CommitPushKeeps, Zenon
<1>2. Close(j) /\ UNCHANGED <<tasks, reported>> /\ UsageTypes
  BY DEF CommitPush, UsageInv
<1>3. job'[j] = NoJob /\ OtherJobsStay(j)
  BY <1>2, JobClosed
<1>4. RecordsOf(t)' = RecordsOf(t) /\ RecordsOf(t) \subseteq RecordIds
  <2>1. \A r \in Jobs \X {t} : record'[r] # Nothing <=> record[r] # Nothing
    BY <1>1 DEF RecordIds
  <2>2. RecordsOf(t)' = {r \in Jobs \X {t} : record'[r] # Nothing}
    BY DEF RecordsOf
  <2> QED BY <2>1, <2>2 DEF RecordsOf, RecordIds
<1>5. \A o \in Jobs, r \in RecordsOf(t) : Holds(o, r)' => Holds(o, r) /\ o # j
  BY <1>3 DEF Holds, Stands, OtherJobsStay, NoJob
<1>6. \A r \in RecordsOf(t)', o, p \in Jobs : Holds(o, r)' /\ Holds(p, r)' => o = p
  BY <1>4, <1>5 DEF Billing
<1>7. ASSUME NEW r \in RecordsOf(t)', NEW o \in Jobs, Holds(o, r)' PROVE ~record'[r].billed
  <2>1. r \in RecordsOf(t) /\ Holds(o, r) /\ o # j
    BY <1>4, <1>5, <1>7
  <2>2. r \notin job[j].took
    BY <2>1, TakenHeld DEF Billing
  <2> QED BY <1>1, <1>4, <2>1, <2>2 DEF Billing
<1>8. ASSUME \A r \in RecordsOf(t)' : ~record'[r].billed /\ \A o \in Jobs : r \notin job'[o].took
      PROVE  reported'[t] = 0
  <2>1. \A r \in RecordsOf(t) : r \notin job[j].took
    BY <1>1, <1>4, <1>8
  <2>2. \A r \in RecordsOf(t) : record'[r] = record[r]
    BY <1>1, <1>4, <2>1
  <2>3. \A r \in RecordsOf(t) : ~record[r].billed /\ \A o \in Jobs : r \notin job[o].took
    BY <1>3, <1>4, <1>8, <2>1, <2>2 DEF OtherJobsStay
  <2> QED BY <1>2, <2>3 DEF Billing
<1>9. reported'[t] <= tasks'[t]
  BY <1>2 DEF Billing
<1> QED BY <1>6, <1>7, <1>8, <1>9 DEF Billing

LEMMA CompleteTaskBills ==
  ASSUME UsageInv, NEW u \in Tenants, CompleteTask(u), NEW t \in Tenants, Billing(t)
  PROVE  Billing(t)'
<1>1. UNCHANGED <<record, job, reported>> /\ UsageTypes /\ UsageGrows
  BY DEF CompleteTask, UsageInv, UsageTypes, UsageGrows
<1>2. RecordsOf(t)' = RecordsOf(t) /\ \A o \in Jobs, r \in RecordsOf(t) : Holds(o, r)' <=> Holds(o, r)
  BY <1>1 DEF RecordsOf, Holds, Stands
<1> QED BY <1>1, <1>2, BillingStays

LEMMA BilledOnceStep == UsageInv /\ BilledOnce /\ [UsageNext]_uvars => BilledOnce'
<1> SUFFICES ASSUME UsageInv, BilledOnce, [UsageNext]_uvars, NEW t \in Tenants, Sole(t)'
             PROVE  Billing(t)'
  BY DEF BilledOnce
<1>0. UsageTypes
  BY DEF UsageInv
<1>1. ASSUME UNCHANGED uvars PROVE Billing(t)'
  <2>1. UNCHANGED <<tasks, record, job, reported, suspect>>
    BY <1>1 DEF uvars
  <2>2. Sole(t)
    BY <2>1 DEF Sole, RecordsOf
  <2>3. Billing(t)
    BY <2>2 DEF BilledOnce
  <2>4. UsageGrows
    BY <1>0, <2>1, UsageStands
  <2>5. RecordsOf(t)' = RecordsOf(t)
    BY <2>1 DEF RecordsOf
  <2>6. \A o \in Jobs : \A r \in RecordsOf(t) : Holds(o, r)' <=> Holds(o, r)
    BY <2>1 DEF Holds, Stands
  <2>7. \A r \in RecordsOf(t) : record'[r].billed <=> record[r].billed
    BY <2>1
  <2>8. \A r \in RecordsOf(t), o \in Jobs : r \in job[o].took => r \in job'[o].took
    BY <2>1
  <2> QED BY <1>0, <2>1, <2>3, <2>4, <2>5, <2>6, <2>7, <2>8, BillingStays
<1>2. ASSUME UsageNext PROVE Billing(t)'
  <2>1. suspect \subseteq suspect'
    <3>1. ASSUME NEW u \in Tenants, CompleteTask(u) PROVE suspect \subseteq suspect'
      BY <3>1 DEF CompleteTask
    <3>2. ASSUME NEW j \in Jobs, AbandonJob(j) PROVE suspect \subseteq suspect'
      BY <3>2 DEF AbandonJob
    <3>3. ASSUME NEW j \in Jobs, StartAggregation(j) \/ CountTasks(j) \/ StartPush(j) \/ SelectRecord(j)
          PROVE  suspect \subseteq suspect'
      BY <3>2, <3>3 DEF StartAggregation, CountTasks, StartPush, SelectRecord, Begin, InJob
    <3>4. ASSUME NEW j \in Jobs, StoreRecord(j) \/ ReportUsage(j) \/ Fail(j)
          PROVE  suspect \subseteq suspect'
      BY <3>2, <3>4 DEF StoreRecord, ReportUsage, Fail, InJob
    <3>5. ASSUME NEW j \in Jobs, CommitAggregation(j) \/ CommitPush(j)
          PROVE  suspect \subseteq suspect'
      BY <3>2, <3>5 DEF CommitAggregation, CommitPush
    <3> QED BY <1>2, <3>1, <3>2, <3>3, <3>4, <3>5 DEF UsageNext
  <2>2. UsageGrows
    <3>1. ASSUME NEW u \in Tenants, CompleteTask(u) PROVE UsageGrows
      BY <1>0, <3>1 DEF CompleteTask, UsageTypes, UsageGrows
    <3>2. ASSUME NEW j \in Jobs, CommitAggregation(j) \/ CommitPush(j) PROVE UsageGrows
      BY <3>2, CommitAggregationKeeps, CommitPushKeeps, Zenon
    <3>3. ASSUME NEW j \in Jobs,
                 StartAggregation(j) \/ SelectRecord(j) \/ CountTasks(j) \/ StoreRecord(j)
                   \/ StartPush(j) \/ ReportUsage(j) \/ Fail(j)
          PROVE  UNCHANGED <<tasks, record>>
      BY <3>3 DEF StartAggregation, SelectRecord, CountTasks, StoreRecord, StartPush, ReportUsage, Fail,
                  Begin, InJob, AbandonJob
    <3> QED BY <1>0, <1>2, <3>1, <3>2, <3>3, UsageStands DEF UsageNext
  <2>3. Sole(t) /\ t \notin suspect' /\ RecordsOf(t) \subseteq RecordsOf(t)' /\ \A r, s \in RecordsOf(t)' : r = s
    BY <2>1, <2>2, SoleBefore
  <2>4. Billing(t)
    BY <2>3 DEF BilledOnce
  <2>5. \A r, s \in RecordsOf(t) : r = s
    BY <2>3
  <2>6. ASSUME NEW u \in Tenants, CompleteTask(u) PROVE Billing(t)'
    BY <2>4, <2>6, CompleteTaskBills
  <2>7. ASSUME NEW j \in Jobs, StartAggregation(j) PROVE Billing(t)'
    <3>1. OtherJobsStay(j) /\ job'[j].pc = "next" /\ UNCHANGED <<record, reported>> /\ job[j].took = {}
      BY <1>0, <2>7 DEF StartAggregation, Begin, UsageTypes, OtherJobsStay, NoJob,
                        UsageInv, CountsAreTasks, Counted, Stands
    <3> QED BY <1>0, <2>2, <2>4, <3>1, AggregationBills DEF Stands
  <2>8. ASSUME NEW j \in Jobs, SelectRecord(j) PROVE Billing(t)'
    BY <2>4, <2>8, SelectRecordBills
  <2>9. ASSUME NEW j \in Jobs, CountTasks(j) PROVE Billing(t)'
    BY <2>4, <2>9, CountTasksBills
  <2>10. ASSUME NEW j \in Jobs, StoreRecord(j) PROVE Billing(t)'
    BY <2>4, <2>10, StoreRecordBills
  <2>11. ASSUME NEW j \in Jobs, CommitAggregation(j) PROVE Billing(t)'
    BY <2>3, <2>4, <2>11, CommitAggregationBills
  <2>12. ASSUME NEW j \in Jobs, StartPush(j) PROVE Billing(t)'
    BY <2>3, <2>4, <2>12, StartPushBills
  <2>13. ASSUME NEW j \in Jobs, ReportUsage(j) PROVE Billing(t)'
    BY <2>3, <2>4, <2>5, <2>13, ReportUsageBills
  <2>14. ASSUME NEW j \in Jobs, CommitPush(j) PROVE Billing(t)'
    BY <2>4, <2>14, CommitPushBills
  <2>15. ASSUME NEW j \in Jobs, Fail(j) PROVE Billing(t)'
    <3>1. Close(j) /\ UNCHANGED <<tasks, record, reported>> /\ suspect' = suspect \cup TenantsOf(job[j].took)
      BY <2>15 DEF Fail, AbandonJob
    <3>2. \A r \in job[j].took : r[2] # t
      BY <2>3, <3>1 DEF TenantsOf
    <3> QED BY <1>0, <2>4, <3>1, <3>2, CloseBills
  <2> QED BY <1>2, <2>6, <2>7, <2>8, <2>9, <2>10, <2>11, <2>12, <2>13, <2>14, <2>15 DEF UsageNext
<1> QED BY <1>1, <1>2

LEMMA BilledOnceStart == UsageInit => BilledOnce
<1> SUFFICES ASSUME UsageInit, NEW t \in Tenants PROVE Billing(t)
  BY DEF BilledOnce
<1>1. RecordsOf(t) = {}
  BY DEF UsageInit, RecordsOf, RecordIds
<1> QED BY <1>1 DEF UsageInit, Billing

\* For any number of jobs and tenants, Stripe is told of no more tasks than a
\* tenant ran, unless a push it had taken did not commit, two pushes had read
\* the same record, or the tenant has two records of the period
\* (push_usage_to_stripe, report_usage).
THEOREM NeverTellsOfMoreThanRan == UsageSpec => []NeverOverbilled
<1>1. UsageInit => UsageInv /\ BilledOnce
  BY UsageStarts, BilledOnceStart
<1>2. UsageInv /\ BilledOnce /\ [UsageNext]_uvars => (UsageInv /\ BilledOnce)'
  BY UsageInvStep, BilledOnceStep
<1>3. UsageInv /\ BilledOnce => NeverOverbilled
  <2> SUFFICES ASSUME UsageInv, BilledOnce, NEW t \in Tenants, reported[t] > tasks[t], t \notin suspect,
                      ~(Cardinality(RecordsOf(t)) > 1)
               PROVE  FALSE
    BY DEF NeverOverbilled
  <2>1. Cardinality(RecordsOf(t)) \in Nat
    BY RecordNames, FS_CardinalityType
  <2>2. Billing(t)
    BY <2>1 DEF Sole, BilledOnce
  <2> QED BY <2>2 DEF Billing, UsageInv, UsageTypes
<1> QED BY <1>1, <1>2, <1>3, PTL DEF UsageSpec

=============================================================================
