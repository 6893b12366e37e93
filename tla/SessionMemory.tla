--------------------------- MODULE SessionMemory ----------------------------
(***************************************************************************)
(* The session memory of one task (core/memory.py): a dictionary in        *)
(* insertion order whose entries expire, here the sequence of its          *)
(* [key, value, expires].                                                  *)
(***************************************************************************)
EXTENDS Integers, SequencesExt

KeysOf(store) == {store[i].key : i \in DOMAIN store}
EntryOf(store, k) == store[CHOOSE i \in DOMAIN store : store[i].key = k]
Without(store, k) == SelectSeq(store, LAMBDA e : e.key # k)

\* An entry expires when the clock has passed its expires_at.
Expired(e, now) == now > e.expires

\* _gc.
Collect(store, now) == SelectSeq(store, LAMBDA e : ~Expired(e, now))

\* get: what is returned, and what is left; an expired entry is removed.
Fetch(store, k, now, default) ==
  IF k \notin KeysOf(store) \/ Expired(EntryOf(store, k), now) THEN default
  ELSE EntryOf(store, k).value
AfterFetch(store, k, now) ==
  IF k \in KeysOf(store) /\ Expired(EntryOf(store, k), now) THEN Without(store, k) ELSE store

\* set: a key that is there, expired or not, keeps its place.
Put(store, k, value, now, ttl) ==
  LET entry == [key |-> k, value |-> value, expires |-> now + ttl]
  IN IF k \in KeysOf(store) THEN [i \in DOMAIN store |-> IF store[i].key = k THEN entry ELSE store[i]]
     ELSE Append(store, entry)

\* to_context_string: the first max_items of what is not expired.
ContextEntries(store, now, maxItems) ==
  LET live == Collect(store, now)
  IN SubSeq(live, 1, IF Len(live) < maxItems THEN Len(live) ELSE maxItems)
=============================================================================
