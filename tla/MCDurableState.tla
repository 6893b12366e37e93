--------------------------- MODULE MCDurableState ---------------------------
(***************************************************************************)
(* Small instances of the three libraries that keep state in tables inside *)
(* their caller's transaction.  They share no table and no object, so each *)
(* behaviour exercises one of them and the others stay as they began.      *)
(***************************************************************************)
EXTENDS AgentMemory, Checkpoints, UsageMetering, TLC

CONSTANTS m1, m2, m3, a, b

MCAgentOf == m1 :> a @@ m2 :> a @@ m3 :> b

Symmetry == Permutations(Jobs) \cup Permutations(Tenants) \cup Permutations(Processes)
              \cup Permutations({m1, m2})

VARIABLE part

Init ==
  /\ part \in {"memory", "checkpoints", "metering"}
  /\ MemoryInit /\ CheckpointInit /\ UsageInit
  /\ part # "memory" => scope = "agent"

Next ==
  /\ UNCHANGED part
  /\ \/ part = "memory" /\ MemoryNext /\ UNCHANGED <<cvars, uvars>>
     \/ part = "checkpoints" /\ CheckpointNext /\ UNCHANGED <<mvars, uvars>>
     \/ part = "metering" /\ UsageNext /\ UNCHANGED <<mvars, cvars>>

Spec == Init /\ [][Next]_<<part, mvars, cvars, uvars>>

-----------------------------------------------------------------------------
(* Bounded checks of the session memory, which is not stored anywhere: up  *)
(* to four calls, one per tick of the clock.                               *)

Session == INSTANCE SessionMemory

Calls == [call : {"set", "get", "delete"}, key : {1, 2}]
Histories(n) == UNION {[1..i -> Calls] : i \in 0..n}

StoreAfter(h, ttl) ==
  LET sofar[i \in 0..Len(h)] ==
        IF i = 0 THEN <<>>
        ELSE CASE h[i].call = "set" -> Session!Put(sofar[i - 1], h[i].key, i, i, ttl)
               [] h[i].call = "get" -> Session!AfterFetch(sofar[i - 1], h[i].key, i)
               [] OTHER -> Session!Without(sofar[i - 1], h[i].key)
  IN sofar[Len(h)]

\* What a key was last set to, unless it was deleted since or expired, and
\* nothing else: whichever entries were removed in between.
ASSUME SessionRemembers ==
  \A h \in Histories(4) : \A k \in {1, 2}, now \in Len(h)..Len(h) + 1 :
    LET set == {i \in DOMAIN h : h[i] = [call |-> "set", key |-> k] /\ now <= i + 2 /\
                  \A j \in i + 1..Len(h) : h[j].key = k => h[j].call = "get"}
        left == StoreAfter(h, 2)
    IN /\ Session!Fetch(left, k, now, 0) = IF set = {} THEN 0 ELSE CHOOSE i \in set : TRUE
       /\ k \in Session!KeysOf(Session!Collect(left, now)) <=> set # {}

\* The one entry a context has room for is the oldest, not the most recent.
ASSUME SessionShowsOldest ==
  \A h \in Histories(3) :
    h # <<>> /\ (\A i \in DOMAIN h : h[i].call = "set") =>
      Session!ContextEntries(StoreAfter(h, 9), Len(h), 1)[1].key = h[1].key
=============================================================================
