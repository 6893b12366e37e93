---------------------------- MODULE Idempotency -----------------------------
(***************************************************************************)
(* The idempotency middleware (middleware/idempotency.py) under the retry  *)
(* loop of the Python SDK (sdks/python/.../_transport.py).  A call sends   *)
(* up to MaxResends + 1 attempts with one Idempotency-Key; a timed-out     *)
(* attempt is still being served while the next one arrives.               *)
(*                                                                         *)
(* A response is its status class and which execution of the handler made  *)
(* it.  The middleware looks the key up before it awaits the handler and   *)
(* stores the response after: the two are separate steps, with other       *)
(* requests between them.                                                  *)
(***************************************************************************)
EXTENDS Integers, FiniteSets, SequencesExt

CONSTANTS
  Calls,        (* calls of the SDK                                          *)
  Keys,
  KeyOf,        (* the Idempotency-Key of a call, with the caller's scope    *)
  MaxResends,   (* max_retries of the transport                              *)
  CacheSize,    (* _MAX_CACHE_SIZE                                           *)
  Ttl,          (* _CACHE_TTL                                                *)
  MaxNow,       (* bound: clock                                              *)
  MaxRestarts   (* bound: restarts of the server                             *)

ASSUME IdempotencyAssumption ==
  /\ KeyOf \in [Calls -> Keys]
  /\ MaxResends \in Nat /\ CacheSize \in Nat \ {0} /\ Ttl \in Nat
  /\ MaxNow \in Nat /\ MaxRestarts \in Nat

VARIABLES
  now,
  call,         (* where a call stands: [pc, attempt, answer]                *)
  srv,          (* where the server is with each attempt, and its response   *)
  cache,        (* _store: entries [key, born, reply], least recent first    *)
  execs,        (* executions of the mutation under a key                    *)
  why,          (* history: what let a key through a second time             *)
  restarts

callVars == <<now, call, srv, cache, execs, why, restarts>>

Attempts == Calls \X (0..MaxResends)
NoReply == [status |-> "none", exec |-> 0]
Statuses == {"ok", "rejected", "error", "limited"}  (* 2xx, 4xx, 5xx, 429 *)
RetryStatuses == {"error", "limited"}
Causes == {"overlap", "evicted", "expired", "error", "restart"}

CallsInit ==
  /\ now = 0
  /\ call = [c \in Calls |-> [pc |-> "ready", attempt |-> 0, answer |-> NoReply]]
  /\ srv = [a \in Attempts |-> [pc |-> "none", reply |-> NoReply]]
  /\ cache = <<>>
  /\ execs = [k \in Keys |-> 0] /\ why = [k \in Keys |-> {}]
  /\ restarts = 0

-----------------------------------------------------------------------------
(* The store.                                                              *)

Entry(k) == {i \in DOMAIN cache : cache[i].key = k}
\* An OrderedDict: no two entries have one key.
Without(k) == IF Entry(k) = {} THEN cache ELSE RemoveAt(cache, CHOOSE i \in Entry(k) : TRUE)

\* get() deletes an entry that is too old and moves one it returns to the end.
Expired(e) == now - e.born > Ttl
Hit(k) == \E i \in Entry(k) : ~Expired(cache[i])
\* Mutant of Got: a miss empties the store.
GotOrCleared(k) == IF Hit(k) THEN Append(Without(k), cache[CHOOSE i \in Entry(k) : TRUE])
                             ELSE <<>>

Got(k) == IF Hit(k) THEN Append(Without(k), cache[CHOOSE i \in Entry(k) : TRUE])
                    ELSE Without(k)

\* set() puts the entry at the end and pops from the front what is too much.
Added(k, reply) == Append(Without(k), [key |-> k, born |-> now, reply |-> reply])
Excess(s) == IF Len(s) > CacheSize THEN Len(s) - CacheSize ELSE 0

Trim(s) == SubSeq(s, Excess(s) + 1, Len(s))
Popped(s) == {s[i].key : i \in 1..Excess(s)}

Blame(ks, cause) == [k \in Keys |-> IF k \in ks THEN why[k] \cup {cause} ELSE why[k]]

-----------------------------------------------------------------------------
(* The client's retry loop: request().                                     *)

\* What a call does with an attempt that failed or was answered with a
\* status it retries: sleep and go round, or give up.
GiveUp(c, answer) ==
  call' = [call EXCEPT ![c] =
             IF @.attempt < MaxResends
             THEN [@ EXCEPT !.pc = "ready", !.attempt = call[c].attempt + 1]
             ELSE [@ EXCEPT !.pc = "done", !.answer = answer]]

Send(c) ==
  /\ call[c].pc = "ready"
  /\ call' = [call EXCEPT ![c].pc = "waiting"]
  /\ srv' = [srv EXCEPT ![<<c, call[c].attempt>>].pc = "received"]
  /\ UNCHANGED <<now, cache, execs, why, restarts>>

\* ConnectError: the request never arrived.
ConnectFails(c) ==
  /\ call[c].pc = "ready"
  /\ GiveUp(c, NoReply)
  /\ UNCHANGED <<now, srv, cache, execs, why, restarts>>

\* ReadTimeout: the server goes on with the attempt.
TimesOut(c) ==
  /\ call[c].pc = "waiting"
  /\ GiveUp(c, NoReply)
  /\ UNCHANGED <<now, srv, cache, execs, why, restarts>>

\* The response to an attempt reaches a client that still waits for it.
Deliver(a, reply) ==
  /\ srv' = [srv EXCEPT ![a] = [pc |-> "gone", reply |-> reply]]
  /\ LET c == a[1] IN
     IF call[c].pc # "waiting" \/ call[c].attempt # a[2] THEN UNCHANGED call
     ELSE IF reply.status \in RetryStatuses THEN GiveUp(c, reply)
     ELSE call' = [call EXCEPT ![c].pc = "done", ![c].answer = reply]

-----------------------------------------------------------------------------
(* The server: dispatch().                                                 *)

\* The rate limiter, the middleware outside this one, refuses.
Limited(a) ==
  /\ srv[a].pc = "received"
  /\ Deliver(a, [status |-> "limited", exec |-> 0])
  /\ UNCHANGED <<now, cache, execs, why, restarts>>

Serving(k) == {a \in Attempts : KeyOf[a[1]] = k /\ srv[a].pc \in {"running", "executed"}}

Replay(a) ==
  /\ srv[a].pc = "received" /\ Hit(KeyOf[a[1]])
  /\ cache' = Got(KeyOf[a[1]])
  /\ Deliver(a, Last(Got(KeyOf[a[1]])).reply)
  /\ UNCHANGED <<now, execs, why, restarts>>

\* Not in the store: on to the handler, whoever else is there already.
Miss(a) ==
  LET k == KeyOf[a[1]] IN
  /\ srv[a].pc = "received" /\ ~Hit(k)
  /\ cache' = Got(k)
  /\ srv' = [srv EXCEPT ![a].pc = "running"]
  /\ why' = [why EXCEPT ![k] = @ \cup
               (IF Serving(k) # {} THEN {"overlap"} ELSE {}) \cup
               (IF Entry(k) # {} THEN {"expired"} ELSE {})]
  /\ UNCHANGED <<now, call, execs, restarts>>

\* The handler: the mutation with its 2xx, a refusal, or a 5xx that comes
\* before the mutation or after it.
Execute(a) ==
  LET k == KeyOf[a[1]] IN
  /\ srv[a].pc = "running"
  /\ \E status \in {"ok", "rejected", "error"}, mutates \in BOOLEAN :
       /\ status = "ok" => mutates
       /\ status = "rejected" => ~mutates
       /\ execs' = [execs EXCEPT ![k] = IF mutates THEN @ + 1 ELSE @]
       /\ srv' = [srv EXCEPT ![a] = [pc |-> "executed", reply |->
                    [status |-> status, exec |-> IF mutates THEN execs[k] + 1 ELSE 0]]]
       /\ why' = IF status = "error" /\ mutates THEN Blame({k}, "error") ELSE why
  /\ UNCHANGED <<now, call, cache, restarts>>

\* Mutant of StoreAndReply: the status test is the wrong way round.
StoreErrorsOnly(a) ==
  LET k == KeyOf[a[1]]
      full == Added(k, srv[a].reply)
  IN
  /\ srv[a].pc = "executed"
  /\ IF srv[a].reply.status # "error"
     THEN UNCHANGED <<cache, why>>
     ELSE cache' = Trim(full) /\ why' = Blame(Popped(full), "evicted")
  /\ Deliver(a, srv[a].reply)
  /\ UNCHANGED <<now, execs, restarts>>

\* 200 <= status < 500 is stored; a 5xx is passed on as it is.
StoreAndReply(a) ==
  LET k == KeyOf[a[1]]
      full == Added(k, srv[a].reply)
  IN
  /\ srv[a].pc = "executed"
  /\ IF srv[a].reply.status = "error"
     THEN UNCHANGED <<cache, why>>
     ELSE cache' = Trim(full) /\ why' = Blame(Popped(full), "evicted")
  /\ Deliver(a, srv[a].reply)
  /\ UNCHANGED <<now, execs, restarts>>

\* The process restarts: the store is in memory, and requests under way are
\* cut off (a ReadError, which the client does not retry).
Restart ==
  /\ restarts < MaxRestarts
  /\ restarts' = restarts + 1
  /\ cache' = <<>>
  /\ srv' = [a \in Attempts |-> IF srv[a].pc = "none" THEN srv[a]
                                ELSE [srv[a] EXCEPT !.pc = "gone"]]
  /\ call' = [c \in Calls |-> IF call[c].pc = "waiting"
                              THEN [call[c] EXCEPT !.pc = "done"] ELSE call[c]]
  /\ why' = Blame(Keys, "restart")
  /\ UNCHANGED <<now, execs>>

Tick == now < MaxNow /\ now' = now + 1 /\ UNCHANGED <<call, srv, cache, execs, why, restarts>>

-----------------------------------------------------------------------------

Client(c) == Send(c) \/ ConnectFails(c) \/ TimesOut(c)
Serve(a) == Limited(a) \/ Replay(a) \/ Miss(a) \/ Execute(a) \/ StoreAndReply(a)

Finished == (\A c \in Calls : call[c].pc = "done") /\ UNCHANGED callVars

CallsNext ==
  \/ \E c \in Calls : Client(c)
  \/ \E a \in Attempts : Serve(a)
  \/ Restart \/ Tick \/ Finished

CallsSpec == CallsInit /\ [][CallsNext]_callVars

-----------------------------------------------------------------------------

CallsTypeOK ==
  /\ now \in 0..MaxNow /\ restarts \in 0..MaxRestarts
  /\ call \in [Calls -> [pc : {"ready", "waiting", "done"}, attempt : 0..MaxResends,
                         answer : [status : Statuses \cup {"none"}, exec : Nat]]]
  /\ \A a \in Attempts : srv[a].pc \in {"none", "received", "running", "executed", "gone"}
  /\ Len(cache) <= CacheSize
  /\ execs \in [Keys -> Nat] /\ why \in [Keys -> SUBSET Causes]

\* A key is executed twice only if two attempts overlapped, its response was
\* evicted, expired or lost with the process, or was a 5xx sent after the
\* mutation: the store never forgets a key for any other reason.
DuplicatesExplained == \A k \in Keys : execs[k] > 1 => why[k] # {}

\* Until something of that kind happens, every attempt under a key that is
\* answered 2xx, in whichever call, is told of the same single execution.
AnswersAgree ==
  \A a, b \in Attempts :
    /\ KeyOf[a[1]] = KeyOf[b[1]] /\ why[KeyOf[a[1]]] = {}
    /\ srv[a].reply.status = "ok" /\ srv[b].reply.status = "ok"
    => srv[a].reply = srv[b].reply

-----------------------------------------------------------------------------

=============================================================================
