---------------------------- MODULE RateLimiter -----------------------------
(***************************************************************************)
(* The sliding-window limiter of middleware/rate_limit.py, for one key, in *)
(* several server processes over one Redis.  A process whose Redis fails   *)
(* uses a limiter in its own memory from then on.                          *)
(*                                                                         *)
(* Redis executes the pipeline of a check as one transaction; the zrem of  *)
(* a refused entry is a call of its own, and other processes come between. *)
(* Time is counted in ticks, Second of them to a second; reading the       *)
(* clock for Redis takes a tick of its own, for the members of the sorted  *)
(* set are timestamps and those of two processes are taken to differ.      *)
(***************************************************************************)
EXTENDS Integers, Sequences, FiniteSets

CONSTANTS
  Procs,        (* server processes                                          *)
  Limit,        (* rate_limit_default_rpm                                    *)
  Window,       (* in ticks                                                  *)
  Second,       (* ticks in a second                                         *)
  MaxClock      (* bound: clock                                              *)

ASSUME LimiterAssumption ==
  /\ Limit \in Nat \ {0} /\ Window \in Nat \ {0} /\ Second \in Nat \ {0}
  /\ MaxClock \in Nat \ {0}
\* A fleet has some processes, and not infinitely many.
ASSUME FleetAssumption == IsFiniteSet(Procs) /\ Procs # {}

VARIABLES
  clock,        (* time.time()                                               *)
  redis,        (* sorted set of the key: its members, which are their scores *)
  memory,       (* _memory_store[key] of each process                         *)
  proc,         (* [pc, at]: where a process is in check(), and its `now`       *)
  fallback,     (* processes whose _fallback is set                           *)
  admitted,     (* history: admitted requests [at, by, via]: clock, process      *)
  refusal       (* history: the last refusal [at, retry, by, via]                *)

limiterVars == <<clock, redis, memory, proc, fallback, admitted, refusal>>

Via == {"redis", "memory"}
NoRefusal == [via |-> "none"]
AtRest(p) == [proc EXCEPT ![p] = [pc |-> "idle", at |-> 0]]

LimiterInit ==
  /\ clock = 1
  /\ redis = {}
  /\ memory = [p \in Procs |-> <<>>]
  /\ proc = [p \in Procs |-> [pc |-> "idle", at |-> 0]]
  /\ fallback \in SUBSET Procs            (* the first ping() failed *)
  /\ admitted = <<>> /\ refusal = NoRefusal

\* retry_after = int(window - (now - oldest)) + 1, in ticks.
Truncated(ticks) == IF ticks >= 0 THEN ticks \div Second ELSE -((-ticks) \div Second)
\* Mutant of RetryAfter: the fraction of a second is not made up for.
RetryAfterTruncated(at, oldest) == Truncated(Window - (at - oldest)) * Second

RetryAfter(at, oldest) == (Truncated(Window - (at - oldest)) + 1) * Second

Admit(p, at, via) == admitted' = Append(admitted, [at |-> at, by |-> p, via |-> via])
Refuse(p, at, oldest, via) ==
  refusal' = [at |-> at, retry |-> RetryAfter(at, oldest), by |-> p, via |-> via]

-----------------------------------------------------------------------------

\* The timestamps within the window: the list is in ascending order, and those
\* that are too old are its beginning.
Live(p) ==
  LET old == {i \in DOMAIN memory[p] : memory[p][i] <= clock - Window}
  IN  SubSeq(memory[p], Cardinality(old) + 1, Len(memory[p]))

\* Mutant of CheckMemory: ">" for ">=".
CheckMemoryLate(p) ==
  IF Len(Live(p)) > Limit
  THEN /\ memory' = [memory EXCEPT ![p] = Live(p)]
       /\ Refuse(p, clock, Live(p)[1], "memory")
       /\ UNCHANGED admitted
  ELSE /\ memory' = [memory EXCEPT ![p] = Append(Live(p), clock)]
       /\ Admit(p, clock, "memory")
       /\ UNCHANGED refusal

\* _InMemoryLimiter.check: no await and no other thread in it.
CheckMemory(p) ==
  IF Len(Live(p)) >= Limit
  THEN /\ memory' = [memory EXCEPT ![p] = Live(p)]
       /\ Refuse(p, clock, Live(p)[1], "memory")
       /\ UNCHANGED admitted
  ELSE /\ memory' = [memory EXCEPT ![p] = Append(Live(p), clock)]
       /\ Admit(p, clock, "memory")
       /\ UNCHANGED refusal

InMemory(p) ==
  /\ p \in fallback /\ proc[p].pc = "idle"
  /\ CheckMemory(p)
  /\ UNCHANGED <<clock, redis, proc, fallback>>

\* now = time.time(), before the pipeline is sent.
ReadClock(p) ==
  /\ p \notin fallback /\ proc[p].pc = "idle" /\ clock < MaxClock
  /\ clock' = clock + 1
  /\ proc' = [proc EXCEPT ![p] = [pc |-> "clock", at |-> clock']]
  /\ UNCHANGED <<redis, memory, fallback, admitted, refusal>>

\* zremrangebyscore(0, now - window), zadd now, zcard.
Kept(at) == {t \in redis : t > at - Window}
\* Mutant of Pipeline: the count is compared as if taken before the zadd.
PipelineLate(p) ==
  LET at == proc[p].at
      set == Kept(at) \cup {at}
  IN
  /\ proc[p].pc = "clock"
  /\ redis' = set
  /\ IF Cardinality(set) > Limit + 1
     THEN proc' = [proc EXCEPT ![p].pc = "over"] /\ UNCHANGED admitted
     ELSE proc' = AtRest(p) /\ Admit(p, at, "redis")
  /\ UNCHANGED <<clock, memory, fallback, refusal>>

Pipeline(p) ==
  LET at == proc[p].at
      set == Kept(at) \cup {at}
  IN
  /\ proc[p].pc = "clock"
  /\ redis' = set
  /\ IF Cardinality(set) > Limit
     THEN proc' = [proc EXCEPT ![p].pc = "over"] /\ UNCHANGED admitted
     ELSE proc' = AtRest(p) /\ Admit(p, at, "redis")
  /\ UNCHANGED <<clock, memory, fallback, refusal>>

\* zrem of the own entry, then zrange(0, 0) for the oldest: two calls that
\* Redis may serve others between.
RemoveOwn(p) ==
  /\ proc[p].pc = "over"
  /\ redis' = redis \ {proc[p].at}
  /\ proc' = [proc EXCEPT ![p].pc = "removed"]
  /\ UNCHANGED <<clock, memory, fallback, admitted, refusal>>

Oldest(default) == IF redis = {} THEN default ELSE CHOOSE t \in redis : \A u \in redis : t <= u
Respond(p) ==
  /\ proc[p].pc = "removed"
  /\ Refuse(p, proc[p].at, Oldest(proc[p].at), "redis")
  /\ proc' = AtRest(p)
  /\ UNCHANGED <<clock, redis, memory, fallback, admitted>>

\* A Redis call raises, the command executed or not: in memory for good.
RedisFails(p) ==
  /\ proc[p].pc # "idle"
  /\ \/ UNCHANGED redis
     \/ proc[p].pc = "clock" /\ redis' = Kept(proc[p].at) \cup {proc[p].at}
     \/ proc[p].pc = "over" /\ redis' = redis \ {proc[p].at}
  /\ fallback' = fallback \cup {p}
  /\ CheckMemory(p)
  /\ proc' = AtRest(p)
  /\ UNCHANGED clock

ClockTick == clock < MaxClock /\ clock' = clock + 1
        /\ UNCHANGED <<redis, memory, proc, fallback, admitted, refusal>>

\* The clock has reached its bound and no check is under way.
Horizon == clock = MaxClock /\ (\A p \in Procs : proc[p].pc = "idle") /\ UNCHANGED limiterVars

Check(p) ==
  \/ InMemory(p) \/ ReadClock(p) \/ Pipeline(p) \/ RemoveOwn(p) \/ Respond(p) \/ RedisFails(p)
LimiterNext == ClockTick \/ Horizon \/ \E p \in Procs : Check(p)

LimiterSpec == LimiterInit /\ [][LimiterNext]_limiterVars

-----------------------------------------------------------------------------

LimiterTypeOK ==
  /\ clock \in 1..MaxClock /\ redis \subseteq 1..MaxClock
  /\ memory \in [Procs -> Seq(1..MaxClock)]
  /\ proc \in [Procs -> [pc : {"idle", "clock", "over", "removed"}, at : 0..MaxClock]]
  /\ fallback \subseteq Procs
  /\ admitted \in Seq([at : 1..MaxClock, by : Procs, via : Via])
  /\ refusal \in [at : 0..MaxClock, retry : Int, by : Procs, via : Via] \cup {NoRefusal}

\* Requests admitted by the processes ps through the stores `via` at instants
\* in (low, high].
Within(low, high, ps, via) ==
  Cardinality({i \in DOMAIN admitted :
                 /\ admitted[i].by \in ps /\ admitted[i].via \in via
                 /\ admitted[i].at > low /\ admitted[i].at <= high})

\* The window of a process on its own memory is exact: never more than Limit
\* admitted in any window, wherever it lies, and a refusal only when Limit were
\* admitted in the window before (an entry is dropped by >, counted by >=).
MemoryWindowExact ==
  /\ \A p \in Procs, t \in 1..MaxClock : Within(t - Window, t, {p}, {"memory"}) <= Limit
  /\ refusal.via = "memory" =>
       Within(refusal.at - Window, refusal.at, {refusal.by}, {"memory"}) >= Limit

\* Who waits for the seconds of its Retry-After is not refused on account of
\* anything admitted before the refusal (int() truncates, then + 1).
RetryAfterSuffices ==
  refusal.via = "memory" =>
    Within(refusal.at + refusal.retry - Window, refusal.at, {refusal.by}, {"memory"}) < Limit

\* The whole fleet: beyond Limit, one request per other process that read the
\* clock early, and Limit more for each process thrown back on its memory.
FleetBound ==
  \A t \in 1..MaxClock :
    Within(t - Window, t, Procs, Via)
      <= Limit + Cardinality(Procs) - 1 + Limit * Cardinality(fallback)

=============================================================================
