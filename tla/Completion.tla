------------------------------ MODULE Completion ------------------------------
(* connectors/llm.py: completions with retries, a chain of fallback models *)
(* and a circuit breaker per model that all calls of a process share.      *)
(*                                                                         *)
(* A request stands at an await (the provider, a back-off, the next chunk  *)
(* of a stream) or has ended; what the code does between two awaits is one *)
(* action.  Times are kept as ages, so the clock needs no bound: an entry  *)
(* of `failures` leaves when it is Window old (the code drops it at the    *)
(* next look, and nothing reads it in between).                            *)
EXTENDS Integers, Sequences, FiniteSets, FiniteSetsExt

CONSTANTS
  Askers,         \* tasks of the process that ask for completions
  Models,
  FallbackChain,  \* [Models -> Seq(Models)], the model asked for first
  MaxRetries,     \* attempts per candidate
  BaseDelay,      \* ticks before the second attempt
  Threshold,      \* recent failures that open a circuit
  Window          \* ticks a failure is recent

ASSUME ChainAssumption ==
  FallbackChain \in [Models -> Seq(Models)] /\ \A m \in Models : FallbackChain[m] # <<>>
\* A process has some tasks, and not infinitely many.
ASSUME AskersAssumption == IsFiniteSet(Askers) /\ Askers # {}
ASSUME RetryAssumption ==
  MaxRetries \in Nat \ {0} /\ BaseDelay \in Nat /\ Threshold \in Nat /\ Window \in Nat \ {0}

VARIABLES
  failures,   \* failures[m]: ages of m's recorded failures, oldest first
  request,    \* request[c]: pc, kind, chain of candidates, at which, attempt, ticks to wait
  hammer      \* history: requests made of m since its circuit opened

completionVars == <<failures, request, hammer>>

Over == {"idle", "returned", "raised"}
Idle == [pc |-> "idle", kind |-> "call", chain |-> <<>>, at |-> 0, attempt |-> 0, wait |-> 0]

Candidate(k) == k.chain[k.at]

CompletionInit ==
  /\ failures = [m \in Models |-> <<>>]
  /\ request = [c \in Askers |-> Idle]
  /\ hammer = [m \in Models |-> 0]

-----------------------------------------------------------------------------
(* The circuit breaker.                                                    *)

Open(m) == Len(failures[m]) >= Threshold
RecordFailure(m) == failures' = [failures EXCEPT ![m] = Append(@, 0)]
RecordSuccess(m) == failures' = [failures EXCEPT ![m] = <<>>]

\* Mutant of IsOpen: a call that has begun trusts its chain.
IsOpenNever(f, m) == FALSE
\* Is m skipped by a call that finds the failures f?
IsOpen(f, m) == Len(f[m]) >= Threshold

\* History: a request to m begins in a step that finds m's circuit open.
Counted ==
  hammer' = [m \in Models |->
    IF Len(failures'[m]) < Threshold THEN 0
    ELSE IF Open(m) /\ \E c \in Askers : /\ request'[c] # request[c] /\ request'[c].pc = "asked"
                                        /\ Candidate(request'[c]) = m
         THEN hammer[m] + 1 ELSE hammer[m]]

-----------------------------------------------------------------------------
(* One call.                                                               *)

\* The loop over the chain goes on at position i: to the first candidate
\* whose circuit is closed, or out of the loop to `raise`.
Seek(c, k, i) ==
  LET usable == {j \in i..Len(k.chain) : ~IsOpen(failures', k.chain[j])}
  IN  request' = [request EXCEPT ![c] =
        IF usable = {} THEN [Idle EXCEPT !.pc = "raised"]
        ELSE [k EXCEPT !.pc = "asked", !.at = Min(usable), !.attempt = 1, !.wait = 0]]

Begin(c, m, kind) ==
  /\ request[c].pc \in Over
  /\ UNCHANGED failures
  /\ Seek(c, [Idle EXCEPT !.kind = kind, !.chain = FallbackChain[m]], 1)
  /\ Counted

\* acompletion returns a response, or a stream of chunks.
Respond(c) ==
  /\ request[c].pc = "asked"
  /\ RecordSuccess(Candidate(request[c]))
  /\ request' = [request EXCEPT ![c] =
       IF @.kind = "stream" THEN [@ EXCEPT !.pc = "streaming"] ELSE [Idle EXCEPT !.pc = "returned"]]
  /\ Counted

\* The stream is exhausted.
StreamEnds(c) ==
  /\ request[c].pc = "streaming"
  /\ request' = [request EXCEPT ![c] = [Idle EXCEPT !.pc = "returned"]]
  /\ UNCHANGED failures
  /\ Counted

\* The candidate is given up: one failure recorded, on to the next.
NextCandidate(c) ==
  /\ RecordFailure(Candidate(request[c]))
  /\ Seek(c, request[c], request[c].at + 1)

\* A retryable error, of the request or between two chunks.
Transient(c) ==
  /\ request[c].pc \in {"asked", "streaming"}
  /\ IF request[c].attempt < MaxRetries
     THEN /\ request' = [request EXCEPT ![c].pc = "asleep",
                                        ![c].wait = BaseDelay * 2 ^ (request[c].attempt - 1)]
          /\ UNCHANGED failures
     ELSE NextCandidate(c)
  /\ Counted

\* Any other exception.
Fatal(c) ==
  /\ request[c].pc \in {"asked", "streaming"}
  /\ NextCandidate(c)
  /\ Counted

\* Mutant of Wake: the attempt is not counted.
WakeUncounted(c) ==
  /\ request[c].pc = "asleep" /\ request[c].wait = 0
  /\ request' = [request EXCEPT ![c].pc = "asked"]
  /\ UNCHANGED failures
  /\ Counted

\* The back-off is over; the next attempt does not look at the circuit.
Wake(c) ==
  /\ request[c].pc = "asleep" /\ request[c].wait = 0
  /\ request' = [request EXCEPT ![c].pc = "asked", ![c].attempt = @ + 1]
  /\ UNCHANGED failures
  /\ Counted

\* The task that awaits the call is cancelled, or stops iterating: neither is
\* an Exception, and nothing is recorded.
Abandon(c) ==
  /\ request[c].pc \notin Over
  /\ request' = [request EXCEPT ![c] = Idle]
  /\ UNCHANGED failures
  /\ Counted

\* Entries grow older; the oldest, which come first, expire.
Older(ages) ==
  LET expired == Cardinality({i \in DOMAIN ages : ages[i] + 1 >= Window})
      kept == SubSeq(ages, expired + 1, Len(ages))
  IN  [i \in DOMAIN kept |-> kept[i] + 1]

Tick ==
  /\ failures' = [m \in Models |-> Older(failures[m])]
  /\ request' = [c \in Askers |->
       IF request[c].wait > 0 THEN [request[c] EXCEPT !.wait = @ - 1] ELSE request[c]]
  /\ Counted

Progress(c) == Respond(c) \/ StreamEnds(c) \/ Transient(c) \/ Fatal(c) \/ Wake(c)

-----------------------------------------------------------------------------

\* An open circuit protects the provider (llm.py:46): once it opens, the only
\* requests that still reach the model are the remaining attempts of calls that
\* were past the check when the last failure was recorded.
HammeringBounded ==
  \A m \in Models : hammer[m] <= (Cardinality(Askers) - 1) * (MaxRetries - 1)

=============================================================================
