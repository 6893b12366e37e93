-------------------------- MODULE WebhookDelivery ---------------------------
(***************************************************************************)
(* The webhook connector (connectors/webhook.py): execute validates, signs *)
(* once and posts an event, again after a timeout, a refused connection or *)
(* a 5xx answer, with a pause that doubles.  Deliveries of several tasks   *)
(* share the connector's client.                                           *)
(*                                                                         *)
(* The network and the subscriber are external: a request may arrive after *)
(* the client has given it up, and its answer may be late or lost.         *)
(***************************************************************************)
EXTENDS Integers, FiniteSets, Sequences

CONSTANTS
  Events,       (* one delivery each                                         *)
  MaxAttempts   (* max_retries: how often the request is made                *)

\* max_retries is the configuration's; 0 stands for every number below 1, with
\* which the loop is left before its first request.
ASSUME WebhookAssumption == MaxAttempts \in Nat

VARIABLES
  client,       (* _client is there                                          *)
  delivery,     (* of an event: "new", "posting", "pausing", or its outcome  *)
  attempt,      (* the attempt it is at                                      *)
  flying,       (* attempts whose request is on its way                      *)
  answer,       (* the answer on its way to the attempt, or "none"           *)
  received,     (* what reached the subscriber, in order                     *)
  missed,       (* attempts that ended by a timeout                          *)
  erred,        (* attempts that ended by a 5xx answer                       *)
  refused,      (* attempts that ended by a refused connection               *)
  before        (* events reported delivered when this one was executed      *)

wvars == <<client, delivery, attempt, flying, answer, received, missed, erred, refused, before>>

\* The attempts of e that have ended and call for another.
Spent(e) == missed[e] \cup erred[e] \cup refused[e]
Receipts(e) == Cardinality({i \in DOMAIN received : received[i] = e})

WebhookInit ==
  /\ client = TRUE /\ delivery = [e \in Events |-> "new"]
  /\ attempt = [e \in Events |-> 0] /\ flying = [e \in Events |-> {}]
  /\ answer = [e \in Events |-> "none"] /\ received = <<>>
  /\ missed = [e \in Events |-> {}] /\ erred = [e \in Events |-> {}]
  /\ refused = [e \in Events |-> {}] /\ before = [e \in Events |-> {}]

-----------------------------------------------------------------------------
Becomes(e, what) == delivery' = [delivery EXCEPT ![e] = what]

Attempt(e) ==
  /\ attempt' = [attempt EXCEPT ![e] = @ + 1]
  /\ flying' = [flying EXCEPT ![e] = @ \cup {attempt'[e]}]
  /\ Becomes(e, "posting")

\* execute up to the first post: without a client it raises, and so it does
\* for a URL that is not https, blocked or not on the list, and for a payload
\* that is too long.  Without any attempts to make it has failed.
Execute(e) ==
  /\ delivery[e] = "new"
  /\ before' = [before EXCEPT ![e] = {x \in Events : delivery[x] = "delivered"}]
  /\ \/ ~client /\ Becomes(e, "raised") /\ UNCHANGED <<attempt, flying>>
     \/ client /\ Becomes(e, "invalid") /\ UNCHANGED <<attempt, flying>>
     \/ client /\ IF MaxAttempts = 0
                  THEN Becomes(e, "failed") /\ UNCHANGED <<attempt, flying>>
                  ELSE Attempt(e)
  /\ UNCHANGED <<client, answer, received, missed, erred, refused>>

\* The next attempt.  A client that disconnect has taken away in the meantime
\* makes the delivery raise.
Post(e) ==
  /\ delivery[e] = "pausing"
  /\ \/ client /\ Attempt(e)
     \/ ~client /\ Becomes(e, "raised") /\ UNCHANGED <<attempt, flying>>
  /\ answer' = [answer EXCEPT ![e] = "none"]
  /\ UNCHANGED <<client, received, missed, erred, refused, before>>

\* After an attempt that failed: a pause, unless it was the last.
Retry(e) == Becomes(e, IF attempt[e] < MaxAttempts THEN "pausing" ELSE "failed")

\* Mutant of Answered: a request counts as delivered once it is sent.
SentIsDelivered(e) ==
  /\ delivery[e] = "posting" /\ Becomes(e, "delivered")
  /\ UNCHANGED <<client, attempt, flying, answer, received, missed, erred, refused, before>>

\* Mutant of Answered: whatever is not below 300 is tried again.
ErrorsRetried(e) ==
  /\ delivery[e] = "posting" /\ answer[e] # "none"
  /\ IF answer[e] = "2xx" THEN Becomes(e, "delivered") ELSE Retry(e)
  /\ erred' = IF answer[e] = "5xx" THEN [erred EXCEPT ![e] = @ \cup {attempt[e]}] ELSE erred
  /\ UNCHANGED <<client, attempt, flying, answer, received, missed, refused, before>>

\* An answer in time: below 300, from 500 on, or in between.
Answered(e) ==
  /\ delivery[e] = "posting" /\ answer[e] # "none"
  /\ CASE answer[e] = "2xx" -> Becomes(e, "delivered") /\ UNCHANGED erred
       [] answer[e] = "5xx" -> /\ Retry(e)
                               /\ erred' = [erred EXCEPT ![e] = @ \cup {attempt[e]}]
       [] OTHER -> Becomes(e, "rejected") /\ UNCHANGED erred
  /\ UNCHANGED <<client, attempt, flying, answer, received, missed, refused, before>>

\* TimeoutException; the request may still arrive.
TimeOutPost(e) ==
  /\ delivery[e] = "posting"
  /\ Retry(e)
  /\ missed' = [missed EXCEPT ![e] = @ \cup {attempt[e]}]
  /\ UNCHANGED <<client, attempt, flying, answer, received, erred, refused, before>>

\* ConnectError: the request was not sent.
Refused(e) ==
  /\ delivery[e] = "posting" /\ attempt[e] \in flying[e]
  /\ Retry(e)
  /\ flying' = [flying EXCEPT ![e] = @ \ {attempt[e]}]
  /\ refused' = [refused EXCEPT ![e] = @ \cup {attempt[e]}]
  /\ UNCHANGED <<client, attempt, answer, received, missed, erred, before>>

\* Any other error of the client, a connection reset say, leaves execute.
Broken(e) ==
  /\ delivery[e] = "posting" /\ Becomes(e, "raised")
  /\ UNCHANGED <<client, attempt, flying, answer, received, missed, erred, refused, before>>

\* disconnect, with deliveries under way or not.
CloseClient ==
  /\ client /\ client' = FALSE
  /\ UNCHANGED <<delivery, attempt, flying, answer, received, missed, erred, refused, before>>

-----------------------------------------------------------------------------
(* The network and the subscriber.                                         *)

Arrive(e) ==
  \E n \in flying[e] :
    /\ flying' = [flying EXCEPT ![e] = @ \ {n}]
    /\ received' = Append(received, e)
    /\ IF delivery[e] = "posting" /\ attempt[e] = n
       THEN \E code \in {"2xx", "4xx", "5xx"} : answer' = [answer EXCEPT ![e] = code]
       ELSE UNCHANGED answer
    /\ UNCHANGED <<client, delivery, attempt, missed, erred, refused, before>>

Lose(e) ==
  \E n \in flying[e] :
    /\ flying' = [flying EXCEPT ![e] = @ \ {n}]
    /\ UNCHANGED <<client, delivery, attempt, answer, received, missed, erred, refused, before>>

WebhookNext ==
  \/ CloseClient
  \/ \E e \in Events : Execute(e) \/ Post(e) \/ Answered(e) \/ TimeOutPost(e)
       \/ Refused(e) \/ Broken(e) \/ Arrive(e) \/ Lose(e)

-----------------------------------------------------------------------------
(* Properties.                                                             *)

\* What execute returns is what happened to the event: "delivered" and
\* "rejected" only if the subscriber has it; "failed" only when each of the
\* attempts ended by a timeout, a refused connection or a 5xx, so that none was
\* answered below 500 in time, though the subscriber may have the event all the
\* same; nothing was sent of one that was not valid.  It is received more than
\* once only for attempts that a timeout or a 5xx ended.
OutcomesTellReceipts ==
  \A e \in Events :
    /\ delivery[e] \in {"delivered", "rejected"} => Receipts(e) > 0
    /\ delivery[e] = "failed" => Spent(e) = 1..MaxAttempts
    /\ delivery[e] = "delivered" => answer[e] = "2xx"
    /\ delivery[e] = "invalid" => Receipts(e) = 0
    /\ Receipts(e) <= Cardinality(missed[e] \cup erred[e]) + 1

\* An event that was reported delivered before another was executed reaches
\* the subscriber behind it only as a copy an attempt sent before it timed out.
LateOnlyByTimeout ==
  \A e, x \in Events : x \in before[e] =>
    \A i, j \in DOMAIN received :
      i < j /\ received[i] = e /\ received[j] = x => missed[x] # {}
=============================================================================
