--------------------------- MODULE OutboundProofs ---------------------------
(***************************************************************************)
(* What holds of the connectors that wait for somebody outside, for any    *)
(* number of tasks, requests, events and attempts.  Of the MCP transport:  *)
(* as long as nothing is out of order, a call takes the response of the    *)
(* request sent as many requests before it as calls were abandoned.  Of    *)
(* webhook deliveries: an outcome tells what became of the event, and an   *)
(* event overtakes another only by a copy that timed out.  Of completions: *)
(* an open circuit lets no more through than was left when it opened; and  *)
(* of the orchestrator that asks for them: its chain is a walk, and no run *)
(* is left behind.                                                         *)
(***************************************************************************)
EXTENDS McpTransport, WebhookDelivery, Orchestrator, OperatorLemmas,
        FiniteSetTheorems, SequenceTheorems, TLAPS

McpSpec == McpInit /\ [][McpNext]_pvars

-----------------------------------------------------------------------------
Places == {"ready", "written", "waiting", "woken", "answered", "raised", "empty"}
Methods == {"none", "initialize", "list", "call"}
Calls == [pc : Places, method : Methods, id : Nat, got : Nat, behind : Nat \cup {Unknown}]

\* Lines are ids, and each call is at one of its steps.
McpTypeOK ==
  /\ requestId \in Nat /\ abandoned \in Nat
  /\ inbox \in Seq(Nat) /\ pipe \in Seq(Nat)
  /\ process \in {"none", "alive", "dead"}
  /\ call \in [Callers -> Calls]

\* Pipe and inbox together are the consecutive ids from n on, to the last
\* request unless the server died.
ConsecutiveFrom(n) ==
  /\ \A i \in 1..Len(pipe) : pipe[i] = n + i - 1
  /\ \A i \in 1..Len(inbox) : inbox[i] = n + Len(pipe) + i - 1
  /\ process = "alive" => Len(pipe) + Len(inbox) = requestId - n + 1

\* A server that is not there has nothing to answer.
DeadReadsNothing == process # "alive" => inbox = <<>>

\* Of the one call under way the next line answers the request sent as many
\* before it as calls were abandoned.
InOrder ==
  ~disorder =>
    /\ \A c, o \in Callers : InCall(c) /\ InCall(o) => c = o
    /\ \A c \in Callers : InCall(c) => call[c].id = requestId
    /\ \A c \in Callers : InCall(c) => ConsecutiveFrom(requestId - abandoned)
    /\ (\A c \in Callers : ~InCall(c)) => ConsecutiveFrom(requestId + 1 - abandoned)

McpInv == McpTypeOK /\ DeadReadsNothing /\ InOrder /\ AnswersLagByTimeouts

LEMMA McpInitially == McpInit => McpInv
<1> SUFFICES ASSUME McpInit  PROVE McpInv
  OBVIOUS
<1>1. Ready \in Calls
  BY DEF Ready, Calls, Places, Methods, Unknown
<1>2. McpTypeOK
  BY <1>1 DEF McpInit, McpTypeOK
<1>3. DeadReadsNothing /\ InOrder
  BY DEF McpInit, DeadReadsNothing, InOrder, InCall, ConsecutiveFrom, Ready
<1>4. AnswersLagByTimeouts
  BY DEF McpInit, AnswersLagByTimeouts, Ready
<1> QED
  BY <1>2, <1>3, <1>4 DEF McpInv

\* Removing the first element leaves the tail.
LEMMA FirstRemoved ==
  ASSUME NEW s \in Seq(Nat), s # <<>>
  PROVE  RemoveAt(s, 1) = Tail(s)
<1>1. SubSeq(s, 1, 1 - 1) = <<>>
  OBVIOUS
<1>2. SubSeq(s, 1 + 1, Len(s)) = Tail(s)
  BY TailIsSubSeq
<1>3. Tail(s) \in Seq(Nat)
  OBVIOUS
<1>4. <<>> \o Tail(s) = Tail(s)
  BY <1>3, ConcatEmptySeq
<1> QED
  BY <1>1, <1>2, <1>4 DEF RemoveAt

LEMMA RemoveType ==
  ASSUME NEW s \in Seq(Nat), NEW i \in DOMAIN s
  PROVE  RemoveAt(s, i) \in Seq(Nat)
BY DEF RemoveAt

\* The end of a call: what the caller got before stays what it was.
LEMMA EndedFacts ==
  ASSUME McpTypeOK, NEW c \in Callers, NEW pc \in Places, Ended(c, pc)
  PROVE  /\ call' \in [Callers -> Calls]
         /\ \A o \in Callers : o # c => call'[o] = call[o]
         /\ call'[c].pc = pc /\ call'[c].id = call[c].id
         /\ call'[c].got = call[c].got /\ call'[c].behind = call[c].behind
<1>1. call' = [call EXCEPT ![c] = [call[c] EXCEPT !.pc = pc]]
  BY DEF Ended, McpTypeOK
<1>2. [call[c] EXCEPT !.pc = pc] \in Calls
  BY DEF McpTypeOK, Calls
<1> QED
  BY <1>1, <1>2 DEF McpTypeOK, Calls

\* A write: the caller starts over with the next id.
LEMMA WriteFacts ==
  ASSUME McpTypeOK, NEW c \in Callers, NEW method \in Methods, NEW alive \in BOOLEAN,
         NEW unanswered \in Seq(Nat), NEW disordered \in BOOLEAN,
         Write(c, method, alive, unanswered, disordered)
  PROVE  /\ requestId' = requestId + 1 /\ requestId' \in Nat
         /\ inbox' = IF alive THEN Append(unanswered, requestId + 1) ELSE unanswered
         /\ inbox' \in Seq(Nat)
         /\ call' \in [Callers -> Calls]
         /\ \A o \in Callers : o # c => call'[o] = call[o]
         /\ call'[c].pc = "written" /\ call'[c].id = requestId + 1 /\ call'[c].got = 0
         /\ ~disorder' => ~disordered /\ \A o \in Callers : o # c => ~InCall(o)
<1>1. requestId' = requestId + 1 /\ requestId' \in Nat
  BY DEF Write, McpTypeOK
<1> DEFINE new == [Ready EXCEPT !.pc = "written", !.method = method, !.id = requestId + 1]
<1>2. /\ new \in Calls /\ new.pc = "written" /\ new.id = requestId + 1 /\ new.got = 0
  BY <1>1 DEF Ready, Calls, Places, Methods, Unknown
<1>3. call' = [call EXCEPT ![c] = new]
  BY <1>1 DEF Write
<1> HIDE DEF new
<1>4. /\ call' \in [Callers -> Calls] /\ call'[c] = new
      /\ \A o \in Callers : o # c => call'[o] = call[o]
  BY <1>2, <1>3 DEF McpTypeOK
<1>5. inbox' = (IF alive THEN Append(unanswered, requestId + 1) ELSE unanswered)
        /\ inbox' \in Seq(Nat)
  BY <1>1 DEF Write
<1>6. ~disorder' => ~disordered /\ \A o \in Callers : o # c => ~InCall(o)
  BY DEF Write
<1> QED
  BY <1>1, <1>2, <1>4, <1>5, <1>6

\* Calls that are as they were, or have taken nothing, lag as they did.
LEMMA LagStays ==
  ASSUME McpInv, NEW c \in Callers,
         \A o \in Callers : o # c => call'[o] = call[o],
         \/ call'[c].got = 0
         \/ /\ call'[c].id = call[c].id /\ call'[c].got = call[c].got
            /\ call'[c].behind = call[c].behind
  PROVE  AnswersLagByTimeouts'
BY DEF McpInv, AnswersLagByTimeouts

\* A call that ends without a line: abandoned, or at the end of the file.
LEMMA GiveUp ==
  ASSUME McpInv, NEW c \in Callers, InCall(c), NEW pc \in {"raised", "empty"}, Ended(c, pc),
         \/ abandoned' = abandoned + 1
         \/ abandoned' = abandoned /\ pipe = <<>> /\ process # "alive",
         UNCHANGED <<requestId, inbox, pipe, process, disorder>>
  PROVE  McpInv'
<1>1. McpTypeOK /\ DeadReadsNothing /\ InOrder
  BY DEF McpInv
<1>2. /\ call' \in [Callers -> Calls]
      /\ \A o \in Callers : o # c => call'[o] = call[o]
      /\ call'[c].pc = pc /\ call'[c].id = call[c].id
      /\ call'[c].got = call[c].got /\ call'[c].behind = call[c].behind
  BY <1>1, EndedFacts DEF Places
<1>3. McpTypeOK' /\ DeadReadsNothing'
  BY <1>1, <1>2 DEF McpTypeOK, DeadReadsNothing
<1>4. AnswersLagByTimeouts'
  BY <1>2, LagStays
<1>5. InOrder'
  <2>1. SUFFICES ASSUME ~disorder  PROVE InOrder'
    BY DEF InOrder
  <2>2. \A o \in Callers : ~InCall(o)'
    BY <1>1, <1>2, <2>1 DEF InOrder, InCall
  <2>3. ConsecutiveFrom(requestId - abandoned)
    BY <1>1, <2>1 DEF InOrder
  <2>4. ConsecutiveFrom(requestId + 1 - abandoned)'
    <3>1. CASE abandoned' = abandoned + 1
      BY <1>1, <2>3, <3>1 DEF McpTypeOK, ConsecutiveFrom
    <3>2. CASE pipe = <<>> /\ process # "alive"
      BY <1>1, <3>2 DEF DeadReadsNothing, ConsecutiveFrom
    <3> QED  BY <3>1, <3>2
  <2> QED  BY <2>2, <2>4 DEF InOrder
<1> QED
  BY <1>3, <1>4, <1>5 DEF McpInv

LEMMA WaitStep ==
  ASSUME McpInv, NEW c \in Callers, Wait(c)  PROVE McpInv'
<1>1. McpTypeOK /\ DeadReadsNothing /\ InOrder
  BY DEF McpInv
<1>2. /\ InCall(c) /\ Ended(c, "waiting")
      /\ UNCHANGED <<requestId, inbox, pipe, process, disorder, abandoned>>
  BY DEF Wait, AtBuffer, Reading, InCall
<1>3. /\ call' \in [Callers -> Calls]
      /\ \A o \in Callers : o # c => call'[o] = call[o]
      /\ call'[c].pc = "waiting" /\ call'[c].id = call[c].id
      /\ call'[c].got = call[c].got /\ call'[c].behind = call[c].behind
  BY <1>1, <1>2, EndedFacts DEF Places
<1>4. \A o \in Callers : (InCall(o)' <=> InCall(o)) /\ call'[o].id = call[o].id
  BY <1>2, <1>3 DEF InCall
<1>5. McpTypeOK' /\ DeadReadsNothing'
  BY <1>1, <1>2, <1>3 DEF McpTypeOK, DeadReadsNothing
<1>6. InOrder'
  <2>1. SUFFICES ASSUME ~disorder  PROVE InOrder'
    BY <1>2 DEF InOrder
  <2>2. ConsecutiveFrom(requestId - abandoned)' /\ call'[c].id = requestId'
    BY <1>1, <1>2, <1>4, <2>1 DEF InOrder, ConsecutiveFrom
  <2>3. \A o \in Callers : InCall(o)' => o = c
    BY <1>1, <1>2, <1>4, <2>1 DEF InOrder
  <2> QED  BY <1>2, <1>4, <2>2, <2>3 DEF InOrder
<1>7. AnswersLagByTimeouts'
  BY <1>3, LagStays
<1> QED
  BY <1>5, <1>6, <1>7 DEF McpInv

\* A call that ends with the next line, which is the next in order if there is
\* an order.
LEMMA HeadTaken ==
  ASSUME McpInv, NEW c \in Callers, InCall(c), pipe # <<>>, pipe' = Tail(pipe),
         UNCHANGED <<requestId, inbox, process, disorder, abandoned>>,
         call' \in [Callers -> Calls], call'[c].pc \in {"answered", "raised"},
         \A o \in Callers : o # c => call'[o] = call[o]
  PROVE  /\ McpTypeOK' /\ DeadReadsNothing' /\ InOrder'
         /\ ~disorder => Head(pipe) = requestId - abandoned /\ call[c].id = requestId
<1>1. McpTypeOK /\ DeadReadsNothing /\ InOrder
  BY DEF McpInv
<1>2. /\ Len(pipe) \in Nat /\ Len(pipe) > 0 /\ Head(pipe) = pipe[1]
      /\ pipe' \in Seq(Nat) /\ Len(pipe') = Len(pipe) - 1
      /\ \A i \in 1..Len(pipe) - 1 : pipe'[i] = pipe[i + 1]
  BY <1>1 DEF McpTypeOK
<1>3. McpTypeOK' /\ DeadReadsNothing'
  BY <1>1, <1>2 DEF McpTypeOK, DeadReadsNothing
<1>4. ~disorder => ConsecutiveFrom(requestId - abandoned) /\ call[c].id = requestId
  BY <1>1 DEF InOrder
<1>5. InOrder'
  <2>1. SUFFICES ASSUME ~disorder  PROVE InOrder'
    BY DEF InOrder
  <2>2. \A o \in Callers : ~InCall(o)'
    BY <1>1, <2>1 DEF InOrder, InCall
  <2>3. ConsecutiveFrom(requestId + 1 - abandoned)'
    <3>1. requestId \in Nat /\ abandoned \in Nat /\ Len(inbox) \in Nat
      BY <1>1 DEF McpTypeOK
    <3>2. \A i \in 1..Len(pipe') : pipe'[i] = requestId + 1 - abandoned + i - 1
      BY <1>2, <1>4, <2>1, <3>1 DEF ConsecutiveFrom
    <3>3. \A i \in 1..Len(inbox) :
            inbox[i] = requestId + 1 - abandoned + Len(pipe') + i - 1
      BY <1>2, <1>4, <2>1, <3>1 DEF ConsecutiveFrom
    <3>4. process = "alive" =>
            Len(pipe') + Len(inbox) = requestId - (requestId + 1 - abandoned) + 1
      BY <1>2, <1>4, <2>1, <3>1 DEF ConsecutiveFrom
    <3> QED  BY <3>2, <3>3, <3>4 DEF ConsecutiveFrom
  <2> QED  BY <2>2, <2>3 DEF InOrder
<1>6. ~disorder => Head(pipe) = requestId - abandoned
  BY <1>1, <1>2, <1>4 DEF ConsecutiveFrom, McpTypeOK
<1> QED
  BY <1>3, <1>4, <1>5, <1>6

LEMMA TakeLineStep ==
  ASSUME McpInv, NEW c \in Callers, TakeLine(c)  PROVE McpInv'
<1>1. McpTypeOK /\ AnswersLagByTimeouts
  BY DEF McpInv
<1>2. PICK pc \in {"answered", "raised"} :
        call' = [call EXCEPT ![c].pc = pc, ![c].got = Head(pipe),
                             ![c].behind = IF disorder THEN Unknown ELSE abandoned]
  BY DEF TakeLine
<1>3. /\ InCall(c) /\ pipe # <<>> /\ pipe' = Tail(pipe)
      /\ UNCHANGED <<requestId, inbox, process, disorder, abandoned>>
  BY DEF TakeLine, AtBuffer, Reading, InCall
<1> DEFINE lag == IF disorder THEN Unknown ELSE abandoned
           new == [call[c] EXCEPT !.pc = pc, !.got = Head(pipe), !.behind = lag]
<1>4. Head(pipe) \in Nat /\ lag \in Nat \cup {Unknown}
  BY <1>1, <1>3 DEF McpTypeOK
<1>5. call' = [call EXCEPT ![c] = new]
  BY <1>1, <1>2 DEF McpTypeOK
<1> HIDE DEF lag
<1>6. /\ new \in Calls /\ new.pc = pc /\ new.id = call[c].id
      /\ new.got = Head(pipe) /\ new.behind = lag
  BY <1>1, <1>4 DEF McpTypeOK, Calls, Places
<1> HIDE DEF new
<1>7. /\ call' \in [Callers -> Calls] /\ call'[c] = new
      /\ \A o \in Callers : o # c => call'[o] = call[o]
  BY <1>1, <1>5, <1>6 DEF McpTypeOK
<1>8. /\ McpTypeOK' /\ DeadReadsNothing' /\ InOrder'
      /\ ~disorder => Head(pipe) = requestId - abandoned /\ call[c].id = requestId
  BY <1>3, <1>6, <1>7, HeadTaken
<1>9. AnswersLagByTimeouts'
  <2>1. CASE disorder
    BY <1>1, <1>6, <1>7, <2>1 DEF AnswersLagByTimeouts, lag
  <2>2. CASE ~disorder
    <3>1. new.got = new.id - new.behind
      BY <1>6, <1>8, <2>2 DEF lag
    <3> QED  BY <1>1, <1>7, <3>1 DEF AnswersLagByTimeouts
  <2> QED  BY <2>1, <2>2
<1> QED
  BY <1>8, <1>9 DEF McpInv

\* A line that is too long counts as taken, or its caller as one that gave up.
LEMMA OverlongStep ==
  ASSUME McpInv, NEW c \in Callers, OverlongLine(c)  PROVE McpInv'
<1>1. /\ InCall(c) /\ pipe # <<>> /\ Ended(c, "raised")
      /\ UNCHANGED <<requestId, inbox, process, disorder>>
  BY DEF OverlongLine, AtBuffer, Reading, InCall
<1>2. CASE UNCHANGED pipe /\ abandoned' = abandoned + 1
  BY <1>1, <1>2, GiveUp
<1>3. CASE pipe' = Tail(pipe) /\ UNCHANGED abandoned
  <2>1. /\ call' \in [Callers -> Calls]
        /\ \A o \in Callers : o # c => call'[o] = call[o]
        /\ call'[c].pc = "raised" /\ call'[c].id = call[c].id
        /\ call'[c].got = call[c].got /\ call'[c].behind = call[c].behind
    BY <1>1, EndedFacts DEF McpInv, Places
  <2>2. McpTypeOK' /\ DeadReadsNothing' /\ InOrder'
    BY <1>1, <1>3, <2>1, HeadTaken
  <2>3. AnswersLagByTimeouts'
    BY <2>1, LagStays
  <2> QED  BY <2>2, <2>3 DEF McpInv
<1> QED
  BY <1>2, <1>3 DEF OverlongLine

\* A request sent to the server there is, by a caller that is not in a call.
LEMMA SendStep ==
  ASSUME McpInv, NEW c \in Callers, ~InCall(c), NEW method \in Methods,
         Write(c, method, process = "alive", inbox, disorder),
         UNCHANGED <<process, pipe, abandoned>>
  PROVE  McpInv'
<1>1. McpTypeOK /\ DeadReadsNothing /\ InOrder
  BY DEF McpInv
<1>2. /\ requestId' = requestId + 1 /\ requestId' \in Nat
      /\ inbox' = IF process = "alive" THEN Append(inbox, requestId + 1) ELSE inbox
      /\ inbox' \in Seq(Nat)
      /\ call' \in [Callers -> Calls]
      /\ \A o \in Callers : o # c => call'[o] = call[o]
      /\ call'[c].pc = "written" /\ call'[c].id = requestId + 1 /\ call'[c].got = 0
  <2>1. requestId + 1 \in Nat /\ inbox \in Seq(Nat)
    BY <1>1 DEF McpTypeOK
  <2> DEFINE new == [Ready EXCEPT !.pc = "written", !.method = method, !.id = requestId + 1]
  <2>2. new \in Calls /\ new.pc = "written" /\ new.id = requestId + 1 /\ new.got = 0
    BY <2>1 DEF Ready, Calls, Places, Methods, Unknown
  <2>3. call' = [call EXCEPT ![c] = new] /\ requestId' = requestId + 1
          /\ inbox' = IF process = "alive" THEN Append(inbox, requestId + 1) ELSE inbox
    BY DEF Write
  <2> HIDE DEF new
  <2> QED  BY <1>1, <2>1, <2>2, <2>3 DEF McpTypeOK
<1>3. ~disorder' => ~disorder /\ \A o \in Callers : o # c => ~InCall(o)
  BY DEF Write
<1>4. McpTypeOK' /\ DeadReadsNothing'
  BY <1>1, <1>2 DEF McpTypeOK, DeadReadsNothing
<1>5. AnswersLagByTimeouts'
  BY <1>2, LagStays
<1>6. InOrder'
  <2>1. SUFFICES ASSUME ~disorder'  PROVE InOrder'
    BY DEF InOrder
  <2>2. ~disorder /\ \A o \in Callers : ~InCall(o)
    BY <1>3, <2>1
  <2>3. InCall(c)' /\ \A o \in Callers : InCall(o)' => o = c
    BY <1>2, <2>2 DEF InCall
  <2>4. ConsecutiveFrom(requestId + 1 - abandoned)
    BY <1>1, <2>2 DEF InOrder
  <2>5. ConsecutiveFrom(requestId - abandoned)'
    <3> DEFINE n == requestId + 1 - abandoned
    <3>1. /\ n \in Int /\ requestId \in Nat /\ inbox \in Seq(Nat) /\ pipe \in Seq(Nat)
          /\ Len(inbox) \in Nat /\ Len(pipe) \in Nat /\ requestId' - abandoned' = n
      BY <1>1, <1>2 DEF McpTypeOK
    <3> HIDE DEF n
    <3>0. ConsecutiveFrom(n)
      BY <2>4 DEF n
    <3>2. CASE process # "alive"
      BY <1>2, <3>0, <3>1, <3>2 DEF ConsecutiveFrom
    <3>3. CASE process = "alive"
      <4>1. /\ Len(inbox') = Len(inbox) + 1 /\ inbox'[Len(inbox) + 1] = requestId + 1
            /\ \A i \in 1..Len(inbox) : inbox'[i] = inbox[i]
        BY <1>2, <3>1, <3>3
      <4>2. Len(pipe) + Len(inbox) = requestId - n + 1
        BY <3>0, <3>3 DEF ConsecutiveFrom
      <4>3. ASSUME NEW i \in 1..Len(inbox')  PROVE inbox'[i] = n + Len(pipe) + i - 1
        <5>1. CASE i \in 1..Len(inbox)
          BY <3>0, <4>1, <5>1 DEF ConsecutiveFrom
        <5>2. CASE i = Len(inbox) + 1
          BY <3>1, <4>1, <4>2, <5>2
        <5> QED  BY <3>1, <4>1, <5>1, <5>2
      <4>4. Len(pipe) + Len(inbox') = requestId + 1 - n + 1
        BY <3>1, <4>1, <4>2
      <4>5. \A i \in 1..Len(pipe) : pipe[i] = n + i - 1
        BY <3>0 DEF ConsecutiveFrom
      <4>6. n = requestId' - abandoned' /\ Len(pipe) + Len(inbox') = requestId' - n + 1
        BY <1>2, <3>1, <4>4
      <4>7. pipe' = pipe
        OBVIOUS
      <4> QED  BY <4>3, <4>5, <4>6, <4>7 DEF ConsecutiveFrom
    <3> QED  BY <3>2, <3>3
  <2> QED  BY <1>2, <2>3, <2>5 DEF InOrder
<1> QED
  BY <1>4, <1>5, <1>6 DEF McpInv

\* A new process starts with empty pipes and nothing abandoned.
LEMMA ConnectStep ==
  ASSUME McpInv, NEW c \in Callers, Connect(c)  PROVE McpInv'
<1>1. McpTypeOK
  BY DEF McpInv
<1>2. /\ \A o \in Callers : ~InCall(o)
      /\ process' = "alive" /\ pipe' = <<>> /\ abandoned' = 0
      /\ Write(c, "initialize", TRUE, <<>>, FALSE)
  BY DEF Connect
<1>3. /\ requestId' = requestId + 1 /\ requestId' \in Nat
      /\ inbox' = <<requestId + 1>> /\ inbox' \in Seq(Nat)
      /\ call' \in [Callers -> Calls]
      /\ \A o \in Callers : o # c => call'[o] = call[o]
      /\ call'[c].pc = "written" /\ call'[c].id = requestId + 1 /\ call'[c].got = 0
  <2>1. <<>> \in Seq(Nat) /\ Append(<<>>, requestId + 1) = <<requestId + 1>>
    OBVIOUS
  <2>2. "initialize" \in Methods /\ TRUE \in BOOLEAN /\ FALSE \in BOOLEAN
    BY DEF Methods
  <2> QED  BY <1>1, <1>2, <2>1, <2>2, WriteFacts
<1>4. McpTypeOK' /\ DeadReadsNothing'
  BY <1>1, <1>2, <1>3 DEF McpTypeOK, DeadReadsNothing
<1>5. AnswersLagByTimeouts'
  BY <1>3, LagStays
<1>6. InCall(c)' /\ \A o \in Callers : InCall(o)' => o = c
  BY <1>2, <1>3 DEF InCall
<1>7. ConsecutiveFrom(requestId - abandoned)'
  BY <1>2, <1>3 DEF ConsecutiveFrom
<1>8. InOrder'
  BY <1>3, <1>6, <1>7 DEF InOrder
<1> QED
  BY <1>4, <1>5, <1>8 DEF McpInv

\* Who is woken up stays in its call, with the id it was given.
LEMMA WokenFacts ==
  ASSUME McpTypeOK, Wakes
  PROVE  /\ call' \in [Callers -> Calls]
         /\ UNCHANGED <<requestId, abandoned>>
         /\ \A o \in Callers : /\ InCall(o)' <=> InCall(o)
                               /\ call'[o].id = call[o].id /\ call'[o].got = call[o].got
                               /\ call'[o].behind = call[o].behind
<1>1. ASSUME NEW o \in Callers
      PROVE  /\ call'[o] = IF call[o].pc = "waiting" THEN [call[o] EXCEPT !.pc = "woken"] ELSE call[o]
             /\ call'[o] \in Calls
  BY DEF Wakes, McpTypeOK, Calls, Places
<1>2. ASSUME NEW o \in Callers
      PROVE  /\ InCall(o)' <=> InCall(o)
             /\ call'[o].id = call[o].id /\ call'[o].got = call[o].got
             /\ call'[o].behind = call[o].behind
  BY <1>1 DEF InCall, McpTypeOK, Calls
<1>3. call' \in [Callers -> Calls]
  BY <1>1 DEF Wakes
<1> QED  BY <1>2, <1>3 DEF Wakes

\* The process ends, and what is in its inbox with it.
LEMMA ServerEnds ==
  ASSUME McpInv, process' = "dead", inbox' = <<>>, UNCHANGED <<pipe, disorder>>,
         Wakes \/ UNCHANGED <<requestId, call, abandoned>>
  PROVE  McpInv'
<1>1. /\ call' \in [Callers -> Calls]
      /\ UNCHANGED <<requestId, abandoned>>
      /\ \A o \in Callers : /\ InCall(o)' <=> InCall(o)
                            /\ call'[o].id = call[o].id /\ call'[o].got = call[o].got
                            /\ call'[o].behind = call[o].behind
  BY WokenFacts DEF McpInv, McpTypeOK, InCall
<1>2. McpTypeOK' /\ DeadReadsNothing'
  BY <1>1 DEF McpInv, McpTypeOK, DeadReadsNothing
<1>3. \A n : ConsecutiveFrom(n) => ConsecutiveFrom(n)'
  BY <1>1 DEF ConsecutiveFrom
<1>4. ~disorder => InOrder'
  <2>1. SUFFICES ASSUME ~disorder  PROVE InOrder'
    OBVIOUS
  <2>2. ConsecutiveFrom(requestId - abandoned) => ConsecutiveFrom(requestId - abandoned)'
    BY <1>1 DEF ConsecutiveFrom
  <2>3. ConsecutiveFrom(requestId + 1 - abandoned) => ConsecutiveFrom(requestId + 1 - abandoned)'
    BY <1>1 DEF ConsecutiveFrom
  <2> QED  BY <1>1, <2>1, <2>2, <2>3 DEF McpInv, InOrder
<1>5. InOrder' /\ AnswersLagByTimeouts'
  BY <1>1, <1>4 DEF McpInv, InOrder, AnswersLagByTimeouts
<1> QED
  BY <1>2, <1>5 DEF McpInv

\* An answer in order moves from the head of the inbox to the end of the pipe.
LEMMA AnswerStep ==
  ASSUME McpInv, Answer  PROVE McpInv'
<1>1. McpTypeOK /\ DeadReadsNothing /\ InOrder
  BY DEF McpInv
<1>2. PICK i \in DOMAIN inbox :
        /\ pipe' = Append(pipe, inbox[i]) /\ inbox' = RemoveAt(inbox, i)
        /\ disorder' = (disorder \/ i # 1)
  BY DEF Answer
<1>3. process = "alive" /\ UNCHANGED <<process, requestId, abandoned>> /\ Wakes
  BY DEF Answer, Wakes
<1>4. /\ call' \in [Callers -> Calls]
      /\ \A o \in Callers : /\ InCall(o)' <=> InCall(o)
                            /\ call'[o].id = call[o].id /\ call'[o].got = call[o].got
                            /\ call'[o].behind = call[o].behind
  BY <1>1, <1>3, WokenFacts
<1>5. inbox \in Seq(Nat) /\ pipe \in Seq(Nat) /\ inbox[i] \in Nat
  BY <1>1 DEF McpTypeOK
<1>6. pipe' \in Seq(Nat) /\ inbox' \in Seq(Nat)
  BY <1>2, <1>5, RemoveType
<1>7. McpTypeOK' /\ DeadReadsNothing'
  BY <1>1, <1>3, <1>4, <1>6 DEF McpTypeOK, DeadReadsNothing
<1>8. ASSUME ~disorder', NEW n \in Int, ConsecutiveFrom(n)  PROVE ConsecutiveFrom(n)'
  <2>1. i = 1 /\ inbox # <<>> /\ Len(inbox) \in Nat /\ Len(inbox) > 0 /\ Len(pipe) \in Nat
    <3>1. i = 1
      BY <1>2, <1>8, Zenon
    <3> QED  BY <1>5, <3>1
  <2>2. inbox' = Tail(inbox)
    BY <1>2, <1>5, <2>1, FirstRemoved
  <2>3. Len(inbox') = Len(inbox) - 1 /\ \A j \in 1..Len(inbox) - 1 : inbox'[j] = inbox[j + 1]
    BY <1>5, <2>1, <2>2
  <2>4. /\ Len(pipe') = Len(pipe) + 1 /\ pipe'[Len(pipe) + 1] = inbox[1]
        /\ \A j \in 1..Len(pipe) : pipe'[j] = pipe[j]
    BY <1>2, <1>5, <2>1
  <2>5. inbox[1] = n + Len(pipe)
    BY <1>8, <2>1 DEF ConsecutiveFrom
  <2>6. \A j \in 1..Len(pipe') : pipe'[j] = n + j - 1
    BY <1>8, <2>1, <2>4, <2>5 DEF ConsecutiveFrom
  <2>7. \A j \in 1..Len(inbox') : inbox'[j] = n + Len(pipe') + j - 1
    BY <1>8, <2>1, <2>3, <2>4 DEF ConsecutiveFrom
  <2>8. Len(pipe') + Len(inbox') = requestId - n + 1
    BY <1>3, <1>8, <2>1, <2>3, <2>4 DEF ConsecutiveFrom
  <2> QED  BY <1>3, <2>6, <2>7, <2>8 DEF ConsecutiveFrom
<1>9. InOrder'
  <2>1. SUFFICES ASSUME ~disorder'  PROVE InOrder'
    BY DEF InOrder
  <2>2. ~disorder /\ (\A o \in Callers : InCall(o)' <=> InCall(o))
    BY <1>2, <1>4, <2>1
  <2>3. requestId - abandoned \in Int /\ requestId + 1 - abandoned \in Int
    BY <1>1 DEF McpTypeOK
  <2> DEFINE m == requestId - abandoned
             n == requestId + 1 - abandoned
  <2>4. ConsecutiveFrom(m) => ConsecutiveFrom(m)'
    BY <1>3, <1>8, <2>1, <2>3 DEF ConsecutiveFrom
  <2>5. ConsecutiveFrom(n) => ConsecutiveFrom(n)'
    BY <1>3, <1>8, <2>1, <2>3 DEF ConsecutiveFrom
  <2> QED  BY <1>1, <1>3, <1>4, <2>1, <2>2, <2>4, <2>5 DEF InOrder
<1>10. AnswersLagByTimeouts'
  BY <1>4 DEF McpInv, AnswersLagByTimeouts
<1> QED
  BY <1>7, <1>9, <1>10 DEF McpInv

LEMMA NotifyStep ==
  ASSUME McpInv, Notify  PROVE McpInv'
<1>1. McpTypeOK /\ DeadReadsNothing /\ AnswersLagByTimeouts
  BY DEF McpInv
<1>2. /\ pipe' = Append(pipe, 0) /\ disorder' = TRUE /\ UNCHANGED <<process, inbox>> /\ Wakes
  BY DEF Notify
<1>3. /\ call' \in [Callers -> Calls]
      /\ UNCHANGED <<requestId, abandoned>>
      /\ \A o \in Callers : /\ call'[o].id = call[o].id /\ call'[o].got = call[o].got
                            /\ call'[o].behind = call[o].behind
  BY <1>1, <1>2, WokenFacts
<1>4. McpTypeOK' /\ DeadReadsNothing'
  BY <1>1, <1>2, <1>3 DEF McpTypeOK, DeadReadsNothing
<1>5. AnswersLagByTimeouts'
  BY <1>1, <1>3 DEF AnswersLagByTimeouts
<1> QED  BY <1>2, <1>4, <1>5 DEF McpInv, InOrder

-----------------------------------------------------------------------------
LEMMA McpStep == McpInv /\ [McpNext]_pvars => McpInv'
<1>1. ASSUME McpInv, UNCHANGED pvars  PROVE McpInv'
  BY <1>1 DEF pvars, McpInv, McpTypeOK, DeadReadsNothing, InOrder, ConsecutiveFrom, InCall,
     AnswersLagByTimeouts
<1>2. ASSUME McpInv, NEW c \in Callers, ListTools(c) \/ InvokeTool(c)  PROVE McpInv'
  <2>1. ~InCall(c) /\ UNCHANGED <<process, pipe, abandoned>>
    BY <1>2 DEF ListTools, InvokeTool, InCall
  <2>2. PICK method \in {"list", "call"} :
          Write(c, method, process = "alive", inbox, disorder)
    BY <1>2 DEF ListTools, InvokeTool
  <2> QED  BY <1>2, <2>1, <2>2, SendStep DEF Methods
<1>3. ASSUME McpInv, NEW c \in Callers, DrainRaises(c) \/ Collide(c) \/ TimeOut(c)
      PROVE  McpInv'
  <2>1. /\ InCall(c) /\ Ended(c, "raised") /\ abandoned' = abandoned + 1
        /\ UNCHANGED <<requestId, inbox, pipe, process, disorder>>
    BY <1>3 DEF DrainRaises, Collide, TimeOut, AtBuffer, Reading, InCall
  <2> QED  BY <1>3, <2>1, GiveUp
<1>4. ASSUME McpInv, NEW c \in Callers, TakeNothing(c)  PROVE McpInv'
  <2>1. /\ InCall(c) /\ Ended(c, "empty") /\ pipe = <<>> /\ process # "alive"
        /\ UNCHANGED <<requestId, inbox, pipe, process, disorder, abandoned>>
    BY <1>4 DEF TakeNothing, AtBuffer, Reading, InCall
  <2> QED  BY <1>4, <2>1, GiveUp
<1>5. ASSUME McpInv, Disconnect \/ Die  PROVE McpInv'
  BY <1>5, ServerEnds DEF Disconnect, Die
<1> QED
  BY <1>1, <1>2, <1>3, <1>4, <1>5, ConnectStep, WaitStep, TakeLineStep, OverlongStep, AnswerStep, NotifyStep
  DEF McpNext

\* In every reachable state, what the pipe and the inbox hold is consecutive
\* unless something was out of order.
THEOREM McpInvariance == McpSpec => []McpInv
  BY McpInitially, McpStep, PTL DEF McpSpec

\* For any number of tasks, requests and server processes, a call takes the
\* response of the request sent as many before it as calls were abandoned
\* (_send_request, which compares no ids).
THEOREM AnswersAlwaysLagByTimeouts == McpSpec => []AnswersLagByTimeouts
<1>1. McpInv => AnswersLagByTimeouts
  BY DEF McpInv
<1> QED
  BY <1>1, McpInvariance, PTL

-----------------------------------------------------------------------------
(* Webhook deliveries (webhook.py).  Every request still on its way is the  *)
(* current attempt's or one that timed out, and what arrived and what may   *)
(* yet arrive is at most one more than the attempts a timeout or a 5xx      *)
(* ended.  Each earlier attempt, and on giving up the last too, was spent. *)

WebhookSpec == WebhookInit /\ [][WebhookNext]_wvars

Deliveries == {"new", "posting", "pausing", "raised", "invalid", "delivered", "rejected", "failed"}
Answers == {"none", "2xx", "4xx", "5xx"}

WebhookTypes ==
  /\ delivery \in [Events -> Deliveries] /\ attempt \in [Events -> Nat]
  /\ flying \in [Events -> SUBSET Nat] /\ answer \in [Events -> Answers]
  /\ received \in Seq(Events) /\ missed \in [Events -> SUBSET Nat] /\ erred \in [Events -> SUBSET Nat]
  /\ refused \in [Events -> SUBSET Nat] /\ before \in [Events -> SUBSET Events]

ReceiptsAt(e) == {i \in DOMAIN received : received[i] = e}

\* What a delivery has come to, and its requests with it.
Sound(e) ==
  /\ delivery[e] = "new" => attempt[e] = 0
  /\ delivery[e] \in {"new", "invalid"} => flying[e] = {} /\ ReceiptsAt(e) = {}
  /\ flying[e] \subseteq 1..attempt[e] /\ Spent(e) \subseteq 1..attempt[e]
  /\ attempt[e] <= MaxAttempts
  /\ delivery[e] = "pausing" => attempt[e] < MaxAttempts
  /\ delivery[e] = "failed" => attempt[e] = MaxAttempts
  /\ answer[e] # "none" => ReceiptsAt(e) # {}
  /\ delivery[e] = "delivered" => answer[e] = "2xx"
  /\ delivery[e] = "rejected" => answer[e] # "none"
  /\ delivery[e] = "posting" => attempt[e] > 0 /\ attempt[e] \notin missed[e] \cup erred[e]
                                /\ 1..(attempt[e] - 1) \subseteq Spent(e)
  /\ delivery[e] \in {"pausing", "failed"} => 1..attempt[e] \subseteq Spent(e)

\* A request on its way has timed out, or it is the current attempt's.
FlyingTimedOut(e) ==
  \A n \in flying[e] :
    n \in missed[e] \/ (n = attempt[e] /\ answer[e] = "none" /\ delivery[e] \in {"posting", "raised"})

\* What arrived and may arrive, against the attempts that had to be repeated.
GivenUp(e) == delivery[e] \in {"pausing", "failed"}
Counts(e) ==
  Cardinality(ReceiptsAt(e)) + Cardinality(flying[e])
    <= Cardinality(missed[e] \cup erred[e]) + (IF GivenUp(e) THEN 0 ELSE 1)

EventInv(e) == Sound(e) /\ FlyingTimedOut(e) /\ Counts(e)
Earlier == \A e \in Events : \A x \in before[e] : delivery[x] = "delivered"
WebhookInv == WebhookTypes /\ (\A e \in Events : EventInv(e)) /\ Earlier

-----------------------------------------------------------------------------
LEMMA CountsFinite ==
  ASSUME WebhookTypes, NEW e \in Events, Sound(e)
  PROVE  /\ IsFiniteSet(ReceiptsAt(e)) /\ IsFiniteSet(flying[e]) /\ IsFiniteSet(missed[e] \cup erred[e])
         /\ Cardinality(ReceiptsAt(e)) \in Nat /\ Cardinality(flying[e]) \in Nat
         /\ Cardinality(missed[e] \cup erred[e]) \in Nat
<1>1. IsFiniteSet(1..Len(received)) /\ IsFiniteSet(1..attempt[e])
  BY FS_Interval DEF WebhookTypes
<1>2. ReceiptsAt(e) \subseteq 1..Len(received)
  BY DEF ReceiptsAt, WebhookTypes
<1>3. flying[e] \subseteq 1..attempt[e] /\ missed[e] \cup erred[e] \subseteq 1..attempt[e]
  BY DEF Sound, Spent
<1>4. IsFiniteSet(ReceiptsAt(e)) /\ IsFiniteSet(flying[e]) /\ IsFiniteSet(missed[e] \cup erred[e])
  BY <1>1, <1>2, <1>3, FS_Subset
<1> QED BY <1>4, FS_CardinalityType

LEMMA CountsAtMost ==
  ASSUME WebhookTypes, NEW e \in Events, Sound(e), Counts(e)
  PROVE  /\ Cardinality(ReceiptsAt(e)) + Cardinality(flying[e]) <= Cardinality(missed[e] \cup erred[e]) + 1
         /\ GivenUp(e) => Cardinality(ReceiptsAt(e)) + Cardinality(flying[e]) <= Cardinality(missed[e] \cup erred[e])
<1> DEFINE c == Cardinality(ReceiptsAt(e)) d == Cardinality(flying[e]) k == Cardinality(missed[e] \cup erred[e])
<1>1. c \in Nat /\ d \in Nat /\ k \in Nat
  BY CountsFinite
<1>2. c + d <= k + (IF GivenUp(e) THEN 0 ELSE 1)
  BY DEF Counts
<1> HIDE DEF c, d, k
<1>3. c + d <= k + 1 /\ (GivenUp(e) => c + d <= k)
  BY <1>1, <1>2
<1> QED BY <1>3 DEF c, d, k

\* The account is kept when as much arrived as is no longer on its way.
LEMMA CountsStay ==
  ASSUME NEW e \in Events, Counts(e), UNCHANGED <<delivery, missed, erred>>,
         NEW c \in Nat, NEW c1 \in Nat, NEW d \in Nat, NEW d1 \in Nat, NEW k \in Nat, c1 + d1 <= c + d,
         c = Cardinality(ReceiptsAt(e)), c1 = Cardinality(ReceiptsAt(e)'),
         d = Cardinality(flying[e]), d1 = Cardinality(flying'[e]), k = Cardinality(missed[e] \cup erred[e])
  PROVE  Counts(e)'
<1> DEFINE slack == IF GivenUp(e) THEN 0 ELSE 1
<1>1. slack \in Nat /\ c + d <= k + slack
  BY DEF Counts
<1>2. Counts(e)' <=> c1 + d1 <= k + slack
  BY DEF Counts, GivenUp
<1> HIDE DEF slack
<1> QED BY <1>1, <1>2

\* An event that a step leaves alone.
Unmoved(o) ==
  /\ delivery'[o] = delivery[o] /\ attempt'[o] = attempt[o] /\ flying'[o] = flying[o] /\ answer'[o] = answer[o]
  /\ missed'[o] = missed[o] /\ erred'[o] = erred[o] /\ refused'[o] = refused[o]
  /\ ReceiptsAt(o)' = ReceiptsAt(o)

LEMMA UnmovedStays ==
  ASSUME NEW o \in Events, EventInv(o), Unmoved(o)
  PROVE  EventInv(o)'
BY DEF EventInv, Sound, Spent, FlyingTimedOut, Counts, GivenUp, Unmoved

\* A step about e that reports it to nobody.
LEMMA WebhookStays ==
  ASSUME WebhookInv, WebhookTypes', NEW e \in Events, \A o \in Events \ {e} : Unmoved(o), EventInv(e)',
         delivery[e] # "delivered", UNCHANGED before
  PROVE  WebhookInv'
<1>1. \A o \in Events : EventInv(o)'
  BY UnmovedStays DEF WebhookInv
<1>2. Earlier'
  BY DEF WebhookInv, Earlier, Unmoved, WebhookTypes
<1> QED BY <1>1, <1>2 DEF WebhookInv

\* Where the next request of e is made.
LEMMA AttemptMade ==
  ASSUME WebhookInv, NEW e \in Events, Attempt(e), UNCHANGED <<received, missed, erred, refused>>,
         answer' = [answer EXCEPT ![e] = "none"],
         delivery[e] = "pausing" \/ (delivery[e] = "new" /\ MaxAttempts # 0)
  PROVE  /\ EventInv(e)'
         /\ \A o \in Events \ {e} : Unmoved(o)
         /\ delivery' \in [Events -> Deliveries] /\ attempt' \in [Events -> Nat] /\ flying' \in [Events -> SUBSET Nat]
<1>1. WebhookTypes /\ Sound(e) /\ FlyingTimedOut(e) /\ Counts(e)
  BY DEF WebhookInv, EventInv
<1>2. /\ attempt'[e] = attempt[e] + 1 /\ attempt' \in [Events -> Nat]
      /\ flying'[e] = flying[e] \cup {attempt[e] + 1} /\ flying' \in [Events -> SUBSET Nat]
      /\ delivery'[e] = "posting" /\ delivery' \in [Events -> Deliveries] /\ answer'[e] = "none"
  BY <1>1 DEF Attempt, Becomes, WebhookTypes, Deliveries
<1>3. \A o \in Events \ {e} : Unmoved(o)
  BY <1>1 DEF Attempt, Becomes, WebhookTypes, Unmoved, ReceiptsAt
<1>4. attempt[e] < MaxAttempts /\ attempt[e] \in Nat
  BY <1>1, WebhookAssumption DEF Sound, WebhookTypes
<1>5. Sound(e)'
  <2>1. ReceiptsAt(e)' = ReceiptsAt(e) /\ Spent(e)' = Spent(e)
    BY DEF ReceiptsAt, Spent
  <2>2. 1..attempt[e] \subseteq Spent(e)
    BY <1>1, <1>4 DEF Sound
  <2>3. attempt'[e] > 0 /\ attempt'[e] - 1 = attempt[e] /\ attempt'[e] <= MaxAttempts
        /\ attempt'[e] \notin missed'[e] \cup erred'[e]
    BY <1>1, <1>2, <1>4, WebhookAssumption DEF Sound, Spent
  <2>4. flying'[e] \subseteq 1..attempt'[e] /\ Spent(e)' \subseteq 1..attempt'[e]
    BY <1>1, <1>2, <1>4, <2>1 DEF Sound
  <2>5. 1..(attempt'[e] - 1) \subseteq Spent(e)'
    BY <2>1, <2>2, <2>3
  <2> QED BY <1>2, <2>3, <2>4, <2>5 DEF Sound
<1>6. FlyingTimedOut(e)'
  BY <1>1, <1>2 DEF FlyingTimedOut
<1>7. Counts(e)'
  <2>1. attempt[e] + 1 \notin flying[e]
    BY <1>1, <1>4 DEF Sound
  <2>2. Cardinality(flying'[e]) = Cardinality(flying[e]) + 1
    <3>1. IsFiniteSet(flying[e])
      BY <1>1, CountsFinite
    <3>2. Cardinality(flying[e] \cup {attempt[e] + 1}) = Cardinality(flying[e]) + 1
      BY <2>1, <3>1, FS_AddElement
    <3> QED BY <1>2, <3>2
  <2>3. Cardinality(ReceiptsAt(e)) + Cardinality(flying[e]) <= Cardinality(missed[e] \cup erred[e])
    <3>1. CASE delivery[e] = "new"
      <4>1. Cardinality(ReceiptsAt(e)) = 0 /\ Cardinality(flying[e]) = 0
        BY <1>1, <3>1, FS_EmptySet DEF Sound
      <4> QED BY <1>1, <4>1, CountsFinite
    <3>2. CASE delivery[e] = "pausing"
      BY <1>1, <3>2, CountsAtMost DEF GivenUp
    <3> QED BY <3>1, <3>2
  <2>4. ReceiptsAt(e)' = ReceiptsAt(e) /\ (missed[e] \cup erred[e])' = missed[e] \cup erred[e] /\ ~GivenUp(e)'
    BY <1>2 DEF ReceiptsAt, GivenUp
  <2>5. /\ Cardinality(ReceiptsAt(e))' = Cardinality(ReceiptsAt(e))
        /\ Cardinality(missed[e] \cup erred[e])' = Cardinality(missed[e] \cup erred[e])
    BY <2>4
  <2>6. /\ Cardinality(ReceiptsAt(e)) \in Nat /\ Cardinality(flying[e]) \in Nat
        /\ Cardinality(missed[e] \cup erred[e]) \in Nat
    BY <1>1, CountsFinite
  <2> QED BY <2>2, <2>3, <2>4, <2>5, <2>6 DEF Counts
<1> QED BY <1>2, <1>3, <1>5, <1>6, <1>7 DEF EventInv

\* A delivery ends, and its requests stay.
Ends(e, what) ==
  /\ Becomes(e, what) /\ UNCHANGED <<attempt, flying, received, missed, erred, refused>>
  /\ (answer'[e] = answer[e] \/ (answer'[e] = "none" /\ delivery[e] = "pausing"))
  /\ \A o \in Events \ {e} : answer'[o] = answer[o]
  /\ \/ what = "raised" /\ delivery[e] \in {"new", "posting", "pausing"}
     \/ what = "invalid" /\ delivery[e] = "new"
     \/ what = "delivered" /\ delivery[e] = "posting" /\ answer'[e] = "2xx"
     \/ what = "rejected" /\ delivery[e] = "posting" /\ answer'[e] # "none"
     \/ what = "failed" /\ delivery[e] = "new" /\ MaxAttempts = 0

LEMMA OutcomeTells ==
  ASSUME WebhookInv, NEW e \in Events, NEW what, Ends(e, what)
  PROVE  /\ EventInv(e)' /\ \A o \in Events \ {e} : Unmoved(o)
         /\ delivery' \in [Events -> Deliveries]
<1>1. WebhookTypes /\ Sound(e) /\ FlyingTimedOut(e) /\ Counts(e)
  BY DEF WebhookInv, EventInv
<1>2. delivery'[e] = what /\ delivery' \in [Events -> Deliveries] /\ \A o \in Events \ {e} : delivery'[o] = delivery[o]
  BY <1>1 DEF Becomes, WebhookTypes, Ends, Deliveries
<1>3. \A o \in Events \ {e} : Unmoved(o)
  BY <1>2 DEF Unmoved, ReceiptsAt, Ends
<1>4. ReceiptsAt(e)' = ReceiptsAt(e)
  BY DEF ReceiptsAt, Ends
<1>5. Sound(e)'
  <2>1. Spent(e)' = Spent(e)
    BY DEF Spent, Ends
  <2> QED BY <1>1, <1>2, <1>4, <2>1 DEF Sound, Ends
<1>6. FlyingTimedOut(e)'
  BY <1>1, <1>2 DEF FlyingTimedOut, Sound, Ends
<1>7. Counts(e)'
  <2>1. (missed[e] \cup erred[e])' = missed[e] \cup erred[e] /\ flying' = flying
    BY DEF Ends
  <2>2. Cardinality(ReceiptsAt(e)) + Cardinality(flying[e]) <= Cardinality(missed[e] \cup erred[e]) + 1
    BY <1>1, CountsAtMost
  <2>3. CASE what # "failed"
    <3>1. ~GivenUp(e)'
      BY <1>2, <2>3 DEF GivenUp, Ends
    <3> QED BY <1>4, <2>1, <2>2, <3>1 DEF Counts
  <2>4. CASE what = "failed"
    <3>1. ReceiptsAt(e) = {} /\ flying[e] = {}
      BY <1>1, <2>4 DEF Sound, Ends
    <3>2. Cardinality(ReceiptsAt(e)) = 0 /\ Cardinality(flying[e]) = 0
      BY <3>1, FS_EmptySet
    <3>3. Cardinality(missed[e] \cup erred[e]) \in Nat
      BY <1>1, CountsFinite
    <3> QED BY <1>4, <2>1, <3>2, <3>3 DEF Counts
  <2> QED BY <2>3, <2>4
<1> QED BY <1>2, <1>3, <1>5, <1>6, <1>7 DEF EventInv

\* An attempt of e fails, by a timeout, a 5xx or a refused connection.
LEMMA RetryTells ==
  ASSUME WebhookInv, NEW e \in Events, delivery[e] = "posting", Retry(e), UNCHANGED <<attempt, answer, received>>,
         flying' \in [Events -> SUBSET Nat], missed' \in [Events -> SUBSET Nat], erred' \in [Events -> SUBSET Nat],
         \A o \in Events \ {e} : flying'[o] = flying[o] /\ missed'[o] = missed[o] /\ erred'[o] = erred[o]
                                 /\ refused'[o] = refused[o],
         Spent(e)' = Spent(e) \cup {attempt[e]},
         flying'[e] \subseteq flying[e], missed'[e] \cup erred'[e] \subseteq missed[e] \cup erred[e] \cup {attempt[e]},
         FlyingTimedOut(e)',
         \/ flying'[e] = flying[e] /\ missed'[e] \cup erred'[e] = missed[e] \cup erred[e] \cup {attempt[e]}
         \/ /\ attempt[e] \in flying[e] /\ flying'[e] = flying[e] \ {attempt[e]}
            /\ missed'[e] \cup erred'[e] = missed[e] \cup erred[e]
  PROVE  /\ EventInv(e)' /\ \A o \in Events \ {e} : Unmoved(o)
         /\ delivery' \in [Events -> Deliveries]
<1>1. WebhookTypes /\ Sound(e) /\ FlyingTimedOut(e) /\ Counts(e)
  BY DEF WebhookInv, EventInv
<1>2. /\ delivery'[e] = IF attempt[e] < MaxAttempts THEN "pausing" ELSE "failed"
      /\ delivery' \in [Events -> Deliveries] /\ \A o \in Events \ {e} : delivery'[o] = delivery[o]
  BY <1>1 DEF Retry, Becomes, WebhookTypes, Deliveries
<1>3. \A o \in Events \ {e} : Unmoved(o)
  BY <1>2 DEF Unmoved, ReceiptsAt
<1>4. ReceiptsAt(e)' = ReceiptsAt(e) /\ attempt[e] \in Nat
  BY <1>1 DEF ReceiptsAt, WebhookTypes
<1>5. attempt[e] \in 1..attempt[e]
  BY <1>1, <1>4 DEF Sound, WebhookTypes
<1>6. Sound(e)'
  <2>1. Spent(e)' \subseteq 1..attempt[e]
    BY <1>1, <1>5 DEF Sound
  <2>2. 1..attempt[e] \subseteq Spent(e)'
    <3>1. 1..(attempt[e] - 1) \subseteq Spent(e)
      BY <1>1 DEF Sound
    <3> QED BY <1>4, <3>1
  <2>3. ~(attempt[e] < MaxAttempts) => attempt[e] = MaxAttempts
    BY <1>1, <1>4, WebhookAssumption DEF Sound
  <2> QED BY <1>1, <1>2, <1>4, <1>5, <2>1, <2>2, <2>3 DEF Sound
<1>7. Cardinality(ReceiptsAt(e)) + Cardinality(flying'[e]) <= Cardinality(missed'[e] \cup erred'[e])
  <2>1. /\ IsFiniteSet(flying[e]) /\ IsFiniteSet(missed[e] \cup erred[e])
        /\ Cardinality(ReceiptsAt(e)) \in Nat /\ Cardinality(flying[e]) \in Nat
        /\ Cardinality(missed[e] \cup erred[e]) \in Nat
        /\ Cardinality(ReceiptsAt(e)) + Cardinality(flying[e]) <= Cardinality(missed[e] \cup erred[e]) + 1
    BY <1>1, CountsFinite, CountsAtMost
  <2>2. CASE flying'[e] = flying[e] /\ missed'[e] \cup erred'[e] = missed[e] \cup erred[e] \cup {attempt[e]}
    <3>1. attempt[e] \notin missed[e] \cup erred[e]
      BY <1>1 DEF Sound
    <3>2. Cardinality(missed'[e] \cup erred'[e]) = Cardinality(missed[e] \cup erred[e]) + 1
      <4>1. Cardinality((missed[e] \cup erred[e]) \cup {attempt[e]}) = Cardinality(missed[e] \cup erred[e]) + 1
        BY <2>1, <3>1, FS_AddElement
      <4> QED BY <2>2, <4>1, Zenon
    <3> QED BY <2>1, <2>2, <3>2
  <2>3. CASE /\ attempt[e] \in flying[e] /\ flying'[e] = flying[e] \ {attempt[e]}
             /\ missed'[e] \cup erred'[e] = missed[e] \cup erred[e]
    <3>1. Cardinality(flying'[e]) = Cardinality(flying[e]) - 1
      <4>1. IsFiniteSet(flying[e]) /\ attempt[e] \in flying[e]
        BY <2>1, <2>3
      <4>2. \A S, x : IsFiniteSet(S) /\ x \in S => Cardinality(S \ {x}) = Cardinality(S) - 1
        BY FS_RemoveElement
      <4>3. Cardinality(flying[e] \ {attempt[e]}) = Cardinality(flying[e]) - 1
        BY <4>1, <4>2
      <4> QED BY <2>3, <4>3
    <3>2. Cardinality(missed'[e] \cup erred'[e]) = Cardinality(missed[e] \cup erred[e])
      BY <2>3, Zenon
    <3> QED BY <2>1, <3>1, <3>2
  <2> QED BY <2>2, <2>3
<1>8. Counts(e)'
  <2>1. GivenUp(e)'
    BY <1>2 DEF GivenUp
  <2>2. IsFiniteSet(missed'[e] \cup erred'[e])
    <3>1. IsFiniteSet(1..attempt[e])
      BY <1>4, FS_Interval
    <3>2. missed'[e] \cup erred'[e] \in SUBSET (1..attempt[e])
      BY <1>1, <1>5 DEF Sound, Spent
    <3>3. \A S, T : IsFiniteSet(S) /\ T \in SUBSET S => IsFiniteSet(T)
      BY FS_Subset
    <3> QED BY <3>1, <3>2, <3>3, Zenon
  <2>3. Cardinality(missed'[e] \cup erred'[e]) \in Nat
    BY <2>2, FS_CardinalityType
  <2>4. Cardinality(missed'[e] \cup erred'[e]) + 0 = Cardinality(missed'[e] \cup erred'[e])
    BY <2>3
  <2> QED BY <1>4, <1>7, <2>1, <2>4 DEF Counts
<1> QED BY <1>2, <1>3, <1>6, <1>8 DEF EventInv

-----------------------------------------------------------------------------
LEMMA ExecuteKeeps ==
  ASSUME WebhookInv, NEW e \in Events, Execute(e)
  PROVE  WebhookInv'
<1>1. WebhookTypes /\ Sound(e) /\ FlyingTimedOut(e)
  BY DEF WebhookInv, EventInv
<1>2. /\ delivery[e] = "new" /\ UNCHANGED <<answer, received, missed, erred, refused>>
      /\ before' = [before EXCEPT ![e] = {x \in Events : delivery[x] = "delivered"}]
  BY DEF Execute
<1>3. answer[e] = "none"
  BY <1>1, <1>2 DEF Sound
<1>4. EventInv(e)' /\ (\A o \in Events \ {e} : Unmoved(o)) /\ WebhookTypes'
  <2>0. before' \in [Events -> SUBSET Events] /\ answer' = [answer EXCEPT ![e] = "none"]
    BY <1>1, <1>2, <1>3 DEF WebhookTypes
  <2>1. CASE Attempt(e) /\ MaxAttempts # 0
    BY <1>1, <1>2, <2>0, <2>1, AttemptMade DEF WebhookTypes
  <2>2. ASSUME NEW what \in {"raised", "invalid", "failed"}, Becomes(e, what), UNCHANGED <<attempt, flying>>,
               what = "failed" => MaxAttempts = 0
        PROVE  EventInv(e)' /\ (\A o \in Events \ {e} : Unmoved(o)) /\ WebhookTypes'
    <3>1. Ends(e, what)
      BY <1>1, <1>2, <2>0, <2>2 DEF Ends
    <3> QED BY <1>1, <1>2, <2>0, <2>2, <3>1, OutcomeTells DEF WebhookTypes
  <2>3. \/ Attempt(e) /\ MaxAttempts # 0
        \/ \E what \in {"raised", "invalid", "failed"} :
             Becomes(e, what) /\ UNCHANGED <<attempt, flying>> /\ (what = "failed" => MaxAttempts = 0)
    BY DEF Execute
  <2> QED BY <2>1, <2>2, <2>3
<1>5. \A o \in Events : EventInv(o)'
  BY <1>4, UnmovedStays DEF WebhookInv
<1>6. Earlier'
  BY <1>1, <1>2, <1>4 DEF WebhookInv, Earlier, Unmoved, WebhookTypes
<1> QED BY <1>4, <1>5, <1>6 DEF WebhookInv

LEMMA PostKeeps ==
  ASSUME WebhookInv, NEW e \in Events, Post(e)
  PROVE  WebhookInv'
<1>1. WebhookTypes /\ delivery[e] = "pausing" /\ UNCHANGED <<received, missed, erred, refused, before>>
      /\ answer' = [answer EXCEPT ![e] = "none"]
  BY DEF WebhookInv, Post
<1>2. answer' \in [Events -> Answers] /\ answer'[e] = "none" /\ \A o \in Events \ {e} : answer'[o] = answer[o]
  BY <1>1 DEF WebhookTypes, Answers
<1>3. EventInv(e)' /\ (\A o \in Events \ {e} : Unmoved(o)) /\ WebhookTypes'
  <2>1. CASE Attempt(e)
    BY <1>1, <1>2, <2>1, AttemptMade DEF WebhookTypes
  <2>2. CASE Becomes(e, "raised") /\ UNCHANGED <<attempt, flying>>
    <3>1. Ends(e, "raised")
      BY <1>1, <1>2, <2>2 DEF Ends
    <3> QED BY <1>1, <1>2, <2>2, <3>1, OutcomeTells DEF WebhookTypes
  <2> QED BY <2>1, <2>2 DEF Post
<1> QED BY <1>1, <1>3, WebhookStays

LEMMA AnsweredKeeps ==
  ASSUME WebhookInv, NEW e \in Events, Answered(e)
  PROVE  WebhookInv'
<1>1. /\ WebhookTypes /\ Sound(e) /\ FlyingTimedOut(e) /\ delivery[e] = "posting" /\ answer[e] # "none"
      /\ UNCHANGED <<attempt, flying, answer, received, missed, refused, before>>
  BY DEF WebhookInv, EventInv, Answered
<1>2. CASE answer[e] = "5xx"
  <2>1. Retry(e) /\ erred' = [erred EXCEPT ![e] = @ \cup {attempt[e]}]
    BY <1>2 DEF Answered
  <2>2. /\ erred' \in [Events -> SUBSET Nat] /\ erred'[e] = erred[e] \cup {attempt[e]}
        /\ \A o \in Events \ {e} : erred'[o] = erred[o]
    BY <1>1, <2>1 DEF WebhookTypes
  <2>3. FlyingTimedOut(e)'
    BY <1>1 DEF FlyingTimedOut
  <2>4. flying' \in [Events -> SUBSET Nat] /\ missed' \in [Events -> SUBSET Nat]
        /\ missed'[e] \cup erred'[e] = missed[e] \cup erred[e] \cup {attempt[e]}
    BY <1>1, <2>2 DEF WebhookTypes
  <2>5. EventInv(e)' /\ (\A o \in Events \ {e} : Unmoved(o)) /\ delivery' \in [Events -> Deliveries]
    <3>1. Spent(e)' = Spent(e) \cup {attempt[e]}
      BY <1>1, <2>2 DEF Spent
    <3> QED BY <1>1, <2>1, <2>2, <2>3, <2>4, <3>1, RetryTells
  <2> QED BY <1>1, <2>2, <2>5, WebhookStays DEF WebhookTypes
<1>3. CASE answer[e] \in {"2xx", "4xx"}
  <2>1. PICK what \in {"delivered", "rejected"} :
          Becomes(e, what) /\ UNCHANGED erred /\ (what = "delivered" => answer[e] = "2xx")
    BY <1>3 DEF Answered
  <2>2. Ends(e, what)
    BY <1>1, <2>1 DEF Ends
  <2>3. EventInv(e)' /\ (\A o \in Events \ {e} : Unmoved(o)) /\ delivery' \in [Events -> Deliveries]
    BY <1>1, <2>1, <2>2, OutcomeTells
  <2> QED BY <1>1, <2>1, <2>3, WebhookStays DEF WebhookTypes
<1> QED BY <1>1, <1>2, <1>3 DEF WebhookTypes, Answers

LEMMA TimeOutPostKeeps ==
  ASSUME WebhookInv, NEW e \in Events, TimeOutPost(e)
  PROVE  WebhookInv'
<1>1. /\ WebhookTypes /\ Sound(e) /\ FlyingTimedOut(e) /\ delivery[e] = "posting" /\ Retry(e)
      /\ UNCHANGED <<attempt, flying, answer, received, erred, refused, before>>
      /\ missed' = [missed EXCEPT ![e] = @ \cup {attempt[e]}]
  BY DEF WebhookInv, EventInv, TimeOutPost
<1>2. /\ missed' \in [Events -> SUBSET Nat] /\ missed'[e] = missed[e] \cup {attempt[e]}
      /\ \A o \in Events \ {e} : missed'[o] = missed[o]
  BY <1>1 DEF WebhookTypes
<1>3. FlyingTimedOut(e)'
  BY <1>1, <1>2 DEF FlyingTimedOut
<1>4. flying' \in [Events -> SUBSET Nat] /\ erred' \in [Events -> SUBSET Nat]
      /\ missed'[e] \cup erred'[e] = missed[e] \cup erred[e] \cup {attempt[e]}
  BY <1>1, <1>2 DEF WebhookTypes
<1>5. EventInv(e)' /\ (\A o \in Events \ {e} : Unmoved(o)) /\ delivery' \in [Events -> Deliveries]
  <2>1. Spent(e)' = Spent(e) \cup {attempt[e]}
    BY <1>1, <1>2 DEF Spent
  <2> QED BY <1>1, <1>2, <1>3, <1>4, <2>1, RetryTells
<1> QED BY <1>1, <1>2, <1>5, WebhookStays DEF WebhookTypes

LEMMA RefusedKeeps ==
  ASSUME WebhookInv, NEW e \in Events, Refused(e)
  PROVE  WebhookInv'
<1>1. /\ WebhookTypes /\ Sound(e) /\ FlyingTimedOut(e) /\ delivery[e] = "posting" /\ Retry(e)
      /\ attempt[e] \in flying[e]
      /\ UNCHANGED <<attempt, answer, received, missed, erred, before>>
      /\ flying' = [flying EXCEPT ![e] = @ \ {attempt[e]}]
      /\ refused' = [refused EXCEPT ![e] = @ \cup {attempt[e]}]
  BY DEF WebhookInv, EventInv, Refused
<1>2. /\ flying' \in [Events -> SUBSET Nat] /\ flying'[e] = flying[e] \ {attempt[e]}
      /\ refused' \in [Events -> SUBSET Nat] /\ refused'[e] = refused[e] \cup {attempt[e]}
      /\ \A o \in Events \ {e} : flying'[o] = flying[o] /\ refused'[o] = refused[o]
  BY <1>1 DEF WebhookTypes
<1>3. FlyingTimedOut(e)'
  BY <1>1, <1>2 DEF FlyingTimedOut
<1>4. missed' \in [Events -> SUBSET Nat] /\ erred' \in [Events -> SUBSET Nat]
  BY <1>1 DEF WebhookTypes
<1>5. EventInv(e)' /\ (\A o \in Events \ {e} : Unmoved(o)) /\ delivery' \in [Events -> Deliveries]
  <2>1. Spent(e)' = Spent(e) \cup {attempt[e]}
    BY <1>1, <1>2 DEF Spent
  <2> QED BY <1>1, <1>2, <1>3, <1>4, <2>1, RetryTells
<1> QED BY <1>1, <1>2, <1>5, WebhookStays DEF WebhookTypes

LEMMA BrokenKeeps ==
  ASSUME WebhookInv, NEW e \in Events, Broken(e)
  PROVE  WebhookInv'
<1>1. /\ WebhookTypes /\ delivery[e] = "posting" /\ Becomes(e, "raised")
      /\ UNCHANGED <<attempt, flying, answer, received, missed, erred, refused, before>>
  BY DEF WebhookInv, Broken
<1>2. Ends(e, "raised")
  BY <1>1 DEF Ends
<1>3. EventInv(e)' /\ (\A o \in Events \ {e} : Unmoved(o)) /\ delivery' \in [Events -> Deliveries]
  BY <1>1, <1>2, OutcomeTells
<1> QED BY <1>1, <1>3, WebhookStays DEF WebhookTypes

\* A request of e leaves the network: it arrived, or it is lost.
LEMMA RequestGone ==
  ASSUME WebhookInv, NEW e \in Events, NEW n \in flying[e], flying' = [flying EXCEPT ![e] = @ \ {n}],
         UNCHANGED <<delivery, attempt, missed, erred, refused, before>>
  PROVE  /\ flying' \in [Events -> SUBSET Nat] /\ flying'[e] = flying[e] \ {n}
         /\ \A o \in Events \ {e} : flying'[o] = flying[o]
         /\ Cardinality(flying[e]) \in Nat /\ Cardinality(flying'[e]) = Cardinality(flying[e]) - 1
         /\ delivery[e] \notin {"new", "invalid"}
         /\ Earlier'
<1>1. WebhookTypes /\ Sound(e) /\ Earlier
  BY DEF WebhookInv, EventInv
<1>2. /\ flying' \in [Events -> SUBSET Nat] /\ flying'[e] = flying[e] \ {n}
      /\ \A o \in Events \ {e} : flying'[o] = flying[o]
  BY <1>1 DEF WebhookTypes
<1>3. IsFiniteSet(flying[e]) /\ Cardinality(flying[e]) \in Nat
  BY <1>1, CountsFinite
<1>4. Cardinality(flying[e] \ {n}) = Cardinality(flying[e]) - 1
  BY <1>3, FS_RemoveElement
<1>5. delivery[e] \notin {"new", "invalid"}
  BY <1>1 DEF Sound
<1>6. Earlier'
  BY <1>1 DEF Earlier
<1> QED BY <1>2, <1>3, <1>4, <1>5, <1>6

LEMMA LoseKeeps ==
  ASSUME WebhookInv, NEW e \in Events, Lose(e)
  PROVE  WebhookInv'
<1>1. PICK n \in flying[e] :
        /\ flying' = [flying EXCEPT ![e] = @ \ {n}]
        /\ UNCHANGED <<client, delivery, attempt, answer, received, missed, erred, refused, before>>
  BY DEF Lose
<1>2. /\ flying' \in [Events -> SUBSET Nat] /\ flying'[e] = flying[e] \ {n}
      /\ \A o \in Events \ {e} : flying'[o] = flying[o]
      /\ Cardinality(flying[e]) \in Nat /\ Cardinality(flying'[e]) = Cardinality(flying[e]) - 1
      /\ delivery[e] \notin {"new", "invalid"}
      /\ Earlier'
  BY <1>1, RequestGone
<1>3. WebhookTypes /\ Sound(e) /\ FlyingTimedOut(e) /\ Counts(e)
  BY DEF WebhookInv, EventInv
<1>4. \A o \in Events \ {e} : Unmoved(o)
  BY <1>1, <1>2 DEF Unmoved, ReceiptsAt
<1>5. Sound(e)'
  BY <1>1, <1>2, <1>3 DEF Sound, Spent, ReceiptsAt
<1>6. FlyingTimedOut(e)'
  BY <1>1, <1>2, <1>3 DEF FlyingTimedOut
<1>7. Counts(e)'
  <2>1. ReceiptsAt(e)' = ReceiptsAt(e) /\ Cardinality(ReceiptsAt(e)) \in Nat
        /\ Cardinality(missed[e] \cup erred[e]) \in Nat
    BY <1>1, <1>3, CountsFinite DEF ReceiptsAt
  <2>2. IsFiniteSet(flying[e] \ {n}) /\ Cardinality(flying'[e]) \in Nat
    BY <1>2, <1>3, CountsFinite, FS_RemoveElement, FS_CardinalityType
  <2>3. /\ Cardinality(ReceiptsAt(e)') = Cardinality(ReceiptsAt(e))
        /\ Cardinality(ReceiptsAt(e)) + Cardinality(flying'[e]) <= Cardinality(ReceiptsAt(e)) + Cardinality(flying[e])
    BY <1>2, <2>1, <2>2
  <2>4. UNCHANGED <<delivery, missed, erred>>
    BY <1>1
  <2> QED BY <1>2, <1>3, <2>1, <2>2, <2>3, <2>4, CountsStay
<1>8. \A o \in Events : EventInv(o)'
  BY <1>4, <1>5, <1>6, <1>7, UnmovedStays DEF EventInv, WebhookInv
<1>9. WebhookTypes'
  BY <1>1, <1>2, <1>3 DEF WebhookTypes
<1> QED BY <1>2, <1>8, <1>9 DEF WebhookInv

\* The positions of the subscriber's log, when it gets one more event.
LEMMA LogGrows ==
  ASSUME received \in Seq(Events), NEW e \in Events, received' = Append(received, e)
  PROVE  /\ received' \in Seq(Events) /\ Len(received) \in Nat /\ Len(received) + 1 \notin ReceiptsAt(e)
         /\ ReceiptsAt(e)' = ReceiptsAt(e) \cup {Len(received) + 1}
         /\ \A o \in Events \ {e} : ReceiptsAt(o)' = ReceiptsAt(o)
         /\ DOMAIN received' = 1..(Len(received) + 1) /\ DOMAIN received = 1..Len(received)
         /\ received'[Len(received) + 1] = e
         /\ \A i \in DOMAIN received : received'[i] = received[i]
<1>1. /\ received' \in Seq(Events) /\ Len(received) \in Nat /\ Len(received') = Len(received) + 1
      /\ \A i \in 1..Len(received) : received'[i] = received[i]
      /\ received'[Len(received) + 1] = e
  BY AppendProperties
<1>2. DOMAIN received' = 1..(Len(received) + 1) /\ DOMAIN received = 1..Len(received)
  BY <1>1, LenProperties
<1>3. \A o : ReceiptsAt(o) = {i \in 1..Len(received) : received[i] = o}
  BY <1>2 DEF ReceiptsAt
<1>4. \A o : ReceiptsAt(o)' = {i \in 1..(Len(received) + 1) : received'[i] = o}
  BY <1>2 DEF ReceiptsAt
<1>5. ReceiptsAt(e)' = ReceiptsAt(e) \cup {Len(received) + 1}
  <2>1. ASSUME NEW i
        PROVE  i \in ReceiptsAt(e)' <=> i \in ReceiptsAt(e) \cup {Len(received) + 1}
    BY <1>1, <1>3, <1>4
  <2> QED BY <2>1
<1>6. ASSUME NEW o \in Events \ {e}
      PROVE  ReceiptsAt(o)' = ReceiptsAt(o)
  <2>1. ASSUME NEW i
        PROVE  i \in ReceiptsAt(o)' <=> i \in ReceiptsAt(o)
    BY <1>1, <1>3, <1>4
  <2> QED BY <2>1
<1>7. Len(received) + 1 \notin ReceiptsAt(e)
  BY <1>1, <1>3
<1> QED BY <1>1, <1>2, <1>5, <1>6, <1>7

LEMMA ArriveKeeps ==
  ASSUME WebhookInv, NEW e \in Events, Arrive(e)
  PROVE  WebhookInv'
<1>1. PICK n \in flying[e] :
        /\ flying' = [flying EXCEPT ![e] = @ \ {n}] /\ received' = Append(received, e)
        /\ IF delivery[e] = "posting" /\ attempt[e] = n
           THEN \E code \in {"2xx", "4xx", "5xx"} : answer' = [answer EXCEPT ![e] = code]
           ELSE UNCHANGED answer
        /\ UNCHANGED <<client, delivery, attempt, missed, erred, refused, before>>
  BY DEF Arrive
<1>2. /\ flying' \in [Events -> SUBSET Nat] /\ flying'[e] = flying[e] \ {n}
      /\ \A o \in Events \ {e} : flying'[o] = flying[o]
      /\ Cardinality(flying[e]) \in Nat /\ Cardinality(flying'[e]) = Cardinality(flying[e]) - 1
      /\ delivery[e] \notin {"new", "invalid"}
      /\ Earlier'
  BY <1>1, RequestGone
<1>3. WebhookTypes /\ Sound(e) /\ FlyingTimedOut(e) /\ Counts(e)
  BY DEF WebhookInv, EventInv
<1>4. /\ received' \in Seq(Events) /\ Len(received) \in Nat /\ Len(received) + 1 \notin ReceiptsAt(e)
      /\ ReceiptsAt(e)' = ReceiptsAt(e) \cup {Len(received) + 1}
      /\ \A o \in Events \ {e} : ReceiptsAt(o)' = ReceiptsAt(o)
  BY <1>1, <1>3, LogGrows DEF WebhookTypes
<1>5. /\ answer' \in [Events -> Answers] /\ \A o \in Events \ {e} : answer'[o] = answer[o]
      /\ answer'[e] # answer[e] => delivery[e] = "posting" /\ attempt[e] = n
  <2>1. CASE UNCHANGED answer
    BY <1>3, <2>1 DEF WebhookTypes
  <2>2. CASE delivery[e] = "posting" /\ attempt[e] = n
    <3>1. PICK code \in {"2xx", "4xx", "5xx"} : answer' = [answer EXCEPT ![e] = code]
      BY <1>1, <2>2
    <3> QED BY <1>3, <2>2, <3>1 DEF WebhookTypes, Answers
  <2> QED BY <1>1, <2>1, <2>2
<1>6. \A o \in Events \ {e} : Unmoved(o)
  BY <1>1, <1>2, <1>4, <1>5 DEF Unmoved
<1>7. Sound(e)'
  BY <1>1, <1>2, <1>3, <1>4, <1>5 DEF Sound, Spent
<1>8. FlyingTimedOut(e)'
  BY <1>1, <1>2, <1>3, <1>5 DEF FlyingTimedOut
<1>9. Counts(e)'
  <2>1. IsFiniteSet(flying[e] \ {n}) /\ Cardinality(flying'[e]) \in Nat
    BY <1>2, <1>3, CountsFinite, FS_RemoveElement, FS_CardinalityType
  <2>2. IsFiniteSet(ReceiptsAt(e)) /\ Cardinality(ReceiptsAt(e)) \in Nat /\ Cardinality(missed[e] \cup erred[e]) \in Nat
    BY <1>3, CountsFinite
  <2>3. Cardinality(ReceiptsAt(e) \cup {Len(received) + 1}) = Cardinality(ReceiptsAt(e)) + 1
    BY <1>4, <2>2, FS_AddElement
  <2>4. Cardinality(ReceiptsAt(e)') = Cardinality(ReceiptsAt(e)) + 1
    BY <1>4, <2>3, Zenon
  <2>5. /\ Cardinality(ReceiptsAt(e)') \in Nat
        /\ Cardinality(ReceiptsAt(e)') + Cardinality(flying'[e]) <= Cardinality(ReceiptsAt(e)) + Cardinality(flying[e])
    BY <1>2, <2>1, <2>2, <2>4
  <2>6. UNCHANGED <<delivery, missed, erred>>
    BY <1>1
  <2> QED BY <1>2, <1>3, <2>1, <2>2, <2>5, <2>6, CountsStay
<1>10. \A o \in Events : EventInv(o)'
  BY <1>6, <1>7, <1>8, <1>9, UnmovedStays DEF EventInv, WebhookInv
<1>11. WebhookTypes'
  BY <1>1, <1>2, <1>3, <1>4, <1>5 DEF WebhookTypes
<1> QED BY <1>2, <1>10, <1>11 DEF WebhookInv

LEMMA WebhookStarts == WebhookInit => WebhookInv
<1> SUFFICES ASSUME WebhookInit PROVE WebhookInv
  OBVIOUS
<1>1. WebhookTypes
  <2>1. received \in Seq(Events)
    BY DEF WebhookInit
  <2> QED BY <2>1 DEF WebhookTypes, WebhookInit, Deliveries, Answers
<1>2. ASSUME NEW e \in Events
      PROVE  EventInv(e)
  <2>1. ReceiptsAt(e) = {} /\ flying[e] = {} /\ missed[e] \cup erred[e] = {} /\ Spent(e) = {} /\ delivery[e] = "new" /\ attempt[e] = 0
        /\ answer[e] = "none"
    BY DEF WebhookInit, ReceiptsAt, Spent
  <2>2. Counts(e)
    <3>1. Cardinality(ReceiptsAt(e)) = 0 /\ Cardinality(flying[e]) = 0 /\ Cardinality(missed[e] \cup erred[e]) = 0
      BY <2>1, FS_EmptySet, Zenon
    <3>2. ~GivenUp(e)
      BY <2>1 DEF GivenUp
    <3> QED BY <3>1, <3>2 DEF Counts
  <2> QED BY <2>1, <2>2, WebhookAssumption DEF EventInv, Sound, FlyingTimedOut
<1>3. Earlier
  BY DEF Earlier, WebhookInit
<1> QED BY <1>1, <1>2, <1>3 DEF WebhookInv

LEMMA WebhookStep ==
  ASSUME WebhookInv, [WebhookNext]_wvars
  PROVE  WebhookInv'
<1>1. CASE CloseClient \/ UNCHANGED wvars
  <2>1. UNCHANGED <<delivery, attempt, flying, answer, received, missed, erred, refused, before>>
    BY <1>1 DEF CloseClient, wvars
  <2>2. WebhookTypes' /\ Earlier' /\ \A o \in Events : Unmoved(o)
    BY <2>1 DEF WebhookInv, WebhookTypes, Earlier, Unmoved, ReceiptsAt
  <2> QED BY <2>2, UnmovedStays DEF WebhookInv
<1>2. ASSUME NEW e \in Events,
             Execute(e) \/ Post(e) \/ Answered(e) \/ TimeOutPost(e) \/ Refused(e) \/ Broken(e) \/ Arrive(e) \/ Lose(e)
      PROVE  WebhookInv'
  BY <1>2, ExecuteKeeps, PostKeeps, AnsweredKeeps, TimeOutPostKeeps, RefusedKeeps, BrokenKeeps, ArriveKeeps, LoseKeeps
<1> QED BY <1>1, <1>2 DEF WebhookNext

\* For any events and any number of attempts, what execute returns is what
\* happened to the event, and it is received once more than there were
\* timeouts and 5xx answers at most (webhook.py, execute with its retries, a
\* network that delivers late or not at all, and disconnect at any moment).
THEOREM OutcomesAlwaysTellReceipts == WebhookSpec => []OutcomesTellReceipts
<1>1. WebhookInv => OutcomesTellReceipts
  <2> SUFFICES ASSUME WebhookInv, NEW e \in Events
      PROVE  /\ delivery[e] \in {"delivered", "rejected"} => Receipts(e) > 0
             /\ delivery[e] = "failed" => Spent(e) = 1..MaxAttempts
             /\ delivery[e] = "delivered" => answer[e] = "2xx"
             /\ delivery[e] = "invalid" => Receipts(e) = 0
             /\ Receipts(e) <= Cardinality(missed[e] \cup erred[e]) + 1
    BY DEF OutcomesTellReceipts
  <2>1. WebhookTypes /\ Sound(e) /\ Counts(e)
    BY DEF WebhookInv, EventInv
  <2>2. Receipts(e) = Cardinality(ReceiptsAt(e))
    BY DEF Receipts, ReceiptsAt
  <2>3. /\ IsFiniteSet(ReceiptsAt(e)) /\ Cardinality(ReceiptsAt(e)) \in Nat /\ Cardinality(flying[e]) \in Nat
        /\ Cardinality(missed[e] \cup erred[e]) \in Nat
        /\ Cardinality(ReceiptsAt(e)) + Cardinality(flying[e]) <= Cardinality(missed[e] \cup erred[e]) + 1
    BY <2>1, CountsFinite, CountsAtMost
  <2>4. Cardinality(ReceiptsAt(e)) = 0 <=> ReceiptsAt(e) = {}
    BY <2>3, FS_EmptySet
  <2>5. delivery[e] = "failed" => Spent(e) = 1..MaxAttempts
    <3>1. delivery[e] = "failed" => attempt[e] = MaxAttempts /\ Spent(e) \subseteq 1..attempt[e]
                                     /\ 1..attempt[e] \subseteq Spent(e)
      BY <2>1 DEF Sound
    <3> QED BY <3>1
  <2>6. delivery[e] \in {"delivered", "rejected"} => answer[e] # "none"
    BY <2>1 DEF Sound
  <2> QED BY <2>1, <2>2, <2>3, <2>4, <2>5, <2>6 DEF Sound
<1> QED BY <1>1, WebhookStarts, WebhookStep, PTL DEF WebhookSpec

-----------------------------------------------------------------------------
(* Overtaking: a delivered event has no request on its way but those that   *)
(* timed out, and an event that is executed has not been received yet.      *)

LEMMA MissedGrows ==
  ASSUME WebhookInv, [WebhookNext]_wvars, NEW x \in Events
  PROVE  missed[x] \subseteq missed'[x]
<1>1. missed \in [Events -> SUBSET Nat]
  BY DEF WebhookInv, WebhookTypes
<1>2. ASSUME NEW e \in Events, TimeOutPost(e)
      PROVE  missed[x] \subseteq missed'[x]
  BY <1>1, <1>2 DEF TimeOutPost
<1>3. (\E e \in Events : TimeOutPost(e)) \/ UNCHANGED missed
  BY DEF WebhookNext, wvars, CloseClient, Execute, Post, Answered, Refused, Broken, Arrive, Lose
<1> QED BY <1>2, <1>3

LEMMA LateStep ==
  ASSUME WebhookInv, LateOnlyByTimeout, [WebhookNext]_wvars
  PROVE  LateOnlyByTimeout'
<1> SUFFICES ASSUME NEW e \in Events, NEW x \in Events, (x \in before[e])',
                    NEW i \in DOMAIN received', NEW j \in DOMAIN received',
                    i < j, received'[i] = e, received'[j] = x
             PROVE  missed'[x] # {}
  BY DEF LateOnlyByTimeout
<1>1. WebhookTypes /\ missed[x] \subseteq missed'[x]
  BY MissedGrows DEF WebhookInv
<1>2. ASSUME NEW a \in Events, Execute(a)
      PROVE  missed'[x] # {}
  <2>1. received' = received /\ delivery[a] = "new" /\ before' = [before EXCEPT ![a] = {y \in Events : delivery[y] = "delivered"}]
    BY <1>2 DEF Execute
  <2>2. ReceiptsAt(a) = {}
    BY <2>1 DEF WebhookInv, EventInv, Sound
  <2>3. e # a /\ x \in before[e]
    BY <1>1, <2>1, <2>2 DEF ReceiptsAt, WebhookTypes
  <2> QED BY <1>1, <2>1, <2>3 DEF LateOnlyByTimeout
<1>3. ASSUME NEW a \in Events, Arrive(a)
      PROVE  missed'[x] # {}
  <2>1. PICK n \in flying[a] : received' = Append(received, a) /\ UNCHANGED before
    BY <1>3 DEF Arrive
  <2>2. /\ Len(received) \in Nat
        /\ DOMAIN received' = 1..(Len(received) + 1) /\ DOMAIN received = 1..Len(received)
        /\ received'[Len(received) + 1] = a
        /\ \A k \in DOMAIN received : received'[k] = received[k]
    BY <1>1, <2>1, LogGrows DEF WebhookTypes
  <2>3. CASE j = Len(received) + 1
    <3>1. x = a /\ delivery[x] = "delivered"
      BY <2>1, <2>2, <2>3 DEF WebhookInv, Earlier
    <3>2. n \in missed[x]
      BY <3>1 DEF WebhookInv, EventInv, FlyingTimedOut
    <3> QED BY <1>1, <3>2
  <2>4. CASE j # Len(received) + 1
    <3>1. i \in DOMAIN received /\ j \in DOMAIN received
      BY <2>2, <2>4
    <3> QED BY <1>1, <2>1, <2>2, <3>1 DEF LateOnlyByTimeout
  <2> QED BY <2>3, <2>4
<1>4. CASE UNCHANGED <<received, before>>
  BY <1>1, <1>4 DEF LateOnlyByTimeout
<1>5. (\E a \in Events : Execute(a) \/ Arrive(a)) \/ UNCHANGED <<received, before>>
  BY DEF WebhookNext, wvars, CloseClient, Post, Answered, TimeOutPost, Refused, Broken, Lose
<1> QED BY <1>2, <1>3, <1>4, <1>5

\* For any events and attempts, an event reported delivered before another was
\* executed reaches the subscriber behind it only as a copy that an attempt
\* sent before it timed out (execute's retries).
THEOREM LateAlwaysByTimeout == WebhookSpec => []LateOnlyByTimeout
<1>1. WebhookInit => LateOnlyByTimeout
  BY DEF WebhookInit, LateOnlyByTimeout
<1> QED BY <1>1, WebhookStarts, WebhookStep, LateStep, PTL DEF WebhookSpec

-----------------------------------------------------------------------------
(* Completions.                                                            *)

Fields == {"pc", "kind", "chain", "at", "attempt", "wait"}
UnderWay == {"asked", "streaming", "asleep"}

\* A request under way is at a candidate of its chain, at one of its attempts;
\* asleep another attempt is left to it, and only asleep it waits.
WellFormed(k) ==
  /\ DOMAIN k = Fields
  /\ k.pc \in Over \cup UnderWay
  /\ k.pc \in UnderWay => /\ k.chain \in Seq(Models)
                          /\ k.at \in 1..Len(k.chain)
                          /\ k.attempt \in 1..MaxRetries
  /\ k.pc = "asleep" => k.attempt < MaxRetries
  /\ k.pc \in {"asked", "streaming"} => k.wait = 0

CompletionTypeOK ==
  /\ failures \in [Models -> Seq(Nat)]
  /\ DOMAIN request = Askers
  /\ \A c \in Askers : WellFormed(request[c])
  /\ hammer \in [Models -> Nat]

IsAt(k, m) == k.pc \in UnderWay /\ Candidate(k) = m

\* The attempts at m that are left to the requests now at m.
LeftAt(r, m) ==
  {p \in Askers \X (2..MaxRetries) : IsAt(r[p[1]], m) /\ p[2] > r[p[1]].attempt}

Budget == (Cardinality(Askers) - 1) * (MaxRetries - 1)

\* What an open circuit let through, and may yet let through.
Spared(m) ==
  IF Open(m) THEN hammer[m] + Cardinality(LeftAt(request, m)) <= Budget ELSE hammer[m] = 0

CompletionInv == CompletionTypeOK /\ \A m \in Models : Spared(m)

-----------------------------------------------------------------------------

LEMMA IdleForm ==
  ASSUME NEW p \in Over
  PROVE  /\ WellFormed([Idle EXCEPT !.pc = p]) /\ [Idle EXCEPT !.pc = p].pc = p
         /\ WellFormed(Idle) /\ Idle.pc = "idle"
BY DEF WellFormed, Idle, Over, UnderWay, Fields

LEMMA BudgetType == Cardinality(Askers) \in Nat /\ Cardinality(Askers) >= 1 /\ MaxRetries \in Nat /\ MaxRetries >= 1 /\ Budget \in Nat
<1>1. Cardinality(Askers) \in Nat /\ Cardinality(Askers) # 0
  BY AskersAssumption, FS_CardinalityType, FS_EmptySet
<1>2. MaxRetries \in Nat /\ MaxRetries >= 1
  BY RetryAssumption
<1> DEFINE n == Cardinality(Askers)
<1>3. n >= 1
  BY <1>1
<1> HIDE DEF n
<1>4. n \in Nat
  BY <1>1 DEF n
<1>5. n - 1 \in Nat /\ MaxRetries - 1 \in Nat
  BY <1>2, <1>3, <1>4
<1>6. (n - 1) * (MaxRetries - 1) \in Nat
  BY <1>5
<1> QED BY <1>2, <1>3, <1>4, <1>6 DEF Budget, n

LEMMA LeftFinite ==
  ASSUME NEW r, NEW m
  PROVE  IsFiniteSet(LeftAt(r, m)) /\ Cardinality(LeftAt(r, m)) \in Nat
<1>1. IsFiniteSet(2..MaxRetries)
  BY RetryAssumption, FS_Interval
<1>2. IsFiniteSet(Askers \X (2..MaxRetries))
  BY <1>1, AskersAssumption, FS_Product
<1>3. LeftAt(r, m) \subseteq Askers \X (2..MaxRetries)
  BY DEF LeftAt
<1> QED BY <1>2, <1>3, FS_Subset, FS_CardinalityType

\* Without one of the tasks, no more attempts than the budget are left.
LEMMA LeftToOthers ==
  ASSUME NEW r, NEW m, NEW c \in Askers, ~IsAt(r[c], m)
  PROVE  Cardinality(LeftAt(r, m)) <= Budget
<1> DEFINE Rest == Askers \ {c}
           Later == 2..MaxRetries
<1>1. IsFiniteSet(Later) /\ Cardinality(Later) = MaxRetries - 1
  <2>1. MaxRetries \in Int /\ 2 \in Int /\ MaxRetries >= 1
    BY BudgetType
  <2>2. IsFiniteSet(Later) /\ Cardinality(Later) = IF 2 > MaxRetries THEN 0 ELSE MaxRetries - 2 + 1
    BY <2>1, FS_Interval, Zenon
  <2> HIDE DEF Later
  <2> QED BY <2>1, <2>2
<1>2. IsFiniteSet(Rest) /\ Cardinality(Rest) = Cardinality(Askers) - 1
  BY AskersAssumption, FS_RemoveElement
<1>3. IsFiniteSet(Rest \X Later) /\ Cardinality(Rest \X Later) = Cardinality(Rest) * Cardinality(Later)
  BY <1>1, <1>2, FS_Product, Zenon
<1>4. Cardinality(Rest \X Later) = Budget
  BY <1>1, <1>2, <1>3, Zenon DEF Budget
<1>5. LeftAt(r, m) \subseteq Rest \X Later
  BY DEF LeftAt
<1> HIDE DEF Rest, Later
<1> QED BY <1>3, <1>4, <1>5, FS_Subset

-----------------------------------------------------------------------------
(* Steps of one request.                                                   *)

\* The request is at m only if it was, and with no fewer attempts behind it.
LEMMA LeftShrinks ==
  ASSUME CompletionTypeOK, NEW c \in Askers, NEW k, request' = [request EXCEPT ![c] = k], NEW m \in Models,
         IsAt(k, m) => /\ IsAt(request[c], m) /\ k.attempt \in Int
                       /\ request[c].attempt <= k.attempt
  PROVE  Cardinality(LeftAt(request', m)) <= Cardinality(LeftAt(request, m))
<1>1. LeftAt(request', m) \subseteq LeftAt(request, m)
  <2>1. SUFFICES ASSUME NEW p \in LeftAt(request', m)  PROVE p \in LeftAt(request, m)
    OBVIOUS
  <2>2. p \in Askers \X (2..MaxRetries) /\ IsAt(request'[p[1]], m) /\ p[2] > request'[p[1]].attempt
    BY <2>1, Zenon DEF LeftAt
  <2>3. CASE p[1] = c
    <3>1. request'[p[1]] = k
      BY <2>3 DEF CompletionTypeOK
    <3>2. IsAt(k, m) /\ p[2] > k.attempt
      BY <2>2, <3>1, Zenon
    <3>3. k.attempt \in Int /\ request[c].attempt \in Int /\ p[2] \in Int
      <4>1. request[c].attempt \in 1..MaxRetries
        BY <3>2 DEF CompletionTypeOK, WellFormed, IsAt
      <4> QED BY <4>1, <3>2, <2>2, RetryAssumption
    <3>4. p[2] > request[c].attempt
      BY <3>2, <3>3
    <3> QED BY <2>2, <2>3, <3>2, <3>4, Zenon DEF LeftAt
  <2>4. CASE p[1] # c
    <3>1. request'[p[1]] = request[p[1]]
      BY <2>2, <2>4 DEF CompletionTypeOK
    <3> QED BY <2>2, <3>1, Zenon DEF LeftAt
  <2> QED BY <2>3, <2>4
<1> QED BY <1>1, LeftFinite, FS_Subset

LEMMA CountedTells ==
  ASSUME CompletionTypeOK, failures' \in [Models -> Seq(Nat)],
         NEW c \in Askers, NEW k, request' = [request EXCEPT ![c] = k], NEW m \in Models, Counted
  PROVE  /\ ~Open(m)' => hammer'[m] = 0
         /\ Open(m)' /\ ~Open(m) => hammer'[m] = hammer[m]
         /\ Open(m)' /\ ~(k # request[c] /\ k.pc = "asked" /\ Candidate(k) = m) => hammer'[m] = hammer[m]
         /\ hammer'[m] \in {0, hammer[m], hammer[m] + 1}
<1>1. Len(failures'[m]) \in Nat /\ Threshold \in Nat
  BY RetryAssumption
<1>2. \A d \in Askers : request'[d] = IF d = c THEN k ELSE request[d]
  BY DEF CompletionTypeOK
<1> DEFINE Asks == \E d \in Askers : /\ request'[d] # request[d]
                                     /\ request'[d].pc = "asked"
                                     /\ Candidate(request'[d]) = m
<1>3. Asks => k # request[c] /\ k.pc = "asked" /\ Candidate(k) = m
  BY <1>2
<1>4. hammer'[m] = IF Len(failures'[m]) < Threshold THEN 0
                   ELSE IF Open(m) /\ Asks THEN hammer[m] + 1 ELSE hammer[m]
  BY DEF Counted
<1>5. Open(m)' <=> Len(failures'[m]) >= Threshold
  BY DEF Open
<1> HIDE DEF Asks
<1>6. Open(m)' <=> ~(Len(failures'[m]) < Threshold)
  BY <1>1, <1>5
<1> QED BY <1>3, <1>4, <1>6, Zenon

LEMMA HammerType ==
  ASSUME CompletionTypeOK, failures' \in [Models -> Seq(Nat)],
         NEW c \in Askers, NEW k, request' = [request EXCEPT ![c] = k], Counted
  PROVE  hammer' \in [Models -> Nat]
<1>1. \A m \in Models : hammer'[m] \in Nat
  <2>1. SUFFICES ASSUME NEW m \in Models  PROVE hammer'[m] \in Nat
    OBVIOUS
  <2>2. hammer'[m] \in {0, hammer[m], hammer[m] + 1}
    BY CountedTells
  <2> QED BY <2>2 DEF CompletionTypeOK
<1>2. DOMAIN hammer' = Models /\ hammer' = [m \in Models |-> hammer'[m]]
  <2>1. hammer' = [m \in Models |->
          IF Len(failures'[m]) < Threshold THEN 0
          ELSE IF Open(m) /\ \E d \in Askers : /\ request'[d] # request[d]
                                               /\ request'[d].pc = "asked"
                                               /\ Candidate(request'[d]) = m
               THEN hammer[m] + 1 ELSE hammer[m]]
    BY DEF Counted
  <2> QED BY <2>1
<1> QED BY <1>1, <1>2

\* A step of one request by which it asks no model whose circuit is open, has
\* no more left there, and leaves a model whose circuit it opens.
LEMMA QuietStep ==
  ASSUME CompletionInv, failures' \in [Models -> Seq(Nat)], NEW c \in Askers, NEW k, WellFormed(k),
         request' = [request EXCEPT ![c] = k], Counted, NEW m \in Models,
         Open(m)' => Open(m) \/ ~IsAt(k, m),
         Open(m)' => ~(k # request[c] /\ k.pc = "asked" /\ Candidate(k) = m),
         Open(m)' /\ IsAt(k, m) => IsAt(request[c], m) /\ request[c].attempt <= k.attempt
  PROVE  Spared(m)'
<1>1. CompletionTypeOK /\ Spared(m)
  BY DEF CompletionInv
<1>2. CASE ~Open(m)'
  <2>1. hammer'[m] = 0
    BY <1>1, <1>2, CountedTells
  <2> QED BY <1>2, <2>1, Zenon DEF Spared
<1>3. CASE Open(m)' /\ Open(m)
  <2>1. hammer'[m] = hammer[m]
    <3>1. ~(k # request[c] /\ k.pc = "asked" /\ Candidate(k) = m)
      BY <1>3, Zenon
    <3>2. Open(m)' /\ ~(k # request[c] /\ k.pc = "asked" /\ Candidate(k) = m) => hammer'[m] = hammer[m]
      BY <1>1, CountedTells
    <3> QED BY <1>3, <3>1, <3>2, Zenon
  <2>2. hammer[m] + Cardinality(LeftAt(request, m)) <= Budget
    BY <1>1, <1>3, Zenon DEF Spared
  <2>3. IsAt(k, m) => IsAt(request[c], m) /\ k.attempt \in Int /\ request[c].attempt <= k.attempt
    <3>1. IsAt(k, m) => k.attempt \in Int
      BY RetryAssumption DEF WellFormed, IsAt
    <3> QED BY <1>3, <3>1, Zenon
  <2>4. Cardinality(LeftAt(request', m)) <= Cardinality(LeftAt(request, m))
    BY <1>1, <2>3, LeftShrinks
  <2> DEFINE h == hammer[m] l == Cardinality(LeftAt(request, m)) l1 == Cardinality(LeftAt(request', m))
  <2>5. h \in Nat /\ l \in Nat /\ l1 \in Nat /\ Budget \in Nat
    BY <1>1, LeftFinite, BudgetType DEF CompletionTypeOK
  <2>6. h + l <= Budget /\ l1 <= l
    BY <2>2, <2>4, Zenon
  <2> HIDE DEF h, l, l1
  <2>7. h + l1 <= Budget
    BY <2>5, <2>6
  <2>8. hammer'[m] + Cardinality(LeftAt(request', m)) <= Budget
    BY <2>1, <2>7, Zenon DEF h, l1
  <2>9. Spared(m)' <=> IF Open(m)' THEN hammer'[m] + Cardinality(LeftAt(request', m)) <= Budget ELSE hammer'[m] = 0
    BY DEF Spared, Budget
  <2> QED BY <1>3, <2>8, <2>9, Zenon
<1>4. CASE Open(m)' /\ ~Open(m)
  <2>1. hammer'[m] = hammer[m] /\ hammer[m] = 0
    BY <1>1, <1>4, CountedTells DEF Spared
  <2>2. request'[c] = k
    BY <1>1 DEF CompletionTypeOK
  <2>3. ~IsAt(request'[c], m)
    BY <1>4, <2>2, Zenon
  <2>4. Cardinality(LeftAt(request', m)) <= Budget
    BY <2>3, LeftToOthers
  <2>5. hammer'[m] + Cardinality(LeftAt(request', m)) <= Budget
    BY <2>1, <2>4, LeftFinite, BudgetType
  <2> QED BY <1>4, <2>5, Zenon DEF Spared, Budget
<1> QED BY <1>2, <1>3, <1>4, Zenon

LEMMA OthersWellFormed ==
  ASSUME CompletionTypeOK, NEW c \in Askers, NEW k, WellFormed(k), request' = [request EXCEPT ![c] = k]
  PROVE  DOMAIN request' = Askers /\ \A d \in Askers : WellFormed(request'[d])
<1>1. DOMAIN request' = Askers
  BY DEF CompletionTypeOK
<1>2. ASSUME NEW d \in Askers  PROVE WellFormed(request'[d])
  <2>1. request'[d] = IF d = c THEN k ELSE request[d]
    BY DEF CompletionTypeOK
  <2>2. WellFormed(request[d])
    BY DEF CompletionTypeOK
  <2> QED BY <2>1, <2>2, Zenon
<1> QED BY <1>1, <1>2

\* As QuietStep, for all models.
Quiet(c, k) ==
  \A m \in Models :
    Open(m)' => /\ Open(m) \/ ~IsAt(k, m)
                /\ ~(k # request[c] /\ k.pc = "asked" /\ Candidate(k) = m)
                /\ IsAt(k, m) => IsAt(request[c], m) /\ request[c].attempt <= k.attempt

LEMMA QuietKeeps ==
  ASSUME CompletionInv, failures' \in [Models -> Seq(Nat)], NEW c \in Askers, NEW k, WellFormed(k),
         request' = [request EXCEPT ![c] = k], Counted, Quiet(c, k)
  PROVE  CompletionInv'
<1>1. CompletionTypeOK
  BY DEF CompletionInv
<1>2. CompletionTypeOK'
  <2>1. DOMAIN request' = Askers /\ \A d \in Askers : WellFormed(request'[d])
    BY <1>1, OthersWellFormed
  <2>2. hammer' \in [Models -> Nat]
    BY <1>1, HammerType
  <2> QED BY <2>1, <2>2, Zenon DEF CompletionTypeOK, WellFormed, Over, UnderWay, Fields
<1>3. ASSUME NEW m \in Models  PROVE Spared(m)'
  <2>1. /\ Open(m)' => Open(m) \/ ~IsAt(k, m)
        /\ Open(m)' => ~(k # request[c] /\ k.pc = "asked" /\ Candidate(k) = m)
        /\ Open(m)' /\ IsAt(k, m) => IsAt(request[c], m) /\ request[c].attempt <= k.attempt
    BY Zenon DEF Quiet
  <2> QED BY <2>1, QuietStep
<1> QED BY <1>2, <1>3 DEF CompletionInv

-----------------------------------------------------------------------------
(* The loop over the candidates.                                           *)

\* What the search for a usable candidate makes of the request.
Sought(c, k) ==
  /\ request' = [request EXCEPT ![c] = k]
  /\ WellFormed(k)
  /\ k.pc \in {"asked", "raised"}
  /\ k.pc = "asked" => Candidate(k) \in Models /\ ~IsOpen(failures', Candidate(k))

LEMMA SeekTells ==
  ASSUME NEW c \in Askers, NEW k, DOMAIN k = Fields, k.chain \in Seq(Models), NEW i \in Nat, i >= 1, Seek(c, k, i)
  PROVE  \E r : Sought(c, r)
<1> DEFINE usable == {j \in i..Len(k.chain) : ~IsOpen(failures', k.chain[j])}
           next == [k EXCEPT !.pc = "asked", !.at = Min(usable), !.attempt = 1, !.wait = 0]
           out == [Idle EXCEPT !.pc = "raised"]
<1>1. request' = [request EXCEPT ![c] = IF usable = {} THEN out ELSE next]
  BY DEF Seek
<1>2. CASE usable = {}
  <2>1. request' = [request EXCEPT ![c] = out]
    BY <1>1, <1>2, Zenon
  <2>2. WellFormed(out) /\ out.pc = "raised"
    BY IdleForm DEF Over
  <2> HIDE DEF out
  <2> QED BY <2>1, <2>2 DEF Sought
<1>3. CASE usable # {}
  <2>1. request' = [request EXCEPT ![c] = next]
    BY <1>1, <1>3, Zenon
  <2>2. Min(usable) \in usable
    <3>1. usable \subseteq Nat
      OBVIOUS
    <3>2. \E n \in usable : \A x \in usable : n <= x
      BY <1>3, <3>1, LeastExists
    <3> HIDE DEF usable
    <3> QED BY <3>2 DEF Min
  <2> DEFINE n == Min(usable)
  <2>3. n \in 1..Len(k.chain) /\ ~IsOpen(failures', k.chain[n])
    BY <2>2
  <2> HIDE DEF usable
  <2>4. /\ DOMAIN next = Fields /\ next.pc = "asked" /\ next.at = n /\ next.attempt = 1 /\ next.wait = 0
        /\ next.chain = k.chain
    BY DEF Fields
  <2> HIDE DEF next, n
  <2>5. 1 \in 1..MaxRetries
    BY RetryAssumption
  <2>6. WellFormed(next)
    BY <2>3, <2>4, <2>5 DEF WellFormed, Over, UnderWay
  <2>7. Candidate(next) = k.chain[n]
    BY <2>4, Zenon DEF Candidate
  <2>8. k.chain[n] \in Models
    BY <2>3
  <2>9. ~IsOpen(failures', Candidate(next))
    BY <2>3, <2>7, Zenon
  <2> QED BY <2>1, <2>4, <2>6, <2>7, <2>8, <2>9, Zenon DEF Sought
<1> QED BY <1>2, <1>3

LEMMA SoughtIsAt ==
  ASSUME NEW c \in Askers, NEW k, Sought(c, k), NEW m \in Models, Open(m)'
  PROVE  ~IsAt(k, m) /\ ~(k.pc = "asked" /\ Candidate(k) = m)
<1>1. ~(k.pc = "asked" /\ Candidate(k) = m)
  BY DEF Sought, Open, IsOpen
<1>2. IsAt(k, m) => k.pc = "asked" /\ Candidate(k) = m
  BY DEF IsAt, Sought, UnderWay
<1> QED BY <1>1, <1>2

\* The search asks no model whose circuit is open.
LEMMA SoughtQuiet ==
  ASSUME NEW c \in Askers, NEW k, Sought(c, k)
  PROVE  Quiet(c, k)
BY SoughtIsAt, Zenon DEF Quiet

LEMMA BeginKeeps ==
  ASSUME CompletionInv, NEW c \in Askers, NEW m \in Models, NEW kind, Begin(c, m, kind)
  PROVE  CompletionInv'
<1> DEFINE k == [Idle EXCEPT !.kind = kind, !.chain = FallbackChain[m]]
<1>1. DOMAIN k = Fields /\ k.chain \in Seq(Models)
  BY ChainAssumption DEF Idle, Fields
<1>2. Seek(c, k, 1) /\ Counted /\ failures' = failures
  BY DEF Begin
<1> HIDE DEF k
<1>3. PICK r : Sought(c, r)
  BY <1>1, <1>2, SeekTells
<1>4. failures' \in [Models -> Seq(Nat)]
  BY <1>2 DEF CompletionInv, CompletionTypeOK
<1>5. WellFormed(r) /\ request' = [request EXCEPT ![c] = r] /\ Quiet(c, r)
  BY <1>3, SoughtQuiet DEF Sought
<1> QED BY <1>2, <1>4, <1>5, QuietKeeps

LEMMA CandidateIsModel ==
  ASSUME CompletionInv, NEW c \in Askers, request[c].pc \in UnderWay
  PROVE  /\ Candidate(request[c]) \in Models /\ request[c].chain \in Seq(Models)
         /\ request[c].at \in Nat /\ request[c].at >= 1
         /\ request[c].attempt \in 1..MaxRetries /\ DOMAIN request[c] = Fields
BY DEF CompletionInv, CompletionTypeOK, WellFormed, Candidate

LEMMA GivesUp ==
  ASSUME CompletionInv, NEW c \in Askers, request[c].pc \in UnderWay, NextCandidate(c), Counted
  PROVE  CompletionInv'
<1> DEFINE x == Candidate(request[c])
<1>1. /\ x \in Models /\ request[c].chain \in Seq(Models) /\ DOMAIN request[c] = Fields
      /\ request[c].at + 1 \in Nat /\ request[c].at + 1 >= 1
  BY CandidateIsModel
<1>2. failures' \in [Models -> Seq(Nat)]
  BY <1>1 DEF NextCandidate, RecordFailure, CompletionInv, CompletionTypeOK
<1>3. PICK r : Sought(c, r)
  BY <1>1, SeekTells DEF NextCandidate
<1>4. WellFormed(r) /\ request' = [request EXCEPT ![c] = r] /\ Quiet(c, r)
  BY <1>3, SoughtQuiet DEF Sought
<1> QED BY <1>2, <1>4, QuietKeeps

LEMMA RespondKeeps ==
  ASSUME CompletionInv, NEW c \in Askers, Respond(c)
  PROVE  CompletionInv'
<1> DEFINE x == Candidate(request[c])
           k == IF request[c].kind = "stream" THEN [request[c] EXCEPT !.pc = "streaming"]
                ELSE [Idle EXCEPT !.pc = "returned"]
<1>1. request[c].pc = "asked" /\ request[c].pc \in UnderWay
  BY DEF Respond, UnderWay
<1>2. x \in Models
  BY <1>1, CandidateIsModel
<1>3. failures' = [failures EXCEPT ![x] = <<>>] /\ Counted
  BY DEF Respond, RecordSuccess
<1>4. failures' \in [Models -> Seq(Nat)]
  BY <1>2, <1>3 DEF CompletionInv, CompletionTypeOK
<1>5. request' = [request EXCEPT ![c] = k]
  BY DEF Respond, CompletionInv, CompletionTypeOK
<1>6. ASSUME NEW m \in Models, Open(m)'  PROVE Open(m)
  <2>1. failures'[m] = IF m = x THEN <<>> ELSE failures[m]
    BY <1>3 DEF CompletionInv, CompletionTypeOK
  <2>2. Len(failures[m]) \in Nat /\ Threshold \in Nat
    BY RetryAssumption DEF CompletionInv, CompletionTypeOK
  <2> QED BY <1>6, <2>1, <2>2 DEF Open
<1>7. CASE request[c].kind = "stream"
  <2>1. k = [request[c] EXCEPT !.pc = "streaming"]
    BY <1>7
  <2> HIDE DEF k
  <2>2. /\ DOMAIN k = Fields /\ k.pc = "streaming" /\ k.chain = request[c].chain /\ k.at = request[c].at
        /\ k.attempt = request[c].attempt /\ k.wait = request[c].wait
    BY <2>1, <1>1, CandidateIsModel DEF Fields
  <2>3. WellFormed(request[c])
    BY DEF CompletionInv, CompletionTypeOK
  <2>4. WellFormed(k)
    BY <2>2, <2>3, <1>1 DEF WellFormed, UnderWay, Over
  <2>5. request[c].attempt <= k.attempt
    BY <1>1, <2>2, CandidateIsModel
  <2>6. \A m : IsAt(k, m) => IsAt(request[c], m)
    BY <1>1, <2>2, Zenon DEF IsAt, Candidate
  <2>7. Quiet(c, k)
    BY <1>6, <2>2, <2>5, <2>6 DEF Quiet
  <2> QED BY <1>3, <1>4, <1>5, <2>4, <2>7, QuietKeeps
<1>8. CASE request[c].kind # "stream"
  <2>1. k = [Idle EXCEPT !.pc = "returned"]
    BY <1>8
  <2> HIDE DEF k
  <2>2. WellFormed(k) /\ k.pc = "returned"
    BY <2>1, IdleForm DEF Over
  <2>3. Quiet(c, k)
    BY <1>6, <2>2 DEF Quiet, IsAt, UnderWay
  <2> QED BY <1>3, <1>4, <1>5, <2>2, <2>3, QuietKeeps
<1> QED BY <1>7, <1>8

\* A request that ends where it is takes what was left to it along.
LEMMA OverKeeps ==
  ASSUME CompletionInv, NEW c \in Askers, NEW p \in Over, request' = [request EXCEPT ![c] = [Idle EXCEPT !.pc = p]],
         UNCHANGED failures, Counted
  PROVE  CompletionInv'
<1> DEFINE k == [Idle EXCEPT !.pc = p]
<1>1. WellFormed(k) /\ k.pc = p
  BY IdleForm
<1>2. request' = [request EXCEPT ![c] = k]
  OBVIOUS
<1> HIDE DEF k
<1>3. failures' \in [Models -> Seq(Nat)]
  BY DEF CompletionInv, CompletionTypeOK
<1>4. Quiet(c, k)
  BY <1>1 DEF Quiet, Open, IsAt, UnderWay, Over
<1> QED BY <1>1, <1>2, <1>3, <1>4, QuietKeeps

LEMMA StreamEndsKeeps ==
  ASSUME CompletionInv, NEW c \in Askers, StreamEnds(c)
  PROVE  CompletionInv'
BY OverKeeps DEF StreamEnds, Over

LEMMA AbandonKeeps ==
  ASSUME CompletionInv, NEW c \in Askers, Abandon(c)
  PROVE  CompletionInv'
<1>1. Idle = [Idle EXCEPT !.pc = "idle"]
  BY DEF Idle
<1>2. request' = [request EXCEPT ![c] = [Idle EXCEPT !.pc = "idle"]] /\ UNCHANGED failures /\ Counted
  BY <1>1 DEF Abandon
<1> QED BY <1>2, OverKeeps DEF Over

LEMMA TransientKeeps ==
  ASSUME CompletionInv, NEW c \in Askers, Transient(c)
  PROVE  CompletionInv'
<1>1. request[c].pc \in {"asked", "streaming"} /\ request[c].pc \in UnderWay /\ Counted
  BY DEF Transient, UnderWay
<1>2. CASE request[c].attempt < MaxRetries
  <2> DEFINE w == BaseDelay * 2 ^ (request[c].attempt - 1)
             k == [request[c] EXCEPT !.pc = "asleep", !.wait = w]
  <2>1. request' = [request EXCEPT ![c].pc = "asleep", ![c].wait = w] /\ failures' = failures
    BY <1>2 DEF Transient
  <2> HIDE DEF w
  <2>2. request' = [request EXCEPT ![c] = k]
    BY <2>1 DEF CompletionInv, CompletionTypeOK
  <2>3. /\ DOMAIN k = Fields /\ k.pc = "asleep" /\ k.chain = request[c].chain /\ k.at = request[c].at
        /\ k.attempt = request[c].attempt
    BY <1>1, CandidateIsModel DEF Fields
  <2> HIDE DEF k
  <2>4. WellFormed(request[c])
    BY DEF CompletionInv, CompletionTypeOK
  <2>5. WellFormed(k)
    BY <2>3, <2>4, <1>1, <1>2 DEF WellFormed, UnderWay, Over
  <2>6. request[c].attempt <= k.attempt
    BY <1>1, <2>3, CandidateIsModel
  <2>7. \A m : IsAt(k, m) => IsAt(request[c], m)
    BY <1>1, <2>3, Zenon DEF IsAt, Candidate
  <2>8. Quiet(c, k)
    BY <2>1, <2>3, <2>6, <2>7 DEF Quiet, Open
  <2>9. failures' \in [Models -> Seq(Nat)]
    BY <2>1 DEF CompletionInv, CompletionTypeOK
  <2> QED BY <1>1, <2>2, <2>5, <2>8, <2>9, QuietKeeps
<1>3. CASE ~(request[c].attempt < MaxRetries)
  BY <1>1, <1>3, GivesUp DEF Transient
<1> QED BY <1>2, <1>3

LEMMA FatalKeeps ==
  ASSUME CompletionInv, NEW c \in Askers, Fatal(c)
  PROVE  CompletionInv'
BY GivesUp DEF Fatal, UnderWay

\* The next attempt is one of those that were left.
LEMMA WakeKeeps ==
  ASSUME CompletionInv, NEW c \in Askers, Wake(c)
  PROVE  CompletionInv'
<1> DEFINE x == Candidate(request[c])
           a == request[c].attempt
           k == [request[c] EXCEPT !.pc = "asked", !.attempt = a + 1]
<1>1. /\ request[c].pc = "asleep" /\ request[c].wait = 0 /\ request[c].pc \in UnderWay /\ Counted
      /\ failures' = failures
  BY DEF Wake, UnderWay
<1>2. CompletionTypeOK /\ WellFormed(request[c]) /\ failures' \in [Models -> Seq(Nat)]
  BY <1>1 DEF CompletionInv, CompletionTypeOK
<1>3. a \in Nat /\ a >= 1 /\ a < MaxRetries /\ MaxRetries \in Nat
  BY <1>1, <1>2, RetryAssumption DEF WellFormed
<1>4. request' = [request EXCEPT ![c] = k]
  BY DEF Wake, CompletionInv, CompletionTypeOK
<1>5. /\ DOMAIN k = Fields /\ k.pc = "asked" /\ k.chain = request[c].chain /\ k.at = request[c].at
      /\ k.attempt = a + 1 /\ k.wait = request[c].wait
  BY <1>1, CandidateIsModel DEF Fields
<1> HIDE DEF k
<1>6. a + 1 \in 1..MaxRetries
  BY <1>3
<1>7. WellFormed(k)
  BY <1>1, <1>2, <1>5, <1>6, Zenon DEF WellFormed, UnderWay, Over
<1>8. Candidate(k) = x
  BY <1>5, Zenon DEF Candidate
<1>9. CompletionTypeOK'
  <2>1. DOMAIN request' = Askers /\ \A d \in Askers : WellFormed(request'[d])
    BY <1>2, <1>4, <1>7, OthersWellFormed
  <2>2. hammer' \in [Models -> Nat]
    BY <1>1, <1>2, <1>4, HammerType
  <2> QED BY <1>2, <2>1, <2>2, Zenon DEF CompletionTypeOK, WellFormed, Over, UnderWay, Fields
<1>10. ASSUME NEW m \in Models  PROVE Spared(m)'
  <2>1. CASE ~Open(m)' \/ m # x
    <3>1. Open(m)' => Open(m)
      BY <1>1 DEF Open
    <3>2. Open(m)' => ~(k # request[c] /\ k.pc = "asked" /\ Candidate(k) = m)
      BY <2>1, <1>8, Zenon
    <3>3. Open(m)' /\ IsAt(k, m) => IsAt(request[c], m) /\ request[c].attempt <= k.attempt
      BY <2>1, <1>8, Zenon DEF IsAt
    <3> QED BY <1>1, <1>2, <1>4, <1>7, <3>1, <3>2, <3>3, QuietStep
  <2>2. CASE Open(m)' /\ m = x
    <3>1. Open(m)
      BY <1>1, <2>2 DEF Open
    <3> DEFINE old == LeftAt(request, m) new == LeftAt(request', m) p == <<c, a + 1>>
    <3>2. p \in old
      <4>1. IsAt(request[c], m)
        BY <1>1, <2>2, Zenon DEF IsAt
      <4>2. a + 1 \in 2..MaxRetries /\ a + 1 > a
        BY <1>3
      <4>3. p \in Askers \X (2..MaxRetries) /\ p[1] = c /\ p[2] = a + 1
        BY <4>2
      <4> QED BY <4>1, <4>2, <4>3, Zenon DEF LeftAt
    <3>3. new \subseteq old \ {p}
      <4>1. SUFFICES ASSUME NEW q \in new  PROVE q \in old /\ q # p
        OBVIOUS
      <4>2. q \in Askers \X (2..MaxRetries) /\ IsAt(request'[q[1]], m) /\ q[2] > request'[q[1]].attempt
        BY <4>1, Zenon DEF LeftAt
      <4>3. CASE q[1] = c
        <5>1. request'[q[1]] = k
          BY <1>2, <1>4, <4>3 DEF CompletionTypeOK
        <5>2. q[2] > a + 1 /\ q[2] \in Int
          BY <1>5, <4>2, <5>1
        <5>3. q[2] > request[q[1]].attempt /\ q[2] # a + 1
          BY <1>3, <4>3, <5>2
        <5>4. IsAt(request[q[1]], m)
          BY <1>1, <2>2, <4>3, Zenon DEF IsAt
        <5>5. q \in old
          BY <4>2, <5>3, <5>4, Zenon DEF LeftAt
        <5>6. p[2] = a + 1
          OBVIOUS
        <5> QED BY <5>3, <5>5, <5>6, Zenon
      <4>4. CASE q[1] # c
        <5>1. request'[q[1]] = request[q[1]]
          BY <1>2, <1>4, <4>2, <4>4 DEF CompletionTypeOK
        <5>2. q \in old
          BY <4>2, <5>1, Zenon DEF LeftAt
        <5>3. p[1] = c
          OBVIOUS
        <5> QED BY <4>4, <5>2, <5>3, Zenon
      <4> QED BY <4>3, <4>4
    <3>4. IsFiniteSet(old) /\ Cardinality(old) \in Nat /\ Cardinality(new) \in Nat
      BY LeftFinite
    <3> HIDE DEF old, new, p
    <3>5. IsFiniteSet(old \ {p}) /\ Cardinality(old \ {p}) = Cardinality(old) - 1
      BY <3>2, <3>4, FS_RemoveElement
    <3>6. Cardinality(new) <= Cardinality(old \ {p})
      BY <3>3, <3>5, FS_Subset
    <3>7. hammer[m] \in Nat /\ hammer[m] + Cardinality(old) <= Budget
      BY <1>2, <3>1 DEF CompletionInv, CompletionTypeOK, Spared, old
    <3>8. hammer'[m] \in {0, hammer[m], hammer[m] + 1}
      BY <1>1, <1>2, <1>4, CountedTells
    <3>9. hammer'[m] + Cardinality(new) <= Budget
      BY <3>4, <3>5, <3>6, <3>7, <3>8, BudgetType
    <3> QED BY <2>2, <3>9, Zenon DEF Spared, Budget, new
  <2> QED BY <2>1, <2>2
<1> QED BY <1>9, <1>10 DEF CompletionInv

\* Entries that expire leave a shorter list.
LEMMA OlderType ==
  ASSUME NEW ages \in Seq(Nat)
  PROVE  Older(ages) \in Seq(Nat) /\ Len(Older(ages)) <= Len(ages)
<1> DEFINE gone == {i \in DOMAIN ages : ages[i] + 1 >= Window}
           e == Cardinality(gone)
           kept == SubSeq(ages, e + 1, Len(ages))
<1>1. IsFiniteSet(DOMAIN ages) /\ Cardinality(DOMAIN ages) = Len(ages)
  <2>1. DOMAIN ages = 1..Len(ages) /\ Len(ages) \in Nat
    OBVIOUS
  <2> DEFINE n == Len(ages)
  <2>2. IsFiniteSet(1..n) /\ Cardinality(1..n) = n
    <3>1. n \in Nat /\ n \in Int /\ 1 \in Int
      BY <2>1
    <3> HIDE DEF n
    <3>2. IsFiniteSet(1..n) /\ Cardinality(1..n) = IF 1 > n THEN 0 ELSE n - 1 + 1
      BY <3>1, FS_Interval, Zenon
    <3> QED BY <3>1, <3>2
  <2> QED BY <2>1, <2>2, Zenon
<1>2. gone \subseteq DOMAIN ages
  OBVIOUS
<1> HIDE DEF gone
<1>3. e \in Nat /\ e <= Len(ages)
  BY <1>1, <1>2, FS_Subset, FS_CardinalityType
<1>4. Older(ages) = [i \in DOMAIN kept |-> kept[i] + 1]
  BY DEF Older, gone
<1> HIDE DEF e
<1>5. kept \in Seq(Nat) /\ Len(kept) = Len(ages) - e
  BY <1>3
<1> HIDE DEF kept
<1>6. DOMAIN kept = 1..Len(kept) /\ Len(kept) \in Nat /\ \A i \in DOMAIN kept : kept[i] + 1 \in Nat
  BY <1>5
<1>7. Older(ages) \in [1..Len(kept) -> Nat]
  BY <1>4, <1>6
<1>8. Older(ages) \in Seq(Nat) /\ Len(Older(ages)) = Len(kept)
  BY <1>6, <1>7
<1> QED BY <1>3, <1>5, <1>8

LEMMA TickKeeps ==
  ASSUME CompletionInv, Tick
  PROVE  CompletionInv'
<1> DEFINE Waited(d) == [request[d] EXCEPT !.wait = request[d].wait - 1]
<1>1. CompletionTypeOK
  BY DEF CompletionInv
<1>2. /\ DOMAIN request' = Askers
      /\ \A d \in Askers : request'[d] = IF request[d].wait > 0 THEN Waited(d) ELSE request[d]
  BY DEF Tick
<1>3. ASSUME NEW d \in Askers
      PROVE  /\ WellFormed(request'[d])
             /\ request'[d].pc = request[d].pc /\ request'[d].attempt = request[d].attempt
             /\ request'[d].chain = request[d].chain /\ request'[d].at = request[d].at
             /\ request'[d].pc = "asked" => request'[d] = request[d]
  <2>1. WellFormed(request[d])
    BY <1>1 DEF CompletionTypeOK
  <2>2. CASE request[d].wait > 0
    <3>1. request'[d] = Waited(d)
      BY <1>2, <2>2
    <3>2. request[d].wait # 0
      BY <2>2
    <3>3. /\ DOMAIN Waited(d) = Fields /\ Waited(d).pc = request[d].pc
          /\ Waited(d).attempt = request[d].attempt /\ Waited(d).chain = request[d].chain
          /\ Waited(d).at = request[d].at
      BY <2>1 DEF WellFormed, Fields
    <3>4. request[d].pc \notin {"asked", "streaming"}
      BY <2>1, <3>2, Zenon DEF WellFormed
    <3> HIDE DEF Waited
    <3>5. WellFormed(Waited(d))
      BY <2>1, <3>3, <3>4, Zenon DEF WellFormed
    <3> QED BY <3>1, <3>3, <3>4, <3>5, Zenon
  <2>3. CASE ~(request[d].wait > 0)
    <3>1. request'[d] = request[d]
      BY <1>2, <2>3
    <3> QED BY <2>1, <3>1, Zenon
  <2> QED BY <2>2, <2>3
<1> HIDE DEF Waited
<1>4. failures' \in [Models -> Seq(Nat)] /\ \A m \in Models : Len(failures'[m]) <= Len(failures[m])
  <2>1. \A m \in Models : Older(failures[m]) \in Seq(Nat) /\ Len(Older(failures[m])) <= Len(failures[m])
    BY <1>1, OlderType DEF CompletionTypeOK
  <2> QED BY <2>1 DEF Tick
<1>5. ASSUME NEW m \in Models
      PROVE hammer'[m] = IF Len(failures'[m]) < Threshold THEN 0 ELSE hammer[m]
  <2>1. ~\E d \in Askers : request'[d] # request[d] /\ request'[d].pc = "asked" /\ Candidate(request'[d]) = m
    BY <1>3, Zenon
  <2> QED BY <2>1 DEF Tick, Counted
<1>6. CompletionTypeOK'
  <2>1. \A m \in Models : hammer'[m] \in Nat
    BY <1>1, <1>5 DEF CompletionTypeOK
  <2>2. hammer' = [m \in Models |-> hammer'[m]]
    BY DEF Tick, Counted
  <2>3. hammer' \in [Models -> Nat]
    BY <2>1, <2>2
  <2>4. \A d \in Askers : WellFormed(request'[d])
    BY <1>3
  <2> QED BY <1>2, <1>4, <2>3, <2>4, Zenon DEF CompletionTypeOK, WellFormed, Over, UnderWay, Fields
<1>7. ASSUME NEW m \in Models  PROVE Spared(m)'
  <2>1. /\ Len(failures[m]) \in Nat /\ Len(failures'[m]) \in Nat /\ Threshold \in Nat
        /\ Len(failures'[m]) <= Len(failures[m])
    BY <1>1, <1>4, RetryAssumption DEF CompletionTypeOK
  <2>2. CASE Len(failures'[m]) < Threshold
    <3>1. hammer'[m] = 0 /\ ~(Len(failures'[m]) >= Threshold)
      BY <1>5, <2>1, <2>2
    <3> QED BY <3>1, Zenon DEF Spared, Open
  <2>3. CASE ~(Len(failures'[m]) < Threshold)
    <3>1. hammer'[m] = hammer[m] /\ Open(m) /\ Open(m)'
      BY <1>5, <2>1, <2>3 DEF Open
    <3>2. \A d \in Askers : IsAt(request'[d], m) <=> IsAt(request[d], m)
      BY <1>3, Zenon DEF IsAt, Candidate
    <3>3. LeftAt(request', m) = LeftAt(request, m)
      <4>1. ASSUME NEW p \in Askers \X (2..MaxRetries)
            PROVE  /\ IsAt(request'[p[1]], m) <=> IsAt(request[p[1]], m)
                   /\ request'[p[1]].attempt = request[p[1]].attempt
        <5>1. p[1] \in Askers
          OBVIOUS
        <5> QED BY <1>3, <3>2, <5>1, Zenon
      <4> QED BY <4>1, Zenon DEF LeftAt
    <3>4. hammer'[m] + Cardinality(LeftAt(request', m)) <= Budget
      BY <3>1, <3>3 DEF CompletionInv, Spared
    <3> QED BY <3>1, <3>4, Zenon DEF Spared, Budget
  <2> QED BY <2>2, <2>3
<1> QED BY <1>6, <1>7 DEF CompletionInv

LEMMA ProgressKeeps ==
  ASSUME CompletionInv, NEW c \in Askers, Progress(c)
  PROVE  CompletionInv'
BY RespondKeeps, StreamEndsKeeps, TransientKeeps, FatalKeeps, WakeKeeps DEF Progress

\* A run that has its completion forgets the request.
LEMMA ForgetKeeps ==
  ASSUME CompletionInv, NEW c \in Askers, request' = [request EXCEPT ![c] = Idle], UNCHANGED <<failures, hammer>>
  PROVE  CompletionInv'
<1>1. WellFormed(Idle) /\ Idle.pc = "idle" /\ CompletionTypeOK
  BY IdleForm DEF CompletionInv, Over
<1>2. CompletionTypeOK'
  <2>1. DOMAIN request' = Askers /\ \A d \in Askers : WellFormed(request'[d])
    BY <1>1, OthersWellFormed
  <2> QED BY <1>1, <2>1, Zenon DEF CompletionTypeOK, WellFormed, Over, UnderWay, Fields
<1>3. ASSUME NEW m \in Models  PROVE Spared(m)'
  <2>1. ~IsAt(Idle, m)
    BY <1>1 DEF IsAt, UnderWay
  <2>2. Cardinality(LeftAt(request', m)) <= Cardinality(LeftAt(request, m))
    BY <1>1, <2>1, LeftShrinks
  <2>3. (Open(m)' <=> Open(m)) /\ hammer'[m] = hammer[m] /\ hammer[m] \in Nat
    BY <1>1 DEF Open, CompletionTypeOK
  <2>4. Spared(m)
    BY DEF CompletionInv
  <2>5. CASE Open(m)
    <3>1. hammer[m] + Cardinality(LeftAt(request, m)) <= Budget
      BY <2>4, <2>5, Zenon DEF Spared
    <3>2. hammer'[m] + Cardinality(LeftAt(request', m)) <= Budget
      BY <2>2, <2>3, <3>1, LeftFinite, BudgetType
    <3> QED BY <2>3, <2>5, <3>2, Zenon DEF Spared, Budget
  <2>6. CASE ~Open(m)
    BY <2>3, <2>4, <2>6, Zenon DEF Spared
  <2> QED BY <2>5, <2>6
<1> QED BY <1>2, <1>3 DEF CompletionInv

LEMMA CompletionStays ==
  ASSUME CompletionInv, UNCHANGED completionVars
  PROVE  CompletionInv'
BY Zenon DEF CompletionInv, CompletionTypeOK, completionVars, Spared, Open, LeftAt, IsAt, Candidate, Budget,
       WellFormed, Over, UnderWay, Fields

LEMMA CompletionInitially == CompletionInit => CompletionInv
<1> SUFFICES ASSUME CompletionInit  PROVE CompletionInv
  OBVIOUS
<1>1. \A c \in Askers : request[c] = Idle
  BY DEF CompletionInit
<1>2. CompletionTypeOK
  <2>1. failures \in [Models -> Seq(Nat)] /\ hammer \in [Models -> Nat] /\ DOMAIN request = Askers
    BY DEF CompletionInit
  <2> QED BY <1>1, <2>1, IdleForm DEF CompletionTypeOK, Over
<1>3. ASSUME NEW m \in Models  PROVE Spared(m)
  <2>1. hammer[m] = 0
    BY <1>3 DEF CompletionInit
  <2>2. LeftAt(request, m) = {}
    <3>1. \A c \in Askers : ~IsAt(request[c], m)
      BY <1>1 DEF IsAt, Idle, UnderWay
    <3> QED BY <3>1 DEF LeftAt
  <2>3. hammer[m] + Cardinality(LeftAt(request, m)) <= Budget
    <3>1. Cardinality(LeftAt(request, m)) = 0
      BY <2>2, FS_EmptySet, Zenon
    <3> QED BY <2>1, <3>1, BudgetType
  <2> QED BY <2>1, <2>3, Zenon DEF Spared
<1> QED BY <1>2, <1>3 DEF CompletionInv

LEMMA SparedBounds == CompletionInv => HammeringBounded
<1> SUFFICES ASSUME CompletionInv, NEW m \in Models  PROVE hammer[m] <= Budget
  BY DEF HammeringBounded, Budget
<1>1. Spared(m) /\ hammer[m] \in Nat
  BY DEF CompletionInv, CompletionTypeOK
<1> DEFINE h == hammer[m] l == Cardinality(LeftAt(request, m))
<1>2. h \in Nat /\ l \in Nat /\ Budget \in Nat
  BY <1>1, LeftFinite, BudgetType
<1>3. h + l <= Budget \/ h = 0
  BY <1>1, Zenon DEF Spared
<1> HIDE DEF h, l
<1>4. h <= Budget
  BY <1>2, <1>3
<1> QED BY <1>4 DEF h

-----------------------------------------------------------------------------
(* Orchestrations.                                                         *)

RunStates == {"none", "ready", "running", "completed", "failed", "denied", "raised"}

OrchestratorTypeOK ==
  /\ status \in {"called", "running", "returned", "raised"}
  /\ chain \in Seq(Agents)
  /\ results \in Seq([status : Outcomes, output : Outputs])
  /\ task \in [Agents -> RunStates]

NoneActive == \A a \in Agents : task[a] \notin Active

\* The report keeps up with the chain, and only the run at its end is active.
InGraph ==
  /\ status = "called" => chain = <<>> /\ results = <<>> /\ NoneActive
  /\ status = "running" => /\ chain # <<>> /\ Len(results) = Len(chain) - 1
                           /\ \A a \in Agents : task[a] \in Active => a = Last(chain)
  /\ status = "returned" => Len(results) = Len(chain) /\ NoneActive
  /\ status = "raised" => Len(results) \in {Len(chain) - 1, Len(chain)} /\ NoneActive

InParallel ==
  /\ chain = <<>> /\ results = <<>>
  /\ status = "returned" => NoneActive

Walked ==
  /\ \A i \in 1..(Len(chain) - 1) :
       /\ results[i].status = "completed"
       /\ Targets(chain[i], results[i].output) # <<>>
       /\ chain[i + 1] = Head(Targets(chain[i], results[i].output))
  /\ \A i, j \in DOMAIN chain : i < j /\ chain[i] = chain[j] => i = 1 /\ j = 2

OrchestratorInv ==
  /\ OrchestratorTypeOK
  /\ Walked
  /\ IF plan.mode = "graph" THEN InGraph ELSE InParallel

-----------------------------------------------------------------------------

LEMMA OrchestratorStarts == Init => OrchestratorInv
<1> SUFFICES ASSUME Init  PROVE OrchestratorInv
  OBVIOUS
<1>1. OrchestratorTypeOK /\ NoneActive /\ chain = <<>> /\ results = <<>> /\ status = "called"
  BY DEF Init, OrchestratorTypeOK, NoneActive, Active, RunStates
<1>2. Walked
  BY <1>1 DEF Walked
<1>3. InGraph /\ InParallel
  BY <1>1 DEF InGraph, InParallel
<1> QED BY <1>1, <1>2, <1>3 DEF OrchestratorInv

\* What a step that leaves the report alone keeps.
LEMMA WalkStays ==
  ASSUME Walked, UNCHANGED <<plan, chain, results>>
  PROVE  Walked'
BY Zenon DEF Walked, Targets

\* A run that starts or ends stays the only active one.
LEMMA WorkKeeps ==
  ASSUME OrchestratorInv, NEW a \in Agents, Work(a)
  PROVE  OrchestratorInv'
<1>1. PICK s \in RunStates : task' = [task EXCEPT ![a] = s]
  BY Zenon DEF Work, AgentStarts, AgentEnds, RunStates
<1>2. task[a] \in Active /\ UNCHANGED <<plan, status, chain, results>>
  BY DEF Work, AgentStarts, AgentEnds, Active
<1>3. OrchestratorTypeOK'
  BY <1>1, <1>2 DEF OrchestratorInv, OrchestratorTypeOK
<1>4. Walked'
  BY <1>2, WalkStays DEF OrchestratorInv
<1>5. ~NoneActive
  BY <1>2 DEF NoneActive
<1>6. \A b \in Agents : task'[b] \in Active => task[b] \in Active
  BY <1>1, <1>2 DEF OrchestratorInv, OrchestratorTypeOK
<1>7. CASE plan.mode = "graph"
  <2>1. InGraph
    BY <1>7 DEF OrchestratorInv
  <2>2. InGraph'
    BY <1>2, <1>5, <1>6, <2>1, Zenon DEF InGraph, NoneActive
  <2> QED BY <1>2, <1>3, <1>4, <1>7, <2>2, Zenon DEF OrchestratorInv
<1>8. CASE plan.mode # "graph"
  <2>1. InParallel
    BY <1>8 DEF OrchestratorInv
  <2>2. InParallel'
    BY <1>2, <1>5, <2>1, Zenon DEF InParallel
  <2> QED BY <1>2, <1>3, <1>4, <1>8, <2>2, Zenon DEF OrchestratorInv
<1> QED BY <1>7, <1>8

LEMMA RunParallelKeeps ==
  ASSUME OrchestratorInv, RunParallel
  PROVE  OrchestratorInv'
<1>1. /\ plan.mode # "graph" /\ status' = "running" /\ task' = [a \in Agents |-> "ready"]
      /\ UNCHANGED <<plan, chain, results>>
  BY DEF RunParallel
<1>2. OrchestratorTypeOK'
  BY <1>1 DEF OrchestratorInv, OrchestratorTypeOK, RunStates
<1>3. InParallel'
  BY <1>1 DEF OrchestratorInv, InParallel
<1> QED BY <1>1, <1>2, <1>3, WalkStays, Zenon DEF OrchestratorInv

LEMMA GatherKeeps ==
  ASSUME OrchestratorInv, Gather
  PROVE  OrchestratorInv'
<1>1. plan.mode # "graph" /\ Gathered /\ status' = "returned" /\ UNCHANGED <<plan, chain, results, task>>
  BY DEF Gather
<1>2. OrchestratorTypeOK'
  BY <1>1 DEF OrchestratorInv, OrchestratorTypeOK
<1>3. NoneActive'
  BY <1>1 DEF NoneActive, Gathered, Outcomes, Active
<1>4. InParallel'
  BY <1>1, <1>3 DEF OrchestratorInv, InParallel
<1> QED BY <1>1, <1>2, <1>4, WalkStays, Zenon DEF OrchestratorInv

LEMMA GatherRaisesKeeps ==
  ASSUME OrchestratorInv, GatherRaises
  PROVE  OrchestratorInv'
<1>1. plan.mode # "graph" /\ status' = "raised" /\ UNCHANGED <<plan, chain, results, task>>
  BY DEF GatherRaises
<1>2. OrchestratorTypeOK'
  BY <1>1 DEF OrchestratorInv, OrchestratorTypeOK
<1>3. InParallel'
  BY <1>1 DEF OrchestratorInv, InParallel
<1> QED BY <1>1, <1>2, <1>3, WalkStays, Zenon DEF OrchestratorInv

\* The run at the end of the chain is over, so none is active.
LEMMA LastIsOver ==
  ASSUME OrchestratorInv, plan.mode = "graph", status = "running", task[Last(chain)] \notin Active
  PROVE  /\ NoneActive /\ chain # <<>> /\ Len(results) = Len(chain) - 1
         /\ Last(chain) \in Agents /\ Len(chain) \in Nat /\ Len(chain) >= 1 /\ Last(chain) = chain[Len(chain)]
<1>1. /\ chain # <<>> /\ Len(results) = Len(chain) - 1 /\ chain \in Seq(Agents)
      /\ \A a \in Agents : task[a] \in Active => a = Last(chain)
  BY DEF OrchestratorInv, InGraph, OrchestratorTypeOK
<1>2. NoneActive
  BY <1>1, Zenon DEF NoneActive
<1> QED BY <1>1, <1>2 DEF Last

LEMMA GraphRaisesKeeps ==
  ASSUME OrchestratorInv, GraphRaises
  PROVE  OrchestratorInv'
<1>1. /\ plan.mode = "graph" /\ status = "running" /\ task[Last(chain)] \notin Active
      /\ status' = "raised" /\ UNCHANGED <<plan, chain, results, task>>
  BY DEF GraphRaises, Active
<1>2. NoneActive /\ Len(results) = Len(chain) - 1
  BY <1>1, LastIsOver
<1>3. OrchestratorTypeOK'
  BY <1>1 DEF OrchestratorInv, OrchestratorTypeOK
<1>4. InGraph'
  BY <1>1, <1>2 DEF InGraph, NoneActive
<1> QED BY <1>1, <1>3, <1>4, WalkStays, Zenon DEF OrchestratorInv

LEMMA AppendFacts ==
  ASSUME NEW S, NEW q \in Seq(S), NEW x \in S, NEW r, r = Append(q, x)
  PROVE  /\ r \in Seq(S) /\ Len(r) = Len(q) + 1 /\ DOMAIN r = 1..(Len(q) + 1) /\ r # <<>>
         /\ \A i \in 1..Len(q) : r[i] = q[i]
         /\ r[Len(q) + 1] = x /\ Last(r) = x
BY DEF Last

\* The hop to a registered agent makes its run the only active one.
LEMMA HopKeepsRuns ==
  ASSUME OrchestratorTypeOK, NoneActive, NEW a \in Agents, HopTo(a)
  PROVE  /\ chain' = Append(chain, a) /\ chain' \in Seq(Agents) /\ status' = "running"
         /\ task' \in [Agents -> RunStates]
         /\ \A b \in Agents : task'[b] \in Active => b = Last(chain')
<1>1. chain' = Append(chain, a) /\ task' = [task EXCEPT ![a] = "ready"] /\ status' = "running"
  BY DEF HopTo
<1>2. chain' \in Seq(Agents) /\ Last(chain') = a
  <2>1. chain \in Seq(Agents)
    BY DEF OrchestratorTypeOK
  <2>2. chain' = Append(chain, a)
    BY <1>1
  <2> DEFINE longer == Append(chain, a)
  <2>3. longer \in Seq(Agents) /\ Len(longer) = Len(chain) + 1 /\ longer[Len(chain) + 1] = a
    BY <2>1
  <2>4. Last(longer) = a
    BY <2>3, Zenon DEF Last
  <2> QED BY <2>2, <2>3, <2>4, Zenon
<1>3. task' \in [Agents -> RunStates]
  BY <1>1 DEF OrchestratorTypeOK, RunStates
<1>4. \A b \in Agents : b # a => task'[b] = task[b]
  BY <1>1 DEF OrchestratorTypeOK
<1> QED BY <1>1, <1>2, <1>3, <1>4, Zenon DEF NoneActive

LEMMA ExecuteGraphKeeps ==
  ASSUME OrchestratorInv, ExecuteGraph
  PROVE  OrchestratorInv'
<1>1. plan.mode = "graph" /\ status = "called" /\ HopTo(plan.start) /\ UNCHANGED <<plan, results>>
  BY DEF ExecuteGraph
<1>2. chain = <<>> /\ results = <<>> /\ NoneActive /\ OrchestratorTypeOK
  BY <1>1 DEF OrchestratorInv, InGraph
<1>3. CASE plan.start \in Agents
  <2>1. /\ chain' = Append(chain, plan.start) /\ chain' \in Seq(Agents) /\ status' = "running"
        /\ task' \in [Agents -> RunStates]
        /\ \A b \in Agents : task'[b] \in Active => b = Last(chain')
    BY <1>1, <1>2, <1>3, HopKeepsRuns
  <2>2. Len(chain') = 1 /\ chain' # <<>> /\ Len(results') = Len(chain') - 1 /\ DOMAIN chain' = 1..1
    BY <1>1, <1>2, <2>1
  <2>3. OrchestratorTypeOK'
    BY <1>1, <1>2, <2>1 DEF OrchestratorTypeOK
  <2>4. Walked'
    BY <2>2 DEF Walked
  <2>5. InGraph'
    BY <2>1, <2>2, Zenon DEF InGraph
  <2> QED BY <1>1, <2>3, <2>4, <2>5, Zenon DEF OrchestratorInv
<1>4. CASE plan.start \notin Agents
  <2>1. status' = "raised" /\ UNCHANGED <<chain, task>>
    BY <1>1, <1>4 DEF HopTo
  <2>2. OrchestratorTypeOK'
    BY <1>1, <1>2, <2>1 DEF OrchestratorTypeOK
  <2>3. NoneActive' /\ Len(results') = Len(chain')
    BY <1>1, <1>2, <2>1 DEF NoneActive
  <2>4. InGraph'
    BY <2>1, <2>3 DEF InGraph
  <2>5. Walked'
    BY <1>1, <2>1, WalkStays DEF OrchestratorInv
  <2> QED BY <1>1, <2>2, <2>4, <2>5, Zenon DEF OrchestratorInv
<1> QED BY <1>3, <1>4

LEMMA HandoffKeeps ==
  ASSUME OrchestratorInv, Handoff
  PROVE  OrchestratorInv'
<1> DEFINE current == Last(chain)
           n == Len(chain)
<1>1. plan.mode = "graph" /\ status = "running" /\ task[current] \in Outcomes /\ plan' = plan
  BY DEF Handoff
<1>2. OrchestratorTypeOK /\ Walked /\ chain \in Seq(Agents) /\ results \in Seq([status : Outcomes, output : Outputs])
  BY DEF OrchestratorInv, OrchestratorTypeOK
<1>3. task[current] \notin Active
  BY <1>1 DEF Outcomes, Active
<1>4. /\ NoneActive /\ chain # <<>> /\ Len(results) = n - 1
      /\ current \in Agents /\ n \in Nat /\ n >= 1 /\ current = chain[n]
  BY <1>1, <1>3, LastIsOver
<1>5. PICK o \in Outputs :
        /\ results' = Append(results, [status |-> task[current], output |-> o])
        /\ IF \/ task[current] \in {"failed", "denied"}
              \/ Targets(current, o) = <<>>
              \/ Revisits(Head(Targets(current, o)))
              \/ Len(chain) = MaxHandoffs
           THEN status' = "returned" /\ UNCHANGED <<chain, task>>
           ELSE HopTo(Head(Targets(current, o)))
  BY DEF Handoff
<1> DEFINE r == [status |-> task[current], output |-> o]
           targets == Targets(current, o)
           next == Head(targets)
<1>6. r \in [status : Outcomes, output : Outputs] /\ r.status = task[current] /\ r.output = o
  BY <1>1
<1> HIDE DEF r
<1>7. results' = Append(results, r)
  BY <1>5 DEF r
<1>8. /\ results' \in Seq([status : Outcomes, output : Outputs]) /\ Len(results') = n
      /\ \A i \in 1..(n - 1) : results'[i] = results[i]
      /\ results'[n] = r
  <2>1. /\ results' \in Seq([status : Outcomes, output : Outputs]) /\ Len(results') = Len(results) + 1
        /\ \A i \in 1..Len(results) : results'[i] = results[i]
        /\ results'[Len(results) + 1] = r
    BY <1>2, <1>6, <1>7, AppendFacts
  <2>2. Len(results) + 1 = n
    BY <1>4
  <2> HIDE DEF n
  <2> QED BY <1>4, <2>1, <2>2
<1>9. \A x, y : Targets(x, y)' = Targets(x, y)
  BY <1>1 DEF Targets
<1>10. ASSUME UNCHANGED <<chain, task>>, status' \in {"returned", "raised"}
       PROVE  OrchestratorInv'
  <2>1. OrchestratorTypeOK'
    BY <1>2, <1>8, <1>10 DEF OrchestratorTypeOK
  <2>2. NoneActive' /\ Len(results') = Len(chain')
    BY <1>4, <1>8, <1>10 DEF NoneActive
  <2>3. InGraph'
    BY <1>10, <2>2 DEF InGraph
  <2>4. Walked'
    <3>1. \A i \in 1..(Len(chain) - 1) :
            /\ results'[i].status = "completed"
            /\ Targets(chain[i], results'[i].output) # <<>>
            /\ chain[i + 1] = Head(Targets(chain[i], results'[i].output))
      BY <1>2, <1>8, Zenon DEF Walked
    <3>2. \A i, j \in DOMAIN chain : i < j /\ chain[i] = chain[j] => i = 1 /\ j = 2
      BY <1>2, Zenon DEF Walked
    <3>3. chain' = chain
      BY <1>10
    <3> QED BY <3>1, <3>2, <3>3, <1>1, Zenon DEF Walked, Targets
  <2> QED BY <1>1, <2>1, <2>3, <2>4, Zenon DEF OrchestratorInv
<1>11. ASSUME task[current] = "completed", targets # <<>>, ~Revisits(next), HopTo(next), next \in Agents
       PROVE  OrchestratorInv'
  <2>1. /\ chain' = Append(chain, next) /\ chain' \in Seq(Agents) /\ status' = "running"
        /\ task' \in [Agents -> RunStates]
        /\ \A b \in Agents : task'[b] \in Active => b = Last(chain')
    BY <1>2, <1>4, <1>11, HopKeepsRuns
  <2>2. /\ Len(chain') = n + 1 /\ DOMAIN chain' = 1..(n + 1) /\ chain' # <<>>
        /\ \A i \in 1..n : chain'[i] = chain[i]
        /\ chain'[n + 1] = next
    BY <1>2, <1>11, <2>1, AppendFacts
  <2>3. OrchestratorTypeOK'
    BY <1>8, <2>1 DEF OrchestratorTypeOK
  <2>4. InGraph'
    <3>1. Len(results') = Len(chain') - 1
      BY <1>4, <1>8, <2>2
    <3> QED BY <2>1, <2>2, <3>1, Zenon DEF InGraph
  <2>5. ASSUME NEW i \in 1..(Len(chain') - 1)
        PROVE  /\ results'[i].status = "completed"
               /\ Targets(chain'[i], results'[i].output) # <<>>
               /\ chain'[i + 1] = Head(Targets(chain'[i], results'[i].output))
    <3>1. i \in 1..n
      BY <1>4, <2>2
    <3>2. CASE i = n
      <4>1. results'[i] = r /\ chain'[i] = current /\ chain'[i + 1] = next
        BY <1>4, <1>8, <2>2, <3>1, <3>2
      <4> QED BY <1>6, <1>11, <4>1, Zenon
    <3>3. CASE i # n
      <4>1. i \in 1..(n - 1) /\ i \in 1..n /\ i + 1 \in 1..n
        BY <1>4, <3>1, <3>3
      <4>2. results'[i] = results[i] /\ chain'[i] = chain[i] /\ chain'[i + 1] = chain[i + 1]
        BY <1>8, <2>2, <4>1, Zenon
      <4> QED BY <1>2, <4>1, <4>2, Zenon DEF Walked
    <3> QED BY <3>2, <3>3
  <2>6. ASSUME NEW i \in DOMAIN chain', NEW j \in DOMAIN chain', i < j, chain'[i] = chain'[j]
        PROVE  i = 1 /\ j = 2
    <3>1. DOMAIN chain = 1..n
      BY <1>2
    <3>2. CASE j = n + 1
      <4>1. i \in 1..n /\ chain[i] = next
        BY <1>4, <2>2, <2>6, <3>2
      <4>2. next \in Range(chain)
        BY <3>1, <4>1, Zenon DEF Range
      <4>3. ~(n > 1)
        BY <1>11, <4>2 DEF Revisits
      <4> QED BY <1>4, <3>2, <4>1, <4>3
    <3>3. CASE j # n + 1
      <4>1. i \in 1..n /\ j \in 1..n
        BY <1>4, <2>2, <2>6, <3>3
      <4>2. chain[i] = chain[j]
        BY <2>2, <2>6, <4>1, Zenon
      <4> QED BY <1>2, <2>6, <3>1, <4>1, <4>2, Zenon DEF Walked
    <3> QED BY <3>2, <3>3
  <2>7. Walked'
    BY <2>5, <2>6, <1>1, Zenon DEF Walked, Targets
  <2> QED BY <1>1, <2>3, <2>4, <2>7, Zenon DEF OrchestratorInv
<1> QED
  <2>1. CASE \/ task[current] \in {"failed", "denied"}
             \/ targets = <<>>
             \/ Revisits(next)
             \/ Len(chain) = MaxHandoffs
    BY <1>5, <1>10, <2>1
  <2>2. CASE ~(\/ task[current] \in {"failed", "denied"}
               \/ targets = <<>>
               \/ Revisits(next)
               \/ Len(chain) = MaxHandoffs)
    <3>1. HopTo(next) /\ task[current] = "completed" /\ targets # <<>> /\ ~Revisits(next)
      BY <1>1, <1>5, <2>2 DEF Outcomes
    <3>2. CASE next \in Agents
      BY <1>11, <3>1, <3>2
    <3>3. CASE next \notin Agents
      <4>1. status' = "raised" /\ UNCHANGED <<chain, task>>
        BY <3>1, <3>3 DEF HopTo
      <4> QED BY <1>10, <4>1
    <3> QED BY <3>2, <3>3
  <2> QED BY <2>1, <2>2

LEMMA OrchestrateKeeps ==
  ASSUME OrchestratorInv, Orchestrate
  PROVE  OrchestratorInv'
BY ExecuteGraphKeeps, HandoffKeeps, GraphRaisesKeeps, RunParallelKeeps, GatherKeeps, GatherRaisesKeeps DEF Orchestrate

LEMMA OrchestratorStays ==
  ASSUME OrchestratorInv, UNCHANGED orchestration
  PROVE  OrchestratorInv'
BY Zenon DEF OrchestratorInv, OrchestratorTypeOK, orchestration, Walked, Targets, InGraph, InParallel, NoneActive

LEMMA WorkKeepsCompletion ==
  ASSUME CompletionInv, NEW a \in Agents, Work(a)
  PROVE  CompletionInv'
<1>1. a \in Askers /\ ModelOf[a] \in Models
  BY AgentAssumption
<1>2. CASE AgentStarts(a)
  <2>1. CASE Begin(a, ModelOf[a], "call")
    BY <1>1, <2>1, BeginKeeps
  <2>2. CASE UNCHANGED completionVars
    BY <2>2, CompletionStays
  <2> QED BY <1>2, <2>1, <2>2 DEF AgentStarts
<1>3. CASE AgentEnds(a)
  <2>1. request' = [request EXCEPT ![a] = Idle] /\ UNCHANGED <<failures, hammer>>
    BY <1>3 DEF AgentEnds
  <2> QED BY <1>1, <2>1, ForgetKeeps
<1> QED BY <1>2, <1>3 DEF Work

CallsInv == CompletionInv /\ OrchestratorInv

LEMMA CallsStep == CallsInv /\ [Next]_vars => CallsInv'
<1> SUFFICES ASSUME CallsInv, [Next]_vars  PROVE CallsInv'
  OBVIOUS
<1>1. CompletionInv /\ OrchestratorInv
  BY DEF CallsInv
<1>2. CASE Orchestrate
  <2>1. UNCHANGED completionVars
    BY <1>2 DEF Orchestrate, ExecuteGraph, Handoff, GraphRaises, RunParallel, Gather, GatherRaises
  <2> QED BY <1>1, <1>2, <2>1, OrchestrateKeeps, CompletionStays DEF CallsInv
<1>3. ASSUME NEW a \in Agents, Work(a)  PROVE CallsInv'
  BY <1>1, <1>3, WorkKeeps, WorkKeepsCompletion DEF CallsInv
<1>4. ASSUME UNCHANGED orchestration,
             \/ Tick
             \/ \E c \in Askers : Progress(c)
             \/ \E c \in Others : OtherBegins(c) \/ Abandon(c)
      PROVE CallsInv'
  <2>1. OrchestratorInv'
    BY <1>1, <1>4, OrchestratorStays
  <2>2. CASE Tick
    BY <1>1, <2>1, <2>2, TickKeeps DEF CallsInv
  <2>3. ASSUME NEW c \in Askers, Progress(c)  PROVE CallsInv'
    BY <1>1, <2>1, <2>3, ProgressKeeps DEF CallsInv
  <2>4. ASSUME NEW c \in Others, OtherBegins(c)  PROVE CallsInv'
    <3>1. PICK m \in Models, kind \in {"call", "stream"} : Begin(c, m, kind)
      BY <2>4 DEF OtherBegins
    <3>2. c \in Askers
      BY DEF Others
    <3> QED BY <1>1, <2>1, <3>1, <3>2, BeginKeeps DEF CallsInv
  <2>5. ASSUME NEW c \in Others, Abandon(c)  PROVE CallsInv'
    <3>1. c \in Askers
      BY DEF Others
    <3> QED BY <1>1, <2>1, <2>5, <3>1, AbandonKeeps DEF CallsInv
  <2> QED BY <1>4, <2>2, <2>3, <2>4, <2>5, Zenon
<1>5. CASE UNCHANGED vars
  <2>1. UNCHANGED completionVars /\ UNCHANGED orchestration
    BY <1>5 DEF vars, completionVars, orchestration
  <2> QED BY <1>1, <2>1, CompletionStays, OrchestratorStays DEF CallsInv
<1> QED BY <1>2, <1>3, <1>4, <1>5, Zenon DEF Next

LEMMA CallsInitially == Init => CallsInv
BY CompletionInitially, OrchestratorStarts DEF Init, CallsInv

THEOREM CallsInvariance == Spec => []CallsInv
BY CallsInitially, CallsStep, PTL DEF Spec

\* However many tasks share the breakers and however long the back-offs, an
\* open circuit lets through the attempts that were left when it opened and
\* no more (llm.py:46).
THEOREM HammeringAlwaysBounded == Spec => []HammeringBounded
<1>1. CallsInv => HammeringBounded
  BY SparedBounds DEF CallsInv
<1> QED BY CallsInvariance, <1>1, PTL

\* For any graph and any bound on handoffs: the chain is a walk along edges
\* the outputs opened, without an agent twice except the start in a row.
THEOREM ChainAlwaysWalk == Spec => []ChainIsWalk
<1>1. CallsInv => ChainIsWalk
  <2> SUFFICES ASSUME CallsInv  PROVE ChainIsWalk
    OBVIOUS
  <2>1. Walked /\ chain \in Seq(Agents) /\ results \in Seq([status : Outcomes, output : Outputs])
    BY DEF CallsInv, OrchestratorInv, OrchestratorTypeOK
  <2>2. Len(chain) \in Nat /\ Len(results) \in Nat
    BY <2>1
  <2>3. Len(results) <= Len(chain) /\ (status = "returned" => Len(results) = Len(chain))
    <3>1. CASE plan.mode = "graph"
      <4>1. InGraph /\ status \in {"called", "running", "returned", "raised"}
        BY <3>1 DEF CallsInv, OrchestratorInv, OrchestratorTypeOK
      <4> QED BY <2>2, <4>1 DEF InGraph
    <3>2. CASE plan.mode # "graph"
      <4>1. chain = <<>> /\ results = <<>>
        BY <3>2 DEF CallsInv, OrchestratorInv, InParallel
      <4> QED BY <4>1
    <3> QED BY <3>1, <3>2
  <2> QED BY <2>1, <2>3, Zenon DEF ChainIsWalk, Walked
<1> QED BY CallsInvariance, <1>1, PTL

\* For any set of agents: a graph has one run at a time, the last of its chain,
\* and only an orchestration that raised leaves runs behind, in parallel mode.
THEOREM NoRunEverLeftBehind == Spec => []NoRunLeftBehind
<1>1. CallsInv => NoRunLeftBehind
  <2> SUFFICES ASSUME CallsInv  PROVE NoRunLeftBehind
    OBVIOUS
  <2> DEFINE active == {a \in Agents : task[a] \in Active}
  <2>1. OrchestratorInv
    BY DEF CallsInv
  <2>2. NoneActive => active = {}
    BY DEF NoneActive
  <2>3. status = "returned" => active = {}
    BY <2>1, <2>2, Zenon DEF OrchestratorInv, InGraph, InParallel
  <2>4. ASSUME plan.mode = "graph"
        PROVE  (status = "raised" => active = {}) /\ \A a \in active : a = Last(chain)
    <3>1. InGraph /\ status \in {"called", "running", "returned", "raised"}
      BY <2>1, <2>4 DEF OrchestratorInv, OrchestratorTypeOK
    <3>2. status = "raised" => active = {}
      BY <2>2, <3>1, Zenon DEF InGraph
    <3>3. ASSUME NEW a \in active  PROVE a = Last(chain)
      <4>1. ~NoneActive /\ a \in Agents /\ task[a] \in Active
        BY <3>3 DEF NoneActive
      <4> QED BY <3>1, <4>1 DEF InGraph
    <3> QED BY <3>2, <3>3
  <2>5. plan.mode = "graph" => Cardinality(active) <= 1
    <3> SUFFICES ASSUME plan.mode = "graph"  PROVE Cardinality(active) <= 1
      OBVIOUS
    <3>1. active \subseteq {Last(chain)}
      BY <2>4
    <3>2. IsFiniteSet({Last(chain)}) /\ Cardinality({Last(chain)}) = 1
      BY FS_Singleton
    <3> HIDE DEF active
    <3> QED BY <3>1, <3>2, FS_Subset
  <2> QED BY <2>3, <2>4, <2>5 DEF NoRunLeftBehind
<1> QED BY CallsInvariance, <1>1, PTL

=============================================================================
