---------------------------- MODULE McpTransport ----------------------------
(***************************************************************************)
(* The stdio transport of the MCP connector (connectors/mcp.py): tasks     *)
(* that share one adapter write requests to a server process and each      *)
(* takes the next line of its output as the answer.  The id of a response  *)
(* is never compared with the request's.                                   *)
(*                                                                         *)
(* The server is external: it answers the requests it has read in any      *)
(* order, may send a notification, and may die.  A line is the id of the   *)
(* request it answers, or 0 for a notification.  connect is called once    *)
(* before a server's first call, disconnect by nobody in the middle of it. *)
(***************************************************************************)
EXTENDS Integers, Sequences, FiniteSets, SequencesExt

CONSTANTS
  Callers,      (* tasks that use the adapter                                *)
  MaxRequests,  (* bound: requests sent to a server                          *)
  MaxSpawns,    (* bound: server processes started                           *)
  MaxNoise      (* bound: notifications of a server                          *)

ASSUME McpAssumption ==
  MaxRequests \in Nat /\ MaxSpawns \in Nat /\ MaxNoise \in Nat

VARIABLES
  connected,    (* _connected                                                *)
  process,      (* _process: "none", "alive" or "dead"                       *)
  requestId,    (* _request_id                                               *)
  tools,        (* how many times tools were added to _tools                 *)
  inbox,        (* requests the server has not answered                      *)
  pipe,         (* its output in the reader's buffer                         *)
  call,         (* where a caller stands: [pc, method, id, got, behind]      *)
  abandoned,    (* of this server, requests whose answer nobody waited for   *)
  disorder,     (* calls overlapped, or the server sent something else than  *)
                (* one answer per request in order                           *)
  spawns, noise

pvars == <<connected, process, requestId, tools, inbox, pipe, call, abandoned,
           disorder, spawns, noise>>

Unknown == -1
Ready == [pc |-> "ready", method |-> "none", id |-> 0, got |-> 0, behind |-> 0]
InCall(c) == call[c].pc \in {"written", "waiting", "woken"}
Connecting == \E c \in Callers : call[c].method \in {"initialize", "list"} /\ InCall(c)

McpInit ==
  /\ connected = FALSE /\ process = "none" /\ requestId = 0 /\ tools = 0
  /\ inbox = <<>> /\ pipe = <<>> /\ call = [c \in Callers |-> Ready]
  /\ abandoned = 0 /\ disorder = FALSE /\ spawns = 0 /\ noise = 0

-----------------------------------------------------------------------------
(* _send_request.                                                          *)

\* The request is given the next id and written; a dead server reads nothing.
Write(c, method, alive, unanswered, disordered) ==
  /\ requestId' = requestId + 1
  /\ inbox' = IF alive THEN Append(unanswered, requestId') ELSE unanswered
  /\ call' = [call EXCEPT ![c] = [Ready EXCEPT !.pc = "written", !.method = method,
                                               !.id = requestId']]
  /\ disorder' = (disordered \/ \E o \in Callers \ {c} : InCall(o))

Ended(c, pc) == call' = [call EXCEPT ![c].pc = pc]

\* A caller that is about to look into the buffer: from drain, or woken up by
\* output that somebody else may take before it runs.
AtBuffer(c) == call[c].pc \in {"written", "woken"}

Reading == UNCHANGED <<connected, process, requestId, inbox, spawns, noise>>

\* drain, once the loop has noticed that the process is gone.
DrainRaises(c) ==
  /\ call[c].pc = "written" /\ process = "dead"
  /\ Ended(c, "raised") /\ abandoned' = abandoned + 1
  /\ UNCHANGED <<tools, pipe, disorder>> /\ Reading

\* readline finds no line, and another caller waits in it: RuntimeError.
Collide(c) ==
  /\ AtBuffer(c) /\ pipe = <<>> /\ process = "alive"
  /\ \E o \in Callers : call[o].pc = "waiting"
  /\ Ended(c, "raised") /\ abandoned' = abandoned + 1
  /\ UNCHANGED <<tools, pipe, disorder>> /\ Reading

Wait(c) ==
  /\ AtBuffer(c) /\ pipe = <<>> /\ process = "alive"
  /\ \A o \in Callers : call[o].pc # "waiting"
  /\ Ended(c, "waiting")
  /\ UNCHANGED <<tools, pipe, abandoned, disorder>> /\ Reading

\* A line is taken for the response: "result", or "error" and the call raises.
\* The answer to tools/list fills _tools, a second connect's on top of them.
TakeLine(c) ==
  /\ AtBuffer(c) /\ pipe # <<>> /\ pipe' = Tail(pipe)
  /\ \E pc \in {"answered", "raised"} :
       /\ call' = [call EXCEPT ![c].pc = pc, ![c].got = Head(pipe),
                               ![c].behind = IF disorder THEN Unknown ELSE abandoned]
       /\ tools' = IF call[c].method = "list" /\ pc = "answered" THEN tools + 1 ELSE tools
  /\ UNCHANGED <<abandoned, disorder>> /\ Reading

\* A line of more than 64 KiB raises ValueError.  Buffered to its end it is
\* dropped, otherwise what is still to come of it is taken for the next line.
OverlongLine(c) ==
  /\ AtBuffer(c) /\ pipe # <<>> /\ Ended(c, "raised")
  /\ \/ pipe' = Tail(pipe) /\ UNCHANGED abandoned
     \/ UNCHANGED pipe /\ abandoned' = abandoned + 1
  /\ UNCHANGED <<tools, disorder>> /\ Reading

\* End of file: readline returns nothing and the answer is None, which a tool
\* call passes on as an empty result.
TakeNothing(c) ==
  /\ AtBuffer(c) /\ pipe = <<>> /\ process = "dead"
  /\ Ended(c, "empty")
  /\ UNCHANGED <<tools, pipe, abandoned, disorder>> /\ Reading

\* Mutant of TimeOut: the request is sent again and the wait goes on.
TimeOutAndResend(c) ==
  /\ call[c].pc = "waiting" /\ inbox # <<>> /\ Last(inbox) = call[c].id
  /\ Len(inbox) < 2 /\ inbox' = Append(inbox, call[c].id)
  /\ UNCHANGED <<connected, process, requestId, tools, pipe, call, abandoned,
                 disorder, spawns, noise>>

\* wait_for gives up after 30 seconds; the answer stays to come, or where it is.
TimeOut(c) ==
  /\ call[c].pc \in {"waiting", "woken"}
  /\ Ended(c, "raised") /\ abandoned' = abandoned + 1
  /\ UNCHANGED <<tools, pipe, disorder>> /\ Reading

-----------------------------------------------------------------------------
(* The operations.                                                         *)

\* connect: a new process with pipes of its own, and the initialize request.
\* _connected is set before either request is answered.
Connect(c) ==
  /\ ~InCall(c) /\ ~\E o \in Callers : InCall(o)
  /\ spawns < MaxSpawns /\ spawns' = spawns + 1
  /\ process' = "alive" /\ connected' = TRUE /\ pipe' = <<>> /\ abandoned' = 0
  /\ requestId + 1 <= MaxRequests /\ noise' = 0
  /\ Write(c, "initialize", TRUE, <<>>, FALSE)
  /\ UNCHANGED tools

\* The second request of connect, whatever the first one's answer was.
ListTools(c) ==
  /\ call[c].method = "initialize" /\ call[c].pc \in {"answered", "empty"}
  /\ requestId < MaxRequests
  /\ Write(c, "list", process = "alive", inbox, disorder)
  /\ UNCHANGED <<connected, process, tools, pipe, abandoned, spawns, noise>>

\* invoke_tool, by any task once there is a process, connected or not.
InvokeTool(c) ==
  /\ process # "none" /\ ~InCall(c) /\ ~Connecting
  /\ ~\E o \in Callers : call[o].method = "initialize" /\ call[o].pc \in {"answered", "empty"}
  /\ requestId < MaxRequests
  /\ Write(c, "call", process = "alive", inbox, disorder)
  /\ UNCHANGED <<connected, process, tools, pipe, abandoned, spawns, noise>>

\* disconnect: the process is terminated, and stays in _process.
Disconnect ==
  /\ connected /\ ~\E c \in Callers : InCall(c)
  /\ connected' = FALSE /\ process' = "dead" /\ inbox' = <<>>
  /\ UNCHANGED <<requestId, tools, pipe, call, abandoned, disorder, spawns, noise>>

-----------------------------------------------------------------------------
(* The server.                                                             *)

\* Output, or its end, wakes up the caller that waits in readline.
Wakes ==
  /\ call' = [c \in Callers |-> IF call[c].pc = "waiting" THEN [call[c] EXCEPT !.pc = "woken"]
                                                          ELSE call[c]]
  /\ UNCHANGED <<connected, requestId, tools, abandoned, spawns>>

Answer ==
  /\ process = "alive"
  /\ \E i \in DOMAIN inbox :
       /\ pipe' = Append(pipe, inbox[i]) /\ inbox' = RemoveAt(inbox, i)
       /\ disorder' = (disorder \/ i # 1)
  /\ UNCHANGED <<process, noise>> /\ Wakes

Notify ==
  /\ process = "alive" /\ noise < MaxNoise /\ noise' = noise + 1
  /\ pipe' = Append(pipe, 0) /\ disorder' = TRUE
  /\ UNCHANGED <<process, inbox>> /\ Wakes

Die ==
  /\ process = "alive" /\ process' = "dead" /\ inbox' = <<>>
  /\ UNCHANGED <<pipe, disorder, noise>> /\ Wakes

McpNext ==
  \/ \E c \in Callers : Connect(c) \/ ListTools(c) \/ InvokeTool(c) \/ Wait(c)
       \/ DrainRaises(c) \/ Collide(c) \/ TakeLine(c) \/ OverlongLine(c)
       \/ TakeNothing(c) \/ TimeOut(c)
  \/ Disconnect \/ Answer \/ Notify \/ Die

-----------------------------------------------------------------------------
(* Properties.                                                             *)

\* With calls one at a time and a server that answers each request in order,
\* a call takes the response of the request that was sent as many requests
\* before it as calls were abandoned since connect: its own as long as none
\* was, and after a single timeout every call to the end of the connection
\* takes its predecessor's.
AnswersLagByTimeouts ==
  \A c \in Callers :
    call[c].got > 0 /\ call[c].behind # Unknown => call[c].got = call[c].id - call[c].behind
=============================================================================
