----------------------------- MODULE MCWorkflow -----------------------------
(* Small instances of Workflow, three nodes of chosen types and up to three *)
(* edges of any kind between them or to a node that is not there, the       *)
(* drafts of the copilot, and of the requests around it.  A run is a matter *)
(* of one request and its own definition, so each behaviour exercises one   *)
(* of the two.                                                              *)
EXTENDS Workflow, StudioRequests, Copilot

Studio == INSTANCE StudioNodes

CONSTANTS a, b, c, x

Nodes(ta, tb, tc) ==
  <<[id |-> a, type |-> ta], [id |-> b, type |-> tb], [id |-> c, type |-> tc]>>
Edge(from, to, on) == [source : from, target : to, handle : on]
First  == Edge({a}, {b, c, x}, {NoHandle, "true"})
Second == Edge({b}, {a, b, c, x}, {NoHandle, "false"})
Third  == Edge({a, b, c}, {a, b, c, x}, {NoHandle})
Graphs == {<<>>} \cup {<<e>> : e \in First} \cup (First \X Second) \cup (First \X Second \X Third)

Drafts == {DraftWorkflow(prompt) : prompt \in SUBSET TermGroups}

MCDefinitions ==
  [nodes : {Nodes("trigger", "condition", "agent"), Nodes("agent", "condition", "trigger")},
   edges : Graphs]
  \cup
  [nodes : {Nodes("agent", "mystery", "agent"),
            <<[id |-> a, type |-> "agent"], [id |-> a, type |-> "condition"]>>},
   edges : {<<>>} \cup {<<e>> : e \in First}]
  \cup Drafts

VARIABLE part

MCInit ==
  /\ part \in {"run", "requests"} /\ Init /\ StudioInit
  /\ part = "requests" => def = CHOOSE d \in Definitions : TRUE

RunNext == part = "run" /\ Next /\ UNCHANGED <<part, svars>>
Quiet == (\A q \in Requests : ~UnderWay(q)) /\ UNCHANGED svars
RequestsNext ==
  part = "requests" /\ (StudioNext \/ Quiet) /\ UNCHANGED <<part, vars>>

\* Workflow's fairness; the requests need none.
MCSpec ==
  /\ MCInit /\ [][RunNext \/ RequestsNext]_<<part, vars, svars>>
  /\ WF_vars(part = "run" /\ Proceed)

-----------------------------------------------------------------------------
(* Bounded checks of the drafts, over every combination of terms.          *)

\* Every draft can be run as it is: one trigger in front, a node of a known
\* type behind another, no cycle; and the executor visits them in their order.
ASSUME DraftsRun ==
  \A d \in Drafts :
    /\ WellFormed(d) /\ ~Cyclic(d)
    /\ TopologicalSort(d) = [i \in DOMAIN d.nodes |-> d.nodes[i].id]
    /\ \A i \in DOMAIN d.nodes :
         IF i = 1 THEN d.nodes[i].type = "trigger" ELSE d.nodes[i].type \in KnownTypes

Text == [text |-> "some"]
\* What is in the context when the AI task's turn comes: the data of the
\* trigger and the outputs of the nodes before it.
ContextOf(d, data) ==
  [tree |-> [id \in Ids(d) |->
     [tree |-> IF id = "trigger" THEN data
               ELSE [field \in Studio!OutputFields(Type(d, id)) |-> Text]]]]

\* The AI task of a draft is given its input only when it follows the trigger
\* directly and the run was started with a "text", which a webhook's never is:
\* neither a delay nor an HTTP node has an "output" field.  What comes behind
\* the AI task reads its output.
ASSUME DraftsReadText ==
  \A prompt \in SUBSET TermGroups :
    \A data \in {[text |-> Text], [body |-> Text, headers |-> Text]} :
      LET d == DraftWorkflow(prompt)
          context == ContextOf(d, data)
      IN /\ Studio!Resolve(context, UserMessage(prompt)) = Text <=>
              /\ "delay" \notin prompt /\ ~WantsHttpFirst(prompt)
              /\ "text" \in DOMAIN data
         /\ Studio!Resolve(context, <<"ai-task", "output">>) = Text

\* A drafted delay is one the delay node does not cut short.
ASSUME DraftsDelay ==
  \A number \in 0..400, unit \in {"minutes", "seconds", "none"} :
    LET seconds == DraftDelay(number, unit)
    IN seconds > 0 /\ Studio!DelaySeconds(seconds, 300) = seconds

-----------------------------------------------------------------------------
\* "Raises ``ValueError`` if the graph contains a cycle." (executor.py:37, of
\* _topological_sort).  No graph with a cycle is walked, whatever its edges name.
CyclesRaise == pc \in {"walk", "node"} => ~Cyclic(def)
=============================================================================
