------------------------------- MODULE Workflow -------------------------------
(***************************************************************************)
(* One run of a Studio workflow: the request that creates it               *)
(* (studio/router.py) and the background task that walks the graph         *)
(* (studio/executor.py).  Runs have a session each and share nothing, so   *)
(* one is modelled; every commit of the executor is a step of its own,     *)
(* because the process may die or the database fail between any two.       *)
(*                                                                         *)
(* A definition is [nodes, edges], both sequences as the client sent them: *)
(* a node is [id, type], an edge [source, target, handle].  Nothing checks *)
(* that edges join nodes.  Configurations, outputs and templates are left  *)
(* out; of a node's result only its handle matters to the walk.            *)
(***************************************************************************)
EXTENDS Integers, FiniteSets, SequencesExt

CONSTANTS
  Definitions,  (* workflow definitions                                      *)
  MaxFaults     (* bound: process deaths and database errors                 *)

ASSUME WorkflowAssumption ==
  /\ MaxFaults \in Nat
  /\ \A d \in Definitions :
       /\ Len(d.nodes) \in Nat /\ DOMAIN d.nodes = 1..Len(d.nodes)
       /\ Len(d.edges) \in Nat /\ DOMAIN d.edges = 1..Len(d.edges)

VARIABLES
  def,          (* the definition, read when the run is created              *)
  pc,           (* where the request and its background task stand           *)
  run,          (* WorkflowRun.status, as committed                          *)
  steps,        (* WorkflowRunSteps [node, status], as committed             *)
  order,        (* what _topological_sort returned                           *)
  at,           (* index of the node being visited                           *)
  handles,      (* completed_node_ids, each with the handle it emitted       *)
  faults

vars == <<def, pc, run, steps, order, at, handles, faults>>

KnownTypes == {"agent", "llm_prompt", "http", "condition", "delay"}    (* NODE_REGISTRY *)
Output == "output"
NoHandle == "None"

Ids(d) == {d.nodes[i].id : i \in DOMAIN d.nodes}
\* node_map: the last node of an id wins.
Type(d, n) ==
  d.nodes[CHOOSE i \in DOMAIN d.nodes :
            d.nodes[i].id = n /\ \A j \in DOMAIN d.nodes : d.nodes[j].id = n => j <= i].type
Incoming(d, n) == {d.edges[i] : i \in {j \in DOMAIN d.edges : d.edges[j].target = n}}

-----------------------------------------------------------------------------
(* _topological_sort: Kahn's algorithm.                                    *)

\* The keys of in_degree: the nodes, and the targets that are no nodes.
Names(d) == Ids(d) \cup {d.edges[i].target : i \in DOMAIN d.edges}
Ascending(S) == [k \in 1..Cardinality(S) |-> CHOOSE i \in S : Cardinality({j \in S : j <= i}) = k]

\* in_degree[n] once the nodes of `popped` have been taken from the queue.
InDegree(d, popped, n) ==
  Cardinality({i \in DOMAIN d.edges : d.edges[i].target = n /\ d.edges[i].source \notin popped})

\* The nodes without incoming edges, in the order of the definition.
Roots(d) ==
  LET first == {i \in DOMAIN d.nodes : /\ InDegree(d, {}, d.nodes[i].id) = 0
                                       /\ \A j \in 1..(i - 1) : d.nodes[j].id # d.nodes[i].id}
  IN  [k \in DOMAIN Ascending(first) |-> d.nodes[Ascending(first)[k]].id]

\* The targets whose count reaches zero when n is taken, in the order of the
\* edges that do it.
Released(d, popped, n) ==
  LET last == {i \in DOMAIN d.edges :
                 /\ d.edges[i].source = n
                 /\ InDegree(d, popped \cup {n}, d.edges[i].target) = 0
                 /\ \A j \in DOMAIN d.edges :
                      d.edges[j].source = n /\ d.edges[j].target = d.edges[i].target => j <= i}
  IN  [k \in DOMAIN Ascending(last) |-> d.edges[Ascending(last)[k]].target]

\* Mutant of TopologicalSort: the order of the definition.
DefinitionOrder(d) == [i \in DOMAIN d.nodes |-> d.nodes[i].id]

\* The loop: the names that wait in the queue, and those that were taken from it.
Sorting(d) == [queue : Seq(Names(d)), sorted : Seq(Names(d))]
TakeFirst(d, s) ==
  [queue  |-> Tail(s.queue) \o Released(d, ToSet(s.sorted), Head(s.queue)),
   sorted |-> Append(s.sorted, Head(s.queue))]

TopologicalSort(d) ==
  LET sort[s \in Sorting(d)] == IF s.queue = <<>> THEN s.sorted ELSE sort[TakeFirst(d, s)]
  IN  sort[[queue |-> Roots(d), sorted |-> <<>>]]

\* "cycle": the order does not have as many nodes as the definition.
Rejected(d, sorted) == Len(sorted) # Len(d.nodes)

-----------------------------------------------------------------------------

Init ==
  /\ def \in Definitions
  /\ pc = "request" /\ run = "absent" /\ steps = <<>>
  /\ order = <<>> /\ at = 1
  /\ handles = <<>>
  /\ faults = 0

\* trigger_workflow or receive_webhook: an inactive workflow is a 409.
Trigger ==
  /\ pc = "request"
  /\ \/ pc' = "background" /\ run' = "pending"
     \/ pc' = "refused" /\ UNCHANGED run
  /\ UNCHANGED <<def, steps, order, at, handles, faults>>

Begin ==
  /\ pc = "background"
  /\ pc' = "sort" /\ run' = "running"
  /\ UNCHANGED <<def, steps, order, at, handles, faults>>

\* Mutant of Sort: the error is returned and not recorded.
SortUnrecorded ==
  /\ pc = "sort"
  /\ LET sorted == TopologicalSort(def)
     IN  IF Rejected(def, sorted)
         THEN pc' = "done" /\ UNCHANGED order
         ELSE pc' = "walk" /\ order' = sorted
  /\ UNCHANGED <<def, run, steps, at, handles, faults>>

Sort ==
  /\ pc = "sort"
  /\ LET sorted == TopologicalSort(def)
     IN  IF Rejected(def, sorted)
         THEN pc' = "done" /\ run' = "failed" /\ UNCHANGED order
         ELSE pc' = "walk" /\ order' = sorted /\ UNCHANGED run
  /\ UNCHANGED <<def, steps, at, handles, faults>>

-----------------------------------------------------------------------------
(* The walk.                                                               *)

Node == order[at]
Visiting == pc = "walk" /\ at <= Len(order)

\* Mutant of Active: handles are not compared.
ActiveAnyHandle(e) == e.source \in DOMAIN handles

\* An edge is active when its source completed and it asks for no handle, or
\* for the one emitted; a node without incoming edges is not gated.
Active(e) == e.source \in DOMAIN handles /\ e.handle \in {NoHandle, handles[e.source]}
ShouldRun(n) == Incoming(def, n) = {} \/ \E e \in Incoming(def, n) : Active(e)

Complete(n, handle) == handles' = [m \in DOMAIN handles \cup {n} |->
                                     IF m = n THEN handle ELSE handles[m]]
SetStep(status) == steps' = [steps EXCEPT ![Len(steps)].status = status]

\* node_map[node_id] of a target that is no node: KeyError, outside the try;
\* _exec_bg logs it.
UnknownNode ==
  /\ Visiting /\ Node \notin Ids(def)
  /\ pc' = "escaped"
  /\ UNCHANGED <<def, run, steps, order, at, handles, faults>>

VisitTrigger ==
  /\ Visiting /\ Node \in Ids(def) /\ Type(def, Node) = "trigger"
  /\ Complete(Node, Output) /\ at' = at + 1
  /\ UNCHANGED <<def, pc, run, steps, order, faults>>

Skip ==
  /\ Visiting /\ Node \in Ids(def) /\ Type(def, Node) # "trigger"
  /\ ~ShouldRun(Node)
  /\ at' = at + 1
  /\ UNCHANGED <<def, pc, run, steps, order, handles, faults>>

StartStep ==
  /\ Visiting /\ Node \in Ids(def) /\ Type(def, Node) # "trigger"
  /\ ShouldRun(Node)
  /\ steps' = Append(steps, [node |-> Node, status |-> "running"])
  /\ pc' = "node"
  /\ UNCHANGED <<def, run, order, at, handles, faults>>

NodeReturns ==
  /\ pc = "node" /\ Type(def, Node) \in KnownTypes
  /\ \E h \in IF Type(def, Node) = "condition" THEN {"true", "false"} ELSE {Output} :
       Complete(Node, h)
  /\ SetStep("completed")
  /\ at' = at + 1 /\ pc' = "walk"
  /\ UNCHANGED <<def, run, order, faults>>

\* Mutant of NodeRaises: the step is left as it was.
NodeRaisesRunOnly ==
  /\ pc = "node"
  /\ run' = "failed" /\ pc' = "done"
  /\ UNCHANGED <<def, steps, order, at, handles, faults>>

\* The node raises, its type is unknown, or its output is not serialisable:
\* step and run fail in one commit.
NodeRaises ==
  /\ pc = "node"
  /\ SetStep("failed") /\ run' = "failed"
  /\ pc' = "done"
  /\ UNCHANGED <<def, order, at, handles, faults>>

Finish ==
  /\ pc = "walk" /\ at > Len(order)
  /\ run' = "completed" /\ pc' = "done"
  /\ UNCHANGED <<def, steps, order, at, handles, faults>>

\* The process dies, or a commit raises; in a node's try the handler then uses
\* the broken session and raises too.  Nothing takes the run up again.
Fault ==
  /\ pc \in {"background", "sort", "walk", "node"} /\ faults < MaxFaults
  /\ faults' = faults + 1 /\ pc' = "escaped"
  /\ UNCHANGED <<def, run, steps, order, at, handles>>

-----------------------------------------------------------------------------

Proceed ==
  \/ Trigger \/ Begin \/ Sort \/ UnknownNode \/ VisitTrigger \/ Skip \/ StartStep
  \/ NodeReturns \/ NodeRaises \/ Finish

Ended == pc \in {"refused", "done", "escaped"} /\ UNCHANGED vars

Next == Proceed \/ Fault \/ Ended

\* The event loop runs the background task on, and nodes return: each bounds
\* its own waiting.
Spec == Init /\ [][Next]_vars /\ WF_vars(Proceed)

-----------------------------------------------------------------------------

\* Edges join nodes and no two nodes share an id, as the editor draws them.
WellFormed(d) ==
  /\ Cardinality(Ids(d)) = Len(d.nodes)
  /\ \A i \in DOMAIN d.edges : {d.edges[i].source, d.edges[i].target} \subseteq Ids(d)

\* Some nodes each have an edge to another of them.
Cyclic(d) ==
  \E S \in (SUBSET Ids(d)) \ {{}} :
    \A n \in S : \E i \in DOMAIN d.edges : d.edges[i].source = n /\ d.edges[i].target \in S

Triggers == {n \in Ids(def) : Type(def, n) = "trigger"}
Ran == {steps[i].node : i \in DOMAIN steps}

TypeOK ==
  /\ pc \in {"request", "refused", "background", "sort", "walk", "node", "done", "escaped"}
  /\ run \in {"absent", "pending", "running", "completed", "failed"}
  /\ at \in 1..(Len(order) + 1)
  /\ \A i \in DOMAIN steps : steps[i] \in [node : Ids(def), status : {"running", "completed", "failed"}]
  /\ DOMAIN handles \subseteq Ids(def) /\ faults \in 0..MaxFaults

\* A cyclic graph is refused before any of its nodes runs, and only such a
\* graph is; in the others no node runs twice, and when a node starts all its
\* predecessors that ever run have completed: their outputs are in the context
\* its templates read.
PredecessorsFirst ==
  WellFormed(def) =>
    /\ pc \in {"walk", "node"} => ~Cyclic(def)
    /\ run = "failed" /\ steps = <<>> => Cyclic(def)
    /\ \A i, j \in DOMAIN steps : steps[i].node = steps[j].node => i = j
    /\ \A e \in ToSet(def.edges) : \A i, j \in DOMAIN steps :
         e.source = steps[i].node /\ e.target = steps[j].node
           => i < j /\ steps[i].status = "completed"

\* A completed run visited exactly the nodes on the branches its conditions
\* took: a node ran if and only if it is a root or follows a completed node
\* by an edge of the emitted handle, however the branches join again.
BranchesFollowed ==
  run = "completed" =>
    \A n \in Ids(def) \ Triggers :
      n \in Ran <=> \/ \A i \in DOMAIN def.edges : def.edges[i].target # n
                    \/ \E e \in ToSet(def.edges) :
                         /\ e.target = n /\ e.source \in Ran \cup Triggers
                         /\ e.handle # NoHandle => e.handle = handles[e.source]

\* The run and its steps tell the same story: a completed run has no step
\* that did not complete, a failed one has at most its last step failed, and
\* once the executor is done none is left "running".
StepsTellOutcome ==
  /\ run = "completed" => \A i \in DOMAIN steps : steps[i].status = "completed"
  /\ \A i \in DOMAIN steps : steps[i].status # "completed" => i = Len(steps)
  /\ pc = "done" /\ run = "failed" /\ steps # <<>> => Last(steps).status = "failed"

\* A run that was accepted ends, unless the process or the database failed
\* under it or the graph names a node it does not have.
RunSettles ==
  run = "pending" ~> run \in {"completed", "failed"} \/ faults > 0 \/ ~WellFormed(def)

=============================================================================
