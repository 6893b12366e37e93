----------------------------- MODULE MCOrchestrator -----------------------------
(* Two agents and one other caller over two models that back each other up:  *)
(* a line, a branch, a cycle, a self-handoff, a target never registered, and  *)
(* the two agents in parallel.                                                *)
EXTENDS Orchestrator, AgentGraph, TLC

CONSTANTS A, B, Z, Other, M1, M2

MCAgents == {A, B}
MCAskers == {A, B, Other}
MCModels == {M1, M2}
MCChain == (M1 :> <<M1, M2>>) @@ (M2 :> <<M2>>)
MCModelOf == (A :> M1) @@ (B :> M2)
MCOutputs == {"x", "y"}

Edge(s, t, w) == [source |-> s, target |-> t, when |-> w]
Graph(start, edges) == [mode |-> "graph", start |-> start, edges |-> edges]

MCPlans ==
  {Graph(A, <<Edge(A, A, {"x"}), Edge(A, B, MCOutputs), Edge(B, A, {"y"})>>),
   Graph(A, <<Edge(A, B, MCOutputs), Edge(B, Z, {"x"}), Edge(B, B, {"y"})>>),
   Graph(Z, <<>>),
   [mode |-> "parallel", start |-> A, edges |-> <<>>]}

\* has_cycle against its meaning, on every list of up to three edges: some node
\* that a registered agent reaches lies on a cycle.
MCEdges == [source : {A, B, Z}, target : {A, B, Z}, when : {MCOutputs}]
Steps(edges, X) == X \cup {e.target : e \in {f \in Range(edges) : f.source \in X}}
Reach(edges, X) == Steps(edges, Steps(edges, Steps(edges, X)))
OnCycle(edges) ==
  \E n \in Reach(edges, MCAgents) :
    n \in Reach(edges, {e.target : e \in {f \in Range(edges) : f.source = n}})
ASSUME HasCycleIsRight ==
  \A k \in 0..3 : \A edges \in [1..k -> MCEdges] : HasCycle(edges, <<A, B>>) <=> OnCycle(edges)

=============================================================================
