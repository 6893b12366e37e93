----------------------------- MODULE AgentGraph -----------------------------
(* core/orchestrator.py: has_cycle of a graph of agents.  `edges` and       *)
(* `agents` are in the order they were added, which is the order of the     *)
(* search.                                                                  *)
EXTENDS SequencesExt

\* Depth first from every registered agent, with the nodes visited
\* so far and those on the recursion stack.
RECURSIVE Dfs(_, _, _, _)
Dfs(edges, node, visited, stack) ==
  LET Step(walk, e) ==
        IF walk.found \/ e.source # node THEN walk
        ELSE IF e.target \notin walk.visited
             THEN Dfs(edges, e.target, walk.visited, stack \cup {node})
        ELSE [walk EXCEPT !.found = e.target \in stack \cup {node}]
  IN  FoldLeft(Step, [visited |-> visited \cup {node}, found |-> FALSE], edges)

HasCycle(edges, agents) ==
  FoldLeft(LAMBDA walk, a : IF walk.found \/ a \in walk.visited THEN walk
                            ELSE Dfs(edges, a, walk.visited, {}),
           [visited |-> {}, found |-> FALSE], agents).found

=============================================================================
