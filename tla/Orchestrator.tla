----------------------------- MODULE Orchestrator -----------------------------
(* core/orchestrator.py: AgentGraph.execute hands a task from agent to      *)
(* agent along edges, run_parallel gathers agents over one task.  Each      *)
(* agent's run is governed (GovernedTask) and asks for completions through  *)
(* the breaker of the process (Completion), which it shares with whatever   *)
(* else the process serves: the callers that are not agents.                *)
(*                                                                          *)
(* One completion stands for those of an agent's run: each passes the same  *)
(* check, and its end decides how the run goes on.                          *)
EXTENDS Completion, SequencesExt

CONSTANTS
  Agents,        \* names registered with add_agent
  ModelOf,       \* [Agents -> Models]
  Outputs,       \* what edge conditions tell apart in an agent's output
  Plans,         \* the orchestrations that may be asked for
  MaxHandoffs,   \* max_handoffs
  AuditMayFail   \* may agent.run raise (an audit insert on the shared session)?

ASSUME AgentAssumption == Agents \subseteq Askers /\ ModelOf \in [Agents -> Models]

VARIABLES
  plan,      \* mode, start, edges: the arguments
  status,    \* of the orchestration
  chain,     \* handoff_chain
  results,   \* agent_results: status and output
  task       \* task[a]: where a's run stands

orchestration == <<plan, status, chain, results, task>>
vars == <<plan, status, chain, results, task, failures, request, hammer>>

Outcomes == {"completed", "failed", "denied"}
Active == {"ready", "running"}

Init ==
  /\ CompletionInit
  /\ plan \in Plans /\ status = "called"
  /\ chain = <<>> /\ results = <<>>
  /\ task = [a \in Agents |-> "none"]

-----------------------------------------------------------------------------
(* The graph.                                                              *)

\* get_targets: the targets of the edges out of `source` whose condition holds.
TargetsIn(edges, source, output) ==
  LET taken == SelectSeq(edges, LAMBDA e : e.source = source /\ output \in e.when)
  IN  [i \in DOMAIN taken |-> taken[i].target]
Targets(source, output) == TargetsIn(plan.edges, source, output)

-----------------------------------------------------------------------------
(* One agent's run.                                                        *)

AgentStarts(a) ==
  /\ task[a] = "ready"
  /\ \/ Begin(a, ModelOf[a], "call") /\ task' = [task EXCEPT ![a] = "running"]
     \/ /\ \E s \in {"denied"} \cup (IF AuditMayFail THEN {"raised"} ELSE {}) :
             task' = [task EXCEPT ![a] = s]
        /\ UNCHANGED completionVars
  /\ UNCHANGED <<plan, status, chain, results>>

\* The run ends with the completion: an answer may still exhaust the steps,
\* an exception is recorded as a failed task.
AgentEnds(a) ==
  /\ task[a] = "running" /\ request[a].pc \in {"returned", "raised"}
  /\ \E s \in {"failed"} \cup (IF request[a].pc = "returned" THEN {"completed"} ELSE {})
                         \cup (IF AuditMayFail THEN {"raised"} ELSE {}) :
       task' = [task EXCEPT ![a] = s]
  /\ request' = [request EXCEPT ![a] = Idle]
  /\ UNCHANGED <<plan, status, chain, results, failures, hammer>>

-----------------------------------------------------------------------------
(* AgentGraph.execute.                                                     *)

\* The head of the hop loop: `self._agents[current]` raises for a target that
\* was never registered.
HopTo(a) ==
  IF a \in Agents
  THEN /\ chain' = Append(chain, a) /\ task' = [task EXCEPT ![a] = "ready"]
       /\ status' = "running"
  ELSE status' = "raised" /\ UNCHANGED <<chain, task>>

ExecuteGraph ==
  /\ plan.mode = "graph" /\ status = "called"
  /\ HopTo(plan.start)
  /\ UNCHANGED <<plan, results, completionVars>>

\* Mutant of Revisits: no check that the target is new.
RevisitsUnseen(next) == FALSE
Revisits(next) == next \in Range(chain) /\ Len(chain) > 1

\* The agent's result decides: stop, or hand its output to the first target.
Handoff ==
  /\ plan.mode = "graph" /\ status = "running"
  /\ task[Last(chain)] \in Outcomes
  /\ \E o \in Outputs :
       LET current == Last(chain)
           targets == Targets(current, o)
       IN  /\ results' = Append(results, [status |-> task[current], output |-> o])
           /\ IF \/ task[current] \in {"failed", "denied"}
                 \/ targets = <<>>
                 \/ Revisits(Head(targets))
                 \/ Len(chain) = MaxHandoffs
              THEN status' = "returned" /\ UNCHANGED <<chain, task>>
              ELSE HopTo(Head(targets))
  /\ UNCHANGED <<plan, completionVars>>

GraphRaises ==
  /\ plan.mode = "graph" /\ status = "running"
  /\ task[Last(chain)] = "raised"
  /\ status' = "raised"
  /\ UNCHANGED <<plan, chain, results, task, completionVars>>

-----------------------------------------------------------------------------
(* run_parallel.                                                           *)

RunParallel ==
  /\ plan.mode = "parallel" /\ status = "called"
  /\ status' = "running"
  /\ task' = [a \in Agents |-> "ready"]
  /\ UNCHANGED <<plan, chain, results, completionVars>>

\* Mutant of Gathered: the first result is enough.
GatheredAny == \E a \in Agents : task[a] \in Outcomes
\* asyncio.gather has a result of every agent.
Gathered == \A a \in Agents : task[a] \in Outcomes

Gather ==
  /\ plan.mode = "parallel" /\ status = "running"
  /\ Gathered
  /\ status' = "returned"
  /\ UNCHANGED <<plan, chain, results, task, completionVars>>

\* The first exception is raised; the other runs are not cancelled.
GatherRaises ==
  /\ plan.mode = "parallel" /\ status = "running"
  /\ \E a \in Agents : task[a] = "raised"
  /\ status' = "raised"
  /\ UNCHANGED <<plan, chain, results, task, completionVars>>

-----------------------------------------------------------------------------

Others == Askers \ Agents

OtherBegins(c) == \E m \in Models, kind \in {"call", "stream"} : Begin(c, m, kind)

Orchestrate == ExecuteGraph \/ Handoff \/ GraphRaises \/ RunParallel \/ Gather \/ GatherRaises
Work(a) == AgentStarts(a) \/ AgentEnds(a)

Next ==
  \/ Orchestrate
  \/ \E a \in Agents : Work(a)
  \/ /\ \/ Tick
        \/ \E c \in Askers : Progress(c)
        \/ \E c \in Others : OtherBegins(c) \/ Abandon(c)
     /\ UNCHANGED orchestration

Spec == Init /\ [][Next]_vars

\* The event loop runs what is ready, the provider answers or times out,
\* back-offs end, time passes.
Fairness ==
  /\ WF_vars(Orchestrate)
  /\ \A a \in Agents : WF_vars(Work(a))
  /\ WF_vars(Tick /\ UNCHANGED orchestration)
  /\ \A c \in Askers : WF_vars(Progress(c) /\ UNCHANGED orchestration)

FairSpec == Spec /\ Fairness

-----------------------------------------------------------------------------

\* handoff_chain tells a walk of the graph: every handoff follows the first edge
\* that the completed run before it opened, no agent runs twice except that the
\* start may hand to itself once ("Cycle detection for safety", orchestrator.py:8,
\* is a check of the chain that skips its first hop), and no run is reported
\* that was not in the chain, nor any chain member left out of a returned report.
ChainIsWalk ==
  /\ \A i \in 1..(Len(chain) - 1) :
       /\ results[i].status = "completed"
       /\ Targets(chain[i], results[i].output) # <<>>
       /\ chain[i + 1] = Head(Targets(chain[i], results[i].output))
  /\ \A i, j \in DOMAIN chain : i < j /\ chain[i] = chain[j] => i = 1 /\ j = 2
  /\ Len(results) <= Len(chain)
  /\ status = "returned" => Len(results) = Len(chain)

\* Runs do not outlive their orchestration unless it raised: a graph has one run
\* at a time, the last of its chain, and what returns has the outcome of every
\* agent (orchestrator.py:217 gathers without cancelling).
NoRunLeftBehind ==
  LET active == {a \in Agents : task[a] \in Active}
  IN  /\ status = "returned" => active = {}
      /\ plan.mode = "graph" => /\ Cardinality(active) <= 1
                                /\ status = "raised" => active = {}
                                /\ \A a \in active : a = Last(chain)

\* Every orchestration ends: cycles in the graph, open circuits and failing
\* providers cannot keep the hop loop or a run going.
OrchestrationEnds == <>(status \in {"returned", "raised"})

=============================================================================
