# SMN in TLA+

SMN runs governed AI agents: a language model proposes tool calls, and every call
passes the agent's identity, its policy, the people who must approve it and its
budget before it runs, leaving an entry in a hash-chained audit trail. Tasks reach
the runtime through a REST API, a Celery queue, an event stream or the Studio
workflow editor. This directory holds TLA+ models of that machinery, the TLC
configurations that check them on small instances, and TLAPS proofs of what holds
for every instance. Paths below are relative to the repository's `src/smn/`
unless they begin with `sdks/`, `docs/` or `tests/`.

## Inventory

| component | state it keeps | operations | models |
|---|---|---|---|
| policy engine `core/policy.py`, `core/identity.py` | rules, limits, scopes (immutable once loaded) | scope check, pattern and condition matching, first-match evaluation, cost and step decisions, loading | `Policy`, `AgentSetup` |
| governed runtime `core/runtime.py` | step, message list, `TaskBudget` of one call | `execute_task`: completions, five gates per tool call, audit entries, error paths | `Governance`, `GovernedTask` |
| streaming runtime `core/runtime.py`, `api/streaming.py` | the same, plus the events yielded | `execute_task_stream`, a consumer that may leave | `GovernedStream` |
| audit trail `core/audit.py` | `audit_entries`, one hash chain per tenant | `log_event`, `verify_chain`, queries | `AuditChain` |
| task queue `api/tasks.py`, `worker.py`, `db.py` | `tasks` rows, broker messages, worker processes | submit, publish, fall back, run, commit, retry, redeliver | `TaskQueue` |
| idempotency `middleware/idempotency.py`, `sdks/python/.../_transport.py` | an in-process LRU of responses; the client's attempt counter | look up, execute, store, replay; send, time out, retry | `Idempotency` |
| rate limiter `middleware/rate_limit.py` | a Redis sorted set per key; an in-process list per key | check through Redis, check in memory, fall back | `RateLimiter` |
| Studio workflows `studio/executor.py`, `studio/router.py` | `workflow_runs`, `workflow_run_steps`, the walk in memory | create, edit, delete, trigger by key or token; sort, visit, skip, fail, finish | `Workflow`, `StudioRequests` |
| Studio nodes and copilot `studio/nodes/`, `studio/copilot.py` | none | resolve templates, compare, delay; draft a workflow from a prompt | `StudioNodes`, `Copilot` |
| agent construction `core/agent.py`, `core/tools.py` | configuration, tool registry, a `Policy` object that may be shared | load the policy, register tools, derive scopes, escalate | `AgentSetup` |
| orchestrator `core/orchestrator.py` | handoff chain, results, one run per agent | handoff, cycle test, `run_parallel` | `Orchestrator` |
| LLM connector `connectors/llm.py` | recent failures per model, shared by the process | complete, stream, retry, fall back, trip | `Completion` |
| agent memory `core/memory.py` | session and persistent entries | set, delete, load, flush, expire | `AgentMemory`, `SessionMemory` |
| checkpoints `core/checkpoint.py` | a list per process, a table of steps | save, load, prune, delete | `Checkpoints` |
| billing `billing.py`, `api/billing.py` | customer and subscription of a tenant, and Stripe's own | create customer, subscribe | `ControlPlane` |
| metering `metering.py`, `billing.py` | usage records, and what Stripe was told | aggregate, push | `UsageMetering` |
| connectors `connectors/mcp.py`, `connectors/webhook.py` | a server process and its pipes, request ids; a client | connect, call, disconnect; deliver with retries | `McpTransport`, `WebhookDelivery` |
| guardrails `core/guardrails.py` | none | filter, redact, validate an output | `Guardrails` |
| governance checks `governance/` | none | compliance report of an agent | `Compliance` |
| policy versions `api/policies.py` | versions of a policy | create (deactivates its predecessor) | `ControlPlane` |
| authentication, tenants, agents `auth.py`, `api/auth.py`, `api/deps.py`, `api/admin.py`, `api/agents.py` | API keys, tenants, agents | authenticate, bootstrap, create, revoke, update, deactivate | `ControlPlane` |
| other connectors, CLI, telemetry, errors, SDK resources | a client at most | formatting, single calls of a library | not modelled |

How they interact. A request passes the rate limiter, then the idempotency
middleware, then a handler that owns one database transaction. `POST /tasks` builds
an agent and either runs `execute_task` in the request or publishes a message that
a worker turns into the same call. Each call writes audit entries in the
transaction of whoever made it, so the trail of a tenant is appended to by many
sessions at once. A Studio run is a background task of the process that accepted
it; its agent nodes call `execute_task` as well. A program that embeds the runtime may
chain agents with the orchestrator. All completions of a process go through one
circuit breaker. Every authenticated request updates its key's row before the handler
runs, in the handler's transaction. Memory, checkpoints and usage records are libraries
that write inside the transaction of whoever calls them. Tools of an MCP server
enter the runtime as ordinary tool specs; all tasks of a process that use the
server share one pipe to it.

What is hard: awaits between a decision and its use (approval callbacks, the audit
insert, the completion); transactions whose reads predate other commits; messages
published before the row they name is visible; at-least-once delivery; client
retries that overtake the attempt they repeat; clocks read before the store is
asked; stores that are bounded and forget; errors inside error paths. The entries
under `hazards` in `PROJECT.json` give each at its line, with the property that
watches it.

What makes each part correct:

- runtime: a tool runs only after all its gates let that very call through; the
  recorded tool cost stays within the limit; every requested call is answered; the
  trail tells what ran and how the task ended; the call returns;
- stream: events tell exactly what ran, and close once;
- audit: no entry is chained to one that was not kept; a trail verifies until two of
  its tenant's sessions overlap, and a trail that was refused stays refused;
- queue: one run of a task at a time, outcomes are not undone, queued tasks settle,
  retries end;
- idempotency: a key is executed twice only for a nameable cause; answers agree;
- rate limiter: no window admits more than the limit, refusals are justified,
  `Retry-After` suffices;
- workflows: cycles are refused, predecessors come first, exactly the branches
  taken run, the run's status tells the same story as its steps;
- orchestrator: the handoff chain is a walk along the edges the outputs opened, ends
  whatever the graph and the provider do, and leaves no run behind unless it raised;
- LLM connector: an open circuit admits only calls that had passed it;
- Studio requests: a run belongs to its workflow's tenant and follows a definition the
  workflow had while the request was under way; updates do not undo one another;
- memory: every change reaches the table, is on its way, or was in a flush that
  did not commit;
- checkpoints: what is resumed from the table has every earlier step behind it;
- metering: Stripe is told of no more tasks than were run;
- MCP: a call takes its own response as long as none was abandoned;
- webhooks: what a delivery reports is what the subscriber has;
- configuration: an agent has the scopes its tools need and no others, a high-risk
  agent is governed as such, reports and guardrails say what they checked;
- control plane: a request changes rows of its own tenant only; versions and Stripe
  customers are unique unless requests overlapped; requests that lock each other's
  keys are all answered.

## Modules

`Policy` holds the decisions as operators: `HasScope`, `CheckPermissions`,
`ActionMatches`, `Holds`, `Evaluate`, `CheckCost`, `CheckStepLimit`. A
colon-separated name is the sequence of its segments. Amounts are whole cents (the
code uses floats; the properties compare sums with limits and need no fractions).

`Governance` is the abstract promise: one call at a time is under consideration, a
tool runs only if `Authorised`. It knows nothing of steps, messages or audit.

`GovernedTask` is `execute_task`. `pc` names the await or branch the coroutine
stands at; `Start` to `ToolRaises` are the pieces of code between two awaits, each
with the audit insert it makes. `Refuse` is the common tail of every gate
(`log_event`, tool message, `continue`), `Raise` the way to `except Exception`.
The variables `ran` and `yes` are history: what ran, and how often the current
call was approved. `G == INSTANCE Governance` is the refinement mapping.

`GovernedStream` is `execute_task_stream`, with `Disconnect` for the consumer that
stops iterating. `SampleAgents` holds five agents for both
(`MCGovernedTask`, `MCGovernedStream`), set up with the operators of `AgentSetup`: one
escalates and has an approver, one is unattended with a time condition and a missing
scope, one may run no task, one has an unknown effect in its rules and no steps at all,
and one is left with the restrictive default because its policy was not found.

`AgentSetup` is everything between a source file or a YAML file and the agent the
runtime is handed: `LoadPolicy`, `DecorateTool`, `McpCallable`, `NewAgent`, and `Gated`, what
is left of all that for the gates. `Compliance` reports on what `NewAgent` builds,
`Guardrails` is the engine over what the patterns find in a text. All three are operators;
`ConfigurationChecks` compares them with what they mean over every input from small
sets, the shipped policies among them, and `MCGovernedTask` extends it, so that its run
evaluates them.

`AuditChain` has one row per insert ever made, with the status its transaction gave
it; `ReadTail`, `Insert`, `Commit`, `Rollback` are the SELECT and the flush of
`log_event` and the end of the caller's transaction. `Visible` is read committed.
A hash is modelled by the id of the row it was computed from. `VerifyChain` is
`verify_chain` as some session runs it. `overlapped` is history: the tenants of which a
session read the tail while another was between its own read and its commit.

`TaskQueue` follows a task through the request (`api`), the broker (`waiting`), the
workers (`worker`) and its row (`row`, what is committed). The broker delivers at
least once, and may lose a message whose pool process dies. One governed run is
one step, which is what `GovernedTask` justifies. `early` and `lost` are history variables.

`Idempotency` puts the middleware's store under the SDK's retry loop. `Miss` and
`StoreAndReply` are separate steps because `call_next` is awaited between them.
`why` records what let a key through a second time.

`RateLimiter` has, per process, the clock reading, the pipeline, the `zrem` and the
`zrange` of one check as separate steps, and the in-memory limiter as one step,
for it contains no await. A tick of the model is half a second in the checked
instance, so that the truncation in `retry_after` shows.

`Workflow` is one run of one definition: the request, `_topological_sort`, and the
walk, cut at each commit. `TopologicalSort` is Kahn's algorithm with the order
of the code's queue: a recursive function over the states of the loop (`Sorting`), each
turn of which is `TakeFirst`.

`StudioRequests` is the router around it: each request selects its workflow in one step
and commits in another. `seen` collects the rows the workflow had in between; `lastAsked`
names the request that last committed an update of a column. SQLAlchemy writes the
columns that differ from what was read (`Written`), which is why updates of different
columns do not collide. `StudioNodes` and `Copilot` are operators; `MCWorkflow` walks every
draft of the copilot along with its graphs.

`AgentMemory` has `PersistentMemory` objects over one table. The flush is cut at each
await: `StartFlush` clears the marks, then each key is deleted, or selected and updated,
under row locks, in the transaction that `Commit` or `Abort` ends. `asked`, `last`,
`crossed` and `dropped` are history. `SessionMemory` is the dictionary of one task.
`Checkpoints` has the list of each process and the rows that are committed, under a
caller that crashes, rolls back and resumes. `UsageMetering` cuts aggregation and push at
each query and at Stripe's answer.

`McpTransport` has the pipe to the server: a line is the id of the request it answers.
Tasks overlap in it as asyncio lets them: output wakes the one that waits (`Wakes`), another
may take the line before it runs, and who then finds the buffer empty and a reader waiting
gets a RuntimeError (`Collide`). `DrainRaises` is a write to a dead process, `OverlongLine`
the limit of `readline`, `TimeOut` the 30 seconds. `WebhookDelivery` has the requests on their way (`flying`), which arrive
or are lost whether or not the client still waits; `max_retries` may be 0.
`missed`, `erred` and `refused` are history: how each attempt ended.

`Completion` is `connectors/llm.py`: a call of `reliable_completion` or its stream
stands at the provider, a back-off or between two chunks. Failures are kept by age,
which needs no clock. `Orchestrator` EXTENDS it: each run of an agent asks for
completions through the breaker it shares with callers outside the orchestration.
One completion stands for all of a run's, and the run's outcomes are those that
`GovernedTask` returns. `HasCycle`, which is recursive, is in `AgentGraph`.

`ControlPlane` has a request as a transaction of steps: arrive, find the key, update
it (and wait for its lock), authorise, select, write and commit. Handlers that write
right after authentication skip the select. Stripe keeps what it was told when the
transaction is rolled back. `crossed` is history: which names were read by one
request and changed by another before it wrote.

`OperatorLemmas` (sequences, least numbers, folds, `Policy`'s operators) and the modules named
`*Proofs` hold the lemmas and theorems; the `MC*`
modules the constants of the checked instances.

## What the runs show

| run | bounds | shows |
|---|---|---|
| `governed_task` | five agents, two clock readings, completions free or over a limit, five responses of up to two calls, up to three steps | gates, budget, answers, audit and outcome agree, audit failures included; `execute_task` implements `Governance` and returns; the assumptions of `ConfigurationChecks` hold |
| `governed_stream` | the same, no tool requiring approval | the stream's four gates keep the promise; events tell what ran; one closing event |
| `shared_stores` | audit table: three sessions, two of one tenant, four inserts. Idempotency: two calls of two attempts, one place in the store, one tick of expiry, one restart. Rate limiter: two processes, limit two, a window of four ticks, seven ticks | no orphaned audit entry, a trail verifies at every moment unless two of its sessions overlapped, a refused trail stays refused; second executions have a named cause, answers agree until then; exact window, justified refusals, sufficient `Retry-After` in memory, a bound for the whole fleet |
| `task_queue` | two tasks, two workers, one retry, two faults | one run at a time, no outcome undone, queued tasks settle |
| `workflow` | definitions of two or three nodes with up to three edges, loops, dangling edges, duplicate ids and unknown types among them, and the copilot's 16 drafts; one fault. Or three requests of two tenants | cycles refused, predecessors first, exactly the branches taken, one story of run and steps, settling; runs follow updates, updates are kept |
| `orchestrator` | two agents and one other caller, two models, a fallback, two attempts, two failures open a circuit for two ticks; a graph with a self-handoff and a cycle, one with a branch to an unregistered agent, one with an unregistered start, a parallel run; four handoffs | the chain is a walk, no run is left behind, orchestrations end, an open circuit is asked at most once per caller that had passed it |
| `control_plane` | two tenants, one yet to come, three keys, two agents, two requests at a time, three in all, one fault | tenant isolation, explained duplicates of versions and customers, every request answered |
| `durable_state` | three memories of two agents, two keys, three changes; two processes, three steps; two tenants, two tasks each, two jobs, three starts | changes reach the table, steps have no gap, no overbilling, records only grow, each with its named exceptions |
| `outbound` | two callers, five requests to a server, two server processes, one notification; two events, three attempts | which response a call takes; deliveries tell what was received; late copies come of timeouts |

Three more runs state what a document or a comment of the repository says and are refuted:

| run | states | because |
|---|---|---|
| `audit_fork` | `ChainIntact`: every entry contains the hash of the one before it | two overlapping writers of a tenant fork its chain |
| `stream_approval` | `ApprovalsGiven`: the stream has the approvals `execute_task` asks for | it has no Gate 5 |
| `cycle_walked` | `CyclesRaise`: no cyclic workflow is walked | an edge to a missing node makes the counts equal |

Some properties of the passing runs except a case that the code does get wrong or leaves open,
by name: `DuplicatesExplained` and `AnswersAgree` an overlap, `QueuedSettles` an early worker,
`RunSettles` a fault, `NeverOverbilled` a lost answer of Stripe and two records, and so on. They say
that nothing else goes wrong; the exception is noted with its hazard, and under `findings` where
a document denies it.

`shared_stores`, `workflow`, `durable_state` and `outbound` put models side by side that share no state: each
behaviour exercises one of them, chosen at the start (`part`), and the others stay as they
began.

Why the bounds are enough for what they are meant to show. The gates look at one call at a
time and carry only `spent`, `step` and the conversation from call to call: two calls per
response and three steps give every order of two gates' outcomes, with the budget
exhausted before, between and after. A chain forks with two writers and one insert each;
four rows let either fork be extended, rolled back, and seen by a third party. A task
needs two workers to be run twice, and one retry to have two messages of different age;
with two faults one of them may be duplicated and another lost. One place in the store
makes every insertion an eviction. Seven ticks hold a whole window and most of the next.
Three nodes suffice for a cycle of any kind (self, two, three), a join and a branch. The
bound of `HammeringBounded` is reached in its run with all three callers. Four handoffs
let a walk of two agents come back twice if the check let it. Three requests are two that
overlap and one that finds what they left (revokes a key in use, inserts a third version,
subscribes). In Studio they are, say, a token, an update and the webhook that overtakes
it. Two memories of one agent and one of another are what scope "org" can mix up; three
changes are a key set, flushed and deleted while another memory writes it. Three starts
let two jobs overlap and a third come after both. Five requests are the two of `connect`
and three calls, so a lag has two calls to be passed on to. `HasCycle` is compared with
reachability on every list of up to three edges (an ASSUME of `MCOrchestrator`). The
constants whose comment begins with "bound:" are the only artificial guards (`MaxRows`,
`MaxFaults`, `MaxNow`, `MaxClock`, `MaxRestarts`, `MaxRequests`, `MaxChanges`, `MaxStep`, `MaxList`,
`MaxTasks`, `MaxStarts`, `MaxSpawns`, `MaxNoise`, `Served`, `Asked`). `Horizon`, `Rest`,
`Returned`, `Ended`, `Quiet` and `Finished` stutter where the system is really at rest,
and a database session can always commit: deadlock is checked in every run but
`durable_state` and `outbound`, where all bounds may be used up with nothing left to do.

Fairness. `GovernedTask!FairSpec` and `GovernedStream` assume `WF(Proceed)`: the
coroutine is scheduled, and completions, callbacks and tools answer or raise (the
HTTP clients have timeouts; a callback that never answers would hold the task).
`TaskQueue!FairSpec` assumes that a started request and a worker go on; not that
anyone submits a task, nor that faults happen. `Orchestrator` assumes that the event
loop runs what is ready, that back-offs end, that time passes, and that a provider
answers or times out (`litellm` has a request timeout); not that it ever answers well.
`ControlPlane` assumes that the database goes on with every request that is not
waiting for a lock. `Workflow` assumes that the
event loop runs the background task on. Ticks, faults, disconnects and restarts are
never fair. A temporal property refuted is refuted under these assumptions.

## What is proved

For all values of the constants (under the `ASSUME`s the base modules name:
limits and costs are natural numbers, responses are sequences of names, every
session has a tenant, a definition is two finite sequences of nodes and edges,
the server processes of a fleet are finitely many and at least one):

- `GovernedTaskProofs!Invariance`. The inductive invariant adds to `TypeOK` what
  each `pc` between the gates already knows about the current call: past Gate 2 its
  scopes are granted; past Gate 3 its effect is not deny and an escalation has its approval; past Gate 4
  it fits the budget, which no step before execution changes; past Gate 5 it has all approvals it
  needs. `RunsAuthorised` alone is not inductive, for nothing in it says what
  a call about to run has behind it. `TypeCorrect` and `AlwaysAuthorised` follow.
- `GovernedTaskProofs!Implementation`: `Spec => G!Spec`. Every action maps to an
  action of `Governance` or to a stutter, by one lemma per action. The constants of
  `Governance` are those of the model; the mapping hides steps, messages and audit.
- `GovernedTaskProofs!CallsAlwaysAnswered`: what is known of `replies` at each `pc` (`Answering`):
  inside the loop over a response's calls they are the answers to the calls before `at`, and
  each way out of a gate appends exactly one.
- `GovernedTaskProofs!SpendAlwaysWithinLimit`: the recorded cost of what ran (`SpendOf`, a fold)
  never exceeds `spent`, which only Gate 4 and the completions raise, and Gate 4 keeps it within the
  limit for a tool although completions may have gone past it.
- `GovernedTaskProofs!TrailAlwaysTellsOutcome`: what the trail tells (`ToldBy`, a fold of the log)
  is what ran, but for the one tool whose entry is still to be written; closing entries are the
  last ones and only at a `pc` past the loop.
- `OperatorLemmas`: `Evaluate` is the first deciding rule's effect and deny exactly
  when none decides; a cost is allowed exactly if it fits limit and approval threshold, escalated
  exactly if it fits the limit and exceeds the threshold, and a smaller sum spent never forbids it.
- `RecordProofs!AlwaysKept`: `PredecessorsKept` for any sharing of tenants. The
  invariant speaks of the rows nobody sees yet: an entry's predecessor is
  committed, or pending in the same transaction (`Linked`), and a hash that was read
  is of a row its reader still sees (`Aware`).
- `RecordProofs!AlwaysIntactUnlessOverlapped`: `verify_chain` accepts the trail of every tenant
  that is not in `overlapped`, for whoever runs it. Of such a tenant at most one session is open
  (`Alone`), its pending rows come after all committed ones (`CommittedFirst`), and the hash it holds
  is the newest of what it sees (`Fresh`).
- `RecordProofs!BrokenAlwaysStays`: from `AlwaysKept`'s invariant, without any assumption on the
  sessions. If a committed row is not chained to the committed row before it, its
  predecessor is an older one, or none; rows that are committed later can only push them further apart.
- `RecordProofs!StreamImplements`: for agents without tools that ask for approval (the hypothesis
  `Plain`, since the stream has no such gate), `Spec => SameGovernance`. The inductive invariant
  (`Judged`) is that of the task with four gates; every action maps to one of `Governance` or to a
  stutter, and a client that leaves is its `Drop`.
- `RecordProofs!StreamAlwaysTellsRuns`: while the client stays, the `tool_result` events name
  what ran and the `tool_call` events that and at most the one tool at `exec`, and no closing
  event has been sent before the loop is over (`Telling`).
- `RequestProofs!AlwaysOneRunAtATime` and `NoOutcomeUndone`. Three facts make the
  invariant: a row is absent until its request has answered (`RowHidden`), a worker past its
  SELECT has a row (`FoundIsThere`), and the row lock has one holder (`LockExcludes`). A
  request that runs the task itself has not answered, so no worker is past its SELECT.
- `RequestProofs!DuplicatesAlwaysExplained` and `AnswersAlwaysAgree`. For a key nothing has been
  blamed for (`KeyInv`): at most one attempt is past the store and none while a response is
  stored, an execution is remembered by the store or by that attempt, and every
  2xx tells of the first one. `Fresh` says the server knows nothing of an attempt not yet sent.
- `RequestProofs!MemoryWindowAlwaysExact` and `RetryAfterAlwaysSuffices`. The in-process list is
  ascending and tells as many requests later than any instant of the window as were admitted then
  (`Told`), at most the limit in every window (`Exact`). A refusal is justified by
  a list that is still full while the clock stands (`Justified`), so its `Retry-After` is not in vain.
- `RequestProofs!FleetAlwaysBounded`. Of every window (`WindowBounded`), either the sorted set still
  holds whatever was admitted over Redis in it, and that is within the limit, or a later check has
  trimmed it (`Trimmed`); from then on only a process that read the clock before can
  still admit into it, and each only once. Both count by the instants, which are each one process's own
  (`OwnInstants`). The processes on their memory are bounded one by one by `Exact`, and
  together by giving each of their requests a pair of process and rank.
- `StudioProofs!RunsAlwaysFollowUpdates` and `UpdatesAlwaysKept`. The
  invariant says that whatever names a workflow names one whose creator is done, and keeps
  its tenant (`TokensAtHome`, `TargetsMade`), and that what a request is about to act on
  is among the rows it has seen and was let through (`ReadLetThrough`).
- `StudioProofs!SortAlwaysSound`: Kahn's algorithm is right for every definition. The loop
  invariant (`Halfway`) says that what is sorted and queued is, each once, what has no
  incoming edge from elsewhere; the loop ends because a turn sorts one name more and there are
  only so many; and if names are left over, each has a predecessor among them, which makes a
  cycle. That the recursive function of the model exists at all is proved too (`LoopExists`), as the
  least relation closed under the loop's turn.
- `StudioProofs!StepsAlwaysTellOutcome`, `BranchesAlwaysFollowed`, `PredecessorsAlwaysFirst`: from
  that order. A node that was visited stands where its predecessors' handles are final
  (`Walked`), so what gated it then is what `BranchesFollowed` says at the end.
- `OutboundProofs!AnswersAlwaysLagByTimeouts`. As long as nothing is out of
  order, pipe and inbox together are consecutive ids, beginning with the one that lags
  behind the last request by the number of abandoned calls (`InOrder`), and that stays so
whoever takes the first line (`HeadTaken`).
- `OutboundProofs!OutcomesAlwaysTellReceipts` and `LateAlwaysByTimeout`. Every attempt of a
  delivery is in flight, has arrived or was lost, one that was answered has arrived, and
  all attempts before the present one ended in a way that calls for another (`Spent`).
- `OutboundProofs!HammeringAlwaysBounded`. `HammeringBounded` is not inductive: what an open
  circuit may still let through has to be counted too. The pairs of a task now at the model and
  an attempt it has left (`LeftAt`), together with what was let through, fit the budget
  (`Spared`). A failure that opens the circuit takes its own task on to another candidate, so only
  the others have attempts left; an attempt moves one pair to the count; and nothing else
  adds a pair, since the search for a candidate passes over open circuits.
- `OutboundProofs!ChainAlwaysWalk` and `NoRunEverLeftBehind`. In graph mode the report has one
  entry less than the chain while the last run is on, and only that run is active (`InGraph`).
- `DurableStateProofs!TableAlwaysWithoutGaps`. The open transaction of the one running
  process continues the table, and the process stands at its end (`Continues`).
- `DurableStateProofs!ChangesAlwaysReachTable`. The hard part is the flush between its queries: what
  it has deleted or written so far is what its memory held at the time, and a change made since is
  marked again.
- `DurableStateProofs!NeverTellsOfMoreThanRan` and `RecordsOnlyGrowUnlessCrossed`. What Stripe was
  told of a tenant is the count of its billed record unless the tenant is suspect; a job that was
  crossed by no other still holds what it read.
- `ControlPlaneProofs!ControlPlaneStructure`, from which come `TenantsAlwaysIsolated` (a
  request's row is read with its own tenant's filter and a row never changes tenant),
  `VersionsAlwaysExplained` and `CustomersAlwaysExplained` (what a request read and nobody changed since is
  still so when it writes).

Sums, folds and sorted lists are reasoned about without induction over data: a property of
all positions of a list is a set of numbers, and the least number outside it (`LeastExists`,
`NaturalsInSet` in `OperatorLemmas`) gives the contradiction.

Only model-checked: everything temporal (liveness under fairness is beyond the prover),
`HasCycle` (RECURSIVE, and its meaning an induction over the graph),
and the assumptions of `ConfigurationChecks`, `MCWorkflow`, `MCDurableState` and `MCOrchestrator`,
which hold for the small sets they quantify over.

## What the models showed about the code

The violation runs, and what was met besides, are described under `findings`. Some of it is a
behaviour that passing runs contain and their properties name as an exception: `spent`
passes the limit at a completion; `early` in `TaskQueue` is the set of tasks picked up before
their row was committed; a retry that overtakes its first attempt is executed too (one of the
causes of `DuplicatesExplained`); a stream that breaks between two chunks is asked for again
(`Transient`); agents of a cyclic graph run (`ChainIsWalk`); a call after a timeout takes its
predecessor's response (`AnswersLagByTimeouts`); a flush that did not commit is forgotten (`dropped`). Six
findings are the content of an assumption that TLC evaluates: `BudgetNotGated`,
`HighRiskRunsNothing`, `RedactedIsNotChecked`, `ConditionsDecide`, `SessionShowsOldest`,
`DraftsReadText`. Other observations made while modelling, none of which a property contradicts:

- Agents built by the API, the worker, the stream and Studio have no tools and no
  approval callback; the gates matter where the SDK embeds the runtime.
- `runtime.py:13` counts the budget's "escalate" among the decisions put to a
  human; Gate 4 refuses on anything but "allow" and asks nobody.
- `runtime.py:18` says every step is logged; a call of an unregistered tool, and a
  task that runs out of steps at `while`, leave no entry.
- `docs/backup-dr.md:108` says submission fails without Redis; the code runs the
  task inline. A worker never looks at the status it loads, so a redelivered
  message reruns a finished task.
- `docs/api-reference.md:321` lists DELETE among the methods with idempotency; the
  middleware handles POST, PUT and PATCH.
- `rate_limit.py:4` speaks of limits per tenant and plan; the key is the API key's
  prefix, the limit one default, `rate_limit_burst` unused.
- `orchestrator.py:7` says each transition is checked by policy; there is no such check
  beyond the governance of each agent's own run.
- An edge to an agent that was never registered raises `KeyError` in the middle of an
  orchestration and loses the results so far. `add_edge` accepts it.
- `run_parallel` raises with the first exception and leaves the other runs going.
- `subscribe` called twice creates a second subscription and forgets the first.
- `last_used_at` reaches the table only with handlers that commit; reads lose it.
- Overlapping creations of one policy leave two active rows of one version.
- A Studio agent node completes even if its task was denied or failed
  (`studio/nodes/agent.py:47`), and its agent has no tenant, session or tools.
- A flush in scope "org" writes a row per agent, and which of them a load returns depends on
  the order the rows come in.
- An agent built high-risk escalates the flags of the `Policy` instance it was given, and so
  of every agent that shares it (`SharingOnlyRaises`).
- Of several tools with one name the model is offered all and the last one runs.
- `require_human_oversight` and `max_tool_calls_per_minute` are read by no gate.
- Deleting a workflow leaves its tokens; they answer 409.

## Not modelled, and why

Texts (messages, reasons, prompts, templates), float rounding, cost estimation per model
name, HTTP details and header wording carry no control. Several server processes each with
an idempotency store of its own add nothing but a forgotten key, which `Restart` shows.
The database is read committed as PostgreSQL gives it; SQLite's single writer is a special
case (the default of `config.py`; the compose files use PostgreSQL). A hash collision is
excluded. Of the other connectors (`http`, `database`, `email`, `storage`) each operation
is one call of a client library. The CLI, telemetry, health and error handlers format and
log. The SDK's resources are typed wrappers around the transport that `Idempotency`
models. What a Studio node is answered by an HTTP server, a model or an agent is a choice
in `Workflow`. The patterns of the guardrails, the terms the copilot looks for and the
HMAC of a webhook are texts.

## Plan

Every safety property the runs state is now a theorem. What is left to the runs is liveness
and the assumptions over small sets.

The set of runs is kept at one per question.
