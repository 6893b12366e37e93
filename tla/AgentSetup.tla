----------------------------- MODULE AgentSetup -----------------------------
(***************************************************************************)
(* How an agent comes to its configuration: policies loaded from files     *)
(* (core/policy.py), tools registered by the decorator or taken from an    *)
(* MCP server (core/tools.py, connectors/mcp.py), and the constructor that *)
(* puts them together (core/agent.py).  These are functions of their       *)
(* arguments; the one object they change is a Policy instance, which       *)
(* several agents may share.                                               *)
(*                                                                         *)
(* A mapping with optional keys, and keyword arguments with defaults, are  *)
(* functions over the keys that are there; a name is the sequence of its   *)
(* segments, a file the pair of stem and suffix; amounts are whole cents.  *)
(***************************************************************************)
EXTENDS Integers, Sequences, FiniteSets, Policy

Absent == "absent"      \* in place of None

\* data.get(key, default).
GetOr(data, key, default) == IF key \in DOMAIN data THEN data[key] ELSE default

-----------------------------------------------------------------------------
(* core/policy.py: the loader.                                             *)

ParsedRule(r) ==
  [action |-> GetOr(r, "action", <<Star>>), effect |-> GetOr(r, "effect", "deny"),
   conditions |-> GetOr(r, "conditions", {})]

Limits(data) ==
  [cost |-> GetOr(data, "max_cost_per_task_usd", 500),
   steps |-> GetOr(data, "max_steps_per_task", 50),
   callsPerMinute |-> GetOr(data, "max_tool_calls_per_minute", 120)]

GovernanceFlags(data) ==
  [transparency |-> GetOr(data, "require_transparency_disclosure", TRUE),
   oversight    |-> GetOr(data, "require_human_oversight", FALSE),
   logInputs    |-> GetOr(data, "log_inputs", TRUE),
   logOutputs   |-> GetOr(data, "log_outputs", TRUE),
   assessment   |-> GetOr(data, "require_impact_assessment", FALSE),
   residency    |-> GetOr(data, "data_residency", Absent)]

ParsePolicyFile(stem, data) ==
  LET rules == GetOr(data, "rules", <<>>)
  IN [name |-> GetOr(data, "name", stem),
      risk |-> GetOr(data, "risk_level", "limited"),
      rules |-> [i \in DOMAIN rules |-> ParsedRule(rules[i])],
      limits |-> Limits(GetOr(data, "limits", <<>>)),
      governance |-> GovernanceFlags(GetOr(data, "governance", <<>>)),
      frameworks |-> GetOr(data, "frameworks", <<>>)]

\* What a policy that is not found is replaced by.
RestrictiveDefault ==
  [name |-> "_restrictive_default", risk |-> "high",
   rules |-> << [action |-> <<Star, "read">>, effect |-> "allow", conditions |-> {}],
                [action |-> <<Star>>, effect |-> "deny", conditions |-> {}] >>,
   limits |-> [cost |-> 10, steps |-> 5, callsPerMinute |-> 120],
   governance |-> [transparency |-> TRUE, oversight |-> TRUE, logInputs |-> TRUE,
                   logOutputs |-> TRUE, assessment |-> TRUE, residency |-> Absent],
   frameworks |-> <<>>]

\* load_policy: <<name>>.yaml before <<name>>.yml; no file is no error.
LoadPolicy(files, name) ==
  CASE <<name, "yaml">> \in DOMAIN files -> ParsePolicyFile(name, files[<<name, "yaml">>])
    [] <<name, "yaml">> \notin DOMAIN files /\ <<name, "yml">> \in DOMAIN files ->
         ParsePolicyFile(name, files[<<name, "yml">>])
    [] OTHER -> RestrictiveDefault

-----------------------------------------------------------------------------
(* core/tools.py: a callable is [function, spec], or [function] when it    *)
(* carries no spec.  A parameter is [name, annotation, hasDefault].        *)

JsonType(annotation) ==
  CASE annotation = "int" -> "integer" [] annotation = "float" -> "number"
    [] annotation = "bool" -> "boolean" [] annotation = "list" -> "array"
    [] annotation = "dict" -> "object" [] OTHER -> "string"

\* The decorator `tool(...)`.  The spec keeps the bare function, not the
\* wrapper that is returned.
DecorateTool(function, options) ==
  [function |-> <<"wrapper", function.name>>,
   spec |-> [name |-> GetOr(options, "name", function.name),
             func |-> function.name,
             parameters |-> {[name |-> p.name, type |-> JsonType(p.annotation),
                              required |-> ~p.hasDefault] : p \in function.parameters},
             scopes |-> GetOr(options, "scopes", {}),
             approval |-> GetOr(options, "requires_approval", FALSE),
             cost |-> GetOr(options, "cost_estimate_usd", 0)]]

\* MCPToolAdapter._make_tool_callable: the server's scopes and its
\* requires_approval hold for each of its tools; none costs anything.
McpCallable(server, tool) ==
  [function |-> <<"invoke", server.name, tool.name>>,
   spec |-> [name |-> <<"mcp", server.name, tool.name>>,
             func |-> <<"invoke", server.name, tool.name>>,
             parameters |-> {[name |-> p, type |-> GetOr(tool.properties[p], "type", "string"),
                              required |-> p \in tool.required] : p \in DOMAIN tool.properties},
             scopes |-> server.scopes, approval |-> server.requiresApproval, cost |-> 0]]

Carries(t) == "spec" \in DOMAIN t
ToolSpecs(tools) ==
  LET carrying == SelectSeq(tools, Carries)
  IN [i \in DOMAIN carrying |-> carrying[i].spec]

\* tools_to_openai_schema, as [name, properties, required].
OpenAISchemas(tools) ==
  LET specs == ToolSpecs(tools)
  IN [i \in DOMAIN specs |->
        [name |-> specs[i].name,
         properties |-> {[name |-> p.name, type |-> p.type] : p \in specs[i].parameters},
         required |-> {p.name : p \in {q \in specs[i].parameters : q.required}}]]

\* tool_map and tool_func_map of the runtime: the last spec of a name.
ToolMap(specs) ==
  [n \in {specs[i].name : i \in DOMAIN specs} |->
     specs[CHOOSE i \in DOMAIN specs :
             specs[i].name = n /\ \A j \in DOMAIN specs : specs[j].name = n => j <= i]]

-----------------------------------------------------------------------------
(* core/agent.py.                                                          *)

\* An agent that is declared high-risk switches four flags of its policy on.
Escalated(policy, risk) ==
  IF risk # "high" THEN policy
  ELSE [policy EXCEPT !.governance.oversight = TRUE, !.governance.assessment = TRUE,
                      !.governance.logInputs = TRUE, !.governance.logOutputs = TRUE]

\* Explicit scopes replace those of the tools, also when there are none.
EffectiveScopes(args, specs) ==
  GetOr(args, "scopes", UNION {specs[i].scopes : i \in DOMAIN specs})

\* Agent(name, ...), `policy` being loaded already or the caller's instance;
\* the budget of the arguments counts unless it is None or zero.
NewAgent(args, policy, defaultCost) ==
  LET specs == ToolSpecs(GetOr(args, "tools", <<>>))
      risk == GetOr(args, "risk_level", "limited")
      budget == GetOr(args, "max_cost_per_task", 0)
  IN [risk |-> risk, budget |-> IF budget = 0 THEN defaultCost ELSE budget,
      specs |-> specs, scopes |-> EffectiveScopes(args, specs),
      policy |-> Escalated(policy, risk)]

\* Agents constructed one after the other around one Policy instance: what is
\* left of it when the last is there is what all of them have.
SharedPolicy(policy, risks) == FoldLeft(Escalated, policy, risks)

\* What the gates of the runtime see of an agent, with the deployment's
\* approval threshold and a callback or none: the limits are the policy's;
\* the agent's own budget is not among them.
Gated(agent, approvalAbove, approver) ==
  [specs |-> ToolMap(agent.specs), scopes |-> agent.scopes, rules |-> agent.policy.rules,
   approver |-> approver,
   limits |-> [cost |-> agent.policy.limits.cost, steps |-> agent.policy.limits.steps,
               approvalAbove |-> approvalAbove]]

\* Whether any task of the agent gets past the first check of execute_task.
RunsTasks(agent, clock) ==
  Evaluate(agent.policy.rules, <<"task", "execute">>, <<>>, clock) = "allow"
=============================================================================
