------------------------- MODULE ConfigurationChecks -------------------------
(***************************************************************************)
(* Bounded checks of the functions an agent is configured and reported on  *)
(* with: every assumption below is evaluated over all inputs of small      *)
(* sets, the shipped policies (policies/*.yaml) among them.                *)
(***************************************************************************)
EXTENDS Integers, Sequences, FiniteSets, AgentSetup, Compliance, Guardrails, StudioNodes, TLC

Allow(pattern) == [action |-> pattern, effect |-> "allow"]
Escalate(pattern) == [action |-> pattern, effect |-> "escalate"]

\* policies/default.yaml, high_risk.yaml and eu_ai_act.yaml.
DefaultFile ==
  [name |-> "default", risk_level |-> "limited", rules |-> <<Allow(<<"*">>)>>,
   limits |-> [max_cost_per_task_usd |-> 500, max_steps_per_task |-> 50],
   governance |-> [require_human_oversight |-> FALSE, log_inputs |-> TRUE]]
HighRiskFile ==
  [name |-> "high_risk", risk_level |-> "high", frameworks |-> <<"eu-ai-act", "nist-ai-rmf">>,
   rules |-> <<Allow(<<"*", "read">>), Allow(<<"*", "list">>), Escalate(<<"*", "write">>),
               Escalate(<<"*", "create">>), Escalate(<<"*", "update">>),
               [action |-> <<"*", "delete">>, effect |-> "deny"], Escalate(<<"*">>)>>,
   limits |-> [max_cost_per_task_usd |-> 200, max_steps_per_task |-> 25],
   governance |-> [require_human_oversight |-> TRUE, require_impact_assessment |-> TRUE]]
EUFile ==
  [name |-> "eu_ai_act", frameworks |-> <<"eu-ai-act">>,
   rules |-> <<[action |-> <<"biometric", "identify">>, effect |-> "deny"],
               [action |-> <<"social", "score">>, effect |-> "deny"],
               Allow(<<"*", "read">>), Allow(<<"*", "write">>), Allow(<<"*">>)>>]
\* A file that says next to nothing, and one that switches everything off.
BareFile == [rules |-> <<[action |-> <<"db", "*">>]>>]
OpenFile == [rules |-> <<Allow(<<"*">>)>>,
             governance |-> [require_transparency_disclosure |-> FALSE, log_inputs |-> FALSE,
                             log_outputs |-> FALSE]]

Shipped == << "default", "yaml" >> :> DefaultFile @@ << "high_risk", "yaml" >> :> HighRiskFile
             @@ << "eu_ai_act", "yaml" >> :> EUFile
PolicyFiles == Shipped @@ << "bare", "yml" >> :> BareFile @@ << "open", "yaml" >> :> OpenFile
                 @@ << "open", "yml" >> :> BareFile
PolicyNames == {"default", "high_risk", "eu_ai_act", "bare", "open", "nowhere"}
Loaded == {LoadPolicy(PolicyFiles, n) : n \in PolicyNames}
Risks == {"minimal", "limited", "high", "severe"}
AnyClock == [time |-> 0, day |-> "monday"]

Lookups == DecorateTool([name |-> <<"find">>, parameters |->
             {[name |-> "id", annotation |-> "int", hasDefault |-> FALSE],
              [name |-> "q", annotation |-> "Any", hasDefault |-> TRUE]}],
             [scopes |-> {<<"db", "read">>}])
Transfers == DecorateTool([name |-> <<"pay">>, parameters |-> {}],
               [scopes |-> {<<"bank", "pay">>, <<"db", "read">>}, requires_approval |-> TRUE,
                cost_estimate_usd |-> 3])
Impostor == DecorateTool([name |-> <<"pay_fast">>, parameters |-> {}],
              [name |-> <<"pay">>, scopes |-> {}])
Plain == [function |-> <<"plain">>]
Served == McpCallable([name |-> "fs", scopes |-> {<<"fs", "*">>}, requiresApproval |-> TRUE],
            [name |-> "cat", required |-> {"path"},
             properties |-> [path |-> [type |-> "string"], line |-> [min |-> 0]]])
ToolLists == UNION {[1..n -> {Lookups, Transfers, Impostor, Plain, Served}] : n \in 0..3}

\* An agent that was given no scopes may call each of its tools as far as
\* scopes go; one that was given some holds just these.
ASSUME ScopesDerived ==
  \A tools \in ToolLists :
    LET derived == NewAgent([tools |-> tools], RestrictiveDefault, 500)
        given == NewAgent([tools |-> tools, scopes |-> {}], RestrictiveDefault, 500)
    IN /\ \A i \in DOMAIN derived.specs :
            CheckPermissions(derived.scopes, derived.specs[i].scopes)
       /\ given.scopes = {} /\ given.specs = derived.specs

\* The model is offered exactly the tools the runtime knows, except that of
\* several with one name all are offered and the last one runs: with its
\* scopes and its approval, whatever the first one asked for.
ASSUME ToolsOffered ==
  \A tools \in ToolLists :
    LET map == ToolMap(ToolSpecs(tools))
        schemas == OpenAISchemas(tools)
    IN /\ {schemas[i].name : i \in DOMAIN schemas} = DOMAIN map
       /\ \A i \in DOMAIN schemas :
            schemas[i].required \subseteq {p.name : p \in schemas[i].properties}
       /\ Len(schemas) > Cardinality(DOMAIN map) =>
            \E i \in DOMAIN tools : tools[i] = Impostor \/ Cardinality({j \in DOMAIN tools :
                                                             tools[j] = tools[i]}) > 1

\* The first file found counts, and what it leaves out is filled in.
ASSUME FilesLoaded ==
  /\ LoadPolicy(PolicyFiles, "open").governance.logInputs = FALSE
  /\ LoadPolicy(PolicyFiles, "bare").rules[1].effect = "deny"
  /\ LoadPolicy(PolicyFiles, "bare").limits = [cost |-> 500, steps |-> 50, callsPerMinute |-> 120]
  /\ LoadPolicy(PolicyFiles, "nowhere") = RestrictiveDefault

\* An agent under the shipped high-risk policy, or under the restrictive
\* default, runs no task at all: "task:execute" is escalated or denied, and
\* nobody is asked to approve it.
ASSUME HighRiskRunsNothing ==
  \A n \in PolicyNames, risk \in Risks :
    RunsTasks(NewAgent([risk_level |-> risk], LoadPolicy(PolicyFiles, n), 500), AnyClock)
      <=> n \in {"default", "eu_ai_act", "open"}

\* The budget an agent is given is not what its cost gate checks.
ASSUME BudgetNotGated ==
  \A p \in Loaded : \A budget \in {1, 100} :
    Gated(NewAgent([max_cost_per_task |-> budget], p, 500), 100, TRUE)
      = Gated(NewAgent(<<>>, p, 500), 100, TRUE)

\* Building a high-risk agent governs every agent that shares its policy, in
\* whatever order they are built, and no construction takes that away.
ASSUME SharingOnlyRaises ==
  \A p \in Loaded : \A risks \in UNION {[1..n -> Risks] : n \in 0..3} :
    LET shared == SharedPolicy(p, risks)
    IN shared = IF "high" \in ToSet(risks) THEN Escalated(p, "high") ELSE p

Reports(named, killSwitch) ==
  {CheckCompliance(NewAgent([risk_level |-> risk], p, 500), named, killSwitch)
     : risk \in Risks, p \in Loaded}
Named == {<<>>, <<"eu-ai-act">>, <<"gdpr">>, <<"nist-ai-rmf", "gdpr", "eu-ai-act">>}

\* A score lies between 0 and 1, and is 1 only when every item that applies
\* passed; naming no framework reports on both, naming an unknown one on none.
ASSUME ScoresBounded ==
  \A named \in Named, killSwitch \in BOOLEAN : \A items \in Reports(named, killSwitch) :
    /\ 0 <= ScorePoints(items) /\ ScorePoints(items) <= ScoreOutOf(items)
    /\ ScorePoints(items) = ScoreOutOf(items) <=>
         Count(items, "fail") + Count(items, "warning") = 0
    /\ named = <<"gdpr">> <=> items = <<>>

\* No agent that was built high-risk fails a check on account of its policy:
\* what its report finds missing is the disclosure a file switched off and
\* the deployment's kill switch.
ASSUME HighRiskPasses ==
  \A p \in Loaded, killSwitch \in BOOLEAN :
    LET items == CheckCompliance(NewAgent([risk_level |-> "high"], p, 500), <<>>, killSwitch)
    IN \A i \in DOMAIN items : items[i].status = "fail" =>
         \/ items[i].requirement = "EU-AIA-ART52" /\ ~p.governance.transparency
         \/ items[i].requirement \in {"EU-AIA-ART20", "NIST-MAN-1"} /\ ~killSwitch

JsonValues ==
  {[type |-> t] : t \in {"invalid", "array", "number"}}
    \cup {[type |-> "object", keys |-> ks] : ks \in SUBSET {"a", "b"}}
Texts == [length : {1, 9}, prohibited : BOOLEAN, pii : {{}, {"ssn"}, {"email", "ssn"}},
          json : JsonValues]
Schemas == {<<>>, [type |-> "array"], [type |-> "object", required |-> {"a"}], [required |-> {"b"}]}
Engines == [piiAction : {"block", "redact", "warn"}, maxLength : {5}]
             \cup [piiAction : {"block", "redact", "warn"}, maxLength : {5}, schema : Schemas]

Conforms(json, schema) ==
  /\ json.type # "invalid"
  /\ "type" \in DOMAIN schema => json.type = schema.type
  /\ json.type = "object" /\ "required" \in DOMAIN schema => schema.required \subseteq json.keys

\* What the guardrails let through unchanged is short, clean and, when there
\* is a schema, conforms to it; personal data only pass in warn mode.
ASSUME PassedIsChecked ==
  \A text \in Texts, engine \in Engines :
    LET result == CheckOutput(text, engine)
    IN /\ result.passed => text.length <= engine.maxLength /\ ~text.prohibited
       /\ result.passed /\ result.action = "warn" =>
            /\ text.pii # {} => engine.piiAction = "warn"
            /\ "schema" \in DOMAIN engine => Conforms(text.json, engine.schema)
       /\ result.passed /\ result.action = "redact" => \A t \in Redactions(text) : t.pii = {}

\* A text that is redacted is delivered without being validated at all.
ASSUME RedactedIsNotChecked ==
  \A text \in Texts, engine \in Engines :
    text.pii # {} /\ engine.piiAction = "redact" /\ text.length = 1 /\ ~text.prohibited
      => CheckOutput(text, engine).passed

Operands == [order : 0..2, numbers : {{}, {0}, {1}}, nan : {FALSE}]
              \cup [order : 0..2, numbers : {{}}, nan : {TRUE}]

\* A condition takes the true or the false handle unless its operator is
\* unknown or only its left operand is a number; two numbers are ordered as
\* numbers, anything else by its text.
ASSUME ConditionsDecide ==
  \A l \in Operands, r \in Operands, op \in Orderings \cup {"==", "contains", "=~"} :
    LET handle == ConditionHandle(op, l, r, TRUE)
    IN /\ handle = "raises" <=>
            op = "=~" \/ (op \in Orderings /\ Numeric(l) /\ ~Numeric(r))
       /\ op = "<" /\ l.numbers # {} /\ r.numbers # {} =>
            (handle = "true" <=> Value(l) < Value(r))
       /\ op = "<" /\ ~Numeric(l) => (handle = "true" <=> l.order < r.order)

Contexts == {[tree |-> [n |-> [tree |-> [out |-> [text |-> "x"]]], none |-> Empty]]}

\* A template names a text of the context or reads as empty; a path that goes
\* on behind a text does too.
ASSUME TemplatesResolve ==
  \A c \in Contexts :
    /\ Resolve(c, <<"n", "out">>) = [text |-> "x"]
    /\ \A path \in {<<"n", "out", "x">>, <<"none", "out">>, <<"m">>, <<"n", "m">>} :
         Resolve(c, path) = Empty
=============================================================================
