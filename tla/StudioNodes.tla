---------------------------- MODULE StudioNodes -----------------------------
(***************************************************************************)
(* Decisions of Studio nodes that need nothing from outside: templates     *)
(* (studio/nodes/base.py), the condition node's handle                     *)
(* (studio/nodes/condition.py) and the delay.                              *)
(***************************************************************************)
EXTENDS Integers, Sequences, SequencesExt

-----------------------------------------------------------------------------
(* BaseNode._resolve_str, of one {{a.b.c}}: a value is [tree] when it is a *)
(* dictionary and [text] otherwise; None reads as the empty text.          *)

Empty == [text |-> ""]
Descend(val, part) ==
  IF "tree" \notin DOMAIN val THEN Empty
  ELSE IF part \in DOMAIN val.tree THEN val.tree[part] ELSE Empty

Resolve(context, path) == FoldLeft(Descend, context, path)

-----------------------------------------------------------------------------
(* ConditionNode.  An operand is a text [order, numbers, nan]: its place   *)
(* among the texts, and what float() makes of it: one number, NaN, or none *)
(* when it raises.                                                         *)

Orderings == {">", ">=", "<", "<="}
TextTests == {"contains", "startswith", "endswith"}

Compare(op, a, b) ==
  CASE op = "==" -> a = b [] op = "!=" -> a # b
    [] op = ">" -> a > b [] op = ">=" -> a >= b [] op = "<" -> a < b [] op = "<=" -> a <= b

Numeric(x) == x.nan \/ x.numbers # {}
Value(x) == CHOOSE n \in x.numbers : TRUE

\* The handle, or "raises".  The left operand stays a number when the right
\* one turns out not to be, and a number is not ordered with a text.  NaN
\* compares false.  `holds` is the outcome of a test for a part of the text.
ConditionHandle(op, left, right, holds) ==
  LET handle(b) == IF b THEN "true" ELSE "false"
  IN CASE op \in {"==", "!="} -> handle(Compare(op, left.order, right.order))
       [] op \in TextTests -> handle(holds)
       [] op \in Orderings /\ ~Numeric(left) -> handle(Compare(op, left.order, right.order))
       [] op \in Orderings /\ Numeric(left) /\ ~Numeric(right) -> "raises"
       [] op \in Orderings /\ Numeric(left) /\ Numeric(right) ->
            handle(~left.nan /\ ~right.nan /\ Compare(op, Value(left), Value(right)))
       [] OTHER -> "raises"

(* The fields of the output that a node's result carries.                   *)
AgentFields == {"output", "status", "steps", "cost_usd"}
PromptFields == {"output", "model"}
HttpFields == {"status_code", "ok", "data", "headers"}
ConditionFields == {"result", "left", "op", "right"}
DelayFields == {"delayed_seconds"}

\* Of the node registered for a type.
OutputFields(type) ==
  CASE type = "agent" -> AgentFields
    [] type = "llm_prompt" -> PromptFields
    [] type = "http" -> HttpFields
    [] type = "condition" -> ConditionFields
    [] type = "delay" -> DelayFields

\* DelayNode: at most _MAX_DELAY_S seconds.
DelaySeconds(seconds, maxDelay) == IF seconds < maxDelay THEN seconds ELSE maxDelay
=============================================================================
