----------------------------- MODULE Guardrails -----------------------------
(***************************************************************************)
(* The output guardrails (core/guardrails.py).  A text is what its filters *)
(* tell apart: [length, prohibited, pii, json], pii being the set of kinds *)
(* the patterns find and json "invalid", or what it parses to: [type] with *)
(* the keys an object has.  A schema may have a type and required keys.    *)
(***************************************************************************)
EXTENDS Integers

PiiKinds == {"email", "ssn", "phone_us", "credit_card", "ip_address"}

Passes == [passed |-> TRUE, action |-> "warn", reason |-> "none"]
Blocks(reason) == [passed |-> FALSE, action |-> "block", reason |-> reason]

\* ContentPolicy.check.
CheckContent(text, maxLength) ==
  IF text.length > maxLength THEN Blocks("length")
  ELSE IF text.prohibited THEN Blocks("prohibited") ELSE Passes

\* validate_json_output.  Required keys are asked of an object whatever type
\* the schema names; other types than object and array are not looked at.
ValidateJson(text, schema) ==
  LET expects(t) == "type" \in DOMAIN schema /\ schema.type = t
      is(t) == text.json.type = t
  IN CASE text.json.type = "invalid" -> Blocks("invalid JSON")
       [] ~is("invalid") /\ expects("object") /\ ~is("object") -> Blocks("not an object")
       [] ~is("invalid") /\ expects("array") /\ ~is("array") -> Blocks("not an array")
       [] is("object") /\ ~expects("array") /\ "required" \in DOMAIN schema
            /\ ~(schema.required \subseteq text.json.keys) -> Blocks("missing keys")
       [] OTHER -> Passes

\* redact_pii: a marker in place of every match; what was JSON may be none
\* afterwards, a number having been replaced.
Redactions(text) ==
  {[text EXCEPT !.pii = {}, !.json = j] : j \in {text.json, [type |-> "invalid"]}}

\* GuardrailEngine.check, in its order: a text that is redacted is returned
\* before it is validated.
CheckOutput(text, engine) ==
  LET content == CheckContent(text, engine.maxLength)
  IN IF ~content.passed THEN content
     ELSE IF text.pii # {} /\ engine.piiAction = "block" THEN Blocks("pii")
     ELSE IF text.pii # {} /\ engine.piiAction = "redact"
          THEN [passed |-> TRUE, action |-> "redact", reason |-> "pii"]
     ELSE IF "schema" \in DOMAIN engine THEN ValidateJson(text, engine.schema) ELSE Passes
=============================================================================
