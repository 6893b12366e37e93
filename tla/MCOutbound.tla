----------------------------- MODULE MCOutbound -----------------------------
(***************************************************************************)
(* Small instances of two connectors that wait for somebody outside, the   *)
(* MCP transport and the webhook delivery.  They share no state, so each   *)
(* behaviour exercises one of them and the other stays as it began.        *)
(***************************************************************************)
EXTENDS McpTransport, WebhookDelivery, TLC

VARIABLE part

Symmetry == Permutations(Callers) \cup Permutations(Events)

Init == part \in {"mcp", "webhook"} /\ McpInit /\ WebhookInit

Next ==
  /\ UNCHANGED part
  /\ \/ part = "mcp" /\ McpNext /\ UNCHANGED wvars
     \/ part = "webhook" /\ WebhookNext /\ UNCHANGED pvars

Spec == Init /\ [][Next]_<<part, pvars, wvars>>
=============================================================================
