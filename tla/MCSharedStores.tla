--------------------------- MODULE MCSharedStores ---------------------------
(***************************************************************************)
(* Small instances of what requests that run at once share: the audit      *)
(* table (two sessions of one tenant beside the only one of another), the  *)
(* idempotency middleware's store (two calls with a key each compete for   *)
(* its one place), and the rate limiter's window.  The three share no      *)
(* state, so each behaviour exercises one and the others stay as they      *)
(* began.                                                                  *)
(***************************************************************************)
EXTENDS AuditChain, Idempotency, RateLimiter, TLC

CONSTANTS s1, s2, s3, t1, t2, c1, c2, k1, k2

Sharing == (s1 :> t1) @@ (s2 :> t1) @@ (s3 :> t2)
OwnKeys == (c1 :> k1) @@ (c2 :> k2)
Symmetry == Permutations(Procs)

VARIABLE part

Init ==
  /\ part \in {"audit", "calls", "limiter"}
  /\ ChainInit /\ CallsInit /\ LimiterInit
  /\ part # "limiter" => fallback = {}

AuditNext == part = "audit" /\ ChainNext /\ UNCHANGED <<part, callVars, limiterVars>>
StoreNext == part = "calls" /\ CallsNext /\ UNCHANGED <<part, chainVars, limiterVars>>
WindowNext == part = "limiter" /\ LimiterNext /\ UNCHANGED <<part, chainVars, callVars>>

Spec == Init /\ [][AuditNext \/ StoreNext \/ WindowNext]_<<part, chainVars, callVars, limiterVars>>
=============================================================================
