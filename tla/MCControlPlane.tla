----------------------------- MODULE MCControlPlane -----------------------------
(* A deployment with one tenant, its two keys, one of them an administrator's   *)
(* and with an expiry, and one agent; a second tenant yet to be bootstrapped,   *)
(* which takes the third key.  Two requests at a time.                          *)
EXTENDS ControlPlane, TLC

CONSTANTS R1, R2, Acme, New, K1, K2, K3, A1, A2

MCSlots == {R1, R2}
MCTenants == {Acme, New}
MCKeys == {K1, K2, K3}
MCAgents == {A1, A2}

Row(s, t) == [status |-> s, tenant |-> t]
Key(s, t, a) == [status |-> s, tenant |-> t, admin |-> a]
MCDeployments ==
  {[tenant |-> (Acme :> "active") @@ (New :> "absent"),
    key |-> (K1 :> Key("active", Acme, FALSE)) @@ (K2 :> Key("active", Acme, TRUE))
            @@ (K3 :> Key("absent", None, FALSE)),
    agent |-> (A1 :> Row("active", Acme)) @@ (A2 :> Row("absent", None))]}
MCExpiring == {K2}
MCAsked ==
  [what : {"bootstrap"}, on : {New}] \cup [what : {"update_tenant"}, on : {Acme}]
  \cup [what : {"update_agent", "deactivate_agent"}, on : {A1}]
  \cup [what : {"revoke_key"}, on : {K1, K2}]
  \cup [what : {"create_agent", "create_key", "create_policy", "customer", "subscribe", "list"},
         on : {None}]

=============================================================================
