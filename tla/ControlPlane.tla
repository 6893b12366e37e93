----------------------------- MODULE ControlPlane -----------------------------
(* The REST control plane: API keys and tenants (auth.py, api/auth.py,      *)
(* api/deps.py, api/admin.py), agents (api/agents.py), policy versions      *)
(* (api/policies.py) and Stripe customers (api/billing.py, billing.py).     *)
(*                                                                          *)
(* A request is one database transaction, read committed: it authenticates, *)
(* reads, writes and commits, and other requests run between any two of     *)
(* these.  Authentication updates the key's row, whose lock the request     *)
(* then keeps to its end: requests of one key follow each other, those of a *)
(* tenant's other keys do not.  Every other row is updated in the last      *)
(* statement before the commit, so its lock is part of Write.               *)
EXTENDS Integers, Sequences, FiniteSets, FiniteSetsExt

CONSTANTS
  Slots,         \* requests served at a time
  Tenants, Keys, Agents,      \* the rows there may ever be
  None,
  Deployments,   \* initial tables: [tenant, key, agent]
  Expiring,      \* keys with an expires_at
  Asked,         \* bound: operations that are asked for
  MaxRequests,   \* bound: requests ever served
  MaxFaults      \* bound: transactions that fail

VARIABLES
  tenant,      \* tenant[t]: absent, active, inactive
  key,         \* key[k]: status, tenant, admin
  agent,       \* agent[a]: status, tenant
  policies,    \* rows of one policy name, by id: tenant, version, active
  billing,     \* billing[t]: the row's Stripe customer and subscription (0: none)
  stripe,      \* stripe[t]: customers at Stripe; the customer of each subscription
  req,         \* req[r]: where a request stands
  expired,     \* keys whose expires_at has passed
  crossed,     \* history: what was done from a read another commit made stale
  served, faults

tables == <<tenant, key, agent, policies, billing, stripe>>
bounds == <<served, faults>>
vars == <<tenant, key, agent, policies, billing, stripe, req, expired, crossed, served, faults>>

Operations ==
  [what : {"bootstrap", "update_tenant"}, on : Tenants]
  \cup [what : {"update_agent", "deactivate_agent"}, on : Agents]
  \cup [what : {"revoke_key"}, on : Keys]
  \cup [what : {"create_agent", "create_key", "create_policy", "customer", "subscribe", "list"},
         on : {None}]

\* Requests ask for operations of the API, and None is neither a tenant nor a key.
ASSUME AskedAssumption == Asked \subseteq Operations
ASSUME NoneAssumption == None \notin Tenants \cup Keys

\* A table's rows; a row that there is belongs to a tenant (tenant_id is NOT NULL).
TenantRows == [Tenants -> {"absent", "active", "inactive"}]
KeyRows == [Keys -> [status : {"absent", "active", "revoked"}, admin : BOOLEAN,
                     tenant : Tenants \cup {None}]]
AgentRows == [Agents -> [status : {"absent", "active", "inactive"}, tenant : Tenants \cup {None}]]
Unowned(row) == row.status = "absent" <=> row.tenant = None

\* The database the program starts on was written by the program.
ASSUME DeploymentsAssumption ==
  \A d \in Deployments :
    /\ d.tenant \in TenantRows /\ d.key \in KeyRows /\ d.agent \in AgentRows
    /\ (\A k \in Keys : Unowned(d.key[k])) /\ (\A a \in Agents : Unowned(d.agent[a]))

Idle == [pc |-> "idle"]
At(r, pc) == req[r].pc = pc
Does(r, what) == req[r].op.what = what
On(r) == req[r].op.on
TenantOf(r) == key[req[r].key].tenant
Goto(r, pc, seen) == req' = [req EXCEPT ![r].pc = pc, ![r].seen = seen]

\* The response is sent and the session closed; what was not committed is gone.
Respond(r) == req' = [req EXCEPT ![r] = Idle]

TypeOK ==
  /\ tenant \in TenantRows /\ key \in KeyRows /\ agent \in AgentRows
  /\ policies \in Seq([tenant : Tenants, version : Nat \ {0}, active : BOOLEAN])
  /\ billing \in [Tenants -> [customer : Nat, subscription : Nat]]
  /\ stripe \in [Tenants -> [customers : Nat, subscriptions : Seq(Nat)]]
  /\ req \in [Slots -> {Idle} \cup
        [pc : {"arrived", "found", "touched", "authorised", "read", "charged"},
         op : Operations, key : Keys \cup {None}, seen : Nat]]
  /\ expired \subseteq Expiring
  /\ crossed \subseteq {"create_policy", "customer"} \X Tenants

Init ==
  /\ \E d \in Deployments : tenant = d.tenant /\ key = d.key /\ agent = d.agent
  /\ policies = <<>>
  /\ billing = [t \in Tenants |-> [customer |-> 0, subscription |-> 0]]
  /\ stripe = [t \in Tenants |-> [customers |-> 0, subscriptions |-> <<>>]]
  /\ req = [r \in Slots |-> Idle]
  /\ expired = {} /\ crossed = {} /\ served = 0 /\ faults = 0

-----------------------------------------------------------------------------
(* Authentication.                                                         *)

Arrive(r) ==
  /\ At(r, "idle") /\ served < MaxRequests
  /\ \E op \in Asked, k \in Keys \cup {None} :
       /\ (k = None) <=> (op.what = "bootstrap")
       /\ req' = [req EXCEPT ![r] = [pc |-> IF k = None THEN "authorised" ELSE "arrived",
                                     op |-> op, key |-> k, seen |-> 0]]
  /\ served' = served + 1
  /\ UNCHANGED <<tables, expired, crossed, faults>>

\* authenticate_key selects an active key and compares its expiry.
FindKey(r) ==
  /\ At(r, "arrived")
  /\ IF key[req[r].key].status = "active" /\ req[r].key \notin expired
     THEN Goto(r, "found", 0) ELSE Respond(r)
  /\ UNCHANGED <<tables, expired, crossed, bounds>>

\* Who has updated k's row in a transaction still open.
Locks(r, k) == req[r].pc \in {"touched", "authorised", "read", "charged"} /\ req[r].key = k
Locked(k, r) == \E o \in Slots \ {r} : Locks(o, k)

\* The UPDATE of last_used_at waits for the row's lock; it does not look at
\* is_active again.
TouchKey(r) ==
  /\ At(r, "found") /\ ~Locked(req[r].key, r)
  /\ Goto(r, "touched", 0)
  /\ UNCHANGED <<tables, expired, crossed, bounds>>

\* get_current_tenant, and require_admin, which selects the key once more.
Authorise(r) ==
  /\ At(r, "touched")
  /\ IF /\ tenant[TenantOf(r)] = "active"
        /\ Does(r, "update_tenant") => key[req[r].key].status = "active" /\ key[req[r].key].admin
     THEN Goto(r, "authorised", billing[TenantOf(r)].customer) ELSE Respond(r)
  /\ UNCHANGED <<tables, expired, crossed, bounds>>

-----------------------------------------------------------------------------
(* What a handler selects before it writes.                                *)

Own(row, r) == row.status # "absent" /\ row.tenant = TenantOf(r)
IsActive(status) == IF status = "active" THEN 1 ELSE 0

\* Mutant of MayRevoke: the key is looked up by its id alone.
MayRevokeAny(r) == key[On(r)].status # "absent"
MayRevoke(r) == Own(key[On(r)], r)

\* create_policy selects a row with the highest version.
Latest(t) ==
  LET ids == {i \in DOMAIN policies : policies[i].tenant = t}
  IN  {i \in ids : \A j \in ids : policies[j].version <= policies[i].version}

\* Unless the row is found the response is a 404.
Select(r, found, seen) ==
  /\ IF found THEN Goto(r, "read", seen) ELSE Respond(r)
  /\ UNCHANGED <<tables, expired, crossed, bounds>>

\* bootstrap_tenant goes on when there is no tenant of the name.
SelectName(r) ==
  /\ At(r, "authorised") /\ Does(r, "bootstrap")
  /\ Select(r, tenant[On(r)] = "absent", 0)

\* A row the session has already loaded is not refreshed: the request's own
\* tenant is taken to be active, as authentication found it.
SelectTenant(r) ==
  /\ At(r, "authorised") /\ Does(r, "update_tenant")
  /\ Select(r, tenant[On(r)] # "absent",
            IF On(r) = TenantOf(r) THEN 1 ELSE IsActive(tenant[On(r)]))

SelectAgent(r) ==
  /\ At(r, "authorised") /\ req[r].op.what \in {"update_agent", "deactivate_agent"}
  /\ Select(r, Own(agent[On(r)], r), IsActive(agent[On(r)].status))

SelectKey(r) ==
  /\ At(r, "authorised") /\ Does(r, "revoke_key")
  /\ Select(r, MayRevoke(r), IsActive(key[On(r)].status))

SelectPolicy(r) ==
  /\ At(r, "authorised") /\ Does(r, "create_policy")
  /\ \E i \in IF Latest(TenantOf(r)) = {} THEN {0} ELSE Latest(TenantOf(r)) : Select(r, TRUE, i)

List(r) ==
  /\ At(r, "authorised") /\ Does(r, "list")
  /\ Respond(r)
  /\ UNCHANGED <<tables, expired, crossed, bounds>>

\* Mutant of HasCustomer: the row's customer is not looked at.
HasCustomerUnseen(r) == FALSE
HasCustomer(r) == req[r].seen # 0

KeepCustomer(r) ==
  /\ At(r, "authorised") /\ Does(r, "customer") /\ HasCustomer(r)
  /\ Respond(r)
  /\ UNCHANGED <<tables, expired, crossed, bounds>>

\* ValueError: no customer, or a tier without a price.
RefuseSubscription(r) ==
  /\ At(r, "authorised") /\ Does(r, "subscribe")
  /\ Respond(r)
  /\ UNCHANGED <<tables, expired, crossed, bounds>>

-----------------------------------------------------------------------------
(* What it writes, with the commit.                                        *)

\* The session emits an UPDATE only for a column set to another value than the
\* one it loaded.
Written(status, seen, wanted) == IF IsActive(wanted) = seen THEN status ELSE wanted

InsertAgent(r) ==
  /\ At(r, "authorised") /\ Does(r, "create_agent")
  /\ \E a \in {b \in Agents : agent[b].status = "absent"} :
       agent' = [agent EXCEPT ![a] = [status |-> "active", tenant |-> TenantOf(r)]]
  /\ Respond(r)
  /\ UNCHANGED <<tenant, key, policies, billing, stripe, expired, crossed, bounds>>

\* PATCH sets what its body names, is_active possibly among it; DELETE clears it.
WriteAgent(r) ==
  /\ At(r, "read") /\ req[r].op.what \in {"update_agent", "deactivate_agent"}
  /\ \E s \in {"inactive"} \cup (IF Does(r, "update_agent") THEN {"active"} ELSE {}) :
       agent' = [agent EXCEPT ![On(r)].status = Written(@, req[r].seen, s)]
  /\ Respond(r)
  /\ UNCHANGED <<tenant, key, policies, billing, stripe, expired, crossed, bounds>>

InsertKey(r) ==
  /\ At(r, "authorised") /\ Does(r, "create_key")
  /\ \E k \in {j \in Keys : key[j].status = "absent"}, admin \in BOOLEAN :
       key' = [key EXCEPT ![k] = [status |-> "active", tenant |-> TenantOf(r), admin |-> admin]]
  /\ Respond(r)
  /\ UNCHANGED <<tenant, agent, policies, billing, stripe, expired, crossed, bounds>>

\* Mutant of RevokeKey: with a session of its own, it waits for its own request.
RevokeKeyInSessionOfItsOwn(r) ==
  /\ At(r, "read") /\ Does(r, "revoke_key")
  /\ req[r].seen = 1 => ~\E o \in Slots : Locks(o, On(r))
  /\ key' = [key EXCEPT ![On(r)].status = Written(@, req[r].seen, "revoked")]
  /\ Respond(r)
  /\ UNCHANGED <<tenant, agent, policies, billing, stripe, expired, crossed, bounds>>

\* revoke_api_key: the UPDATE waits for the other requests that use the key.
RevokeKey(r) ==
  /\ At(r, "read") /\ Does(r, "revoke_key")
  /\ req[r].seen = 1 => ~Locked(On(r), r)
  /\ key' = [key EXCEPT ![On(r)].status = Written(@, req[r].seen, "revoked")]
  /\ Respond(r)
  /\ UNCHANGED <<tenant, agent, policies, billing, stripe, expired, crossed, bounds>>

\* Requests that revoke each other's keys wait for each other in a circle: the
\* database aborts one of them.
WaitsFor(r, o) ==
  At(r, "read") /\ Does(r, "revoke_key") /\ req[r].seen = 1 /\ o # r /\ Locks(o, On(r))
Deadlocked(r) ==
  /\ \E circle \in SUBSET Slots :
       /\ r \in circle
       /\ \A o \in circle : (\E p \in circle : WaitsFor(o, p)) /\ (\E p \in circle : WaitsFor(p, o))
  /\ Respond(r)
  /\ UNCHANGED <<tables, expired, crossed, bounds>>

\* Another request for r's tenant has read what r changes in this step.
Overlaps(r, what, pcs) ==
  \E o \in Slots \ {r} : req[o].pc \in pcs /\ Does(o, what) /\ TenantOf(o) = TenantOf(r)
Cross(r, what, pcs) ==
  crossed' = IF Overlaps(r, what, pcs) THEN crossed \cup {<<what, TenantOf(r)>>} ELSE crossed

\* Mutant of NextPolicies: the old version stays active.
NextPoliciesBoth(r, i) ==
  Append(policies, [tenant |-> TenantOf(r), active |-> TRUE,
                    version |-> IF i = 0 THEN 1 ELSE policies[i].version + 1])

\* The version that was read is deactivated, its successor inserted.
NextPolicies(r, i) ==
  Append(IF i = 0 THEN policies ELSE [policies EXCEPT ![i].active = FALSE],
         [tenant |-> TenantOf(r), active |-> TRUE,
          version |-> IF i = 0 THEN 1 ELSE policies[i].version + 1])

InsertPolicy(r) ==
  /\ At(r, "read") /\ Does(r, "create_policy")
  /\ policies' = NextPolicies(r, req[r].seen)
  /\ Cross(r, "create_policy", {"read"})
  /\ Respond(r)
  /\ UNCHANGED <<tenant, key, agent, billing, stripe, expired, bounds>>

\* Tenant.name is unique: the later of two bootstraps fails at its flush.
Bootstrap(r) ==
  /\ At(r, "read") /\ Does(r, "bootstrap")
  /\ \/ tenant[On(r)] # "absent" /\ UNCHANGED <<tenant, key>>
     \/ /\ tenant[On(r)] = "absent"
        /\ tenant' = [tenant EXCEPT ![On(r)] = "active"]
        /\ \E k \in {j \in Keys : key[j].status = "absent"} :
             key' = [key EXCEPT ![k] = [status |-> "active", tenant |-> On(r), admin |-> FALSE]]
  /\ Respond(r)
  /\ UNCHANGED <<agent, policies, billing, stripe, expired, crossed, bounds>>

UpdateTenant(r) ==
  /\ At(r, "read") /\ Does(r, "update_tenant")
  /\ \E s \in {"active", "inactive"} :
       tenant' = [tenant EXCEPT ![On(r)] = Written(@, req[r].seen, s)]
  /\ Respond(r)
  /\ UNCHANGED <<key, agent, policies, billing, stripe, expired, crossed, bounds>>

-----------------------------------------------------------------------------
(* Stripe is called before the row is updated and the transaction committed. *)

CreateCustomer(r) ==
  /\ At(r, "authorised") /\ Does(r, "customer") /\ ~HasCustomer(r)
  /\ stripe' = [stripe EXCEPT ![TenantOf(r)].customers = @ + 1]
  /\ Goto(r, "charged", stripe[TenantOf(r)].customers + 1)
  /\ Cross(r, "customer", {"charged"})
  /\ UNCHANGED <<tenant, key, agent, policies, billing, expired, bounds>>

\* Nothing asks whether the tenant already has a subscription.
CreateSubscription(r) ==
  /\ At(r, "authorised") /\ Does(r, "subscribe") /\ req[r].seen # 0
  /\ stripe' = [stripe EXCEPT ![TenantOf(r)].subscriptions = Append(@, req[r].seen)]
  /\ Goto(r, "charged", Len(stripe[TenantOf(r)].subscriptions) + 1)
  /\ UNCHANGED <<tenant, key, agent, policies, billing, expired, crossed, bounds>>

RecordCustomer(r) ==
  /\ At(r, "charged") /\ Does(r, "customer")
  /\ billing' = [billing EXCEPT ![TenantOf(r)].customer = req[r].seen]
  /\ Cross(r, "customer", {"authorised", "charged"})
  /\ Respond(r)
  /\ UNCHANGED <<tenant, key, agent, policies, stripe, expired, bounds>>

RecordSubscription(r) ==
  /\ At(r, "charged") /\ Does(r, "subscribe")
  /\ billing' = [billing EXCEPT ![TenantOf(r)].subscription = req[r].seen]
  /\ Respond(r)
  /\ UNCHANGED <<tenant, key, agent, policies, stripe, expired, crossed, bounds>>

-----------------------------------------------------------------------------

\* A statement or the commit fails, or the process dies: all is rolled back,
\* but not at Stripe.
Abort(r) ==
  /\ ~At(r, "idle") /\ faults < MaxFaults
  /\ faults' = faults + 1
  /\ crossed' = IF At(r, "charged") /\ Does(r, "customer")
                THEN crossed \cup {<<"customer", TenantOf(r)>>} ELSE crossed
  /\ Respond(r)
  /\ UNCHANGED <<tables, expired, served>>

Expire(k) ==
  /\ k \in Expiring \ expired
  /\ expired' = expired \cup {k}
  /\ UNCHANGED <<tables, req, crossed, bounds>>

\* Bound: no row is left to insert.
Full(r) ==
  /\ \/ At(r, "authorised") /\ Does(r, "create_agent") /\ \A a \in Agents : agent[a].status # "absent"
     \/ /\ \A k \in Keys : key[k].status # "absent"
        /\ \/ At(r, "authorised") /\ Does(r, "create_key")
           \/ At(r, "read") /\ Does(r, "bootstrap")
  /\ Respond(r)
  /\ UNCHANGED <<tables, expired, crossed, bounds>>

Serve(r) ==
  \/ FindKey(r) \/ TouchKey(r) \/ Authorise(r)
  \/ SelectName(r) \/ SelectTenant(r) \/ SelectAgent(r) \/ SelectKey(r) \/ SelectPolicy(r)
  \/ List(r) \/ KeepCustomer(r) \/ RefuseSubscription(r)
  \/ InsertAgent(r) \/ WriteAgent(r) \/ InsertKey(r) \/ RevokeKey(r) \/ Deadlocked(r)
  \/ InsertPolicy(r) \/ Bootstrap(r) \/ UpdateTenant(r)
  \/ CreateCustomer(r) \/ CreateSubscription(r)
  \/ RecordCustomer(r) \/ RecordSubscription(r) \/ Full(r)

Rest == served = MaxRequests /\ (\A r \in Slots : At(r, "idle")) /\ UNCHANGED vars

Next ==
  \/ \E r \in Slots : Arrive(r) \/ Serve(r) \/ Abort(r)
  \/ \E k \in Keys : Expire(k)
  \/ Rest

Spec == Init /\ [][Next]_vars

\* The event loop and the database go on with every request.
FairSpec == Spec /\ \A r \in Slots : WF_vars(Serve(r))

-----------------------------------------------------------------------------

\* Which rows a step changes, and whose request takes it.
By(r) == req'[r] # req[r] /\ req[r].pc \in {"authorised", "read", "charged"}
MayChange(t) == \E r \in Slots : By(r) /\ ~Does(r, "bootstrap") /\ TenantOf(r) = t
Isolated ==
  /\ \A a \in Agents : agent'[a] # agent[a] =>
       MayChange(agent'[a].tenant) /\ agent[a].tenant \in {None, agent'[a].tenant}
  /\ \A k \in Keys : key'[k] # key[k] =>
       /\ key[k].tenant \in {None, key'[k].tenant}
       /\ \/ MayChange(key'[k].tenant)
          \/ tenant[key'[k].tenant] = "absent"
  /\ \A i \in DOMAIN policies' :
       i \notin DOMAIN policies \/ policies'[i] # policies[i] => MayChange(policies'[i].tenant)
  /\ \A t \in Tenants : billing'[t] # billing[t] \/ stripe'[t] # stripe[t] => MayChange(t)

\* A step changes only rows of the tenant whose key the stepping request has,
\* however many requests of whatever tenants stand between their reads and their
\* writes (handlers filter by tenant when they read, not when they write).
\* Administrators may change any tenant's status, bootstrap brings its own.
TenantIsolation == [][Isolated]_vars

\* Every row of a tenant's highest policy version is active, whoever overlapped
\* whom; and as long as no creation inserted what another had read before it,
\* versions count up and only the newest is active (the table has no unique
\* constraint, api/policies.py:50 reads without a lock).
VersionsExplained ==
  \A t \in Tenants :
    LET ids == {i \in DOMAIN policies : policies[i].tenant = t}
    IN  /\ \A i \in Latest(t) : policies[i].active
        /\ <<"create_policy", t>> \notin crossed =>
             /\ {policies[i].version : i \in ids} = 1..Cardinality(ids)
             /\ {i \in ids : policies[i].active} = Latest(t)

\* Stripe has one customer per tenant, the one of the row and of the row's
\* subscription, unless two requests with different keys created one each or a
\* transaction was lost after Stripe had answered (billing.py:44 looks at what
\* authentication loaded).
CustomersExplained ==
  \A t \in Tenants :
    <<"customer", t>> \notin crossed =>
      /\ stripe[t].customers <= 1
      /\ billing[t].customer < stripe[t].customers =>
           \E r \in Slots : At(r, "charged") /\ Does(r, "customer") /\ TenantOf(r) = t
      /\ billing[t].subscription # 0 =>
           stripe[t].subscriptions[billing[t].subscription] = billing[t].customer

\* Every request is answered: waiting for a key's row always ends, for requests
\* that revoke their own key and for two that revoke each other's as well.
RequestsEnd == \A r \in Slots : (~At(r, "idle")) ~> At(r, "idle")

=============================================================================
