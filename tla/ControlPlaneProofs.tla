-------------------------- MODULE ControlPlaneProofs --------------------------
(* What holds of the control plane for any number of requests, tenants and  *)
(* rows.  A request's tenant never changes once its key has been found, nor *)
(* does the tenant of a row: what was the requester's own when it was read  *)
(* is its own when it is written, and what may go wrong in between is       *)
(* recorded in crossed.                                                     *)
EXTENDS ControlPlane, FiniteSetTheorems, TLAPS

(* The inductive invariant: the structure of tables and requests, and for   *)
(* each tenant what holds as long as nothing of it has crossed.             *)

\* A row of the requester's tenant.
Owned(row, r) == row.tenant = TenantOf(r)

\* What holds of a request on its way.
Answering(r) ==
  /\ req[r].key = None <=> Does(r, "bootstrap")
  /\ Does(r, "bootstrap") => req[r].pc \in {"authorised", "read"}
  /\ At(r, "arrived") \/ Does(r, "bootstrap") \/ TenantOf(r) # None
  /\ At(r, "read") /\ req[r].op.what \in {"update_agent", "deactivate_agent"} =>
       Owned(agent[On(r)], r)
  /\ At(r, "read") /\ Does(r, "revoke_key") => Owned(key[On(r)], r)
  /\ At(r, "read") /\ Does(r, "create_policy") /\ req[r].seen # 0 =>
       req[r].seen \in DOMAIN policies /\ Owned(policies[req[r].seen], r)

\* Tables and requests agree on whose rows are whose.
Structure ==
  /\ TypeOK
  /\ (\A k \in Keys : Unowned(key[k])) /\ (\A a \in Agents : Unowned(agent[a]))
  /\ \A r \in Slots : At(r, "idle") \/ Answering(r)

Ids(t) == {i \in DOMAIN policies : policies[i].tenant = t}
Reads(r, what, pcs, t) == req[r].pc \in pcs /\ Does(r, what) /\ TenantOf(r) = t

Counted(t) ==
  /\ {policies[i].version : i \in Ids(t)} = 1..Cardinality(Ids(t))
  /\ \A i, j \in Ids(t) : policies[i].version = policies[j].version => i = j
  /\ {i \in Ids(t) : policies[i].active} = Latest(t)
  /\ \A r \in Slots : Reads(r, "create_policy", {"read"}, t) =>
       IF Ids(t) = {} THEN req[r].seen = 0 ELSE req[r].seen \in Latest(t)
VersionsInv ==
  \A t \in Tenants :
    /\ \A i \in Latest(t) : policies[i].active
    /\ <<"create_policy", t>> \notin crossed => Counted(t)

Charging(r, t) == Reads(r, "customer", {"charged"}, t)
\* No customer yet, one created by r and not recorded, or one recorded.
NoCustomer(t) == stripe[t].customers = 0 /\ billing[t].customer = 0 /\ \A r \in Slots : ~Charging(r, t)
Created(t) == /\ stripe[t].customers = 1 /\ billing[t].customer = 0
              /\ \E r \in Slots : Charging(r, t) /\ req[r].seen = 1 /\ \A o \in Slots : Charging(o, t) => o = r
Recorded(t) == stripe[t].customers = 1 /\ billing[t].customer = 1 /\ \A r \in Slots : ~Charging(r, t)
Subscribed(t, s) ==
  /\ s \in DOMAIN stripe[t].subscriptions
  /\ stripe[t].subscriptions[s] = 1 /\ billing[t].customer = 1
\* What a handler of t's accounts has seen.
AtAccounts(r, t) ==
  /\ Reads(r, "customer", {"authorised"}, t) => req[r].seen = billing[t].customer
  /\ Reads(r, "subscribe", {"authorised"}, t) => req[r].seen \in {0, billing[t].customer}
  /\ Reads(r, "subscribe", {"charged"}, t) => Subscribed(t, req[r].seen)
OneCustomer(t) ==
  /\ NoCustomer(t) \/ Created(t) \/ Recorded(t)
  /\ \A r \in Slots : AtAccounts(r, t)
  /\ billing[t].subscription # 0 => Subscribed(t, billing[t].subscription)
CustomersInv == \A t \in Tenants : <<"customer", t>> \notin crossed => OneCustomer(t)

-----------------------------------------------------------------------------
(* Where requests stand.                                                   *)

Pcs == {"arrived", "found", "touched", "authorised", "read", "charged"}
Request == [pc : Pcs, op : Operations, key : Keys \cup {None}, seen : Nat]
OthersStay(r) == \A o \in Slots \ {r} : req'[o] = req[o]

LEMMA RequestType ==
  ASSUME TypeOK, NEW r \in Slots, ~At(r, "idle")
  PROVE  req[r] \in Request /\ req \in [Slots -> {Idle} \cup Request]
BY DEF TypeOK, At, Idle, Request, Pcs

\* An answered request leaves its slot as it was before any came.
LEMMA Responded ==
  ASSUME TypeOK, NEW r \in Slots, Respond(r)
  PROVE  /\ req' \in [Slots -> {Idle} \cup Request] /\ At(r, "idle")' /\ OthersStay(r)
BY DEF TypeOK, Respond, At, Idle, Request, Pcs, OthersStay

\* A request that goes on keeps its operation and its key.
LEMMA WentOn ==
  ASSUME TypeOK, NEW r \in Slots, ~At(r, "idle"), NEW pc \in Pcs, NEW seen \in Nat,
         Goto(r, pc, seen)
  PROVE  /\ req' \in [Slots -> {Idle} \cup Request] /\ OthersStay(r)
         /\ req'[r].pc = pc /\ req'[r].seen = seen
         /\ req'[r].op = req[r].op /\ req'[r].key = req[r].key
<1>1. req[r] \in Request /\ req \in [Slots -> {Idle} \cup Request]
  BY RequestType
<1>2. req' = [req EXCEPT ![r] = [[@ EXCEPT !.pc = pc] EXCEPT !.seen = seen]]
  BY <1>1 DEF Goto
<1>3. [[req[r] EXCEPT !.pc = pc] EXCEPT !.seen = seen] \in Request
  BY <1>1 DEF Request
<1> QED BY <1>1, <1>2, <1>3 DEF OthersStay, Request

-----------------------------------------------------------------------------
(* Rows keep their tenants.                                                *)

\* Rows are added and written, but none changes hands.
RowsKept ==
  /\ tenant' \in TenantRows /\ key' \in KeyRows /\ agent' \in AgentRows
  /\ policies' \in Seq([tenant : Tenants, version : Nat \ {0}, active : BOOLEAN])
  /\ \A k \in Keys : Unowned(key'[k]) /\ (key[k].tenant # None => key'[k].tenant = key[k].tenant)
  /\ \A a \in Agents : Unowned(agent'[a]) /\ (agent[a].tenant # None => agent'[a].tenant = agent[a].tenant)
  /\ \A i \in DOMAIN policies : i \in DOMAIN policies' /\ policies'[i].tenant = policies[i].tenant

LEMMA TablesKeepRows ==
  ASSUME Structure, UNCHANGED <<tenant, key, agent, policies>>
  PROVE  RowsKept
BY DEF Structure, TypeOK, RowsKept

LEMMA StandingRequests ==
  ASSUME Structure, RowsKept, NEW o \in Slots, req'[o] = req[o], ~At(o, "idle")
  PROVE  Answering(o)'
<1>1. Answering(o) /\ req[o] \in Request
  BY RequestType DEF Structure
<1>2. CASE Does(o, "bootstrap")
  BY <1>1, <1>2 DEF Answering, Does, At
<1>3. CASE ~Does(o, "bootstrap")
  <2>1. req[o].key \in Keys
    BY <1>1, <1>3 DEF Answering, Request
  <2>2. CASE At(o, "arrived")
    BY <1>1, <1>3, <2>2 DEF Answering, Does, At
  <2>3. CASE ~At(o, "arrived")
    <3>1. TenantOf(o) # None /\ TenantOf(o)' = TenantOf(o)
      BY <1>1, <1>3, <2>1, <2>3 DEF Answering, TenantOf, RowsKept
    <3>2. req[o].op.what \in {"update_agent", "deactivate_agent"} => On(o) \in Agents
      BY <1>1 DEF Request, Operations, On
    <3>3. Does(o, "revoke_key") => On(o) \in Keys
      BY <1>1 DEF Request, Operations, On, Does
    <3> QED BY <1>1, <1>3, <3>1, <3>2, <3>3 DEF Answering, Does, At, On, Owned, RowsKept
  <2> QED BY <2>2, <2>3
<1> QED BY <1>2, <1>3

LEMMA StructureStays ==
  ASSUME Structure, RowsKept, NEW r \in Slots, OthersStay(r),
         req' \in [Slots -> {Idle} \cup Request],
         billing' \in [Tenants -> [customer : Nat, subscription : Nat]],
         stripe' \in [Tenants -> [customers : Nat, subscriptions : Seq(Nat)]],
         expired' \subseteq Expiring,
         crossed' \subseteq {"create_policy", "customer"} \X Tenants,
         At(r, "idle")' \/ Answering(r)'
  PROVE  Structure'
<1>1. TypeOK'
  BY DEF TypeOK, RowsKept, Request, Pcs
<1>2. ASSUME NEW o \in Slots PROVE At(o, "idle")' \/ Answering(o)'
  <2>1. CASE o = r
    BY <2>1
  <2>2. CASE o # r
    <3>1. req'[o] = req[o]
      BY <2>2 DEF OthersStay
    <3>2. CASE At(o, "idle")
      BY <3>1, <3>2 DEF At
    <3>3. CASE ~At(o, "idle")
      BY <3>1, <3>3, StandingRequests
    <3> QED BY <3>2, <3>3
  <2> QED BY <2>1, <2>2
<1> QED BY <1>1, <1>2 DEF Structure, RowsKept

-----------------------------------------------------------------------------
(* Each step keeps the structure and touches its own tenant's rows only.   *)

Accounts == /\ billing' \in [Tenants -> [customer : Nat, subscription : Nat]]
            /\ stripe' \in [Tenants -> [customers : Nat, subscriptions : Seq(Nat)]]
            /\ expired' \subseteq Expiring
            /\ crossed' \subseteq {"create_policy", "customer"} \X Tenants

LEMMA NoTableIsolated == ASSUME UNCHANGED tables PROVE Isolated
BY DEF tables, Isolated

LEMMA AccountsStay ==
  ASSUME Structure, UNCHANGED <<billing, stripe, expired, crossed>>
  PROVE  Accounts
BY DEF Structure, TypeOK, Accounts

LEMMA Leaves ==
  ASSUME Structure, NEW r \in Slots, Respond(r), RowsKept, Accounts
  PROVE  Structure'
<1>1. TypeOK
  BY DEF Structure
<1>2. /\ req' \in [Slots -> {Idle} \cup Request] /\ At(r, "idle")' /\ OthersStay(r)
  BY <1>1, Responded
<1> QED BY <1>2, StructureStays DEF Accounts

LEMMA LeavesQuietly ==
  ASSUME Structure, NEW r \in Slots, Respond(r), UNCHANGED <<tables, expired, crossed>>
  PROVE  Structure' /\ Isolated
<1>1. RowsKept
  BY TablesKeepRows DEF tables
<1>2. Accounts
  BY AccountsStay DEF tables
<1>3. Isolated
  BY NoTableIsolated
<1> QED BY <1>1, <1>2, <1>3, Leaves

\* What holds of a request that goes on, as it stood before its step.
Prepared(r, pc, seen) ==
  /\ Does(r, "bootstrap") => pc = "read"
  /\ Does(r, "bootstrap") \/ TenantOf(r) # None
  /\ pc = "read" /\ req[r].op.what \in {"update_agent", "deactivate_agent"} => Owned(agent[On(r)], r)
  /\ pc = "read" /\ Does(r, "revoke_key") => Owned(key[On(r)], r)
  /\ pc = "read" /\ Does(r, "create_policy") /\ seen # 0 =>
       seen \in DOMAIN policies /\ Owned(policies[seen], r)

LEMMA GoesOn ==
  ASSUME Structure, NEW r \in Slots, ~At(r, "idle"), NEW pc \in Pcs \ {"arrived"}, NEW seen \in Nat,
         Goto(r, pc, seen), Prepared(r, pc, seen), UNCHANGED <<tenant, key, agent, policies>>, Accounts
  PROVE  Structure'
<1>1. TypeOK /\ pc \in Pcs /\ Answering(r) /\ req[r] \in Request
  BY RequestType DEF Structure
<1>2. /\ req' \in [Slots -> {Idle} \cup Request] /\ OthersStay(r)
      /\ req'[r].pc = pc /\ req'[r].seen = seen
      /\ req'[r].op = req[r].op /\ req'[r].key = req[r].key
  BY <1>1, WentOn
<1>3. RowsKept
  BY TablesKeepRows
<1>4. Answering(r)'
  BY <1>1, <1>2 DEF Answering, Prepared, Does, At, On, TenantOf, Owned
<1> QED BY <1>2, <1>3, <1>4, StructureStays DEF Accounts

LEMMA GoesOnQuietly ==
  ASSUME Structure, NEW r \in Slots, ~At(r, "idle"), NEW pc \in Pcs \ {"arrived"}, NEW seen \in Nat,
         Goto(r, pc, seen), Prepared(r, pc, seen), UNCHANGED <<tables, expired, crossed>>
  PROVE  Structure' /\ Isolated
<1>1. Accounts /\ UNCHANGED <<tenant, key, agent, policies>>
  BY AccountsStay DEF tables
<1>2. Isolated
  BY NoTableIsolated
<1> QED BY <1>1, <1>2, GoesOn

\* A request past authentication has a tenant, and its key may change its rows.
LEMMA Requester ==
  ASSUME Structure, NEW r \in Slots, ~At(r, "idle"), ~At(r, "arrived"), ~Does(r, "bootstrap")
  PROVE  req[r].key \in Keys /\ TenantOf(r) \in Tenants
BY RequestType DEF Structure, Answering, TenantOf, Request, TypeOK, KeyRows

LEMMA RequesterMayChange ==
  ASSUME Structure, NEW r \in Slots, req[r].pc \in {"authorised", "read", "charged"},
         ~Does(r, "bootstrap"), req'[r].pc # req[r].pc
  PROVE  MayChange(TenantOf(r))
BY DEF MayChange, By

\* Where an operation's row is.
LEMMA OnWhat ==
  ASSUME Structure, NEW r \in Slots, ~At(r, "idle")
  PROVE  /\ req[r].op.what \in {"bootstrap", "update_tenant"} => On(r) \in Tenants
         /\ req[r].op.what \in {"update_agent", "deactivate_agent"} => On(r) \in Agents
         /\ req[r].op.what = "revoke_key" => On(r) \in Keys
         /\ req[r].seen \in Nat /\ req[r].pc \in Pcs
BY RequestType DEF Structure, Request, Operations, On

LEMMA Authenticating ==
  ASSUME Structure, NEW r \in Slots, FindKey(r) \/ TouchKey(r) \/ Authorise(r)
  PROVE  Structure' /\ Isolated
<1>1. ~At(r, "idle") /\ ~Does(r, "bootstrap") /\ req[r].key \in Keys
  <2>1. ~At(r, "idle") /\ req[r].pc \in {"arrived", "found", "touched"}
    BY DEF FindKey, TouchKey, Authorise, At
  <2> QED BY <2>1, RequestType DEF Structure, Answering, Request
<1>2. UNCHANGED <<tables, expired, crossed>>
  BY DEF FindKey, TouchKey, Authorise
<1>3. CASE Respond(r)
  BY <1>2, <1>3, LeavesQuietly
<1>4. CASE FindKey(r) /\ ~Respond(r)
  <2>1. Goto(r, "found", 0) /\ key[req[r].key].status = "active"
    BY <1>4 DEF FindKey
  <2>2. TenantOf(r) # None
    BY <1>1, <2>1 DEF TenantOf, Structure, Unowned
  <2>3. Prepared(r, "found", 0)
    BY <1>1, <2>2 DEF Prepared
  <2> QED BY <1>1, <1>2, <2>1, <2>3, GoesOnQuietly DEF Pcs
<1>5. CASE TouchKey(r)
  <2>1. Goto(r, "touched", 0) /\ At(r, "found")
    BY <1>5 DEF TouchKey
  <2>2. Prepared(r, "touched", 0)
    BY <1>1, <2>1 DEF Prepared, Structure, Answering, At
  <2> QED BY <1>1, <1>2, <2>1, <2>2, GoesOnQuietly DEF Pcs
<1>6. CASE Authorise(r) /\ ~Respond(r)
  <2>1. Goto(r, "authorised", billing[TenantOf(r)].customer) /\ At(r, "touched")
    BY <1>6 DEF Authorise
  <2>2. Prepared(r, "authorised", billing[TenantOf(r)].customer)
    BY <1>1, <2>1 DEF Prepared, Structure, Answering, At
  <2>3. billing[TenantOf(r)].customer \in Nat
    BY <1>1, <2>1, Requester DEF At, Structure, TypeOK
  <2> QED BY <1>1, <1>2, <2>1, <2>2, <2>3, GoesOnQuietly DEF Pcs
<1> QED BY <1>3, <1>4, <1>5, <1>6

LEMMA Selecting ==
  ASSUME Structure, NEW r \in Slots,
         \/ SelectName(r) \/ SelectTenant(r) \/ SelectAgent(r) \/ SelectKey(r) \/ SelectPolicy(r)
  PROVE  Structure' /\ Isolated
<1>1. At(r, "authorised") /\ ~At(r, "idle") /\ UNCHANGED <<tables, expired, crossed>>
  BY DEF SelectName, SelectTenant, SelectAgent, SelectKey, SelectPolicy, Select, At
<1>2. CASE Respond(r)
  BY <1>1, <1>2, LeavesQuietly
<1>3. CASE ~Respond(r)
  <2>1. Does(r, "bootstrap") \/ TenantOf(r) # None
    BY <1>1 DEF Structure, Answering, At
  <2>2. ASSUME NEW seen \in Nat, Goto(r, "read", seen), Prepared(r, "read", seen) PROVE Structure' /\ Isolated
    BY <1>1, <2>2, GoesOnQuietly DEF Pcs
  <2>3. CASE SelectName(r)
    <3>1. Goto(r, "read", 0) /\ Prepared(r, "read", 0)
      BY <1>3, <2>1, <2>3 DEF SelectName, Select, Prepared, Does
    <3> QED BY <2>2, <3>1
  <2>4. CASE SelectTenant(r)
    <3> DEFINE seen == IF On(r) = TenantOf(r) THEN 1 ELSE IsActive(tenant[On(r)])
    <3>1. Goto(r, "read", seen) /\ Prepared(r, "read", seen)
      BY <1>3, <2>1, <2>4 DEF SelectTenant, Select, Prepared, Does
    <3>2. seen \in Nat
      BY DEF IsActive
    <3> QED BY <2>2, <3>1, <3>2
  <2>5. CASE SelectAgent(r)
    <3> DEFINE seen == IsActive(agent[On(r)].status)
    <3>1. Goto(r, "read", seen) /\ Prepared(r, "read", seen)
      BY <1>3, <2>1, <2>5 DEF SelectAgent, Select, Prepared, Does, Own, Owned
    <3>2. seen \in Nat
      BY DEF IsActive
    <3> QED BY <2>2, <3>1, <3>2
  <2>6. CASE SelectKey(r)
    <3> DEFINE seen == IsActive(key[On(r)].status)
    <3>1. Goto(r, "read", seen) /\ Prepared(r, "read", seen)
      BY <1>3, <2>1, <2>6 DEF SelectKey, Select, Prepared, Does, MayRevoke, Own, Owned
    <3>2. seen \in Nat
      BY DEF IsActive
    <3> QED BY <2>2, <3>1, <3>2
  <2>7. CASE SelectPolicy(r)
    <3>1. PICK i \in IF Latest(TenantOf(r)) = {} THEN {0} ELSE Latest(TenantOf(r)) : Goto(r, "read", i)
      BY <1>3, <2>7 DEF SelectPolicy, Select
    <3>2. i \in Nat /\ (i # 0 => i \in DOMAIN policies /\ policies[i].tenant = TenantOf(r))
      <4>1. DOMAIN policies \subseteq Nat /\ 0 \notin DOMAIN policies
        <5>1. policies \in Seq([tenant : Tenants, version : Nat \ {0}, active : BOOLEAN])
          BY DEF Structure, TypeOK
        <5> QED BY <5>1
      <4> QED BY <3>1, <4>1 DEF Latest
    <3>3. Prepared(r, "read", i)
      BY <2>1, <2>7, <3>2 DEF SelectPolicy, Prepared, Does, Owned
    <3> QED BY <2>2, <3>1, <3>2, <3>3
  <2> QED BY <2>3, <2>4, <2>5, <2>6, <2>7
<1> QED BY <1>2, <1>3

LEMMA Leaving ==
  ASSUME Structure, NEW r \in Slots,
         List(r) \/ KeepCustomer(r) \/ RefuseSubscription(r) \/ Deadlocked(r) \/ Full(r)
  PROVE  Structure' /\ Isolated
<1>1. Respond(r) /\ UNCHANGED <<tables, expired, crossed>>
  BY DEF List, KeepCustomer, RefuseSubscription, Deadlocked, Full
<1> QED BY <1>1, LeavesQuietly

\* A response that changed rows of the requester, and no other table.
LEMMA RespondChanges ==
  ASSUME Structure, NEW r \in Slots, Respond(r), req[r].pc \in {"authorised", "read", "charged"},
         ~Does(r, "bootstrap")
  PROVE  MayChange(TenantOf(r)) /\ TenantOf(r) \in Tenants
<1>1. ~At(r, "idle") /\ ~At(r, "arrived")
  BY DEF At
<1>2. At(r, "idle")'
  BY Responded DEF Structure
<1> QED BY <1>1, <1>2, Requester, RequesterMayChange DEF At

LEMMA InsertAgentStep ==
  ASSUME Structure, NEW r \in Slots, InsertAgent(r)
  PROVE  Structure' /\ Isolated
<1>1. At(r, "authorised") /\ Respond(r) /\ ~Does(r, "bootstrap")
  BY DEF InsertAgent, Does
<1>2. MayChange(TenantOf(r)) /\ TenantOf(r) \in Tenants /\ TenantOf(r) # None
  BY <1>1, RespondChanges, NoneAssumption DEF At
<1>3. PICK a \in Agents : /\ agent[a].status = "absent"
        /\ agent' = [agent EXCEPT ![a] = [status |-> "active", tenant |-> TenantOf(r)]]
  BY DEF InsertAgent
<1>4. UNCHANGED <<tenant, key, policies, billing, stripe, expired, crossed>>
  BY DEF InsertAgent
<1>5. agent[a].tenant = None
  BY <1>3 DEF Structure, Unowned
<1>6. RowsKept
  BY <1>2, <1>3, <1>4, <1>5 DEF RowsKept, Structure, TypeOK, AgentRows, Unowned
<1>7. Isolated
  BY <1>2, <1>3, <1>4, <1>5 DEF Isolated, Structure, TypeOK, AgentRows
<1>8. Accounts
  BY <1>4, AccountsStay
<1> QED BY <1>1, <1>6, <1>7, <1>8, Leaves

LEMMA WrittenType ==
  ASSUME NEW status, NEW seen, NEW wanted
  PROVE  Written(status, seen, wanted) \in {status, wanted}
BY DEF Written

LEMMA WriteAgentStep ==
  ASSUME Structure, NEW r \in Slots, WriteAgent(r)
  PROVE  Structure' /\ Isolated
<1> DEFINE a == On(r)
<1>1. At(r, "read") /\ Respond(r) /\ ~Does(r, "bootstrap")
      /\ req[r].op.what \in {"update_agent", "deactivate_agent"}
  BY DEF WriteAgent, Does
<1>2. MayChange(TenantOf(r)) /\ TenantOf(r) \in Tenants /\ TenantOf(r) # None
  BY <1>1, RespondChanges, NoneAssumption DEF At
<1>3. a \in Agents /\ agent[a].tenant = TenantOf(r)
  BY <1>1, OnWhat DEF At, Structure, Answering, Owned
<1>4. PICK s \in {"active", "inactive"} :
        agent' = [agent EXCEPT ![a] = [@ EXCEPT !.status = Written(agent[a].status, req[r].seen, s)]]
  BY <1>3 DEF WriteAgent, Structure, TypeOK, AgentRows
<1>5. UNCHANGED <<tenant, key, policies, billing, stripe, expired, crossed>>
  BY DEF WriteAgent
<1>6. agent[a].status # "absent"
  BY <1>2, <1>3 DEF Structure, Unowned
<1> DEFINE w == Written(agent[a].status, req[r].seen, s)
<1>7. w \in {agent[a].status, "active", "inactive"}
  BY WrittenType
<1> HIDE DEF w
<1>8. agent' = [agent EXCEPT ![a] = [agent[a] EXCEPT !.status = w]]
  BY <1>4 DEF w
<1>9. agent'[a].tenant = TenantOf(r) /\ agent'[a].status = w
  BY <1>3, <1>8 DEF Structure, TypeOK, AgentRows
<1>10. RowsKept
  BY <1>2, <1>3, <1>5, <1>6, <1>7, <1>8, <1>9 DEF RowsKept, Structure, TypeOK, AgentRows, Unowned
<1>11. Isolated
  BY <1>2, <1>3, <1>5, <1>8, <1>9 DEF Isolated, Structure, TypeOK, AgentRows
<1>12. Accounts
  BY <1>5, AccountsStay
<1> QED BY <1>1, <1>10, <1>11, <1>12, Leaves

LEMMA InsertKeyStep ==
  ASSUME Structure, NEW r \in Slots, InsertKey(r)
  PROVE  Structure' /\ Isolated
<1>1. At(r, "authorised") /\ Respond(r) /\ ~Does(r, "bootstrap")
  BY DEF InsertKey, Does
<1>2. MayChange(TenantOf(r)) /\ TenantOf(r) \in Tenants /\ TenantOf(r) # None
  BY <1>1, RespondChanges, NoneAssumption DEF At
<1>3. PICK k \in Keys, admin \in BOOLEAN : /\ key[k].status = "absent"
        /\ key' = [key EXCEPT ![k] = [status |-> "active", tenant |-> TenantOf(r), admin |-> admin]]
  BY DEF InsertKey
<1>4. UNCHANGED <<tenant, agent, policies, billing, stripe, expired, crossed>>
  BY DEF InsertKey
<1>5. key[k].tenant = None
  BY <1>3 DEF Structure, Unowned
<1>6. RowsKept
  BY <1>2, <1>3, <1>4, <1>5 DEF RowsKept, Structure, TypeOK, KeyRows, Unowned
<1>7. Isolated
  BY <1>2, <1>3, <1>4, <1>5 DEF Isolated, Structure, TypeOK, KeyRows
<1>8. Accounts
  BY <1>4, AccountsStay
<1> QED BY <1>1, <1>6, <1>7, <1>8, Leaves

LEMMA RevokeKeyStep ==
  ASSUME Structure, NEW r \in Slots, RevokeKey(r)
  PROVE  Structure' /\ Isolated
<1> DEFINE k == On(r)
           w == Written(key[k].status, req[r].seen, "revoked")
<1>1. At(r, "read") /\ Respond(r) /\ ~Does(r, "bootstrap") /\ Does(r, "revoke_key")
  BY DEF RevokeKey, Does
<1>2. MayChange(TenantOf(r)) /\ TenantOf(r) \in Tenants /\ TenantOf(r) # None
  BY <1>1, RespondChanges, NoneAssumption DEF At
<1>3. k \in Keys /\ key[k].tenant = TenantOf(r)
  BY <1>1, OnWhat DEF At, Structure, Answering, Owned, Does
<1>4. key' = [key EXCEPT ![k] = [key[k] EXCEPT !.status = w]]
  BY <1>3 DEF RevokeKey, Structure, TypeOK, KeyRows
<1>5. UNCHANGED <<tenant, agent, policies, billing, stripe, expired, crossed>>
  BY DEF RevokeKey
<1>6. key[k].status # "absent"
  BY <1>2, <1>3 DEF Structure, Unowned
<1>7. w \in {key[k].status, "revoked"}
  BY WrittenType
<1> HIDE DEF w
<1>9. key'[k].tenant = TenantOf(r) /\ key'[k].status = w
  BY <1>3, <1>4 DEF Structure, TypeOK, KeyRows
<1>10. RowsKept
  <2>1. key' \in KeyRows /\ \A o \in Keys \ {k} : key'[o] = key[o]
    BY <1>3, <1>4, <1>7 DEF Structure, TypeOK, KeyRows
  <2>2. \A o \in Keys : Unowned(key'[o]) /\ (key[o].tenant # None => key'[o].tenant = key[o].tenant)
    BY <1>2, <1>3, <1>6, <1>7, <1>9, <2>1 DEF Structure, Unowned
  <2>3. /\ tenant' \in TenantRows /\ agent' \in AgentRows
        /\ policies' \in Seq([tenant : Tenants, version : Nat \ {0}, active : BOOLEAN])
        /\ \A a \in Agents : Unowned(agent'[a])
    BY <1>5 DEF Structure, TypeOK
  <2> QED BY <1>5, <2>1, <2>2, <2>3 DEF RowsKept
<1>11. Isolated
  BY <1>2, <1>3, <1>4, <1>5, <1>9 DEF Isolated, Structure, TypeOK, KeyRows
<1>12. Accounts
  BY <1>5, AccountsStay
<1> QED BY <1>1, <1>10, <1>11, <1>12, Leaves

\* The tenant that is bootstrapped takes a key nobody has.
LEMMA BootstrapStep ==
  ASSUME Structure, NEW r \in Slots, Bootstrap(r)
  PROVE  Structure' /\ Isolated
<1>1. At(r, "read") /\ Respond(r) /\ Does(r, "bootstrap") /\ ~At(r, "idle")
  BY DEF Bootstrap, At
<1>2. On(r) \in Tenants /\ On(r) # None
  BY <1>1, OnWhat, NoneAssumption DEF Does
<1>3. UNCHANGED <<agent, policies, billing, stripe, expired, crossed>>
  BY DEF Bootstrap
<1>4. CASE tenant[On(r)] # "absent" /\ UNCHANGED <<tenant, key>>
  BY <1>1, <1>3, <1>4, LeavesQuietly DEF tables
<1>5. CASE tenant[On(r)] = "absent" /\ tenant' = [tenant EXCEPT ![On(r)] = "active"]
           /\ \E k \in {j \in Keys : key[j].status = "absent"} :
                key' = [key EXCEPT ![k] = [status |-> "active", tenant |-> On(r), admin |-> FALSE]]
  <2>1. PICK k \in Keys : /\ key[k].status = "absent"
          /\ key' = [key EXCEPT ![k] = [status |-> "active", tenant |-> On(r), admin |-> FALSE]]
    BY <1>5
  <2>2. key[k].tenant = None
    BY <2>1 DEF Structure, Unowned
  <2>3. RowsKept
    BY <1>2, <1>3, <1>5, <2>1, <2>2 DEF RowsKept, Structure, TypeOK, KeyRows, TenantRows, Unowned
  <2>4. Isolated
    BY <1>2, <1>3, <1>5, <2>1, <2>2 DEF Isolated, Structure, TypeOK, KeyRows
  <2>5. Accounts
    BY <1>3, AccountsStay
  <2> QED BY <1>1, <2>3, <2>4, <2>5, Leaves
<1> QED BY <1>4, <1>5 DEF Bootstrap

LEMMA UpdateTenantStep ==
  ASSUME Structure, NEW r \in Slots, UpdateTenant(r)
  PROVE  Structure' /\ Isolated
<1>1. At(r, "read") /\ Respond(r) /\ Does(r, "update_tenant") /\ ~At(r, "idle")
  BY DEF UpdateTenant, At
<1>2. On(r) \in Tenants
  BY <1>1, OnWhat DEF Does
<1>3. UNCHANGED <<key, agent, policies, billing, stripe, expired, crossed>>
  BY DEF UpdateTenant
<1>4. PICK s \in {"active", "inactive"} :
        tenant' = [tenant EXCEPT ![On(r)] = Written(tenant[On(r)], req[r].seen, s)]
  BY <1>2 DEF UpdateTenant, Structure, TypeOK, TenantRows
<1>5. Written(tenant[On(r)], req[r].seen, s) \in {tenant[On(r)], s}
  BY WrittenType
<1>6. tenant' \in TenantRows
  BY <1>2, <1>4, <1>5 DEF Structure, TypeOK, TenantRows
<1>7. RowsKept
  BY <1>3, <1>6 DEF RowsKept, Structure, TypeOK
<1>8. Isolated
  BY <1>3 DEF Isolated
<1>9. Accounts
  BY <1>3, AccountsStay
<1> QED BY <1>1, <1>7, <1>8, <1>9, Leaves

PolicyRow == [tenant : Tenants, version : Nat \ {0}, active : BOOLEAN]

\* What InsertPolicy appends and what it deactivates.
LEMMA PolicyInserted ==
  ASSUME Structure, NEW r \in Slots, InsertPolicy(r)
  PROVE  LET i == req[r].seen
             n == Len(policies) + 1
             v == IF i = 0 THEN 1 ELSE policies[i].version + 1
         IN  /\ policies \in Seq(PolicyRow) /\ policies' \in Seq(PolicyRow)
             /\ i # 0 => i \in DOMAIN policies /\ policies[i].tenant = TenantOf(r)
             /\ DOMAIN policies = 1..Len(policies) /\ DOMAIN policies' = 1..n
             /\ policies'[n] = [tenant |-> TenantOf(r), active |-> TRUE, version |-> v]
             /\ \A j \in DOMAIN policies : policies'[j] = IF j = i THEN [policies[j] EXCEPT !.active = FALSE]
                                                          ELSE policies[j]
<1> DEFINE i == req[r].seen
           n == Len(policies) + 1
           v == IF i = 0 THEN 1 ELSE policies[i].version + 1
           new == [tenant |-> TenantOf(r), active |-> TRUE, version |-> v]
           old == IF i = 0 THEN policies ELSE [policies EXCEPT ![i].active = FALSE]
<1>1. At(r, "read") /\ Does(r, "create_policy") /\ ~At(r, "idle") /\ ~At(r, "arrived") /\ ~Does(r, "bootstrap")
  BY DEF InsertPolicy, At, Does
<1>2. policies \in Seq(PolicyRow) /\ TenantOf(r) \in Tenants
  BY <1>1, Requester DEF Structure, TypeOK, PolicyRow
<1>3. i # 0 => i \in DOMAIN policies /\ policies[i].tenant = TenantOf(r)
  BY <1>1 DEF Structure, Answering, Owned, At, Does
<1>4. policies' = Append(old, new)
  BY DEF InsertPolicy, NextPolicies
<1>5. new \in PolicyRow
  <2>1. i # 0 => policies[i] \in PolicyRow
    BY <1>2, <1>3
  <2>2. v \in Nat \ {0}
    BY <2>1 DEF PolicyRow
  <2> HIDE DEF v
  <2> QED BY <1>2, <2>2 DEF PolicyRow
<1>6. /\ old \in Seq(PolicyRow) /\ Len(old) = Len(policies)
      /\ \A j \in DOMAIN policies : old[j] = IF j = i THEN [policies[j] EXCEPT !.active = FALSE] ELSE policies[j]
  <2>1. DOMAIN policies = 1..Len(policies) /\ Len(policies) \in Nat /\ 0 \notin DOMAIN policies
    BY <1>2
  <2>2. CASE i = 0
    BY <1>2, <2>1, <2>2
  <2>3. CASE i # 0
    <3>1. policies[i] \in PolicyRow
      BY <1>2, <1>3, <2>3
    <3> DEFINE w == [policies[i] EXCEPT !.active = FALSE]
    <3>2. w \in PolicyRow
      BY <3>1 DEF PolicyRow
    <3>3. old = [policies EXCEPT ![i] = w]
      BY <2>3
    <3>4. \A j \in DOMAIN policies : old[j] = IF j = i THEN w ELSE policies[j]
      BY <1>3, <2>3, <3>3
    <3>5. \A j \in DOMAIN policies : old[j] = IF j = i THEN [policies[j] EXCEPT !.active = FALSE] ELSE policies[j]
      BY <3>4
    <3> HIDE DEF w, old
    <3>6. old \in Seq(PolicyRow) /\ Len(old) = Len(policies)
      BY <1>2, <1>3, <2>3, <3>2, <3>3
    <3> QED BY <3>5, <3>6
  <2> QED BY <2>2, <2>3
<1> HIDE DEF old, new
<1>7. /\ policies' \in Seq(PolicyRow) /\ DOMAIN policies = 1..Len(policies) /\ DOMAIN policies' = 1..n
      /\ policies'[n] = new /\ \A j \in DOMAIN policies : policies'[j] = old[j]
  BY <1>2, <1>4, <1>5, <1>6
<1> QED BY <1>2, <1>3, <1>6, <1>7 DEF new

\* A tenant's creations cross.
LEMMA CrossType ==
  ASSUME Structure, NEW r \in Slots, NEW what \in {"create_policy", "customer"}, NEW pcs,
         TenantOf(r) \in Tenants, Cross(r, what, pcs)
  PROVE  crossed \subseteq crossed' /\ crossed' \subseteq {"create_policy", "customer"} \X Tenants
BY DEF Cross, Structure, TypeOK

LEMMA InsertPolicyStep ==
  ASSUME Structure, NEW r \in Slots, InsertPolicy(r)
  PROVE  Structure' /\ Isolated
<1> DEFINE i == req[r].seen
           n == Len(policies) + 1
<1>1. At(r, "read") /\ Respond(r) /\ ~Does(r, "bootstrap") /\ Cross(r, "create_policy", {"read"})
  BY DEF InsertPolicy, Does
<1>2. MayChange(TenantOf(r)) /\ TenantOf(r) \in Tenants
  BY <1>1, RespondChanges DEF At
<1>3. UNCHANGED <<tenant, key, agent, billing, stripe, expired>>
  BY DEF InsertPolicy
<1>4. /\ policies \in Seq(PolicyRow) /\ policies' \in Seq(PolicyRow)
      /\ i # 0 => i \in DOMAIN policies /\ policies[i].tenant = TenantOf(r)
      /\ DOMAIN policies = 1..Len(policies) /\ DOMAIN policies' = 1..n
      /\ policies'[n].tenant = TenantOf(r)
      /\ \A j \in DOMAIN policies : policies'[j] = IF j = i THEN [policies[j] EXCEPT !.active = FALSE]
                                                   ELSE policies[j]
  <2>1. i \in Nat /\ TenantOf(r) \in Tenants
    BY <1>1, <1>2, OnWhat DEF At
  <2> DEFINE v == IF i = 0 THEN 1 ELSE policies[i].version + 1
  <2>2. /\ policies \in Seq(PolicyRow) /\ policies' \in Seq(PolicyRow)
        /\ i # 0 => i \in DOMAIN policies /\ policies[i].tenant = TenantOf(r)
        /\ DOMAIN policies = 1..Len(policies) /\ DOMAIN policies' = 1..n
        /\ policies'[n] = [tenant |-> TenantOf(r), active |-> TRUE, version |-> v]
        /\ \A j \in DOMAIN policies : policies'[j] = IF j = i THEN [policies[j] EXCEPT !.active = FALSE]
                                                     ELSE policies[j]
    BY PolicyInserted, Zenon
  <2> HIDE DEF v, n, i
  <2>3. policies'[n].tenant = TenantOf(r)
    BY <2>2
  <2> QED BY <2>2, <2>3
<1> HIDE DEF i
<1>5. \A j \in DOMAIN policies : policies'[j].tenant = policies[j].tenant
  <2>1. \A j \in DOMAIN policies : policies[j] \in PolicyRow
    BY <1>4
  <2> QED BY <1>4, <2>1 DEF PolicyRow
<1>6. DOMAIN policies \subseteq DOMAIN policies' /\ DOMAIN policies' = DOMAIN policies \cup {n}
  <2>1. Len(policies) \in Nat
    BY <1>4
  <2> QED BY <1>4, <2>1
<1>7. RowsKept
  BY <1>3, <1>4, <1>5, <1>6 DEF RowsKept, Structure, TypeOK, PolicyRow
<1>8. Isolated
  <2>1. ASSUME NEW j \in DOMAIN policies', j \notin DOMAIN policies \/ policies'[j] # policies[j]
        PROVE  policies'[j].tenant = TenantOf(r)
    <3>1. CASE j \notin DOMAIN policies
      BY <1>4, <1>6, <3>1
    <3>2. CASE j \in DOMAIN policies
      <4>1. j = i
        BY <1>4, <2>1, <3>2, Zenon
      <4>2. i # 0
        BY <1>4, <3>2, <4>1
      <4> QED BY <1>4, <1>5, <3>2, <4>1, <4>2
    <3> QED BY <3>1, <3>2
  <2> QED BY <1>2, <1>3, <2>1 DEF Isolated
<1>9. Accounts
  BY <1>1, <1>2, <1>3, CrossType DEF Accounts, Structure, TypeOK
<1> QED BY <1>1, <1>7, <1>8, <1>9, Leaves

\* The steps at Stripe and those that record what it answered.
LEMMA BillingStep ==
  ASSUME Structure, NEW r \in Slots,
         \/ CreateCustomer(r) \/ CreateSubscription(r) \/ RecordCustomer(r) \/ RecordSubscription(r)
  PROVE  Structure' /\ Isolated
<1> DEFINE t == TenantOf(r)
<1>1. /\ req[r].pc \in {"authorised", "charged"} /\ ~At(r, "idle") /\ ~At(r, "arrived")
      /\ ~Does(r, "bootstrap") /\ UNCHANGED <<tenant, key, agent, policies, expired>>
  BY DEF CreateCustomer, CreateSubscription, RecordCustomer, RecordSubscription, At, Does
<1>2. t \in Tenants /\ t # None /\ req[r].seen \in Nat
  BY <1>1, Requester, OnWhat, NoneAssumption
<1>3. Prepared(r, "charged", 0) /\ \A seen \in Nat : Prepared(r, "charged", seen)
  BY <1>1, <1>2 DEF Prepared
<1>4. /\ billing \in [Tenants -> [customer : Nat, subscription : Nat]]
      /\ stripe \in [Tenants -> [customers : Nat, subscriptions : Seq(Nat)]]
  BY DEF Structure, TypeOK
<1>5. CASE CreateCustomer(r)
  <2>1. /\ stripe' = [stripe EXCEPT ![t] = [stripe[t] EXCEPT !.customers = stripe[t].customers + 1]]
        /\ Goto(r, "charged", stripe[t].customers + 1) /\ Cross(r, "customer", {"charged"})
        /\ billing' = billing
    BY <1>2, <1>4, <1>5 DEF CreateCustomer
  <2>2. stripe[t].customers \in Nat /\ stripe[t].subscriptions \in Seq(Nat)
    BY <1>2, <1>4
  <2>3. stripe' \in [Tenants -> [customers : Nat, subscriptions : Seq(Nat)]]
    <3>1. stripe[t] \in [customers : Nat, subscriptions : Seq(Nat)] /\ stripe[t].customers + 1 \in Nat
      BY <1>2, <1>4, <2>2
    <3>2. [stripe[t] EXCEPT !.customers = stripe[t].customers + 1] \in [customers : Nat, subscriptions : Seq(Nat)]
      BY <3>1
    <3> QED BY <1>2, <1>4, <2>1, <3>2
  <2>4. Accounts
    BY <1>1, <1>2, <1>4, <2>1, <2>3, CrossType DEF Accounts, Structure, TypeOK
  <2>5. Structure'
    <3>1. Prepared(r, "charged", stripe[t].customers + 1)
      BY <1>3, <2>2
    <3> HIDE DEF t
    <3> QED BY <1>1, <2>1, <2>2, <2>4, <3>1, GoesOn DEF Pcs
  <2>6. MayChange(t)
    <3>1. req'[r].pc = "charged" /\ req[r].pc = "authorised"
      <4>1. At(r, "authorised") /\ ~At(r, "idle") /\ TypeOK /\ "charged" \in Pcs
        BY <1>5 DEF CreateCustomer, At, Structure, Pcs
      <4>2. stripe[t].customers + 1 \in Nat
        BY <2>2
      <4> HIDE DEF t
      <4> QED BY <2>1, <4>1, <4>2, WentOn DEF At
    <3> QED BY <1>1, <3>1, RequesterMayChange
  <2> QED BY <1>1, <1>2, <1>4, <2>1, <2>5, <2>6 DEF Isolated
<1>6. CASE CreateSubscription(r)
  <2>1. /\ stripe' = [stripe EXCEPT ![t] = [stripe[t] EXCEPT !.subscriptions = Append(stripe[t].subscriptions, req[r].seen)]]
        /\ Goto(r, "charged", Len(stripe[t].subscriptions) + 1)
        /\ billing' = billing /\ crossed' = crossed
    BY <1>2, <1>4, <1>6 DEF CreateSubscription
  <2>2. /\ stripe[t].customers \in Nat /\ stripe[t].subscriptions \in Seq(Nat)
        /\ Len(stripe[t].subscriptions) + 1 \in Nat
    BY <1>2, <1>4
  <2>3. stripe' \in [Tenants -> [customers : Nat, subscriptions : Seq(Nat)]]
    <3>1. Append(stripe[t].subscriptions, req[r].seen) \in Seq(Nat)
      BY <1>2, <2>2
    <3>2. [stripe[t] EXCEPT !.subscriptions = Append(stripe[t].subscriptions, req[r].seen)]
            \in [customers : Nat, subscriptions : Seq(Nat)]
      BY <1>2, <1>4, <3>1
    <3> QED BY <1>2, <1>4, <2>1, <3>2
  <2>4. Accounts
    BY <1>1, <1>4, <2>1, <2>3 DEF Accounts, Structure, TypeOK
  <2>5. Structure'
    <3>1. Prepared(r, "charged", Len(stripe[t].subscriptions) + 1)
      BY <1>3, <2>2
    <3> HIDE DEF t
    <3> QED BY <1>1, <2>1, <2>2, <2>4, <3>1, GoesOn DEF Pcs
  <2>6. MayChange(t)
    <3>1. req'[r].pc = "charged" /\ req[r].pc = "authorised"
      BY <1>1, <1>6, <2>1, <2>2, WentOn DEF CreateSubscription, At, Structure, Pcs
    <3> QED BY <1>1, <3>1, RequesterMayChange
  <2> QED BY <1>1, <1>2, <1>4, <2>1, <2>5, <2>6 DEF Isolated
<1>7. CASE RecordCustomer(r) \/ RecordSubscription(r)
  <2>1. Respond(r) /\ stripe' = stripe
    BY <1>7 DEF RecordCustomer, RecordSubscription
  <2>2. MayChange(t)
    BY <1>1, <2>1, RespondChanges
  <2>3. /\ billing' \in [Tenants -> [customer : Nat, subscription : Nat]]
        /\ \A u \in Tenants \ {t} : billing'[u] = billing[u]
    <3>1. CASE billing' = [billing EXCEPT ![t].customer = req[r].seen]
      BY <1>2, <1>4, <3>1
    <3>2. CASE billing' = [billing EXCEPT ![t].subscription = req[r].seen]
      BY <1>2, <1>4, <3>2
    <3> QED BY <1>7, <3>1, <3>2 DEF RecordCustomer, RecordSubscription
  <2>4. crossed' \subseteq {"create_policy", "customer"} \X Tenants
    <3>1. CASE RecordCustomer(r)
      BY <1>2, <3>1, CrossType DEF RecordCustomer
    <3>2. CASE RecordSubscription(r)
      BY <3>2 DEF RecordSubscription, Structure, TypeOK
    <3> QED BY <1>7, <3>1, <3>2
  <2>5. Accounts
    BY <1>1, <1>4, <2>1, <2>3, <2>4 DEF Accounts, Structure, TypeOK
  <2>6. Structure'
    BY <1>1, <2>1, <2>5, TablesKeepRows, Leaves
  <2> QED BY <1>1, <2>1, <2>2, <2>3, <2>6 DEF Isolated
<1> QED BY <1>5, <1>6, <1>7

LEMMA ArriveStep ==
  ASSUME Structure, NEW r \in Slots, Arrive(r)
  PROVE  Structure' /\ Isolated
<1>1. PICK op \in Asked, k \in Keys \cup {None} :
        /\ (k = None) <=> (op.what = "bootstrap")
        /\ req' = [req EXCEPT ![r] = [pc |-> IF k = None THEN "authorised" ELSE "arrived",
                                      op |-> op, key |-> k, seen |-> 0]]
  BY DEF Arrive
<1>2. UNCHANGED <<tables, expired, crossed>>
  BY DEF Arrive
<1>3. req \in [Slots -> {Idle} \cup Request]
  BY DEF Structure, TypeOK, Request, Pcs
<1>4. [pc |-> IF k = None THEN "authorised" ELSE "arrived", op |-> op, key |-> k, seen |-> 0] \in Request
  BY AskedAssumption DEF Request, Pcs
<1>5. req' \in [Slots -> {Idle} \cup Request] /\ OthersStay(r)
  BY <1>1, <1>3, <1>4 DEF OthersStay
<1>6. Answering(r)'
  BY <1>1, <1>3 DEF Answering, At, Does
<1>7. RowsKept /\ Accounts /\ Isolated
  BY <1>2, TablesKeepRows, AccountsStay, NoTableIsolated DEF tables
<1> QED BY <1>5, <1>6, <1>7, StructureStays DEF Accounts

LEMMA AbortStep ==
  ASSUME Structure, NEW r \in Slots, Abort(r)
  PROVE  Structure' /\ Isolated
<1>1. ~At(r, "idle") /\ Respond(r) /\ UNCHANGED <<tables, expired>>
  BY DEF Abort
<1>2. crossed' \subseteq {"create_policy", "customer"} \X Tenants
  <2>1. CASE At(r, "charged") /\ Does(r, "customer")
    <3>1. ~At(r, "arrived") /\ ~Does(r, "bootstrap")
      BY <2>1 DEF At, Does
    <3>2. TenantOf(r) \in Tenants
      BY <1>1, <3>1, Requester
    <3> QED BY <2>1, <3>2 DEF Abort, Structure, TypeOK
  <2>2. CASE ~(At(r, "charged") /\ Does(r, "customer"))
    BY <2>2 DEF Abort, Structure, TypeOK
  <2> QED BY <2>1, <2>2
<1>3. RowsKept /\ Isolated
  BY <1>1, TablesKeepRows, NoTableIsolated DEF tables
<1>4. Accounts
  BY <1>1, <1>2 DEF Accounts, tables, Structure, TypeOK
<1> QED BY <1>1, <1>3, <1>4, Leaves

LEMMA StandsStill ==
  ASSUME Structure, UNCHANGED <<tables, req, crossed>>, expired' \subseteq Expiring
  PROVE  Structure' /\ Isolated
<1>1. TypeOK'
  BY DEF Structure, TypeOK, tables
<1>2. ASSUME NEW r \in Slots PROVE At(r, "idle")' \/ Answering(r)'
  BY DEF Structure, At, Answering, Does, TenantOf, On, Owned, tables
<1> QED BY <1>1, <1>2, NoTableIsolated DEF Structure, tables

LEMMA StructureInitially == Init => Structure
<1> SUFFICES ASSUME Init PROVE Structure
  OBVIOUS
<1>1. PICK d \in Deployments : tenant = d.tenant /\ key = d.key /\ agent = d.agent
  BY DEF Init
<1>2. /\ tenant \in TenantRows /\ key \in KeyRows /\ agent \in AgentRows
      /\ (\A k \in Keys : Unowned(key[k])) /\ (\A a \in Agents : Unowned(agent[a]))
  BY <1>1, DeploymentsAssumption
<1>3. policies \in Seq([tenant : Tenants, version : Nat \ {0}, active : BOOLEAN])
  BY DEF Init
<1>4. <<>> \in Seq(Nat)
  OBVIOUS
<1>5. \A r \in Slots : At(r, "idle")
  BY DEF Init, At, Idle
<1>6. req \in [Slots -> {Idle} \cup Request]
  BY DEF Init
<1> QED BY <1>2, <1>3, <1>4, <1>5, <1>6 DEF Init, Structure, TypeOK, Request, Pcs

LEMMA StructureStep == Structure /\ [Next]_vars => Structure' /\ Isolated
<1> SUFFICES ASSUME Structure, [Next]_vars PROVE Structure' /\ Isolated
  OBVIOUS
<1>1. CASE UNCHANGED vars
  <2>1. UNCHANGED <<tables, req, crossed, expired>>
    BY <1>1 DEF vars, tables
  <2> QED BY <2>1, StandsStill DEF Structure, TypeOK
<1>2. ASSUME NEW k \in Keys, Expire(k) PROVE Structure' /\ Isolated
  BY <1>2, StandsStill DEF Expire, Structure, TypeOK
<1>3. ASSUME NEW r \in Slots, Arrive(r) \/ Serve(r) \/ Abort(r) PROVE Structure' /\ Isolated
  BY <1>3, ArriveStep, AbortStep, Authenticating, Selecting, Leaving, InsertAgentStep, WriteAgentStep,
     InsertKeyStep, RevokeKeyStep, BootstrapStep, UpdateTenantStep, InsertPolicyStep, BillingStep DEF Serve
<1> QED BY <1>1, <1>2, <1>3 DEF Next, Rest

\* Every reachable state is well typed; every row has a tenant, and what a
\* request has read is of its own.
THEOREM ControlPlaneStructure == Spec => []Structure
BY StructureInitially, StructureStep, PTL DEF Spec

\* Requests of a tenant change its own rows only, in every behaviour of any
\* number of requests that stand between their reads and their writes.
THEOREM TenantsAlwaysIsolated == Spec => TenantIsolation
BY ControlPlaneStructure, StructureStep, PTL DEF Spec, TenantIsolation

-----------------------------------------------------------------------------
(* Policy versions.                                                        *)

\* A request that stands still after authentication keeps its tenant.
LEMMA ReaderStays ==
  ASSUME Structure, Isolated, NEW o \in Slots, req'[o] = req[o],
         req[o].pc \in {"authorised", "read", "charged"}, ~Does(o, "bootstrap")
  PROVE  TenantOf(o)' = TenantOf(o)
<1>1. req[o].key \in Keys /\ TenantOf(o) \in Tenants /\ TenantOf(o) # None
  BY Requester, NoneAssumption DEF At
<1> QED BY <1>1 DEF Isolated, TenantOf

LEMMA ReadsStay ==
  ASSUME Structure, Isolated, NEW o \in Slots, req'[o] = req[o],
         NEW pcs, pcs \subseteq {"authorised", "read", "charged"}, NEW what, what # "bootstrap", NEW t
  PROVE  Reads(o, what, pcs, t)' <=> Reads(o, what, pcs, t)
<1>1. CASE req[o].pc \in pcs /\ Does(o, what)
  <2>1. TenantOf(o)' = TenantOf(o)
    BY <1>1, ReaderStays DEF Does
  <2> QED BY <2>1 DEF Reads, Does
<1>2. CASE ~(req[o].pc \in pcs /\ Does(o, what))
  BY <1>2 DEF Reads, Does
<1> QED BY <1>1, <1>2

\* Going on, whatever is seen.
LEMMA KeepsGoing ==
  ASSUME Structure, NEW r \in Slots, ~At(r, "idle"), NEW pc, NEW seen, Goto(r, pc, seen)
  PROVE  /\ OthersStay(r) /\ req'[r].pc = pc /\ req'[r].seen = seen
         /\ req'[r].op = req[r].op /\ req'[r].key = req[r].key
<1>1. req[r] \in Request /\ req \in [Slots -> {Idle} \cup Request]
  BY RequestType DEF Structure
<1> QED BY <1>1 DEF Goto, OthersStay, Request

LEMMA GoesAway ==
  ASSUME Structure, NEW r \in Slots, Respond(r)
  PROVE  OthersStay(r) /\ At(r, "idle")' /\ req'[r].pc = "idle"
BY Responded DEF Structure, At

\* The step leaves the policies alone and r without one it has read.
PolicyQuiet(r) ==
  /\ policies' = policies /\ crossed \subseteq crossed' /\ OthersStay(r)
  /\ ~(req'[r].pc = "read" /\ req'[r].op.what = "create_policy")

LEMMA PolicyQuietSteps ==
  ASSUME Structure, NEW r \in Slots, Arrive(r) \/ Serve(r) \/ Abort(r)
  PROVE  SelectPolicy(r) \/ InsertPolicy(r) \/ PolicyQuiet(r)
<1>1. CASE Arrive(r)
  <2>1. req \in [Slots -> {Idle} \cup Request]
    BY DEF Structure, TypeOK, Request, Pcs
  <2> QED BY <1>1, <2>1 DEF Arrive, PolicyQuiet, OthersStay, tables
<1>2. CASE FindKey(r) \/ TouchKey(r) \/ Authorise(r)
  <2>1. ~At(r, "idle") /\ policies' = policies /\ crossed' = crossed
    BY <1>2 DEF FindKey, TouchKey, Authorise, At, tables
  <2>2. \/ Respond(r) \/ Goto(r, "found", 0) \/ Goto(r, "touched", 0)
        \/ Goto(r, "authorised", billing[TenantOf(r)].customer)
    BY <1>2 DEF FindKey, TouchKey, Authorise
  <2> QED BY <2>1, <2>2, KeepsGoing, GoesAway DEF PolicyQuiet
<1>3. CASE SelectName(r) \/ SelectTenant(r) \/ SelectAgent(r) \/ SelectKey(r)
  <2>1. /\ ~At(r, "idle") /\ policies' = policies /\ crossed' = crossed
        /\ req[r].op.what # "create_policy" /\ (Respond(r) \/ \E seen : Goto(r, "read", seen))
    BY <1>3 DEF SelectName, SelectTenant, SelectAgent, SelectKey, Select, At, Does, tables
  <2> QED BY <2>1, KeepsGoing, GoesAway DEF PolicyQuiet
<1>4. CASE \/ List(r) \/ KeepCustomer(r) \/ RefuseSubscription(r) \/ Deadlocked(r) \/ Full(r)
           \/ InsertAgent(r) \/ WriteAgent(r) \/ InsertKey(r) \/ RevokeKey(r)
           \/ Bootstrap(r) \/ UpdateTenant(r) \/ RecordSubscription(r)
  <2>1. Respond(r) /\ policies' = policies /\ crossed' = crossed
    BY <1>4 DEF List, KeepCustomer, RefuseSubscription, Deadlocked, Full, InsertAgent, WriteAgent,
                InsertKey, RevokeKey, Bootstrap, UpdateTenant, RecordSubscription, tables
  <2> QED BY <2>1, GoesAway DEF PolicyQuiet
<1>5. CASE RecordCustomer(r) \/ Abort(r)
  <2>1. Respond(r) /\ policies' = policies /\ crossed \subseteq crossed'
    BY <1>5 DEF RecordCustomer, Abort, Cross, tables
  <2> QED BY <2>1, GoesAway DEF PolicyQuiet
<1>6. CASE CreateCustomer(r) \/ CreateSubscription(r)
  <2>1. /\ ~At(r, "idle") /\ policies' = policies /\ crossed \subseteq crossed'
        /\ \E seen : Goto(r, "charged", seen)
    BY <1>6 DEF CreateCustomer, CreateSubscription, Cross, At
  <2> QED BY <2>1, KeepsGoing DEF PolicyQuiet
<1> QED BY <1>1, <1>2, <1>3, <1>4, <1>5, <1>6 DEF Serve

LEMMA VersionsStay ==
  ASSUME Structure, Isolated, VersionsInv, NEW r \in Slots, PolicyQuiet(r)
  PROVE  VersionsInv'
<1>1. \A t : Ids(t)' = Ids(t) /\ Latest(t)' = Latest(t) /\ policies' = policies
  BY DEF PolicyQuiet, Ids, Latest
<1>2. ASSUME NEW t \in Tenants, <<"create_policy", t>> \notin crossed' PROVE Counted(t)'
  <2>1. Counted(t)
    BY <1>2 DEF PolicyQuiet, VersionsInv
  <2>2. ASSUME NEW o \in Slots, Reads(o, "create_policy", {"read"}, t)'
        PROVE  Reads(o, "create_policy", {"read"}, t) /\ req'[o].seen = req[o].seen
    <3>1. o # r
      BY <2>2 DEF PolicyQuiet, Reads, Does
    <3>2. req'[o] = req[o]
      BY <3>1 DEF PolicyQuiet, OthersStay
    <3> QED BY <2>2, <3>2, ReadsStay
  <2> QED BY <1>1, <2>1, <2>2 DEF Counted
<1> QED BY <1>1, <1>2 DEF VersionsInv

\* A tenant with policies has a newest one.
LEMMA NewestExists ==
  ASSUME Structure, NEW t \in Tenants, Counted(t), Ids(t) # {}
  PROVE  /\ Latest(t) # {} /\ Cardinality(Ids(t)) \in Nat \ {0}
         /\ \A i \in Latest(t) : i \in Ids(t) /\ policies[i].version = Cardinality(Ids(t))
<1> DEFINE c == Cardinality(Ids(t))
<1>1. IsFiniteSet(Ids(t))
  <2>1. DOMAIN policies = 1..Len(policies) /\ Len(policies) \in Nat
    BY DEF Structure, TypeOK
  <2>2. IsFiniteSet(1..Len(policies))
    BY <2>1, FS_Interval
  <2> QED BY <2>1, <2>2, FS_Subset DEF Ids
<1>2. c \in Nat /\ c # 0
  BY <1>1, FS_CardinalityType, FS_EmptySet
<1>3. {policies[i].version : i \in Ids(t)} = 1..c
  BY DEF Counted
<1> HIDE DEF c
<1>4. PICK k \in Ids(t) : policies[k].version = c
  BY <1>2, <1>3
<1>5. \A i \in Ids(t) : policies[i].version \in 1..c
  BY <1>3
<1>6. k \in Latest(t)
  BY <1>2, <1>4, <1>5 DEF Latest, Ids
<1>7. ASSUME NEW i \in Latest(t) PROVE i \in Ids(t) /\ policies[i].version = c
  BY <1>2, <1>4, <1>5 DEF Latest, Ids
<1> QED BY <1>2, <1>6, <1>7 DEF c

LEMMA SelectPolicyVersions ==
  ASSUME Structure, Isolated, VersionsInv, NEW r \in Slots, SelectPolicy(r)
  PROVE  VersionsInv'
<1>1. ~At(r, "idle") /\ At(r, "authorised") /\ Does(r, "create_policy") /\ UNCHANGED <<tables, crossed>>
  BY DEF SelectPolicy, Select, At
<1>2. PICK i \in IF Latest(TenantOf(r)) = {} THEN {0} ELSE Latest(TenantOf(r)) : Goto(r, "read", i)
  BY DEF SelectPolicy, Select
<1>3. OthersStay(r) /\ req'[r].seen = i /\ req'[r].key = req[r].key
  BY <1>1, <1>2, KeepsGoing
<1>4. \A t : Ids(t)' = Ids(t) /\ Latest(t)' = Latest(t)
  BY <1>1 DEF Ids, Latest, tables
<1>5. TenantOf(r)' = TenantOf(r)
  BY <1>1, <1>3 DEF TenantOf, tables
<1>6. ASSUME NEW t \in Tenants, <<"create_policy", t>> \notin crossed PROVE Counted(t)'
  <2>1. Counted(t)
    BY <1>6 DEF VersionsInv
  <2>2. ASSUME NEW o \in Slots, Reads(o, "create_policy", {"read"}, t)'
        PROVE  IF Ids(t) = {} THEN req'[o].seen = 0 ELSE req'[o].seen \in Latest(t)
    <3>1. CASE o = r
      <4>1. TenantOf(r) = t
        BY <1>5, <2>2, <3>1 DEF Reads
      <4>2. Ids(t) = {} => Latest(t) = {}
        BY DEF Ids, Latest
      <4> QED BY <1>2, <1>3, <2>1, <3>1, <4>1, <4>2, NewestExists
    <3>2. CASE o # r
      <4>1. req'[o] = req[o]
        BY <1>3, <3>2 DEF OthersStay
      <4>2. Reads(o, "create_policy", {"read"}, t)
        BY <2>2, <4>1, ReadsStay
      <4> QED BY <2>1, <4>1, <4>2 DEF Counted
    <3> QED BY <3>1, <3>2
  <2> QED BY <1>1, <1>4, <2>1, <2>2 DEF Counted, tables
<1> QED BY <1>1, <1>4, <1>6 DEF VersionsInv, tables

\* What InsertPolicy does to a tenant's rows.
LEMMA PolicyRows ==
  ASSUME Structure, NEW r \in Slots, InsertPolicy(r), NEW t \in Tenants, TenantOf(r) = t
  PROVE  LET i == req[r].seen
             n == Len(policies) + 1
         IN  /\ n \notin DOMAIN policies /\ Ids(t)' = Ids(t) \cup {n}
             /\ \A u \in Tenants \ {t} : Ids(u)' = Ids(u)
             /\ policies'[n].active = TRUE
             /\ policies'[n].version = IF i = 0 THEN 1 ELSE policies[i].version + 1
             /\ i # 0 => i \in Ids(t)
             /\ \A j \in DOMAIN policies : /\ policies'[j].version = policies[j].version
                                           /\ policies'[j].active = (j # i /\ policies[j].active)
             /\ \A j \in DOMAIN policies : policies[j].version \in Nat \ {0}
<1> DEFINE i == req[r].seen
           n == Len(policies) + 1
           v == IF i = 0 THEN 1 ELSE policies[i].version + 1
<1>1. /\ policies \in Seq(PolicyRow) /\ policies' \in Seq(PolicyRow)
      /\ i # 0 => i \in DOMAIN policies /\ policies[i].tenant = t
      /\ DOMAIN policies = 1..Len(policies) /\ DOMAIN policies' = 1..n
      /\ policies'[n] = [tenant |-> t, active |-> TRUE, version |-> v]
      /\ \A j \in DOMAIN policies : policies'[j] = IF j = i THEN [policies[j] EXCEPT !.active = FALSE]
                                                   ELSE policies[j]
  BY PolicyInserted, Zenon
<1>2. Len(policies) \in Nat /\ n \notin DOMAIN policies /\ DOMAIN policies' = DOMAIN policies \cup {n}
  <2>1. Len(policies) \in Nat
    BY <1>1
  <2> QED BY <1>1, <2>1
<1> HIDE DEF i, n, v
<1>3. policies'[n].tenant = t /\ policies'[n].active = TRUE /\ policies'[n].version = v
  BY <1>1
<1>4. \A j \in DOMAIN policies : policies[j] \in PolicyRow
  BY <1>1
<1>5. ASSUME NEW j \in DOMAIN policies
      PROVE  /\ policies'[j].version = policies[j].version /\ policies'[j].tenant = policies[j].tenant
             /\ policies'[j].active = (j # i /\ policies[j].active)
             /\ policies[j].version \in Nat \ {0}
  BY <1>1, <1>4 DEF PolicyRow
<1>6. Ids(t)' = Ids(t) \cup {n}
  BY <1>2, <1>3, <1>5 DEF Ids
<1>7. \A u \in Tenants \ {t} : Ids(u)' = Ids(u)
  BY <1>2, <1>3, <1>5 DEF Ids
<1> QED BY <1>1, <1>2, <1>3, <1>5, <1>6, <1>7 DEF Ids, i, n, v

LEMMA InsertPolicyVersions ==
  ASSUME Structure, Structure', Isolated, VersionsInv, NEW r \in Slots, InsertPolicy(r)
  PROVE  VersionsInv'
<1> DEFINE i == req[r].seen
           n == Len(policies) + 1
           V(j) == policies[j].version
<1>1. At(r, "read") /\ Does(r, "create_policy") /\ Respond(r) /\ Cross(r, "create_policy", {"read"})
  BY DEF InsertPolicy
<1>2. TenantOf(r) \in Tenants
  BY <1>1, Requester DEF At, Does
<1>3. PICK t \in Tenants : TenantOf(r) = t
  BY <1>2
<1>4. /\ n \notin DOMAIN policies /\ Ids(t)' = Ids(t) \cup {n}
      /\ \A u \in Tenants \ {t} : Ids(u)' = Ids(u)
      /\ policies'[n].active = TRUE
      /\ policies'[n].version = IF i = 0 THEN 1 ELSE V(i) + 1
      /\ i # 0 => i \in Ids(t)
      /\ \A j \in DOMAIN policies : /\ policies'[j].version = V(j)
                                    /\ policies'[j].active = (j # i /\ policies[j].active)
      /\ \A j \in DOMAIN policies : V(j) \in Nat \ {0}
  BY <1>3, PolicyRows, Zenon
<1>5. OthersStay(r) /\ At(r, "idle")' /\ i \in Nat /\ 0 \notin DOMAIN policies
  <2>1. 0 \notin DOMAIN policies
    BY DEF Structure, TypeOK
  <2> QED BY <1>1, <2>1, GoesAway, OnWhat DEF At
<1>6. /\ \A u \in Tenants : Latest(u)' = {j \in Ids(u)' : \A k \in Ids(u)' : policies'[k].version <= policies'[j].version}
      /\ \A u \in Tenants : Latest(u) = {j \in Ids(u) : \A k \in Ids(u) : V(k) <= V(j)}
      /\ \A u \in Tenants : Ids(u) \subseteq DOMAIN policies
  BY DEF Latest, Ids
<1>7. crossed \subseteq crossed'
  BY <1>1 DEF Cross
<1> HIDE DEF i, n, V
<1>8. ASSUME NEW u \in Tenants, u # t
      PROVE  /\ Latest(u)' = Latest(u) /\ i \notin Ids(u)
             /\ \A j \in Ids(u) : policies'[j].version = V(j) /\ policies'[j].active = policies[j].active
  <2>1. i \notin Ids(u)
    BY <1>4, <1>5, <1>8 DEF Ids
  <2>2. \A j \in Ids(u) : policies'[j].version = V(j) /\ policies'[j].active = (j # i /\ policies[j].active)
    BY <1>4, <1>6
  <2>3. \A j \in Ids(u) : policies[j].active \in BOOLEAN
    <3>1. policies \in Seq(PolicyRow)
      BY DEF Structure, TypeOK, PolicyRow
    <3>2. \A j \in DOMAIN policies : policies[j] \in PolicyRow
      BY <3>1
    <3> QED BY <3>2 DEF Ids, PolicyRow
  <2>4. Latest(u)' = Latest(u)
    <3>1. Latest(u)' = {j \in Ids(u) : \A k \in Ids(u) : policies'[k].version <= policies'[j].version}
      BY <1>4, <1>6, <1>8
    <3>2. Latest(u) = {j \in Ids(u) : \A k \in Ids(u) : V(k) <= V(j)}
      BY <1>6
    <3>3. \A j, k \in Ids(u) : policies'[k].version <= policies'[j].version <=> V(k) <= V(j)
      BY <2>2
    <3> QED BY <3>1, <3>2, <3>3
  <2> QED BY <2>1, <2>2, <2>3, <2>4
<1>9. ASSUME NEW o \in Slots, NEW u \in Tenants, Reads(o, "create_policy", {"read"}, u)'
      PROVE  o # r /\ req'[o] = req[o] /\ Reads(o, "create_policy", {"read"}, u)
  <2>1. o # r
    BY <1>5, <1>9 DEF Reads, At
  <2>2. req'[o] = req[o]
    BY <1>5, <2>1 DEF OthersStay
  <2> QED BY <1>9, <2>1, <2>2, ReadsStay
\* The newest rows are active.
<1>10. ASSUME NEW j \in Latest(t)' PROVE policies'[j].active
  <2>1. CASE j = n
    BY <1>4, <2>1
  <2>2. CASE j # n
    <3>1. j \in Ids(t) /\ j \in DOMAIN policies /\ policies'[j].version = V(j)
      BY <1>4, <1>6, <1>10, <2>2
    <3>2. policies'[n].version <= V(j)
      BY <1>4, <1>6, <1>10, <3>1
    <3>3. j # i
      BY <1>4, <1>5, <3>1, <3>2
    <3>4. j \in Latest(t)
      BY <1>4, <1>6, <1>10, <3>1
    <3> QED BY <1>4, <3>1, <3>3, <3>4 DEF VersionsInv
  <2> QED BY <2>1, <2>2
\* A creation that crossed no other found and replaced the newest row.
<1>11. ASSUME <<"create_policy", t>> \notin crossed' PROVE Counted(t)'
  <2> DEFINE c == Cardinality(Ids(t))
  <2>1. Counted(t)
    BY <1>7, <1>11 DEF VersionsInv
  <2>2. IF Ids(t) = {} THEN i = 0 ELSE i \in Latest(t)
    BY <1>1, <1>3, <2>1 DEF Counted, Reads, At, i
  <2>3. \A o \in Slots : ~Reads(o, "create_policy", {"read"}, t)'
    <3>1. ~Overlaps(r, "create_policy", {"read"})
      BY <1>1, <1>3, <1>11 DEF Cross
    <3> QED BY <1>3, <1>9, <3>1 DEF Overlaps, Reads
  <2>4. IsFiniteSet(Ids(t))
    <3>1. DOMAIN policies = 1..Len(policies) /\ Len(policies) \in Nat
      BY DEF Structure, TypeOK
    <3>2. IsFiniteSet(1..Len(policies))
      BY <3>1, FS_Interval
    <3> QED BY <3>1, <3>2, FS_Subset DEF Ids
  <2>5. c \in Nat /\ Cardinality(Ids(t) \cup {n}) = c + 1
    BY <1>4, <1>6, <2>4, FS_CardinalityType, FS_AddElement
  <2>6. {V(j) : j \in Ids(t)} = 1..c
    BY <2>1 DEF Counted, V
  <2>7. \A j, k \in Ids(t) : V(j) = V(k) => j = k
    BY <2>1 DEF Counted, V
  <2>8. policies'[n].version = c + 1
    <3>1. CASE Ids(t) = {}
      BY <1>4, <2>2, <3>1, FS_EmptySet
    <3>2. CASE Ids(t) # {}
      <4>1. V(i) = c /\ i # 0
        BY <1>5, <1>6, <2>1, <2>2, <3>2, NewestExists DEF V
      <4> QED BY <1>4, <4>1
    <3> QED BY <3>1, <3>2
  <2> HIDE DEF c
  <2>9. \A j \in Ids(t) : policies'[j].version = V(j) /\ V(j) \in 1..c
    BY <1>4, <1>6, <2>6
  <2>10. {policies'[j].version : j \in Ids(t)'} = 1..(c + 1)
    <3>1. 1..(c + 1) = 1..c \cup {c + 1}
      BY <2>5
    <3>2. {policies'[j].version : j \in Ids(t) \cup {n}} = {V(j) : j \in Ids(t)} \cup {c + 1}
      BY <2>8, <2>9
    <3> QED BY <1>4, <2>6, <3>1, <3>2
  <2>11. Latest(t)' = {n}
    BY <1>4, <1>6, <2>5, <2>8, <2>9
  <2>12. {j \in Ids(t)' : policies'[j].active} = {n}
    <3>1. ASSUME NEW j \in Ids(t) PROVE ~policies'[j].active
      <4>1. j \in DOMAIN policies /\ i \in Latest(t) /\ i \in Ids(t)
        BY <1>6, <2>2
      <4>2. CASE j = i
        BY <1>4, <4>1, <4>2
      <4>3. CASE j # i
        <5>1. j \notin Latest(t)
          BY <1>6, <2>1, <2>7, <4>1, <4>3, NewestExists DEF V
        <5>2. ~policies[j].active
          BY <2>1, <5>1 DEF Counted
        <5> QED BY <1>4, <4>1, <5>2
      <4> QED BY <4>2, <4>3
    <3> QED BY <1>4, <3>1
  <2>13. \A j, k \in Ids(t)' : policies'[j].version = policies'[k].version => j = k
    BY <1>4, <2>5, <2>7, <2>8, <2>9
  <2> QED BY <1>4, <2>3, <2>5, <2>10, <2>11, <2>12, <2>13 DEF Counted, c
<1>12. ASSUME NEW u \in Tenants, u # t, <<"create_policy", u>> \notin crossed' PROVE Counted(u)'
  <2>1. Counted(u)
    BY <1>7, <1>12 DEF VersionsInv
  <2>2. /\ Ids(u)' = Ids(u) /\ Latest(u)' = Latest(u)
        /\ \A j \in Ids(u) : policies'[j].version = V(j) /\ policies'[j].active = policies[j].active
    BY <1>4, <1>8, <1>12
  <2>3. ASSUME NEW o \in Slots, Reads(o, "create_policy", {"read"}, u)'
        PROVE  IF Ids(u) = {} THEN req'[o].seen = 0 ELSE req'[o].seen \in Latest(u)
    BY <1>9, <2>1, <2>3 DEF Counted
  <2>4. {policies'[j].version : j \in Ids(u)} = 1..Cardinality(Ids(u))
    BY <2>1, <2>2 DEF Counted, V
  <2>5. {j \in Ids(u) : policies'[j].active} = Latest(u)
    BY <2>1, <2>2 DEF Counted
  <2>6. \A j, k \in Ids(u) : policies'[j].version = policies'[k].version => j = k
    BY <2>1, <2>2 DEF Counted, V
  <2> QED BY <2>2, <2>3, <2>4, <2>5, <2>6 DEF Counted
<1>13. ASSUME NEW u \in Tenants, u # t, NEW j \in Latest(u)' PROVE policies'[j].active
  BY <1>6, <1>8, <1>13 DEF VersionsInv
<1> SUFFICES ASSUME NEW u \in Tenants
             PROVE  /\ \A j \in Latest(u)' : policies'[j].active
                    /\ <<"create_policy", u>> \notin crossed' => Counted(u)'
  BY Zenon DEF VersionsInv
<1>14. CASE u = t
  BY <1>10, <1>11, <1>14
<1> QED BY <1>12, <1>13, <1>14

LEMMA VersionsInitially == Init => VersionsInv
<1> SUFFICES ASSUME Init, NEW t \in Tenants PROVE (\A i \in Latest(t) : policies[i].active) /\ Counted(t)
  BY DEF VersionsInv
<1>1. Ids(t) = {} /\ Latest(t) = {} /\ Cardinality(Ids(t)) = 0
  BY FS_EmptySet DEF Init, Ids, Latest
<1>2. \A r \in Slots : ~Reads(r, "create_policy", {"read"}, t)
  BY DEF Init, Reads, Idle
<1> QED BY <1>1, <1>2 DEF Counted

LEMMA VersionsStep == Structure /\ VersionsInv /\ [Next]_vars => VersionsInv'
<1> SUFFICES ASSUME Structure, VersionsInv, [Next]_vars PROVE VersionsInv'
  OBVIOUS
<1>1. Structure' /\ Isolated
  BY StructureStep
<1>2. ASSUME UNCHANGED <<tables, req, crossed>> PROVE VersionsInv'
  <2>1. \A t : Ids(t)' = Ids(t) /\ Latest(t)' = Latest(t) /\ policies' = policies /\ crossed' = crossed
    BY <1>2 DEF Ids, Latest, tables
  <2>2. \A t, o : Reads(o, "create_policy", {"read"}, t)' = Reads(o, "create_policy", {"read"}, t)
    BY <1>2 DEF Reads, Does, TenantOf, tables
  <2>3. ASSUME NEW t \in Tenants, <<"create_policy", t>> \notin crossed' PROVE Counted(t)'
    <3>1. Counted(t)
      BY <2>1, <2>3 DEF VersionsInv
    <3>2. \A o \in Slots : req'[o].seen = req[o].seen
      BY <1>2
    <3> QED BY <2>1, <2>2, <3>1, <3>2 DEF Counted
  <2> QED BY <2>1, <2>3 DEF VersionsInv
<1>3. ASSUME NEW r \in Slots, Arrive(r) \/ Serve(r) \/ Abort(r) PROVE VersionsInv'
  BY <1>1, <1>3, PolicyQuietSteps, VersionsStay, SelectPolicyVersions, InsertPolicyVersions
<1> QED BY <1>2, <1>3 DEF Next, Rest, Expire, vars, tables

\* The newest version of every tenant is active in every reachable state, and
\* the only one, with versions counting up, unless creations overlapped.
THEOREM VersionsAlwaysExplained == Spec => []VersionsExplained
<1>1. VersionsInv => VersionsExplained
  BY DEF VersionsInv, VersionsExplained, Counted, Ids
<1> QED BY <1>1, VersionsInitially, VersionsStep, ControlPlaneStructure, PTL DEF Spec

-----------------------------------------------------------------------------
(* Customers at Stripe.                                                    *)

\* The step leaves t's accounts alone, and r outside their handlers; a customer
\* that r has created and not recorded is marked as lost.
BillingQuiet(r, t) ==
  /\ billing'[t] = billing[t] /\ stripe'[t] = stripe[t] /\ OthersStay(r)
  /\ crossed \subseteq crossed'
  /\ Charging(r, t) => <<"customer", t>> \in crossed'
  /\ \A what \in {"customer", "subscribe"} : ~Reads(r, what, {"authorised", "charged"}, t)'

LEMMA ReadsParts ==
  ASSUME NEW r, NEW t, \A what \in {"customer", "subscribe"} : ~Reads(r, what, {"authorised", "charged"}, t)
  PROVE  /\ ~Charging(r, t) /\ ~Reads(r, "customer", {"authorised"}, t)
         /\ ~Reads(r, "subscribe", {"authorised"}, t) /\ ~Reads(r, "subscribe", {"charged"}, t)
BY DEF Reads, Charging

\* Those who stand still in the handlers of t's accounts.
LEMMA HandlersStay ==
  ASSUME Structure, Isolated, NEW o \in Slots, req'[o] = req[o], NEW t
  PROVE  /\ Charging(o, t)' <=> Charging(o, t)
         /\ Reads(o, "customer", {"authorised"}, t)' <=> Reads(o, "customer", {"authorised"}, t)
         /\ Reads(o, "subscribe", {"authorised"}, t)' <=> Reads(o, "subscribe", {"authorised"}, t)
         /\ Reads(o, "subscribe", {"charged"}, t)' <=> Reads(o, "subscribe", {"charged"}, t)
         /\ req'[o].seen = req[o].seen
BY ReadsStay DEF Charging

LEMMA CustomerStays ==
  ASSUME Structure, Isolated, NEW t \in Tenants, OneCustomer(t), NEW r \in Slots, BillingQuiet(r, t),
         <<"customer", t>> \notin crossed'
  PROVE  OneCustomer(t)'
<1>1. \A o \in Slots \ {r} : req'[o] = req[o]
  BY DEF BillingQuiet, OthersStay
<1>2. /\ ~Charging(r, t)' /\ ~Reads(r, "customer", {"authorised"}, t)' /\ ~Charging(r, t)
      /\ ~Reads(r, "subscribe", {"authorised"}, t)' /\ ~Reads(r, "subscribe", {"charged"}, t)'
  BY DEF BillingQuiet, Reads, Charging
<1>3. billing'[t] = billing[t] /\ stripe'[t] = stripe[t]
  BY DEF BillingQuiet
<1>4. \A s : Subscribed(t, s)' <=> Subscribed(t, s)
  BY <1>3 DEF Subscribed
<1>5. NoCustomer(t) => NoCustomer(t)'
  BY <1>1, <1>2, <1>3, HandlersStay DEF NoCustomer
<1>6. Recorded(t) => Recorded(t)'
  BY <1>1, <1>2, <1>3, HandlersStay DEF Recorded
<1>7. Created(t) => Created(t)'
  <2> SUFFICES ASSUME Created(t) PROVE Created(t)'
    OBVIOUS
  <2>1. PICK q \in Slots : Charging(q, t) /\ req[q].seen = 1 /\ \A o \in Slots : Charging(o, t) => o = q
    BY DEF Created
  <2>2. q # r /\ req'[q] = req[q]
    BY <1>1, <1>2, <2>1
  <2>3. Charging(q, t)' /\ req'[q].seen = 1
    BY <2>1, <2>2, HandlersStay
  <2>4. \A o \in Slots : Charging(o, t)' => o = q
    BY <1>1, <1>2, <2>1, HandlersStay
  <2> QED BY <1>3, <2>3, <2>4 DEF Created
<1>8. ASSUME NEW o \in Slots PROVE AtAccounts(o, t)'
  <2>1. CASE o = r
    BY <1>2, <2>1 DEF AtAccounts
  <2>2. CASE o # r
    <3>1. AtAccounts(o, t)
      BY DEF OneCustomer
    <3> QED BY <1>1, <1>3, <2>2, <3>1, HandlersStay DEF AtAccounts, Subscribed
  <2> QED BY <2>1, <2>2
<1>10. billing'[t].subscription # 0 => Subscribed(t, billing[t].subscription)'
  BY <1>3 DEF Subscribed, OneCustomer
<1>11. (NoCustomer(t) \/ Created(t) \/ Recorded(t))'
  BY <1>5, <1>6, <1>7 DEF OneCustomer
<1> QED BY <1>8, <1>10, <1>11 DEF OneCustomer

\* Which steps touch whose accounts.
LEMMA BillingQuietSteps ==
  ASSUME Structure, NEW r \in Slots, Arrive(r) \/ Serve(r) \/ Abort(r), NEW t \in Tenants
  PROVE  \/ BillingQuiet(r, t)
         \/ /\ TenantOf(r) = t
            /\ \/ Authorise(r) \/ CreateCustomer(r) \/ CreateSubscription(r)
               \/ RecordCustomer(r) \/ RecordSubscription(r)
<1> DEFINE Still == billing' = billing /\ stripe' = stripe /\ crossed \subseteq crossed'
           Out == req'[r].pc \notin {"authorised", "charged"} \/ req'[r].op.what \notin {"customer", "subscribe"}
<1>1. ASSUME Still, OthersStay(r), ~At(r, "charged"), Out PROVE BillingQuiet(r, t)
  BY <1>1 DEF BillingQuiet, Reads, Charging, At, Does
<1>2. CASE Arrive(r)
  <2>1. req \in [Slots -> {Idle} \cup Request]
    BY DEF Structure, TypeOK, Request, Pcs
  <2>2. Still /\ OthersStay(r) /\ ~At(r, "charged")
    BY <1>2 DEF Arrive, OthersStay, At, tables
  <2>3. Out
    BY <1>2, <2>1 DEF Arrive
  <2> QED BY <1>1, <2>2, <2>3
<1>3. CASE FindKey(r) \/ TouchKey(r)
  <2>1. ~At(r, "idle") /\ Still /\ ~At(r, "charged")
    BY <1>3 DEF FindKey, TouchKey, At, tables
  <2>2. Respond(r) \/ Goto(r, "found", 0) \/ Goto(r, "touched", 0)
    BY <1>3 DEF FindKey, TouchKey
  <2> HIDE DEF Still
  <2>3. OthersStay(r) /\ Out
    BY <2>1, <2>2, KeepsGoing, GoesAway
  <2> QED BY <1>1, <2>1, <2>3
<1>4. CASE Authorise(r) /\ TenantOf(r) # t
  <2>1. ~At(r, "idle") /\ Still /\ ~At(r, "charged") /\ At(r, "touched")
    BY <1>4 DEF Authorise, At, tables
  <2>2. CASE Respond(r)
    BY <1>1, <2>1, <2>2, GoesAway
  <2>3. CASE Goto(r, "authorised", billing[TenantOf(r)].customer)
    <3>1. OthersStay(r) /\ req'[r].op = req[r].op /\ req'[r].key = req[r].key
      BY <2>1, <2>3, KeepsGoing
    <3>2. TenantOf(r)' = TenantOf(r)
      BY <1>4, <3>1 DEF TenantOf, Authorise, tables
    <3> QED BY <1>4, <2>1, <3>1, <3>2 DEF BillingQuiet, Reads, Charging, At
  <2> QED BY <1>4, <2>2, <2>3 DEF Authorise
<1>5. CASE SelectName(r) \/ SelectTenant(r) \/ SelectAgent(r) \/ SelectKey(r) \/ SelectPolicy(r)
  <2>1. /\ ~At(r, "idle") /\ ~At(r, "charged") /\ Still /\ (Respond(r) \/ \E seen : Goto(r, "read", seen))
    BY <1>5 DEF SelectName, SelectTenant, SelectAgent, SelectKey, SelectPolicy, Select, At, tables
  <2> HIDE DEF Still
  <2>2. OthersStay(r) /\ Out
    BY <2>1, KeepsGoing, GoesAway
  <2> QED BY <1>1, <2>1, <2>2
<1>6. CASE \/ List(r) \/ KeepCustomer(r) \/ RefuseSubscription(r) \/ Deadlocked(r) \/ Full(r)
           \/ InsertAgent(r) \/ WriteAgent(r) \/ InsertKey(r) \/ RevokeKey(r)
           \/ Bootstrap(r) \/ UpdateTenant(r) \/ InsertPolicy(r)
  <2>1. Respond(r) /\ Still
    BY <1>6 DEF List, KeepCustomer, RefuseSubscription, Deadlocked, Full, InsertAgent, WriteAgent,
                InsertKey, RevokeKey, Bootstrap, UpdateTenant, InsertPolicy, Cross, tables
  <2>2. ~At(r, "charged")
    <3>1. CASE Deadlocked(r)
      BY <3>1 DEF Deadlocked, WaitsFor, At
    <3> QED BY <1>6, <3>1 DEF List, KeepCustomer, RefuseSubscription, Full, InsertAgent, WriteAgent,
                InsertKey, RevokeKey, Bootstrap, UpdateTenant, InsertPolicy, At
  <2> HIDE DEF Still
  <2> QED BY <1>1, <2>1, <2>2, GoesAway
<1>7. CASE Abort(r)
  <2>1. Respond(r) /\ Still
    BY <1>7 DEF Abort, tables
  <2>2. Charging(r, t) => <<"customer", t>> \in crossed'
    BY <1>7 DEF Abort, Charging, Reads, At
  <2>3. OthersStay(r) /\ req'[r].pc = "idle"
    BY <2>1, GoesAway
  <2> QED BY <2>1, <2>2, <2>3 DEF BillingQuiet, Reads
<1>8. CASE (CreateCustomer(r) \/ CreateSubscription(r)) /\ TenantOf(r) # t
  <2>1. /\ ~At(r, "idle") /\ ~At(r, "charged") /\ key' = key /\ billing' = billing /\ crossed \subseteq crossed'
        /\ \E seen : Goto(r, "charged", seen)
    BY <1>8 DEF CreateCustomer, CreateSubscription, Cross, At
  <2>2. OthersStay(r) /\ req'[r].key = req[r].key
    BY <2>1, KeepsGoing
  <2>3. TenantOf(r)' = TenantOf(r)
    BY <2>1, <2>2 DEF TenantOf
  <2>4. stripe'[t] = stripe[t]
    BY <1>8 DEF CreateCustomer, CreateSubscription, Structure, TypeOK
  <2> QED BY <1>8, <2>1, <2>2, <2>3, <2>4 DEF BillingQuiet, Reads, Charging, At
<1>9. CASE (RecordCustomer(r) \/ RecordSubscription(r)) /\ TenantOf(r) # t
  <2>1. Respond(r) /\ stripe' = stripe /\ crossed \subseteq crossed'
    BY <1>9 DEF RecordCustomer, RecordSubscription, Cross
  <2>2. billing'[t] = billing[t]
    BY <1>9 DEF RecordCustomer, RecordSubscription, Structure, TypeOK
  <2>3. OthersStay(r) /\ req'[r].pc = "idle"
    BY <2>1, GoesAway
  <2> QED BY <1>9, <2>1, <2>2, <2>3 DEF BillingQuiet, Reads, Charging
<1> QED BY <1>2, <1>3, <1>4, <1>5, <1>6, <1>7, <1>8, <1>9 DEF Serve

\* r is among those at t's accounts, and the others are where they were.
LEMMA OthersAtAccounts ==
  ASSUME Structure, Isolated, NEW r \in Slots, OthersStay(r), NEW t \in Tenants, NEW o \in Slots, o # r
  PROVE  /\ Charging(o, t)' <=> Charging(o, t)
         /\ Reads(o, "customer", {"authorised"}, t)' <=> Reads(o, "customer", {"authorised"}, t)
         /\ Reads(o, "subscribe", {"authorised"}, t)' <=> Reads(o, "subscribe", {"authorised"}, t)
         /\ Reads(o, "subscribe", {"charged"}, t)' <=> Reads(o, "subscribe", {"charged"}, t)
         /\ req'[o].seen = req[o].seen
<1>1. req'[o] = req[o]
  BY DEF OthersStay
<1> QED BY <1>1, HandlersStay

LEMMA AuthoriseCustomer ==
  ASSUME Structure, Isolated, NEW r \in Slots, NEW t \in Tenants, TenantOf(r) = t, Authorise(r), OneCustomer(t)
  PROVE  OneCustomer(t)'
<1>1. /\ ~At(r, "idle") /\ req[r].pc = "touched" /\ billing' = billing /\ stripe' = stripe
      /\ (Respond(r) \/ Goto(r, "authorised", billing[t].customer))
  BY DEF Authorise, At, tables
<1>2. /\ OthersStay(r) /\ ~Charging(r, t) /\ ~Charging(r, t)' /\ ~Reads(r, "subscribe", {"charged"}, t)'
      /\ (Reads(r, "customer", {"authorised"}, t)' => req'[r].seen = billing[t].customer)
      /\ (Reads(r, "subscribe", {"authorised"}, t)' => req'[r].seen = billing[t].customer)
  <2>1. CASE Respond(r)
    BY <1>1, <2>1, GoesAway DEF Charging, Reads
  <2>2. CASE Goto(r, "authorised", billing[t].customer)
    BY <1>1, <2>2, KeepsGoing DEF Charging, Reads
  <2> QED BY <1>1, <2>1, <2>2
<1>3. \A o \in Slots : Charging(o, t)' <=> Charging(o, t)
  BY <1>2, OthersAtAccounts
<1>4. (NoCustomer(t) \/ Created(t) \/ Recorded(t))'
  <2>1. NoCustomer(t) => NoCustomer(t)'
    BY <1>1, <1>3 DEF NoCustomer
  <2>2. Recorded(t) => Recorded(t)'
    BY <1>1, <1>3 DEF Recorded
  <2>3. ASSUME Created(t) PROVE Created(t)'
    <3>1. PICK q \in Slots : Charging(q, t) /\ req[q].seen = 1 /\ \A o \in Slots : Charging(o, t) => o = q
      BY <2>3 DEF Created
    <3>2. q # r /\ req'[q].seen = 1
      BY <1>2, <3>1, OthersAtAccounts
    <3> QED BY <1>1, <1>3, <2>3, <3>1, <3>2 DEF Created
  <2> QED BY <2>1, <2>2, <2>3 DEF OneCustomer
<1>5. ASSUME NEW o \in Slots PROVE AtAccounts(o, t)'
  <2>1. CASE o = r
    BY <1>1, <1>2, <2>1 DEF AtAccounts
  <2>2. CASE o # r
    <3>1. AtAccounts(o, t)
      BY DEF OneCustomer
    <3> QED BY <1>1, <1>2, <2>2, <3>1, OthersAtAccounts DEF AtAccounts, Subscribed
  <2> QED BY <2>1, <2>2
<1>7. billing'[t].subscription # 0 => Subscribed(t, billing[t].subscription)'
  BY <1>1 DEF Subscribed, OneCustomer
<1> QED BY <1>4, <1>5, <1>7 DEF OneCustomer

\* Only a request that finds neither a customer nor one being created.
LEMMA CreateCustomerOnce ==
  ASSUME Structure, Isolated, NEW r \in Slots, NEW t \in Tenants, TenantOf(r) = t, CreateCustomer(r),
         OneCustomer(t), <<"customer", t>> \notin crossed'
  PROVE  OneCustomer(t)'
<1>1. /\ ~At(r, "idle") /\ req[r].pc = "authorised" /\ Does(r, "customer") /\ req[r].seen = 0
      /\ billing' = billing /\ key' = key /\ Cross(r, "customer", {"charged"})
      /\ Goto(r, "charged", stripe[t].customers + 1)
  BY DEF CreateCustomer, At, HasCustomer
<1>2. /\ stripe'[t].customers = stripe[t].customers + 1
      /\ stripe'[t].subscriptions = stripe[t].subscriptions
  BY DEF CreateCustomer, Structure, TypeOK
<1>3. /\ OthersStay(r) /\ req'[r].pc = "charged" /\ req'[r].seen = stripe[t].customers + 1
      /\ req'[r].op = req[r].op /\ req'[r].key = req[r].key
  BY <1>1, KeepsGoing
<1>4. Reads(r, "customer", {"authorised"}, t) /\ ~Charging(r, t) /\ Charging(r, t)'
  BY <1>1, <1>3 DEF Reads, Charging, Does, TenantOf
<1>5. \A o \in Slots : ~Charging(o, t)
  <2>1. ~Overlaps(r, "customer", {"charged"})
    BY <1>1 DEF Cross
  <2> QED BY <1>4, <2>1 DEF Overlaps, Charging, Reads
<1>6. NoCustomer(t)
  <2>1. AtAccounts(r, t)
    BY DEF OneCustomer
  <2>2. billing[t].customer = 0
    BY <1>1, <1>4, <2>1 DEF AtAccounts
  <2> QED BY <1>5, <2>2 DEF OneCustomer, Created, Recorded
<1>7. Created(t)'
  <2>1. \A o \in Slots : Charging(o, t)' => o = r
    BY <1>3, <1>5, OthersAtAccounts
  <2>2. stripe'[t].customers = 1 /\ billing'[t].customer = 0 /\ req'[r].seen = 1
    BY <1>1, <1>2, <1>3, <1>6 DEF NoCustomer
  <2> QED BY <1>4, <2>1, <2>2 DEF Created
<1>8. /\ \A o \in Slots : ~Reads(o, "subscribe", {"charged"}, t) /\ AtAccounts(o, t)
      /\ billing[t].subscription = 0 /\ billing[t].customer = 0
  BY <1>6 DEF NoCustomer, OneCustomer, Subscribed, AtAccounts
<1>9. ~Reads(r, "customer", {"authorised"}, t)' /\ ~Reads(r, "subscribe", {"authorised"}, t)'
      /\ ~Reads(r, "subscribe", {"charged"}, t)'
  BY <1>1, <1>3 DEF Reads, Does
<1>10. ASSUME NEW o \in Slots PROVE AtAccounts(o, t)'
  <2>1. CASE o = r
    BY <1>9, <2>1 DEF AtAccounts
  <2>2. CASE o # r
    BY <1>1, <1>3, <1>8, <2>2, OthersAtAccounts DEF AtAccounts
  <2> QED BY <2>1, <2>2
<1> QED BY <1>1, <1>7, <1>8, <1>10 DEF OneCustomer

LEMMA RecordCustomerOnce ==
  ASSUME Structure, Isolated, NEW r \in Slots, NEW t \in Tenants, TenantOf(r) = t, RecordCustomer(r),
         OneCustomer(t), <<"customer", t>> \notin crossed'
  PROVE  OneCustomer(t)'
<1>1. /\ req[r].pc = "charged" /\ Does(r, "customer") /\ Respond(r) /\ stripe' = stripe
      /\ Cross(r, "customer", {"authorised", "charged"})
  BY DEF RecordCustomer, At
<1>2. Charging(r, t)
  BY <1>1 DEF Charging, Reads
<1>3. Created(t) /\ req[r].seen = 1
  BY <1>2 DEF OneCustomer, NoCustomer, Recorded, Created
<1>4. billing'[t].customer = 1 /\ billing'[t].subscription = billing[t].subscription
  BY <1>3 DEF RecordCustomer, Structure, TypeOK
<1>5. OthersStay(r) /\ req'[r].pc = "idle"
  BY <1>1, GoesAway
<1>6. \A o \in Slots \ {r} : ~Charging(o, t) /\ ~Reads(o, "customer", {"authorised"}, t)
  <2>1. ~Overlaps(r, "customer", {"authorised", "charged"})
    BY <1>1 DEF Cross
  <2> QED BY <2>1 DEF Overlaps, Charging, Reads
<1>7. \A o \in Slots : ~Charging(o, t)' /\ ~Reads(o, "customer", {"authorised"}, t)'
  <2>1. ~Charging(r, t)' /\ ~Reads(r, "customer", {"authorised"}, t)'
    BY <1>5 DEF Charging, Reads
  <2> QED BY <1>5, <1>6, <2>1, OthersAtAccounts
<1>8. Recorded(t)'
  BY <1>1, <1>3, <1>4, <1>7 DEF Recorded, Created
<1>9. /\ billing[t].subscription = 0 /\ billing[t].customer = 0
      /\ \A o \in Slots : ~Reads(o, "subscribe", {"charged"}, t) /\ AtAccounts(o, t)
  BY <1>3 DEF OneCustomer, Created, Subscribed, AtAccounts
<1>10. ASSUME NEW o \in Slots PROVE AtAccounts(o, t)'
  <2>1. CASE o = r
    <3>1. ~Reads(r, "subscribe", {"authorised"}, t)' /\ ~Reads(r, "subscribe", {"charged"}, t)'
      BY <1>5 DEF Reads
    <3> QED BY <1>7, <2>1, <3>1 DEF AtAccounts
  <2>2. CASE o # r
    BY <1>4, <1>5, <1>7, <1>9, <2>2, OthersAtAccounts DEF AtAccounts
  <2> QED BY <2>1, <2>2
<1> QED BY <1>4, <1>7, <1>8, <1>9, <1>10 DEF OneCustomer

\* A subscription is made for the one customer the row has.
LEMMA CreateSubscriptionOnce ==
  ASSUME Structure, Isolated, NEW r \in Slots, NEW t \in Tenants, TenantOf(r) = t, CreateSubscription(r),
         OneCustomer(t)
  PROVE  OneCustomer(t)'
<1> DEFINE subs == stripe[t].subscriptions
<1>1. /\ ~At(r, "idle") /\ req[r].pc = "authorised" /\ Does(r, "subscribe") /\ req[r].seen # 0
      /\ billing' = billing /\ key' = key /\ Goto(r, "charged", Len(subs) + 1)
  BY DEF CreateSubscription, At
<1>2. /\ stripe'[t].customers = stripe[t].customers
      /\ stripe'[t].subscriptions = Append(subs, req[r].seen)
  BY DEF CreateSubscription, Structure, TypeOK
<1>3. /\ OthersStay(r) /\ req'[r].pc = "charged" /\ req'[r].seen = Len(subs) + 1
      /\ req'[r].op = req[r].op /\ req'[r].key = req[r].key
  BY <1>1, KeepsGoing
<1>4. Reads(r, "subscribe", {"authorised"}, t)
  BY <1>1 DEF Reads
<1>5. AtAccounts(r, t)
  BY DEF OneCustomer
<1>6. req[r].seen = billing[t].customer
  BY <1>1, <1>4, <1>5 DEF AtAccounts
<1>7. req[r].seen = 1 /\ billing[t].customer = 1 /\ Recorded(t)
  BY <1>1, <1>6 DEF OneCustomer, NoCustomer, Created, Recorded
<1>8. subs \in Seq(Nat)
  BY DEF Structure, TypeOK
<1>9. \A s : Subscribed(t, s) => Subscribed(t, s)'
  <2> SUFFICES ASSUME NEW s, s \in DOMAIN subs, subs[s] = 1
               PROVE  s \in DOMAIN stripe'[t].subscriptions /\ stripe'[t].subscriptions[s] = 1
    BY <1>1 DEF Subscribed
  <2> QED BY <1>2, <1>7, <1>8
<1>10. Subscribed(t, req[r].seen)'
  <2> HIDE DEF subs
  <2>1. Len(subs) + 1 \in DOMAIN Append(subs, req[r].seen) /\ Append(subs, req[r].seen)[Len(subs) + 1] = 1
    BY <1>7, <1>8
  <2> QED BY <1>1, <1>2, <1>3, <1>7, <2>1 DEF Subscribed
<1>11. Recorded(t)'
  <2>1. ~Charging(r, t)'
    BY <1>1, <1>3 DEF Charging, Reads, Does
  <2> QED BY <1>1, <1>2, <1>3, <1>7, <2>1, OthersAtAccounts DEF Recorded
<1>12. ASSUME NEW o \in Slots PROVE AtAccounts(o, t)'
  <2>1. CASE o = r
    <3>1. ~Reads(r, "customer", {"authorised"}, t)' /\ ~Reads(r, "subscribe", {"authorised"}, t)'
      BY <1>3 DEF Reads
    <3> QED BY <1>10, <2>1, <3>1 DEF AtAccounts
  <2>2. CASE o # r
    <3>1. AtAccounts(o, t)
      BY DEF OneCustomer
    <3> QED BY <1>1, <1>3, <1>9, <2>2, <3>1, OthersAtAccounts DEF AtAccounts
  <2> QED BY <2>1, <2>2
<1>13. billing'[t].subscription # 0 => Subscribed(t, billing[t].subscription)'
  BY <1>1, <1>9 DEF OneCustomer
<1> QED BY <1>11, <1>12, <1>13 DEF OneCustomer

LEMMA RecordSubscriptionOnce ==
  ASSUME Structure, Isolated, NEW r \in Slots, NEW t \in Tenants, TenantOf(r) = t, RecordSubscription(r),
         OneCustomer(t)
  PROVE  OneCustomer(t)'
<1>1. req[r].pc = "charged" /\ Does(r, "subscribe") /\ Respond(r) /\ stripe' = stripe
  BY DEF RecordSubscription, At
<1>2. AtAccounts(r, t)
  BY DEF OneCustomer
<1>3. Subscribed(t, req[r].seen)
  BY <1>1, <1>2 DEF AtAccounts, Reads
<1>4. billing'[t].customer = billing[t].customer /\ billing'[t].subscription = req[r].seen
  BY DEF RecordSubscription, Structure, TypeOK
<1>5. OthersStay(r) /\ req'[r].pc = "idle"
  BY <1>1, GoesAway
<1>6. Recorded(t) /\ \A o \in Slots : ~Charging(o, t)
  BY <1>3 DEF Subscribed, OneCustomer, NoCustomer, Created, Recorded
<1>7. ASSUME NEW o \in Slots PROVE ~Charging(o, t)' /\ AtAccounts(o, t)'
  <2>1. CASE o = r
    BY <1>5, <2>1 DEF AtAccounts, Charging, Reads
  <2>2. CASE o # r
    <3>1. AtAccounts(o, t)
      BY DEF OneCustomer
    <3> QED BY <1>1, <1>4, <1>5, <1>6, <2>2, <3>1, OthersAtAccounts DEF AtAccounts, Subscribed
  <2> QED BY <2>1, <2>2
<1>8. Recorded(t)'
  BY <1>1, <1>4, <1>6, <1>7 DEF Recorded
<1>9. Subscribed(t, billing[t].subscription)'
  BY <1>1, <1>3, <1>4 DEF Subscribed
<1> QED BY <1>7, <1>8, <1>9 DEF OneCustomer

LEMMA CustomersInitially == Init => CustomersInv
<1> SUFFICES ASSUME Init, NEW t \in Tenants PROVE OneCustomer(t)
  BY DEF CustomersInv
<1>1. \A r \in Slots : ~Charging(r, t) /\ AtAccounts(r, t)
  BY DEF Init, Idle, Charging, AtAccounts, Reads
<1>2. NoCustomer(t) /\ billing[t].subscription = 0
  BY <1>1 DEF Init, NoCustomer
<1> QED BY <1>1, <1>2 DEF OneCustomer

LEMMA CustomersStep == Structure /\ CustomersInv /\ [Next]_vars => CustomersInv'
<1> SUFFICES ASSUME Structure, CustomersInv, [Next]_vars PROVE CustomersInv'
  OBVIOUS
<1>1. Structure' /\ Isolated
  BY StructureStep
<1>2. ASSUME UNCHANGED <<tables, req, crossed>>, NEW t \in Tenants, OneCustomer(t) PROVE OneCustomer(t)'
  <2>1. \A o \in Slots : (Charging(o, t)' <=> Charging(o, t)) /\ (AtAccounts(o, t)' <=> AtAccounts(o, t))
    BY <1>2 DEF Reads, Does, TenantOf, tables, Charging, AtAccounts, Subscribed
  <2>2. billing' = billing /\ stripe' = stripe /\ req' = req
    BY <1>2 DEF tables
  <2>3. (NoCustomer(t) \/ Created(t) \/ Recorded(t))'
    BY <1>2, <2>1, <2>2 DEF NoCustomer, Created, Recorded, OneCustomer
  <2>4. billing'[t].subscription # 0 => Subscribed(t, billing[t].subscription)'
    BY <1>2, <2>2 DEF OneCustomer, Subscribed
  <2> QED BY <1>2, <2>1, <2>3, <2>4 DEF OneCustomer
<1>3. ASSUME NEW r \in Slots, Arrive(r) \/ Serve(r) \/ Abort(r), NEW t \in Tenants,
             <<"customer", t>> \notin crossed'
      PROVE  OneCustomer(t)'
  <2>1. crossed \subseteq crossed'
    BY <1>1, <1>3, PolicyQuietSteps DEF PolicyQuiet, InsertPolicy, SelectPolicy, Select, Cross
  <2>2. OneCustomer(t)
    BY <1>3, <2>1 DEF CustomersInv
  <2> QED BY <1>1, <1>3, <2>2, BillingQuietSteps, CustomerStays, AuthoriseCustomer, CreateCustomerOnce,
          CreateSubscriptionOnce, RecordCustomerOnce, RecordSubscriptionOnce
<1>4. ASSUME UNCHANGED <<tables, req, crossed>> PROVE CustomersInv'
  BY <1>2, <1>4 DEF CustomersInv
<1>5. ASSUME NEW r \in Slots, Arrive(r) \/ Serve(r) \/ Abort(r) PROVE CustomersInv'
  BY <1>3, <1>5 DEF CustomersInv
<1> QED BY <1>4, <1>5 DEF Next, Rest, Expire, vars, tables

\* Whatever requests overlap and fail, a tenant has at most one customer at
\* Stripe, the one of its row and of its subscription, unless two of its requests
\* created one each or a transaction was lost after Stripe had answered.
THEOREM CustomersAlwaysExplained == Spec => []CustomersExplained
<1>1. ASSUME Structure, CustomersInv PROVE CustomersExplained
  <2> SUFFICES ASSUME NEW t \in Tenants, OneCustomer(t)
               PROVE  /\ stripe[t].customers <= 1
                      /\ billing[t].customer < stripe[t].customers =>
                           \E r \in Slots : At(r, "charged") /\ Does(r, "customer") /\ TenantOf(r) = t
                      /\ billing[t].subscription # 0 =>
                           stripe[t].subscriptions[billing[t].subscription] = billing[t].customer
    BY <1>1 DEF CustomersInv, CustomersExplained
  <2>1. billing[t].subscription # 0 =>
          stripe[t].subscriptions[billing[t].subscription] = billing[t].customer
    BY DEF OneCustomer, Subscribed
  <2>2. NoCustomer(t) \/ Created(t) \/ Recorded(t)
    BY DEF OneCustomer
  <2>3. CASE NoCustomer(t) \/ Recorded(t)
    BY <2>1, <2>3 DEF NoCustomer, Recorded
  <2>4. CASE Created(t)
    BY <2>1, <2>4 DEF Created, Charging, Reads, At
  <2> QED BY <2>2, <2>3, <2>4
<1>2. Structure /\ CustomersInv => CustomersExplained
  BY <1>1
<1> QED BY <1>2, CustomersInitially, CustomersStep, ControlPlaneStructure, PTL DEF Spec

=============================================================================
