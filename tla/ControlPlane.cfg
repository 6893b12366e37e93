SPECIFICATION FairSpec
CONSTANTS
  R1 = R1
  R2 = R2
  Acme = Acme
  New = New
  K1 = K1
  K2 = K2
  K3 = K3
  A1 = A1
  A2 = A2
  None = None
  Slots <- MCSlots
  Tenants <- MCTenants
  Keys <- MCKeys
  Agents <- MCAgents
  Deployments <- MCDeployments
  Expiring <- MCExpiring
  Asked <- MCAsked
  MaxRequests = 3
  MaxFaults = 1
INVARIANTS
  VersionsExplained
  CustomersExplained
PROPERTIES
  TenantIsolation
  RequestsEnd
