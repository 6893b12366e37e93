SPECIFICATION FairSpec
CONSTANTS
  A = A
  B = B
  Z = Z
  Other = Other
  M1 = M1
  M2 = M2
  Agents <- MCAgents
  Askers <- MCAskers
  Models <- MCModels
  FallbackChain <- MCChain
  ModelOf <- MCModelOf
  Outputs <- MCOutputs
  Plans <- MCPlans
  MaxHandoffs = 4
  MaxRetries = 2
  BaseDelay = 1
  Threshold = 2
  Window = 2
  AuditMayFail = TRUE
INVARIANTS
  HammeringBounded
  ChainIsWalk
  NoRunLeftBehind
PROPERTY
  OrchestrationEnds
