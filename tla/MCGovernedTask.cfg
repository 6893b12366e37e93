CONSTANTS
  Names <- MCNames
  Agents <- MCAgents
  Clocks <- MCClocks
  LLMCosts <- MCLLMCosts
  Responses <- MCResponses
  AuditMayFail = TRUE
SPECIFICATION FairSpec
INVARIANTS
  RunsAuthorised
  ToolSpendWithinLimit
  EveryCallAnswered
  TrailTellsOutcome
PROPERTIES
  ImplementsGovernance
  EventuallyReturns
