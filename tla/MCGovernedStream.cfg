CONSTANTS
  Names <- MCNames
  Agents <- PlainAgents
  Clocks <- MCClocks
  LLMCosts <- MCLLMCosts
  Responses <- MCResponses
SPECIFICATION Spec
INVARIANTS
  StreamTellsRuns
PROPERTY
  SameGovernance
