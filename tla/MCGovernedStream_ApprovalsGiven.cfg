CONSTANTS
  Names <- MCNames
  Agents <- MCAgents
  Clocks <- MCClocks
  LLMCosts <- MCLLMCosts
  Responses <- MCResponses
SPECIFICATION Spec
INVARIANT
  ApprovalsGiven
