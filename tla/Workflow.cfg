CONSTANTS
  a = a
  b = b
  c = c
  x = x
  Definitions <- MCDefinitions
  MaxFaults = 1
  Served = 3
  Accounts = {x1, x2}
  Owner = x1
SPECIFICATION MCSpec
INVARIANTS
  PredecessorsFirst
  BranchesFollowed
  StepsTellOutcome
  RunsFollowUpdates
  UpdatesKept
PROPERTY
  RunSettles
