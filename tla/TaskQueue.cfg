CONSTANTS
  Tasks = {t1, t2}
  Workers = {w1, w2}
  MaxRetries = 1
  MaxFaults = 2
SPECIFICATION FairSpec
INVARIANTS
  OneRunAtATime
PROPERTIES
  OutcomeNotUndone
  QueuedSettles
