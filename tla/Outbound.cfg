CONSTANTS
  Callers = {c1, c2}
  MaxRequests = 5
  MaxSpawns = 2
  MaxNoise = 1
  Events = {e1, e2}
  MaxAttempts = 3
SYMMETRY Symmetry
SPECIFICATION Spec
INVARIANTS
  AnswersLagByTimeouts
  OutcomesTellReceipts
  LateOnlyByTimeout
CHECK_DEADLOCK FALSE
