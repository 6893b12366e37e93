CONSTANTS
  s1 = s1
  s2 = s2
  s3 = s3
  t1 = t1
  t2 = t2
  Sessions = {s1, s2, s3}
  Tenants = {t1, t2}
  TenantOf <- Sharing
  MaxRows = 4
  c1 = c1
  c2 = c2
  k1 = k1
  k2 = k2
  Calls = {c1, c2}
  Keys = {k1, k2}
  KeyOf <- OwnKeys
  MaxResends = 1
  CacheSize = 1
  Ttl = 0
  MaxNow = 1
  MaxRestarts = 1
  Procs = {p1, p2}
  Limit = 2
  Window = 4
  Second = 2
  MaxClock = 7
SYMMETRY Symmetry
SPECIFICATION Spec
INVARIANTS
  PredecessorsKept
  BrokenOnlyByOverlap
  DuplicatesExplained
  AnswersAgree
  MemoryWindowExact
  RetryAfterSuffices
  FleetBound
PROPERTY
  BrokenStaysBroken
