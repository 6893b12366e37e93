CONSTANTS
  m1 = m1
  m2 = m2
  m3 = m3
  a = a
  b = b
  None = None
  Nothing = Nothing
  Memories = {m1, m2, m3}
  AgentOf <- MCAgentOf
  Keys = {k1, k2}
  Expiring = {m1, m2}
  MaxChanges = 3
  Processes = {p1, p2}
  MaxStep = 3
  MaxList = 3
  Tenants = {t1, t2}
  Metered = {t1, t2}
  Jobs = {j1, j2}
  MaxTasks = 2
  MaxStarts = 3
SYMMETRY Symmetry
SPECIFICATION Spec
INVARIANTS
  ChangesReachTable
  TableWithoutGaps
  NeverOverbilled
PROPERTIES
  RecordsOnlyGrow
CHECK_DEADLOCK FALSE
