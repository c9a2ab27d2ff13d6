SPECIFICATION Spec
CONSTANTS
  p1 = p1
  p2 = p2
  a1 = a1
  a2 = a2
  NULL = NULL
  Procs = {p1, p2}
  SemUsers = {p1, p2}
  Nodes = {a1}
  MaxIds = 1
  MaxExits = 0
  MaxFailures = 0
CHECK_DEADLOCK FALSE
INVARIANTS
  Exclusion
