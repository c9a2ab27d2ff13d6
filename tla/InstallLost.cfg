SPECIFICATION MonitorSpec
CONSTANTS
  installer = installer
  monitor = monitor
  a1 = a1
  NULL = NULL
  Procs = {installer, monitor}
  SemUsers = {}
  Nodes = {a1}
  MAX_NUM_POINTS = 2
  Seconds = 1
  MaxIds = 2
  MaxExits = 0
  MaxFailures = 0
CHECK_DEADLOCK FALSE
INVARIANTS
  InstalledStays
