SPECIFICATION MonitorFairSpec
CONSTANTS
  installer = installer
  monitor = monitor
  a1 = a1
  NULL = NULL
  Procs = {installer, monitor}
  SemUsers = {}
  Nodes = {a1}
  MAX_NUM_POINTS = 2
  Seconds = 2
  MaxIds = 2
  MaxExits = 2
  MaxFailures = 0
CHECK_DEADLOCK FALSE
INVARIANTS
  MonitorTypeOK
  CountIsPlausible
  WorkIsVisible
PROPERTIES
  StartsClean
  MonitorDetaches
