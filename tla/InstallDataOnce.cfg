SPECIFICATION AppFairSpec
CONSTANTS
  main = main
  mgr = mgr
  w1 = w1
  w2 = w2
  NULL = NULL
  Callers = {main, mgr}
  Workers = {w1}
  Calls <- AppCalls
  MaxThreads = 1
  MaxFailures = 1
  Tasks <- ThreeTasks
  Signals = {"SIGINT"}
  MaxSignals = 2
  MaxSpurious = 1
  PipeCapacity = 1
CHECK_DEADLOCK FALSE
INVARIANTS
  InstalledInOrder
PROPERTIES
  WaitingMainIsWoken
  AppCallsReturn
  WorkerStarts
