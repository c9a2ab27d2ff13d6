SPECIFICATION FairSpec
CONSTANTS
  main = main
  mgr = mgr
  w1 = w1
  w2 = w2
  NULL = NULL
  Callers = {main}
  Workers = {w1}
  Calls <- KillWaitCalls
  MaxThreads = 1
  MaxFailures = 0
CHECK_DEADLOCK FALSE
PROPERTIES
  CallsReturn
