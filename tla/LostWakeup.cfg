SPECIFICATION AppFairSpec
CONSTANTS
  main = main
  mgr = mgr
  w1 = w1
  w2 = w2
  NULL = NULL
  Callers = {main, mgr}
  Workers = {w1}
  Calls <- AppCalls
  MaxThreads = 1
  MaxFailures = 0
  Tasks <- OneTask
  Signals = {"SIGINT"}
  MaxSignals = 0
  MaxSpurious = 0
  PipeCapacity = 1
CHECK_DEADLOCK FALSE
PROPERTIES
  CompletionIsSeen
