SPECIFICATION Spec
CONSTANTS
  main = main
  mgr = mgr
  w1 = w1
  w2 = w2
  NULL = NULL
  Callers = {main, mgr}
  Workers = {w1, w2}
  Calls <- TwoExecutorsCalls
  MaxThreads = 2
  MaxFailures = 0
SYMMETRY WorkerSymmetry
CHECK_DEADLOCK FALSE
INVARIANTS
  UniqueHandle
