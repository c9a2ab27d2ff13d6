SPECIFICATION AppSpec
CONSTANTS
  main = main
  mgr = mgr
  w1 = w1
  w2 = w2
  NULL = NULL
  Callers = {main, mgr}
  Workers = {w1, w2}
  Calls <- AppCalls
  MaxThreads = 1
  MaxFailures = 0
  Tasks <- OneTask
  Signals = {"SIGINT", "SIGHUP"}
  MaxSignals = 2
  MaxSpurious = 1
  PipeCapacity = 1
SYMMETRY WorkerSymmetry
CHECK_DEADLOCK FALSE
INVARIANTS
  AppTypeOK
  OneInstaller
  TeardownAfterWork
  CompleteUnlessOvertaken
  CrashIsLate
PROPERTIES
  FailsOnlyToStart
