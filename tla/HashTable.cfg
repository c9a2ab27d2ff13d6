SPECIFICATION FairSpec
CONSTANTS
  writer = writer
  r1 = r1
  v1 = v1
  v2 = v2
  NULL = NULL
  Readers = {r1}
  Keys <- SomeKeys
  Values = {v1, v2}
  Items <- SomeItems
  Size = 4
  UINT = 16
INVARIANTS
  TypeOK
  Reachable
  InsertsAreHarmless
PROPERTIES
  ImplementsMap
  OperationEnds
CHECK_DEADLOCK FALSE
