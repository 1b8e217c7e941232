SPECIFICATION Spec
CONSTANTS
  n1 = n1
  n2 = n2
  n3 = n3
  n4 = n4
  n5 = n5
  Node <- Nodes4
  Null = Null
  HardwareThreads = 4
  SizeMax = 15
  InitialCounts = {0, 3}
  Counts = {1, 2}
  MaxTasks = 2
  AllocFails = TRUE
  OsFails = TRUE
SYMMETRY Symmetry
INVARIANTS TypeOK ListWellFormed CursorLive WithinHardware LeastLoaded
PROPERTIES DecreaseExact NeverEmptied SuspendedPoolRests
CHECK_DEADLOCK FALSE
