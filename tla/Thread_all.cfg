SPECIFICATION Spec
CONSTANTS
  Methods <- Method
  MaxTasks = 2
  MaxSubmits = 4
  OsFails = TRUE
INVARIANTS TypeOK SuspendCountBounded TasksOrdered TasksConserved
PROPERTY Promise
CHECK_DEADLOCK FALSE
