SPECIFICATION Spec
CONSTANTS
  Methods <- WaitingMethods
  MaxTasks = 2
  MaxSubmits = 3
  OsFails = TRUE
INVARIANT WorkerNeverFaults
CHECK_DEADLOCK FALSE
