SPECIFICATION FairSpec
CONSTANTS
  Methods = {"terminate_and_wait"}
  MaxTasks = 2
  MaxSubmits = 2
  OsFails = FALSE
PROPERTY TerminatesItself
CHECK_DEADLOCK FALSE
