SPECIFICATION FairSpec
CONSTANTS
  Methods <- ReturningMethods
  MaxTasks = 2
  MaxSubmits = 3
  OsFails = FALSE
PROPERTY CallsReturn
CHECK_DEADLOCK FALSE
