SPECIFICATION FairSpec
CONSTANTS
  Tasks = {1, 2}
  MaxTasks = 2
  MaxLeases = 2
  PostTimeout = 1
  ExecTime = 1
  Delay = 2
  LeaseTimeout = 6
  MaxEnrolls = 2
  MaxReboots = 1
INVARIANTS
  ReportPrecedesCleanup
  RetiredOnce
  NewcomersAreSpared
PROPERTIES
  DoneIsCarriedOut
CHECK_DEADLOCK FALSE
