SPECIFICATION FairSpec
CONSTANTS
  plain = plain
  upgrade = upgrade
  Tasks = {plain, upgrade}
  Updates = {upgrade}
  Latest = {upgrade}
  Target <- MCTarget
  MaxLeases = 2
  DefaultLimit = 5
  MaxTasks = 2
  MaxEnrolls = 2
  MaxWrites = 2
  MaxInstalls = 2
  MaxKills = 1
INVARIANTS
  LoopHoldsTheEnrollment
  UpdateReachesLoop
PROPERTIES
  EnrollmentTakesOver
  TasksSettle
CHECK_DEADLOCK FALSE
