SPECIFICATION FairSpec
CONSTANTS
  a1 = a1
  a2 = a2
  Kind <- MCKindLive
  Target <- MCTargetLive
  Agents = {a1}
  MaxBatches = 2
  MaxPending = 1
  Timeout = 1
  Limit = 2
  MaxInstalls = 1
  MaxWrites = 0
  MaxKills = 0
PROPERTIES
  PendingIsAnswered
  NoticeIsSent
CHECK_DEADLOCK FALSE
