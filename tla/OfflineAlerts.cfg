SPECIFICATION FairSpec
CONSTANTS
  Agents = {a1}
  Threshold = 1
  Snooze = 2
  MaxClock = 4
  MaxTokens = 2
  MaxKills = 1
PROPERTIES
  QuietIsKept
  ButtonsKeepWorking
  OfflineIsReported
CHECK_DEADLOCK FALSE
