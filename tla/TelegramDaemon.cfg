SPECIFICATION Spec
CONSTANTS
  a1 = a1
  a2 = a2
  Kind <- MCKind
  Target <- MCTarget
  Agents = {a1, a2}
  MaxBatches = 1
  MaxPending = 1
  Timeout = 1
  Limit = 2
  MaxInstalls = 2
  MaxWrites = 5
  MaxKills = 1
INVARIANTS
  ConfirmedIsHandled
  UpdateReachesHub
  ResultSentOnce

  
SYMMETRY MCSymmetry
CHECK_DEADLOCK FALSE
