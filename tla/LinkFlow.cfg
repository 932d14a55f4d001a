SPECIFICATION FlowSpec
CONSTANTS
  Links <- MCLinks
  Removable = {"landing", "transit"}
  MaxLeases = 2
  MaxFaults = 1
INVARIANTS
  MeshMatches
  RemovedLandingIsUnbound
  RemovedTransitIsTornDown
CHECK_DEADLOCK FALSE
