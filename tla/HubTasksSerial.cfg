SPECIFICATION Spec
CONSTANTS
  a1 = a1
  a2 = a2
  t1 = t1
  t2 = t2
  b1 = b1
  b2 = b2
  Workers = {w1}
  Agents = {a1, a2}
  NoAgent = NoAgent
  Tasks = {t1, t2, b1}
  NoTask = NoTask
  Owner <- MCOwner
  Exports = {t1}
  Binds = {b1}
  MaxLeases = 2
  LeaseTimeout = 1
  CliMaxLeases = 2
  CliLeaseTimeout = 1
  Limit = 1
  Retention = 0
  MaxCompleted = 1
  PruneInterval = 1
  MaxFaults = 1
INVARIANTS
  ExecutionsAreCounted
PROPERTIES
  LifecycleSpec
