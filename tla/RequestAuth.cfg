SPECIFICATION Spec
CONSTANTS
  a1 = a1
  a2 = a2
  r1 = r1
  r2 = r2
  r3 = r3
  h1 = h1
  h2 = h2
  Requests = {r1, r2, r3}
  Agents = {a1, a2}
  Owner <- MCOwner
  Handlers = {h1, h2}
  Skew = 1
  MaxDrift = 1
  MaxClock = 3
  MaxDeliveries = 4
INVARIANTS
  HandledOnce
  HandledIsRemembered
SYMMETRY MCSymmetry
