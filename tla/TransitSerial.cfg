SPECIFICATION Spec
CONSTANTS
  u1 = u1
  u2 = u2
  e1 = e1
  e2 = e2
  Workers = {w1}
  Names = {u1, u2}
  Ids = {i1, i2, i3}
  Endpoints = {e1, e2}
  None = None
  Layout <- MCThreeFiles
  MaxCrashes = 2
INVARIANTS
  SettledIsConsistent
  BindNeverDangles
  UsersAreDistinct
SYMMETRY MCSymmetry
PROPERTIES
  LinksSpec
