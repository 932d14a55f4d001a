SPECIFICATION Spec
CONSTANTS
  a1 = a1
  a2 = a2
  c1 = c1
  c2 = c2
  Workers = {w1}
  Agents = {a1, a2}
  NoAgent = NoAgent
  Codes = {c1, c2}
  NoCode = NoCode
  CodeAgent <- MCSameAgent
  Enrolled = {a2}
  Commands = {"invite", "redeem", "provision", "import", "remove", "issue", "revoke"}
  MaxTokens = 3
  MaxCrashes = 1
INVARIANTS
  CodeIsSingleUse
  EnrolledIsRegistered
  RemovedStaysOut
PROPERTIES
  DirectorySpec
