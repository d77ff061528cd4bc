\* A stack release from a commit whose pins validate() rejects.
SPECIFICATION Spec
CONSTANTS
  r1 = r1
  r2 = r2
  c1 = c1
  c2 = c2
  c3 = c3
  v1 = v1
  s1 = s1
  other = other
  Unbound = Unbound
  Runs = {r1, r2}
  Tags = {s1}
  Commits = {c1, c3}
  Versions = {1, 2}
  Prefix <- MCPrefix
  Names <- MCNames
  PkgVersion <- MCPkgVersion
  Conformant = {c1}
  PinsValid = {c1}
  BranchNames = {}
  MaxMoves = 1
  MaxFailures = 0
INVARIANT StackPinsValidated
CHECK_DEADLOCK FALSE
