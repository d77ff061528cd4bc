\* The tag is deleted and a branch of its name stands where it pointed.
SPECIFICATION FairSpec
CONSTANTS
  r1 = r1
  r2 = r2
  c1 = c1
  c2 = c2
  c3 = c3
  v1 = v1
  s1 = s1
  other = other
  Unbound = Unbound
  Runs = {r1, r2}
  Tags = {v1}
  Commits = {c1}
  Versions = {1, 2}
  Prefix <- MCPrefix
  Names <- MCNames
  PkgVersion <- MCPkgVersion
  Conformant = {c1}
  PinsValid = {c1}
  BranchNames = {v1}
  MaxMoves = 3
  MaxFailures = 0
PROPERTY RecheckProvesTag
CHECK_DEADLOCK FALSE
