\* Retrying a publication of one contracts tag until it is complete.
SPECIFICATION FairSpec
CONSTANTS
  r1 = r1
  r2 = r2
  c1 = c1
  c2 = c2
  c3 = c3
  v1 = v1
  s1 = s1
  other = other
  Unbound = Unbound
  Runs = {r1, r2}
  Tags = {v1}
  Commits = {c1, c2}
  Versions = {1, 2}
  Prefix <- MCPrefix
  Names <- MCNames
  PkgVersion <- MCPkgVersion
  Conformant = {c1, c2}
  PinsValid = {c1, c2}
  BranchNames = {v1}
  MaxMoves = 2
  MaxFailures = 2
PROPERTY RetryCompletes
CHECK_DEADLOCK FALSE
