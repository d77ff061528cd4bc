\* A dispatch retries a release whose upload an earlier run left half done.
SPECIFICATION Spec
CONSTANTS
  r1 = r1
  r2 = r2
  c1 = c1
  c2 = c2
  c3 = c3
  v1 = v1
  s1 = s1
  other = other
  Unbound = Unbound
  Runs = {r1, r2}
  Tags = {v1}
  Commits = {c1}
  Versions = {1, 2}
  Prefix <- MCPrefix
  Names <- MCNames
  PkgVersion <- MCPkgVersion
  Conformant = {c1}
  PinsValid = {c1}
  BranchNames = {v1}
  MaxMoves = 1
  MaxFailures = 1
INVARIANT RetryAccepted
CHECK_DEADLOCK FALSE
