\* The publish workflow: two runs, tags that move, runners that die.
SPECIFICATION Spec
CONSTANTS
  r1 = r1
  r2 = r2
  c1 = c1
  c2 = c2
  c3 = c3
  v1 = v1
  s1 = s1
  other = other
  Unbound = Unbound
  Runs = {r1, r2}
  Tags = {v1, s1, other}
  Commits = {c1, c2, c3}
  Versions = {1, 2}
  Prefix <- MCPrefix
  Names <- MCNames
  PkgVersion <- MCPkgVersion
  Conformant = {c1, c2}
  PinsValid = {c1, c2}
  BranchNames = {v1}
  MaxMoves = 3
  MaxFailures = 1
SYMMETRY RunSymmetry
INVARIANTS
  TypeOK
  PublishInv
  OneBuildPerRelease
  SuccessMeansOwnFiles
  PublishedFromVerifiedTag
PROPERTY ImplementsIdentity
CHECK_DEADLOCK FALSE
