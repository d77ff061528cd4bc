\* Two edits by hand, generators, pushes and runs in any order.
SPECIFICATION FairSpec
CONSTANTS
  REQUIRED_REPOS = {"agent-kernel", "ChainWeaver"}
  Referenced = {"agent-kernel", "ChainWeaver"}
  DIST_NAME <- MCDistName
  Semver <- MCSemver
  Continues <- MCContinues
  Rank <- MCRank
  Null = Null
  Files <- MCFiles
  Contents <- MCContents
  NoId = NoId
  ExtendedIds = {"extended/a", "extended/b"}
  NoFile = NoFile
  Drafts <- MCDrafts
  Versions <- MCVersions
  SOURCES = {"CHANGELOG.md"}
  HandIndexes <- MCHandIndexes
  HandBundles <- MCHandBundles
  Manifests <- MCManifests
  Pyprojects <- MCPyprojects
  Initial <- MCInitial
  MaxEdits = 2
INVARIANTS
  TypeOK
  ArtifactsInv
  OfflineIsOnline
  IdentifiersResolve
  PinsAreBacked
PROPERTIES
  RegenerationConverges
