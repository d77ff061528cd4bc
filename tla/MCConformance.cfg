\* Calls of one process on a tree that is edited twice, and the dates of a result.
SPECIFICATION Spec
CONSTANTS
  testKey = testKey
  NoEntry = NoEntry
  Unsigned = Unsigned
  NoBundle = NoBundle
  NoBaseline = NoBaseline
  NoFile = NoFile
  Torn = Torn
  Keyring <- MCKeyring
  CryptoInstalled = TRUE
  Payload <- MCPayload
  Within <- MCWithin
  Initial <- MCInitial
  SchemaDrafts <- MCSchemaDrafts
  Positives <- MCPositives
  Negatives <- MCNegatives
  Blocks <- MCBlocks
  Versions <- MCVersions
  Major <- MCMajor
  External <- MCExternal
  RESULT_MAX_AGE = 1
  Skews = {0, 1}
  MaxEdits = 2
  MaxDay = 2
  MaxChanges = 2
INVARIANTS
  TypeOK
  CacheTransparent
  GreenMeansConforming
  FreshMeansRecentPass
  BadgeIsEarned
  NeverDrift
  AgreementMeansConforming
  
