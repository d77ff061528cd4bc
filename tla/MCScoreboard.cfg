\* Scoreboard jobs without end over siblings that change what they serve.
SPECIFICATION FairSpec
CONSTANTS
  testKey = testKey
  otherKey = otherKey
  NoEntry = NoEntry
  Unsigned = Unsigned
  NoRow = NoRow
  Committed = Committed
  Keyring <- MCKeyring
  CryptoInstalled = TRUE
  KidsSayingVerified = {}
  KidsSayingUnsigned = {}
  N = 3
  Https = {1, 2}
  Responses <- FewResponses
  MaxServes = 2
  MaxCrashes = 1
INVARIANTS
  TypeOK
  ScoreboardInv
  BadgesAgree
PROPERTIES
  ImplementsReport
  ConformingIsShown
