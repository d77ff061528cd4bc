\* One sibling that may publish any bundle, or fail in any way.
SPECIFICATION Spec
CONSTANTS
  testKey = testKey
  otherKey = otherKey
  NoEntry = NoEntry
  Unsigned = Unsigned
  NoRow = NoRow
  Committed = Committed
  Keyring <- MCKeyring
  CryptoInstalled = TRUE
  KidsSayingVerified = {}
  KidsSayingUnsigned = {}
  N = 1
  Https = {1}
  Responses <- AllResponses
  MaxServes = 1
  MaxCrashes = 1
PROPERTY ImplementsReport
