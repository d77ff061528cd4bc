\* A sibling whose host breaks off while its bundle is read.
SPECIFICATION Spec
CONSTANTS
  testKey = testKey
  otherKey = otherKey
  NoEntry = NoEntry
  Unsigned = Unsigned
  NoRow = NoRow
  Committed = Committed
  Keyring <- MCKeyring
  CryptoInstalled = TRUE
  KidsSayingVerified = {}
  KidsSayingUnsigned = {}
  N = 2
  Https = {1, 2}
  Responses <- FewResponses
  MaxServes = 1
  MaxCrashes = 0
INVARIANT StaysGreen
