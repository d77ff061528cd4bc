\* A sibling signs with a kid that has words of a note in it.
SPECIFICATION Spec
CONSTANTS
  testKey = testKey
  otherKey = otherKey
  NoEntry = NoEntry
  Unsigned = Unsigned
  NoRow = NoRow
  Committed = Committed
  Keyring <- MCKeyring
  CryptoInstalled = TRUE
  KidsSayingVerified = {"wordy"}
  KidsSayingUnsigned = {}
  N = 2
  Https = {1, 2}
  Responses <- WordyResponses
  MaxServes = 1
  MaxCrashes = 0
INVARIANT VerifiedIsProven
