SPECIFICATION FairSpec
CONSTANTS
  m1 = m1
  m2 = m2
  Messages = {m1, m2}
  Headers <- SomeHeaders
  MaxAttempts = 3
  MaxFailures = 1
  BaseDelay = 2
  MaxDelay = 4
  Jitter = 1
  Grain = 2
  MaxInt = 7
INVARIANTS NothingLost ReturnsInTime TriesBounded
PROPERTY Settles
CHECK_DEADLOCK FALSE
