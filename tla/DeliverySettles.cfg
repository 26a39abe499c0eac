SPECIFICATION FairSpec
CONSTANTS
  e1 = e1
  e2 = e2
  w1 = w1
  w2 = w2
  c1 = c1
  c2 = c2
  c3 = c3
  c4 = c4
  c5 = c5
  Envelopes = {e1, e2}
  Malformed = {e2}
  WithID = {e1}
  AlertCounts <- OneAlertOrInvalid
  UniqueIndex = TRUE
  Workers = {w1, w2}
  Prefetch = 1
  MaxAttempts = 1
  Faults = {"mongo", "redis", "publish", "conn", "stop", "crash", "expire"}
  Copies = {c1, c2, c3, c4}
  NoCopy = NoCopy
  MaxPublish = 1
  MaxDisruptions = 1
INVARIANTS TypeOK DeadLetterReason LossExplained
PROPERTY Settles
CHECK_DEADLOCK FALSE
