SPECIFICATION Spec
CONSTANTS
  e1 = e1
  e2 = e2
  w1 = w1
  w2 = w2
  c1 = c1
  c2 = c2
  c3 = c3
  c4 = c4
  c5 = c5
  Envelopes = {e1}
  Malformed = {}
  WithID = {e1}
  AlertCounts <- UpToTwoAlerts
  UniqueIndex = TRUE
  Workers = {w1, w2}
  Prefetch = 3
  MaxAttempts = 2
  Faults = {"mongo", "conn"}
  Copies = {c1, c2, c3, c4, c5}
  NoCopy = NoCopy
  MaxPublish = 3
  MaxDisruptions = 1
SYMMETRY Symmetry
INVARIANTS MarkJustified AtMostOnce
PROPERTY ImplementsAtLeastOnce
CHECK_DEADLOCK FALSE
