SPECIFICATION Spec
CONSTANTS
  e1 = e1
  e2 = e2
  w1 = w1
  w2 = w2
  c1 = c1
  c2 = c2
  c3 = c3
  c4 = c4
  c5 = c5
  Envelopes = {e1}
  Malformed = {}
  WithID = {e1}
  AlertCounts <- AlwaysOneAlert
  UniqueIndex = TRUE
  Workers = {w1, w2}
  Prefetch = 2
  MaxAttempts = 1
  Faults = {"redis"}
  Copies = {c1, c2, c3, c4}
  NoCopy = NoCopy
  MaxPublish = 2
  MaxDisruptions = 0
SYMMETRY Symmetry
INVARIANT DuplicateYieldsNothing
CHECK_DEADLOCK FALSE
