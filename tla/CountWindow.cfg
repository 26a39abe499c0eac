SPECIFICATION Spec
CONSTANTS
  m1 = m1
  m2 = m2
  m3 = m3
  m4 = m4
  m5 = m5
  w1 = w1
  w2 = w2
  Messages = {m1, m2, m3, m4, m5}
  Matching = {m1, m2, m3, m4}
  Size = 2
  Required = 2
  Workers = {w1, w2}
  NoMessage = NoMessage
  Faults = {"state", "later", "expire"}
  MaxAttempts = 1
SYMMETRY Symmetry
INVARIANTS AlertBacked NoMissedWindow
PROPERTY ImplementsWindowLog
CHECK_DEADLOCK FALSE
