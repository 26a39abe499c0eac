SPECIFICATION Spec
CONSTANTS
  m1 = m1
  m2 = m2
  m3 = m3
  m4 = m4
  w1 = w1
  w2 = w2
  Messages = {m1, m2, m3, m4}
  Times = {0, 1, 3}
  Span = 3
  Required = 2
  Workers = {w1, w2}
  NoMessage = NoMessage
  Faults = {"state", "reply", "expire"}
  MaxAttempts = 1
SYMMETRY Symmetry
INVARIANTS AlertsSeparate NoMissedWindow SomeAlert
CHECK_DEADLOCK FALSE
