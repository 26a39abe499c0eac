SPECIFICATION Spec
CONSTANTS
  e1 = e1
  e2 = e2
  e3 = e3
  d1 = d1
  d2 = d2
  t = t
  h = h
  Messages = {e1, e2, e3}
  Device <- Devices
  Tags <- Places
  Value <- Values
  Rules = {"hot", "often", "late", "quiet", "off"}
  Rule <- Documents
  AnyMetric = AnyMetric
  WithIndex = {e1, e2}
  NoMessage = NoMessage
  Faults = {"mongo", "redis"}
  MaxAttempts = 1
INVARIANTS InstantStored RaisedStored HandledOnce DeadExplained CountedPerAttempt
CHECK_DEADLOCK FALSE
