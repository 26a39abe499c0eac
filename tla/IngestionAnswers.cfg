SPECIFICATION Spec
CONSTANTS
  a = a
  b = b
  c = c
  d1 = d1
  d2 = d2
  w = w
  h = h
  Events = {b, c}
  HttpEvents = {c}
  Valid = {c}
  DeviceOf <- TwoDevices
  NoEvent = NoEvent
  Worker = w
  Handlers = {h}
  Cap = 1
  Faults = {"mongo"}
  MaxDisruptions = 0
  MaxClock = 1
INVARIANT AnsweredMeansStored
CHECK_DEADLOCK FALSE
