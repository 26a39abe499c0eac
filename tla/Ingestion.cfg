SPECIFICATION FairSpec
CONSTANTS
  a = a
  b = b
  c = c
  d1 = d1
  d2 = d2
  w = w
  h = h
  Events = {a, b, c}
  HttpEvents = {c}
  Valid = {a, b, c}
  DeviceOf <- TwoDevices
  NoEvent = NoEvent
  Worker = w
  Handlers = {h}
  Cap = 1
  Faults = {"mongo", "rabbit", "redis", "mqtt", "amqp", "crash", "stop"}
  MaxDisruptions = 1
  MaxClock = 2
INVARIANTS TypeOK QueuedIsStored StoresOpenForRequests InOrder Accounted
PROPERTIES LastSeenMonotone Settles
CHECK_DEADLOCK FALSE
