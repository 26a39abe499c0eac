SPECIFICATION PipelineSpec
CONSTANTS
  a = a
  b = b
  c = c
  d1 = d1
  d2 = d2
  w = w
  h = h
  i = i
  Events = {a, b, c}
  HttpEvents = {a, b}
  Valid = {a, b, c}
  DeviceOf <- TwoDevices
  NoEvent = NoEvent
  Worker = w
  Handlers = {h, i}
  Cap = 1
  Faults = {"mqtt", "amqp", "timeout", "crash"}
  MaxDisruptions = 1
  MaxClock = 2
  Script <- TwoScripts
  Gap = 1
INVARIANTS SerialOrder NoFalseAlarm
SYMMETRY Alike
CHECK_DEADLOCK FALSE
