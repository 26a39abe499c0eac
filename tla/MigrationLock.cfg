SPECIFICATION Spec
CONSTANTS
  engine = engine
  engine2 = engine2
  migrate = migrate
  Processes = {engine, migrate}
  Engines = {engine}
  Count = 2
  TTL = 2
  Timeout = 2
  Faults = {"mongo", "crash"}
  NoLock = NoLock
  MaxClock = 4
INVARIANTS TypeOK OneMigrator AppliedInOrder MarkedOnce ServingExplained
CHECK_DEADLOCK FALSE
