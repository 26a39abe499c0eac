SPECIFICATION FairSpec
CONSTANTS
  all = all
  one = one
  none = none
  d1 = d1
  RuleList <- ThreeRules
  Gap <- ThreeGaps
  Found <- OneScopes
  Devices = {d1}
  Second = 2
  Interval = 3
  NoTime = NoTime
  Faults = {"mongo", "redis", "crash", "stop"}
  MaxFailures = 1
  MaxReports = 2
  MaxClock = 5
INVARIANTS TypeOK AlertJustified
PROPERTIES RoundCovers SilenceReported
