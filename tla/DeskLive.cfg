SPECIFICATION FairSpec
CONSTANTS
  Intent = {i1, i2}
  Strategy = {"oracle_amm"}
  Scheduler = scheduler
  Request = {q1}
  Callback = {}
  NoIntent = NoIntent
  UseMcp = FALSE
  PublicFallback = FALSE
  Microtrade = FALSE
  DbFaults = FALSE
  MaxCrashes = 1
INVARIANTS
  OneOpenPerStrategy
PROPERTIES
  ExecutingSettles
