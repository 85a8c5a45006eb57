SPECIFICATION Spec
CONSTANTS
  Intent = {i1, i2}
  Strategy = {"oracle_amm"}
  Scheduler = scheduler
  Request = {}
  Callback = {c1}
  NoIntent = NoIntent
  UseMcp = TRUE
  PublicFallback = TRUE
  Microtrade = TRUE
  DbFaults = TRUE
  MaxCrashes = 1
SYMMETRY IntentSymmetry
INVARIANTS
  FilledMeansDone
  FailureOfFillIsExplained
