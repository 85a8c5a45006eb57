SPECIFICATION Spec
CONSTANTS
  Payer = {p1, p2}
  MaxFaults = 0
  Signature = {}
  NoSignature = NoSignature
  Job = {}
  NoJob = NoJob
  Earned = 1
  Snapshot = {t1, t2}
  NoSnapshot = NoSnapshot
  SafetyBuffer = 1
  Balance = {2}
  MaxRevenue = 1
  MaxInterval = 2
INVARIANTS
  RevenueRoutedOnce
CHECK_DEADLOCK FALSE
