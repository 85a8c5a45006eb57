SPECIFICATION Spec
CONSTANTS
  Payer = {p1, p2}
  MaxFaults = 1
  Signature = {s1, s2}
  NoSignature = NoSignature
  Job = {j1, j2}
  NoJob = NoJob
  Earned = 1
  Snapshot = {t1, t2}
  NoSnapshot = NoSnapshot
  SafetyBuffer = 1
  Balance = {2}
  MaxRevenue = 1
  MaxInterval = 2
SYMMETRY CallSymmetry
INVARIANTS
  OneWithdrawalPerSignature
  OverdraftExplained
  ReplyTellsTruth
  TransferredIsPaid
  DoubleRouteExplained
CHECK_DEADLOCK FALSE
