SPECIFICATION Spec
CONSTANTS
  Watch = {w1}
  Call = {c1, c2}
  Request = {q1}
  TelegramRequest = {q1}
  Event = {e1, e2}
  Foreign = {}
  Text = {t1}
  Targets <- Mixed
  None = None
  Horizon = 2
  LastCall = 0
  Duration = 2
  Throttle = 1
  ScanLimit = 1
  MaxFaults = 1
SYMMETRY Symmetry
INVARIANTS
  CursorExplained
  ToldTwiceExplained
  ReportCovers
  AnchorExplained
PROPERTIES
  KeepsWatchPromise
