SPECIFICATION FairSpec
CONSTANTS
  Watch = {w1, w2}
  Call = {c1, c2}
  Request = {q1, q2}
  TelegramRequest = {q1}
  Event = {}
  Foreign = {}
  Text = {t1}
  Targets <- Plain
  None = None
  Horizon = 1
  LastCall = 0
  Duration = 1
  Throttle = 1
  ScanLimit = 1
  MaxFaults = 1
INVARIANTS
  CampaignTracked
PROPERTIES
  EndedCompletes
