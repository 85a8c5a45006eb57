SPECIFICATION FairSpec
CONSTANTS
  Request = {r1}
  Scheduler = Scheduler
  Funds = 5
  MaxFaults = 1
  Chunk = 2
  Reserve = 1
  MinAum = 1
  Target = 3
  MaxAum = 3
  MinFree = 1
  ProfitSweep = 3
INVARIANTS
  BooksBalance
  ReserveExplained
  AumExplained
  SwitchSurvives
PROPERTIES
  EventuallyFlat
