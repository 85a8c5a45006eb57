SPECIFICATION Spec
CONSTANTS
  Payment = {c1}
  NoPayment = NoPayment
  Request = {r1, r2}
  Retrier = {w1}
  MaxSends = 2
  MaxFaults = 1
INVARIANTS
  ConsumedOnce
  FundingIsBacked
  ClaimExclusive
  PaidTwiceNeedsLostAnswer
PROPERTIES
  KeepsSettlement
  FundingSettles
  OverdueCloses
