SPECIFICATION Spec
CONSTANTS
  Request = {q1, q2}
  Agreement = {a1}
  Challenge = {c1, c2}
  Wallet = {w1}
  Nonce = {n1}
  None = None
  Period = 1
  Grace = 1
  Horizon = 3
  MaxFaults = 1
SYMMETRY Symmetry
INVARIANTS
  PaidForPeriods
  BoughtIsKept
PROPERTIES
  ClosedStaysClosed
