SPECIFICATION Spec
CONSTANTS
  BaseSafetyBuffer = 5
  Threshold = 1
  Chunk = 3
  MaxChunk = 3
  MaxFee = 1
  MaxInFlight = 1
  ForceOnStarvation = TRUE
  Row = {r1, r2, r3}
  Worker = worker
  Route = {request}
  NoRow = NoRow
  InitialBase = 9
  UseForwarding = FALSE
  MintMaxAttempts = 1
  Overrides = {}
  Faults = {"db", "base", "receipt", "iris"}
  MaxCrashes = 1
SYMMETRY RowSymmetry
VIEW WithoutHistory
INVARIANTS
  RecordedBurnHappened
  BreachIsBounded
  InFlightBounded
