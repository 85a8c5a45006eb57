SPECIFICATION FairSpec
CONSTANTS
  BaseSafetyBuffer = 1
  Threshold = 2
  Chunk = 3
  MaxChunk = 3
  MaxFee = 1
  MaxInFlight = 1
  ForceOnStarvation = FALSE
  Row = {r1}
  Worker = worker
  Route = {request}
  NoRow = NoRow
  InitialBase = 6
  UseForwarding = TRUE
  MintMaxAttempts = 2
  Overrides = {2}
  Faults = {"base", "receipt", "network", "gas", "drop"}
  MaxCrashes = 1
INVARIANTS
  MintedOnChain
  MintInputsComplete
  MintsBounded
PROPERTIES
  KeepsPromise
  LegalTransitions
  ResumableSettles
