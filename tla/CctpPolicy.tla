------------------------------ MODULE CctpPolicy ------------------------------
(***************************************************************************)
(* The pure eligibility and amount rules of the Base -> Sepolia USDC       *)
(* rebalance: apps/api/src/cctp/rebalance-policy.ts.  Amounts are integers *)
(* in atomic USDC units, so roundUsdc6 is the identity here; the comparison*)
(* slack of 1e-12 that hides binary rounding in the code disappears too.   *)
(***************************************************************************)
EXTENDS Integers

CONSTANTS
  BaseSafetyBuffer,   \* config.baseSafetyBufferUsdc
  Threshold,          \* config.rebalanceThresholdUsdc
  Chunk,              \* config.rebalanceChunkUsdc
  MaxChunk,           \* config.rebalanceMaxChunkUsdc
  MaxFee,             \* config.maxFeeUsdc
  MaxInFlight,        \* config.maxInFlight
  ForceOnStarvation   \* config.forceOnDeskStarvation

\* The configuration reader accepts non-negative amounts and a positive limit.
ASSUME PolicyConfig ==
  /\ BaseSafetyBuffer \in Nat
  /\ Threshold \in Nat
  /\ Chunk \in Nat
  /\ MaxChunk \in Nat
  /\ MaxFee \in Nat
  /\ MaxInFlight \in Nat \ {0}
  /\ ForceOnStarvation \in BOOLEAN

\* An override of zero stands for "no amountOverrideUsdc": the parser of the
\* request body rejects an amount that is not positive.
NoOverride == 0

Smaller(a, b) == IF a <= b THEN a ELSE b

AvailableAboveBuffer(base) ==
  IF base > BaseSafetyBuffer THEN base - BaseSafetyBuffer ELSE 0

SelectAmount(base, override) ==
  LET wanted == IF override = NoOverride THEN Chunk ELSE override
  IN  Smaller(Smaller(wanted, MaxChunk), AvailableAboveBuffer(base))

\* Mutant: burns the configured chunk whatever was selected.
BurnAmountUncapped(base, override) == Smaller(Chunk, MaxChunk)

\* The selected amount, shrunk when amount + fee would dip into the buffer.
\* Zero or less means "skip: amount_zero".
BurnAmount(base, override) ==
  LET amount == SelectAmount(base, override)
  IN  IF base - amount - MaxFee < BaseSafetyBuffer
        THEN Smaller(amount, base - BaseSafetyBuffer - MaxFee)
        ELSE amount

CooldownOver(cooling, starved) ==
  ~cooling \/ (ForceOnStarvation /\ starved)

\* Mutant: one transfer too many passes the in-flight limit.
EligibleAtLimit(seen, gas, mode, override) ==
  /\ seen.inFlight <= MaxInFlight
  /\ CooldownOver(seen.cooling, seen.starved)
  /\ "base" \in gas
  /\ mode = "direct" => "sepolia" \in gas
  /\ AvailableAboveBuffer(seen.base) >= Threshold \/ override /= NoOverride
  /\ BurnAmount(seen.base, override) > 0

\* All the early returns of evaluateRebalancePolicy, negated.  `seen` holds what
\* the service read: base, inFlight, cooling (a successful burn younger than
\* the cooldown) and starved; `gas` says which signers have enough gas.
Eligible(seen, gas, mode, override) ==
  /\ seen.inFlight < MaxInFlight
  /\ CooldownOver(seen.cooling, seen.starved)
  /\ "base" \in gas
  /\ mode = "direct" => "sepolia" \in gas
  /\ AvailableAboveBuffer(seen.base) >= Threshold \/ override /= NoOverride
  /\ SelectAmount(seen.base, override) > 0
  /\ BurnAmount(seen.base, override) > 0

=============================================================================
