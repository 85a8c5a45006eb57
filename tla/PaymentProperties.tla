--------------------------- MODULE PaymentProperties ---------------------------
(***************************************************************************)
(* What makes settlement and funding correct.                              *)
(***************************************************************************)
EXTENDS Payments

\* The type invariant.
TypeOK ==
  /\ earned \subseteq Payment
  /\ funding \in [Payment -> FundingStatus]
  /\ sent \in [Payment -> 0 .. MaxSends]
  /\ unknown \subseteq Payment
  /\ fstep \in [Funder -> FundingStep]
  /\ target \in [Funder -> Payment \union {NoPayment}]
  /\ batch \in [Retrier -> SUBSET Payment]
  /\ faults \in 0 .. MaxFaults
  /\ row \in [Payment -> Status]
  /\ x402 \subseteq Payment
  /\ due \subseteq Payment
  /\ consumed \subseteq Payment
  /\ settlements \in [Payment -> 0 .. 2]
  /\ paid \subseteq x402
  /\ pc \in [Request -> Place]
  /\ cur \in [Request -> Payment \union {NoPayment}]
  /\ sweep \in Sweep
  /\ \A p \in Request : pc[p] /= "idle" => cur[p] \in Payment
  /\ \A p \in Funder : fstep[p] /= "idle" => target[p] \in Payment

-----------------------------------------------------------------------------
(* Safety *)

\* "True only for the request that atomically consumed an open challenge"
\* (payment-settlement-service.ts:18): of all the requests for a challenge,
\* concurrent, repeated or after its expiry, at most one is newly settled.
ConsumedOnce == \A c \in Payment : settlements[c] <= 1

\* Money the treasury adds to the affiliates' float answers money that came in:
\* only for a credited payment whose settlement was recorded, and on the x402
\* rail only after the payer's transfer reached the treasury.
FundingIsBacked ==
  /\ \A c \in consumed \intersect x402 : c \in paid
  /\ \A c \in Payment : sent[c] > 0 => c \in consumed \intersect earned

\* A claimed row has one holder: between the claim and the final update no
\* other settlement or retry run may send or close the same transfer.
HoldsClaim(p) == fstep[p] \in {"send", "mark_completed", "mark_failed"}
ClaimExclusive ==
  \A p, q \in Funder :
    HoldsClaim(p) /\ HoldsClaim(q) /\ target[p] = target[q] => p = q

\* "doing so can pay twice" (affiliate-funding-transfer-repository.ts:96): the
\* reward is broadcast a second time only if Para reported an error for a
\* transfer it had broadcast, never because of overlapping runs or restarts.
PaidTwiceNeedsLostAnswer ==
  \A c \in Payment : sent[c] > 1 => c \in unknown

-----------------------------------------------------------------------------
(* Refinement: each payment keeps the promise of Settlement. *)

RecordOf(c) ==
  CASE row[c] = "none"             -> "none"
    [] row[c] = "challenge_issued" -> "open"
    [] row[c] = "settled"          -> "settled"
    [] row[c] = "deleted"          -> "dropped"
    [] OTHER                       -> "closed"

Promise == INSTANCE Settlement WITH
  record   <- [c \in Payment |-> RecordOf(c)],
  chained  <- x402,
  received <- paid,
  taken    <- consumed,
  told     <- {c \in Payment : settlements[c] > 0},
  rewarded <- earned,
  floated  <- sent,
  doubted  <- unknown

\* The requests, sweeps, retry runs and restarts implement Settlement for every
\* payment at once: it is taken once and when its money has come, rewarded once
\* by whoever was told, floated again only in doubt, and its record never opens
\* again, is not dropped while it shows settled, and stays dropped.
KeepsSettlement == Promise!SettlementSpec

-----------------------------------------------------------------------------
(* Liveness *)

\* "Retry pending/failed funding rows after a process restart or transient
\* error": a row is retried until it is completed, or stays processing, which
\* only reconciliation may touch.
FundingSettles ==
  \A c \in Payment :
    funding[c] /= "none" ~> [](funding[c] \in {"completed", "processing"})

\* An open challenge past its expiry does not stay open.
OverdueCloses == \A c \in Payment : IsOpen(c) /\ c \in due ~> ~IsOpen(c)

=============================================================================
