----------------------------- MODULE PayoutRecords -----------------------------
(***************************************************************************)
(* The table payout_records and what its two writers share: affiliate      *)
(* withdrawals and the routing of revenue both insert a pending row, send  *)
(* USDC under an idempotency key made of the row's id, record the payout   *)
(* on the registry contract and then update the row, unconditionally and   *)
(* mostly without looking at the result.                                   *)
(*                                                                         *)
(* A payer is one call of affiliate-withdrawal-service.withdraw or of      *)
(* revenue-routing-service.routeRevenue; it inserts at most one payout,    *)
(* which therefore has its name.  pc is the await the call is at.          *)
(*                                                                         *)
(* The wallet (Para or KeeperHub) and the registry are external: a         *)
(* transfer may be broadcast although the caller is told that it failed.   *)
(***************************************************************************)
EXTENDS Naturals, FiniteSets

CONSTANTS
  Payer,      \* calls that pay, each used once (bound)
  MaxFaults   \* bound: failing calls, lost answers and restarts

ASSUME PayerConfig == IsFiniteSet(Payer) /\ MaxFaults \in Nat

VARIABLES
  kind,      \* per payer: "none" before it starts, "withdrawal" or "routing"
  pc,        \* per payer: the await it is at
  payout,    \* the table payout_records: status per payer
  sent,      \* the chain: payers whose transfer was broadcast
  unknown,   \* ghost: of these, the ones reported to the caller as an error
  recorded,  \* the registry: payers whose payout is recorded
  faults     \* faults so far

recordVars == <<payout, recorded>>
moneyVars  == <<sent, unknown>>

PayoutStatus == {"none", "pending", "transferred", "failed"}

RecordInit ==
  /\ kind = [p \in Payer |-> "none"]
  /\ pc = [p \in Payer |-> "idle"]
  /\ payout = [p \in Payer |-> "none"]
  /\ sent = {}
  /\ unknown = {}
  /\ recorded = {}
  /\ faults = 0

Fault   == faults < MaxFaults /\ faults' = faults + 1
NoFault == UNCHANGED faults

Active(p) == pc[p] \notin {"idle", "end"}

Start(p, k, place) ==
  /\ pc[p] = "idle"
  /\ kind' = [kind EXCEPT ![p] = k]
  /\ pc' = [pc EXCEPT ![p] = place]

Go(p, place) == pc' = [pc EXCEPT ![p] = place]

-----------------------------------------------------------------------------
(* The repository *)

\* create: the caller goes on to next, or to refused if it is told of an error,
\* which it may be although the row was inserted.
InsertPayout(p, next, refused) ==
  LET inserted == [payout EXCEPT ![p] = "pending"]
  IN \/ NoFault /\ payout' = inserted /\ Go(p, next)
     \/ Fault /\ payout' \in {payout, inserted} /\ Go(p, refused)

\* update by id; the callers ignore whether it worked.
SetPayout(p, status) ==
  LET updated == [payout EXCEPT ![p] = status]
  IN \/ NoFault /\ payout' = updated
     \/ Fault /\ payout' \in {payout, updated}

-----------------------------------------------------------------------------
(* The wallet and the registry *)

\* sendTransfer is broadcast, or refused before that.
Broadcast(p) == NoFault /\ sent' = sent \union {p} /\ Go(p, "answer") /\ UNCHANGED unknown

Refused(p, failed) == Fault /\ Go(p, failed) /\ UNCHANGED moneyVars

Transfer(p, failed) ==
  /\ pc[p] = "transfer"
  /\ Broadcast(p) \/ Refused(p, failed)
  /\ UNCHANGED recordVars

\* The receipt arrives, or the call throws although the transfer is on its way.
Answer(p, next, failed) ==
  /\ pc[p] = "answer"
  /\ \/ NoFault /\ Go(p, next) /\ UNCHANGED unknown
     \/ Fault /\ Go(p, failed) /\ unknown' = unknown \union {p}
  /\ UNCHANGED <<sent, payout, recorded>>

\* Mutant: the result of the registry is not looked at.
RecordPayoutUnchecked(p, next, failed) ==
  /\ pc[p] = "registry"
  /\ \/ NoFault /\ recorded' = recorded \union {p}
     \/ Fault /\ UNCHANGED recorded
  /\ Go(p, next)
  /\ UNCHANGED <<payout, sent, unknown>>

\* recordPayout is sent to the registry; it may be recorded although the
\* answer is lost.
RecordPayout(p, next, failed) ==
  /\ pc[p] = "registry"
  /\ \/ NoFault /\ recorded' = recorded \union {p} /\ Go(p, next)
     \/ Fault /\ recorded' \in {recorded, recorded \union {p}} /\ Go(p, failed)
  /\ UNCHANGED <<payout, sent, unknown>>

=============================================================================
