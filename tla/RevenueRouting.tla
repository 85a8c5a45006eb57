----------------------------- MODULE RevenueRouting -----------------------------
(***************************************************************************)
(* Revenue routing (services/revenue-routing-service): pays the creator a  *)
(* share of the revenue, at most once per interval.  It is called by a     *)
(* timer, which does not overlap with itself, and by KeeperHub over HTTP,  *)
(* which overlaps with anything.                                           *)
(*                                                                         *)
(* When it last ran is a column of the treasury snapshot that was the      *)
(* latest when the run began.  Treasury checks (keeperhub/treasury-check-  *)
(* handler) insert a new snapshot without that column; which snapshot is   *)
(* the latest is decided by captured_at, a field of the check's payload.   *)
(*                                                                         *)
(* The balance in a snapshot is the wallet's ether for gas, revenue is     *)
(* USDC.  The cost estimates and the reserve are left out, the shares and  *)
(* the choice of units are a free choice of an amount below both ceilings. *)
(***************************************************************************)
EXTENDS PayoutRecords

CONSTANTS
  Snapshot,      \* treasury snapshots (bound)
  NoSnapshot,    \* "no snapshot"
  SafetyBuffer,  \* TREASURY_SAFETY_BUFFER
  Balance,       \* balances a treasury check may find
  MaxRevenue,    \* bound: settled revenue
  MaxInterval    \* bound: routing intervals that go by

ASSUME RoutingConfig ==
  /\ NoSnapshot \notin Snapshot
  /\ SafetyBuffer \in Nat
  /\ Balance \subseteq Nat
  /\ MaxRevenue \in Nat
  /\ MaxInterval \in Nat \ {0}

VARIABLES
  now,        \* the current interval: ROUTING_INTERVAL_MS have passed since all earlier ones
  revenue,    \* the sum of all settled payments
  balance,    \* per snapshot: available_balance
  routed,     \* per snapshot: the interval in last_routed_at, 0 for null
  latest,     \* the snapshot with the greatest captured_at
  taken,      \* snapshots inserted so far
  scheduled,  \* the runs of the timer
  basis,      \* per run: the snapshot it has read
  seen,       \* per run: the revenue it has read
  amount,     \* per run: what it pays
  paidAt,     \* per run: the interval in which its transfer was broadcast
  beside,     \* ghost, per run: the runs under way when it read its snapshot
  marked      \* ghost: runs that left their mark on their snapshot

routingVars ==
  <<now, revenue, balance, routed, latest, taken, scheduled,
    basis, seen, amount, paidAt, beside, marked>>

RoutingInit ==
  /\ now = 1
  /\ revenue = 0
  /\ balance = [s \in Snapshot |-> 0]
  /\ routed = [s \in Snapshot |-> 0]
  /\ latest = NoSnapshot
  /\ taken = {}
  /\ scheduled = {}
  /\ basis = [p \in Payer |-> NoSnapshot]
  /\ seen = [p \in Payer |-> 0]
  /\ amount = [p \in Payer |-> 0]
  /\ paidAt = [p \in Payer |-> 0]
  /\ beside = [p \in Payer |-> {}]
  /\ marked = {}

runVars == <<scheduled, basis, seen, amount, paidAt, beside, marked>>
snapshotVars == <<balance, routed, latest, taken>>

InRoute(p, place) == kind[p] = "routing" /\ pc[p] = place

Routings == {p \in Payer : kind[p] = "routing"}

-----------------------------------------------------------------------------
(* The outside *)

\* A payment is settled.
Settle ==
  /\ revenue < MaxRevenue
  /\ revenue' = revenue + 1
  /\ UNCHANGED <<kind, pc, recordVars, moneyVars, faults, now, snapshotVars, runVars>>

IntervalPasses ==
  /\ now < MaxInterval
  /\ now' = now + 1
  /\ UNCHANGED <<kind, pc, recordVars, moneyVars, faults, revenue, snapshotVars, runVars>>

\* TreasuryCheckHandler.check: a webhook that comes late is not the latest.
CheckTreasury(s) ==
  /\ s \in Snapshot \ taken
  /\ taken' = taken \union {s}
  /\ \E b \in Balance : balance' = [balance EXCEPT ![s] = b]
  /\ latest' \in IF latest = NoSnapshot THEN {s} ELSE {latest, s}
  /\ UNCHANGED <<kind, pc, recordVars, moneyVars, faults, now, revenue, routed, runVars>>

-----------------------------------------------------------------------------
(* routeRevenue *)

\* The timer skips a wake-up while its last run is in flight.
StartRouting(p, byTimer) ==
  /\ byTimer => \A q \in scheduled : ~Active(q)
  /\ Start(p, "routing", "aggregates")
  /\ scheduled' = IF byTimer THEN scheduled \union {p} ELSE scheduled
  /\ UNCHANGED <<recordVars, moneyVars, faults, now, revenue, snapshotVars,
                 basis, seen, amount, paidAt, beside, marked>>

\* getAggregates: the revenue of all time; without a snapshot, or if the sum
\* cannot be read and no check has stored one, it is nothing.
ReadAggregates(p) ==
  /\ InRoute(p, "aggregates")
  /\ \/ NoFault /\ seen' = [seen EXCEPT ![p] = IF latest = NoSnapshot THEN 0 ELSE revenue]
     \/ Fault /\ \E r \in 0 .. revenue : seen' = [seen EXCEPT ![p] = r]
  /\ Go(p, "snapshot")
  /\ UNCHANGED <<kind, recordVars, moneyVars, now, revenue, snapshotVars,
                 scheduled, basis, amount, paidAt, beside, marked>>

Excess(s) == IF balance[s] > SafetyBuffer THEN balance[s] - SafetyBuffer ELSE 0

AtMost(a, b) == IF a < b THEN a ELSE b

\* Mutant: the interval is not looked at.
DueAlways(s) == TRUE

\* "Routing interval not elapsed", judged by the latest snapshot alone.
Due(s) == routed[s] /= now

\* What may be paid out: shouldRouteRevenue, then excess and revenue as ceilings.
Distributable(p, s) == 1 .. AtMost(Excess(s), seen[p])

UnderWay(p) ==
  {q \in Routings \ {p} : Active(q) /\ pc[q] \notin {"aggregates", "snapshot"}}

\* findLatest, the guards and the amount.  Costs, reserve and shares, or a
\* snapshot that cannot be read, may leave nothing to pay.
Decide(p) ==
  /\ InRoute(p, "snapshot")
  /\ NoFault
  /\ \/ /\ latest \in Snapshot /\ Due(latest)
        /\ \E a \in Distributable(p, latest) : amount' = [amount EXCEPT ![p] = a]
        /\ basis' = [basis EXCEPT ![p] = latest]
        /\ beside' = [beside EXCEPT ![p] = UnderWay(p)]
        /\ Go(p, "insert")
     \/ Go(p, "end") /\ UNCHANGED <<amount, basis, beside>>
  /\ UNCHANGED <<kind, recordVars, moneyVars, now, revenue, snapshotVars,
                 scheduled, seen, paidAt, marked>>

\* payoutRepo.create
CreateRoutingPayout(p) ==
  /\ InRoute(p, "insert")
  /\ InsertPayout(p, "find", "end")
  /\ UNCHANGED <<kind, recorded, moneyVars, routingVars>>

\* findById before the transfer: a row that cannot be read is marked failed.
FindPayout(p) ==
  /\ InRoute(p, "find")
  /\ \/ NoFault /\ Go(p, "transfer")
     \/ Fault /\ Go(p, "fail_payout")
  /\ UNCHANGED <<kind, recordVars, moneyVars, routingVars>>

SendRouting(p) ==
  /\ kind[p] = "routing"
  /\ Transfer(p, "fail_payout") \/ Answer(p, "find_again", "fail_payout")
  /\ paidAt' = IF p \in sent' \ sent THEN [paidAt EXCEPT ![p] = now] ELSE paidAt
  /\ UNCHANGED <<kind, now, revenue, snapshotVars, scheduled, basis, seen, amount, beside, marked>>

\* findById after the transfer: a row that cannot be read is left as it is.
FindPayoutAgain(p) ==
  /\ InRoute(p, "find_again")
  /\ \/ NoFault /\ Go(p, "registry")
     \/ Fault /\ Go(p, "mark_snapshot")
  /\ UNCHANGED <<kind, recordVars, moneyVars, routingVars>>

RecordRouting(p) ==
  /\ kind[p] = "routing"
  /\ RecordPayout(p, "mark_transferred", "fail_payout")
  /\ UNCHANGED <<kind, routingVars>>

MarkRoutingTransferred(p) ==
  /\ InRoute(p, "mark_transferred")
  /\ SetPayout(p, "transferred")
  /\ Go(p, "mark_snapshot")
  /\ UNCHANGED <<kind, recorded, moneyVars, routingVars>>

\* markPayoutsFailed, also for a payout whose money has moved; the run ends
\* without a mark and the next one pays again.
FailRoutingPayout(p) ==
  /\ InRoute(p, "fail_payout")
  /\ SetPayout(p, "failed")
  /\ Go(p, "end")
  /\ UNCHANGED <<kind, recorded, moneyVars, routingVars>>

\* The mark goes to the snapshot the run has read, which may be the latest no more.
MarkSnapshot(p) ==
  LET updated == [routed EXCEPT ![basis[p]] = now]
  IN /\ InRoute(p, "mark_snapshot")
     /\ \/ NoFault /\ routed' = updated /\ marked' = marked \union {p}
        \/ Fault /\ UNCHANGED <<routed, marked>>
     /\ Go(p, "end")
     /\ UNCHANGED <<kind, recordVars, moneyVars, now, revenue, balance, latest, taken,
                    scheduled, basis, seen, amount, paidAt, beside>>

-----------------------------------------------------------------------------

RoutingStep(p) ==
  \/ \E byTimer \in BOOLEAN : StartRouting(p, byTimer)
  \/ ReadAggregates(p) \/ Decide(p) \/ CreateRoutingPayout(p) \/ FindPayout(p)
  \/ SendRouting(p) \/ FindPayoutAgain(p) \/ RecordRouting(p)
  \/ MarkRoutingTransferred(p) \/ FailRoutingPayout(p) \/ MarkSnapshot(p)

RoutingOutside ==
  \/ Settle
  \/ IntervalPasses
  \/ \E s \in Snapshot : CheckTreasury(s)

=============================================================================
