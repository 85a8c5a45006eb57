------------------------------- MODULE Payments -------------------------------
(***************************************************************************)
(* Payment challenges and their settlement (payment-challenge-service,     *)
(* payment-settlement-service, payment-record-repository, the expiry sweep *)
(* of app.ts), up to the credit of an affiliate and the funding of it.     *)
(*                                                                         *)
(* Settlement requests for one challenge run side by side.  A request      *)
(* reads the record, has the payment verified, which on the x402 rail      *)
(* moves the payer's money, and writes the outcome: settled only over an   *)
(* open record, every other outcome by id alone.                           *)
(*                                                                         *)
(* The rails are external: an x402 authorization carries the hash of its   *)
(* challenge as nonce and moves money at most once; an MPP proof is bound  *)
(* to the challenge and its expiry by an HMAC.                             *)
(***************************************************************************)
EXTENDS AffiliateFunding

VARIABLES
  row,          \* the table payment_records: status per payment
  x402,         \* payments whose challenge is on the x402 rail, the others are MPP's
  due,          \* payments whose expires_at has passed
  consumed,     \* payments with a settlement_reference (ghost once deleted)
  settlements,  \* ghost: answers with newlySettled per payment, counted to 2
  paid,         \* chain: x402 payments whose money has reached the treasury
  pc,           \* per request: where it is
  cur,          \* per request: the payment it is about
  sweep         \* the expiry sweep: where it is

paymentVars == <<row, x402, due, consumed, settlements, paid>>
callVars    == <<pc, cur>>
vars        == <<fundingVars, paymentVars, callVars, sweep, faults>>

\* "pending" has no writer in the program.
Status == {"none", "challenge_issued", "settled", "underpaid", "expired", "failed", "deleted"}
Proof  == {"good", "short", "late", "bad"}
Place  == {"idle", "reap", "find", "verify", "submit", "mark_settled", "mark_expired",
           "mark_underpaid", "mark_failed", "credit", "fund"}
Sweep  == {"idle", "delete_expired", "delete_open"}

Init ==
  /\ FundingInit
  /\ row = [c \in Payment |-> "none"]
  /\ x402 = {}
  /\ due = {}
  /\ consumed = {}
  /\ settlements = [c \in Payment |-> 0]
  /\ paid = {}
  /\ pc = [p \in Request |-> "idle"]
  /\ cur = [p \in Request |-> NoPayment]
  /\ sweep = "idle"
  /\ faults = 0

Exists(c) == row[c] \notin {"none", "deleted"}
IsOpen(c) == row[c] = "challenge_issued"

\* Mutant: only the status pending, which nobody writes, counts as open.
OverduePending(c) == row[c] = "pending" /\ c \in due

Overdue(c) == IsOpen(c) /\ c \in due

Goto(p, place) == pc' = [pc EXCEPT ![p] = place] /\ UNCHANGED cur

\* The request is answered.
Answer(p) ==
  /\ pc' = [pc EXCEPT ![p] = "idle"]
  /\ cur' = [cur EXCEPT ![p] = NoPayment]

\* Overdue open records become expired, in one statement.
ExpireOpen == row' = [c \in Payment |-> IF Overdue(c) THEN "expired" ELSE row[c]]

-----------------------------------------------------------------------------
(* Challenges, the clock and the sweep *)

CreateChallenge(c) ==
  /\ row[c] = "none"
  /\ row' = [row EXCEPT ![c] = "challenge_issued"]
  /\ x402' \in {x402, x402 \union {c}}
  /\ UNCHANGED <<fundingVars, due, consumed, settlements, paid, callVars, sweep, faults>>

Expire(c) ==
  /\ row[c] /= "none" /\ c \notin due
  /\ due' = due \union {c}
  /\ UNCHANGED <<fundingVars, row, x402, consumed, settlements, paid, callVars, sweep, faults>>

SweepExpire ==
  /\ sweep = "idle"
  /\ sweep' = "delete_expired"
  /\ \/ ExpireOpen /\ NoFault
     \/ UNCHANGED row /\ Fault
  /\ UNCHANGED <<fundingVars, x402, due, consumed, settlements, paid, callVars>>

\* deleteExpiredChallenges is two statements; an error of the first ends it.
SweepDelete(place, doomed, after) ==
  LET deleted == row' = [c \in Payment |-> IF c \in doomed THEN "deleted" ELSE row[c]]
  IN /\ sweep = place
     /\ \/ NoFault /\ deleted /\ sweep' = after
        \/ Fault /\ deleted /\ sweep' = "idle"
        \/ Fault /\ UNCHANGED row /\ sweep' = "idle"
     /\ UNCHANGED <<fundingVars, x402, due, consumed, settlements, paid, callVars>>

SweepDeleteExpired ==
  SweepDelete("delete_expired", {c \in Payment : row[c] = "expired"}, "delete_open")

SweepDeleteOpen ==
  SweepDelete("delete_open", {c \in Payment : Overdue(c)}, "idle")

SweepStep == SweepExpire \/ SweepDeleteExpired \/ SweepDeleteOpen

-----------------------------------------------------------------------------
(* settle *)

Submit(p, c) ==
  /\ pc[p] = "idle" /\ row[c] /= "none"
  /\ pc' = [pc EXCEPT ![p] = "reap"]
  /\ cur' = [cur EXCEPT ![p] = c]
  /\ UNCHANGED <<fundingVars, paymentVars, sweep, faults>>

\* expireOpenChallenges, best effort.
Reap(p) ==
  /\ pc[p] = "reap"
  /\ \/ ExpireOpen /\ NoFault
     \/ UNCHANGED row /\ Fault
  /\ Goto(p, "find")
  /\ UNCHANGED <<fundingVars, x402, due, consumed, settlements, paid, sweep>>

\* A settled record is answered as before, an expired or missing one refused.
Find(p) ==
  LET c == cur[p]
      closed == row[c] \in {"deleted", "settled", "expired"}
  IN /\ pc[p] = "find"
     /\ \/ NoFault /\ closed /\ Answer(p)
        \/ NoFault /\ ~closed /\ c \in due /\ Goto(p, "mark_expired")
        \/ NoFault /\ ~closed /\ c \notin due /\ Goto(p, "verify")
        \/ Fault /\ Answer(p)
     /\ UNCHANGED <<fundingVars, paymentVars, sweep>>

\* What an adapter finds out about the settlement reference without moving
\* money.  A late proof carries an expiry of its own that has passed.
Verdict(c, m) ==
  IF c \in x402
    THEN IF m = "bad" THEN "mark_failed"
         ELSE IF m = "short" THEN "mark_underpaid"
         ELSE IF m = "late" \/ c \in due THEN "mark_expired"
         ELSE "submit"
    ELSE IF m = "late" \/ c \in due THEN "mark_expired"
         ELSE IF m = "good" THEN "mark_settled"
         ELSE "mark_failed"

Verify(p) ==
  /\ pc[p] = "verify"
  /\ \E m \in Proof : Goto(p, Verdict(cur[p], m))
  /\ UNCHANGED <<fundingVars, paymentVars, sweep, faults>>

\* Mutant: a submission counts before its receipt shows the transfer.
SubmitUnconfirmed(p) ==
  /\ pc[p] = "submit"
  /\ \/ Goto(p, "mark_settled") /\ UNCHANGED paid
     \/ Goto(p, "mark_settled") /\ paid' = paid \union {cur[p]}
  /\ UNCHANGED <<fundingVars, row, x402, due, consumed, settlements, sweep, faults>>

\* The facilitator, or the chain, executes the authorization.  A used one is
\* answered with its transaction or refused; an error says nothing.
SubmitAuthorization(p) ==
  /\ pc[p] = "submit"
  /\ \/ NoFault /\ Goto(p, "mark_settled") /\ paid' = paid \union {cur[p]}
     \/ NoFault /\ Goto(p, "mark_failed") /\ UNCHANGED paid
     \/ NoFault /\ cur[p] \in due /\ Goto(p, "mark_expired") /\ UNCHANGED paid
     \/ Fault /\ Goto(p, "mark_failed") /\ paid' = paid \union {cur[p]}
  /\ UNCHANGED <<fundingVars, row, x402, due, consumed, settlements, sweep>>

\* Mutant: the outcome is upserted, so that a deleted record comes back.
CloseUpserted(p, place, status) ==
  /\ pc[p] = place
  /\ \/ NoFault /\ row' = [row EXCEPT ![cur[p]] = status]
     \/ Fault /\ UNCHANGED row
  /\ Answer(p)
  /\ UNCHANGED <<fundingVars, x402, due, consumed, settlements, paid, sweep>>

\* markExpired, markUnderpaid and markFailed: by id, results ignored.
Close(p, place, status) ==
  /\ pc[p] = place
  /\ \/ NoFault /\ row' = [row EXCEPT ![cur[p]] = IF Exists(cur[p]) THEN status ELSE @]
     \/ Fault /\ UNCHANGED row
  /\ Answer(p)
  /\ UNCHANGED <<fundingVars, x402, due, consumed, settlements, paid, sweep>>

MarkExpired(p)   == Close(p, "mark_expired", "expired")
MarkUnderpaid(p) == Close(p, "mark_underpaid", "underpaid")
MarkFailed(p)    == Close(p, "mark_failed", "failed")

\* Mutant: markSettled without its conditions.
OpenForAll(c) == Exists(c)

\* The condition of markSettled's update.
Settleable(c) == IsOpen(c) /\ c \notin consumed

MarkSettled(p) ==
  LET c == cur[p]
      settled ==
        /\ row' = [row EXCEPT ![c] = "settled"]
        /\ consumed' = consumed \union {c}
  IN /\ pc[p] = "mark_settled"
     /\ \/ /\ NoFault /\ Settleable(c) /\ settled
           /\ settlements' = [settlements EXCEPT ![c] = IF @ < 2 THEN @ + 1 ELSE @]
           /\ Goto(p, "credit")
        \/ /\ NoFault /\ ~Settleable(c)
           /\ Answer(p) /\ UNCHANGED <<row, consumed, settlements>>
        \/ /\ Fault
           /\ \/ Settleable(c) /\ settled
              \/ UNCHANGED <<row, consumed>>
           /\ Answer(p) /\ UNCHANGED settlements
     /\ UNCHANGED <<fundingVars, x402, due, paid, sweep>>

\* creditFromSettledPayment.  Without an approved affiliate there is no
\* earning; an error is reported in the answer and nobody tries again.
Credit(p) ==
  /\ pc[p] = "credit"
  /\ Goto(p, "fund")
  /\ \/ /\ NoFault
        /\ earned' = earned \union {cur[p]}
        /\ fstep' = [fstep EXCEPT ![p] = "create"]
        /\ target' = [target EXCEPT ![p] = cur[p]]
     \/ NoFault /\ UNCHANGED <<earned, fstep, target>>
     \/ Fault /\ earned' = earned \union {cur[p]} /\ UNCHANGED <<fstep, target>>
  /\ UNCHANGED <<funding, sent, unknown, batch, paymentVars, sweep>>

\* fundEarning has returned, or was not called.
Settled(p) ==
  /\ pc[p] = "fund" /\ fstep[p] = "idle"
  /\ Answer(p)
  /\ UNCHANGED <<fundingVars, paymentVars, sweep, faults>>

SettleStep(p) ==
  \/ Reap(p)
  \/ Find(p)
  \/ Verify(p)
  \/ SubmitAuthorization(p)
  \/ MarkExpired(p)
  \/ MarkUnderpaid(p)
  \/ MarkFailed(p)
  \/ MarkSettled(p)
  \/ Credit(p)
  \/ Settled(p)

-----------------------------------------------------------------------------
(* The process and the specification *)

Restart ==
  /\ Fault
  /\ FundingRestart
  /\ pc' = [p \in Request |-> "idle"]
  /\ cur' = [p \in Request |-> NoPayment]
  /\ sweep' = "idle"
  /\ UNCHANGED paymentVars

Fund(p)  == FundingCallStep(p) /\ UNCHANGED <<paymentVars, callVars, sweep>>
Retry(p) == RetryStep(p) /\ UNCHANGED <<paymentVars, callVars, sweep>>

Next ==
  \/ \E c \in Payment : CreateChallenge(c) \/ Expire(c)
  \/ SweepStep
  \/ \E p \in Request, c \in Payment : Submit(p, c)
  \/ \E p \in Request : SettleStep(p)
  \/ \E p \in Funder : Fund(p)
  \/ \E p \in Retrier : Retry(p)
  \/ Restart

\* The event loop resumes calls, timers start sweeps and retry runs, and Para
\* accepts a transfer that is sent again and again.
Fairness ==
  /\ WF_vars(SweepStep)
  /\ \A p \in Funder : WF_vars(Fund(p))
  /\ \A p \in Retrier :
       /\ WF_vars(Retry(p))
       /\ SF_vars(SendAccepted(p) /\ UNCHANGED <<paymentVars, callVars, sweep>>)

Spec == Init /\ [][Next]_vars /\ Fairness

=============================================================================
