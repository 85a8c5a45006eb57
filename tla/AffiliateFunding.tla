--------------------------- MODULE AffiliateFunding ---------------------------
(***************************************************************************)
(* Funding the affiliate payout float (services/affiliate-funding-service, *)
(* affiliate-funding-transfer-repository): every affiliate earning has one *)
(* row, and the service sends the earned amount from the treasury through  *)
(* Para once it has claimed the row.                                       *)
(*                                                                         *)
(* A row is processed by the settlement that credited the earning and by   *)
(* retry runs, which a timer starts every minute whether or not the last   *)
(* one is over.  A claim reads the row and updates it if its status and    *)
(* updated_at are still those read.  An earning is named by its payment    *)
(* (affiliate_earnings has a unique payment_record_id).                    *)
(*                                                                         *)
(* Para is external: a transfer is broadcast or not, whatever the caller   *)
(* is told, and a repeated idempotency key may or may not be recognised.   *)
(***************************************************************************)
EXTENDS Naturals, FiniteSets

CONSTANTS
  Payment,    \* payments, and the earnings they may yield
  NoPayment,  \* "no payment"
  Request,    \* settlement requests being served
  Retrier,    \* overlapping runs of retryPending (bound)
  MaxSends,   \* bound: broadcasts counted per earning
  MaxFaults   \* bound: failing calls, lost answers and restarts

Funder == Request \union Retrier

ASSUME FundingConfig ==
  /\ IsFiniteSet(Payment)
  /\ NoPayment \notin Payment
  /\ Request \intersect Retrier = {}
  /\ MaxSends \in Nat \ {0, 1}
  /\ MaxFaults \in Nat

VARIABLES
  earned,   \* payments whose reward was credited
  funding,  \* the table affiliate_funding_transfers: status per earning
  sent,     \* Para: transfers broadcast per earning
  unknown,  \* ghost: earnings for which a broadcast was reported as an error
  fstep,    \* per funder: where it is
  target,   \* per funder: the earning it works on
  batch,    \* per retry run: the rows it still has to process
  faults    \* faults so far

fundingVars == <<earned, funding, sent, unknown, fstep, target, batch>>

FundingStatus == {"none", "pending", "processing", "completed", "failed"}
FundingStep   == {"idle", "create", "claim_read", "claim", "stale", "send",
                  "mark_completed", "mark_failed"}

FundingInit ==
  /\ earned = {}
  /\ funding = [c \in Payment |-> "none"]
  /\ sent = [c \in Payment |-> 0]
  /\ unknown = {}
  /\ fstep = [p \in Funder |-> "idle"]
  /\ target = [p \in Funder |-> NoPayment]
  /\ batch = [p \in Retrier |-> {}]

Fault   == faults < MaxFaults /\ faults' = faults + 1
NoFault == UNCHANGED faults

\* Mutant: a failed transfer is forgotten.
RetryablePending(c) == funding[c] = "pending"

\* Mutant: rows left processing are taken up again.
RetryableProcessing(c) == funding[c] \in {"pending", "failed", "processing"}

Retryable(c) == funding[c] \in {"pending", "failed"}

-----------------------------------------------------------------------------
(* Control *)

StepTo(p, place) == fstep' = [fstep EXCEPT ![p] = place] /\ UNCHANGED target

\* processRow returns.
Leave(p) ==
  /\ fstep' = [fstep EXCEPT ![p] = "idle"]
  /\ target' = [target EXCEPT ![p] = NoPayment]

\* The row is updated, so a claim that has read it finds another updated_at.
Update(p, status) ==
  funding' = [funding EXCEPT ![target[p]] = status]

Outdated(p) ==
  [q \in Funder |-> IF fstep[q] = "claim" /\ target[q] = target[p] THEN "stale" ELSE fstep[q]]

UpdateAndStep(p, status, place) ==
  /\ Update(p, status)
  /\ fstep' = [Outdated(p) EXCEPT ![p] = place]
  /\ UNCHANGED target

UpdateAndLeave(p, status) ==
  /\ Update(p, status)
  /\ fstep' = [Outdated(p) EXCEPT ![p] = "idle"]
  /\ target' = [target EXCEPT ![p] = NoPayment]

KeepAndLeave(p) == Leave(p) /\ UNCHANGED funding

-----------------------------------------------------------------------------
(* fundEarning and retryPending *)

\* fundEarning: insert the row, or find the one that exists.
CreateForEarning(p) ==
  /\ fstep[p] = "create"
  /\ \/ /\ NoFault
        /\ funding' = [funding EXCEPT ![target[p]] = IF @ = "none" THEN "pending" ELSE @]
        /\ IF funding'[target[p]] \in {"completed", "processing"}
             THEN Leave(p)
             ELSE StepTo(p, "claim_read")
     \/ /\ Fault
        /\ \/ KeepAndLeave(p)
           \/ /\ funding' = [funding EXCEPT ![target[p]] = IF @ = "none" THEN "pending" ELSE @]
              /\ Leave(p)
  /\ UNCHANGED <<earned, sent, unknown, batch>>

\* retryPending: list pending and failed rows.  A failing query ends the run.
ListRetryable(p) ==
  /\ fstep[p] = "idle" /\ batch[p] = {}
  /\ batch' = [batch EXCEPT ![p] = {c \in Payment : Retryable(c)}]
  /\ UNCHANGED <<earned, funding, sent, unknown, fstep, target, faults>>

NextRow(p) ==
  /\ fstep[p] = "idle"
  /\ \E c \in batch[p] :
       /\ batch' = [batch EXCEPT ![p] = @ \ {c}]
       /\ target' = [target EXCEPT ![p] = c]
       /\ fstep' = [fstep EXCEPT ![p] = "claim_read"]
  /\ UNCHANGED <<earned, funding, sent, unknown, faults>>

ClaimRead(p) ==
  /\ fstep[p] = "claim_read"
  /\ \/ NoFault /\ Retryable(target[p]) /\ StepTo(p, "claim")
     \/ NoFault /\ ~Retryable(target[p]) /\ Leave(p)
     \/ Fault /\ Leave(p)
  /\ UNCHANGED <<earned, funding, sent, unknown, batch>>

\* Mutant: the update is conditional on the row's id alone.
ClaimUnconditional(p) ==
  /\ fstep[p] \in {"claim", "stale"}
  /\ \/ NoFault /\ UpdateAndStep(p, "processing", "send")
     \/ Fault /\ KeepAndLeave(p)
     \/ Fault /\ UpdateAndLeave(p, "processing")
  /\ UNCHANGED <<earned, sent, unknown, batch>>

\* The compare-and-set; its answer may be lost after the row has changed.
Claim(p) ==
  /\ fstep[p] \in {"claim", "stale"}
  /\ \/ NoFault /\ fstep[p] = "claim" /\ UpdateAndStep(p, "processing", "send")
     \/ NoFault /\ fstep[p] = "stale" /\ KeepAndLeave(p)
     \/ Fault /\ KeepAndLeave(p)
     \/ Fault /\ fstep[p] = "claim" /\ UpdateAndLeave(p, "processing")
  /\ UNCHANGED <<earned, sent, unknown, batch>>

Broadcast(c) == sent[c] < MaxSends /\ sent' = [sent EXCEPT ![c] = @ + 1]

\* The same idempotency key as before, recognised by Para.
Recognised(c) == sent[c] > 0 /\ UNCHANGED sent

SendAccepted(p) ==
  /\ fstep[p] = "send"
  /\ Broadcast(target[p]) \/ Recognised(target[p])
  /\ StepTo(p, "mark_completed")
  /\ UNCHANGED <<earned, funding, unknown, batch, faults>>

SendRejected(p) ==
  /\ fstep[p] = "send"
  /\ StepTo(p, "mark_failed")
  /\ UNCHANGED <<earned, funding, sent, unknown, batch, faults>>

\* The call throws (60 s limit, no hash in the answer) after the broadcast.
SendLost(p) ==
  /\ fstep[p] = "send"
  /\ Fault
  /\ Broadcast(target[p])
  /\ unknown' = unknown \union {target[p]}
  /\ StepTo(p, "mark_failed")
  /\ UNCHANGED <<earned, funding, batch>>

\* An update by id whose failure leaves the row processing for good.
Mark(p, place, status) ==
  /\ fstep[p] = place
  /\ \/ NoFault /\ UpdateAndLeave(p, status)
     \/ Fault /\ KeepAndLeave(p)
  /\ UNCHANGED <<earned, sent, unknown, batch>>

MarkCompleted(p) == Mark(p, "mark_completed", "completed")
MarkFundingFailed(p) == Mark(p, "mark_failed", "failed")

\* The steps of a call that has an earning in hand.
FundingCallStep(p) ==
  \/ CreateForEarning(p)
  \/ ClaimRead(p)
  \/ Claim(p)
  \/ SendAccepted(p)
  \/ SendRejected(p)
  \/ SendLost(p)
  \/ MarkCompleted(p)
  \/ MarkFundingFailed(p)

RetryStep(p) == ListRetryable(p) \/ NextRow(p)

\* The process restarts: its calls are gone, the table and Para are not.
FundingRestart ==
  /\ fstep' = [p \in Funder |-> "idle"]
  /\ target' = [p \in Funder |-> NoPayment]
  /\ batch' = [p \in Retrier |-> {}]
  /\ UNCHANGED <<earned, funding, sent, unknown>>

=============================================================================
