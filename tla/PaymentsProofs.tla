---------------------------- MODULE PaymentsProofs ----------------------------
(***************************************************************************)
(* Proofs about settlement and funding, for every set of payments,         *)
(* requests and retry runs and every number of faults.                     *)
(***************************************************************************)
EXTENDS PaymentProperties, TLAPS

TypeInv ==
  /\ TypeOK
  /\ \A p \in Request : pc[p] = "submit" => cur[p] \in x402

\* A settlement is counted when the record is consumed, which happens once;
\* whoever is about to consume it on the x402 rail has seen the money come, and
\* whoever is about to credit a reward was told of the settlement.
SettleInv ==
  /\ \A c \in Payment : settlements[c] <= 1 /\ (settlements[c] > 0 => c \in consumed)
  /\ \A c \in Payment : row[c] = "none" => c \notin consumed
  /\ \A c \in consumed \intersect x402 : c \in paid
  /\ \A p \in Request :
       /\ pc[p] /= "idle" => row[cur[p]] /= "none"
       /\ pc[p] = "mark_settled" /\ cur[p] \in x402 => cur[p] \in paid
       /\ pc[p] = "credit" => settlements[cur[p]] > 0

\* Every row, call and list is about a settled and credited payment.
Backed == consumed \intersect earned
BackInv ==
  /\ \A c \in Payment : funding[c] /= "none" \/ sent[c] > 0 => c \in Backed
  /\ \A p \in Funder : fstep[p] /= "idle" => target[p] \in Backed
  /\ \A p \in Retrier : batch[p] \subseteq Backed

\* A row that somebody holds is processing, and one that may be claimed is not.
ClaimInv ==
  /\ ClaimExclusive
  /\ \A p \in Funder : HoldsClaim(p) => funding[target[p]] = "processing"
  /\ \A p \in Funder : fstep[p] = "claim" => Retryable(target[p])

\* After an answered broadcast the row is not claimed again.
Answered(c) ==
  /\ funding[c] \in {"processing", "completed"}
  /\ \A p \in Funder : HoldsClaim(p) /\ target[p] = c => fstep[p] = "mark_completed"
SendInv ==
  \A c \in Payment :
    /\ sent[c] > 1 => c \in unknown
    /\ sent[c] > 0 /\ c \notin unknown => Answered(c)

USE FundingConfig

-----------------------------------------------------------------------------
(* Type correctness *)

LEMMA TypeInit == Init => TypeInv
  BY DEF Init, FundingInit, TypeInv, TypeOK, Funder, FundingStatus, FundingStep,
         Status, Place, Sweep

LEMMA OutdatedType ==
  ASSUME TypeInv, NEW p \in Funder
  PROVE  /\ Outdated(p) \in [Funder -> FundingStep]
         /\ \A q \in Funder : Outdated(p)[q] /= "idle" => fstep[q] /= "idle"
  BY DEF TypeInv, TypeOK, Outdated, FundingStep

\* What the four ways in which a call ends its step leave behind.
ControlOK ==
  /\ funding' \in [Payment -> FundingStatus]
  /\ fstep' \in [Funder -> FundingStep]
  /\ target' \in [Funder -> Payment \union {NoPayment}]
  /\ \A q \in Funder : fstep'[q] /= "idle" => target'[q] \in Payment

LEMMA UpdateAndStepType ==
  ASSUME TypeInv, NEW p \in Funder, fstep[p] /= "idle",
         NEW status \in FundingStatus, NEW place \in FundingStep,
         UpdateAndStep(p, status, place)
  PROVE  ControlOK
<1>1. funding' \in [Payment -> FundingStatus]
  BY DEF TypeInv, TypeOK, UpdateAndStep, Update
<1> DEFINE out == Outdated(p)
<1>2. /\ out \in [Funder -> FundingStep]
      /\ \A q \in Funder : out[q] /= "idle" => fstep[q] /= "idle"
  BY OutdatedType
<1>3. fstep' = [out EXCEPT ![p] = place] /\ target' = target
  BY DEF UpdateAndStep
<1> HIDE DEF out
<1> QED
  BY <1>1, <1>2, <1>3 DEF TypeInv, TypeOK, ControlOK

LEMMA UpdateAndLeaveType ==
  ASSUME TypeInv, NEW p \in Funder, fstep[p] /= "idle",
         NEW status \in FundingStatus,
         UpdateAndLeave(p, status)
  PROVE  ControlOK
<1>1. funding' \in [Payment -> FundingStatus]
  BY DEF TypeInv, TypeOK, UpdateAndLeave, Update
<1> DEFINE out == Outdated(p)
<1>2. /\ out \in [Funder -> FundingStep]
      /\ \A q \in Funder : out[q] /= "idle" => fstep[q] /= "idle"
  BY OutdatedType
<1>3. fstep' = [out EXCEPT ![p] = "idle"] /\ target' = [target EXCEPT ![p] = NoPayment]
  BY DEF UpdateAndLeave
<1>4. "idle" \in FundingStep
  BY DEF FundingStep
<1> HIDE DEF out
<1>5. fstep' \in [Funder -> FundingStep]
  BY <1>2, <1>3, <1>4
<1>6. target' \in [Funder -> Payment \union {NoPayment}]
  BY <1>3 DEF TypeInv, TypeOK
<1>7. \A q \in Funder : fstep'[q] /= "idle" => target'[q] \in Payment
  BY <1>2, <1>3 DEF TypeInv, TypeOK
<1> QED
  BY <1>1, <1>5, <1>6, <1>7 DEF ControlOK

LEMMA KeepAndLeaveType ==
  ASSUME TypeInv, NEW p \in Funder, KeepAndLeave(p)
  PROVE  ControlOK
  BY DEF TypeInv, TypeOK, KeepAndLeave, Leave, ControlOK, FundingStep

LEMMA FundingCallType ==
  ASSUME TypeInv, NEW p \in Funder, FundingCallStep(p),
         UNCHANGED <<paymentVars, callVars, sweep>>
  PROVE  TypeInv'
<1> DEFINE Frame == UNCHANGED <<row, x402, due, consumed, settlements, paid, pc, cur, sweep>>
<1>0. Frame BY DEF paymentVars, callVars
<1> HIDE DEF Frame
<1>1. CASE CreateForEarning(p)
  BY <1>0, <1>1 DEF TypeInv, TypeOK, Frame, CreateForEarning, KeepAndLeave, Leave, StepTo,
     Fault, NoFault, FundingStatus, FundingStep
<1>2. CASE ClaimRead(p)
  BY <1>0, <1>2 DEF TypeInv, TypeOK, Frame, ClaimRead, Leave, StepTo,
     Fault, NoFault, FundingStatus, FundingStep
<1>3. CASE Claim(p)
  <2>1. ControlOK
    BY <1>3, UpdateAndStepType, UpdateAndLeaveType, KeepAndLeaveType
       DEF Claim, FundingStatus, FundingStep
  <2> QED
    BY <1>0, <1>3, <2>1 DEF TypeInv, TypeOK, Frame, Claim, Fault, NoFault, ControlOK
<1>4. CASE SendAccepted(p)
  BY <1>0, <1>4 DEF TypeInv, TypeOK, Frame, SendAccepted, Broadcast, Recognised, StepTo,
     FundingStep
<1>5. CASE SendRejected(p)
  BY <1>0, <1>5 DEF TypeInv, TypeOK, Frame, SendRejected, StepTo, FundingStep
<1>6. CASE SendLost(p)
  BY <1>0, <1>6 DEF TypeInv, TypeOK, Frame, SendLost, Broadcast, StepTo, Fault, FundingStep
<1>7. CASE MarkCompleted(p) \/ MarkFundingFailed(p)
  <2>1. ControlOK
    BY <1>7, UpdateAndLeaveType, KeepAndLeaveType
       DEF MarkCompleted, MarkFundingFailed, Mark, FundingStatus
  <2> QED
    BY <1>0, <1>7, <2>1 DEF TypeInv, TypeOK, Frame, MarkCompleted, MarkFundingFailed, Mark,
       Fault, NoFault, ControlOK
<1> QED
  BY <1>1, <1>2, <1>3, <1>4, <1>5, <1>6, <1>7 DEF FundingCallStep

LEMMA RetryType ==
  ASSUME TypeInv, NEW p \in Retrier, Retry(p)
  PROVE  TypeInv'
<1> DEFINE Frame == UNCHANGED <<row, x402, due, consumed, settlements, paid, pc, cur, sweep>>
<1>0. Frame BY DEF Retry, paymentVars, callVars
<1> HIDE DEF Frame
<1>1. CASE ListRetryable(p)
  BY <1>0, <1>1 DEF TypeInv, TypeOK, Frame, ListRetryable
<1>2. CASE NextRow(p)
  BY <1>0, <1>2 DEF TypeInv, TypeOK, Frame, NextRow, Funder, FundingStep
<1> QED
  BY <1>1, <1>2 DEF Retry, RetryStep

\* Challenges and the sweep leave calls and the funding alone.
LEMMA SweepType ==
  ASSUME TypeInv, SweepStep
  PROVE  TypeInv'
<1>1. \A doomed \in SUBSET Payment :
        [c \in Payment |-> IF c \in doomed THEN "deleted" ELSE row[c]] \in [Payment -> Status]
  BY DEF TypeInv, TypeOK, Status
<1>2. [c \in Payment |-> IF Overdue(c) THEN "expired" ELSE row[c]] \in [Payment -> Status]
  BY DEF TypeInv, TypeOK, Status
<1>3. CASE SweepExpire
  BY <1>2, <1>3 DEF TypeInv, TypeOK, SweepExpire, ExpireOpen, Fault, NoFault, Sweep, fundingVars, callVars
<1>4. ASSUME NEW place, NEW doomed \in SUBSET Payment, NEW after \in Sweep,
             SweepDelete(place, doomed, after)
      PROVE  TypeInv'
  <2> DEFINE table == [c \in Payment |-> IF c \in doomed THEN "deleted" ELSE row[c]]
  <2>1. table \in [Payment -> Status] BY <1>1
  <2>2. row' = table \/ row' = row
    BY <1>4 DEF SweepDelete
  <2> HIDE DEF table
  <2>3. row' \in [Payment -> Status]
    BY <2>1, <2>2 DEF TypeInv, TypeOK
  <2>4. sweep' \in Sweep /\ faults' \in 0 .. MaxFaults
    BY <1>4 DEF SweepDelete, Fault, NoFault, Sweep, TypeInv, TypeOK
  <2> QED
    BY <1>4, <2>3, <2>4 DEF SweepDelete, TypeInv, TypeOK, fundingVars, callVars
<1>5. CASE SweepDeleteExpired
  <2>1. {c \in Payment : row[c] = "expired"} \in SUBSET Payment /\ "delete_open" \in Sweep
    BY DEF Sweep
  <2> QED BY <1>4, <1>5, <2>1 DEF SweepDeleteExpired
<1>6. CASE SweepDeleteOpen
  <2>1. {c \in Payment : Overdue(c)} \in SUBSET Payment /\ "idle" \in Sweep
    BY DEF Sweep
  <2> QED BY <1>4, <1>6, <2>1 DEF SweepDeleteOpen
<1> QED
  BY <1>3, <1>5, <1>6 DEF SweepStep

LEMMA ChallengeType ==
  ASSUME TypeInv, NEW c \in Payment, CreateChallenge(c) \/ Expire(c)
  PROVE  TypeInv'
<1>1. CASE CreateChallenge(c)
  BY <1>1 DEF TypeInv, TypeOK, CreateChallenge, Status, fundingVars, callVars
<1>2. CASE Expire(c)
  BY <1>2 DEF TypeInv, TypeOK, Expire, fundingVars, callVars
<1> QED BY <1>1, <1>2

LEMMA SubmitType ==
  ASSUME TypeInv, NEW p \in Request, NEW c \in Payment, Submit(p, c)
  PROVE  TypeInv'
  BY DEF TypeInv, TypeOK, Submit, Place, fundingVars, paymentVars

LEMMA SettleType ==
  ASSUME TypeInv, NEW p \in Request, SettleStep(p)
  PROVE  TypeInv'
<1>1. [c \in Payment |-> IF Overdue(c) THEN "expired" ELSE row[c]] \in [Payment -> Status]
  BY DEF TypeInv, TypeOK, Status
<1>2. CASE Reap(p)
  BY <1>1, <1>2 DEF TypeInv, TypeOK, Reap, ExpireOpen, Goto, Fault, NoFault, Place, fundingVars
<1>3. CASE Find(p)
  BY <1>3 DEF TypeInv, TypeOK, Find, Answer, Goto, Fault, NoFault, Place, fundingVars, paymentVars
<1>4. CASE Verify(p)
  <2>1. \A m \in Proof : /\ Verdict(cur[p], m) \in Place
                         /\ Verdict(cur[p], m) = "submit" => cur[p] \in x402
    BY DEF Verdict, Place
  <2> QED
    BY <1>4, <2>1 DEF TypeInv, TypeOK, Verify, Goto, NoFault, Place, fundingVars, paymentVars
<1>5. CASE SubmitAuthorization(p)
  BY <1>5 DEF TypeInv, TypeOK, SubmitAuthorization, Goto, Fault, NoFault, Place, fundingVars
<1>6. CASE MarkExpired(p) \/ MarkUnderpaid(p) \/ MarkFailed(p)
  BY <1>6 DEF TypeInv, TypeOK, MarkExpired, MarkUnderpaid, MarkFailed, Close, Answer,
     Fault, NoFault, Place, Status, fundingVars
<1>7. CASE MarkSettled(p)
  BY <1>7 DEF TypeInv, TypeOK, MarkSettled, Goto, Answer, Fault, NoFault, Place, Status, fundingVars
<1>8. CASE Credit(p)
  BY <1>8 DEF TypeInv, TypeOK, Credit, Goto, Fault, NoFault, Place, FundingStep, Funder, paymentVars
<1>9. CASE Settled(p)
  BY <1>9 DEF TypeInv, TypeOK, Settled, Answer, Place, fundingVars, paymentVars
<1> QED
  BY <1>2, <1>3, <1>4, <1>5, <1>6, <1>7, <1>8, <1>9 DEF SettleStep

LEMMA RestartType ==
  ASSUME TypeInv, Restart
  PROVE  TypeInv'
  BY DEF TypeInv, TypeOK, Restart, FundingRestart, Fault, FundingStep, Place, Sweep, paymentVars

LEMMA TypeStep == TypeInv /\ [Next]_vars => TypeInv'
<1> SUFFICES ASSUME TypeInv, [Next]_vars PROVE TypeInv'
  OBVIOUS
<1>1. CASE UNCHANGED vars
  BY <1>1 DEF TypeInv, TypeOK, vars, fundingVars, paymentVars, callVars
<1>2. ASSUME NEW p \in Funder, Fund(p) PROVE TypeInv'
  BY <1>2, FundingCallType DEF Fund
<1> QED
  BY <1>1, <1>2, RetryType, SweepType, ChallengeType, SubmitType, SettleType, RestartType DEF Next

\* Type correctness, for every set of payments, requests and retry runs.
THEOREM TypeCorrect == Spec => []TypeOK
<1>1. TypeInv => TypeOK BY DEF TypeInv
<1> QED BY <1>1, TypeInit, TypeStep, PTL DEF Spec

-----------------------------------------------------------------------------
(* Settlement happens once, and for money that came in *)

\* Steps of the funding do not touch payments or settlement requests.
LEMMA SettleFrame ==
  ASSUME SettleInv, UNCHANGED <<row, x402, consumed, settlements, paid, pc, cur>>
  PROVE  SettleInv'
  BY DEF SettleInv

LEMMA SettleStepInv ==
  ASSUME TypeInv, SettleInv, NEW p \in Request, SettleStep(p)
  PROVE  SettleInv'
<1>1. CASE Reap(p)
  BY <1>1 DEF TypeInv, TypeOK, SettleInv, Reap, ExpireOpen, Overdue, IsOpen, Goto, fundingVars
<1>2. CASE Find(p)
  BY <1>2 DEF TypeInv, TypeOK, SettleInv, Find, Answer, Goto, fundingVars, paymentVars
<1>3. CASE Verify(p)
  <2>1. \A m \in Proof :
          /\ Verdict(cur[p], m) /= "credit"
          /\ Verdict(cur[p], m) = "mark_settled" => cur[p] \notin x402
    BY DEF Verdict
  <2> QED
    BY <1>3, <2>1 DEF TypeInv, TypeOK, SettleInv, Verify, Goto, fundingVars, paymentVars
<1>4. CASE SubmitAuthorization(p)
  BY <1>4 DEF TypeInv, TypeOK, SettleInv, SubmitAuthorization, Goto, fundingVars
<1>5. CASE MarkExpired(p) \/ MarkUnderpaid(p) \/ MarkFailed(p)
  BY <1>5 DEF TypeInv, TypeOK, SettleInv, MarkExpired, MarkUnderpaid, MarkFailed, Close,
     Exists, Answer, fundingVars
<1>6. CASE MarkSettled(p)
  BY <1>6 DEF TypeInv, TypeOK, SettleInv, MarkSettled, Settleable, IsOpen, Goto, Answer, fundingVars
<1>7. CASE Credit(p)
  BY <1>7 DEF TypeInv, TypeOK, SettleInv, Credit, Goto, paymentVars
<1>8. CASE Settled(p)
  BY <1>8 DEF TypeInv, TypeOK, SettleInv, Settled, Answer, fundingVars, paymentVars
<1> QED
  BY <1>1, <1>2, <1>3, <1>4, <1>5, <1>6, <1>7, <1>8 DEF SettleStep

LEMMA SettleInvStep == TypeInv /\ SettleInv /\ [Next]_vars => SettleInv'
<1> SUFFICES ASSUME TypeInv, SettleInv, [Next]_vars PROVE SettleInv'
  OBVIOUS
<1>1. CASE UNCHANGED vars
  BY <1>1, SettleFrame DEF vars, paymentVars, callVars
<1>2. ASSUME NEW p \in Funder, Fund(p) PROVE SettleInv'
  BY <1>2, SettleFrame DEF Fund, paymentVars, callVars
<1>3. ASSUME NEW p \in Retrier, Retry(p) PROVE SettleInv'
  BY <1>3, SettleFrame DEF Retry, paymentVars, callVars
<1>4. ASSUME NEW c \in Payment, CreateChallenge(c) \/ Expire(c) PROVE SettleInv'
  <2>1. CASE CreateChallenge(c)
    BY <1>4, <2>1 DEF TypeInv, TypeOK, SettleInv, CreateChallenge, callVars
  <2>2. CASE Expire(c)
    BY <2>2, SettleFrame DEF Expire, callVars
  <2> QED BY <1>4, <2>1, <2>2
<1>5. CASE SweepStep
  BY <1>5 DEF TypeInv, TypeOK, SettleInv, SweepStep, SweepExpire, SweepDeleteExpired,
     SweepDeleteOpen, SweepDelete, ExpireOpen, Overdue, IsOpen, callVars
<1>6. ASSUME NEW p \in Request, NEW c \in Payment, Submit(p, c) PROVE SettleInv'
  BY <1>6 DEF TypeInv, TypeOK, SettleInv, Submit, paymentVars
<1>7. CASE Restart
  BY <1>7 DEF TypeInv, TypeOK, SettleInv, Restart, paymentVars
<1> QED
  BY <1>1, <1>2, <1>3, <1>4, <1>5, <1>6, <1>7, SettleStepInv DEF Next

LEMMA SettleAlways == Spec => [](TypeInv /\ SettleInv)
<1>1. Init => SettleInv
  BY DEF Init, FundingInit, SettleInv
<1> QED BY <1>1, TypeInit, TypeStep, SettleInvStep, PTL DEF Spec

\* At most one request per challenge is ever newly settled.
THEOREM SettledOnce == Spec => []ConsumedOnce
<1>1. SettleInv => ConsumedOnce BY DEF SettleInv, ConsumedOnce
<1> QED BY <1>1, SettleAlways, PTL

-----------------------------------------------------------------------------
(* The float is funded only for credited payments *)

\* What an update of p's row does to p, to the table and to the other calls: p
\* goes to a place of its own, and no call keeps a claim it has prepared.
Updated(p, status, place) ==
  /\ \A c \in Payment : funding'[c] = IF c = target[p] THEN status ELSE funding[c]
  /\ fstep'[p] = place
  /\ place /= "idle" => target'[p] = target[p]
  /\ \A q \in Funder \ {p} :
       /\ target'[q] = target[q]
       /\ IF fstep[q] = "claim" /\ target[q] = target[p]
            THEN fstep'[q] = "stale"
            ELSE fstep'[q] = fstep[q]

LEMMA UpdatedByStep ==
  ASSUME TypeInv, NEW p \in Funder, fstep[p] /= "idle", NEW status, NEW place,
         UpdateAndStep(p, status, place)
  PROVE  Updated(p, status, place)
  BY DEF TypeInv, TypeOK, UpdateAndStep, Update, Outdated, Updated

LEMMA UpdatedByLeave ==
  ASSUME TypeInv, NEW p \in Funder, fstep[p] /= "idle", NEW status,
         UpdateAndLeave(p, status)
  PROVE  Updated(p, status, "idle")
  BY DEF TypeInv, TypeOK, UpdateAndLeave, Update, Outdated, Updated

\* What becomes of a call that claims or marks its row.
LEMMA ClaimOutcome ==
  ASSUME TypeInv, NEW p \in Funder, Claim(p)
  PROVE  \/ fstep[p] = "claim" /\ Updated(p, "processing", "send")
         \/ fstep[p] = "claim" /\ Updated(p, "processing", "idle")
         \/ KeepAndLeave(p)
  BY UpdatedByStep, UpdatedByLeave DEF Claim

LEMMA MarkOutcome ==
  ASSUME TypeInv, NEW p \in Funder, MarkCompleted(p) \/ MarkFundingFailed(p)
  PROVE  \/ fstep[p] = "mark_completed" /\ Updated(p, "completed", "idle")
         \/ fstep[p] = "mark_failed" /\ Updated(p, "failed", "idle")
         \/ fstep[p] \in {"mark_completed", "mark_failed"} /\ KeepAndLeave(p)
  BY UpdatedByLeave DEF MarkCompleted, MarkFundingFailed, Mark

LEMMA BackCallStep ==
  ASSUME TypeInv, BackInv, NEW p \in Funder, FundingCallStep(p), UNCHANGED consumed
  PROVE  BackInv'
<1> USE DEF TypeInv, TypeOK, BackInv, Backed
<1>1. CASE CreateForEarning(p)
  BY <1>1 DEF CreateForEarning, KeepAndLeave, Leave, StepTo
<1>2. CASE ClaimRead(p)
  BY <1>2 DEF ClaimRead, Leave, StepTo
<1>3. CASE Claim(p)
  BY <1>3, ClaimOutcome DEF Claim, Updated, KeepAndLeave, Leave
<1>4. CASE SendAccepted(p) \/ SendRejected(p) \/ SendLost(p)
  BY <1>4 DEF SendAccepted, SendRejected, SendLost, Broadcast, Recognised, StepTo
<1>5. CASE MarkCompleted(p) \/ MarkFundingFailed(p)
  BY <1>5, MarkOutcome DEF MarkCompleted, MarkFundingFailed, Mark, Updated, KeepAndLeave, Leave
<1> QED
  BY <1>1, <1>2, <1>3, <1>4, <1>5 DEF FundingCallStep

LEMMA BackFrame ==
  ASSUME BackInv, UNCHANGED <<earned, funding, sent, fstep, target, batch>>,
         consumed \subseteq consumed'
  PROVE  BackInv'
  BY DEF BackInv, Backed

LEMMA BackInvStep == TypeInv /\ SettleInv /\ BackInv /\ [Next]_vars => BackInv'
<1> SUFFICES ASSUME TypeInv, SettleInv, BackInv, [Next]_vars PROVE BackInv'
  OBVIOUS
<1>1. CASE UNCHANGED vars
  BY <1>1, BackFrame DEF vars, fundingVars, paymentVars
<1>2. ASSUME NEW p \in Funder, Fund(p) PROVE BackInv'
  BY <1>2, BackCallStep DEF Fund, paymentVars
<1>3. ASSUME NEW p \in Retrier, Retry(p) PROVE BackInv'
  BY <1>3 DEF TypeInv, TypeOK, BackInv, Backed, Retry, RetryStep, ListRetryable, NextRow,
     Retryable, Funder, paymentVars
<1>4. CASE \E c \in Payment : CreateChallenge(c) \/ Expire(c)
  BY <1>4, BackFrame DEF CreateChallenge, Expire, fundingVars
<1>5. CASE SweepStep
  BY <1>5, BackFrame DEF SweepStep, SweepExpire, SweepDeleteExpired, SweepDeleteOpen,
     SweepDelete, fundingVars
<1>6. CASE \E p \in Request, c \in Payment : Submit(p, c)
  BY <1>6, BackFrame DEF Submit, fundingVars, paymentVars
<1>7. ASSUME NEW p \in Request, SettleStep(p) PROVE BackInv'
  <2>1. CASE Credit(p)
    BY <1>7, <2>1 DEF TypeInv, TypeOK, SettleInv, BackInv, Backed, Credit, Goto, Funder, paymentVars
  <2>2. CASE MarkSettled(p)
    BY <1>7, <2>2, BackFrame DEF MarkSettled, fundingVars
  <2>3. CASE Reap(p) \/ Find(p) \/ Verify(p) \/ SubmitAuthorization(p) \/ Settled(p)
    BY <2>3, BackFrame DEF Reap, Find, Verify, SubmitAuthorization, Settled,
       fundingVars, paymentVars
  <2>4. CASE MarkExpired(p) \/ MarkUnderpaid(p) \/ MarkFailed(p)
    BY <2>4, BackFrame DEF MarkExpired, MarkUnderpaid, MarkFailed, Close, fundingVars
  <2> QED BY <1>7, <2>1, <2>2, <2>3, <2>4 DEF SettleStep
<1>8. CASE Restart
  BY <1>8 DEF TypeInv, TypeOK, BackInv, Backed, Restart, FundingRestart, paymentVars
<1> QED
  BY <1>1, <1>2, <1>3, <1>4, <1>5, <1>6, <1>7, <1>8 DEF Next

LEMMA BackAlways == Spec => [](TypeInv /\ SettleInv /\ BackInv)
<1>1. Init => BackInv
  BY DEF Init, FundingInit, BackInv
<1> QED BY <1>1, SettleAlways, BackInvStep, PTL DEF Spec

\* The treasury funds a reward only for a credited payment whose settlement was
\* recorded, and on the x402 rail only once the payer's money has come.
THEOREM FundedIsPaid == Spec => []FundingIsBacked
<1>1. SettleInv /\ BackInv => FundingIsBacked
  BY DEF SettleInv, BackInv, Backed, FundingIsBacked
<1> QED BY <1>1, BackAlways, PTL

-----------------------------------------------------------------------------
(* A claimed row has one holder, and an answered transfer is not repeated *)

LEMMA ClaimCallStep ==
  ASSUME TypeInv, ClaimInv, NEW p \in Funder, FundingCallStep(p)
  PROVE  ClaimInv'
<1> USE DEF TypeInv, TypeOK, ClaimInv, ClaimExclusive, HoldsClaim, Retryable
<1>1. CASE CreateForEarning(p)
  BY <1>1 DEF CreateForEarning, KeepAndLeave, Leave, StepTo
<1>2. CASE ClaimRead(p)
  BY <1>2 DEF ClaimRead, Leave, StepTo
<1>3. CASE Claim(p)
  BY <1>3, ClaimOutcome DEF Claim, Updated, KeepAndLeave, Leave
<1>4. CASE SendAccepted(p) \/ SendRejected(p) \/ SendLost(p)
  BY <1>4 DEF SendAccepted, SendRejected, SendLost, StepTo
<1>5. CASE MarkCompleted(p) \/ MarkFundingFailed(p)
  BY <1>5, MarkOutcome DEF MarkCompleted, MarkFundingFailed, Mark, Updated, KeepAndLeave, Leave
<1> QED
  BY <1>1, <1>2, <1>3, <1>4, <1>5 DEF FundingCallStep

LEMMA SendCallStep ==
  ASSUME TypeInv, ClaimInv, SendInv, NEW p \in Funder, FundingCallStep(p)
  PROVE  SendInv'
<1> USE DEF TypeInv, TypeOK, ClaimInv, ClaimExclusive, SendInv, Answered, HoldsClaim, Retryable
<1>1. CASE CreateForEarning(p)
  BY <1>1 DEF CreateForEarning, KeepAndLeave, Leave, StepTo
<1>2. CASE ClaimRead(p)
  BY <1>2 DEF ClaimRead, Leave, StepTo
<1>3. CASE Claim(p)
  BY <1>3, ClaimOutcome DEF Claim, Updated, KeepAndLeave, Leave
<1>4. CASE SendAccepted(p)
  BY <1>4 DEF SendAccepted, Broadcast, Recognised, StepTo
<1>5. CASE SendRejected(p)
  BY <1>5 DEF SendRejected, StepTo
<1>6. CASE SendLost(p)
  BY <1>6 DEF SendLost, Broadcast, StepTo
<1>7. CASE MarkCompleted(p) \/ MarkFundingFailed(p)
  BY <1>7, MarkOutcome DEF MarkCompleted, MarkFundingFailed, Mark, Updated, KeepAndLeave, Leave
<1> QED
  BY <1>1, <1>2, <1>3, <1>4, <1>5, <1>6, <1>7 DEF FundingCallStep

LEMMA FundFrame ==
  ASSUME ClaimInv, SendInv, UNCHANGED <<funding, sent, unknown, fstep, target>>
  PROVE  ClaimInv' /\ SendInv'
  BY DEF ClaimInv, ClaimExclusive, SendInv, Answered, HoldsClaim, Retryable

LEMMA FundInvStep ==
  TypeInv /\ ClaimInv /\ SendInv /\ [Next]_vars => ClaimInv' /\ SendInv'
<1> SUFFICES ASSUME TypeInv, ClaimInv, SendInv, [Next]_vars PROVE ClaimInv' /\ SendInv'
  OBVIOUS
<1>1. CASE UNCHANGED vars
  BY <1>1, FundFrame DEF vars, fundingVars
<1>2. ASSUME NEW p \in Funder, Fund(p) PROVE ClaimInv' /\ SendInv'
  BY <1>2, ClaimCallStep, SendCallStep DEF Fund
<1>3. ASSUME NEW p \in Retrier, Retry(p) PROVE ClaimInv' /\ SendInv'
  <2>1. CASE ListRetryable(p)
    BY <2>1, FundFrame DEF ListRetryable
  <2>2. CASE NextRow(p)
    BY <2>2 DEF TypeInv, TypeOK, ClaimInv, ClaimExclusive, SendInv, Answered, HoldsClaim,
       Retryable, NextRow, Funder
  <2> QED BY <1>3, <2>1, <2>2 DEF Retry, RetryStep
<1>4. CASE \E c \in Payment : CreateChallenge(c) \/ Expire(c)
  BY <1>4, FundFrame DEF CreateChallenge, Expire, fundingVars
<1>5. CASE SweepStep
  BY <1>5, FundFrame DEF SweepStep, SweepExpire, SweepDeleteExpired, SweepDeleteOpen,
     SweepDelete, fundingVars
<1>6. CASE \E p \in Request, c \in Payment : Submit(p, c)
  BY <1>6, FundFrame DEF Submit, fundingVars
<1>7. ASSUME NEW p \in Request, SettleStep(p) PROVE ClaimInv' /\ SendInv'
  <2>1. CASE Credit(p)
    \* The request may create the row: it is at no claim and holds none.
    <3>1. CASE UNCHANGED <<fstep, target>>
      BY <2>1, <3>1, FundFrame DEF Credit
    <3>2. CASE fstep' = [fstep EXCEPT ![p] = "create"] /\ target' = [target EXCEPT ![p] = cur[p]]
      BY <2>1, <3>2 DEF TypeInv, TypeOK, ClaimInv, ClaimExclusive, SendInv, Answered,
         HoldsClaim, Retryable, Credit, Funder
    <3> QED BY <2>1, <3>1, <3>2 DEF Credit
  <2>2. CASE Reap(p) \/ Find(p) \/ Verify(p) \/ SubmitAuthorization(p) \/ MarkSettled(p) \/ Settled(p)
    BY <2>2, FundFrame DEF Reap, Find, Verify, SubmitAuthorization, MarkSettled, Settled, fundingVars
  <2>3. CASE MarkExpired(p) \/ MarkUnderpaid(p) \/ MarkFailed(p)
    BY <2>3, FundFrame DEF MarkExpired, MarkUnderpaid, MarkFailed, Close, fundingVars
  <2> QED BY <1>7, <2>1, <2>2, <2>3 DEF SettleStep
<1>8. CASE Restart
  BY <1>8 DEF TypeInv, TypeOK, ClaimInv, ClaimExclusive, SendInv, Answered, HoldsClaim,
     Retryable, Restart, FundingRestart
<1> QED
  BY <1>1, <1>2, <1>3, <1>4, <1>5, <1>6, <1>7, <1>8 DEF Next

LEMMA FundAlways == Spec => [](TypeInv /\ ClaimInv /\ SendInv)
<1>1. Init => ClaimInv /\ SendInv
  BY DEF Init, FundingInit, ClaimInv, ClaimExclusive, SendInv, HoldsClaim
<1> QED BY <1>1, TypeInit, TypeStep, FundInvStep, PTL DEF Spec

\* Between the claim of a row and its final update no other settlement or retry
\* run holds it, however many runs overlap.
THEOREM OneHolder == Spec => []ClaimExclusive
<1>1. ClaimInv => ClaimExclusive BY DEF ClaimInv
<1> QED BY <1>1, FundAlways, PTL

\* A reward is broadcast twice only after Para reported an error for a transfer
\* it had broadcast: neither overlapping runs nor restarts can do it.
THEOREM TwiceOnlyAfterLostAnswer == Spec => []PaidTwiceNeedsLostAnswer
<1>1. TypeInv /\ SendInv => PaidTwiceNeedsLostAnswer
  BY DEF SendInv, PaidTwiceNeedsLostAnswer
<1> QED BY <1>1, FundAlways, PTL

-----------------------------------------------------------------------------
(* The refinement of Settlement *)

LEMMA NothingShown ==
  ASSUME UNCHANGED <<row, x402, consumed, settlements, paid, earned, sent, unknown>>
  PROVE  UNCHANGED Promise!settlementVars
<1>1. [c \in Payment |-> RecordOf(c)]' = [c \in Payment |-> RecordOf(c)]
  BY DEF RecordOf
<1>2. {c \in Payment : settlements[c] > 0}' = {c \in Payment : settlements[c] > 0}
  OBVIOUS
<1> QED BY <1>1, <1>2 DEF Promise!settlementVars

\* Records that exist are closed.
LEMMA WithdrawShown ==
  ASSUME TypeInv, NEW cs \in SUBSET Payment, \A c \in cs : Exists(c),
         NEW status \in {"expired", "underpaid", "failed"},
         row' = [c \in Payment |-> IF c \in cs THEN status ELSE row[c]],
         UNCHANGED <<x402, consumed, settlements, paid, earned, sent, unknown>>
  PROVE  Promise!Withdraw(cs)
<1>1. \A c \in Payment : RecordOf(c)' = IF c \in cs THEN "closed" ELSE RecordOf(c)
  BY DEF RecordOf
<1>2. \A c \in cs : RecordOf(c) \in {"open", "settled", "closed"}
  BY DEF RecordOf, Exists
<1>3. \A c \in cs : [d \in Payment |-> RecordOf(d)][c] \in {"open", "settled", "closed"}
  BY <1>2
<1>4. [c \in Payment |-> RecordOf(c)]'
        = [c \in Payment |-> IF c \in cs THEN "closed" ELSE [d \in Payment |-> RecordOf(d)][c]]
  BY <1>1
<1>5. {c \in Payment : settlements[c] > 0}' = {c \in Payment : settlements[c] > 0}
  OBVIOUS
<1> QED BY <1>3, <1>4, <1>5 DEF Promise!Withdraw, Promise!Mark

\* Open and expired records are deleted.
LEMMA DropShown ==
  ASSUME TypeInv, NEW cs \in SUBSET Payment,
         \A c \in cs : row[c] \in {"challenge_issued", "expired"},
         row' = [c \in Payment |-> IF c \in cs THEN "deleted" ELSE row[c]],
         UNCHANGED <<x402, consumed, settlements, paid, earned, sent, unknown>>
  PROVE  Promise!Drop(cs)
<1>1. \A c \in Payment : RecordOf(c)' = IF c \in cs THEN "dropped" ELSE RecordOf(c)
  BY DEF RecordOf
<1>2. \A c \in cs : RecordOf(c) \in {"open", "closed"}
  BY DEF RecordOf
<1>3. \A c \in cs : [d \in Payment |-> RecordOf(d)][c] \in {"open", "closed"}
  BY <1>2
<1>4. [c \in Payment |-> RecordOf(c)]'
        = [c \in Payment |-> IF c \in cs THEN "dropped" ELSE [d \in Payment |-> RecordOf(d)][c]]
  BY <1>1
<1>5. {c \in Payment : settlements[c] > 0}' = {c \in Payment : settlements[c] > 0}
  OBVIOUS
<1> QED BY <1>3, <1>4, <1>5 DEF Promise!Drop, Promise!Mark

LEMMA ExpiryShown ==
  ASSUME TypeInv, ExpireOpen \/ UNCHANGED row,
         UNCHANGED <<x402, consumed, settlements, paid, earned, sent, unknown>>
  PROVE  Promise!SettlementNext \/ UNCHANGED Promise!settlementVars
<1>1. CASE ExpireOpen
  <2> DEFINE cs == {c \in Payment : Overdue(c)}
  <2>1. row' = [c \in Payment |-> IF c \in cs THEN "expired" ELSE row[c]]
    BY <1>1 DEF ExpireOpen
  <2>2. \A c \in cs : Exists(c)
    BY DEF Overdue, IsOpen, Exists
  <2>3. cs \in SUBSET Payment
    OBVIOUS
  <2> HIDE DEF cs
  <2> QED BY <2>1, <2>2, <2>3, WithdrawShown DEF Promise!SettlementNext
<1>2. CASE UNCHANGED row
  BY <1>2, NothingShown
<1> QED BY <1>1, <1>2

LEMMA SweepShown ==
  ASSUME TypeInv, SweepStep
  PROVE  Promise!SettlementNext \/ UNCHANGED Promise!settlementVars
<1>1. CASE SweepExpire
  BY <1>1, ExpiryShown DEF SweepExpire, fundingVars
<1>2. ASSUME NEW place, NEW after, NEW cs \in SUBSET Payment,
             \A c \in cs : row[c] \in {"challenge_issued", "expired"},
             SweepDelete(place, cs, after)
      PROVE  Promise!SettlementNext \/ UNCHANGED Promise!settlementVars
  <2>1. CASE UNCHANGED row
    BY <1>2, <2>1, NothingShown DEF SweepDelete, fundingVars
  <2>2. CASE row' = [c \in Payment |-> IF c \in cs THEN "deleted" ELSE row[c]]
    <3>1. Promise!Drop(cs)
      BY <1>2, <2>2, DropShown DEF SweepDelete, fundingVars
    <3> QED BY <3>1 DEF Promise!SettlementNext
  <2> QED BY <1>2, <2>1, <2>2 DEF SweepDelete
<1>3. CASE SweepDeleteExpired
  BY <1>2, <1>3 DEF SweepDeleteExpired
<1>4. CASE SweepDeleteOpen
  BY <1>2, <1>4 DEF SweepDeleteOpen, Overdue, IsOpen
<1> QED BY <1>1, <1>3, <1>4 DEF SweepStep

LEMMA CloseShown ==
  ASSUME TypeInv, NEW p \in Request, pc[p] /= "idle", NEW place,
         NEW status \in {"expired", "underpaid", "failed"}, Close(p, place, status)
  PROVE  Promise!SettlementNext \/ UNCHANGED Promise!settlementVars
<1>1. cur[p] \in Payment
  BY DEF TypeInv, TypeOK
<1>2. CASE row' = [row EXCEPT ![cur[p]] = status] /\ Exists(cur[p])
  <2>1. row' = [c \in Payment |-> IF c \in {cur[p]} THEN status ELSE row[c]]
    BY <1>2 DEF TypeInv, TypeOK
  <2>2. Promise!Withdraw({cur[p]})
    BY <1>1, <1>2, <2>1, WithdrawShown DEF Close, fundingVars
  <2> QED BY <1>1, <2>2 DEF Promise!SettlementNext
<1>3. CASE UNCHANGED row
  BY <1>3, NothingShown DEF Close, fundingVars
<1> QED BY <1>2, <1>3 DEF Close, TypeInv, TypeOK

LEMMA IssueShown ==
  ASSUME TypeInv, NEW c \in Payment, CreateChallenge(c)
  PROVE  Promise!Issue(c)
<1>1. /\ row[c] = "none" /\ row' = [row EXCEPT ![c] = "challenge_issued"]
      /\ x402' \in {x402, x402 \union {c}}
      /\ UNCHANGED <<earned, sent, unknown, consumed, settlements, paid>>
  BY DEF CreateChallenge, fundingVars
<1>2. RecordOf(c) = "none"
  BY <1>1 DEF RecordOf
<1>3. \A d \in Payment : RecordOf(d)' = IF d = c THEN "open" ELSE RecordOf(d)
  BY <1>1 DEF RecordOf, TypeInv, TypeOK
<1>4. [d \in Payment |-> RecordOf(d)]' = [[d \in Payment |-> RecordOf(d)] EXCEPT ![c] = "open"]
  BY <1>3
<1>5. {d \in Payment : settlements[d] > 0}' = {d \in Payment : settlements[d] > 0}
  BY <1>1
<1> QED BY <1>1, <1>2, <1>4, <1>5 DEF Promise!Issue

LEMMA ReceiveShown ==
  ASSUME TypeInv, SettleInv, NEW p \in Request, SubmitAuthorization(p)
  PROVE  Promise!SettlementNext \/ UNCHANGED Promise!settlementVars
<1>1. /\ cur[p] \in Payment \intersect x402 /\ row[cur[p]] /= "none"
      /\ paid' \in {paid, paid \union {cur[p]}}
      /\ UNCHANGED <<row, x402, consumed, settlements, earned, sent, unknown>>
  BY DEF SubmitAuthorization, TypeInv, TypeOK, SettleInv, fundingVars
<1>2. CASE paid' = paid
  BY <1>1, <1>2, NothingShown
<1>3. CASE paid' /= paid
  <2>1. RecordOf(cur[p]) /= "none" /\ \A c \in Payment : RecordOf(c)' = RecordOf(c)
    BY <1>1 DEF RecordOf
  <2>2. Promise!Receive(cur[p])
    BY <1>1, <1>3, <2>1 DEF Promise!Receive
  <2> QED BY <1>1, <2>2 DEF Promise!SettlementNext
<1> QED BY <1>2, <1>3

LEMMA TakeShown ==
  ASSUME TypeInv, SettleInv, NEW p \in Request, MarkSettled(p)
  PROVE  Promise!SettlementNext \/ UNCHANGED Promise!settlementVars
<1> DEFINE told == {d \in Payment : settlements[d] > 0}
<1>0. PICK c \in Payment : c = cur[p]
  BY DEF MarkSettled, TypeInv, TypeOK
<1>1. (c \in x402 => c \in paid) /\ UNCHANGED <<x402, paid, earned, sent, unknown>>
  BY <1>0 DEF MarkSettled, SettleInv, fundingVars
<1>2. CASE UNCHANGED <<row, consumed, settlements>>
  BY <1>1, <1>2, NothingShown
<1>3. CASE /\ Settleable(c) /\ row' = [row EXCEPT ![c] = "settled"]
           /\ consumed' = consumed \union {c}
           /\ \/ settlements' = [settlements EXCEPT ![c] = IF @ < 2 THEN @ + 1 ELSE @]
              \/ UNCHANGED settlements
  <2>1. RecordOf(c) = "open" /\ c \notin consumed
    BY <1>3 DEF RecordOf, Settleable, IsOpen
  <2>2. \A d \in Payment : RecordOf(d)' = IF d = c THEN "settled" ELSE RecordOf(d)
    BY <1>1, <1>3 DEF RecordOf, TypeInv, TypeOK
  <2>3. [d \in Payment |-> RecordOf(d)]' = [[d \in Payment |-> RecordOf(d)] EXCEPT ![c] = "settled"]
    BY <2>2
  <2>4. told' \in {told, told \union {c}}
    <3>1. CASE UNCHANGED settlements
      BY <3>1
    <3>2. CASE settlements' = [settlements EXCEPT ![c] = IF @ < 2 THEN @ + 1 ELSE @]
      <4>1. \A d \in Payment : settlements'[d] > 0 <=> settlements[d] > 0 \/ d = c
        BY <1>1, <3>2 DEF TypeInv, TypeOK
      <4> QED BY <1>1, <4>1
    <3> QED BY <1>3, <3>1, <3>2
  <2>5. Promise!Take(c)
    BY <1>1, <1>3, <2>1, <2>3, <2>4 DEF Promise!Take
  <2> QED BY <2>5 DEF Promise!SettlementNext
<1> QED BY <1>0, <1>2, <1>3 DEF MarkSettled

LEMMA RewardShown ==
  ASSUME TypeInv, SettleInv, NEW p \in Request, Credit(p)
  PROVE  Promise!SettlementNext \/ UNCHANGED Promise!settlementVars
<1>1. /\ cur[p] \in Payment /\ settlements[cur[p]] > 0
      /\ earned' \in {earned, earned \union {cur[p]}}
      /\ UNCHANGED <<row, x402, consumed, settlements, paid, sent, unknown>>
  BY DEF Credit, TypeInv, TypeOK, SettleInv, paymentVars
<1>2. CASE earned' = earned
  BY <1>1, <1>2, NothingShown
<1>3. CASE earned' /= earned
  <2>1. \A c \in Payment : RecordOf(c)' = RecordOf(c)
    BY <1>1 DEF RecordOf
  <2>2. Promise!Reward(cur[p])
    BY <1>1, <1>3, <2>1 DEF Promise!Reward
  <2> QED BY <1>1, <2>2 DEF Promise!SettlementNext
<1> QED BY <1>2, <1>3

\* A transfer is broadcast for a credited payment, and again only while an
\* earlier one is in doubt.
LEMMA FloatShown ==
  ASSUME TypeInv, BackInv, SendInv, NEW p \in Funder, SendAccepted(p) \/ SendLost(p),
         UNCHANGED <<paymentVars, callVars, sweep>>
  PROVE  Promise!SettlementNext \/ UNCHANGED Promise!settlementVars
<1> DEFINE c == target[p]
<1>1. /\ c \in Payment \intersect earned /\ (sent[c] > 0 => c \in unknown)
      /\ unknown' \in {unknown, unknown \union {c}}
      /\ UNCHANGED <<row, x402, consumed, settlements, paid, earned>>
  BY DEF SendAccepted, SendLost, TypeInv, TypeOK, BackInv, Backed, SendInv, Answered, HoldsClaim,
         paymentVars
<1>2. CASE UNCHANGED sent
  <2>1. unknown' = unknown
    BY <1>1, <1>2 DEF SendAccepted, SendLost, Broadcast, TypeInv, TypeOK
  <2> QED BY <1>1, <1>2, <2>1, NothingShown
<1>3. CASE sent' = [sent EXCEPT ![c] = @ + 1]
  <2>1. \A d \in Payment : RecordOf(d)' = RecordOf(d)
    BY <1>1 DEF RecordOf
  <2>2. sent[c] = 0 \/ c \in unknown
    BY <1>1 DEF TypeInv, TypeOK
  <2>3. Promise!Float(c)
    BY <1>1, <1>3, <2>1, <2>2 DEF Promise!Float
  <2> QED BY <1>1, <2>3 DEF Promise!SettlementNext
<1> QED BY <1>2, <1>3 DEF SendAccepted, SendLost, Broadcast, Recognised

LEMMA SettleKeepsPromise ==
  ASSUME TypeInv, SettleInv, NEW p \in Request, SettleStep(p)
  PROVE  Promise!SettlementNext \/ UNCHANGED Promise!settlementVars
<1>1. CASE Reap(p)
  BY <1>1, ExpiryShown DEF Reap, fundingVars
<1>2. CASE Find(p) \/ Verify(p) \/ Settled(p)
  BY <1>2, NothingShown DEF Find, Verify, Settled, fundingVars, paymentVars
<1>3. CASE MarkExpired(p) \/ MarkUnderpaid(p) \/ MarkFailed(p)
  <2>1. pc[p] /= "idle"
    BY <1>3 DEF MarkExpired, MarkUnderpaid, MarkFailed, Close
  <2> QED BY <1>3, <2>1, CloseShown DEF MarkExpired, MarkUnderpaid, MarkFailed
<1> QED BY <1>1, <1>2, <1>3, ReceiveShown, TakeShown, RewardShown DEF SettleStep

LEMMA NextKeepsPromise ==
  ASSUME TypeInv, SettleInv, BackInv, SendInv, [Next]_vars
  PROVE  Promise!SettlementNext \/ UNCHANGED Promise!settlementVars
<1>1. CASE UNCHANGED vars
  BY <1>1, NothingShown DEF vars, fundingVars, paymentVars
<1>2. ASSUME NEW c \in Payment, CreateChallenge(c) \/ Expire(c)
      PROVE  Promise!SettlementNext \/ UNCHANGED Promise!settlementVars
  <2>1. CASE CreateChallenge(c)
    BY <2>1, IssueShown DEF Promise!SettlementNext
  <2>2. CASE Expire(c)
    BY <2>2, NothingShown DEF Expire, fundingVars
  <2> QED BY <1>2, <2>1, <2>2
<1>3. CASE SweepStep
  BY <1>3, SweepShown
<1>4. ASSUME NEW p \in Request, NEW c \in Payment, Submit(p, c)
      PROVE  UNCHANGED Promise!settlementVars
  BY <1>4, NothingShown DEF Submit, fundingVars, paymentVars
<1>5. ASSUME NEW p \in Funder, Fund(p)
      PROVE  Promise!SettlementNext \/ UNCHANGED Promise!settlementVars
  <2>1. CASE SendAccepted(p) \/ SendLost(p)
    BY <1>5, <2>1, FloatShown DEF Fund
  <2>2. CASE CreateForEarning(p) \/ ClaimRead(p) \/ Claim(p) \/ SendRejected(p)
             \/ MarkCompleted(p) \/ MarkFundingFailed(p)
    BY <1>5, <2>2, NothingShown DEF Fund, CreateForEarning, ClaimRead, Claim, SendRejected,
       MarkCompleted, MarkFundingFailed, Mark, paymentVars
  <2> QED BY <1>5, <2>1, <2>2 DEF Fund, FundingCallStep
<1>6. ASSUME NEW p \in Retrier, Retry(p)
      PROVE  UNCHANGED Promise!settlementVars
  BY <1>6, NothingShown DEF Retry, RetryStep, ListRetryable, NextRow, paymentVars
<1>7. CASE Restart
  BY <1>7, NothingShown DEF Restart, FundingRestart, paymentVars
<1> QED BY <1>1, <1>2, <1>3, <1>4, <1>5, <1>6, <1>7, SettleKeepsPromise DEF Next

\* Requests, sweeps, funding, retry runs and restarts keep the promise of
\* Settlement for every payment at once, whatever their number: it is taken once
\* and not before its money has come, rewarded once by whoever was told, floated
\* again only while a transfer is in doubt, and its record never opens again, is
\* not dropped while it shows settled, and stays dropped.
THEOREM Implements == Spec => KeepsSettlement
<1>1. Init => Promise!SettlementInit
  <2> SUFFICES ASSUME Init PROVE Promise!SettlementInit
    OBVIOUS
  <2>1. \A c \in Payment : RecordOf(c) = "none" /\ ~ (settlements[c] > 0)
    BY DEF Init, RecordOf
  <2>2. {c \in Payment : settlements[c] > 0} = {}
    BY <2>1
  <2> QED BY <2>1, <2>2 DEF Init, FundingInit, Promise!SettlementInit
<1>2. TypeInv /\ SettleInv /\ BackInv /\ SendInv /\ [Next]_vars
        => [Promise!SettlementNext]_(Promise!settlementVars)
  BY NextKeepsPromise
<1> QED BY <1>1, <1>2, BackAlways, FundAlways, PTL
        DEF Spec, KeepsSettlement, Promise!SettlementSpec

\* What Settlement entails holds of the service: a record shows settled, and a
\* reward is earned, only for a payment that was taken, on the x402 rail with its
\* money come; the float has a reward once, unless a transfer of it is in doubt.
THEOREM HonestThroughout == Spec => []Promise!Honest
<1>1. Promise!SettlementInit => Promise!Honest
  BY DEF Promise!SettlementInit, Promise!Honest
<1>2. ASSUME Promise!Honest, sent \in [Payment -> Nat],
             [Promise!SettlementNext]_(Promise!settlementVars)
      PROVE  Promise!Honest'
  <2>1. CASE UNCHANGED Promise!settlementVars
    BY <1>2, <2>1 DEF Promise!Honest, Promise!settlementVars
  <2>2. ASSUME NEW c \in Payment, Promise!Issue(c) \/ Promise!Take(c)
        PROVE  Promise!Honest'
    BY <1>2, <2>2 DEF Promise!Honest, Promise!Issue, Promise!Take
  <2>3. ASSUME NEW c \in Payment, Promise!Receive(c) \/ Promise!Reward(c)
        PROVE  Promise!Honest'
    BY <1>2, <2>3 DEF Promise!Honest, Promise!Receive, Promise!Reward
  <2>4. ASSUME NEW c \in Payment, Promise!Float(c)
        PROVE  Promise!Honest'
    BY <1>2, <2>4 DEF Promise!Honest, Promise!Float
  <2>5. ASSUME NEW cs \in SUBSET Payment, Promise!Withdraw(cs) \/ Promise!Drop(cs)
        PROVE  Promise!Honest'
    BY <1>2, <2>5 DEF Promise!Honest, Promise!Withdraw, Promise!Drop, Promise!Mark
  <2> QED BY <1>2, <2>1, <2>2, <2>3, <2>4, <2>5 DEF Promise!SettlementNext
<1>3. TypeOK => sent \in [Payment -> Nat]
  BY FundingConfig DEF TypeOK
<1> QED BY <1>1, <1>2, <1>3, Implements, TypeCorrect, PTL
        DEF KeepsSettlement, Promise!SettlementSpec

=============================================================================
