----------------------------- MODULE PayoutsProofs -----------------------------
(***************************************************************************)
(* Proofs about withdrawals and payouts, for every set of payers, jobs,    *)
(* signatures and snapshots and every number of faults.                    *)
(***************************************************************************)
EXTENDS PayoutProperties, FiniteSetTheorems, TLAPS

-----------------------------------------------------------------------------
(* Types *)

\* A job that may call withdraw has an authorization.
TypeInv ==
  /\ TypeOK
  /\ \A j \in Job : stage[j] \in {"llm", "fallback"} => authority[j] \in Signature

\* Initially the types hold.
LEMMA InitTypeInv == Init => TypeInv
  BY PayerConfig, WithdrawalConfig, RoutingConfig
  DEF Init, RecordInit, WithdrawalInit, RoutingInit, TypeInv, TypeOK, Place,
      PayoutStatus, WithdrawalStatus, AgentStage, Reply, Active

\* Steps of the agent preserve the types.
LEMMA AgentTypes ==
  ASSUME TypeInv, NEW j \in Job, AgentStep(j), UNCHANGED routingVars
  PROVE  TypeInv'
<1> USE DEF TypeInv, TypeOK, routingVars, recordVars, moneyVars, tableVars, agentVars
<1>1. CASE \E s \in Signature : StartJob(j, s)
  BY <1>1, SMTT(20) DEF StartJob, AgentStage, Active
<1>2. CASE \E p \in Payer : LlmCall(j, p)
  BY <1>2, SMTT(20) DEF LlmCall, CallWithdraw, Start, Place, Active
<1>3. CASE \E p \in Payer : FallbackCall(j, p)
  BY <1>3, SMTT(20) DEF FallbackCall, CallWithdraw, Start, Place, Active, AgentStage
<1>4. CASE LlmEnds(j) \/ LlmFails(j) \/ FallbackOther(j) \/ FallbackReply(j)
  BY <1>4, SMTT(20) DEF LlmEnds, LlmFails, FallbackOther, FallbackReply, Stage, AgentStage, Reply, Active
<1> QED
  BY <1>1, <1>2, <1>3, <1>4, SMTT(20) DEF AgentStep

\* A step that only inserts a payout preserves the types.
LEMMA InsertTypes ==
  ASSUME TypeInv, NEW p \in Payer, NEW next \in Place, NEW refused \in Place,
         InsertPayout(p, next, refused), Active(p),
         UNCHANGED <<kind, recorded, moneyVars, tableVars, agentVars, routingVars>>
  PROVE  TypeInv'
<1>1. payout' \in [Payer -> PayoutStatus] /\ faults' \in 0 .. MaxFaults
  BY PayerConfig DEF InsertPayout, PayoutStatus, Fault, NoFault, TypeInv, TypeOK
<1>2. pc' \in [Payer -> Place] /\ \A q \in Payer \ {p} : pc'[q] = pc[q]
  <2>1. Go(p, next) \/ Go(p, refused)
    BY DEF InsertPayout
  <2> QED BY <2>1 DEF Go, TypeInv, TypeOK
<1>3. kind[p] = "withdrawal" => signed[p] \in Signature
  BY DEF TypeInv, TypeOK
<1>4. \A q \in Payer : kind[q] = "withdrawal" /\ Active(q)' => signed[q] \in Signature
  BY <1>2, <1>3 DEF TypeInv, TypeOK, Active
<1> QED
  BY <1>1, <1>2, <1>4, SMTT(20)
  DEF TypeInv, TypeOK, moneyVars, tableVars, agentVars, routingVars

\* Steps of withdraw preserve the types.
LEMMA WithdrawalTypes ==
  ASSUME TypeInv, NEW p \in Payer, WithdrawalStep(p), UNCHANGED routingVars
  PROVE  TypeInv'
<1> USE PayerConfig
    DEF TypeInv, TypeOK, routingVars, recordVars, moneyVars, tableVars, agentVars,
        InWithdraw, Go, Fault, NoFault, Active, Place
<1>1. CASE ConsumeNonce(p) \/ CheckAffiliate(p) \/ CheckBalance(p)
  <2>1. CASE ConsumeNonce(p)
    BY <2>1, SMTT(20) DEF ConsumeNonce
  <2>2. CASE CheckAffiliate(p)
    BY <2>2, SMTT(20) DEF CheckAffiliate
  <2>3. CASE CheckBalance(p)
    BY <2>3, SMTT(20) DEF CheckBalance
  <2> QED BY <1>1, <2>1, <2>2, <2>3
<1>2. CASE CreateWithdrawal(p)
  BY <1>2, SMTT(20) DEF CreateWithdrawal, Overtaken, WithdrawalStatus
<1>3. CASE MarkProcessing(p) \/ GiveUp(p) \/ MarkWithdrawalFailed(p) \/ MarkCompleted(p)
  <2>1. ASSUME NEW status \in WithdrawalStatus, SetWithdrawal(p, status)
        PROVE  withdrawal' \in [Payer -> WithdrawalStatus] /\ faults' \in 0 .. MaxFaults
    BY <2>1, SMTT(20) DEF SetWithdrawal
  <2>2. /\ {"processing", "failed", "completed"} \subseteq WithdrawalStatus
        /\ \E status \in {"processing", "failed", "completed"} : SetWithdrawal(p, status)
        /\ \E place \in Place : Go(p, place)
        /\ ok' \subseteq Payer
    BY <1>3, SMTT(20) DEF MarkProcessing, GiveUp, MarkWithdrawalFailed, MarkCompleted, WithdrawalStatus
  <2>3. PICK status \in {"processing", "failed", "completed"} : SetWithdrawal(p, status)
    BY <2>2
  <2>4. PICK place \in Place : Go(p, place)
    BY <2>2
  <2>5. pc' \in [Payer -> Place] /\ \A q \in Payer \ {p} : pc'[q] = pc[q]
    BY <2>4
  <2>6. withdrawal' \in [Payer -> WithdrawalStatus] /\ faults' \in 0 .. MaxFaults
    BY <2>1, <2>2, <2>3
  <2>7. pc[p] \notin {"idle", "end"} /\ kind[p] = "withdrawal"
    BY <1>3, SMTT(20) DEF MarkProcessing, GiveUp, MarkWithdrawalFailed, MarkCompleted
  <2> QED
    BY <2>2, <2>3, <2>5, <2>6, <2>7, SMTT(20) DEF SetWithdrawal
<1>4. CASE CreatePayout(p)
  <2>1. /\ InsertPayout(p, "transfer", "give_up") /\ Active(p)
        /\ UNCHANGED <<kind, recorded, moneyVars, tableVars, agentVars, routingVars>>
    BY <1>4, SMTT(20) DEF CreatePayout
  <2>2. "transfer" \in Place /\ "give_up" \in Place
    OBVIOUS
  <2> HIDE DEF TypeInv, TypeOK, moneyVars, tableVars, agentVars, routingVars, Active, Place
  <2> QED BY <2>1, <2>2, InsertTypes
<1>5. CASE SendWithdrawal(p)
  BY <1>5, SMTT(20) DEF SendWithdrawal, Transfer, Answer, Broadcast, Refused
<1>6. CASE FailWithdrawalPayout(p)
  BY <1>6, SMTT(20) DEF FailWithdrawalPayout, SetPayout, PayoutStatus
<1>8. CASE MarkWithdrawalTransferred(p)
  BY <1>8, SMTT(20) DEF MarkWithdrawalTransferred, SetPayout, PayoutStatus
<1>7. CASE RecordWithdrawal(p)
  BY <1>7, SMTT(20) DEF RecordWithdrawal, RecordPayout
<1> QED
  BY <1>1, <1>2, <1>3, <1>4, <1>5, <1>6, <1>7, <1>8, SMTT(20) DEF WithdrawalStep

\* Steps of the routing and of its outside preserve the types.
LEMMA RoutingTypes ==
  ASSUME TypeInv, (\E p \in Payer : RoutingStep(p)) \/ RoutingOutside, UNCHANGED withdrawalVars
  PROVE  TypeInv'
<1> USE PayerConfig, RoutingConfig
    DEF TypeInv, TypeOK, withdrawalVars, routingVars, recordVars, moneyVars, runVars,
        snapshotVars, InRoute, Go, Fault, NoFault, Active, Place
<1>1. CASE RoutingOutside
  BY <1>1, SMTT(20) DEF RoutingOutside, Settle, IntervalPasses, CheckTreasury
<1>2. ASSUME NEW p \in Payer, RoutingStep(p)
      PROVE  TypeInv'
  <2>1. CASE \E byTimer \in BOOLEAN : StartRouting(p, byTimer)
    BY <2>1, SMTT(20) DEF StartRouting, Start
  <2>2. CASE ReadAggregates(p)
    BY <2>2, SMTT(20) DEF ReadAggregates
  <2>3. CASE Decide(p)
    <3>1. UnderWay(p) \subseteq Payer
      BY DEF UnderWay, Routings
    <3>2. \A s \in Snapshot : Distributable(p, s) \subseteq 0 .. MaxRevenue
      <4>1. \A a, b \in Nat : AtMost(a, b) \in Nat /\ AtMost(a, b) <= b
        BY DEF AtMost
      <4>2. \A s \in Snapshot : Excess(s) \in Nat
        BY DEF Excess
      <4>3. seen[p] \in Nat /\ seen[p] <= MaxRevenue
        OBVIOUS
      <4> QED
        <5> TAKE s \in Snapshot
        <5> DEFINE top == AtMost(Excess(s), seen[p])
        <5>1. top \in Nat /\ top <= seen[p]
          BY <4>1, <4>2, <4>3
        <5> HIDE DEF top
        <5>2. 1 .. top \subseteq 0 .. MaxRevenue
          BY <5>1, <4>3
        <5> QED
          BY <5>2, SMTT(20) DEF top, Distributable
    <3>3. amount' \in [Payer -> 0 .. MaxRevenue] /\ basis' \in [Payer -> Snapshot \union {NoSnapshot}]
      <4>1. \/ amount' = amount
            \/ /\ latest \in Snapshot
               /\ \E a \in Distributable(p, latest) : amount' = [amount EXCEPT ![p] = a]
        BY <2>3, SMTT(20) DEF Decide
      <4>2. amount' \in [Payer -> 0 .. MaxRevenue]
        <5> HIDE DEF Distributable
        <5> QED
          BY <4>1, <3>2
      <4>3. basis' = basis \/ basis' = [basis EXCEPT ![p] = latest]
        BY <2>3, SMTT(20) DEF Decide
      <4> QED
        BY <4>2, <4>3
    <3>4. beside' \in [Payer -> SUBSET Payer] /\ pc' \in [Payer -> Place]
      BY <2>3, <3>1, SMTT(20) DEF Decide
    <3>5. kind[p] = "routing" /\ \A q \in Payer \ {p} : pc'[q] = pc[q]
      BY <2>3, SMTT(20) DEF Decide
    <3> QED
      BY <2>3, <3>3, <3>4, <3>5, SMTT(20) DEF Decide
  <2>4. CASE CreateRoutingPayout(p) \/ FindPayout(p) \/ FindPayoutAgain(p)
    <3>1. CASE CreateRoutingPayout(p)
      <4>1. /\ InsertPayout(p, "find", "end") /\ Active(p)
            /\ UNCHANGED <<kind, recorded, moneyVars, tableVars, agentVars, routingVars>>
        <5>1. UNCHANGED <<tableVars, agentVars>>
          BY DEF tableVars, agentVars
        <5> QED BY <3>1, <5>1, SMTT(20) DEF CreateRoutingPayout
      <4>2. "find" \in Place /\ "end" \in Place
        OBVIOUS
      <4> HIDE DEF TypeInv, TypeOK, moneyVars, tableVars, agentVars, routingVars, Active, Place
      <4> QED BY <4>1, <4>2, InsertTypes
    <3>2. CASE FindPayout(p)
      BY <3>2, SMTT(20) DEF FindPayout
    <3>3. CASE FindPayoutAgain(p)
      BY <3>3, SMTT(20) DEF FindPayoutAgain
    <3> QED BY <2>4, <3>1, <3>2, <3>3
  <2>5. CASE SendRouting(p)
    BY <2>5, SMTT(20) DEF SendRouting, Transfer, Answer, Broadcast, Refused
  <2>6. CASE RecordRouting(p)
    BY <2>6, SMTT(20) DEF RecordRouting, RecordPayout
  <2>7. CASE MarkRoutingTransferred(p) \/ FailRoutingPayout(p)
    BY <2>7, SMTT(20) DEF MarkRoutingTransferred, FailRoutingPayout, SetPayout, PayoutStatus
  <2>8. CASE MarkSnapshot(p)
    BY <2>8, SMTT(20) DEF MarkSnapshot
  <2> QED
    BY <1>2, <2>1, <2>2, <2>3, <2>4, <2>5, <2>6, <2>7, <2>8, SMTT(20) DEF RoutingStep
<1> QED
  BY <1>1, <1>2

\* Every step preserves the types.
LEMMA NextTypeInv == TypeInv /\ [Next]_vars => TypeInv'
<1> SUFFICES ASSUME TypeInv, [Next]_vars
             PROVE  TypeInv'
  OBVIOUS
<1>1. CASE Withdrawing
  BY <1>1, AgentTypes, WithdrawalTypes DEF Withdrawing
<1>2. CASE Routing
  BY <1>2, RoutingTypes DEF Routing
<1>3. CASE Restart
  BY <1>3, PayerConfig
  DEF Restart, StopJobs, TypeInv, TypeOK, Active, Place, AgentStage, Fault,
      recordVars, moneyVars, tableVars, routingVars
<1>4. CASE UNCHANGED vars
  BY <1>4 DEF vars, TypeInv, TypeOK, Active, recordVars, moneyVars, withdrawalVars, routingVars
<1> QED
  BY <1>1, <1>2, <1>3, <1>4 DEF Next

\* The type invariant holds in every reachable state.
THEOREM TypeCorrect == Spec => []TypeOK
<1>1. Spec => []TypeInv
  BY InitTypeInv, NextTypeInv, PTL DEF Spec
<1>2. TypeInv => TypeOK
  BY DEF TypeInv
<1> QED
  BY <1>1, <1>2, PTL

-----------------------------------------------------------------------------
(* A signature is good for one withdrawal *)

\* A call that has spent its nonce, or has inserted a withdrawal.
Held(p) ==
  \/ withdrawal[p] /= "none"
  \/ kind[p] = "withdrawal" /\ pc[p] \notin {"idle", "nonce", "end"}

SigInv ==
  /\ \A p \in Payer : Held(p) => kind[p] = "withdrawal" /\ signed[p] \in nonces
  /\ \A p \in Payer : pc[p] \in {"idle", "nonce"} => withdrawal[p] = "none"
  /\ \A p, q \in Payer : Held(p) /\ Held(q) /\ signed[p] = signed[q] => p = q

LEMMA InitSigInv == Init => SigInv
  BY DEF Init, RecordInit, WithdrawalInit, SigInv, Held

\* A step after which nobody holds a signature who did not hold it before.
LEMMA SigInvKept ==
  ASSUME SigInv,
         nonces \subseteq nonces',
         \A p \in Payer : Held(p)' => Held(p) /\ kind'[p] = kind[p] /\ signed'[p] = signed[p],
         \A p \in Payer : pc'[p] \in {"idle", "nonce"} =>
                            pc[p] \in {"idle", "nonce"} /\ withdrawal'[p] = withdrawal[p]
  PROVE  SigInv'
  BY DEF SigInv

\* The nonce is inserted: its primary key tells whether it was there.
LEMMA ConsumeKeepsSigInv ==
  ASSUME TypeInv, SigInv, NEW p \in Payer, ConsumeNonce(p)
  PROVE  SigInv'
<1> USE DEF TypeInv, TypeOK, InWithdraw, Go, Fault, NoFault, recordVars, agentVars
<1>1. CASE pc' = [pc EXCEPT ![p] = "end"]
  <2>1. \A q \in Payer : Held(q)' => Held(q)
    BY <1>1 DEF ConsumeNonce, Held
  <2> QED
    BY <1>1, <2>1, SigInvKept DEF ConsumeNonce
<1>2. CASE pc' = [pc EXCEPT ![p] = "affiliate"] /\ signed[p] \notin nonces
  <2>1. \A q \in Payer \ {p} : Held(q)' <=> Held(q)
    BY <1>2 DEF ConsumeNonce, Held
  <2>2. nonces' = nonces \union {signed[p]} /\ kind[p] = "withdrawal"
    BY <1>2 DEF ConsumeNonce
  <2>3. \A q \in Payer \ {p} : Held(q) => signed[q] /= signed[p]
    BY <1>2 DEF SigInv
  <2>4. UNCHANGED <<kind, signed, withdrawal>>
    BY DEF ConsumeNonce
  <2> QED
    BY <1>2, <2>1, <2>2, <2>3, <2>4 DEF SigInv
<1> QED
  BY <1>1, <1>2 DEF ConsumeNonce

\* After the nonce a withdrawal only moves on.
LEMMA WithdrawKeepsSigInv ==
  ASSUME TypeInv, SigInv, NEW p \in Payer, WithdrawalStep(p)
  PROVE  SigInv'
<1> USE DEF TypeInv, TypeOK, InWithdraw, Go, recordVars, agentVars, moneyVars, tableVars
<1>1. CASE ConsumeNonce(p)
  BY <1>1, ConsumeKeepsSigInv
<1>2. CASE ~ConsumeNonce(p)
  <2>1. Held(p)
    BY <1>2
    DEF WithdrawalStep, CheckAffiliate, CheckBalance, CreateWithdrawal, MarkProcessing,
        CreatePayout, GiveUp, SendWithdrawal, Transfer, Answer, MarkWithdrawalFailed,
        FailWithdrawalPayout, RecordWithdrawal, RecordPayout, MarkWithdrawalTransferred,
        MarkCompleted, Held
  <2>2. UNCHANGED <<kind, nonces, signed>> /\ pc[p] \notin {"idle", "nonce"}
    BY <1>2
    DEF WithdrawalStep, CheckAffiliate, CheckBalance, CreateWithdrawal, MarkProcessing,
        CreatePayout, GiveUp, SendWithdrawal, Transfer, Answer, MarkWithdrawalFailed,
        FailWithdrawalPayout, RecordWithdrawal, RecordPayout, MarkWithdrawalTransferred,
        MarkCompleted, SetWithdrawal
  <2>3. \A q \in Payer \ {p} : pc'[q] = pc[q] /\ withdrawal'[q] = withdrawal[q]
    BY <1>2
    DEF WithdrawalStep, CheckAffiliate, CheckBalance, CreateWithdrawal, MarkProcessing,
        CreatePayout, InsertPayout, GiveUp, SendWithdrawal, Transfer, Answer, Broadcast, Refused,
        MarkWithdrawalFailed, FailWithdrawalPayout, RecordWithdrawal, RecordPayout,
        MarkWithdrawalTransferred, MarkCompleted, SetWithdrawal
  <2>4. pc'[p] \notin {"idle", "nonce"}
    BY <1>2
    DEF WithdrawalStep, CheckAffiliate, CheckBalance, CreateWithdrawal, MarkProcessing,
        CreatePayout, InsertPayout, GiveUp, SendWithdrawal, Transfer, Answer, Broadcast, Refused,
        MarkWithdrawalFailed, FailWithdrawalPayout, RecordWithdrawal, RecordPayout,
        MarkWithdrawalTransferred, MarkCompleted, SetWithdrawal
  <2>5. \A q \in Payer : Held(q)' => Held(q)
    BY <2>1, <2>2, <2>3 DEF Held
  <2> QED
    BY <2>2, <2>3, <2>4, <2>5, SigInvKept
<1> QED
  BY <1>1, <1>2

\* A job's steps start calls, which hold nothing yet.
LEMMA AgentKeepsSigInv ==
  ASSUME TypeInv, SigInv, NEW j \in Job, AgentStep(j)
  PROVE  SigInv'
<1> USE DEF TypeInv, TypeOK, recordVars, moneyVars, tableVars
<1>1. CASE \E p \in Payer : LlmCall(j, p) \/ FallbackCall(j, p)
  <2>1. PICK p \in Payer : CallWithdraw(j, p)
    BY <1>1 DEF LlmCall, FallbackCall
  <2>2. /\ pc[p] = "idle" /\ withdrawal[p] = "none"
        /\ pc' = [pc EXCEPT ![p] = "nonce"] /\ UNCHANGED <<withdrawal, nonces>>
        /\ \A q \in Payer \ {p} : kind'[q] = kind[q] /\ signed'[q] = signed[q]
    BY <2>1 DEF CallWithdraw, Start, SigInv
  <2>3. \A q \in Payer : Held(q)' => Held(q) /\ q /= p
    BY <2>2 DEF Held
  <2> QED
    BY <2>2, <2>3, SigInvKept
<1>2. CASE UNCHANGED <<kind, pc, withdrawal, nonces, signed>>
  BY <1>2, SigInvKept DEF Held
<1> QED
  BY <1>1, <1>2
  DEF AgentStep, StartJob, LlmEnds, LlmFails, FallbackOther, FallbackReply, Stage

\* A routing run is no withdrawal.
LEMMA RoutingKeepsSigInv ==
  ASSUME TypeInv, SigInv, Routing
  PROVE  SigInv'
<1> USE DEF TypeInv, TypeOK, withdrawalVars, InRoute, Go, recordVars, moneyVars, routingVars,
            snapshotVars, runVars
<1>1. UNCHANGED <<withdrawal, nonces, signed>>
  BY DEF Routing
<1>2. CASE RoutingOutside
  <2>1. UNCHANGED <<kind, pc>>
    BY <1>2 DEF RoutingOutside, Settle, IntervalPasses, CheckTreasury
  <2> QED
    BY <1>1, <2>1, SigInvKept DEF Held
<1>3. ASSUME NEW p \in Payer, RoutingStep(p)
      PROVE  SigInv'
  <2>1. /\ kind' = [kind EXCEPT ![p] = "routing"]
        /\ kind[p] = "routing" \/ pc[p] = "idle"
        /\ \A q \in Payer \ {p} : pc'[q] = pc[q]
        /\ pc'[p] \notin {"idle", "nonce"}
    BY <1>3
    DEF RoutingStep, StartRouting, Start, ReadAggregates, Decide, CreateRoutingPayout,
        InsertPayout, FindPayout, SendRouting, Transfer, Answer, Broadcast, Refused,
        FindPayoutAgain, RecordRouting, RecordPayout, MarkRoutingTransferred,
        FailRoutingPayout, MarkSnapshot
  <2>2. withdrawal[p] = "none"
    BY <2>1 DEF SigInv, Held
  <2>3. \A q \in Payer : Held(q)' => Held(q) /\ kind'[q] = kind[q]
    BY <1>1, <2>1, <2>2 DEF Held
  <2> QED
    BY <1>1, <2>1, <2>3, SigInvKept
<1> QED
  BY <1>2, <1>3 DEF Routing

LEMMA NextSigInv == TypeInv /\ SigInv /\ [Next]_vars => SigInv'
<1> SUFFICES ASSUME TypeInv, SigInv, [Next]_vars
             PROVE  SigInv'
  OBVIOUS
<1>1. CASE Withdrawing
  BY <1>1, AgentKeepsSigInv, WithdrawKeepsSigInv DEF Withdrawing
<1>2. CASE Routing
  BY <1>2, RoutingKeepsSigInv
<1>3. CASE Restart
  <2>1. \A p \in Payer : pc'[p] = pc[p] \/ pc'[p] = "end"
    BY <1>3 DEF Restart, TypeInv, TypeOK
  <2> QED
    BY <1>3, <2>1, SigInvKept DEF Restart, Held, tableVars
<1>4. CASE UNCHANGED vars
  BY <1>4, SigInvKept DEF vars, Held, withdrawalVars
<1> QED
  BY <1>1, <1>2, <1>3, <1>4 DEF Next

\* Whatever the agent, its fallback, other jobs and failing inserts do, a
\* signature yields one withdrawal.
THEOREM SignedOnce == Spec => []OneWithdrawalPerSignature
<1>1. Init => TypeInv /\ SigInv
  BY InitTypeInv, InitSigInv
<1>2. TypeInv /\ SigInv /\ [Next]_vars => (TypeInv /\ SigInv)'
  BY NextTypeInv, NextSigInv
<1>3. SigInv => OneWithdrawalPerSignature
  BY DEF SigInv, Held, OneWithdrawalPerSignature
<1> QED
  BY <1>1, <1>2, <1>3, PTL DEF Spec

-----------------------------------------------------------------------------
(* The table shows as transferred only what was paid and recorded *)

\* Past its transfer a call has one, past the registry its payout is there.
PayInv ==
  \A p \in Payer :
    /\ payout[p] = "transferred" => p \in sent \intersect recorded
    /\ pc[p] \in {"answer", "registry", "find_again", "mark_transferred"} => p \in sent
    /\ pc[p] = "mark_transferred" => p \in recorded

LEMMA InitPayInv == Init => PayInv
  BY DEF Init, RecordInit, WithdrawalInit, RoutingInit, PayInv

\* A step after which a call is at no place, and shows no payout, it has not earned.
LEMMA PayInvKept ==
  ASSUME PayInv, sent \subseteq sent', recorded \subseteq recorded',
         \A p \in Payer : payout'[p] = "transferred" =>
                            payout[p] = "transferred" \/ pc[p] = "mark_transferred",
         \A p \in Payer : pc'[p] \in {"answer", "registry", "find_again", "mark_transferred"} =>
                            \/ p \in sent'
                            \/ pc[p] \in {"answer", "registry", "find_again", "mark_transferred"},
         \A p \in Payer : pc'[p] = "mark_transferred" =>
                            pc[p] = "mark_transferred" \/ p \in recorded'
  PROVE  PayInv'
  BY DEF PayInv

\* Transfers and the registry are what earns the next place.
LEMMA WithdrawKeepsPayInv ==
  ASSUME TypeInv, PayInv, NEW p \in Payer, WithdrawalStep(p)
  PROVE  PayInv'
<1> USE DEF TypeInv, TypeOK, InWithdraw, Go, recordVars, agentVars, moneyVars, tableVars
<1>1. CASE CreatePayout(p) \/ FailWithdrawalPayout(p) \/ MarkWithdrawalTransferred(p)
  <2>1. /\ UNCHANGED <<sent, recorded>>
        /\ \A q \in Payer \ {p} : pc'[q] = pc[q] /\ payout'[q] = payout[q]
        /\ payout'[p] \in {payout[p], "pending", "failed"} \/ pc[p] = "mark_transferred"
        /\ pc'[p] \notin {"answer", "registry", "find_again", "mark_transferred"}
    BY <1>1 DEF CreatePayout, InsertPayout, FailWithdrawalPayout, MarkWithdrawalTransferred, SetPayout
  <2> QED
    BY <2>1, PayInvKept
<1>2. CASE SendWithdrawal(p)
  BY <1>2, PayInvKept DEF SendWithdrawal, Transfer, Broadcast, Refused, Answer, PayInv
<1>3. CASE RecordWithdrawal(p)
  BY <1>3, PayInvKept DEF RecordWithdrawal, RecordPayout
<1>4. CASE /\ ~(CreatePayout(p) \/ FailWithdrawalPayout(p) \/ MarkWithdrawalTransferred(p))
           /\ ~SendWithdrawal(p) /\ ~RecordWithdrawal(p)
  <2>1. /\ UNCHANGED <<sent, recorded, payout>>
        /\ \A q \in Payer \ {p} : pc'[q] = pc[q]
        /\ pc'[p] \notin {"answer", "registry", "find_again", "mark_transferred"}
    BY <1>4
    DEF WithdrawalStep, ConsumeNonce, CheckAffiliate, CheckBalance, CreateWithdrawal,
        MarkProcessing, GiveUp, MarkWithdrawalFailed, MarkCompleted, SetWithdrawal
  <2> QED
    BY <2>1, PayInvKept
<1> QED
  BY <1>1, <1>2, <1>3, <1>4

\* The routing has one place more, where it looks for its row again.
LEMMA RoutingKeepsPayInv ==
  ASSUME TypeInv, PayInv, NEW p \in Payer, RoutingStep(p)
  PROVE  PayInv'
<1> USE DEF TypeInv, TypeOK, InRoute, Go, recordVars, moneyVars, routingVars, runVars,
            snapshotVars
<1>1. CASE CreateRoutingPayout(p) \/ FailRoutingPayout(p) \/ MarkRoutingTransferred(p)
  <2>1. /\ UNCHANGED <<sent, recorded>>
        /\ \A q \in Payer \ {p} : pc'[q] = pc[q] /\ payout'[q] = payout[q]
        /\ payout'[p] \in {payout[p], "pending", "failed"} \/ pc[p] = "mark_transferred"
        /\ pc'[p] \notin {"answer", "registry", "find_again", "mark_transferred"}
    BY <1>1
    DEF CreateRoutingPayout, InsertPayout, FailRoutingPayout, MarkRoutingTransferred, SetPayout
  <2> QED
    BY <2>1, PayInvKept
<1>2. CASE SendRouting(p)
  BY <1>2, PayInvKept DEF SendRouting, Transfer, Broadcast, Refused, Answer, PayInv
<1>3. CASE RecordRouting(p)
  BY <1>3, PayInvKept DEF RecordRouting, RecordPayout
<1>4. CASE FindPayoutAgain(p)
  BY <1>4, PayInvKept DEF FindPayoutAgain, PayInv
<1>5. CASE \/ \E byTimer \in BOOLEAN : StartRouting(p, byTimer)
           \/ ReadAggregates(p) \/ Decide(p) \/ FindPayout(p) \/ MarkSnapshot(p)
  <2>1. /\ UNCHANGED <<sent, recorded, payout>>
        /\ \A q \in Payer \ {p} : pc'[q] = pc[q]
        /\ pc'[p] \notin {"answer", "registry", "find_again", "mark_transferred"}
    BY <1>5 DEF StartRouting, Start, ReadAggregates, Decide, FindPayout, MarkSnapshot
  <2> QED
    BY <2>1, PayInvKept
<1> QED
  BY <1>1, <1>2, <1>3, <1>4, <1>5 DEF RoutingStep

LEMMA NextPayInv == TypeInv /\ PayInv /\ [Next]_vars => PayInv'
<1> SUFFICES ASSUME TypeInv, PayInv, [Next]_vars
             PROVE  PayInv'
  OBVIOUS
<1> USE DEF TypeInv, TypeOK, recordVars, moneyVars
<1>1. ASSUME NEW j \in Job, AgentStep(j)
      PROVE  PayInv'
  <2>1. /\ UNCHANGED <<sent, recorded, payout>>
        /\ \A p \in Payer : pc'[p] \in {pc[p], "nonce"}
    BY <1>1
    DEF AgentStep, StartJob, LlmCall, FallbackCall, CallWithdraw, Start, LlmEnds, LlmFails,
        FallbackOther, FallbackReply, Stage
  <2> QED
    BY <2>1, PayInvKept
<1>2. CASE Withdrawing
  BY <1>1, <1>2, WithdrawKeepsPayInv DEF Withdrawing
<1>3. CASE Routing
  <2>1. CASE RoutingOutside
    BY <2>1, PayInvKept DEF RoutingOutside, Settle, IntervalPasses, CheckTreasury
  <2> QED
    BY <1>3, <2>1, RoutingKeepsPayInv DEF Routing
<1>4. CASE Restart
  BY <1>4, PayInvKept DEF Restart
<1>5. CASE UNCHANGED vars
  BY <1>5, PayInvKept DEF vars
<1> QED
  BY <1>2, <1>3, <1>4, <1>5 DEF Next

\* For any number of calls, and whatever is lost or restarted.
THEOREM TransferredPaid == Spec => []TransferredIsPaid
<1>1. Init => TypeInv /\ PayInv
  BY InitTypeInv, InitPayInv
<1>2. TypeInv /\ PayInv /\ [Next]_vars => (TypeInv /\ PayInv)'
  BY NextTypeInv, NextPayInv
<1>3. PayInv => TransferredIsPaid
  BY DEF PayInv, TransferredIsPaid
<1> QED
  BY <1>1, <1>2, <1>3, PTL DEF Spec

-----------------------------------------------------------------------------
(* Earnings are enough for what is paid *)

\* Where a call stands tells whether its unit is reserved and whether it was
\* paid; what was paid is reserved unless the call was told that it was not.
PlaceInv ==
  \A p \in Payer :
    /\ /\ kind[p] = "withdrawal"
       /\ pc[p] \in {"processing", "insert", "give_up", "transfer", "answer", "mark_failed",
                     "registry", "mark_transferred", "mark_completed"}
       => p \in Reserved
    /\ pc[p] = "idle" => p \notin sent
    /\ /\ kind[p] = "withdrawal"
       /\ pc[p] \in {"nonce", "affiliate", "balance", "create", "processing", "insert",
                     "give_up", "transfer"}
       => p \notin sent
    /\ kind[p] = "withdrawal" /\ pc[p] = "mark_failed" /\ p \in sent => p \in unknown
    /\ kind[p] = "withdrawal" /\ p \in sent => p \in unknown \union Reserved

LEMMA InitPlaceInv == Init => PlaceInv
  BY DEF Init, RecordInit, WithdrawalInit, PlaceInv

\* A withdrawal's step moves it to a place that suits its row and the chain.
LEMMA WithdrawKeepsPlaceInv ==
  ASSUME TypeInv, PlaceInv, NEW p \in Payer, WithdrawalStep(p)
  PROVE  PlaceInv'
<1> USE DEF TypeInv, TypeOK, InWithdraw, Go, recordVars, agentVars, moneyVars, tableVars,
            PlaceInv, Reserved, ReservedStatus
<1>1. CASE ConsumeNonce(p) \/ CheckAffiliate(p) \/ CheckBalance(p)
  BY <1>1 DEF ConsumeNonce, CheckAffiliate, CheckBalance
<1>2. CASE CreateWithdrawal(p)
  BY <1>2 DEF CreateWithdrawal
<1>3. CASE MarkProcessing(p)
  BY <1>3 DEF MarkProcessing, SetWithdrawal
<1>4. CASE CreatePayout(p) \/ FailWithdrawalPayout(p) \/ MarkWithdrawalTransferred(p)
  BY <1>4 DEF CreatePayout, InsertPayout, FailWithdrawalPayout, MarkWithdrawalTransferred
<1>5. CASE GiveUp(p)
  BY <1>5 DEF GiveUp, SetWithdrawal
<1>6. CASE SendWithdrawal(p)
  BY <1>6 DEF SendWithdrawal, Transfer, Broadcast, Refused, Answer
<1>7. CASE MarkWithdrawalFailed(p)
  BY <1>7 DEF MarkWithdrawalFailed, SetWithdrawal
<1>8. CASE RecordWithdrawal(p)
  BY <1>8 DEF RecordWithdrawal, RecordPayout
<1>9. CASE MarkCompleted(p)
  BY <1>9 DEF MarkCompleted, SetWithdrawal
<1> QED
  BY <1>1, <1>2, <1>3, <1>4, <1>5, <1>6, <1>7, <1>8, <1>9 DEF WithdrawalStep

LEMMA NextPlaceInv == TypeInv /\ PlaceInv /\ [Next]_vars => PlaceInv'
<1> SUFFICES ASSUME TypeInv, PlaceInv, [Next]_vars
             PROVE  PlaceInv'
  OBVIOUS
<1> USE DEF TypeInv, TypeOK, recordVars, moneyVars, tableVars, PlaceInv, Reserved
<1>1. ASSUME NEW j \in Job, AgentStep(j)
      PROVE  PlaceInv'
  BY <1>1
  DEF AgentStep, StartJob, LlmCall, FallbackCall, CallWithdraw, Start, LlmEnds, LlmFails,
      FallbackOther, FallbackReply, Stage
<1>2. ASSUME NEW p \in Payer, RoutingStep(p), UNCHANGED withdrawalVars
      PROVE  PlaceInv'
  <2>1. /\ kind' = [kind EXCEPT ![p] = "routing"]
        /\ \A q \in Payer \ {p} : pc'[q] = pc[q]
        /\ pc'[p] /= "idle" /\ unknown \subseteq unknown'
        /\ \A q \in Payer \ {p} : q \in sent' <=> q \in sent
    BY <1>2
    DEF RoutingStep, InRoute, Go, StartRouting, Start, ReadAggregates, Decide,
        CreateRoutingPayout, InsertPayout, FindPayout, SendRouting, Transfer, Answer,
        Broadcast, Refused, FindPayoutAgain, RecordRouting, RecordPayout,
        MarkRoutingTransferred, FailRoutingPayout, MarkSnapshot
  <2>2. UNCHANGED withdrawal
    BY <1>2 DEF withdrawalVars
  <2>3. \A q \in Payer \ {p} : /\ pc'[q] = pc[q] /\ kind'[q] = kind[q]
                              /\ (q \in sent' <=> q \in sent)
                              /\ (q \in unknown => q \in unknown')
    BY <2>1
  <2>4. kind'[p] = "routing" /\ pc'[p] /= "idle"
    BY <2>1
  <2>5. \A q \in Payer : q \in Reserved' <=> q \in Reserved
    BY <2>2
  <2> HIDE DEF Reserved
  <2> QED
    BY <2>3, <2>4, <2>5
<1>3. CASE Withdrawing
  BY <1>1, <1>3, WithdrawKeepsPlaceInv DEF Withdrawing
<1>4. CASE Routing
  <2>1. CASE RoutingOutside
    BY <1>4, <2>1 DEF Routing, withdrawalVars, RoutingOutside, Settle, IntervalPasses, CheckTreasury
  <2> QED
    BY <1>2, <1>4, <2>1 DEF Routing
<1>5. CASE Restart
  BY <1>5 DEF Restart, Active
<1>6. CASE UNCHANGED vars
  BY <1>6 DEF vars, withdrawalVars
<1> QED
  BY <1>3, <1>4, <1>5, <1>6 DEF Next

\* A call about to insert for which nothing speaks as an excuse has room.
SumInv ==
  /\ \A p \in Payer \ Excused :
       kind[p] = "withdrawal" /\ pc[p] = "create" => Cardinality(Reserved) + 1 <= Earned
  /\ Cardinality(Reserved \ Excused) <= Earned

\* Counting subsets of the payers.
LEMMA CountPayers ==
  /\ \A A \in SUBSET Payer : IsFiniteSet(A) /\ Cardinality(A) \in Nat
  /\ \A A, B \in SUBSET Payer : A \subseteq B => Cardinality(A) <= Cardinality(B)
  /\ \A A \in SUBSET Payer : \A p \in Payer : Cardinality(A \union {p}) <= Cardinality(A) + 1
<1>1. \A A \in SUBSET Payer : IsFiniteSet(A) /\ Cardinality(A) \in Nat
  BY PayerConfig, FS_Subset, FS_CardinalityType
<1>2. \A A, B \in SUBSET Payer : A \subseteq B => Cardinality(A) <= Cardinality(B)
  BY <1>1, FS_Subset
<1>3. ASSUME NEW A \in SUBSET Payer, NEW p \in Payer
      PROVE  Cardinality(A \union {p}) <= Cardinality(A) + 1
  <2>1. Cardinality(A \union {p}) = IF p \in A THEN Cardinality(A) ELSE Cardinality(A) + 1
    BY <1>1, FS_AddElement
  <2> QED
    BY <1>1, <2>1
<1> QED
  BY <1>1, <1>2, <1>3

LEMMA InitSumInv == Init => SumInv
<1> SUFFICES ASSUME Init
             PROVE  SumInv
  OBVIOUS
<1>1. Reserved = {}
  BY DEF Init, WithdrawalInit, Reserved, ReservedStatus
<1>2. Reserved \ Excused = {} /\ Cardinality({}) = 0
  BY <1>1, FS_EmptySet
<1>3. 0 <= Earned
  BY WithdrawalConfig
<1> QED
  BY <1>2, <1>3 DEF Init, RecordInit, SumInv

\* A step that reserves nothing, takes no excuse back and lets a call at the
\* insert only with one or with room.
LEMMA SumInvKept ==
  ASSUME SumInv, Reserved' \subseteq Reserved, Excused \subseteq Excused',
         Reserved \subseteq Payer,
         \A p \in Payer \ Excused' : kind'[p] = "withdrawal" /\ pc'[p] = "create" =>
           \/ kind[p] = "withdrawal" /\ pc[p] = "create"
           \/ Cardinality(Reserved) + 1 <= Earned
  PROVE  SumInv'
<1>1. Cardinality(Reserved') <= Cardinality(Reserved)
  BY CountPayers
<1>2. Cardinality((Reserved \ Excused)') <= Cardinality(Reserved \ Excused)
  BY CountPayers
<1>3. /\ Cardinality(Reserved) \in Nat /\ Cardinality(Reserved') \in Nat
      /\ Cardinality(Reserved \ Excused) \in Nat /\ Cardinality((Reserved \ Excused)') \in Nat
  BY CountPayers
<1> QED
  BY <1>1, <1>2, <1>3, WithdrawalConfig DEF SumInv

LEMMA WithdrawKeepsSumInv ==
  ASSUME TypeInv, PlaceInv, SumInv, NEW p \in Payer, WithdrawalStep(p)
  PROVE  SumInv'
<1> USE DEF TypeInv, TypeOK, InWithdraw, Go, recordVars, agentVars, moneyVars, tableVars
<1>0. Reserved \subseteq Payer /\ Excused \subseteq Payer /\ Cardinality(Reserved) \in Nat
  BY CountPayers DEF Reserved, Excused
<1>1. CASE CheckBalance(p)
  <2>1. Reserved' = Reserved /\ Excused \subseteq Excused'
    BY <1>1 DEF CheckBalance, Reserved, Excused
  <2>2. pc'[p] = "create" => p \in Excused' \/ Available >= 1
    BY <1>1 DEF CheckBalance, Excused
  <2>3. Available >= 1 => Cardinality(Reserved) + 1 <= Earned
    BY <1>0, WithdrawalConfig DEF Available
  <2>4. \A q \in Payer \ {p} : pc'[q] = pc[q] /\ kind'[q] = kind[q]
    BY <1>1 DEF CheckBalance
  <2> QED
    BY <1>0, <2>1, <2>2, <2>3, <2>4, SumInvKept
<1>2. CASE CreateWithdrawal(p) /\ withdrawal' /= withdrawal
  <2>1. /\ withdrawal' = [withdrawal EXCEPT ![p] = "pending"]
        /\ stale' = stale \union Overtaken(p)
        /\ UNCHANGED <<kind, unknown, blind>>
        /\ pc[p] = "create" /\ kind[p] = "withdrawal"
        /\ pc'[p] /= "create"
        /\ \A q \in Payer \ {p} : pc'[q] = pc[q]
    BY <1>2 DEF CreateWithdrawal
  <2>2. Reserved' = Reserved \union {p}
    BY <2>1 DEF Reserved, ReservedStatus
  <2>3. Excused' = Excused \union Overtaken(p)
    BY <2>1 DEF Excused
  <2>4. \A q \in Payer : kind'[q] = "withdrawal" /\ pc'[q] = "create" => q \in Excused'
    BY <2>1, <2>3 DEF Overtaken
  <2>5. Cardinality((Reserved \ Excused)') <= Earned
    <3>1. CASE p \in Excused
      <4>1. (Reserved \ Excused)' \subseteq Reserved \ Excused
        BY <3>1, <2>2, <2>3
      <4>2. /\ Cardinality((Reserved \ Excused)') <= Cardinality(Reserved \ Excused)
            /\ Cardinality((Reserved \ Excused)') \in Nat /\ Cardinality(Reserved \ Excused) \in Nat
        BY <1>0, <4>1, CountPayers
      <4> QED
        BY <4>2, WithdrawalConfig DEF SumInv
    <3>2. CASE p \notin Excused
      <4>1. Cardinality(Reserved) + 1 <= Earned
        BY <3>2, <2>1 DEF SumInv
      <4>2. (Reserved \ Excused)' \subseteq Reserved \union {p}
        BY <2>2
      <4>3. Cardinality((Reserved \ Excused)') <= Cardinality(Reserved \union {p})
        BY <1>0, <4>2, CountPayers
      <4>4. Cardinality(Reserved \union {p}) <= Cardinality(Reserved) + 1
        BY <1>0, CountPayers
      <4>5. Cardinality((Reserved \ Excused)') \in Nat /\ Cardinality(Reserved \union {p}) \in Nat
        BY <1>0, <4>2, CountPayers
      <4> QED
        BY <1>0, <4>1, <4>3, <4>4, <4>5, WithdrawalConfig
    <3> QED
      BY <3>1, <3>2
  <2> QED
    BY <2>4, <2>5 DEF SumInv
<1>3. CASE ~CheckBalance(p) /\ (CreateWithdrawal(p) => withdrawal' = withdrawal)
  <2>1. Excused \subseteq Excused' /\ UNCHANGED kind /\ pc'[p] /= "create"
    BY <1>3
    DEF WithdrawalStep, ConsumeNonce, CheckAffiliate, CreateWithdrawal,
        MarkProcessing, CreatePayout, InsertPayout, GiveUp, SendWithdrawal, Transfer, Answer,
        Broadcast, Refused, MarkWithdrawalFailed, FailWithdrawalPayout, RecordWithdrawal,
        RecordPayout, MarkWithdrawalTransferred, MarkCompleted, SetWithdrawal, Excused
  <2>2. \A q \in Payer \ {p} : pc'[q] = pc[q] /\ withdrawal'[q] = withdrawal[q]
    BY <1>3
    DEF WithdrawalStep, ConsumeNonce, CheckAffiliate, CreateWithdrawal,
        MarkProcessing, CreatePayout, InsertPayout, GiveUp, SendWithdrawal, Transfer, Answer,
        Broadcast, Refused, MarkWithdrawalFailed, FailWithdrawalPayout, RecordWithdrawal,
        RecordPayout, MarkWithdrawalTransferred, MarkCompleted, SetWithdrawal
  <2>3. \/ withdrawal'[p] = withdrawal[p] \/ withdrawal'[p] = "failed"
        \/ pc[p] \in {"processing", "mark_completed"} /\ kind[p] = "withdrawal"
    BY <1>3
    DEF WithdrawalStep, ConsumeNonce, CheckAffiliate, CreateWithdrawal,
        MarkProcessing, CreatePayout, GiveUp, SendWithdrawal, Transfer, Answer,
        MarkWithdrawalFailed, FailWithdrawalPayout, RecordWithdrawal,
        RecordPayout, MarkWithdrawalTransferred, MarkCompleted, SetWithdrawal
  <2>4. pc[p] \in {"processing", "mark_completed"} /\ kind[p] = "withdrawal" => p \in Reserved
    BY DEF PlaceInv
  <2>5. Reserved' \subseteq Reserved
    BY <2>2, <2>3, <2>4 DEF Reserved, ReservedStatus
  <2> QED
    BY <1>0, <2>1, <2>2, <2>5, SumInvKept
<1> QED
  BY <1>1, <1>2, <1>3

LEMMA NextSumInv == TypeInv /\ PlaceInv /\ SumInv /\ [Next]_vars => SumInv'
<1> SUFFICES ASSUME TypeInv, PlaceInv, SumInv, [Next]_vars
             PROVE  SumInv'
  OBVIOUS
<1> USE DEF TypeInv, TypeOK, recordVars, moneyVars, tableVars
<1>0. Reserved \subseteq Payer
  BY DEF Reserved
<1>1. ASSUME NEW j \in Job, AgentStep(j)
      PROVE  SumInv'
  <2>1. /\ UNCHANGED <<withdrawal, stale, blind, unknown>>
        /\ \A p \in Payer : pc'[p] = "nonce" \/ (pc'[p] = pc[p] /\ kind'[p] = kind[p])
    <3>1. CASE \E p \in Payer : LlmCall(j, p) \/ FallbackCall(j, p)
      <4>1. PICK p \in Payer : CallWithdraw(j, p)
        BY <3>1 DEF LlmCall, FallbackCall
      <4>2. /\ pc' = [pc EXCEPT ![p] = "nonce"]
            /\ kind' = [kind EXCEPT ![p] = "withdrawal"]
            /\ UNCHANGED <<withdrawal, stale, blind, unknown>>
        BY <4>1 DEF CallWithdraw, Start
      <4> QED
        BY <4>2
    <3>2. CASE ~\E p \in Payer : LlmCall(j, p) \/ FallbackCall(j, p)
      BY <1>1, <3>2
      DEF AgentStep, StartJob, LlmEnds, LlmFails, FallbackOther, FallbackReply, Stage
    <3> QED
      BY <3>1, <3>2
  <2>2. Reserved' = Reserved /\ Excused' = Excused
    BY <2>1 DEF Reserved, Excused
  <2> QED
    BY <1>0, <2>1, <2>2, SumInvKept
<1>2. ASSUME NEW p \in Payer, RoutingStep(p), UNCHANGED withdrawalVars
      PROVE  SumInv'
  <2>1. /\ kind' = [kind EXCEPT ![p] = "routing"]
        /\ \A q \in Payer \ {p} : pc'[q] = pc[q]
        /\ unknown \subseteq unknown'
    BY <1>2
    DEF RoutingStep, InRoute, Go, StartRouting, Start, ReadAggregates, Decide,
        CreateRoutingPayout, InsertPayout, FindPayout, SendRouting, Transfer, Answer,
        Broadcast, Refused, FindPayoutAgain, RecordRouting, RecordPayout,
        MarkRoutingTransferred, FailRoutingPayout, MarkSnapshot
  <2>2. Reserved' = Reserved /\ Excused \subseteq Excused'
    BY <1>2, <2>1 DEF Reserved, Excused, withdrawalVars
  <2>3. \A q \in Payer : kind'[q] = "withdrawal" => q /= p /\ kind[q] = "withdrawal"
    BY <2>1
  <2> QED
    BY <1>0, <2>1, <2>2, <2>3, SumInvKept
<1>3. CASE Withdrawing
  BY <1>1, <1>3, WithdrawKeepsSumInv DEF Withdrawing
<1>4. CASE Routing
  <2>1. CASE RoutingOutside
    <3>1. UNCHANGED <<kind, pc, withdrawal, stale, blind, unknown>>
      BY <1>4, <2>1 DEF Routing, withdrawalVars, RoutingOutside, Settle, IntervalPasses, CheckTreasury
    <3> QED
      BY <1>0, <3>1, SumInvKept DEF Reserved, Excused
  <2> QED
    BY <1>2, <1>4, <2>1 DEF Routing
<1>5. CASE Restart
  <2>1. /\ UNCHANGED <<kind, withdrawal, stale, blind, unknown>>
        /\ \A p \in Payer : pc'[p] \in {pc[p], "end"}
    BY <1>5 DEF Restart, Active
  <2> QED
    BY <1>0, <2>1, SumInvKept DEF Reserved, Excused
<1>6. CASE UNCHANGED vars
  <2>1. UNCHANGED <<kind, pc, withdrawal, stale, blind, unknown>>
    BY <1>6 DEF vars, withdrawalVars
  <2> QED
    BY <1>0, <2>1, SumInvKept DEF Reserved, Excused
<1> QED
  BY <1>3, <1>4, <1>5, <1>6 DEF Next

\* However many withdrawals run at once, the excuses are the only way to pay
\* more than was earned.
THEOREM EarningsSuffice == Spec => []OverdraftExplained
<1>1. Init => TypeInv /\ PlaceInv /\ SumInv
  BY InitTypeInv, InitPlaceInv, InitSumInv
<1>2. TypeInv /\ PlaceInv /\ SumInv /\ [Next]_vars => (TypeInv /\ PlaceInv /\ SumInv)'
  BY NextTypeInv, NextPlaceInv, NextSumInv
<1>3. TypeInv /\ PlaceInv /\ SumInv => OverdraftExplained
  <2> SUFFICES ASSUME TypeInv, PlaceInv, SumInv
               PROVE  OverdraftExplained
    OBVIOUS
  <2>1. PaidUnexcused \subseteq Reserved \ Excused
    BY DEF PaidUnexcused, PlaceInv, TypeInv, TypeOK, Excused
  <2>2. /\ Cardinality(PaidUnexcused) <= Cardinality(Reserved \ Excused)
        /\ Cardinality(PaidUnexcused) \in Nat /\ Cardinality(Reserved \ Excused) \in Nat
    BY <2>1, CountPayers DEF Reserved
  <2> QED
    BY <2>2, WithdrawalConfig DEF SumInv, OverdraftExplained
<1> QED
  BY <1>1, <1>2, <1>3, PTL DEF Spec

-----------------------------------------------------------------------------
(* What the fallback tells the affiliate *)

\* A call that has ended tells the truth if a transfer it made is one it reports,
\* or one it was told had failed; so does the job that waits for it, and a reply
\* that is out speaks of calls that are over.
TellInv ==
  /\ ok \subseteq sent
  /\ \A p \in Payer : kind[p] = "withdrawal" =>
       /\ pc[p] \in {"answer", "registry", "mark_transferred", "mark_completed"} => p \in sent
       /\ pc[p] \in {"mark_failed", "fail_payout"} /\ p \in sent => p \in unknown
  /\ \A j \in Job : stage[j] = "reply" =>
       \E p \in Payer :
         /\ asked[j] = {p}
         /\ kind[p] = "withdrawal" /\ pc[p] /= "idle"
         /\ pc[p] = "end" /\ p \in sent => p \in ok \union unknown
  /\ \A j \in Job : reply[j] /= "none" =>
       stage[j] = "done" /\ \A p \in asked[j] : pc[p] = "end"
  /\ ReplyTellsTruth

\* What one step of a call may do: it keeps what is over, and where it ends, the
\* transfer it made is accounted for.
LEMMA CallKeepsTellInv ==
  ASSUME TypeInv, TellInv, NEW p \in Payer, pc[p] /= "end",
         UNCHANGED <<stage, asked, reply>>, UNCHANGED kind \/ kind'[p] = "routing",
         \A q \in Payer \ {p} : kind'[q] = kind[q] /\ pc'[q] = pc[q],
         sent \subseteq sent', sent' \subseteq sent \union {p},
         unknown \subseteq unknown', ok \subseteq ok', ok' \subseteq sent',
         kind[p] = "withdrawal" /\ pc[p] /= "idle" => kind'[p] = "withdrawal",
         kind'[p] = "withdrawal" =>
           /\ pc'[p] \in {"answer", "registry", "mark_transferred", "mark_completed"} => p \in sent'
           /\ pc'[p] \in {"mark_failed", "fail_payout"} /\ p \in sent' => p \in unknown'
           /\ pc'[p] /= "idle"
           /\ pc'[p] = "end" /\ p \in sent' => p \in ok' \union unknown'
  PROVE  TellInv'
<1> USE DEF TypeInv, TypeOK
<1>1. \A q \in Payer : kind'[q] = "withdrawal" =>
        /\ pc'[q] \in {"answer", "registry", "mark_transferred", "mark_completed"} => q \in sent'
        /\ pc'[q] \in {"mark_failed", "fail_payout"} /\ q \in sent' => q \in unknown'
  BY DEF TellInv
<1>2. ASSUME NEW j \in Job, stage'[j] = "reply"
      PROVE  \E q \in Payer :
               /\ asked'[j] = {q}
               /\ kind'[q] = "withdrawal" /\ pc'[q] /= "idle"
               /\ pc'[q] = "end" /\ q \in sent' => q \in ok' \union unknown'
  <2>1. PICK q \in Payer :
          /\ asked[j] = {q} /\ kind[q] = "withdrawal" /\ pc[q] /= "idle"
          /\ pc[q] = "end" /\ q \in sent => q \in ok \union unknown
    BY <1>2 DEF TellInv
  <2> QED BY <2>1
<1>3. ASSUME NEW j \in Job, reply'[j] /= "none"
      PROVE  /\ stage'[j] = "done" /\ \A q \in asked'[j] : pc'[q] = "end"
             /\ reply'[j] = "paid" => asked'[j] \subseteq sent'
             /\ reply'[j] = "refused" => asked'[j] \intersect sent' \subseteq unknown'
  <2>1. stage[j] = "done" /\ \A q \in asked[j] : q \in Payer /\ pc[q] = "end"
    BY <1>3 DEF TellInv
  <2>2. p \notin asked[j]
    BY <2>1
  <2>3. /\ reply[j] = "paid" => asked[j] \subseteq sent
        /\ reply[j] = "refused" => asked[j] \intersect sent \subseteq unknown
    BY DEF TellInv, ReplyTellsTruth
  <2> QED BY <2>1, <2>2, <2>3
<1>4. ReplyTellsTruth'
  BY <1>3, SMT DEF ReplyTellsTruth
<1> QED BY <1>1, <1>2, <1>3, <1>4 DEF TellInv

\* Steps of withdraw.
LEMMA WithdrawKeepsTellInv ==
  ASSUME TypeInv, PlaceInv, TellInv, NEW p \in Payer, WithdrawalStep(p)
  PROVE  TellInv'
<1> USE DEF TypeInv, TypeOK, InWithdraw, Go, recordVars, agentVars, moneyVars, tableVars
<1>1. /\ kind[p] = "withdrawal" /\ UNCHANGED <<kind, stage, asked, reply>>
      /\ pc[p] \notin {"idle", "end"} /\ pc'[p] /= "idle"
      /\ \A q \in Payer \ {p} : pc'[q] = pc[q]
      /\ sent \subseteq sent' /\ sent' \subseteq sent \union {p} /\ unknown \subseteq unknown'
      /\ ok' \in {ok, ok \union {p}}
  BY DEF WithdrawalStep, ConsumeNonce, CheckAffiliate, CheckBalance, CreateWithdrawal,
         MarkProcessing, CreatePayout, InsertPayout, GiveUp, SendWithdrawal, Transfer, Answer,
         Broadcast, Refused, MarkWithdrawalFailed, FailWithdrawalPayout, RecordWithdrawal,
         RecordPayout, MarkWithdrawalTransferred, MarkCompleted, SetWithdrawal
<1>2. /\ p \in ok' \ ok => p \in sent
      /\ pc'[p] \in {"answer", "registry", "mark_transferred", "mark_completed"} => p \in sent'
      /\ pc'[p] \in {"mark_failed", "fail_payout"} /\ p \in sent' => p \in unknown'
      /\ pc'[p] = "end" /\ p \in sent' => p \in ok' \union unknown'
  <2> USE <1>1 DEF PlaceInv, TellInv
  <2>1. CASE ConsumeNonce(p) \/ CheckAffiliate(p) \/ CheckBalance(p)
    BY <2>1 DEF ConsumeNonce, CheckAffiliate, CheckBalance
  <2>2. CASE CreateWithdrawal(p)
    BY <2>2 DEF CreateWithdrawal
  <2>3. CASE MarkProcessing(p) \/ GiveUp(p) \/ MarkWithdrawalFailed(p) \/ MarkCompleted(p)
    BY <2>3 DEF MarkProcessing, GiveUp, MarkWithdrawalFailed, MarkCompleted, SetWithdrawal
  <2>4. CASE CreatePayout(p) \/ FailWithdrawalPayout(p) \/ MarkWithdrawalTransferred(p)
    BY <2>4 DEF CreatePayout, InsertPayout, FailWithdrawalPayout, MarkWithdrawalTransferred
  <2>5. CASE SendWithdrawal(p)
    BY <2>5 DEF SendWithdrawal, Transfer, Broadcast, Refused, Answer
  <2>6. CASE RecordWithdrawal(p)
    BY <2>6 DEF RecordWithdrawal, RecordPayout
  <2> QED BY <2>1, <2>2, <2>3, <2>4, <2>5, <2>6 DEF WithdrawalStep
<1>3. ok \subseteq ok' /\ ok' \subseteq sent'
  BY <1>1, <1>2 DEF TellInv
<1> HIDE DEF TypeInv, TypeOK
<1> QED BY <1>1, <1>2, <1>3, CallKeepsTellInv

\* Steps of the agent: a call that is made is at its beginning, a reply is given
\* when the call has ended.
LEMMA AgentKeepsTellInv ==
  ASSUME TypeInv, PlaceInv, TellInv, NEW j \in Job, AgentStep(j)
  PROVE  TellInv'
<1> USE DEF TypeInv, TypeOK, recordVars, moneyVars, tableVars
<1>1. UNCHANGED <<sent, unknown, ok>>
  BY DEF AgentStep, StartJob, LlmCall, FallbackCall, CallWithdraw, LlmEnds, LlmFails,
         FallbackOther, FallbackReply, Stage
<1>2. ASSUME NEW p \in Payer, CallWithdraw(j, p), stage[j] \in {"llm", "fallback"},
             \/ UNCHANGED <<stage, asked>>
             \/ /\ stage' = [stage EXCEPT ![j] = "reply"]
                /\ asked' = [asked EXCEPT ![j] = {p}]
      PROVE  TellInv'
  <2>1. /\ pc[p] = "idle" /\ pc'[p] = "nonce" /\ kind'[p] = "withdrawal"
        /\ \A q \in Payer \ {p} : pc'[q] = pc[q] /\ kind'[q] = kind[q]
        /\ reply' = reply /\ p \notin sent
    BY <1>2 DEF CallWithdraw, Start, PlaceInv
  <2>2. \A i \in Job : stage'[i] = "reply" /\ i /= j => stage[i] = "reply" /\ asked'[i] = asked[i]
    BY <1>2
  <2>3. \A i \in Job : reply[i] /= "none" => i /= j /\ stage'[i] = stage[i] /\ asked'[i] = asked[i]
    BY <1>2 DEF TellInv
  <2>4. ASSUME NEW i \in Job, stage'[i] = "reply"
        PROVE  \E q \in Payer :
                 /\ asked'[i] = {q}
                 /\ kind'[q] = "withdrawal" /\ pc'[q] /= "idle"
                 /\ pc'[q] = "end" /\ q \in sent' => q \in ok' \union unknown'
    <3>1. CASE i = j
      BY <1>2, <2>1, <2>4, <3>1
    <3>2. CASE i /= j
      <4>1. PICK q \in Payer :
              /\ asked[i] = {q} /\ kind[q] = "withdrawal" /\ pc[q] /= "idle"
              /\ pc[q] = "end" /\ q \in sent => q \in ok \union unknown
        BY <2>2, <2>4, <3>2 DEF TellInv
      <4> QED BY <1>1, <2>1, <2>2, <2>4, <3>2, <4>1
    <3> QED BY <3>1, <3>2
  <2>5. ASSUME NEW i \in Job, reply'[i] /= "none"
        PROVE  stage'[i] = "done" /\ \A q \in asked'[i] : pc'[q] = "end"
    <3>1. stage[i] = "done" /\ asked'[i] = asked[i] /\ stage'[i] = stage[i]
          /\ \A q \in asked[i] : q \in Payer /\ pc[q] = "end"
      BY <2>1, <2>3, <2>5 DEF TellInv
    <3> QED BY <2>1, <3>1
  <2>6. ReplyTellsTruth'
    <3>1. \A i \in Job : reply'[i] /= "none" => asked'[i] = asked[i] /\ reply'[i] = reply[i]
      BY <2>1, <2>3
    <3> QED BY <1>1, <3>1 DEF TellInv, ReplyTellsTruth
  <2>7. \A q \in Payer : kind'[q] = "withdrawal" =>
          /\ pc'[q] \in {"answer", "registry", "mark_transferred", "mark_completed"} => q \in sent'
          /\ pc'[q] \in {"mark_failed", "fail_payout"} /\ q \in sent' => q \in unknown'
    BY <1>1, <2>1 DEF TellInv
  <2> QED BY <1>1, <2>4, <2>5, <2>6, <2>7 DEF TellInv
<1>3. CASE \E p \in Payer : LlmCall(j, p) \/ FallbackCall(j, p)
  BY <1>2, <1>3 DEF LlmCall, FallbackCall
<1>4. CASE UNCHANGED <<kind, pc, asked, reply>> /\ \E to \in {"llm", "fallback", "done"} :
             stage[j] /= "done" /\ stage' = [stage EXCEPT ![j] = to]
  BY <1>1, <1>4 DEF TellInv, ReplyTellsTruth
<1>5. CASE FallbackReply(j)
  <2>1. /\ stage[j] = "reply" /\ UNCHANGED <<kind, pc, asked>>
        /\ stage' = [stage EXCEPT ![j] = "done"]
        /\ \A p \in asked[j] : pc[p] = "end"
        /\ reply' = [reply EXCEPT ![j] = IF asked[j] \subseteq ok THEN "paid" ELSE "refused"]
    BY <1>5 DEF FallbackReply, Stage
  <2> QED BY <1>1, <2>1 DEF TellInv, ReplyTellsTruth
<1> QED
  BY <1>3, <1>4, <1>5 DEF AgentStep, StartJob, LlmEnds, LlmFails, FallbackOther, Stage

\* A routing run is no withdrawal.
LEMMA RoutingKeepsTellInv ==
  ASSUME TypeInv, TellInv, NEW p \in Payer, RoutingStep(p), UNCHANGED withdrawalVars
  PROVE  TellInv'
<1>1. /\ kind' = [kind EXCEPT ![p] = "routing"]
      /\ kind[p] = "routing" \/ pc[p] = "idle"
      /\ pc[p] /= "end"
      /\ \A q \in Payer \ {p} : pc'[q] = pc[q]
      /\ sent \subseteq sent' /\ sent' \subseteq sent \union {p} /\ unknown \subseteq unknown'
  BY DEF RoutingStep, InRoute, Go, StartRouting, Start, ReadAggregates, Decide,
      CreateRoutingPayout, InsertPayout, FindPayout, SendRouting, Transfer, Answer,
      Broadcast, Refused, FindPayoutAgain, RecordRouting, RecordPayout, TypeInv, TypeOK,
      MarkRoutingTransferred, FailRoutingPayout, MarkSnapshot, recordVars, moneyVars
<1>2. UNCHANGED <<stage, asked, reply, ok>>
  BY DEF withdrawalVars
<1>3. kind'[p] = "routing" /\ \A q \in Payer \ {p} : kind'[q] = kind[q]
  BY <1>1 DEF TypeInv, TypeOK
<1>4. ok' \subseteq sent'
  BY <1>1, <1>2 DEF TellInv
<1> QED BY <1>1, <1>2, <1>3, <1>4, CallKeepsTellInv

LEMMA NextTellInv == TypeInv /\ PlaceInv /\ TellInv /\ [Next]_vars => TellInv'
<1> SUFFICES ASSUME TypeInv, PlaceInv, TellInv, [Next]_vars
             PROVE  TellInv'
  OBVIOUS
<1>1. CASE Withdrawing
  BY <1>1, AgentKeepsTellInv, WithdrawKeepsTellInv DEF Withdrawing
<1>2. CASE Routing
  <2>1. CASE RoutingOutside
    <3>1. UNCHANGED <<kind, pc, sent, unknown, ok, stage, asked, reply>>
      BY <1>2, <2>1 DEF Routing, withdrawalVars, RoutingOutside, Settle, IntervalPasses,
                        CheckTreasury, moneyVars
    <3> QED BY <3>1 DEF TellInv, ReplyTellsTruth
  <2> QED BY <1>2, <2>1, RoutingKeepsTellInv DEF Routing
<1>3. CASE Restart
  <2>1. /\ UNCHANGED <<kind, sent, unknown, ok, asked, reply>>
        /\ \A p \in Payer : pc'[p] \in {"idle", "end"} /\ (pc[p] = "end" => pc'[p] = "end")
        /\ \A j \in Job : stage'[j] \in {"idle", "done"} /\ (stage[j] = "done" => stage'[j] = "done")
    BY <1>3 DEF Restart, StopJobs, tableVars, moneyVars, Active, TypeInv, TypeOK
  <2> QED BY <2>1 DEF TellInv, ReplyTellsTruth, TypeInv, TypeOK
<1>4. CASE UNCHANGED vars
  <2>1. UNCHANGED <<kind, pc, sent, unknown, ok, stage, asked, reply>>
    BY <1>4 DEF vars, withdrawalVars, moneyVars
  <2> QED BY <2>1 DEF TellInv, ReplyTellsTruth
<1> QED BY <1>1, <1>2, <1>3, <1>4 DEF Next

\* "I executed a payout" is said of a transfer that was broadcast, and "I did not
\* complete an on-chain transfer" hides none but one whose answer was lost,
\* for any number of jobs, repeated signatures, faults and restarts.
THEOREM RepliesTrue == Spec => []ReplyTellsTruth
<1>1. Init => TypeInv /\ PlaceInv /\ TellInv
  <2>1. Init => TellInv
    BY DEF Init, RecordInit, WithdrawalInit, TellInv, ReplyTellsTruth
  <2> QED BY <2>1, InitTypeInv, InitPlaceInv
<1>2. TypeInv /\ PlaceInv /\ TellInv /\ [Next]_vars => (TypeInv /\ PlaceInv /\ TellInv)'
  BY NextTypeInv, NextPlaceInv, NextTellInv
<1>3. TellInv => ReplyTellsTruth
  BY DEF TellInv
<1> QED
  BY <1>1, <1>2, <1>3, PTL DEF Spec

-----------------------------------------------------------------------------
(* Two payouts to the creator in one interval *)

\* A run that has found the interval due, and one that is past its transfer.
Chosen(p) == basis[p] /= NoSnapshot

Early == {"idle", "aggregates", "snapshot"}
PastTransfer == {"answer", "find_again", "registry", "mark_transferred", "mark_snapshot"}

\* p was over when q read its snapshot, and if it left its mark there, that was in
\* an earlier interval than any payment of q.
Before(p, q) ==
  /\ pc[p] = "end"
  /\ p \in marked => paidAt[p] < (IF paidAt[q] = 0 THEN now ELSE paidAt[q])

RunFacts ==
  \A p \in Payer :
    /\ Chosen(p) => basis[p] \in Snapshot /\ kind[p] = "routing" /\ pc[p] \notin Early
    /\ kind[p] = "routing" /\ pc[p] \notin Early /\ pc[p] /= "end" => Chosen(p)
    /\ paidAt[p] <= now
    /\ ~Chosen(p) => paidAt[p] = 0
    /\ kind[p] = "routing" /\ p \in sent => paidAt[p] > 0
    /\ kind[p] = "routing" /\ pc[p] \in PastTransfer => p \in sent

\* A mark stays on its snapshot until a later one replaces it.
MarkFacts ==
  /\ \A s \in Snapshot : routed[s] <= now
  /\ \A p \in marked : /\ Chosen(p) /\ pc[p] = "end" /\ p \in sent
                       /\ routed[basis[p]] >= paidAt[p]

\* Two runs on one snapshot overlapped, or one was over before the other.
Apart ==
  \A p, q \in Payer :
    p /= q /\ Chosen(p) /\ Chosen(q) /\ basis[p] = basis[q]
      => p \in beside[q] \/ q \in beside[p] \/ Before(p, q) \/ Before(q, p)

RouteInv == RunFacts /\ MarkFacts /\ Apart

\* A step that neither begins nor marks a payout: runs move on, and those that
\* are over stay as they are.
LEMMA RunKeepsRouteInv ==
  ASSUME TypeInv, TypeInv', RouteInv,
         UNCHANGED <<basis, beside, marked, routed>>, now <= now', sent \subseteq sent',
         \A p \in Payer :
           /\ pc[p] = "end" => pc'[p] = "end" /\ paidAt'[p] = paidAt[p]
           /\ Chosen(p) => kind'[p] = "routing" /\ pc'[p] \notin Early
           /\ kind'[p] = "routing" /\ pc'[p] \notin Early /\ pc'[p] /= "end" => Chosen(p)
           /\ paidAt'[p] = paidAt[p] \/ (Chosen(p) /\ paidAt'[p] = now)
           /\ kind'[p] = "routing" /\ p \in sent' => paidAt'[p] > 0
           /\ kind'[p] = "routing" /\ pc'[p] \in PastTransfer => p \in sent'
  PROVE  RouteInv'
<1> USE DEF RouteInv
<1>1. /\ now \in Nat /\ now' \in Nat /\ marked \subseteq Payer
      /\ \A p \in Payer : paidAt[p] \in Nat /\ paidAt'[p] \in Nat
      /\ \A s \in Snapshot : routed[s] \in Nat
  BY RoutingConfig DEF TypeInv, TypeOK
<1>2. \A p \in Payer : paidAt[p] <= now
  BY DEF RunFacts
<1>3. \A p \in Payer : Chosen(p)' <=> Chosen(p)
  BY DEF Chosen
<1>4. RunFacts'
  BY <1>1, <1>2, <1>3 DEF RunFacts
<1>5. MarkFacts'
  BY <1>1, <1>3 DEF MarkFacts
<1>6. ASSUME NEW p \in Payer, NEW q \in Payer, Before(p, q)
      PROVE  Before(p, q)'
  <2>1. pc'[p] = "end" /\ paidAt'[p] = paidAt[p]
    BY <1>6 DEF Before
  <2>2. paidAt'[q] = paidAt[q] \/ paidAt'[q] = now
    OBVIOUS
  <2>3. paidAt[q] <= now
    BY <1>2
  <2> QED BY <1>1, <1>6, <2>1, <2>2, <2>3 DEF Before
<1>7. Apart'
  BY <1>3, <1>6 DEF Apart
<1> QED BY <1>4, <1>5, <1>7

\* A run that finds the interval due on its snapshot: those that are not under
\* way beside it are over, and have marked that snapshot before now, if at all.
LEMMA DecideKeepsRouteInv ==
  ASSUME TypeInv, TypeInv', PlaceInv, RouteInv, NEW p \in Payer, Decide(p)
  PROVE  RouteInv'
<1> USE DEF RouteInv
<1>1. /\ now \in Nat /\ marked \subseteq Payer
      /\ \A q \in Payer : paidAt[q] \in Nat
      /\ \A s \in Snapshot : routed[s] \in Nat
      /\ NoSnapshot \notin Snapshot
  BY RoutingConfig DEF TypeInv, TypeOK
<1>2. /\ kind[p] = "routing" /\ pc[p] = "snapshot"
      /\ UNCHANGED <<kind, sent, now, routed, paidAt, marked>>
      /\ \A q \in Payer \ {p} : pc'[q] = pc[q]
  BY DEF Decide, InRoute, Go, snapshotVars, moneyVars, TypeInv, TypeOK
<1>3. ~Chosen(p) /\ paidAt[p] = 0 /\ p \notin sent
  BY <1>1, <1>2 DEF RunFacts, Early
<1>4. CASE pc' = [pc EXCEPT ![p] = "end"] /\ UNCHANGED <<basis, beside>>
  <2>1. pc'[p] = "end"
    BY <1>4 DEF TypeInv, TypeOK
  <2>2. \A q \in Payer :
           /\ pc[q] = "end" => pc'[q] = "end" /\ paidAt'[q] = paidAt[q]
           /\ Chosen(q) => kind'[q] = "routing" /\ pc'[q] \notin Early
           /\ kind'[q] = "routing" /\ pc'[q] \notin Early /\ pc'[q] /= "end" => Chosen(q)
           /\ paidAt'[q] = paidAt[q]
           /\ kind'[q] = "routing" /\ q \in sent' => paidAt'[q] > 0
           /\ kind'[q] = "routing" /\ pc'[q] \in PastTransfer => q \in sent'
    BY <1>2, <1>3, <2>1 DEF RunFacts, PastTransfer, Early
  <2> QED BY <1>1, <1>2, <1>4, <2>2, RunKeepsRouteInv
<1>5. CASE /\ latest \in Snapshot /\ Due(latest)
           /\ basis' = [basis EXCEPT ![p] = latest]
           /\ beside' = [beside EXCEPT ![p] = UnderWay(p)]
           /\ pc' = [pc EXCEPT ![p] = "insert"]
  <2>1. /\ pc'[p] = "insert" /\ basis'[p] = latest /\ beside'[p] = UnderWay(p)
        /\ \A q \in Payer \ {p} : basis'[q] = basis[q] /\ beside'[q] = beside[q]
    BY <1>5 DEF TypeInv, TypeOK
  <2>2. Chosen(p)' /\ \A q \in Payer \ {p} : Chosen(q)' <=> Chosen(q)
    BY <1>1, <1>5, <2>1 DEF Chosen
  <2>3. RunFacts'
    BY <1>1, <1>2, <1>3, <1>5, <2>1, <2>2 DEF RunFacts, Early, PastTransfer
  <2>4. p \notin marked
    BY <1>3 DEF MarkFacts
  <2>5. MarkFacts'
    BY <1>1, <1>2, <2>1, <2>2, <2>4 DEF MarkFacts
  <2>6. ASSUME NEW q \in Payer \ {p}, Chosen(q), basis[q] = latest
        PROVE  q \in beside'[p] \/ Before(q, p)'
    <3>1. kind[q] = "routing" /\ pc[q] \notin Early
      BY <2>6 DEF RunFacts
    <3>2. CASE pc[q] /= "end"
      BY <2>1, <3>1, <3>2 DEF UnderWay, Routings, Active, Early
    <3>3. CASE pc[q] = "end" /\ q \in marked
      <4>1. routed[latest] <= now /\ routed[latest] /= now /\ routed[latest] >= paidAt[q]
        BY <1>5, <2>6, <3>3 DEF MarkFacts, Due
      <4>2. paidAt[q] < now
        BY <1>1, <1>5, <4>1
      <4> QED BY <1>2, <1>3, <3>3, <4>2 DEF Before
    <3>4. CASE pc[q] = "end" /\ q \notin marked
      BY <1>2, <3>4 DEF Before
    <3> QED BY <3>2, <3>3, <3>4
  <2>7. ASSUME NEW q \in Payer \ {p}, NEW r \in Payer \ {p}, Before(q, r)
        PROVE  Before(q, r)'
    BY <1>2, <2>7 DEF Before
  <2>8. Apart'
    <3> SUFFICES ASSUME NEW q \in Payer, NEW r \in Payer, q /= r, Chosen(q)', Chosen(r)',
                        basis'[q] = basis'[r]
                 PROVE  q \in beside'[r] \/ r \in beside'[q] \/ Before(q, r)' \/ Before(r, q)'
      BY DEF Apart
    <3>1. CASE q = p
      BY <2>1, <2>2, <2>6, <3>1
    <3>2. CASE r = p
      BY <2>1, <2>2, <2>6, <3>2
    <3>3. CASE q /= p /\ r /= p
      BY <2>1, <2>2, <2>7, <3>3 DEF Apart
    <3> QED BY <3>1, <3>2, <3>3
  <2> QED BY <2>3, <2>5, <2>8
<1> QED BY <1>4, <1>5 DEF Decide, Go

\* The mark is left, now.
LEMMA MarkKeepsRouteInv ==
  ASSUME TypeInv, TypeInv', RouteInv, NEW p \in Payer, MarkSnapshot(p)
  PROVE  RouteInv'
<1> USE DEF RouteInv
<1>1. /\ now \in Nat /\ marked \subseteq Payer
      /\ \A q \in Payer : paidAt[q] \in Nat
      /\ \A s \in Snapshot : routed[s] \in Nat
  BY RoutingConfig DEF TypeInv, TypeOK
<1>2. /\ kind[p] = "routing" /\ pc[p] = "mark_snapshot" /\ pc'[p] = "end"
      /\ UNCHANGED <<kind, sent, now, basis, beside, paidAt>>
      /\ \A q \in Payer \ {p} : pc'[q] = pc[q]
      /\ \/ UNCHANGED <<routed, marked>>
         \/ routed' = [routed EXCEPT ![basis[p]] = now] /\ marked' = marked \union {p}
  BY DEF MarkSnapshot, InRoute, Go, snapshotVars, moneyVars, TypeInv, TypeOK
<1>3. Chosen(p) /\ basis[p] \in Snapshot /\ p \in sent /\ p \notin marked
  BY <1>2 DEF RunFacts, MarkFacts, Early, PastTransfer
<1>4. \A q \in Payer : Chosen(q)' <=> Chosen(q)
  BY <1>2 DEF Chosen
<1>5. RunFacts'
  BY <1>2, <1>3, <1>4 DEF RunFacts, Early, PastTransfer
<1>6. MarkFacts'
  <2>1. \A s \in Snapshot : routed'[s] = routed[s] \/ routed'[s] = now
    BY <1>2, <1>3 DEF TypeInv, TypeOK
  <2>2. \A s \in Snapshot : routed'[s] <= now
    BY <1>1, <2>1 DEF MarkFacts
  <2>3. ASSUME NEW q \in marked'
        PROVE  Chosen(q)' /\ pc'[q] = "end" /\ q \in sent' /\ routed'[basis'[q]] >= paidAt'[q]
    <3>1. paidAt[q] <= now /\ q \in Payer
      BY <1>1, <1>2, <2>3 DEF RunFacts
    <3>2. CASE q = p
      <4>1. routed'[basis[p]] = now
        BY <1>2, <1>3, <2>3, <3>2 DEF TypeInv, TypeOK
      <4> QED BY <1>1, <1>2, <1>3, <1>4, <3>1, <3>2, <4>1
    <3>3. CASE q /= p
      <4>1. q \in marked /\ basis[q] \in Snapshot /\ Chosen(q) /\ pc[q] = "end" /\ q \in sent
            /\ routed[basis[q]] >= paidAt[q]
        BY <1>2, <2>3, <3>1, <3>3 DEF MarkFacts, RunFacts
      <4> QED BY <1>1, <1>2, <1>4, <2>1, <3>1, <3>3, <4>1
    <3> QED BY <3>2, <3>3
  <2> QED BY <1>2, <2>2, <2>3 DEF MarkFacts
<1>7. ASSUME NEW q \in Payer, NEW r \in Payer, Before(q, r)
      PROVE  Before(q, r)'
  <2>1. q /= p
    BY <1>2, <1>7 DEF Before
  <2> QED BY <1>2, <1>7, <2>1 DEF Before
<1>8. Apart'
  BY <1>2, <1>4, <1>7 DEF Apart
<1> QED BY <1>5, <1>6, <1>8

\* The other steps of a run.
LEMMA StepKeepsRouteInv ==
  ASSUME TypeInv, TypeInv', PlaceInv, PlaceInv', RouteInv, NEW p \in Payer, RoutingStep(p)
  PROVE  RouteInv'
<1>t. /\ now \in Nat /\ now >= 1 /\ \A q \in Payer : paidAt[q] \in Nat
      /\ pc \in [Payer -> Place] /\ kind \in [Payer -> {"none", "withdrawal", "routing"}]
      /\ paidAt \in [Payer -> 0 .. MaxInterval]
  BY RoutingConfig DEF TypeInv, TypeOK
<1>1. CASE Decide(p)
  BY <1>1, DecideKeepsRouteInv
<1>2. CASE MarkSnapshot(p)
  BY <1>2, MarkKeepsRouteInv
<1>3. CASE ~Decide(p) /\ ~MarkSnapshot(p)
  <2>1. /\ UNCHANGED <<basis, beside, marked, routed, now>>
        /\ kind' = [kind EXCEPT ![p] = "routing"]
        /\ \A q \in Payer \ {p} : pc'[q] = pc[q]
        /\ pc[p] /= "end" /\ pc'[p] /= "idle"
        /\ pc[p] \notin Early => pc'[p] \notin Early /\ kind[p] = "routing"
        /\ pc[p] \in Early => pc'[p] \in Early
    BY <1>3, <1>t
    DEF RoutingStep, InRoute, Go, StartRouting, Start, ReadAggregates,
        CreateRoutingPayout, InsertPayout, FindPayout, SendRouting, Transfer, Answer,
        Broadcast, Refused, FindPayoutAgain, RecordRouting, RecordPayout, Early,
        MarkRoutingTransferred, FailRoutingPayout, snapshotVars, routingVars
  <2>2. /\ sent' = sent /\ paidAt' = paidAt
        \/ /\ pc[p] = "transfer" /\ sent' = sent \union {p}
           /\ p \in sent \/ paidAt'[p] = now
           /\ \A q \in Payer \ {p} : paidAt'[q] = paidAt[q]
           /\ p \in sent => paidAt' = paidAt
    BY <1>3, <1>t
    DEF RoutingStep, StartRouting, ReadAggregates, CreateRoutingPayout, InsertPayout, FindPayout,
        SendRouting, Transfer, Answer, Broadcast, Refused, FindPayoutAgain, RecordRouting,
        RecordPayout, MarkRoutingTransferred, FailRoutingPayout, routingVars, moneyVars,
        recordVars, InRoute
  <2>3. pc'[p] \in PastTransfer => pc[p] \in PastTransfer \/ (pc[p] = "transfer" /\ p \in sent')
    BY <1>3, <1>t
    DEF RoutingStep, InRoute, Go, StartRouting, Start, ReadAggregates,
        CreateRoutingPayout, InsertPayout, FindPayout, SendRouting, Transfer, Answer,
        Broadcast, Refused, FindPayoutAgain, RecordRouting, RecordPayout, PastTransfer,
        MarkRoutingTransferred, FailRoutingPayout
  <2>4. /\ kind'[p] = "routing" /\ sent \subseteq sent' /\ p \in sent' => p \in sent \/ pc[p] = "transfer"
        /\ \A q \in Payer \ {p} : kind'[q] = kind[q] /\ (q \in sent' => q \in sent)
    BY <1>t, <2>1, <2>2
  <2>5. Chosen(p) <=> pc[p] \notin Early
    BY <2>1 DEF RouteInv, RunFacts
  <2>6. /\ Chosen(p) => pc'[p] \notin Early
        /\ pc'[p] \notin Early => Chosen(p)
        /\ paidAt'[p] = paidAt[p] \/ (Chosen(p) /\ paidAt'[p] = now)
    BY <2>1, <2>2, <2>5 DEF Early
  <2>7. p \in sent => kind[p] = "routing"
    <3>1. pc[p] = "idle" => p \notin sent
      BY DEF PlaceInv
    <3>2. pc[p] /= "idle" => kind[p] = "routing"
      BY <1>3, <2>1
      DEF RoutingStep, InRoute, StartRouting, Start, ReadAggregates, CreateRoutingPayout,
          FindPayout, SendRouting, FindPayoutAgain, RecordRouting, MarkRoutingTransferred,
          FailRoutingPayout
    <3> QED BY <3>1, <3>2
  <2>8. p \in sent' => paidAt'[p] > 0
    <3>1. p \in sent => paidAt[p] > 0
      BY <2>7 DEF RouteInv, RunFacts
    <3> QED BY <1>t, <2>2, <3>1
  <2>9. pc'[p] \in PastTransfer => p \in sent'
    <3>1. pc[p] \in PastTransfer => p \in sent
      BY <2>1 DEF RouteInv, RunFacts, PastTransfer, Early
    <3> QED BY <2>3, <2>4, <3>1, <2>2
  <2>10. ASSUME NEW q \in Payer
         PROVE  /\ pc[q] = "end" => pc'[q] = "end" /\ paidAt'[q] = paidAt[q]
                /\ Chosen(q) => kind'[q] = "routing" /\ pc'[q] \notin Early
                /\ kind'[q] = "routing" /\ pc'[q] \notin Early /\ pc'[q] /= "end" => Chosen(q)
                /\ paidAt'[q] = paidAt[q] \/ (Chosen(q) /\ paidAt'[q] = now)
                /\ kind'[q] = "routing" /\ q \in sent' => paidAt'[q] > 0
                /\ kind'[q] = "routing" /\ pc'[q] \in PastTransfer => q \in sent'
    <3>1. CASE q = p
      BY <2>1, <2>4, <2>6, <2>8, <2>9, <3>1
    <3>2. CASE q /= p
      BY <2>1, <2>2, <2>4, <3>2 DEF RouteInv, RunFacts
    <3> QED BY <3>1, <3>2
  <2>11. now <= now' /\ sent \subseteq sent'
    BY <1>t, <2>1, <2>2
  <2> QED BY <2>1, <2>10, <2>11, RunKeepsRouteInv
<1> QED BY <1>1, <1>2, <1>3

\* What is not a step of a run leaves all runs as they are, or ends them.
LEMMA OtherKeepsRouteInv ==
  ASSUME TypeInv, TypeInv', RouteInv,
         UNCHANGED <<basis, beside, marked, routed, paidAt>>, now <= now',
         sent \subseteq sent',
         \A p \in Payer :
           /\ kind'[p] = "routing" <=> kind[p] = "routing"
           /\ kind[p] = "routing" => pc'[p] \in {pc[p], "end"} /\ (p \in sent' => p \in sent)
           /\ pc[p] = "end" => pc'[p] = "end"
  PROVE  RouteInv'
<1>1. ASSUME NEW q \in Payer
      PROVE  /\ pc[q] = "end" => pc'[q] = "end" /\ paidAt'[q] = paidAt[q]
             /\ Chosen(q) => kind'[q] = "routing" /\ pc'[q] \notin Early
             /\ kind'[q] = "routing" /\ pc'[q] \notin Early /\ pc'[q] /= "end" => Chosen(q)
             /\ paidAt'[q] = paidAt[q]
             /\ kind'[q] = "routing" /\ q \in sent' => paidAt'[q] > 0
             /\ kind'[q] = "routing" /\ pc'[q] \in PastTransfer => q \in sent'
  BY DEF RouteInv, RunFacts, Early, PastTransfer
<1> QED BY <1>1, RunKeepsRouteInv

LEMMA NextRouteInv ==
  TypeInv /\ PlaceInv /\ RouteInv /\ [Next]_vars => RouteInv'
<1> SUFFICES ASSUME TypeInv, PlaceInv, RouteInv, [Next]_vars
             PROVE  RouteInv'
  OBVIOUS
<1>0. TypeInv' /\ PlaceInv'
  BY NextTypeInv, NextPlaceInv
<1>t. /\ now \in Nat /\ pc \in [Payer -> Place] /\ sent \subseteq Payer
      /\ kind \in [Payer -> {"none", "withdrawal", "routing"}]
  BY RoutingConfig DEF TypeInv, TypeOK
<1>1. CASE Withdrawing
  <2>1. UNCHANGED <<basis, beside, marked, routed, paidAt, now>>
    BY <1>1 DEF Withdrawing, routingVars
  <2>2. ASSUME NEW j \in Job, AgentStep(j)
        PROVE  RouteInv'
    <3>1. /\ sent' = sent
          /\ \/ UNCHANGED <<kind, pc>>
             \/ \E p \in Payer : /\ pc[p] = "idle"
                                 /\ kind' = [kind EXCEPT ![p] = "withdrawal"]
                                 /\ pc' = [pc EXCEPT ![p] = "nonce"]
      BY <2>2 DEF AgentStep, StartJob, LlmCall, FallbackCall, CallWithdraw, Start, LlmEnds,
                  LlmFails, FallbackOther, FallbackReply, Stage, moneyVars
    <3>2. CASE UNCHANGED <<kind, pc>>
      BY <1>0, <1>t, <2>1, <3>1, <3>2, OtherKeepsRouteInv
    <3>3. ASSUME NEW p \in Payer, pc[p] = "idle", kind' = [kind EXCEPT ![p] = "withdrawal"],
                 pc' = [pc EXCEPT ![p] = "nonce"]
          PROVE  RouteInv'
      <4>1. \A q \in Payer \ {p} : kind'[q] = kind[q] /\ pc'[q] = pc[q]
        BY <1>t, <3>3
      <4>2. kind'[p] = "withdrawal" /\ pc'[p] = "nonce" /\ ~Chosen(p)
        BY <1>t, <3>3 DEF RouteInv, RunFacts, Early
      <4>3. ASSUME NEW q \in Payer
            PROVE  /\ pc[q] = "end" => pc'[q] = "end" /\ paidAt'[q] = paidAt[q]
                   /\ Chosen(q) => kind'[q] = "routing" /\ pc'[q] \notin Early
                   /\ kind'[q] = "routing" /\ pc'[q] \notin Early /\ pc'[q] /= "end" => Chosen(q)
                   /\ paidAt'[q] = paidAt[q]
                   /\ kind'[q] = "routing" /\ q \in sent' => paidAt'[q] > 0
                   /\ kind'[q] = "routing" /\ pc'[q] \in PastTransfer => q \in sent'
        <5>1. CASE q = p
          BY <2>1, <3>1, <3>3, <4>2, <5>1
        <5>2. CASE q /= p
          BY <2>1, <3>1, <4>1, <5>2 DEF RouteInv, RunFacts
        <5> QED BY <5>1, <5>2
      <4> QED BY <1>0, <1>t, <2>1, <3>1, <4>3, RunKeepsRouteInv
    <3> QED BY <3>1, <3>2, <3>3
  <2>3. ASSUME NEW p \in Payer, WithdrawalStep(p)
        PROVE  RouteInv'
    <3>1. /\ UNCHANGED kind /\ kind[p] = "withdrawal" /\ pc[p] /= "end"
          /\ \A q \in Payer \ {p} : pc'[q] = pc[q]
          /\ sent \subseteq sent' /\ sent' \subseteq sent \union {p}
      BY <1>t, <2>3
      DEF WithdrawalStep, ConsumeNonce, CheckAffiliate, CheckBalance, CreateWithdrawal,
          MarkProcessing, CreatePayout, InsertPayout, GiveUp, SendWithdrawal, Transfer, Answer,
          Broadcast, Refused, MarkWithdrawalFailed, FailWithdrawalPayout, RecordWithdrawal,
          RecordPayout, MarkWithdrawalTransferred, MarkCompleted, SetWithdrawal, InWithdraw,
          Go, recordVars, agentVars, moneyVars, tableVars
    <3> QED BY <1>0, <1>t, <2>1, <3>1, OtherKeepsRouteInv
  <2> QED BY <1>1, <2>2, <2>3 DEF Withdrawing
<1>2. CASE Routing
  <2>1. CASE RoutingOutside
    <3>1. /\ UNCHANGED <<basis, beside, marked, routed, paidAt, kind, pc, sent>>
          /\ now' \in {now, now + 1}
      BY <2>1 DEF RoutingOutside, Settle, IntervalPasses, CheckTreasury, runVars, snapshotVars,
                  moneyVars
    <3> QED BY <1>0, <1>t, <3>1, OtherKeepsRouteInv
  <2> QED BY <1>0, <1>2, <2>1, StepKeepsRouteInv DEF Routing
<1>3. CASE Restart
  <2>1. /\ UNCHANGED <<basis, beside, marked, routed, paidAt, kind, sent, now>>
        /\ \A p \in Payer : pc'[p] \in {pc[p], "end"} /\ (pc[p] = "end" => pc'[p] = "end")
    BY <1>3 DEF Restart, routingVars, moneyVars, Active
  <2> QED BY <1>0, <1>t, <2>1, OtherKeepsRouteInv
<1>4. CASE UNCHANGED vars
  <2>1. UNCHANGED <<basis, beside, marked, routed, paidAt, kind, pc, sent, now>>
    BY <1>4 DEF vars, routingVars, moneyVars
  <2> QED BY <1>0, <1>t, <2>1, OtherKeepsRouteInv
<1> QED BY <1>1, <1>2, <1>3, <1>4 DEF Next

\* The creator is paid twice in an interval, by runs that left their marks, only
\* if the runs overlapped or a treasury check came between them: for any number of
\* runs, snapshots, intervals, faults and restarts.
THEOREM RoutedTwiceExplained == Spec => []DoubleRouteExplained
<1>1. Init => TypeInv /\ PlaceInv /\ RouteInv
  <2>1. Init => RouteInv
    BY RoutingConfig DEF Init, RecordInit, WithdrawalInit, RoutingInit, RouteInv, RunFacts, MarkFacts, Apart,
           Chosen, PastTransfer, Early
  <2> QED BY <2>1, InitTypeInv, InitPlaceInv
<1>2. TypeInv /\ PlaceInv /\ RouteInv /\ [Next]_vars => (TypeInv /\ PlaceInv /\ RouteInv)'
  BY NextTypeInv, NextPlaceInv, NextRouteInv
<1>3. TypeInv /\ RouteInv => DoubleRouteExplained
  <2> SUFFICES ASSUME TypeInv, RouteInv, NEW p \in marked, NEW q \in marked, p /= q,
                      paidAt[p] = paidAt[q], basis[p] = basis[q]
               PROVE  p \in beside[q] \/ q \in beside[p]
    BY DEF DoubleRouteExplained
  <2>1. p \in Payer /\ q \in Payer /\ paidAt[p] \in Nat /\ paidAt[q] \in Nat
    BY DEF TypeInv, TypeOK
  <2>2. Chosen(p) /\ Chosen(q) /\ p \in sent /\ q \in sent
    BY DEF RouteInv, MarkFacts
  <2>3. paidAt[p] > 0 /\ paidAt[q] > 0
    BY <2>1, <2>2 DEF RouteInv, RunFacts
  <2>4. ~Before(p, q) /\ ~Before(q, p)
    BY <2>1, <2>3 DEF Before
  <2> QED BY <2>1, <2>2, <2>4 DEF RouteInv, Apart
<1> QED
  BY <1>1, <1>2, <1>3, PTL DEF Spec

=============================================================================
