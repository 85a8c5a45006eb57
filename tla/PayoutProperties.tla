---------------------------- MODULE PayoutProperties ----------------------------
(***************************************************************************)
(* What makes payouts correct, and what a comment claims of routing.       *)
(***************************************************************************)
EXTENDS Payouts

Place == {"idle", "nonce", "affiliate", "balance", "create", "processing", "insert",
          "give_up", "transfer", "answer", "mark_failed", "fail_payout", "registry",
          "mark_transferred", "mark_completed", "aggregates", "snapshot", "find",
          "find_again", "mark_snapshot", "end"}

\* The type invariant.
TypeOK ==
  /\ kind \in [Payer -> {"none", "withdrawal", "routing"}]
  /\ pc \in [Payer -> Place]
  /\ payout \in [Payer -> PayoutStatus]
  /\ sent \subseteq Payer /\ unknown \subseteq Payer /\ recorded \subseteq Payer
  /\ faults \in 0 .. MaxFaults
  /\ withdrawal \in [Payer -> WithdrawalStatus]
  /\ nonces \subseteq Signature
  /\ signed \in [Payer -> Signature \union {NoSignature}]
  /\ ok \subseteq Payer /\ stale \subseteq Payer /\ blind \subseteq Payer
  /\ stage \in [Job -> AgentStage]
  /\ authority \in [Job -> Signature \union {NoSignature}]
  /\ owner \in [Payer -> Job \union {NoJob}]
  /\ asked \in [Job -> SUBSET Payer]
  /\ reply \in [Job -> Reply]
  /\ now \in 1 .. MaxInterval /\ revenue \in 0 .. MaxRevenue
  /\ balance \in [Snapshot -> Nat]
  /\ routed \in [Snapshot -> 0 .. MaxInterval]
  /\ latest \in Snapshot \union {NoSnapshot} /\ taken \subseteq Snapshot
  /\ scheduled \subseteq Payer /\ marked \subseteq Payer
  /\ basis \in [Payer -> Snapshot \union {NoSnapshot}]
  /\ seen \in [Payer -> 0 .. MaxRevenue] /\ amount \in [Payer -> 0 .. MaxRevenue]
  /\ paidAt \in [Payer -> 0 .. MaxInterval]
  /\ beside \in [Payer -> SUBSET Payer]
  /\ \A p \in Payer : kind[p] = "withdrawal" /\ Active(p) => signed[p] \in Signature

-----------------------------------------------------------------------------
(* Withdrawals *)

\* A signature is good for one withdrawal ("Withdrawal authorization nonce was
\* already used", affiliate-withdrawal-service.ts:113): however often the model
\* calls the tool, its fallback calls it again, two jobs carry the same
\* authorization, or an insert of the nonce is reported as an error.
OneWithdrawalPerSignature ==
  \A p, q \in Payer :
    withdrawal[p] /= "none" /\ withdrawal[q] /= "none" /\ signed[p] = signed[q] => p = q

\* More is paid than was earned only by withdrawals that were inserted on a
\* balance another one had taken from since, that could not read what is
\* reserved, or that were released although their transfer was broadcast
\* (affiliate-withdrawal-service.ts:123, 131, 194); without them earnings suffice.
Excused == stale \union blind \union unknown
PaidUnexcused == {p \in sent : kind[p] = "withdrawal" /\ p \notin Excused}
OverdraftExplained == Cardinality(PaidUnexcused) <= Earned

\* What the fallback tells the affiliate (affiliate-agent-service.ts:510, 518):
\* "I executed a payout" is said of a broadcast transfer, and "I did not complete
\* an on-chain transfer" hides one only if an earlier call with the same
\* signature made it, or its answer was lost.
ReplyTellsTruth ==
  \A j \in Job :
    /\ reply[j] = "paid" => asked[j] \subseteq sent
    /\ reply[j] = "refused" => asked[j] \intersect sent \subseteq unknown

-----------------------------------------------------------------------------
(* The table of payouts, routing *)

\* A payout the table shows as transferred was broadcast and is on the registry,
\* although every update of it is by id and its result is ignored.
TransferredIsPaid ==
  \A p \in Payer : payout[p] = "transferred" => p \in sent \intersect recorded

\* Two payouts to the creator in one interval, each noted on its snapshot: then
\* the two runs overlapped, or a treasury check came between them, whose snapshot
\* does not know of the first (revenue-routing-service.ts:284, 556).
DoubleRouteExplained ==
  \A p, q \in marked :
    /\ p /= q
    /\ paidAt[p] = paidAt[q]
    => p \in beside[q] \/ q \in beside[p] \/ basis[p] /= basis[q]

-----------------------------------------------------------------------------
(* The claim of a comment that the code does not keep *)

\* revenue-routing-service.ts:262 "Aggregate revenue since last routing": what
\* one run has paid out is not paid out by the next one.
RevenueRoutedOnce ==
  \A p, q \in marked : p /= q => amount[p] + amount[q] <= revenue

=============================================================================
