---------------------------- MODULE CctpProperties ----------------------------
(***************************************************************************)
(* What makes the treasury rebalance correct.                              *)
(***************************************************************************)
EXTENDS CctpRebalance

\* Places where a process works on the transfer it created ...
StartPlaces ==
  {"begin", "allowance", "approve", "to_burning", "burn", "burn_receipt",
   "record_burn", "fail_start"}

\* ... or on a row of its resume list ...
PollPlaces ==
  {"unstick", "poll", "accept_forward", "mark_stuck", "to_minting", "reread"}

\* ... or mints that row.
MintPlaces ==
  {"send_mint", "mint_receipt", "record_mint", "treat_as_minted", "fail_mint",
   "retry_later"}

RowPlaces == StartPlaces \union PollPlaces \union MintPlaces

Locations ==
  {"idle", "answered", "balances", "count", "last_burn", "decide", "list", "next"}
    \union RowPlaces

Readings == [base : Nat, inFlight : Nat, cooling : BOOLEAN, override : Nat]

TableOK ==
  /\ row \in [Row -> RowRecord]
  /\ recent \subseteq Row

ChainOK ==
  /\ base \in Nat
  /\ allowance \in Nat
  /\ burn \in [Row -> {"none", "sent", "done", "reverted"}]
  /\ attested \subseteq Row
  /\ forward \subseteq Row
  /\ mint \subseteq Row
  /\ pool \in [Row -> SUBSET Proc]
  /\ loose \subseteq Row
  /\ sends \in [Row -> Nat]

LocalsOK ==
  /\ pc \in [Proc -> Locations]
  /\ job \in [Proc -> {"none", "cycle", "tick", "force", "resume"}]
  /\ cur \in [Proc -> Row \union {NoRow}]
  /\ copy \in [Proc -> [Row -> RowRecord]]
  /\ seen \in [Proc -> Readings]
  /\ receipt \in [Proc -> {"none", "ok", "reverted"}]
  /\ \A p \in Proc : pc[p] \in RowPlaces => cur[p] \in Row

\* The type invariant.  Its last part of LocalsOK: a process at a step on a row
\* has one; and amounts, balance and attempts never go below zero.
TypeOK == TableOK /\ ChainOK /\ LocalsOK /\ crashes \in Nat

-----------------------------------------------------------------------------
(* Safety *)

\* countInFlight and create are two awaits: every caller that may start a
\* transfer can act on one stale count, so the limit of CCTP_MAX_IN_FLIGHT is
\* exceeded by at most the number of concurrent requests, and never by the
\* worker alone.
InFlightBounded == Cardinality(InFlight) <= MaxInFlight + Cardinality(Route)

\* A row past burning carries the hash of a burn that is on chain, whatever
\* receipts were late, calls failed or restarts happened (startTransfer).
RecordedBurnHappened ==
  \A r \in Row :
    row[r].status \in ResumableStatuses \union {"minted"}
      => row[r].hash /\ burn[r] = "done"

\* A direct mint is recorded only when Sepolia really accepted the message:
\* late receipts, retries with an old row object and a second resumer racing
\* on the same row never make completeDirectMint say "minted" too early.
MintedOnChain ==
  \A r \in Row :
    row[r].status = "minted" /\ row[r].via \in {"direct", "nonce_used"} => r \in mint

\* completeDirectMint always has what it needs: a minting row, and every row
\* object a process is about to mint from, holds the stored message of a burn
\* Iris attested (its branch "Missing message_bytes" is never taken).
MintInputsComplete ==
  /\ \A r \in Row : row[r].status = "minting" => row[r].message
  /\ \A r \in Row : row[r].message => r \in attested
  /\ \A p \in Proc : pc[p] \in {"send_mint", "mint_receipt"} => copy[p][cur[p]].message

\* A burn nobody will record: mined, its hash in no row, no process on it.
OrphanBurn(r) ==
  burn[r] = "done" /\ ~row[r].hash /\ \A p \in Proc : cur[p] /= r

\* The Base treasury sinks below its safety buffer (or below where it stood at
\* first) by no more than one chunk for each HTTP request, which acts on a
\* balance read before other burns, and one for each burn that landed after its
\* call had given up on it.  The worker's own readings never go stale otherwise:
\* with no request and no such burn the buffer holds.
BreachIsBounded ==
  base + (Cardinality(Route) + Cardinality({r \in Row : OrphanBurn(r)})) * MaxChunk
    >= Smaller(BaseSafetyBuffer, InitialBase)

\* CCTP_MINT_MAX_ATTEMPTS is the "max mint retries before failed".  attempt_count
\* is written when an attempt has ended, as the number in the row object held plus
\* one: an old object sets it back, and a restart forgets the attempt under way.
\* While the database answers, the signer pays all the same for no more than one
\* round of mints, one more for each HTTP request, and one mint for each restart.
MintsBounded ==
  "db" \notin Faults =>
    \A r \in Row : sends[r] <= MintMaxAttempts * (1 + Cardinality(Route)) + crashes

\* Rows move along CCTP_ALLOWED_TRANSITIONS only, whoever holds an old row
\* object; a minted or failed row is never written again (repo.transition).
LegalTransitions ==
  [][\A r \in Row :
       row'[r] /= row[r] =>
         \/ row[r].status = "none"
         \/ <<row[r].status, row'[r].status>> \in AllowedTransitions]_vars

-----------------------------------------------------------------------------
(* Refinement: each row keeps the promise of CctpTransfer.  A row closed by *)
(* accepting Circle's forwardTxHash counts as still moving: the code does   *)
(* not make its outcome depend on verifying that mint.                      *)

ClaimOf(r) ==
  CASE row[r].status = "none"                                -> "none"
    [] row[r].status \in {"pending", "approving", "burning"} -> "open"
    [] row[r].status \in ResumableStatuses                   -> "moving"
    [] row[r].status = "failed"                              -> "closed"
    [] row[r].status = "minted" ->
         IF row[r].via = "forwarding" THEN "moving" ELSE "delivered"

Promise == INSTANCE CctpTransfer WITH
  Transfer <- Row,
  claim    <- [r \in Row |-> ClaimOf(r)],
  left     <- {r \in Row : burn[r] = "done"},
  arrived  <- mint

\* The service implements the promise of one transfer, for every row at once.
KeepsPromise == Promise!TransferSpec

-----------------------------------------------------------------------------
(* Liveness *)

\* A row the resume worker may advance is finished in the end: attestation
\* timeouts, lost receipts and restarts only delay it.
ResumableSettles ==
  \A r \in Row :
    row[r].status \in ResumableStatuses ~> row[r].status \in TerminalStatuses

=============================================================================
