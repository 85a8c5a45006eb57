----------------------------- MODULE CctpRebalance -----------------------------
(***************************************************************************)
(* The treasury rebalance Base -> Sepolia over Circle CCTP                 *)
(* (apps/api/src/cctp).  A transfer is a row of cctp_rebalance_transfers   *)
(* whose status moves by compare-and-set; a process is one running call of *)
(* the service: the worker's single-flight cycle (resume, then tick) or an *)
(* HTTP route (force a rebalance, resume), which no lock keeps apart from  *)
(* the worker.  Every await of the code is a boundary between two actions, *)
(* so the processes interleave there.                                      *)
(*                                                                         *)
(* Around the service stand three systems it does not control: the Base    *)
(* chain (USDC balance, allowance, burns), Circle's Iris attestation       *)
(* service and the Sepolia chain (mints).  They are modelled from how the  *)
(* service uses them: a transaction that was sent may be mined, reverted or*)
(* stay unmined, and its receipt may come too late for the caller.         *)
(***************************************************************************)
EXTENDS CctpPolicy, FiniteSets

CONSTANTS
  Row,             \* identities of the transfers that can be created
  Worker,          \* the rebalance worker of the API process
  Route,           \* HTTP requests on /treasury/cctp/*, each served once
  NoRow,           \* "no row"
  InitialBase,     \* USDC in the Base treasury at the start
  UseForwarding,   \* config.useForwarding
  MintMaxAttempts, \* config.mintMaxAttempts
  Overrides,       \* amounts a forced rebalance may ask for
  Faults,          \* kinds of failure that may happen (see FaultKinds)
  MaxCrashes       \* bound: restarts of the API process

FaultKinds ==
  {"db",       \* a database call fails, before or after it took effect
   "base",     \* approving or burning fails on the Base side
   "receipt",  \* a transaction's receipt does not arrive in time
   "iris",     \* Iris does not answer although the attestation exists
   "gas",      \* the signer runs out of Sepolia gas
   "network",  \* a mint call fails before it is broadcast
   "drop"}     \* an unmined mint transaction vanishes or reverts

Proc == {Worker} \union Route

ASSUME RebalanceConfig ==
  /\ IsFiniteSet(Row)
  /\ IsFiniteSet(Route)
  /\ Worker \notin Route
  /\ NoRow \notin Row
  /\ InitialBase \in Nat
  /\ UseForwarding \in BOOLEAN
  /\ MintMaxAttempts \in Nat \ {0}
  /\ Overrides \subseteq Nat \ {0}
  /\ Faults \subseteq FaultKinds
  /\ MaxCrashes \in Nat

VARIABLES
  row,       \* the table: Row -> record
  recent,    \* rows whose burned_at is younger than the cooldown
  base,      \* USDC in the treasury on Base
  allowance, \* what the TokenMessenger may spend of it
  burn,      \* per row, its depositForBurn transaction
  attested,  \* rows whose burn Iris reports complete
  forward,   \* rows for which Iris reports a forwardTxHash
  mint,      \* rows whose message was received on Sepolia (nonce consumed)
  pool,      \* unmined receiveMessage transactions: Row -> set of senders
  loose,     \* rows with an unmined one that no process waits for
  sends,     \* receiveMessage transactions broadcast so far: Row -> Nat (history)
  pc, job,   \* per process: where it is, and in which call
  cur,       \* per process: the row it works on
  copy,      \* per process: the row objects it holds (resume list)
  seen,      \* per process: what evaluateAndMaybeStart has read
  receipt,   \* per process: receipt of the mint it waits for
  crashes    \* restarts so far

table  == <<row, recent>>
chain  == <<base, allowance, burn, attested, forward, mint, pool, loose, sends>>
locals == <<pc, job, cur, copy, seen, receipt>>
vars   == <<table, chain, locals, crashes>>

-----------------------------------------------------------------------------
(* Rows and statuses *)

Status == {"none", "pending", "approving", "burning", "awaiting_attestation",
           "minting", "minted", "failed", "stuck"}

InFlightStatuses  == Status \ {"none", "minted", "failed"}
\* Mutant: the resume worker forgets stuck rows.
ResumableWithoutStuck == {"awaiting_attestation", "minting"}

ResumableStatuses == {"awaiting_attestation", "minting", "stuck"}
TerminalStatuses  == {"minted", "failed"}

AllowedTransitions ==
  {<<"pending", "approving">>, <<"pending", "failed">>,
   <<"approving", "burning">>, <<"approving", "failed">>,
   <<"burning", "awaiting_attestation">>, <<"burning", "failed">>,
   <<"awaiting_attestation", "minting">>, <<"awaiting_attestation", "minted">>,
   <<"awaiting_attestation", "stuck">>, <<"awaiting_attestation", "failed">>,
   <<"minting", "minted">>, <<"minting", "stuck">>, <<"minting", "failed">>,
   <<"stuck", "awaiting_attestation">>, <<"stuck", "minting">>,
   <<"stuck", "minted">>, <<"stuck", "failed">>}

Mode == {"direct", "forwarding"}
Via  == {"none", "direct", "nonce_used", "forwarding"}

RowRecord ==
  [status : Status, hash : BOOLEAN, message : BOOLEAN, attempts : Nat,
   mode : Mode, amount : Nat, via : Via]

EmptyRow ==
  [status |-> "none", hash |-> FALSE, message |-> FALSE, attempts |-> 0,
   mode |-> "direct", amount |-> 0, via |-> "none"]

NewRow(amount, mode) ==
  [EmptyRow EXCEPT !.status = "pending", !.amount = amount, !.mode = mode]

InFlight  == {r \in Row : row[r].status \in InFlightStatuses}
Resumable == {r \in Row : row[r].status \in ResumableStatuses}

\* findLastSuccessfulBurnAt looks at minted rows only.
Cooling == \E r \in recent : row[r].status = "minted"

-----------------------------------------------------------------------------
(* Processes *)

Unread == [base |-> 0, inFlight |-> 0, cooling |-> FALSE, override |-> NoOverride]

Init ==
  /\ row = [r \in Row |-> EmptyRow]
  /\ recent = {}
  /\ base = InitialBase
  /\ allowance = 0
  /\ burn = [r \in Row |-> "none"]
  /\ attested = {}
  /\ forward = {}
  /\ mint = {}
  /\ pool = [r \in Row |-> {}]
  /\ loose = {}
  /\ sends = [r \in Row |-> 0]
  /\ pc = [p \in Proc |-> "idle"]
  /\ job = [p \in Proc |-> "none"]
  /\ cur = [p \in Proc |-> NoRow]
  /\ copy = [p \in Proc |-> [r \in Row |-> EmptyRow]]
  /\ seen = [p \in Proc |-> Unread]
  /\ receipt = [p \in Proc |-> "none"]
  /\ crashes = 0

Goto(p, place) == pc' = [pc EXCEPT ![p] = place]

\* The worker waits for its timer again; a request has had its answer.
Rest(p) == IF p = Worker THEN "idle" ELSE "answered"

\* The call ends.
Stop(p) ==
  /\ Goto(p, Rest(p))
  /\ job' = [job EXCEPT ![p] = "none"]
  /\ cur' = [cur EXCEPT ![p] = NoRow]
  /\ seen' = [seen EXCEPT ![p] = Unread]
  /\ UNCHANGED <<copy, receipt>>

\* advanceAttestationAndMint returns: resumeInFlight goes on with the next row.
Return(p) ==
  /\ Goto(p, "next")
  /\ cur' = [cur EXCEPT ![p] = NoRow]
  /\ copy' = [copy EXCEPT ![p][cur[p]] = EmptyRow]
  /\ receipt' = [receipt EXCEPT ![p] = "none"]
  /\ UNCHANGED <<job, seen>>

Stay(p, place) == Goto(p, place) /\ UNCHANGED <<job, cur, copy, seen, receipt>>

\* The call goes on with the row object `new` instead of the one it holds.
Hold(p, new, place) ==
  /\ Goto(p, place)
  /\ copy' = [copy EXCEPT ![p][cur[p]] = new]
  /\ UNCHANGED <<job, cur, seen, receipt>>

\* Mutant: the update is not conditional on the status.
TransitionUnchecked(r, from, new) == row' = [row EXCEPT ![r] = new]

\* repo.transition: the update applies only while the status is one expected.
Transition(r, from, new) ==
  /\ row[r].status \in from
  /\ row' = [row EXCEPT ![r] = new]

\* It returns an error: a conflict, or a database failure whose write may have
\* been committed all the same.
TransitionFails(r, from, new) ==
  \/ row[r].status \notin from /\ UNCHANGED row
  \/ "db" \in Faults /\ row[r].status \in from /\ row' \in {row, [row EXCEPT ![r] = new]}

-----------------------------------------------------------------------------
(* evaluateAndMaybeStart: read, decide, create *)

StartCycle ==
  /\ pc[Worker] = "idle"
  /\ pc' = [pc EXCEPT ![Worker] = "list"]
  /\ job' = [job EXCEPT ![Worker] = "cycle"]
  /\ UNCHANGED <<table, chain, cur, copy, seen, receipt, crashes>>

StartForce(p) ==
  /\ pc[p] = "idle"
  /\ Goto(p, "balances")
  /\ job' = [job EXCEPT ![p] = "force"]
  /\ \E amount \in Overrides \union {NoOverride} :
       seen' = [seen EXCEPT ![p].override = amount]
  /\ UNCHANGED <<table, chain, cur, copy, receipt, crashes>>

StartResume(p) ==
  /\ pc[p] = "idle"
  /\ Goto(p, "list")
  /\ job' = [job EXCEPT ![p] = "resume"]
  /\ UNCHANGED <<table, chain, cur, copy, seen, receipt, crashes>>

ReadBalances(p) ==
  /\ pc[p] = "balances"
  /\ Goto(p, "count")
  /\ seen' = [seen EXCEPT ![p].base = base]
  /\ UNCHANGED <<table, chain, job, cur, copy, receipt, crashes>>

CountInFlight(p) ==
  /\ pc[p] = "count"
  /\ Goto(p, "last_burn")
  /\ seen' = [seen EXCEPT ![p].inFlight = Cardinality(InFlight)]
  /\ UNCHANGED <<table, chain, job, cur, copy, receipt, crashes>>

\* A forced run reads the last burn too, but passes null to the policy.
ReadLastBurn(p) ==
  /\ pc[p] = "last_burn"
  /\ Goto(p, "decide")
  /\ seen' = [seen EXCEPT ![p].cooling = Cooling /\ job[p] /= "force"]
  /\ UNCHANGED <<table, chain, job, cur, copy, receipt, crashes>>

\* Balances, count and last burn come from a chain and a database that may not
\* answer; the call then ends with an error.
ReadFails(p) ==
  /\ pc[p] \in {"balances", "count", "last_burn"}
  /\ "db" \in Faults
  /\ Stop(p)
  /\ UNCHANGED <<table, chain, crashes>>

PolicyView(p, starved) ==
  [base |-> seen[p].base, inFlight |-> seen[p].inFlight,
   cooling |-> seen[p].cooling, starved |-> starved /\ job[p] /= "force"]

\* resolveMode, the desk-starvation probe and the gas balances are inputs.
PolicyAllows(p, mode, gas, starved) ==
  Eligible(PolicyView(p, starved), gas, mode, seen[p].override)

Modes == IF UseForwarding THEN Mode ELSE {"direct"}

Gas == SUBSET {"base", "sepolia"}

Skip(p) ==
  /\ pc[p] = "decide"
  /\ \E mode \in Modes, gas \in Gas, starved \in BOOLEAN :
       ~PolicyAllows(p, mode, gas, starved)
  /\ Stop(p)
  /\ UNCHANGED <<table, chain, crashes>>

\* repo.create inserts the row of a transfer the policy allows.
Insert(p, r) ==
  \E mode \in Modes, gas \in Gas, starved \in BOOLEAN :
    /\ PolicyAllows(p, mode, gas, starved)
    /\ row[r].status = "none"
    /\ row' = [row EXCEPT ![r] =
                 NewRow(BurnAmount(seen[p].base, seen[p].override), mode)]

Create(p) ==
  /\ pc[p] = "decide"
  /\ \E r \in Row : Insert(p, r) /\ cur' = [cur EXCEPT ![p] = r]
  /\ Goto(p, "begin")
  /\ UNCHANGED <<recent, chain, job, copy, seen, receipt, crashes>>

\* The insert is reported as an error although it may have been committed (the
\* call that ends with no row at all is covered by Skip).
CreateFails(p) ==
  /\ pc[p] = "decide"
  /\ "db" \in Faults
  /\ \E r \in Row : Insert(p, r)
  /\ Stop(p)
  /\ UNCHANGED <<recent, chain, crashes>>

-----------------------------------------------------------------------------
(* startTransfer: approve and burn on Base *)

Coverage(r) == row[r].amount + MaxFee

Begin(p) ==
  LET r   == cur[p]
      new == [row[r] EXCEPT !.status = "approving"]
  IN  /\ pc[p] = "begin"
      /\ \/ Transition(r, {"pending"}, new) /\ Stay(p, "allowance")
         \/ TransitionFails(r, {"pending"}, new) /\ Stop(p)
      /\ UNCHANGED <<recent, chain, crashes>>

ReadAllowance(p) ==
  /\ pc[p] = "allowance"
  /\ \/ Stay(p, IF allowance < Coverage(cur[p]) THEN "approve" ELSE "to_burning")
     \/ "base" \in Faults /\ Stay(p, "fail_start")
  /\ UNCHANGED <<table, chain, crashes>>

\* The approval is mined, or the call throws and it was mined or not.
Approve(p) ==
  /\ pc[p] = "approve"
  /\ \/ allowance' = Coverage(cur[p]) /\ Stay(p, "to_burning")
     \/ /\ "base" \in Faults
        /\ allowance' \in {allowance, Coverage(cur[p])}
        /\ Stay(p, "fail_start")
  /\ UNCHANGED <<table, base, burn, attested, forward, mint, pool, loose, sends, crashes>>

ToBurning(p) ==
  LET r   == cur[p]
      new == [row[r] EXCEPT !.status = "burning"]
  IN  /\ pc[p] = "to_burning"
      /\ \/ Transition(r, {"approving"}, new) /\ Stay(p, "burn")
         \/ TransitionFails(r, {"approving"}, new) /\ Stop(p)
      /\ UNCHANGED <<recent, chain, crashes>>

SendBurn(p) ==
  /\ pc[p] = "burn"
  /\ burn' = [burn EXCEPT ![cur[p]] = "sent"]
  /\ Stay(p, "burn_receipt")
  /\ UNCHANGED <<table, base, allowance, attested, forward, mint, pool, loose, sends, crashes>>

BurnNotSent(p) ==
  /\ pc[p] = "burn"
  /\ "base" \in Faults
  /\ Stay(p, "fail_start")
  /\ UNCHANGED <<table, chain, crashes>>

\* Mutant: does not wait for the burn's receipt.
BurnConfirmedWhenSent(p) ==
  /\ pc[p] = "burn_receipt"
  /\ burn[cur[p]] \in {"sent", "done"}
  /\ Stay(p, "record_burn")
  /\ UNCHANGED <<table, chain, crashes>>

BurnConfirmed(p) ==
  /\ pc[p] = "burn_receipt"
  /\ burn[cur[p]] = "done"
  /\ Stay(p, "record_burn")
  /\ UNCHANGED <<table, chain, crashes>>

\* depositForBurn throws although a transaction was broadcast: it reverted, or
\* no receipt came within RECEIPT_TIMEOUT_MS.
BurnThrows(p) ==
  /\ pc[p] = "burn_receipt"
  /\ burn[cur[p]] = "reverted" \/ "receipt" \in Faults
  /\ Stay(p, "fail_start")
  /\ UNCHANGED <<table, chain, crashes>>

\* A failed update after the burn is logged ("burn_transition_failed_after_tx")
\* and the call returns: the row stays burning without its hash.
RecordBurn(p) ==
  LET r   == cur[p]
      new == [row[r] EXCEPT !.status = "awaiting_attestation", !.hash = TRUE]
  IN  /\ pc[p] = "record_burn"
      /\ \/ Transition(r, {"burning"}, new)
         \/ TransitionFails(r, {"burning"}, new)
      /\ recent' = IF row'[r].hash THEN recent \union {r} ELSE recent
      /\ Stop(p)
      /\ UNCHANGED <<chain, crashes>>

FailStart(p) ==
  LET r    == cur[p]
      new  == [row[r] EXCEPT !.status = "failed"]
      from == {"approving", "burning"}
  IN  /\ pc[p] = "fail_start"
      /\ Transition(r, from, new) \/ TransitionFails(r, from, new)
      /\ Stop(p)
      /\ UNCHANGED <<recent, chain, crashes>>

-----------------------------------------------------------------------------
(* resumeInFlight *)

List(p) ==
  /\ pc[p] = "list"
  /\ Goto(p, "next")
  /\ \/ copy' = [copy EXCEPT ![p] =
                   [r \in Row |-> IF r \in Resumable THEN row[r] ELSE EmptyRow]]
     \/ "db" \in Faults /\ UNCHANGED copy
  /\ UNCHANGED <<table, chain, job, cur, seen, receipt, crashes>>

\* The worker's cycle continues with tick(); a route answers.
EndResume(p) ==
  /\ pc[p] = "next"
  /\ \A r \in Row : copy[p][r] = EmptyRow
  /\ IF job[p] = "cycle"
       THEN /\ Goto(p, "balances")
            /\ job' = [job EXCEPT ![p] = "tick"]
            /\ UNCHANGED <<cur, copy, seen, receipt>>
       ELSE Stop(p)
  /\ UNCHANGED <<table, chain, crashes>>

\* advanceAttestationAndMint starts from the listed row object, however old.
\* Stored message and attestation make it skip Iris.
PlaceFor(r) ==
  CASE r.status = "stuck"   -> "unstick"
    [] r.status = "minting" -> "send_mint"
    [] r.message            -> "to_minting"
    [] OTHER                -> "poll"

NextRow(p) ==
  /\ pc[p] = "next"
  /\ \E r \in Row :
       /\ copy[p][r] /= EmptyRow
       /\ cur' = [cur EXCEPT ![p] = r]
       /\ Goto(p, PlaceFor(copy[p][r]))
  /\ UNCHANGED <<table, chain, job, copy, seen, receipt, crashes>>

Unstick(p) ==
  LET r   == cur[p]
      new == [row[r] EXCEPT !.status = "awaiting_attestation"]
  IN  /\ pc[p] = "unstick"
      /\ \/ Transition(r, {"stuck"}, new) /\ Hold(p, new, PlaceFor(new))
         \/ TransitionFails(r, {"stuck"}, new) /\ Return(p)
      /\ UNCHANGED <<recent, chain, crashes>>

\* Iris is asked until it shows a forwarded mint or a complete message, or
\* until the poll times out; an error on the way is retried.
ForwardedHere(p) == copy[p][cur[p]].mode = "forwarding" /\ cur[p] \in forward

PollForwarded(p) ==
  /\ pc[p] = "poll"
  /\ ForwardedHere(p)
  /\ Stay(p, "accept_forward")
  /\ UNCHANGED <<table, chain, crashes>>

\* Mutant: takes any Iris answer for a complete one.
PollAnyMessage(p) ==
  /\ pc[p] = "poll"
  /\ ~ForwardedHere(p)
  /\ Stay(p, "to_minting")
  /\ UNCHANGED <<table, chain, crashes>>

PollComplete(p) ==
  /\ pc[p] = "poll"
  /\ cur[p] \in attested
  /\ ~ForwardedHere(p)
  /\ Stay(p, "to_minting")
  /\ UNCHANGED <<table, chain, crashes>>

PollTimeout(p) ==
  /\ pc[p] = "poll"
  /\ cur[p] \notin attested \/ "iris" \in Faults
  /\ Stay(p, "mark_stuck")
  /\ UNCHANGED <<table, chain, crashes>>

MarkStuck(p) ==
  LET r    == cur[p]
      new  == [row[r] EXCEPT !.status = "stuck"]
      from == {"awaiting_attestation"}
  IN  /\ pc[p] = "mark_stuck"
      /\ Transition(r, from, new) \/ TransitionFails(r, from, new)
      /\ Return(p)
      /\ UNCHANGED <<recent, chain, crashes>>

\* verifyMintTransfer is called, but its answer only reaches the metadata.
AcceptForward(p) ==
  LET r    == cur[p]
      new  == [row[r] EXCEPT !.status = "minted", !.via = "forwarding",
                             !.message = @ \/ r \in attested]
      from == {"awaiting_attestation"}
  IN  /\ pc[p] = "accept_forward"
      /\ Transition(r, from, new) \/ TransitionFails(r, from, new)
      /\ Return(p)
      /\ UNCHANGED <<recent, chain, crashes>>

ToMinting(p) ==
  LET r    == cur[p]
      new  == [row[r] EXCEPT !.status = "minting", !.message = TRUE]
      from == {"awaiting_attestation", "stuck"}
  IN  /\ pc[p] = "to_minting"
      /\ \/ Transition(r, from, new) /\ Hold(p, new, "send_mint")
         \/ TransitionFails(r, from, new) /\ Stay(p, "reread")
      /\ UNCHANGED <<recent, chain, crashes>>

\* "Maybe already minting": somebody else moved the row there.
Reread(p) ==
  /\ pc[p] = "reread"
  /\ \/ row[cur[p]].status = "minting" /\ Hold(p, row[cur[p]], "send_mint")
     \/ (row[cur[p]].status /= "minting" \/ "db" \in Faults) /\ Return(p)
  /\ UNCHANGED <<table, chain, crashes>>

-----------------------------------------------------------------------------
(* completeDirectMint: receiveMessage on Sepolia *)

\* The number of this attempt, counted from the row object held.
Attempt(p) == copy[p][cur[p]].attempts + 1

\* What happens to the row after receiveMessage threw.
PlaceAfterError(p, retryable) ==
  IF retryable /\ Attempt(p) < MintMaxAttempts THEN "retry_later" ELSE "fail_mint"

SendMint(p) ==
  /\ pc[p] = "send_mint"
  /\ pool' = [pool EXCEPT ![cur[p]] = @ \union {p}]
  /\ sends' = [sends EXCEPT ![cur[p]] = @ + 1]
  /\ Stay(p, "mint_receipt")
  /\ UNCHANGED <<table, base, allowance, burn, attested, forward, mint, loose, crashes>>

\* The call throws before a transaction is out.  The signer's node may refuse
\* it by simulation when the nonce is consumed ("nonce already used").
MintNotSent(p) ==
  /\ pc[p] = "send_mint"
  /\ \/ cur[p] \in mint /\ Stay(p, "treat_as_minted")
     \/ "gas" \in Faults /\ Stay(p, PlaceAfterError(p, FALSE))
     \/ "network" \in Faults /\ Stay(p, PlaceAfterError(p, TRUE))
  /\ UNCHANGED <<table, chain, crashes>>

MintConfirmed(p) ==
  /\ pc[p] = "mint_receipt"
  /\ receipt[p] = "ok"
  /\ Stay(p, "record_mint")
  /\ UNCHANGED <<table, chain, crashes>>

MintReverted(p) ==
  /\ pc[p] = "mint_receipt"
  /\ receipt[p] = "reverted"
  /\ Stay(p, PlaceAfterError(p, TRUE))
  /\ UNCHANGED <<table, chain, crashes>>

\* Mutant: a broadcast mint counts as minted.
MintTimeoutAsSuccess(p) ==
  /\ pc[p] = "mint_receipt"
  /\ "receipt" \in Faults
  /\ Stay(p, "record_mint")
  /\ pool' = [pool EXCEPT ![cur[p]] = @ \ {p}]
  /\ loose' = IF p \in pool[cur[p]] THEN loose \union {cur[p]} ELSE loose
  /\ UNCHANGED <<table, base, allowance, burn, attested, forward, mint, sends, crashes>>

\* No receipt in time: the transaction is left behind and may still be mined.
MintTimesOut(p) ==
  /\ pc[p] = "mint_receipt"
  /\ "receipt" \in Faults
  /\ Stay(p, PlaceAfterError(p, TRUE))
  /\ pool' = [pool EXCEPT ![cur[p]] = @ \ {p}]
  /\ loose' = IF p \in pool[cur[p]] THEN loose \union {cur[p]} ELSE loose
  /\ UNCHANGED <<table, base, allowance, burn, attested, forward, mint, sends, crashes>>

RecordMint(p) ==
  LET r   == cur[p]
      new == [row[r] EXCEPT !.status = "minted", !.via = "direct",
                            !.attempts = Attempt(p)]
  IN  /\ pc[p] = "record_mint"
      /\ Transition(r, {"minting"}, new) \/ TransitionFails(r, {"minting"}, new)
      /\ Return(p)
      /\ UNCHANGED <<recent, chain, crashes>>

TreatAsMinted(p) ==
  LET r   == cur[p]
      new == [row[r] EXCEPT !.status = "minted", !.via = "nonce_used",
                            !.attempts = Attempt(p)]
  IN  /\ pc[p] = "treat_as_minted"
      /\ \/ Transition(r, {"minting"}, new) /\ Return(p)
         \/ TransitionFails(r, {"minting"}, new) /\ Stay(p, "fail_mint")
      /\ UNCHANGED <<recent, chain, crashes>>

\* failRow does not write attempt_count.
FailMint(p) ==
  LET r   == cur[p]
      new == [row[r] EXCEPT !.status = "failed"]
  IN  /\ pc[p] = "fail_mint"
      /\ Transition(r, {"minting"}, new) \/ TransitionFails(r, {"minting"}, new)
      /\ Return(p)
      /\ UNCHANGED <<recent, chain, crashes>>

\* Mutant: a failed attempt is not counted.
RetryLaterUncounted(p) ==
  LET r   == cur[p]
      new == [row[r] EXCEPT !.status = "stuck"]
  IN  /\ pc[p] = "retry_later"
      /\ Transition(r, {"minting"}, new) \/ TransitionFails(r, {"minting"}, new)
      /\ Return(p)
      /\ UNCHANGED <<recent, chain, crashes>>

RetryLater(p) ==
  LET r   == cur[p]
      new == [row[r] EXCEPT !.status = "stuck", !.attempts = Attempt(p)]
  IN  /\ pc[p] = "retry_later"
      /\ Transition(r, {"minting"}, new) \/ TransitionFails(r, {"minting"}, new)
      /\ Return(p)
      /\ UNCHANGED <<recent, chain, crashes>>

-----------------------------------------------------------------------------
(* The chains and Iris *)

MineBurn(r) ==
  /\ burn[r] = "sent"
  /\ \/ /\ row[r].amount <= base
        /\ row[r].amount <= allowance
        /\ burn' = [burn EXCEPT ![r] = "done"]
        /\ base' = base - row[r].amount
        /\ allowance' = allowance - row[r].amount
     \/ /\ row[r].amount > base \/ row[r].amount > allowance \/ "base" \in Faults
        /\ burn' = [burn EXCEPT ![r] = "reverted"]
        /\ UNCHANGED <<base, allowance>>
  /\ UNCHANGED <<table, attested, forward, mint, pool, loose, sends, locals, crashes>>

Attest(r) ==
  /\ burn[r] = "done"
  /\ r \notin attested
  /\ attested' = attested \union {r}
  /\ UNCHANGED <<table, base, allowance, burn, forward, mint, pool, loose, sends, locals, crashes>>

\* Circle's forwarding service submits the mint itself and Iris shows its hash.
Forward(r) ==
  /\ row[r].mode = "forwarding"
  /\ burn[r] = "done"
  /\ r \notin forward
  /\ forward' = forward \union {r}
  /\ loose' = loose \union {r}
  /\ UNCHANGED <<table, base, allowance, burn, attested, mint, pool, sends, locals, crashes>>

\* The message transmitter accepts a message once: later copies revert.
MineMint(r, p) ==
  /\ p \in pool[r]
  /\ pool' = [pool EXCEPT ![r] = @ \ {p}]
  /\ \/ /\ r \notin mint
        /\ mint' = mint \union {r}
        /\ receipt' = [receipt EXCEPT ![p] = "ok"]
     \/ /\ r \in mint \/ "drop" \in Faults
        /\ UNCHANGED mint
        /\ receipt' = [receipt EXCEPT ![p] = "reverted"]
  /\ UNCHANGED <<table, base, allowance, burn, attested, forward, loose, sends,
                 pc, job, cur, copy, seen, crashes>>

MineLoose(r) ==
  /\ r \in loose
  /\ loose' = loose \ {r}
  /\ mint' = mint \union {r} \/ ("drop" \in Faults /\ UNCHANGED mint)
  /\ UNCHANGED <<table, base, allowance, burn, attested, forward, pool, sends, locals, crashes>>

CooldownElapses(r) ==
  /\ r \in recent
  /\ recent' = recent \ {r}
  /\ UNCHANGED <<row, chain, locals, crashes>>

\* The API process dies; the table and the chains go on.
Crash ==
  /\ crashes < MaxCrashes
  /\ crashes' = crashes + 1
  /\ pc' = [p \in Proc |-> IF pc[p] = "idle" THEN "idle" ELSE Rest(p)]
  /\ job' = [p \in Proc |-> "none"]
  /\ cur' = [p \in Proc |-> NoRow]
  /\ copy' = [p \in Proc |-> [r \in Row |-> EmptyRow]]
  /\ seen' = [p \in Proc |-> Unread]
  /\ receipt' = [p \in Proc |-> "none"]
  /\ pool' = [r \in Row |-> {}]
  /\ loose' = loose \union {r \in Row : pool[r] /= {}}
  /\ UNCHANGED <<table, base, allowance, burn, attested, forward, mint, sends>>

-----------------------------------------------------------------------------

StartStep(p) ==
  \/ ReadBalances(p) \/ CountInFlight(p) \/ ReadLastBurn(p) \/ ReadFails(p)
  \/ Skip(p) \/ Create(p) \/ CreateFails(p)
  \/ Begin(p) \/ ReadAllowance(p) \/ Approve(p) \/ ToBurning(p)
  \/ SendBurn(p) \/ BurnNotSent(p) \/ BurnConfirmed(p) \/ BurnThrows(p)
  \/ RecordBurn(p) \/ FailStart(p)

ResumeStep(p) ==
  \/ List(p) \/ EndResume(p) \/ NextRow(p) \/ Unstick(p)
  \/ PollForwarded(p) \/ PollComplete(p) \/ PollTimeout(p)
  \/ MarkStuck(p) \/ AcceptForward(p) \/ ToMinting(p) \/ Reread(p)

MintStep(p) ==
  \/ SendMint(p) \/ MintNotSent(p)
  \/ MintConfirmed(p) \/ MintReverted(p) \/ MintTimesOut(p)
  \/ RecordMint(p) \/ TreatAsMinted(p) \/ FailMint(p) \/ RetryLater(p)

ProcessStep(p) == StartStep(p) \/ ResumeStep(p) \/ MintStep(p)

ChainStep(r) ==
  \/ MineBurn(r) \/ Attest(r) \/ Forward(r) \/ MineLoose(r)
  \/ \E p \in Proc : MineMint(r, p)

Next ==
  \/ StartCycle
  \/ \E p \in Route : StartForce(p) \/ StartResume(p)
  \/ \E p \in Proc : ProcessStep(p)
  \/ \E r \in Row : ChainStep(r) \/ CooldownElapses(r)
  \/ Crash

Spec == Init /\ [][Next]_vars

\* The worker's timer keeps firing and its calls return; sent transactions are
\* decided, and Iris ends by attesting a burn.  Routes owe nothing.
Fairness ==
  /\ WF_vars(StartCycle)
  /\ WF_vars(ProcessStep(Worker))
  /\ \A r \in Row :
       /\ WF_vars(MineBurn(r))
       /\ WF_vars(Attest(r))
       /\ WF_vars(MineLoose(r))
       /\ WF_vars(\E p \in Proc : MineMint(r, p))

FairSpec == Spec /\ Fairness

=============================================================================
