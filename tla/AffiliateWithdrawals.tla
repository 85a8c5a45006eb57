-------------------------- MODULE AffiliateWithdrawals --------------------------
(***************************************************************************)
(* An affiliate withdraws what it has earned.  It signs an authorization   *)
(* (a wallet, an amount and a nonce) and sends it with a chat message to   *)
(* the affiliate agent (services/affiliate-agent-service), which starts a  *)
(* job: a language model that may call withdraw any number of times and,   *)
(* if the model fails or runs out of time, a fallback that plans one call  *)
(* from the words of the message.  Nothing stops a call the model made     *)
(* before its time ran out.                                                *)
(*                                                                         *)
(* withdraw (services/affiliate-withdrawal-service) spends the nonce, adds *)
(* up what is earned and what is reserved, inserts a withdrawal, pays and  *)
(* closes it.  There is one wallet here, balances being separate, and every *)
(* withdrawal asks for one unit.                                           *)
(***************************************************************************)
EXTENDS PayoutRecords

CONSTANTS
  Signature,    \* authorizations the wallet has signed
  NoSignature,  \* "no authorization"
  Job,          \* jobs of the affiliate agent
  NoJob,        \* "no job"
  Earned        \* what the wallet has earned

ASSUME WithdrawalConfig ==
  /\ NoSignature \notin Signature
  /\ NoJob \notin Job
  /\ Earned \in Nat

VARIABLES
  withdrawal,  \* the table affiliate_withdrawals: status per payer
  nonces,      \* the table affiliate_withdrawal_nonces
  signed,      \* per payer: the authorization it was called with
  ok,          \* payers that answered ok: true
  stage,       \* per job: where the agent is
  authority,   \* per job: the authorization of its request
  owner,       \* per payer: the job that called
  asked,       \* per job: the call its fallback waits for
  reply,       \* per job: what the fallback told the affiliate
  stale,       \* ghost: payers that inserted on a balance read before another insert
  blind        \* ghost: payers that could not read what is reserved

withdrawalVars ==
  <<withdrawal, nonces, signed, ok, stage, authority, owner, asked, reply, stale, blind>>

WithdrawalStatus == {"none", "pending", "processing", "completed", "failed"}
AgentStage == {"idle", "llm", "fallback", "reply", "done"}
Reply == {"none", "paid", "refused"}

WithdrawalInit ==
  /\ withdrawal = [p \in Payer |-> "none"]
  /\ nonces = {}
  /\ signed = [p \in Payer |-> NoSignature]
  /\ ok = {}
  /\ stage = [j \in Job |-> "idle"]
  /\ authority = [j \in Job |-> NoSignature]
  /\ owner = [p \in Payer |-> NoJob]
  /\ asked = [j \in Job |-> {}]
  /\ reply = [j \in Job |-> "none"]
  /\ stale = {}
  /\ blind = {}

-----------------------------------------------------------------------------
(* The balance *)

\* Mutant: a withdrawal that is being paid is not counted.
ReservedStatusPending == {"pending", "completed"}

\* sumReservedOrPaid
ReservedStatus == {"pending", "processing", "completed"}

Reserved == {p \in Payer : withdrawal[p] \in ReservedStatus}

\* getAvailableBalanceUsdc; a sum that cannot be read counts as nothing.
Available == Earned - Cardinality(Reserved)

\* Another call stands between its balance check and its insert.
Overtaken(p) == {q \in Payer \ {p} : kind[q] = "withdrawal" /\ pc[q] = "create"}

-----------------------------------------------------------------------------
(* The agent *)

agentVars == <<stage, authority, owner, asked, reply>>
tableVars == <<withdrawal, nonces, signed, ok, stale, blind>>

\* startChatJob, with an authorization that may have been used before.
StartJob(j, s) ==
  /\ stage[j] = "idle"
  /\ stage' = [stage EXCEPT ![j] = "llm"]
  /\ authority' = [authority EXCEPT ![j] = s]
  /\ UNCHANGED <<kind, pc, recordVars, moneyVars, faults, tableVars, owner, asked, reply>>

\* executeTool("withdraw_usdc"): withdraw is called with the authorization of
\* the request; its signature and amount are taken to be good.
CallWithdraw(j, p) ==
  /\ Start(p, "withdrawal", "nonce")
  /\ owner' = [owner EXCEPT ![p] = j]
  /\ signed' = [signed EXCEPT ![p] = authority[j]]
  /\ UNCHANGED <<recordVars, moneyVars, faults, withdrawal, nonces, ok, stale, blind,
                 authority, reply>>

\* Control alone moves on.
Stage(j, from, to) ==
  /\ stage[j] = from
  /\ stage' = [stage EXCEPT ![j] = to]
  /\ UNCHANGED <<kind, pc, recordVars, moneyVars, tableVars, authority, owner, asked>>

LlmCall(j, p) ==
  stage[j] = "llm" /\ CallWithdraw(j, p) /\ UNCHANGED <<stage, asked>>

\* The model has answered; it has waited for the tools it called.
LlmEnds(j) ==
  /\ \A p \in Payer : owner[p] = j => ~Active(p)
  /\ Stage(j, "llm", "done")
  /\ UNCHANGED <<faults, reply>>

\* The model throws or is aborted after LLM_TIMEOUT_MS, its tools are not.
LlmFails(j) == Stage(j, "llm", "fallback") /\ UNCHANGED <<faults, reply>>

\* runFallbackChat plans a withdrawal and waits for it, or does something
\* without effect.
FallbackCall(j, p) ==
  /\ stage[j] = "fallback"
  /\ CallWithdraw(j, p)
  /\ stage' = [stage EXCEPT ![j] = "reply"]
  /\ asked' = [asked EXCEPT ![j] = {p}]

FallbackOther(j) == Stage(j, "fallback", "done") /\ UNCHANGED <<faults, reply>>

\* "Done. I executed a payout" or "Withdrawal failed. I did not complete an
\* on-chain transfer."
FallbackReply(j) ==
  /\ \A p \in asked[j] : pc[p] = "end"
  /\ Stage(j, "reply", "done")
  /\ reply' = [reply EXCEPT ![j] = IF asked[j] \subseteq ok THEN "paid" ELSE "refused"]
  /\ UNCHANGED faults

-----------------------------------------------------------------------------
(* withdraw *)

InWithdraw(p, place) == kind[p] = "withdrawal" /\ pc[p] = place

\* Mutant: withdrawals that exist are looked at for the nonce, without a key.
LookUpNonce(p) ==
  /\ InWithdraw(p, "nonce")
  /\ NoFault
  /\ IF \E q \in Payer : signed[q] = signed[p] /\ withdrawal[q] /= "none"
       THEN Go(p, "end")
       ELSE Go(p, "affiliate")
  /\ UNCHANGED <<kind, recordVars, moneyVars, tableVars, agentVars>>

\* consumeAuthorizationNonce inserts; the primary key refuses a second time.
\* An insert that is reported as an error may have spent the nonce.
ConsumeNonce(p) ==
  /\ InWithdraw(p, "nonce")
  /\ \/ /\ NoFault
        /\ nonces' = nonces \union {signed[p]}
        /\ IF signed[p] \in nonces THEN Go(p, "end") ELSE Go(p, "affiliate")
     \/ /\ Fault
        /\ nonces' \in {nonces, nonces \union {signed[p]}}
        /\ Go(p, "end")
  /\ UNCHANGED <<kind, recordVars, moneyVars, withdrawal, signed, ok, stale, blind, agentVars>>

\* The affiliate is registered and approved, or not.
CheckAffiliate(p) ==
  /\ InWithdraw(p, "affiliate")
  /\ NoFault
  /\ Go(p, "balance") \/ Go(p, "end")
  /\ UNCHANGED <<kind, recordVars, moneyVars, tableVars, agentVars>>

\* getAvailableBalanceUsdc and the comparison.  The sum that fails to load
\* leaves nothing to withdraw if it is what was earned, and everything that
\* was ever earned if it is what is reserved.
CheckBalance(p) ==
  /\ InWithdraw(p, "balance")
  /\ \/ /\ NoFault
        /\ Go(p, IF Available >= 1 THEN "create" ELSE "end")
        /\ UNCHANGED blind
     \/ /\ Fault
        /\ \/ Go(p, "end") /\ UNCHANGED blind
           \/ /\ Earned >= 1
              /\ Go(p, "create")
              /\ blind' = blind \union {p}
  /\ UNCHANGED <<kind, recordVars, moneyVars, withdrawal, nonces, signed, ok, stale, agentVars>>

\* create: the unit is reserved from here on, also if the call is told of an
\* error after the insert.
CreateWithdrawal(p) ==
  /\ InWithdraw(p, "create")
  /\ \/ /\ NoFault
        /\ withdrawal' = [withdrawal EXCEPT ![p] = "pending"]
        /\ Go(p, "processing")
     \/ /\ Fault
        /\ withdrawal' \in {withdrawal, [withdrawal EXCEPT ![p] = "pending"]}
        /\ Go(p, "end")
  /\ stale' = IF withdrawal' = withdrawal THEN stale ELSE stale \union Overtaken(p)
  /\ UNCHANGED <<kind, recordVars, moneyVars, nonces, signed, ok, blind, agentVars>>

\* markProcessing, markCompleted and markFailed update by id and their result
\* is ignored.
SetWithdrawal(p, status) ==
  LET updated == [withdrawal EXCEPT ![p] = status]
  IN /\ \/ NoFault /\ withdrawal' = updated
        \/ Fault /\ withdrawal' \in {withdrawal, updated}
     /\ UNCHANGED <<kind, moneyVars, recordVars, nonces, signed, stale, blind, agentVars>>

MarkProcessing(p) ==
  InWithdraw(p, "processing") /\ SetWithdrawal(p, "processing") /\ Go(p, "insert") /\ UNCHANGED ok

CreatePayout(p) ==
  /\ InWithdraw(p, "insert")
  /\ InsertPayout(p, "transfer", "give_up")
  /\ UNCHANGED <<kind, recorded, moneyVars, tableVars, agentVars>>

GiveUp(p) ==
  InWithdraw(p, "give_up") /\ SetWithdrawal(p, "failed") /\ Go(p, "end") /\ UNCHANGED ok

SendWithdrawal(p) ==
  /\ kind[p] = "withdrawal"
  /\ Transfer(p, "mark_failed") \/ Answer(p, "registry", "mark_failed")
  /\ UNCHANGED <<kind, tableVars, agentVars>>

\* The transfer failed, or so the call was told: the amount is free again.
MarkWithdrawalFailed(p) ==
  InWithdraw(p, "mark_failed") /\ SetWithdrawal(p, "failed") /\ Go(p, "fail_payout") /\ UNCHANGED ok

FailWithdrawalPayout(p) ==
  /\ InWithdraw(p, "fail_payout")
  /\ SetPayout(p, "failed")
  /\ Go(p, "end")
  /\ UNCHANGED <<kind, recorded, moneyVars, tableVars, agentVars>>

\* A payout the registry did not take stays pending, the withdrawal does not.
RecordWithdrawal(p) ==
  /\ kind[p] = "withdrawal"
  /\ RecordPayout(p, "mark_transferred", "mark_completed")
  /\ UNCHANGED <<kind, tableVars, agentVars>>

MarkWithdrawalTransferred(p) ==
  /\ InWithdraw(p, "mark_transferred")
  /\ SetPayout(p, "transferred")
  /\ Go(p, "mark_completed")
  /\ UNCHANGED <<kind, recorded, moneyVars, tableVars, agentVars>>

\* Mutant: a withdrawal the registry has no record of is answered as an error.
MarkCompletedStrict(p) ==
  /\ InWithdraw(p, "mark_completed")
  /\ SetWithdrawal(p, "completed")
  /\ Go(p, "end")
  /\ ok' = IF p \in recorded THEN ok \union {p} ELSE ok

MarkCompleted(p) ==
  /\ InWithdraw(p, "mark_completed")
  /\ SetWithdrawal(p, "completed")
  /\ Go(p, "end")
  /\ ok' = ok \union {p}

-----------------------------------------------------------------------------

AgentStep(j) ==
  \/ \E s \in Signature : StartJob(j, s)
  \/ \E p \in Payer : LlmCall(j, p) \/ FallbackCall(j, p)
  \/ LlmEnds(j) \/ LlmFails(j) \/ FallbackOther(j) \/ FallbackReply(j)

WithdrawalStep(p) ==
  \/ ConsumeNonce(p) \/ CheckAffiliate(p) \/ CheckBalance(p)
  \/ CreateWithdrawal(p) \/ MarkProcessing(p)
  \/ CreatePayout(p) \/ GiveUp(p)
  \/ SendWithdrawal(p) \/ MarkWithdrawalFailed(p) \/ FailWithdrawalPayout(p)
  \/ RecordWithdrawal(p) \/ MarkWithdrawalTransferred(p) \/ MarkCompleted(p)

\* Jobs live in memory; a restart ends them and their calls.
StopJobs == stage' = [j \in Job |-> IF stage[j] = "idle" THEN "idle" ELSE "done"]

=============================================================================
