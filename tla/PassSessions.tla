------------------------------ MODULE PassSessions ------------------------------
(***************************************************************************)
(* The wallet sessions of a Chronicle Pass:                                *)
(* services/chronicle-pass-auth-service over chronicle_pass_sessions.      *)
(*                                                                         *)
(* A row is a challenge first, and a session once its signature has been   *)
(* verified.  verify, resolve and logout read the row and write it by id   *)
(* some awaits later; activate alone is a compare-and-swap.  Signatures,   *)
(* tokens and their hashes are external: who holds a token may use it.     *)
(***************************************************************************)
EXTENDS Agreements

VARIABLES
  session,  \* chronicle_pass_sessions
  owner,    \* wallet_address of a session
  lapsed    \* sessions whose expires_at has passed

sessionVars == <<session, owner, lapsed>>
agreementVars == <<now, tableVars, ghostVars, doom>>

SessionStatus == {"none", "challenge_issued", "active", "expired", "revoked"}

SessionInit ==
  /\ session = [n \in Nonce |-> "none"]
  /\ owner = [n \in Nonce |-> None]
  /\ lapsed = {}

\* createChallenge.
CreateChallenge(n, w) ==
  /\ session[n] = "none"
  /\ session' = [session EXCEPT ![n] = "challenge_issued"]
  /\ owner' = [owner EXCEPT ![n] = w]
  /\ UNCHANGED <<lapsed, agreementVars, callVars, faults>>

\* verifyChallenge up to its first write: the nonce is unused and in time, and
\* the signature is valid.
VerifyChallenge(p, n) ==
  /\ At(p, "idle")
  /\ session[n] = "challenge_issued"
  /\ Go(p, IF n \in lapsed THEN "v_expire" ELSE "v_activate")
  /\ key' = [key EXCEPT ![p] = n]
  /\ NoFault
  /\ UNCHANGED <<agreementVars, sessionVars, mine, bill, held>>

\* Mutant: it relies on the status that was read.
Unconditional(n) == TRUE

\* activate's condition.
Unconsumed(n) == session[n] = "challenge_issued"

\* expires_at is rolled forward to the session's.
ActivateSession(p) ==
  LET n == key[p]
  IN /\ At(p, "v_activate")
     /\ \/ /\ NoFault /\ Unconsumed(n)
           /\ session' = [session EXCEPT ![n] = "active"]
           /\ lapsed' = lapsed \ {n}
        \/ NoFault /\ ~Unconsumed(n) /\ UNCHANGED <<session, lapsed>>
        \/ Fault /\ UNCHANGED <<session, lapsed>>
     /\ Answer(p)
     /\ UNCHANGED <<agreementVars, owner>>

\* markExpired and revoke: by id, whatever the row has become.
CloseSession(p, place, status) ==
  /\ At(p, place)
  /\ \/ NoFault /\ session' = [session EXCEPT ![key[p]] = status]
     \/ Fault /\ UNCHANGED session
  /\ Answer(p)
  /\ UNCHANGED <<agreementVars, owner, lapsed>>

MarkExpired(p) == CloseSession(p, "v_expire", "expired")
Revoke(p)      == CloseSession(p, "l_revoke", "revoked")

\* resolveSession: what a request of the session does once it is let in.
ResolveSession(p, n, next) ==
  /\ At(p, "idle")
  /\ session[n] = "active"
  /\ Go(p, IF n \in lapsed THEN "v_expire" ELSE next)
  /\ key' = [key EXCEPT ![p] = n]
  /\ NoFault
  /\ UNCHANGED <<agreementVars, sessionVars, mine, bill, held>>

\* logout looks up the session, in time or not.
Logout(p, n) ==
  /\ At(p, "idle")
  /\ session[n] = "active"
  /\ Go(p, "l_revoke")
  /\ key' = [key EXCEPT ![p] = n]
  /\ NoFault
  /\ UNCHANGED <<agreementVars, sessionVars, mine, bill, held>>

\* The time of a challenge or a session runs out.
Lapse(n) ==
  /\ session[n] \in {"challenge_issued", "active"} /\ n \notin lapsed
  /\ lapsed' = lapsed \union {n}
  /\ UNCHANGED <<agreementVars, session, owner, callVars, faults>>

\* expireSweep, one statement.
ExpireSweep ==
  LET over == {n \in lapsed : session[n] \in {"challenge_issued", "active"}}
  IN /\ over /= {}
     /\ session' = [n \in Nonce |-> IF n \in over THEN "expired" ELSE session[n]]
     /\ UNCHANGED <<agreementVars, owner, lapsed, callVars, faults>>

SessionStep(p) ==
  \/ \E n \in Nonce : VerifyChallenge(p, n) \/ Logout(p, n)
  \/ ActivateSession(p) \/ MarkExpired(p) \/ Revoke(p)

SessionClock ==
  \/ \E n \in Nonce : Lapse(n) \/ \E w \in Wallet : CreateChallenge(n, w)
  \/ ExpireSweep

=============================================================================
