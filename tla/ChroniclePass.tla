----------------------------- MODULE ChroniclePass -----------------------------
(***************************************************************************)
(* The self-service of a Chronicle Pass (services/chronicle-pass-service   *)
(* behind routes/subscription-routes), and the composition with the        *)
(* agreements it changes and the sessions that let its requests in.        *)
(*                                                                         *)
(* A request resolves its session, finds the agreement of the session's    *)
(* wallet, and writes that row by id.  findByPayerWallet prefers the row   *)
(* updated last; here any row of the wallet may be found.                  *)
(***************************************************************************)
EXTENDS PassSessions

vars == <<agreementVars, sessionVars, callVars, faults>>

Init == AgreementInit /\ SessionInit

PassPlace == {"m_cancel", "m_resume", "m_renew", "m_settle"}

\* A request the pass lets in has found agreement a, and goes on.
FindOwn(p, place, next, a) ==
  /\ At(p, place)
  /\ sub[a].wallet = owner[key[p]]
  /\ Go(p, next)
  /\ mine' = [mine EXCEPT ![p] = a]
  /\ UNCHANGED <<bill, held, key>>

\* It finds none, or not in a state for what it wants.
Refuse(p) ==
  /\ pc[p] \in PassPlace
  /\ Answer(p)
  /\ NoFault
  /\ UNCHANGED <<agreementVars, sessionVars>>

Reading == UNCHANGED <<agreementVars, sessionVars>> /\ NoFault

FindToCancel(p, a) ==
  /\ FindOwn(p, "m_cancel", "m_cancel_on", a)
  /\ Entitled(sub[a]) /\ sub[a].cancel = "off"
  /\ Reading

FindToResume(p, a) ==
  /\ FindOwn(p, "m_resume", "m_cancel_off", a)
  /\ sub[a].cancel = "on"
  /\ Reading

Cancelling(r, value) == [r EXCEPT !.cancel = value]

SetCancel(p, place, value) ==
  /\ At(p, place)
  /\ \/ NoFault /\ Put(mine[p], Cancelling(sub[mine[p]], value))
     \/ Fault /\ UNCHANGED sub
  /\ Answer(p)
  /\ UNCHANGED <<now, issued, paid, ghostVars, doom, sessionVars>>

CancelAtPeriodEnd(p) == SetCancel(p, "m_cancel_on", "on")
Resume(p)            == SetCancel(p, "m_cancel_off", "off")

\* renew, renewForWallet: an agreement that was never paid is refused.
FindToRenew(p, a) ==
  /\ FindOwn(p, "m_renew", "issue", a)
  /\ sub[a].status /= "pending"
  /\ Reading

\* settle: the challenge must be the pending one of the wallet's agreement.
FindToSettle(p, a) ==
  /\ At(p, "m_settle")
  /\ sub[a].wallet = owner[key[p]] /\ sub[a].pending /= None
  /\ Go(p, "t_find")
  /\ bill' = [bill EXCEPT ![p] = sub[a].pending]
  /\ UNCHANGED <<mine, held, key>>
  /\ Reading

-----------------------------------------------------------------------------

\* The process ends and starts again: every request and the sweep are lost.
Restart ==
  /\ Fault
  /\ pc' = [p \in Request |-> "idle"]
  /\ mine' = [p \in Request |-> None]
  /\ bill' = [p \in Request |-> None]
  /\ held' = [p \in Request |-> Unread]
  /\ key' = [p \in Request |-> None]
  /\ doom' = [a \in Agreement |-> "none"]
  /\ UNCHANGED <<now, tableVars, ghostVars, sessionVars>>

PassStep(p) ==
  \/ \E n \in Nonce, place \in PassPlace : ResolveSession(p, n, place)
  \/ \E a \in Agreement :
       \/ FindToCancel(p, a) \/ FindToResume(p, a) \/ FindToRenew(p, a)
       \/ FindToSettle(p, a)
  \/ Refuse(p) \/ CancelAtPeriodEnd(p) \/ Resume(p)

CallStep(p) ==
  \/ AgreementStep(p) /\ UNCHANGED sessionVars
  \/ SessionStep(p)
  \/ PassStep(p)

Next ==
  \/ \E p \in Request : CallStep(p)
  \/ (SweepStep \/ NextDay) /\ UNCHANGED sessionVars
  \/ SessionClock
  \/ Restart

Spec == Init /\ [][Next]_vars

=============================================================================
