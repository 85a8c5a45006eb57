-------------------------- MODULE ChroniclePassProofs --------------------------
(***************************************************************************)
(* Proofs about ChroniclePass: type correctness, what a payment buys, that *)
(* what was bought is kept, and that a closed session stays closed.        *)
(***************************************************************************)
EXTENDS PassProperties, FiniteSetTheorems, TLAPS

-----------------------------------------------------------------------------
(* Rows *)

\* What an update by id does to the table.
LEMMA PutRow ==
  ASSUME sub \in [Agreement -> Row], NEW a \in Agreement, NEW r \in Row, Put(a, r)
  PROVE  /\ sub' \in [Agreement -> Row]
         /\ sub'[a] = r
         /\ \A b \in Agreement \ {a} : sub'[b] = sub[b]
  BY DEF Put

LEMMA LinkedRow ==
  ASSUME NEW r \in Row, NEW c \in Challenge \union {None}, NEW w \in Wallet \union {r.wallet}
  PROVE  LET s == Linked(r, c, w)
         IN /\ s \in Row /\ s.pending = c
            /\ s.status = r.status /\ s.end = r.end /\ s.periods = r.periods
  BY DEF Linked, Row

LEMMA CreatedRow ==
  ASSUME NEW w \in Wallet \union {None}
  PROVE  LET s == Created(w)
         IN /\ s \in Row /\ s.status = "pending"
            /\ s.end = NoRow.end /\ s.periods = NoRow.periods /\ s.pending = NoRow.pending
  BY DEF Created, Row, NoRow, Status

LEMMA ReopenedRow ==
  ASSUME NEW r \in Row, NEW w \in Wallet \union {r.wallet}
  PROVE  LET s == Reopened(r, w)
         IN /\ s \in Row /\ s.status = "pending"
            /\ s.end = r.end /\ s.periods = r.periods /\ s.pending = r.pending
  BY DEF Reopened, Row, Status

LEMMA OpenedRow ==
  ASSUME NEW r \in Row, NEW e \in Nat, NEW n \in Nat, NEW w \in Wallet \union {r.wallet}
  PROVE  LET s == Opened(r, e, n, None, w)
         IN /\ s \in Row /\ s.status = "active"
            /\ s.end = e /\ s.periods = n /\ s.pending = None
  BY DEF Opened, Row, Status

LEMMA CancellingRow ==
  ASSUME NEW r \in Row, NEW value \in {"on", "off"}
  PROVE  LET s == Cancelling(r, value)
         IN /\ s \in Row /\ s.status = r.status
            /\ s.end = r.end /\ s.periods = r.periods /\ s.pending = r.pending
  BY DEF Cancelling, Row

LEMMA SweptRow ==
  ASSUME NEW r \in Row, NEW verdict \in Verdict
  PROVE  LET s == AfterSweep(r, verdict)
         IN /\ s \in Row
            /\ s.end = r.end /\ s.periods = r.periods /\ s.pending \in {r.pending, None}
  BY DEF AfterSweep, Row, Status

-----------------------------------------------------------------------------
(* What the steps that write an agreement do to the table *)

\* The rows keep what a payment bought, and its pending challenge.
Kept(b) ==
  sub'[b].end = sub[b].end /\ sub'[b].periods = sub[b].periods

LEMMA LinkTable ==
  ASSUME TypeOK, NEW p \in Request, Link(p)
  PROVE  /\ sub' \in [Agreement -> Row]
         /\ \A b \in Agreement :
              /\ Kept(b) /\ sub'[b].status = sub[b].status
              /\ \/ sub'[b].pending = sub[b].pending
                 \/ b = mine[p] /\ sub'[b].pending = bill[p]
<1>1. mine[p] \in Agreement /\ bill[p] \in Challenge \union {None}
  BY DEF TypeOK, CallsTyped, Placed, Link, At, RowPlace
<1>2. sub \in [Agreement -> Row] /\ sub[mine[p]] \in Row
  BY <1>1 DEF TypeOK, TablesTyped
<1>3. CASE UNCHANGED sub
  BY <1>2, <1>3 DEF Kept
<1>4. CASE \E w \in Wallet \union {sub[mine[p]].wallet} :
             Put(mine[p], Linked(sub[mine[p]], bill[p], w))
  <2>1. PICK w \in Wallet \union {sub[mine[p]].wallet} :
             Put(mine[p], Linked(sub[mine[p]], bill[p], w))
    BY <1>4
  <2> DEFINE s == Linked(sub[mine[p]], bill[p], w)
  <2>2. /\ s \in Row /\ s.pending = bill[p] /\ s.status = sub[mine[p]].status
        /\ s.end = sub[mine[p]].end /\ s.periods = sub[mine[p]].periods
    BY <1>1, <1>2, LinkedRow
  <2> HIDE DEF s
  <2>3. /\ sub' \in [Agreement -> Row] /\ sub'[mine[p]] = s
        /\ \A b \in Agreement \ {mine[p]} : sub'[b] = sub[b]
    BY <1>1, <1>2, <2>1, <2>2, PutRow DEF s
  <2> QED BY <2>2, <2>3 DEF Kept
<1> QED BY <1>3, <1>4 DEF Link

LEMMA CreateTable ==
  ASSUME TypeOK, NEW p \in Request, CreateAgreement(p)
  PROVE  /\ sub' \in [Agreement -> Row]
         /\ \A b \in Agreement :
              /\ Kept(b) /\ sub'[b].pending = sub[b].pending
              /\ sub'[b].status = sub[b].status \/ sub[b].end = 0
<1>1. mine[p] \in Agreement
  BY DEF TypeOK, Placed, CreateAgreement, At, RowPlace
<1>2. sub \in [Agreement -> Row] /\ sub[mine[p]] \in Row
  BY <1>1 DEF TypeOK, TablesTyped
<1>3. CASE UNCHANGED sub
  BY <1>2, <1>3 DEF Kept
<1>4. CASE sub[mine[p]] = NoRow /\ \E w \in Wallet \union {None} : Put(mine[p], Created(w))
  <2>1. PICK w \in Wallet \union {None} : Put(mine[p], Created(w))
    BY <1>4
  <2> DEFINE s == Created(w)
  <2>2. /\ s \in Row
        /\ s.end = NoRow.end /\ s.periods = NoRow.periods /\ s.pending = NoRow.pending
    BY CreatedRow
  <2>3. NoRow.end = 0
    BY DEF NoRow
  <2> HIDE DEF s
  <2>4. /\ sub' \in [Agreement -> Row] /\ sub'[mine[p]] = s
        /\ \A b \in Agreement \ {mine[p]} : sub'[b] = sub[b]
    BY <1>1, <1>2, <2>1, <2>2, PutRow DEF s
  <2> QED BY <1>4, <2>2, <2>3, <2>4 DEF Kept
<1> QED BY <1>3, <1>4 DEF CreateAgreement

LEMMA ReopenTable ==
  ASSUME TypeOK, NEW p \in Request, Reopen(p)
  PROVE  /\ sub' \in [Agreement -> Row]
         /\ \A b \in Agreement :
              /\ Kept(b) /\ sub'[b].pending = sub[b].pending
              /\ sub'[b].status = sub[b].status \/ b = mine[p]
<1>1. mine[p] \in Agreement
  BY DEF TypeOK, Placed, Reopen, At, RowPlace
<1>2. sub \in [Agreement -> Row] /\ sub[mine[p]] \in Row
  BY <1>1 DEF TypeOK, TablesTyped
<1>3. CASE UNCHANGED sub
  BY <1>2, <1>3 DEF Kept
<1>4. CASE \E w \in Wallet \union {sub[mine[p]].wallet} : Put(mine[p], Reopened(sub[mine[p]], w))
  <2>1. PICK w \in Wallet \union {sub[mine[p]].wallet} : Put(mine[p], Reopened(sub[mine[p]], w))
    BY <1>4
  <2> DEFINE s == Reopened(sub[mine[p]], w)
  <2>2. /\ s \in Row /\ s.pending = sub[mine[p]].pending
        /\ s.end = sub[mine[p]].end /\ s.periods = sub[mine[p]].periods
    BY <1>1, <1>2, ReopenedRow
  <2> HIDE DEF s
  <2>3. /\ sub' \in [Agreement -> Row] /\ sub'[mine[p]] = s
        /\ \A b \in Agreement \ {mine[p]} : sub'[b] = sub[b]
    BY <1>1, <1>2, <2>1, <2>2, PutRow DEF s
  <2> QED BY <2>2, <2>3 DEF Kept
<1> QED BY <1>3, <1>4 DEF Reopen

LEMMA CancelTable ==
  ASSUME TypeOK, NEW p \in Request, CancelAtPeriodEnd(p) \/ Resume(p)
  PROVE  /\ sub' \in [Agreement -> Row]
         /\ \A b \in Agreement :
              Kept(b) /\ sub'[b].pending = sub[b].pending /\ sub'[b].status = sub[b].status
<1>1. mine[p] \in Agreement
  BY DEF TypeOK, Placed, CancelAtPeriodEnd, Resume, SetCancel, At, RowPlace
<1>2. sub \in [Agreement -> Row] /\ sub[mine[p]] \in Row
  BY <1>1 DEF TypeOK, TablesTyped
<1>3. CASE UNCHANGED sub
  BY <1>2, <1>3 DEF Kept
<1>4. CASE \E v \in {"on", "off"} : Put(mine[p], Cancelling(sub[mine[p]], v))
  <2>1. PICK v \in {"on", "off"} : Put(mine[p], Cancelling(sub[mine[p]], v))
    BY <1>4
  <2> DEFINE s == Cancelling(sub[mine[p]], v)
  <2>2. /\ s \in Row /\ s.pending = sub[mine[p]].pending /\ s.status = sub[mine[p]].status
        /\ s.end = sub[mine[p]].end /\ s.periods = sub[mine[p]].periods
    BY <1>1, <1>2, CancellingRow
  <2> HIDE DEF s
  <2>3. /\ sub' \in [Agreement -> Row] /\ sub'[mine[p]] = s
        /\ \A b \in Agreement \ {mine[p]} : sub'[b] = sub[b]
    BY <1>1, <1>2, <2>1, <2>2, PutRow DEF s
  <2> QED BY <2>2, <2>3 DEF Kept
<1> QED BY <1>3, <1>4 DEF CancelAtPeriodEnd, Resume, SetCancel

LEMMA SweepTable ==
  ASSUME TypeOK, NEW a \in Agreement, Sweep(a)
  PROVE  /\ sub' \in [Agreement -> Row]
         /\ \A b \in Agreement :
              /\ Kept(b) /\ sub'[b].pending \in {sub[b].pending, None}
              /\ sub'[b].status = sub[b].status \/ b = a
<1>1. sub \in [Agreement -> Row] /\ sub[a] \in Row /\ doom[a] \in Verdict
  BY DEF TypeOK, TablesTyped
<1>3. CASE UNCHANGED sub
  BY <1>1, <1>3 DEF Kept
<1>4. CASE Put(a, AfterSweep(sub[a], doom[a]))
  <2> DEFINE s == AfterSweep(sub[a], doom[a])
  <2>2. /\ s \in Row /\ s.pending \in {sub[a].pending, None}
        /\ s.end = sub[a].end /\ s.periods = sub[a].periods
    BY <1>1, SweptRow
  <2> HIDE DEF s
  <2>3. /\ sub' \in [Agreement -> Row] /\ sub'[a] = s
        /\ \A b \in Agreement \ {a} : sub'[b] = sub[b]
    BY <1>1, <1>4, <2>2, PutRow DEF s
  <2> QED BY <2>2, <2>3 DEF Kept
<1> QED BY <1>3, <1>4 DEF Sweep

\* A settlement that opens a period, and one whose update fails.
Opens(p) ==
  /\ sub'[mine[p]].status = "active"
  /\ sub'[mine[p]].end = NextEnd(p)
  /\ sub'[mine[p]].periods = held[p].periods + 1
  /\ sub'[mine[p]].pending = None
  /\ \A b \in Agreement \ {mine[p]} : sub'[b] = sub[b]
  /\ credited' = [credited EXCEPT ![mine[p]] = @ \union {bill[p]}]
  /\ raced' = IF Overtakes(p, mine[p]) THEN raced \union {mine[p]} ELSE raced

LEMMA NextEndNat ==
  ASSUME TypeOK, AgreementConfig, NEW p \in Request
  PROVE  NextEnd(p) \in Nat /\ held[p].periods \in Nat /\ held[p].from \in Nat
<1>1. held[p].periods \in Nat /\ held[p].from \in Nat
  BY DEF TypeOK, CallsTyped
<1> QED BY <1>1 DEF TypeOK, TablesTyped, AgreementConfig, NextEnd

LEMMA ActivateTable ==
  ASSUME TypeOK, AgreementConfig, NEW p \in Request, Activate(p)
  PROVE  /\ sub' \in [Agreement -> Row]
         /\ mine[p] \in Agreement
         /\ Opens(p) \/ UNCHANGED <<sub, credited, raced>>
<1>1. mine[p] \in Agreement
  BY DEF TypeOK, Placed, Activate, At, RowPlace
<1>2. sub \in [Agreement -> Row] /\ sub[mine[p]] \in Row
  BY <1>1 DEF TypeOK, TablesTyped
<1>3. CASE UNCHANGED <<sub, credited, raced>>
  BY <1>1, <1>2, <1>3
<1>4. CASE /\ \E w \in Wallet \union {sub[mine[p]].wallet} :
                Put(mine[p], Opened(sub[mine[p]], NextEnd(p), held[p].periods + 1, None, w))
           /\ credited' = [credited EXCEPT ![mine[p]] = @ \union {bill[p]}]
           /\ raced' = IF Overtakes(p, mine[p]) THEN raced \union {mine[p]} ELSE raced
  <2>1. PICK w \in Wallet \union {sub[mine[p]].wallet} :
          Put(mine[p], Opened(sub[mine[p]], NextEnd(p), held[p].periods + 1, None, w))
    BY <1>4
  <2> DEFINE r == sub[mine[p]]  e == NextEnd(p)  n == held[p].periods + 1
             s == Opened(r, e, n, None, w)
  <2>2. r \in Row /\ e \in Nat /\ n \in Nat /\ w \in Wallet \union {r.wallet}
    BY <1>2, NextEndNat
  <2> HIDE DEF r, e, n
  <2>3. /\ s \in Row /\ s.status = "active" /\ s.end = e
        /\ s.periods = n /\ s.pending = None
    BY <2>2, OpenedRow
  <2> HIDE DEF s
  <2>4. /\ sub' \in [Agreement -> Row] /\ sub'[mine[p]] = s
        /\ \A b \in Agreement \ {mine[p]} : sub'[b] = sub[b]
    BY <1>1, <1>2, <2>1, <2>3, PutRow DEF s, r, e, n
  <2> QED BY <1>1, <1>4, <2>3, <2>4 DEF Opens, e, n
<1> QED BY <1>3, <1>4 DEF Activate, Cleared, ghostVars

-----------------------------------------------------------------------------
(* Types *)

\* Initially the types hold.
LEMMA InitTypes == AgreementConfig /\ Init => TypeOK
  BY DEF Init, AgreementInit, SessionInit, TypeOK, TablesTyped, CallsTyped, Placed,
         SessionsTyped, Row, NoRow, Status, Verdict, Unread, Place, RowPlace, KeyPlace,
         BillPlace, SessionStatus, PassPlace

\* An answered call holds nothing.
LEMMA Answered ==
  ASSUME CallsTyped, Placed, NEW p \in Request, Answer(p)
  PROVE  CallsTyped' /\ Placed'
<1>1. "idle" \in Place /\ "idle" \notin RowPlace \union KeyPlace \union BillPlace
  BY DEF Place, RowPlace, KeyPlace, BillPlace, PassPlace
<1>2. Unread \in [from : Nat, periods : Nat]
  BY DEF Unread
<1> QED BY <1>1, <1>2 DEF CallsTyped, Placed, Answer


\* Steps of a request keep what is known of the calls.
LEMMA CallTypes ==
  ASSUME TypeOK, NEW p \in Request, CallStep(p)
  PROVE  CallsTyped' /\ Placed'
<1> USE Answered DEF TypeOK, At, Go

<1>1. CASE Issue(p)
  BY <1>1 DEF Issue, CallsTyped, Placed, TablesTyped, Place, RowPlace, KeyPlace, BillPlace, PassPlace
<1>2. CASE Link(p)
  BY <1>2 DEF Link, CallsTyped, Placed, TablesTyped, Place, RowPlace, KeyPlace, BillPlace, PassPlace
<1>3. CASE \E a \in Agreement : StartSubscribe(p, a)
  BY <1>3 DEF StartSubscribe, CallsTyped, Placed, TablesTyped, Place, RowPlace, KeyPlace, BillPlace, PassPlace
<1>4. CASE CreateAgreement(p)
  BY <1>4 DEF CreateAgreement, CallsTyped, Placed, TablesTyped, Place, RowPlace, KeyPlace, BillPlace, PassPlace
<1>5. CASE Reopen(p)
  BY <1>5 DEF Reopen, CallsTyped, Placed, TablesTyped, Place, RowPlace, KeyPlace, BillPlace, PassPlace
<1>6. CASE \E c \in Challenge : SettleByChallenge(p, c)
  BY <1>6 DEF SettleByChallenge, CallsTyped, Placed, TablesTyped, Place, RowPlace, KeyPlace, BillPlace, PassPlace
<1>7. CASE FindPending(p)
  <2> DEFINE a == CHOOSE b \in Agreement : sub[b].pending = bill[p]
             h == [from |-> IF Running(sub[a]) THEN sub[a].end ELSE 0, periods |-> sub[a].periods]
  <2>1. CASE Answer(p)
    BY <2>1
  <2>2. CASE /\ \E b \in Agreement : sub[b].pending = bill[p]
             /\ mine' = [mine EXCEPT ![p] = a] /\ held' = [held EXCEPT ![p] = h]
             /\ Go(p, "t_pay") /\ UNCHANGED <<bill, key>>
    <3>1. a \in Agreement
      BY <2>2
    <3>2. h \in [from : Nat, periods : Nat]
      BY <3>1 DEF TablesTyped, Row
    <3> HIDE DEF a, h
    <3>3. "t_pay" \in Place /\ "t_pay" \notin KeyPlace /\ "t_find" \in BillPlace
      BY DEF Place, KeyPlace, BillPlace, PassPlace
    <3>4. pc[p] = "t_find"
      BY <1>7 DEF FindPending
    <3> QED BY <2>2, <3>1, <3>2, <3>3, <3>4 DEF CallsTyped, Placed
  <2> QED BY <1>7, <2>1, <2>2 DEF FindPending
<1>8. CASE TakePayment(p)
  BY <1>8 DEF TakePayment, CallsTyped, Placed, TablesTyped, Place, RowPlace, KeyPlace, BillPlace, PassPlace
<1>9. CASE Enrol(p)
  BY <1>9 DEF Enrol, CallsTyped, Placed, TablesTyped, Place, RowPlace, KeyPlace, BillPlace, PassPlace
<1>10. CASE Activate(p)
  BY <1>10 DEF Activate, CallsTyped, Placed, TablesTyped, Place, RowPlace, KeyPlace, BillPlace, PassPlace
<1>11. CASE \E n \in Nonce : VerifyChallenge(p, n)
  BY <1>11 DEF VerifyChallenge, CallsTyped, Placed, TablesTyped, Place, RowPlace, KeyPlace, BillPlace, PassPlace
<1>12. CASE \E n \in Nonce : Logout(p, n)
  BY <1>12 DEF Logout, CallsTyped, Placed, TablesTyped, Place, RowPlace, KeyPlace, BillPlace, PassPlace
<1>13. CASE ActivateSession(p)
  BY <1>13 DEF ActivateSession, CallsTyped, Placed, TablesTyped, Place, RowPlace, KeyPlace, BillPlace, PassPlace
<1>14. CASE MarkExpired(p)
  BY <1>14 DEF MarkExpired, CloseSession, CallsTyped, Placed, TablesTyped, Place, RowPlace, KeyPlace, BillPlace, PassPlace
<1>15. CASE Revoke(p)
  BY <1>15 DEF Revoke, CloseSession, CallsTyped, Placed, TablesTyped, Place, RowPlace, KeyPlace, BillPlace, PassPlace
<1>16. CASE \E n \in Nonce, x \in PassPlace : ResolveSession(p, n, x)
  BY <1>16 DEF ResolveSession, CallsTyped, Placed, TablesTyped, Place, RowPlace, KeyPlace, BillPlace, PassPlace
<1>17. CASE \E a \in Agreement : FindToCancel(p, a)
  BY <1>17 DEF FindToCancel, FindOwn, Reading, CallsTyped, Placed, TablesTyped, Place, RowPlace, KeyPlace, BillPlace, PassPlace
<1>18. CASE \E a \in Agreement : FindToResume(p, a)
  BY <1>18 DEF FindToResume, FindOwn, Reading, CallsTyped, Placed, TablesTyped, Place, RowPlace, KeyPlace, BillPlace, PassPlace
<1>19. CASE \E a \in Agreement : FindToRenew(p, a)
  BY <1>19 DEF FindToRenew, FindOwn, Reading, CallsTyped, Placed, TablesTyped, Place, RowPlace, KeyPlace, BillPlace, PassPlace
<1>20. CASE \E a \in Agreement : FindToSettle(p, a)
  <2>1. PICK a \in Agreement : FindToSettle(p, a)
    BY <1>20
  <2>2. sub[a].pending \in Challenge \union {None}
    BY DEF TablesTyped, Row
  <2>3. "t_find" \in Place /\ "t_find" \notin KeyPlace \union RowPlace
    BY DEF Place, KeyPlace, RowPlace, PassPlace
  <2> QED BY <2>1, <2>2, <2>3 DEF FindToSettle, Reading, CallsTyped, Placed
<1>21. CASE Refuse(p)
  BY <1>21 DEF Refuse, CallsTyped, Placed, TablesTyped, Place, RowPlace, KeyPlace, BillPlace, PassPlace
<1>22. CASE CancelAtPeriodEnd(p)
  BY <1>22 DEF CancelAtPeriodEnd, SetCancel, CallsTyped, Placed, TablesTyped, Place, RowPlace, KeyPlace, BillPlace, PassPlace
<1>23. CASE Resume(p)
  BY <1>23 DEF Resume, SetCancel, CallsTyped, Placed, TablesTyped, Place, RowPlace, KeyPlace, BillPlace, PassPlace
<1> QED BY <1>1, <1>2, <1>3, <1>4, <1>5, <1>6, <1>7, <1>8, <1>9, <1>10, <1>11, <1>12, <1>13, <1>14, <1>15, <1>16, <1>17, <1>18, <1>19, <1>20, <1>21, <1>22, <1>23 DEF CallStep, AgreementStep, SessionStep, PassStep

\* Steps of a request keep the types of the tables.
LEMMA CallTables ==
  ASSUME TypeOK, AgreementConfig, NEW p \in Request, CallStep(p)
  PROVE  TablesTyped'
<1> USE DEF TypeOK, Fault, NoFault, agreementVars, tableVars, ghostVars
<1>1. CASE Issue(p)
  BY <1>1 DEF Issue, TablesTyped
<1>2. CASE Link(p)
  BY <1>2, LinkTable DEF Link, TablesTyped
<1>3. CASE CreateAgreement(p)
  BY <1>3, CreateTable DEF CreateAgreement, TablesTyped
<1>4. CASE Reopen(p)
  BY <1>4, ReopenTable DEF Reopen, TablesTyped
<1>5. CASE TakePayment(p)
  <2>1. bill[p] \in Challenge
    BY <1>5 DEF TakePayment, At, Placed, BillPlace
  <2> QED BY <1>5, <2>1 DEF TakePayment, TablesTyped
<1>6. CASE Activate(p)
  <2>1. /\ sub' \in [Agreement -> Row]
        /\ mine[p] \in Agreement
        /\ Opens(p) \/ UNCHANGED <<sub, credited, raced>>
    BY <1>6, ActivateTable
  <2>2. faults' \in Nat /\ UNCHANGED <<now, issued, paid, doom>>
    BY <1>6 DEF Activate, TablesTyped
  <2>3. bill[p] \in Challenge
    BY <1>6 DEF Activate, At, Placed, BillPlace
  <2> QED BY <2>1, <2>2, <2>3 DEF Opens, TablesTyped
<1>7. CASE CancelAtPeriodEnd(p) \/ Resume(p)
  BY <1>7, CancelTable DEF CancelAtPeriodEnd, Resume, SetCancel, TablesTyped
<1>8. CASE \/ \E a \in Agreement : StartSubscribe(p, a)
           \/ \E c \in Challenge : SettleByChallenge(p, c)
           \/ FindPending(p) \/ Enrol(p)
  BY <1>8 DEF StartSubscribe, SettleByChallenge, FindPending, Enrol, TablesTyped
<1>9. CASE SessionStep(p)
  BY <1>9 DEF SessionStep, VerifyChallenge, Logout, ActivateSession, MarkExpired, Revoke,
              CloseSession, TablesTyped
<1>10. CASE \/ \E n \in Nonce, place \in PassPlace : ResolveSession(p, n, place)
            \/ \E a \in Agreement : \/ FindToCancel(p, a) \/ FindToResume(p, a)
                                    \/ FindToRenew(p, a) \/ FindToSettle(p, a)
            \/ Refuse(p)
  BY <1>10 DEF ResolveSession, FindToCancel, FindToResume, FindToRenew, FindToSettle, Refuse,
               Reading, TablesTyped
<1> QED BY <1>1, <1>2, <1>3, <1>4, <1>5, <1>6, <1>7, <1>8, <1>9, <1>10
        DEF CallStep, AgreementStep, PassStep

\* Steps of a request keep the types of the sessions.
LEMMA CallSessions ==
  ASSUME TypeOK, NEW p \in Request, CallStep(p)
  PROVE  SessionsTyped'
<1> USE DEF TypeOK, SessionsTyped, SessionStatus, sessionVars
<1>1. CASE AgreementStep(p) /\ UNCHANGED sessionVars
  BY <1>1
<1>2. CASE SessionStep(p)
  BY <1>2 DEF SessionStep, VerifyChallenge, Logout, ActivateSession, MarkExpired, Revoke, CloseSession
<1>3. CASE PassStep(p)
  BY <1>3 DEF PassStep, ResolveSession, FindToCancel, FindToResume, FindToRenew, FindToSettle,
              Reading, Refuse, CancelAtPeriodEnd, Resume, SetCancel
<1> QED BY <1>1, <1>2, <1>3 DEF CallStep

\* Every step preserves the types.
LEMMA NextTypes ==
  ASSUME AgreementConfig, TypeOK, [Next]_vars
  PROVE  TypeOK'
<1> USE DEF agreementVars, tableVars, ghostVars, callVars, sessionVars
<1>1. CASE \E p \in Request : CallStep(p)
  BY <1>1, CallTypes, CallTables, CallSessions DEF TypeOK
<1>2. CASE ListDue /\ UNCHANGED sessionVars
  <2>1. \A a \in Agreement : VerdictOn(sub[a]) \in Verdict /\ "none" \in Verdict
    BY DEF VerdictOn, Verdict
  <2>2. doom' \in [Agreement -> Verdict]
    BY <1>2, <2>1 DEF ListDue, TypeOK, TablesTyped
  <2> QED BY <1>2, <2>2 DEF ListDue, TypeOK, TablesTyped, CallsTyped, Placed, SessionsTyped,
                           Fault, NoFault
<1>3. CASE \E a \in Agreement : Sweep(a) /\ UNCHANGED sessionVars
  <2>1. PICK a \in Agreement : Sweep(a) /\ UNCHANGED sessionVars
    BY <1>3
  <2>2. sub' \in [Agreement -> Row]
    BY <2>1, SweepTable
  <2>3. doom' \in [Agreement -> Verdict]
    BY <2>1 DEF Sweep, TypeOK, TablesTyped, Verdict
  <2> QED BY <2>1, <2>2, <2>3 DEF Sweep, TypeOK, TablesTyped, CallsTyped, Placed, SessionsTyped,
                           Fault, NoFault
<1>4. CASE NextDay /\ UNCHANGED sessionVars
  BY <1>4, AgreementConfig DEF NextDay, TypeOK, TablesTyped, CallsTyped, Placed, SessionsTyped
<1>5. CASE SessionClock
  <2>1. SessionsTyped'
    BY <1>5 DEF SessionClock, Lapse, CreateChallenge, ExpireSweep, TypeOK, SessionsTyped, SessionStatus
  <2>2. UNCHANGED <<now, sub, issued, paid, credited, raced, doom, faults, pc, mine, bill, held, key>>
    BY <1>5 DEF SessionClock, Lapse, CreateChallenge, ExpireSweep
  <2> QED BY <2>1, <2>2 DEF TypeOK, TablesTyped, CallsTyped, Placed
<1>6. CASE Restart
  <2>1. "idle" \in Place \ (RowPlace \union KeyPlace \union BillPlace) /\ "none" \in Verdict
    BY DEF Place, RowPlace, KeyPlace, BillPlace, PassPlace, Verdict
  <2> QED BY <1>6, <2>1 DEF Restart, Fault, Unread, TypeOK, TablesTyped, CallsTyped, Placed, SessionsTyped
<1>7. CASE UNCHANGED vars
  BY <1>7 DEF vars, TypeOK, TablesTyped, CallsTyped, Placed, SessionsTyped
<1> QED BY <1>1, <1>2, <1>3, <1>4, <1>5, <1>6, <1>7 DEF Next, SweepStep

\* Every variable keeps its type.
THEOREM TypeCorrect == Spec => []TypeOK
  BY AgreementConfig, InitTypes, NextTypes, PTL DEF Spec

-----------------------------------------------------------------------------
(* The strengthening *)

Settling == {"t_pay", "t_enrol", "t_activate"}

\* Every challenge anywhere was issued; a settlement that has passed the
\* payment is about a paid one.
KnownBills ==
  /\ paid \subseteq issued
  /\ \A a \in Agreement : credited[a] \subseteq paid /\ sub[a].pending \in issued \union {None}
  /\ \A p \in Request :
       /\ pc[p] \in {"link", "t_find"} \union Settling => bill[p] \in issued
       /\ pc[p] \in {"t_enrol", "t_activate"} => bill[p] \in paid

\* A challenge that is about to be linked is nobody else's.
FreshBills ==
  \A p \in Request : pc[p] = "link" =>
    /\ \A a \in Agreement : sub[a].pending /= bill[p] /\ bill[p] \notin credited[a]
    /\ \A q \in Request : (pc[q] \in Settling \union {"link"} /\ q /= p) => bill[q] /= bill[p]

N(a)       == Cardinality(credited[a])
Without(p) == Cardinality(credited[mine[p]] \ {bill[p]})
Span(n)    == Period * n

\* A settlement holds a reading of its row to which its own challenge has not
\* contributed.
SpendInv ==
  /\ \A a \in Agreement :
       /\ sub[a].pending \notin credited[a]
       /\ sub[a].periods <= N(a)
       /\ sub[a].end <= now + Span(N(a))
  /\ \A p \in Request : pc[p] \in Settling =>
       /\ held[p].periods <= Without(p)
       /\ held[p].from <= now + Span(Without(p))

Runs(a) == sub[a].end > 0 /\ now <= sub[a].end
Over(a) == a \in raced \/ ~Runs(a)

\* Where no reading was overtaken, readings agree with the rows.
KeptInv ==
  \A a \in Agreement \ raced :
    /\ sub[a].periods = N(a)
    /\ Runs(a) => sub[a].status = "active"
    /\ doom[a] /= "none" => ~Runs(a)
    /\ \A p \in Request : mine[p] = a =>
         /\ pc[p] = "s_reopen" => ~Runs(a)
         /\ pc[p] \in Settling => held[p].periods = Without(p)

PassInv == TypeOK /\ KnownBills /\ FreshBills /\ SpendInv /\ KeptInv

\* Arithmetic of the periods, and of the payments counted.
LEMMA Spans ==
  ASSUME AgreementConfig
  PROVE  /\ \A n \in Nat : Span(n) \in Nat /\ Span(n + 1) = Span(n) + Period
         /\ \A m, n \in Nat : m <= n => Span(m) <= Span(n)
<1>1. Period \in Nat
  BY AgreementConfig
<1>2. \A n \in Nat : Period * n \in Nat /\ Period * (n + 1) = Period * n + Period
  BY <1>1, SMT
<1>3. ASSUME NEW m \in Nat, NEW n \in Nat, m <= n
      PROVE  Period * m <= Period * n
  <2>1. PICK k \in Nat : n = m + k
    <3>1. n - m \in Nat /\ n = m + (n - m)
      BY <1>3
    <3> QED BY <3>1
  <2>2. Period * n = Period * m + Period * k /\ Period * k \in Nat /\ Period * m \in Nat
    BY <1>1, <2>1, SMT
  <2> QED BY <2>2
<1> QED BY <1>2, <1>3 DEF Span

LEMMA Counts ==
  ASSUME AgreementConfig, NEW S \in SUBSET Challenge, NEW c
  PROVE  /\ IsFiniteSet(S) /\ Cardinality(S) \in Nat /\ Cardinality(S \ {c}) \in Nat
         /\ Cardinality(S \ {c}) <= Cardinality(S)
         /\ Cardinality(S \union {c}) = Cardinality(S \ {c}) + 1
<1>1. IsFiniteSet(S) /\ IsFiniteSet(S \ {c})
  BY FS_Subset, AgreementConfig
<1>2. Cardinality(S) \in Nat /\ Cardinality(S \ {c}) \in Nat /\ Cardinality(S \ {c}) <= Cardinality(S)
  BY <1>1, FS_CardinalityType, FS_Subset
<1>3. (S \ {c}) \union {c} = S \union {c} /\ c \notin S \ {c}
  OBVIOUS
<1>4. Cardinality((S \ {c}) \union {c}) = Cardinality(S \ {c}) + 1
  BY <1>1, <1>3, FS_AddElement
<1> QED BY <1>1, <1>2, <1>3, <1>4

-----------------------------------------------------------------------------
(* Steps that leave alone what the invariants are about *)

Busy == {"link", "t_find", "s_reopen"} \union Settling

Same(p) == mine'[p] = mine[p] /\ bill'[p] = bill[p] /\ held'[p] = held[p]

Calm ==
  /\ now' \in Nat /\ now <= now'
  /\ issued' = issued /\ paid \subseteq paid' /\ paid' \subseteq issued
  /\ credited' = credited /\ raced' = raced
  /\ \A b \in Agreement :
       /\ Kept(b) /\ sub'[b].pending \in {sub[b].pending, None}
       /\ sub'[b].status = sub[b].status \/ Over(b)
       /\ doom'[b] \in {doom[b], "none"} \/ Over(b)
  /\ \A p \in Request :
       \/ pc'[p] \notin Busy
       \/ pc'[p] = "t_find" /\ bill'[p] \in issued
       \/ pc'[p] = "s_reopen" /\ mine'[p] \in Agreement /\ Over(mine'[p])
       \/ Same(p) /\ pc'[p] = pc[p]
       \/ Same(p) /\ pc[p] \in Settling /\ pc'[p] \in Settling /\ bill[p] \in paid'

\* Calm steps keep the invariants.
LEMMA CalmKeeps ==
  ASSUME AgreementConfig, PassInv, TypeOK', Calm
  PROVE  PassInv'
<1>1. KnownBills'
  BY DEF Calm, PassInv, KnownBills, Busy, Settling, Same
<1>2. FreshBills'
  <2>1. \A p \in Request : pc[p] = "link" => bill[p] /= None
    BY AgreementConfig DEF PassInv, TypeOK, Placed, BillPlace
  <2> QED BY <2>1 DEF Calm, PassInv, FreshBills, Busy, Settling, Same
<1>3. \A a \in Agreement : N(a)' = N(a) /\ N(a) \in Nat /\ Span(N(a))' = Span(N(a)) /\ Span(N(a)) \in Nat
  BY Counts, Spans DEF Calm, PassInv, TypeOK, TablesTyped, N, Span
<1>4. \A p \in Request : pc'[p] \in Settling =>
        /\ pc[p] \in Settling /\ Same(p) /\ Without(p)' = Without(p)
        /\ Span(Without(p))' = Span(Without(p)) /\ Span(Without(p)) \in Nat
  <2>1. \A p \in Request : pc'[p] \in Settling => pc[p] \in Settling /\ Same(p)
    BY DEF Calm, Busy, Settling
  <2>2. \A p \in Request : pc[p] \in Settling => mine[p] \in Agreement
    BY DEF PassInv, TypeOK, Placed, RowPlace, Settling
  <2>3. \A p \in Request : pc[p] \in Settling => Without(p) \in Nat
    BY <2>2, Counts DEF PassInv, TypeOK, TablesTyped, Without
  <2> QED BY <2>1, <2>3, Spans DEF Calm, Without, Same, Span
<1>5. /\ now \in Nat
      /\ \A a \in Agreement : sub[a].periods \in Nat /\ sub[a].end \in Nat
      /\ \A p \in Request : held[p].from \in Nat
  BY DEF PassInv, TypeOK, TablesTyped, CallsTyped, Row
<1>6. SpendInv'
  <2>1. \A a \in Agreement : sub'[a].pending \notin credited'[a]
    BY AgreementConfig DEF Calm, PassInv, SpendInv, TypeOK, TablesTyped
  <2>2. \A a \in Agreement : sub'[a].periods <= N(a)' /\ sub'[a].end <= now' + Span(N(a))'
    BY <1>3, <1>5 DEF Calm, Kept, PassInv, SpendInv
  <2>3. \A p \in Request : pc'[p] \in Settling =>
          held'[p].periods <= Without(p)' /\ held'[p].from <= now' + Span(Without(p))'
    BY <1>4, <1>5 DEF Calm, Same, PassInv, SpendInv
  <2> QED BY <2>1, <2>2, <2>3 DEF SpendInv
<1>7. KeptInv'
  <2>1. \A a \in Agreement : Runs(a)' => Runs(a)
    BY <1>5 DEF Calm, Kept, Runs
  <2>2. ASSUME NEW a \in Agreement \ raced
        PROVE  /\ sub'[a].periods = N(a)'
               /\ Runs(a)' => sub'[a].status = "active"
               /\ doom'[a] /= "none" => ~Runs(a)'
    BY <1>3, <2>1 DEF Calm, Kept, Over, PassInv, KeptInv
  <2>3. ASSUME NEW a \in Agreement \ raced, NEW p \in Request, mine'[p] = a
        PROVE  /\ pc'[p] = "s_reopen" => ~Runs(a)'
               /\ pc'[p] \in Settling => held'[p].periods = Without(p)'
    <3>1. pc'[p] = "s_reopen" => ~Runs(a)
      BY <2>3 DEF Calm, Busy, Settling, Over, Same, PassInv, KeptInv
    <3>2. pc'[p] \in Settling => held'[p].periods = Without(p)'
      BY <1>4, <2>3 DEF Same, PassInv, KeptInv
    <3> QED BY <2>1, <3>1, <3>2
  <2> QED BY <2>2, <2>3 DEF KeptInv, Calm
<1> QED BY <1>1, <1>2, <1>6, <1>7 DEF PassInv

-----------------------------------------------------------------------------
(* Steps that change what the invariants are about *)

\* A step of one request leaves the other requests alone.
Alone(p) == \A q \in Request \ {p} : Same(q) /\ pc'[q] = pc[q]

LEMMA AgreementAlone ==
  ASSUME TypeOK, NEW p \in Request, AgreementStep(p)
  PROVE  Alone(p)
<1> USE DEF Alone, Same, Go, Answer, TypeOK, CallsTyped
<1>1. CASE Issue(p) \/ Link(p) \/ CreateAgreement(p) \/ Reopen(p)
  BY <1>1 DEF Issue, Link, CreateAgreement, Reopen
<1>2. CASE \/ \E a \in Agreement : StartSubscribe(p, a)
           \/ \E c \in Challenge : SettleByChallenge(p, c)
  BY <1>2 DEF StartSubscribe, SettleByChallenge
<1>3. CASE FindPending(p)
  <2>1. \A a, h : (mine' = [mine EXCEPT ![p] = a] /\ held' = [held EXCEPT ![p] = h]
                   /\ Go(p, "t_pay") /\ UNCHANGED <<bill, key>>) => Alone(p)
    OBVIOUS
  <2> QED BY <1>3, <2>1 DEF FindPending
<1>4. CASE TakePayment(p) \/ Enrol(p) \/ Activate(p)
  BY <1>4 DEF TakePayment, Enrol, Activate
<1> QED BY <1>1, <1>2, <1>3, <1>4 DEF AgreementStep

\* The challenge that is issued is new.
LEMMA IssueKeeps ==
  ASSUME AgreementConfig, PassInv, TypeOK', NEW p \in Request, Issue(p), issued' /= issued
  PROVE  PassInv'
<1>1. PICK c \in Challenge \ issued :
        /\ issued' = issued \union {c}
        /\ bill' = [bill EXCEPT ![p] = c]
        /\ pc' = [pc EXCEPT ![p] = "link"]
        /\ UNCHANGED <<mine, held>>
  BY DEF Issue, Answer, Go
<1>2. UNCHANGED <<now, sub, paid, credited, raced, doom>> /\ pc[p] = "issue"
  BY DEF Issue, ghostVars, At
<1>3. /\ pc \in [Request -> Place] /\ bill \in [Request -> Challenge \union {None}]
      /\ mine[p] \in Agreement
  BY <1>2 DEF PassInv, TypeOK, CallsTyped, Placed, RowPlace
<1>4. /\ bill'[p] = c /\ pc'[p] = "link"
      /\ \A q \in Request \ {p} : pc'[q] = pc[q] /\ bill'[q] = bill[q]
  BY <1>1, <1>3
<1>5. KnownBills'
  BY <1>1, <1>2, <1>4 DEF PassInv, KnownBills, Settling
<1>6. FreshBills'
  BY <1>1, <1>2, <1>4, AgreementConfig DEF PassInv, KnownBills, FreshBills, Settling
<1>7. \A q \in Request : pc'[q] \in Settling => pc[q] \in Settling /\ Without(q)' = Without(q)
  BY <1>1, <1>2, <1>4 DEF Settling, Without
<1>8. \A a \in Agreement : N(a)' = N(a) /\ Runs(a)' = Runs(a)
  BY <1>2 DEF N, Runs
<1>9. SpendInv'
  BY <1>1, <1>2, <1>7, <1>8 DEF PassInv, SpendInv, Span
<1>10. KeptInv'
  BY <1>1, <1>2, <1>4, <1>7, <1>8 DEF PassInv, KeptInv
<1> QED BY <1>5, <1>6, <1>9, <1>10 DEF PassInv

LEMMA LinkKeeps ==
  ASSUME AgreementConfig, PassInv, TypeOK', NEW p \in Request, Link(p)
  PROVE  PassInv'
<1>1. /\ pc[p] = "link" /\ pc'[p] = "idle" /\ Alone(p)
      /\ UNCHANGED <<now, issued, paid, credited, raced, doom>>
  BY AgreementAlone DEF Link, At, Answer, ghostVars, AgreementStep, PassInv, TypeOK, CallsTyped
<1>2. \A b \in Agreement :
         /\ Kept(b) /\ sub'[b].status = sub[b].status
         /\ \/ sub'[b].pending = sub[b].pending
            \/ b = mine[p] /\ sub'[b].pending = bill[p]
  BY LinkTable DEF PassInv
<1>3. KnownBills'
  BY <1>1, <1>2 DEF PassInv, KnownBills, Alone, Same, Settling
<1>4. FreshBills'
  BY <1>1, <1>2 DEF PassInv, FreshBills, Alone, Same, Settling
<1>5. \A q \in Request : pc'[q] \in Settling =>
        pc[q] \in Settling /\ Same(q) /\ Without(q)' = Without(q)
  BY <1>1 DEF Settling, Without, Alone, Same
<1>6. \A a \in Agreement : N(a)' = N(a) /\ Runs(a)' = Runs(a)
  BY <1>1, <1>2 DEF N, Runs, Kept
<1>7. SpendInv'
  BY <1>1, <1>2, <1>5, <1>6 DEF PassInv, SpendInv, FreshBills, Span, Same, Kept
<1>8. KeptInv'
  BY <1>1, <1>2, <1>5, <1>6 DEF PassInv, KeptInv, Alone, Same, Kept
<1> QED BY <1>3, <1>4, <1>7, <1>8 DEF PassInv

\* A settlement reads the row its challenge is pending on.
LEMMA FindKeeps ==
  ASSUME AgreementConfig, PassInv, TypeOK', NEW p \in Request, FindPending(p), pc'[p] = "t_pay"
  PROVE  PassInv'
<1> DEFINE a == CHOOSE b \in Agreement : sub[b].pending = bill[p]
           from == IF Running(sub[a]) THEN sub[a].end ELSE 0
<1>1. /\ pc[p] = "t_find" /\ Alone(p)
      /\ UNCHANGED <<now, sub, issued, paid, credited, raced, doom>>
  BY AgreementAlone DEF FindPending, At, ghostVars, tableVars, AgreementStep, PassInv
<1>2. /\ pc \in [Request -> Place] /\ mine \in [Request -> Agreement \union {None}]
      /\ held \in [Request -> [from : Nat, periods : Nat]]
      /\ bill[p] \in issued
  BY <1>1 DEF PassInv, TypeOK, CallsTyped, KnownBills
<1>3. /\ \E b \in Agreement : sub[b].pending = bill[p]
      /\ mine' = [mine EXCEPT ![p] = a]
      /\ held' = [held EXCEPT ![p] = [from |-> from, periods |-> sub[a].periods]]
      /\ bill' = bill
  <2>1. "idle" /= "t_pay"
    OBVIOUS
  <2>2. ~Answer(p)
    BY <1>2, <2>1 DEF Answer
  <2> QED BY <2>2 DEF FindPending
<1>4. a \in Agreement /\ sub[a].pending = bill[p]
  BY <1>3
<1>5. from \in Nat /\ from <= sub[a].end /\ sub[a].end \in Nat
  BY <1>4 DEF PassInv, TypeOK, TablesTyped, Row
<1> HIDE DEF a, from
<1>6. mine'[p] = a /\ bill'[p] = bill[p] /\ held'[p].from = from /\ held'[p].periods = sub[a].periods
  BY <1>2, <1>3
<1>7. KnownBills'
  BY <1>1, <1>2, <1>6 DEF PassInv, KnownBills, Alone, Same, Settling
<1>8. FreshBills'
  BY <1>1, <1>4, <1>6 DEF PassInv, FreshBills, Alone, Same, Settling
<1>9. \A b \in Agreement : N(b)' = N(b) /\ Runs(b)' = Runs(b) /\ N(b) \in Nat /\ Span(N(b)) \in Nat
  BY <1>1, Counts, Spans DEF N, Runs, PassInv, TypeOK, TablesTyped
<1>10. Without(p)' = N(a)
  <2>1. bill[p] \notin credited[a]
    BY <1>4 DEF PassInv, SpendInv
  <2>2. credited[a] \ {bill[p]} = credited[a]
    BY <2>1
  <2> QED BY <1>1, <1>6, <2>2 DEF Without, N
<1>11. \A q \in Request \ {p} : Same(q) /\ pc'[q] = pc[q] /\ Without(q)' = Without(q)
  BY <1>1 DEF Alone, Same, Without
<1>12. /\ held'[p].periods <= Without(p)' /\ held'[p].from <= now' + Span(Without(p))'
       /\ mine'[p] \notin raced => held'[p].periods = Without(p)'
  <2>1. sub[a].periods <= N(a) /\ sub[a].end <= now + Span(N(a)) /\ now \in Nat
    BY <1>4 DEF PassInv, SpendInv, TypeOK, TablesTyped
  <2>2. a \notin raced => sub[a].periods = N(a)
    BY <1>4 DEF PassInv, KeptInv
  <2>3. Span(Without(p))' = Span(N(a))
    BY <1>10 DEF Span
  <2> QED BY <1>1, <1>4, <1>5, <1>6, <1>9, <1>10, <2>1, <2>2, <2>3
<1>13. SpendInv'
  <2>1. \A q \in Request \ {p} : pc'[q] \in Settling =>
          held'[q].periods <= Without(q)' /\ held'[q].from <= now' + Span(Without(q))'
    BY <1>1, <1>11 DEF PassInv, SpendInv, Same, Span
  <2>2. \A b \in Agreement : sub'[b].pending \notin credited'[b]
                             /\ sub'[b].periods <= N(b)' /\ sub'[b].end <= now' + Span(N(b))'
    BY <1>1, <1>9 DEF PassInv, SpendInv, Span
  <2> QED BY <1>12, <2>1, <2>2 DEF SpendInv
<1>14. KeptInv'
  BY <1>1, <1>9, <1>11, <1>12 DEF PassInv, KeptInv, Same
<1> QED BY <1>7, <1>8, <1>13, <1>14 DEF PassInv

\* A settlement opens a period: its challenge is counted once.
LEMMA ActivateKeeps ==
  ASSUME AgreementConfig, PassInv, TypeOK', NEW p \in Request, Activate(p), Opens(p)
  PROVE  PassInv'
<1>1. /\ pc[p] = "t_activate" /\ pc'[p] = "idle" /\ Alone(p)
      /\ UNCHANGED <<now, issued, paid, doom>> /\ now \in Nat
  BY AgreementAlone DEF Activate, At, Answer, AgreementStep, PassInv, TypeOK, CallsTyped, TablesTyped
<1>a. PICK a \in Agreement : a = mine[p]
  BY <1>1 DEF PassInv, TypeOK, Placed, RowPlace
<1>c. PICK c \in Challenge : c = bill[p]
  BY <1>1 DEF PassInv, TypeOK, Placed, BillPlace
<1>2. c \in issued /\ c \in paid
  BY <1>1, <1>c DEF PassInv, KnownBills
<1>3. /\ credited'[a] = credited[a] \union {c}
      /\ \A b \in Agreement \ {a} : credited'[b] = credited[b] /\ sub'[b] = sub[b]
      /\ credited \in [Agreement -> SUBSET Challenge] /\ credited' \in [Agreement -> SUBSET Challenge]
  BY <1>a, <1>c DEF Opens, PassInv, TypeOK, TablesTyped
<1>4. /\ sub'[a].status = "active" /\ sub'[a].end = NextEnd(p)
      /\ sub'[a].periods = held[p].periods + 1 /\ sub'[a].pending = None
  BY <1>a DEF Opens
<1>5. /\ N(a)' = Without(p) + 1 /\ Without(p) \in Nat
      /\ Span(Without(p)) \in Nat /\ Span(N(a))' = Span(Without(p)) + Period
  <2>1. N(a)' = Without(p) + 1 /\ Without(p) \in Nat
    BY <1>a, <1>c, <1>3, Counts DEF N, Without
  <2>2. Span(N(a))' = Span(Without(p) + 1)
    BY <2>1 DEF Span
  <2> QED BY <2>1, <2>2, Spans
<1>6. /\ held[p].periods <= Without(p) /\ held[p].from <= now + Span(Without(p))
      /\ held[p].periods \in Nat /\ held[p].from \in Nat
  BY <1>1, NextEndNat DEF PassInv, SpendInv, Settling
<1>7. KnownBills'
  BY <1>1, <1>2, <1>3, <1>4 DEF PassInv, KnownBills, Alone, Same, Settling
<1>8. FreshBills'
  <2>1. \A q \in Request : pc'[q] = "link" =>
          q /= p /\ pc[q] = "link" /\ bill'[q] = bill[q] /\ bill[q] /= c /\ bill[q] /= None
    BY <1>1, <1>c, AgreementConfig
    DEF PassInv, FreshBills, Alone, Same, Settling, TypeOK, Placed, BillPlace
  <2>2. ASSUME NEW q \in Request, pc'[q] = "link"
        PROVE  \A b \in Agreement : sub'[b].pending /= bill'[q] /\ bill'[q] \notin credited'[b]
    BY <1>3, <1>4, <2>1, <2>2 DEF PassInv, FreshBills
  <2>3. ASSUME NEW q \in Request, pc'[q] = "link"
        PROVE  \A r \in Request : (pc'[r] \in Settling \union {"link"} /\ r /= q) => bill'[r] /= bill'[q]
    BY <1>1, <2>1, <2>3 DEF PassInv, FreshBills, Alone, Same, Settling
  <2> QED BY <2>2, <2>3 DEF FreshBills
<1>9. \A q \in Request : pc'[q] \in Settling =>
        /\ q /= p /\ pc[q] \in Settling /\ Same(q) /\ mine[q] \in Agreement
        /\ Without(q) \in Nat /\ Without(q)' \in Nat /\ Without(q) <= Without(q)'
        /\ (mine[q] /= a \/ bill[q] = c) => Without(q)' = Without(q)
  <2> TAKE q \in Request
  <2> SUFFICES ASSUME pc'[q] \in Settling
               PROVE  /\ q /= p /\ pc[q] \in Settling /\ Same(q) /\ mine[q] \in Agreement
                      /\ Without(q) \in Nat /\ Without(q)' \in Nat /\ Without(q) <= Without(q)'
                      /\ (mine[q] /= a \/ bill[q] = c) => Without(q)' = Without(q)
    OBVIOUS
  <2>1. q /= p /\ pc[q] \in Settling /\ Same(q)
    BY <1>1 DEF Settling, Alone
  <2>2. mine[q] \in Agreement
    BY <2>1 DEF PassInv, TypeOK, Placed, RowPlace, Settling
  <2> DEFINE R == credited[mine[q]] \ {bill[q]}
             T == credited'[mine[q]] \ {bill[q]}
  <2>3. Without(q) = Cardinality(R) /\ Without(q)' = Cardinality(T)
    BY <2>1 DEF Without, Same
  <2>4. R \subseteq T /\ ((mine[q] /= a \/ bill[q] = c) => R = T)
    BY <1>3, <2>2
  <2>5. IsFiniteSet(T)
    BY <1>3, <2>2, FS_Subset, AgreementConfig
  <2> HIDE DEF R, T
  <2>6. Cardinality(R) \in Nat /\ Cardinality(T) \in Nat /\ Cardinality(R) <= Cardinality(T)
    BY <2>4, <2>5, FS_Subset, FS_CardinalityType
  <2> QED BY <2>1, <2>2, <2>3, <2>4, <2>6
<1>10. \A b \in Agreement \ {a} :
         N(b)' = N(b) /\ Span(N(b))' = Span(N(b)) /\ Runs(b)' = Runs(b) /\ sub'[b] = sub[b]
  BY <1>1, <1>3 DEF N, Span, Runs
<1>11. SpendInv'
  <2>1. \A b \in Agreement \ {a} : sub'[b].pending \notin credited'[b]
          /\ sub'[b].periods <= N(b)' /\ sub'[b].end <= now' + Span(N(b))'
    BY <1>1, <1>3, <1>10 DEF PassInv, SpendInv
  <2>2. sub'[a].pending \notin credited'[a]
    BY <1>2, <1>3, <1>4, AgreementConfig
  <2>3. sub'[a].periods <= N(a)' /\ sub'[a].end <= now' + Span(N(a))'
    BY <1>1, <1>4, <1>5, <1>6, AgreementConfig DEF NextEnd
  <2>4. ASSUME NEW q \in Request, pc'[q] \in Settling
        PROVE  held'[q].periods <= Without(q)' /\ held'[q].from <= now' + Span(Without(q))'
    <3>1. /\ held[q].periods <= Without(q) /\ held[q].from <= now + Span(Without(q))
          /\ held[q].periods \in Nat /\ held[q].from \in Nat
      BY <1>9, <2>4, NextEndNat DEF PassInv, SpendInv
    <3>2. Span(Without(q)) \in Nat /\ Span(Without(q)') \in Nat /\ Span(Without(q)) <= Span(Without(q)')
      BY <1>9, <2>4, Spans
    <3>3. Span(Without(q))' = Span(Without(q)')
      BY DEF Span
    <3> QED BY <1>1, <1>9, <2>4, <3>1, <3>2, <3>3 DEF Same
  <2> QED BY <2>1, <2>2, <2>3, <2>4 DEF SpendInv
<1>12. KeptInv'
  <2>1. raced \subseteq raced' /\ (a \notin raced' => a \notin raced /\ ~Overtakes(p, a))
    BY <1>a DEF Opens
  <2>2. ASSUME NEW b \in Agreement \ {a}, b \notin raced'
        PROVE  /\ sub'[b].periods = N(b)'
               /\ Runs(b)' => sub'[b].status = "active"
               /\ doom'[b] /= "none" => ~Runs(b)'
               /\ \A q \in Request : mine'[q] = b =>
                    /\ pc'[q] = "s_reopen" => ~Runs(b)'
                    /\ pc'[q] \in Settling => held'[q].periods = Without(q)'
    <3>1. \A q \in Request : pc'[q] = "s_reopen" => pc[q] = "s_reopen" /\ Same(q)
      BY <1>1 DEF Alone
    <3> QED BY <1>1, <1>9, <1>10, <2>1, <2>2, <3>1 DEF PassInv, KeptInv, Same
  <2>3. ASSUME a \notin raced'
        PROVE  /\ sub'[a].periods = N(a)'
               /\ Runs(a)' => sub'[a].status = "active"
               /\ doom'[a] /= "none" => ~Runs(a)'
               /\ \A q \in Request : mine'[q] = a =>
                    /\ pc'[q] = "s_reopen" => ~Runs(a)'
                    /\ pc'[q] \in Settling => held'[q].periods = Without(q)'
    <3>1. /\ doom[a] = "none"
          /\ \A q \in Request \ {p} : mine[q] = a =>
               pc[q] /= "s_reopen" /\ (pc[q] \in Settling => bill[q] = c)
      BY <1>a, <1>c, <2>1, <2>3 DEF Overtakes, Settling
    <3>2. held[p].periods = Without(p)
      BY <1>1, <1>a, <2>1, <2>3 DEF PassInv, KeptInv, Settling
    <3>3. sub'[a].periods = N(a)'
      BY <1>4, <1>5, <3>2
    <3>4. \A q \in Request : pc'[q] = "s_reopen" => q /= p /\ pc[q] = "s_reopen" /\ Same(q)
      BY <1>1 DEF Alone
    <3>5. \A q \in Request : (mine'[q] = a /\ pc'[q] \in Settling) => held'[q].periods = Without(q)'
      BY <1>2, <1>9, <2>1, <2>3, <3>1 DEF PassInv, KeptInv, Same
    <3> QED BY <1>1, <1>4, <3>1, <3>3, <3>4, <3>5 DEF Same
  <2> QED BY <2>2, <2>3 DEF KeptInv
<1> QED BY <1>7, <1>8, <1>11, <1>12 DEF PassInv

-----------------------------------------------------------------------------
(* The other steps are calm *)

\* A row before and after a calm step.
RowsCalm ==
  \A b \in Agreement :
    /\ Kept(b) /\ sub'[b].pending \in {sub[b].pending, None}
    /\ sub'[b].status = sub[b].status \/ Over(b)

LEMMA SameRows ==
  ASSUME UNCHANGED sub
  PROVE  RowsCalm
  BY DEF RowsCalm, Kept

LEMMA CalmAgreement ==
  ASSUME AgreementConfig, PassInv, NEW p \in Request, AgreementStep(p)
  PROVE  \/ Calm
         \/ Issue(p) /\ issued' /= issued
         \/ Link(p)
         \/ FindPending(p) /\ pc'[p] = "t_pay"
         \/ Activate(p) /\ Opens(p)
<1>1. /\ Alone(p) /\ paid \subseteq issued /\ now \in Nat
      /\ pc \in [Request -> Place] /\ mine \in [Request -> Agreement \union {None}]
      /\ bill \in [Request -> Challenge \union {None}]
      /\ held \in [Request -> [from : Nat, periods : Nat]]
  BY AgreementAlone DEF PassInv, KnownBills, TypeOK, TablesTyped, CallsTyped
<1> DEFINE Still == /\ UNCHANGED <<now, issued, credited, raced, doom>>
                    /\ paid \subseteq paid' /\ paid' \subseteq issued
           Passes == \/ pc'[p] \notin Busy
                     \/ pc'[p] = "t_find" /\ bill'[p] \in issued
                     \/ pc'[p] = "s_reopen" /\ mine'[p] \in Agreement /\ Over(mine'[p])
                     \/ Same(p) /\ pc[p] \in Settling /\ pc'[p] \in Settling /\ bill[p] \in paid'
<1>2. Still /\ RowsCalm /\ Passes => Calm
  BY <1>1 DEF Calm, RowsCalm, Alone
<1>3. Answer(p) => pc'[p] = "idle" /\ "idle" \notin Busy
  BY <1>1 DEF Answer, Busy, Settling
<1>4. {"s_create", "issue"} \intersect Busy = {}
  BY DEF Busy, Settling
<1> USE DEF Go, At, ghostVars, tableVars
<1>5. CASE Issue(p)
  BY <1>1, <1>2, <1>3, <1>5, SameRows DEF Issue
<1>6. CASE \E a \in Agreement : StartSubscribe(p, a)
  <2>1. PICK a \in Agreement : StartSubscribe(p, a)
    BY <1>6
  <2>2. Over(a)
    <3>1. sub[a].end \in Nat
      BY DEF PassInv, TypeOK, TablesTyped, Row
    <3>2. (Running(sub[a]) /\ Runs(a)) => Entitled(sub[a])
      BY <1>1, <3>1, AgreementConfig DEF Entitled, Runs
    <3>3. a \notin raced /\ Runs(a) => Running(sub[a])
      BY DEF PassInv, KeptInv, Running
    <3> QED BY <2>1, <3>2, <3>3 DEF StartSubscribe, Over
  <2>3. mine'[p] = a /\ pc'[p] \in {"s_create", "s_reopen"}
    BY <1>1, <2>1 DEF StartSubscribe
  <2> QED BY <1>1, <1>2, <1>4, <2>1, <2>2, <2>3, SameRows DEF StartSubscribe
<1>7. CASE CreateAgreement(p)
  <2>1. RowsCalm
    <3>1. \A b \in Agreement : sub[b].end = 0 => Over(b)
      BY DEF Over, Runs
    <3> QED BY <1>7, <3>1, CreateTable DEF RowsCalm, PassInv
  <2>2. pc'[p] \in {"idle", "issue"}
    BY <1>1, <1>7 DEF CreateAgreement, Answer
  <2>3. pc'[p] \notin Busy
    BY <2>2 DEF Busy, Settling
  <2> QED BY <1>1, <1>2, <1>7, <2>1, <2>3 DEF CreateAgreement
<1>8. CASE Reopen(p)
  <2>1. RowsCalm
    <3>1. mine[p] \in Agreement => Over(mine[p])
      BY <1>8 DEF Reopen, PassInv, KeptInv, Over
    <3> QED BY <1>8, <3>1, ReopenTable DEF RowsCalm, PassInv
  <2>2. pc'[p] \in {"idle", "issue"}
    BY <1>1, <1>8 DEF Reopen, Answer
  <2>3. pc'[p] \notin Busy
    BY <2>2 DEF Busy, Settling
  <2> QED BY <1>1, <1>2, <1>8, <2>1, <2>3 DEF Reopen
<1>9. CASE Link(p)
  BY <1>9
<1>10. CASE \E c \in Challenge : SettleByChallenge(p, c)
  BY <1>1, <1>2, <1>10, SameRows DEF SettleByChallenge
<1>11. CASE FindPending(p)
  <2>1. CASE Answer(p)
    BY <1>1, <1>2, <1>3, <1>11, <2>1, SameRows DEF FindPending
  <2>2. CASE Go(p, "t_pay")
    BY <1>1, <1>11, <2>2
  <2> QED BY <1>11, <2>1, <2>2 DEF FindPending
<1>12. CASE TakePayment(p)
  <2>1. bill[p] \in issued /\ pc[p] = "t_pay"
    BY <1>12 DEF TakePayment, PassInv, KnownBills, Settling
  <2>2. Still
    BY <1>1, <1>12, <2>1 DEF TakePayment
  <2>3. CASE Answer(p)
    BY <1>2, <1>3, <1>12, <2>2, <2>3, SameRows DEF TakePayment
  <2>4. CASE /\ paid' = paid \union {bill[p]} /\ Go(p, "t_enrol") /\ UNCHANGED <<mine, bill, held, key>>
    <3>1. Passes
      BY <1>1, <2>1, <2>4 DEF Same, Settling
    <3> QED BY <1>2, <1>12, <2>2, <3>1, SameRows DEF TakePayment
  <2> QED BY <1>12, <2>3, <2>4 DEF TakePayment
<1>13. CASE Enrol(p)
  <2>1. bill[p] \in paid /\ pc[p] = "t_enrol" /\ Still /\ UNCHANGED sub
    BY <1>1, <1>13 DEF Enrol, PassInv, KnownBills
  <2>2. CASE Answer(p)
    BY <1>2, <1>3, <2>1, <2>2, SameRows
  <2>3. CASE Go(p, "t_activate") /\ UNCHANGED <<mine, bill, held, key>>
    <3>1. Passes
      BY <1>1, <2>1, <2>3 DEF Same, Settling
    <3> QED BY <1>2, <2>1, <3>1, SameRows
  <2> QED BY <1>13, <2>2, <2>3 DEF Enrol
<1>14. CASE Activate(p)
  <2>1. CASE UNCHANGED <<sub, credited, raced>>
    BY <1>1, <1>2, <1>3, <1>14, <2>1, SameRows DEF Activate
  <2> QED BY <1>14, <2>1, ActivateTable DEF PassInv
<1> QED BY <1>5, <1>6, <1>7, <1>8, <1>9, <1>10, <1>11, <1>12, <1>13, <1>14 DEF AgreementStep

\* Sessions and the self-service of the pass.
LEMMA CalmRest ==
  ASSUME AgreementConfig, PassInv, NEW p \in Request, SessionStep(p) \/ PassStep(p)
  PROVE  Calm
<1>1. /\ paid \subseteq issued /\ now \in Nat
      /\ pc \in [Request -> Place] /\ mine \in [Request -> Agreement \union {None}]
      /\ bill \in [Request -> Challenge \union {None}]
      /\ held \in [Request -> [from : Nat, periods : Nat]]
  BY DEF PassInv, KnownBills, TypeOK, TablesTyped, CallsTyped
<1> DEFINE Still == UNCHANGED <<now, issued, paid, credited, raced, doom>>
           Passes == pc'[p] \notin Busy \/ (pc'[p] = "t_find" /\ bill'[p] \in issued)
<1>2. Still /\ RowsCalm /\ Passes /\ Alone(p) => Calm
  BY <1>1 DEF Calm, RowsCalm, Alone
<1>3. Answer(p) => pc'[p] = "idle" /\ Alone(p)
  BY <1>1 DEF Answer, Alone, Same
<1>4. ASSUME NEW place \in Place, Go(p, place), UNCHANGED <<bill, held>>,
             \/ UNCHANGED mine
             \/ \E a \in Agreement : mine' = [mine EXCEPT ![p] = a]
      PROVE  pc'[p] = place /\ Alone(p)
  BY <1>1, <1>4 DEF Go, Alone, Same
<1>5. {"idle", "v_expire", "v_activate", "l_revoke", "m_cancel_on", "m_cancel_off", "issue"}
        \intersect Busy = {} /\ PassPlace \intersect Busy = {}
  BY DEF Busy, Settling, PassPlace
<1>6. {"v_expire", "v_activate", "l_revoke", "m_cancel_on", "m_cancel_off", "issue", "t_find"}
        \union PassPlace \subseteq Place
  BY DEF Place
<1> USE DEF agreementVars, tableVars, ghostVars
<1>7. CASE SessionStep(p)
  <2>1. CASE \E n \in Nonce : VerifyChallenge(p, n) \/ Logout(p, n)
    BY <1>2, <1>4, <1>5, <1>6, <2>1, SameRows DEF VerifyChallenge, Logout
  <2>2. CASE ActivateSession(p) \/ MarkExpired(p) \/ Revoke(p)
    BY <1>2, <1>3, <1>5, <2>2, SameRows DEF ActivateSession, MarkExpired, Revoke, CloseSession
  <2> QED BY <1>7, <2>1, <2>2 DEF SessionStep
<1>8. CASE \E n \in Nonce, place \in PassPlace : ResolveSession(p, n, place)
  <2>1. PICK n \in Nonce, place \in PassPlace : ResolveSession(p, n, place)
    BY <1>8
  <2>2. PICK x \in {"v_expire"} \union PassPlace : Go(p, x)
    BY <2>1 DEF ResolveSession
  <2>3. pc'[p] = x /\ Alone(p)
    BY <1>4, <1>6, <2>1, <2>2 DEF ResolveSession
  <2> QED BY <1>2, <1>5, <2>1, <2>3, SameRows DEF ResolveSession
<1>9. CASE \E a \in Agreement : FindToCancel(p, a) \/ FindToResume(p, a) \/ FindToRenew(p, a)
  BY <1>2, <1>4, <1>5, <1>6, <1>9, SameRows
  DEF FindToCancel, FindToResume, FindToRenew, FindOwn, Reading
<1>10. CASE \E a \in Agreement : FindToSettle(p, a)
  <2>1. PICK a \in Agreement : FindToSettle(p, a)
    BY <1>10
  <2>2. sub[a].pending \in issued
    BY <2>1 DEF FindToSettle, PassInv, KnownBills
  <2>3. pc'[p] = "t_find" /\ bill'[p] \in issued /\ Alone(p)
    BY <1>1, <2>1, <2>2 DEF FindToSettle, Go, Alone, Same
  <2> QED BY <1>2, <2>1, <2>3, SameRows DEF FindToSettle, Reading
<1>11. CASE Refuse(p)
  BY <1>2, <1>3, <1>5, <1>11, SameRows DEF Refuse
<1>12. CASE CancelAtPeriodEnd(p) \/ Resume(p)
  <2>1. RowsCalm
    BY <1>12, CancelTable DEF RowsCalm, PassInv
  <2> QED BY <1>2, <1>3, <1>5, <1>12, <2>1 DEF CancelAtPeriodEnd, Resume, SetCancel
<1> QED BY <1>7, <1>8, <1>9, <1>10, <1>11, <1>12 DEF PassStep

\* Every step keeps the invariants.
LEMMA NextKeeps ==
  ASSUME AgreementConfig, PassInv, [Next]_vars
  PROVE  PassInv'
<1>1. TypeOK'
  BY NextTypes DEF PassInv
<1>2. now \in Nat /\ paid \subseteq issued
  BY DEF PassInv, KnownBills, TypeOK, TablesTyped
<1> USE DEF agreementVars, tableVars, ghostVars, callVars
<1>3. CASE \E p \in Request : CallStep(p)
  <2>1. PICK p \in Request : CallStep(p)
    BY <1>3
  <2>2. CASE AgreementStep(p)
    BY <1>1, <2>2, CalmAgreement, CalmKeeps, IssueKeeps, LinkKeeps, FindKeeps, ActivateKeeps
  <2>3. CASE SessionStep(p) \/ PassStep(p)
    BY <1>1, <2>3, CalmRest, CalmKeeps
  <2> QED BY <2>1, <2>2, <2>3 DEF CallStep
<1>4. CASE ListDue
  <2>1. \A a \in Agreement : Swept(sub[a]) => Over(a)
    <3>1. \A a \in Agreement : sub[a].end \in Nat
      BY DEF PassInv, TypeOK, TablesTyped, Row
    <3> QED BY <1>2, <3>1 DEF Swept, Over, Runs
  <2>2. \A a \in Agreement : doom'[a] \in {doom[a], "none"} \/ Over(a)
    BY <1>4, <2>1 DEF ListDue, Due
  <2>3. Calm
    BY <1>2, <1>4, <2>2 DEF ListDue, Calm, Kept, Same
  <2> QED BY <1>1, <2>3, CalmKeeps
<1>5. CASE \E a \in Agreement : Sweep(a)
  <2>1. PICK a \in Agreement : Sweep(a)
    BY <1>5
  <2>2. Over(a)
    BY <2>1 DEF Sweep, PassInv, KeptInv, Over
  <2>3. \A b \in Agreement : doom'[b] \in {doom[b], "none"}
    BY <2>1 DEF Sweep, PassInv, TypeOK, TablesTyped
  <2>4. \A b \in Agreement :
          /\ Kept(b) /\ sub'[b].pending \in {sub[b].pending, None}
          /\ sub'[b].status = sub[b].status \/ Over(b)
    BY <2>1, <2>2, SweepTable DEF PassInv
  <2>5. Calm
    BY <1>2, <2>1, <2>3, <2>4 DEF Sweep, Calm, Same
  <2> QED BY <1>1, <2>5, CalmKeeps
<1>6. CASE NextDay
  <2>1. Calm
    BY <1>2, <1>6 DEF NextDay, Calm, Kept, Same
  <2> QED BY <1>1, <2>1, CalmKeeps
<1>7. CASE SessionClock \/ UNCHANGED vars
  <2>1. UNCHANGED <<now, sub, issued, paid, credited, raced, doom, pc, mine, bill, held>>
    BY <1>7 DEF SessionClock, Lapse, CreateChallenge, ExpireSweep, vars
  <2>2. Calm
    BY <1>2, <2>1 DEF Calm, Kept, Same
  <2> QED BY <1>1, <2>2, CalmKeeps
<1>8. CASE Restart
  <2>1. "idle" \notin Busy
    BY DEF Busy, Settling
  <2>2. Calm
    BY <1>2, <1>8, <2>1 DEF Restart, Calm, Kept
  <2> QED BY <1>1, <2>2, CalmKeeps
<1> QED BY <1>3, <1>4, <1>5, <1>6, <1>7, <1>8 DEF Next, SweepStep

LEMMA InitKeeps ==
  ASSUME AgreementConfig, Init
  PROVE  PassInv
<1>1. TypeOK
  BY InitTypes
<1>2. \A a \in Agreement : credited[a] = {} /\ sub[a].pending = None /\ sub[a].periods = 0
                            /\ sub[a].end = 0 /\ doom[a] = "none"
  BY DEF Init, AgreementInit, NoRow
<1>3. \A p \in Request : pc[p] = "idle" /\ mine[p] = None
  BY DEF Init, AgreementInit
<1>4. \A a \in Agreement : N(a) = 0
  BY <1>2, FS_EmptySet DEF N
<1>5. now = 0 /\ Span(0) \in Nat /\ paid = {} /\ issued = {}
  BY Spans DEF Init, AgreementInit
<1>6. KnownBills /\ FreshBills
  BY <1>2, <1>3, <1>5 DEF KnownBills, FreshBills, Settling
<1>7. SpendInv
  BY <1>2, <1>3, <1>4, <1>5 DEF SpendInv, Settling
<1>8. KeptInv
  BY <1>2, <1>3, <1>4, <1>5 DEF KeptInv, Runs, Settling
<1> QED BY <1>1, <1>6, <1>7, <1>8 DEF PassInv

LEMMA PassInvariant == Spec => []PassInv
  BY AgreementConfig, InitKeeps, NextKeeps, PTL DEF Spec

-----------------------------------------------------------------------------

\* A payment buys one period, whatever the interleaving it is settled with.
THEOREM PaidOnce == Spec => []PaidForPeriods
<1>1. PassInv => PaidForPeriods
  BY DEF PassInv, KnownBills, SpendInv, PaidForPeriods, N, Span
<1> QED BY <1>1, PassInvariant, PTL

\* What was bought is kept, unless the period was opened over a held reading.
THEOREM BoughtKept == Spec => []BoughtIsKept
<1>1. PassInv => BoughtIsKept
  BY DEF PassInv, KeptInv, Runs, BoughtIsKept, N
<1> QED BY <1>1, PassInvariant, PTL

\* A closed session is let in no more.
THEOREM Closed == Spec => ClosedStaysClosed
<1>1. ASSUME TypeOK, [Next]_vars
      PROVE  [\A n \in Nonce :
                session[n] \in {"expired", "revoked"} => session'[n] /= "active"]_vars
  <2> USE DEF TypeOK, SessionsTyped, sessionVars
  <2>1. ASSUME NEW n \in Nonce, session[n] \in {"expired", "revoked"}
        PROVE  session'[n] /= "active"
    <3>1. CASE \E p \in Request : CallStep(p)
      BY <1>1, <2>1, <3>1
      DEF CallStep, SessionStep, PassStep, VerifyChallenge, Logout, ActivateSession, Unconsumed,
          MarkExpired, Revoke, CloseSession, ResolveSession, FindToCancel, FindToResume,
          FindToRenew, FindToSettle, Reading, Refuse, CancelAtPeriodEnd, Resume, SetCancel
    <3>2. CASE SessionClock
      BY <1>1, <2>1, <3>2 DEF SessionClock, Lapse, CreateChallenge, ExpireSweep
    <3>3. CASE Restart \/ UNCHANGED vars \/ UNCHANGED sessionVars
      BY <1>1, <2>1, <3>3 DEF Restart, vars
    <3> QED BY <1>1, <3>1, <3>2, <3>3 DEF Next
  <2> QED BY <2>1
<1> QED BY <1>1, TypeCorrect, PTL DEF Spec, ClosedStaysClosed

=============================================================================
