---------------------------- MODULE PassProperties ----------------------------
(***************************************************************************)
(* What a Chronicle Pass promises: a payment buys one period, a period     *)
(* that was bought is kept, and a session that was closed stays closed.    *)
(***************************************************************************)
EXTENDS ChroniclePass

Place ==
  {"idle", "issue", "link", "s_create", "s_reopen",
   "t_find", "t_pay", "t_enrol", "t_activate",
   "v_activate", "v_expire", "l_revoke",
   "m_cancel_on", "m_cancel_off"} \union PassPlace

\* Where a call has an agreement, where a session, and where a challenge.
RowPlace == {"s_create", "s_reopen", "issue", "link", "t_pay", "t_enrol", "t_activate",
             "m_cancel_on", "m_cancel_off"}
KeyPlace == {"v_activate", "v_expire", "l_revoke"} \union PassPlace
BillPlace == {"link", "t_find", "t_pay", "t_enrol", "t_activate"}

TablesTyped ==
  /\ now \in Nat
  /\ sub \in [Agreement -> Row]
  /\ issued \subseteq Challenge /\ paid \subseteq Challenge
  /\ credited \in [Agreement -> SUBSET Challenge]
  /\ raced \subseteq Agreement
  /\ doom \in [Agreement -> Verdict]
  /\ faults \in Nat

CallsTyped ==
  /\ pc \in [Request -> Place]
  /\ mine \in [Request -> Agreement \union {None}]
  /\ bill \in [Request -> Challenge \union {None}]
  /\ held \in [Request -> [from : Nat, periods : Nat]]
  /\ key \in [Request -> Nonce \union {None}]

\* A call at a step on a row, of a session, or about a challenge has one.
Placed ==
  \A p \in Request : /\ pc[p] \in RowPlace => mine[p] \in Agreement
                     /\ pc[p] \in KeyPlace => key[p] \in Nonce
                     /\ pc[p] \in BillPlace => bill[p] \in Challenge

SessionsTyped ==
  /\ session \in [Nonce -> SessionStatus]
  /\ owner \in [Nonce -> Wallet \union {None}]
  /\ lapsed \subseteq Nonce

\* Every variable has its type.
TypeOK == TablesTyped /\ CallsTyped /\ Placed /\ SessionsTyped

\* A payment buys one period, however often, by whom and with what interleaving
\* it is settled: no agreement counts more periods than challenges were paid
\* for it, nor runs further ahead of today than those periods reach.
PaidForPeriods ==
  \A a \in Agreement :
    /\ credited[a] \subseteq paid
    /\ sub[a].periods <= Cardinality(credited[a])
    /\ sub[a].end <= now + Period * Cardinality(credited[a])

\* What was bought is kept: every payment that opened a period is counted, and
\* while the period runs the agreement is active, whatever starts, renewals,
\* cancellations and sweeps come by, unless the period was opened while another
\* call held an older reading of the row, which it then wrote over it.
BoughtIsKept ==
  \A a \in Agreement \ raced :
    /\ sub[a].periods = Cardinality(credited[a])
    /\ (sub[a].end > 0 /\ now <= sub[a].end) => sub[a].status = "active"

\* A logged-out or expired session, or an expired challenge, is never let in
\* again, whatever verification of its nonce is still under way.
ClosedStaysClosed ==
  [][\A n \in Nonce :
       session[n] \in {"expired", "revoked"} => session'[n] /= "active"]_vars

=============================================================================
