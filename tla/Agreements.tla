------------------------------- MODULE Agreements -------------------------------
(***************************************************************************)
(* The recurring newsletter agreement behind a Chronicle Pass:             *)
(* services/newsletter-subscription-service over the table                 *)
(* x402_newsletter_subscriptions.                                          *)
(*                                                                         *)
(* A request starts or renews an agreement, which issues a payment         *)
(* challenge and links it to the row, or settles a challenge, which takes  *)
(* the payment and then opens the period.  Every step is an await: the row *)
(* is read once, and written by id some awaits later.  A timer sweeps the  *)
(* rows whose period has ended.                                            *)
(*                                                                         *)
(* An agreement is the row of an address (email_normalized is unique); the *)
(* list of alert recipients, email_subscribers, is left out.               *)
(*                                                                         *)
(* A payment is settled at most once, and a repeated settlement is         *)
(* answered as the first (module Payments); here it is one step.           *)
(***************************************************************************)
EXTENDS Integers, FiniteSets

CONSTANTS
  Request,    \* HTTP requests in flight at a time (bound)
  Agreement,  \* rows of x402_newsletter_subscriptions
  Challenge,  \* payment challenges (bound)
  Wallet, Nonce,
  None,
  Period,     \* billing_period_days
  Grace,      \* grace_period_days
  Horizon,    \* bound: the last day
  MaxFaults   \* bound: failing database calls, lost answers and restarts

ASSUME AgreementConfig ==
  /\ IsFiniteSet(Challenge)
  /\ None \notin Agreement \union Challenge \union Wallet \union Nonce
  /\ Period \in Nat \ {0} /\ Grace \in Nat
  /\ Horizon \in Nat /\ MaxFaults \in Nat

VARIABLES
  now,       \* the day
  sub,       \* x402_newsletter_subscriptions
  issued,    \* challenges issued
  paid,      \* challenges settled
  credited,  \* ghost: per agreement, the challenges that opened a period of it
  raced,     \* ghost: agreements a period of which was opened while another call
             \* held an older reading it was about to act on
  doom,      \* sweep: per agreement, what it has decided and not yet done
  pc,        \* per request: the await it is at
  mine,      \* per request: the agreement it has read
  bill,      \* per request: the challenge it is about
  held,      \* per request: running period and periods_paid as it read them
  key,       \* per request: the session it has read
  faults

tableVars == <<sub, issued, paid>>
ghostVars == <<credited, raced>>
callVars  == <<pc, mine, bill, held, key>>

Status == {"none", "pending", "active", "past_due", "cancelled", "expired"}

Verdict == {"none", "cancel", "past_due", "expire"}

Row == [status : Status, end : Nat, periods : Nat, cancel : {"on", "off"},
        pending : Challenge \union {None}, wallet : Wallet \union {None}]

NoRow == [status |-> "none", end |-> 0, periods |-> 0, cancel |-> "off",
          pending |-> None, wallet |-> None]

Unread == [from |-> 0, periods |-> 0]

AgreementInit ==
  /\ now = 0
  /\ sub = [a \in Agreement |-> NoRow]
  /\ issued = {} /\ paid = {}
  /\ credited = [a \in Agreement |-> {}]
  /\ raced = {}
  /\ doom = [a \in Agreement |-> "none"]
  /\ pc = [p \in Request |-> "idle"]
  /\ mine = [p \in Request |-> None]
  /\ bill = [p \in Request |-> None]
  /\ held = [p \in Request |-> Unread]
  /\ key = [p \in Request |-> None]
  /\ faults = 0

Fault   == faults < MaxFaults /\ faults' = faults + 1
NoFault == UNCHANGED faults

At(p, place) == pc[p] = place

Go(p, place) == pc' = [pc EXCEPT ![p] = place]

\* The request is answered.
Answer(p) ==
  /\ pc' = [pc EXCEPT ![p] = "idle"]
  /\ mine' = [mine EXCEPT ![p] = None]
  /\ bill' = [bill EXCEPT ![p] = None]
  /\ held' = [held EXCEPT ![p] = Unread]
  /\ key' = [key EXCEPT ![p] = None]

\* update: by id, whatever the row has become.
Put(a, r) == sub' = [sub EXCEPT ![a] = r]

Running(r) == r.status \in {"active", "past_due"}

\* isNewsletterEntitled.
Entitled(r) ==
  /\ Running(r)
  /\ r.end > 0
  /\ now <= IF r.cancel = "on" THEN r.end ELSE r.end + Grace

-----------------------------------------------------------------------------
(* issueChallenge *)

\* The adapter's challenge and its payment record; it may be refused.
Issue(p) ==
  /\ At(p, "issue")
  /\ \/ /\ \E c \in Challenge \ issued :
             /\ issued' = issued \union {c}
             /\ bill' = [bill EXCEPT ![p] = c]
        /\ Go(p, "link")
        /\ UNCHANGED <<mine, held, key>>
     \/ Answer(p) /\ UNCHANGED issued
  /\ NoFault
  /\ UNCHANGED <<now, sub, paid, ghostVars, doom>>

Linked(r, c, w) == [r EXCEPT !.pending = c, !.wallet = w]

\* The challenge becomes the pending one, whichever was.
Link(p) ==
  /\ At(p, "link")
  /\ \/ /\ NoFault
        /\ \E w \in Wallet \union {sub[mine[p]].wallet} :
             Put(mine[p], Linked(sub[mine[p]], bill[p], w))
     \/ Fault /\ UNCHANGED sub
  /\ Answer(p)
  /\ UNCHANGED <<now, issued, paid, ghostVars, doom>>

-----------------------------------------------------------------------------
(* startSubscribe *)

\* An entitled agreement is refused; another one is reopened.
StartSubscribe(p, a) ==
  /\ At(p, "idle") /\ ~Entitled(sub[a])
  /\ Go(p, IF sub[a] = NoRow THEN "s_create" ELSE "s_reopen")
  /\ mine' = [mine EXCEPT ![p] = a]
  /\ NoFault
  /\ UNCHANGED <<now, tableVars, ghostVars, doom, bill, held, key>>

Created(w) == [NoRow EXCEPT !.status = "pending", !.wallet = w]

\* Of two requests that found no row the second fails.
CreateAgreement(p) ==
  LET a == mine[p]
  IN /\ At(p, "s_create")
     /\ \/ /\ NoFault /\ sub[a] = NoRow
           /\ \E w \in Wallet \union {None} : Put(a, Created(w))
           /\ Go(p, "issue")
           /\ UNCHANGED <<mine, bill, held, key>>
        \/ NoFault /\ sub[a] /= NoRow /\ Answer(p) /\ UNCHANGED sub
        \/ Fault /\ Answer(p) /\ UNCHANGED sub
     /\ UNCHANGED <<now, issued, paid, ghostVars, doom>>

Reopened(r, w) == [r EXCEPT !.status = "pending", !.cancel = "off", !.wallet = w]

Reopen(p) ==
  /\ At(p, "s_reopen")
  /\ \/ /\ NoFault
        /\ \E w \in Wallet \union {sub[mine[p]].wallet} :
             Put(mine[p], Reopened(sub[mine[p]], w))
        /\ Go(p, "issue")
        /\ UNCHANGED <<mine, bill, held, key>>
     \/ Fault /\ Answer(p) /\ UNCHANGED sub
  /\ UNCHANGED <<now, issued, paid, ghostVars, doom>>

-----------------------------------------------------------------------------
(* settle *)

\* findByPendingChallenge, and what the next period will be computed from.
FindPending(p) ==
  LET a == CHOOSE b \in Agreement : sub[b].pending = bill[p]
  IN /\ At(p, "t_find")
     /\ \/ /\ \E b \in Agreement : sub[b].pending = bill[p]
           /\ mine' = [mine EXCEPT ![p] = a]
           /\ held' = [held EXCEPT ![p] =
                [from |-> IF Running(sub[a]) THEN sub[a].end ELSE 0,
                 periods |-> sub[a].periods]]
           /\ Go(p, "t_pay")
           /\ UNCHANGED <<bill, key>>
        \/ /\ \A b \in Agreement : sub[b].pending /= bill[p]
           /\ Answer(p)
     /\ NoFault
     /\ UNCHANGED <<now, tableVars, ghostVars, doom>>

SettleByChallenge(p, c) ==
  /\ At(p, "idle") /\ c \in issued
  /\ bill' = [bill EXCEPT ![p] = c]
  /\ Go(p, "t_find")
  /\ NoFault
  /\ UNCHANGED <<now, tableVars, ghostVars, doom, mine, held, key>>

\* settlementService.settle: settled now or before, refused, or settled and
\* the answer lost.
TakePayment(p) ==
  /\ At(p, "t_pay")
  /\ \/ /\ NoFault
        /\ paid' = paid \union {bill[p]}
        /\ Go(p, "t_enrol")
        /\ UNCHANGED <<mine, bill, held, key>>
     \/ NoFault /\ bill[p] \notin paid /\ Answer(p) /\ UNCHANGED paid
     \/ Fault /\ Answer(p) /\ paid' \in {paid, paid \union {bill[p]}}
  /\ UNCHANGED <<now, sub, issued, ghostVars, doom>>

\* The alert list: a failure leaves a paid challenge for another settlement.
Enrol(p) ==
  /\ At(p, "t_enrol")
  /\ \/ /\ NoFault
        /\ Go(p, "t_activate")
        /\ UNCHANGED <<mine, bill, held, key>>
     \/ Fault /\ Answer(p)
  /\ UNCHANGED <<now, tableVars, ghostVars, doom>>

\* Mutant: the challenge stays pending after it has opened its period.
ClearedNever(p) == bill[p]

\* What pending_challenge_reference is set to.
Cleared(p) == None

\* computeNextPeriod: a period that still runs is prolonged.
NextEnd(p) == (IF held[p].from > now THEN held[p].from ELSE now) + Period

\* Some other call has read the row and will write what it decided on it.
Overtakes(p, a) ==
  \/ doom[a] /= "none"
  \/ \E q \in Request \ {p} :
       /\ mine[q] = a
       /\ \/ pc[q] = "s_reopen"
          \/ pc[q] \in {"t_pay", "t_enrol", "t_activate"} /\ bill[q] /= bill[p]

Opened(r, end, periods, pending, w) ==
  [r EXCEPT !.status = "active", !.end = end, !.periods = periods,
            !.pending = pending, !.cancel = "off", !.wallet = w]

Activate(p) ==
  LET a == mine[p]
  IN /\ At(p, "t_activate")
     /\ \/ /\ NoFault
           /\ \E w \in Wallet \union {sub[a].wallet} :
                Put(a, Opened(sub[a], NextEnd(p), held[p].periods + 1, Cleared(p), w))
           /\ credited' = [credited EXCEPT ![a] = @ \union {bill[p]}]
           /\ raced' = IF Overtakes(p, a) THEN raced \union {a} ELSE raced
        \/ Fault /\ UNCHANGED <<sub, ghostVars>>
     /\ Answer(p)
     /\ UNCHANGED <<now, issued, paid, doom>>

-----------------------------------------------------------------------------
(* processBillingCycle *)

\* Mutant: without the loop's check, as lte in the query has it.
SweptAtEnd(r) == Running(r) /\ r.end > 0 /\ now >= r.end

\* listDueForBillingSweep, and the loop's first check.
Swept(r) == Running(r) /\ r.end > 0 /\ now > r.end

VerdictOn(r) ==
  IF r.cancel = "on" THEN "cancel"
  ELSE IF now > r.end + Grace THEN "expire"
  ELSE "past_due"

Due == {a \in Agreement : Swept(sub[a]) /\ VerdictOn(sub[a]) /= sub[a].status}

\* The rows are read once; each is decided on that reading.
ListDue ==
  /\ \A a \in Agreement : doom[a] = "none"
  /\ Due /= {}
  /\ \/ /\ NoFault
        /\ doom' = [a \in Agreement |-> IF a \in Due THEN VerdictOn(sub[a]) ELSE "none"]
     \/ Fault /\ UNCHANGED doom
  /\ UNCHANGED <<now, tableVars, ghostVars, callVars>>

AfterSweep(r, verdict) ==
  IF verdict = "past_due" THEN [r EXCEPT !.status = "past_due"]
  ELSE IF verdict = "cancel"
    THEN [r EXCEPT !.status = "cancelled", !.pending = None, !.cancel = "off"]
  ELSE [r EXCEPT !.status = "expired", !.pending = None]

\* A failed update leaves the row to the next sweep.
Sweep(a) ==
  /\ doom[a] /= "none"
  /\ \/ NoFault /\ Put(a, AfterSweep(sub[a], doom[a]))
     \/ Fault /\ UNCHANGED sub
  /\ doom' = [doom EXCEPT ![a] = "none"]
  /\ UNCHANGED <<now, issued, paid, ghostVars, callVars>>

-----------------------------------------------------------------------------

NextDay ==
  /\ now < Horizon
  /\ now' = now + 1
  /\ UNCHANGED <<tableVars, ghostVars, doom, callVars, faults>>

AgreementStep(p) ==
  \/ Issue(p) \/ Link(p)
  \/ \E a \in Agreement : StartSubscribe(p, a)
  \/ CreateAgreement(p) \/ Reopen(p)
  \/ \E c \in Challenge : SettleByChallenge(p, c)
  \/ FindPending(p) \/ TakePayment(p) \/ Enrol(p) \/ Activate(p)

SweepStep == ListDue \/ \E a \in Agreement : Sweep(a)

=============================================================================
