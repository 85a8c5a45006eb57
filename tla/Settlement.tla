------------------------------ MODULE Settlement ------------------------------
(***************************************************************************)
(* What settling one challenge promises, seen from outside: the payment is *)
(* taken once, over an open record, and on the x402 rail not before the    *)
(* money has come; a reward is earned by a payment somebody was told was   *)
(* taken, once; it goes to the affiliates' float once, and again only      *)
(* while a transfer of it is in doubt; and what is said of a record may be *)
(* withdrawn, but a record never opens again, is not dropped while it      *)
(* shows settled, and does not come back once dropped.                     *)
(*                                                                         *)
(* Concurrent requests, sweeps, claims, retry runs, lost answers and       *)
(* restarts are how the service gets there; none is visible here.          *)
(***************************************************************************)
EXTENDS Naturals

CONSTANT Payment

VARIABLES
  record,   \* what the record of a payment says
  chained,  \* payments on the x402 rail
  received, \* those whose money has come
  taken,    \* payments that were taken
  told,     \* those of which somebody was told so
  rewarded, \* those that earned a reward
  floated,  \* transfers of a reward to the float
  doubted   \* rewards of which a transfer is in doubt

settlementVars == <<record, chained, received, taken, told, rewarded, floated, doubted>>

SettlementInit ==
  /\ record = [c \in Payment |-> "none"]
  /\ chained = {} /\ received = {} /\ taken = {} /\ told = {} /\ rewarded = {}
  /\ floated = [c \in Payment |-> 0]
  /\ doubted = {}

Issue(c) ==
  /\ record[c] = "none"
  /\ record' = [record EXCEPT ![c] = "open"]
  /\ chained' \in {chained, chained \union {c}}
  /\ UNCHANGED <<received, taken, told, rewarded, floated, doubted>>

Receive(c) ==
  /\ c \in chained \ received /\ record[c] /= "none"
  /\ received' = received \union {c}
  /\ UNCHANGED <<record, chained, taken, told, rewarded, floated, doubted>>

\* The answer may be lost, and with it the reward.
Take(c) ==
  /\ record[c] = "open" /\ c \notin taken
  /\ c \in chained => c \in received
  /\ record' = [record EXCEPT ![c] = "settled"]
  /\ taken' = taken \union {c}
  /\ told' \in {told, told \union {c}}
  /\ UNCHANGED <<chained, received, rewarded, floated, doubted>>

\* Several records change at once when a sweep does it.
Mark(cs, before, after) ==
  /\ \A c \in cs : record[c] \in before
  /\ record' = [c \in Payment |-> IF c \in cs THEN after ELSE record[c]]
  /\ UNCHANGED <<chained, received, taken, told, rewarded, floated, doubted>>

Withdraw(cs) == Mark(cs, {"open", "settled", "closed"}, "closed")
Drop(cs)     == Mark(cs, {"open", "closed"}, "dropped")

Reward(c) ==
  /\ c \in told \ rewarded
  /\ rewarded' = rewarded \union {c}
  /\ UNCHANGED <<record, chained, received, taken, told, floated, doubted>>

Float(c) ==
  /\ c \in rewarded
  /\ floated[c] = 0 \/ c \in doubted
  /\ floated' = [floated EXCEPT ![c] = @ + 1]
  /\ doubted' \in {doubted, doubted \union {c}}
  /\ UNCHANGED <<record, chained, received, taken, told, rewarded>>

SettlementNext ==
  \/ \E c \in Payment : Issue(c) \/ Receive(c) \/ Take(c) \/ Reward(c) \/ Float(c)
  \/ \E cs \in SUBSET Payment : Withdraw(cs) \/ Drop(cs)

SettlementSpec == SettlementInit /\ [][SettlementNext]_settlementVars

\* What follows from it at any time: a record shows settled, or a reward is
\* earned, only for a payment that was taken, on the x402 rail with the money
\* come; and the float has a reward once, unless a transfer of it is in doubt.
Honest ==
  /\ rewarded \subseteq told /\ told \subseteq taken
  /\ taken \intersect chained \subseteq received
  /\ \A c \in Payment :
       /\ record[c] \in {"none", "open"} => c \notin taken
       /\ record[c] = "settled" => c \in taken
       /\ floated[c] > 0 => c \in rewarded
       /\ floated[c] > 1 => c \in doubted

=============================================================================
