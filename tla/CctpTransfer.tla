----------------------------- MODULE CctpTransfer -----------------------------
(***************************************************************************)
(* What one treasury transfer promises, seen from outside: money leaves    *)
(* Base at most once, arrives on Sepolia at most once and only after it    *)
(* left, the record claims "moving" only for money that really left and    *)
(* "delivered" only for money that really arrived, and a closed record     *)
(* never speaks again.  How the service gets there (approvals, polling,    *)
(* retries, restarts, several callers) is not visible at this level.       *)
(* The promise covers direct mints: it is what the state machine in the    *)
(* head comment of rebalance-service.ts stands for.                        *)
(***************************************************************************)
CONSTANT Transfer

VARIABLES
  claim,  \* what the record says: Transfer -> Claim
  left,   \* transfers whose USDC was burned on Base
  arrived \* transfers whose USDC was minted on Sepolia

Claim == {"none", "open", "moving", "delivered", "closed"}

transferVars == <<claim, left, arrived>>

TransferInit ==
  /\ claim = [t \in Transfer |-> "none"]
  /\ left = {}
  /\ arrived = {}

Say(t, before, after) ==
  /\ claim[t] \in before
  /\ claim' = [claim EXCEPT ![t] = after]
  /\ UNCHANGED <<left, arrived>>

Open(t)    == Say(t, {"none"}, "open")
Commit(t)  == t \in left /\ Say(t, {"open"}, "moving")
Deliver(t) == t \in arrived /\ Say(t, {"moving"}, "delivered")

\* Giving up is allowed at any time before delivery.
Close(t)   == Say(t, {"open", "moving"}, "closed")

Leave(t) ==
  /\ claim[t] /= "none"
  /\ t \notin left
  /\ left' = left \union {t}
  /\ UNCHANGED <<claim, arrived>>

Arrive(t) ==
  /\ t \in left
  /\ t \notin arrived
  /\ arrived' = arrived \union {t}
  /\ UNCHANGED <<claim, left>>

TransferNext ==
  \E t \in Transfer :
    Open(t) \/ Commit(t) \/ Deliver(t) \/ Close(t) \/ Leave(t) \/ Arrive(t)

TransferSpec == TransferInit /\ [][TransferNext]_transferVars

\* What follows from it at any time: nothing leaves before its transfer is asked
\* for or arrives before it left, and the record claims neither before it is so.
Honest ==
  /\ arrived \subseteq left
  /\ \A t \in Transfer :
       /\ claim[t] = "none" => t \notin left
       /\ claim[t] = "moving" => t \in left
       /\ claim[t] = "delivered" => t \in arrived

=============================================================================
