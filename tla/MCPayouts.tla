------------------------------- MODULE MCPayouts -------------------------------
(* Instances of Payouts for TLC. *)
EXTENDS PayoutProperties, TLC

CallSymmetry ==
  Permutations(Payer) \union Permutations(Job) \union Permutations(Signature)
    \union Permutations(Snapshot)

=============================================================================
