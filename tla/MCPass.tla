-------------------------------- MODULE MCPass --------------------------------
(* Instances of ChroniclePass for TLC. *)
EXTENDS PassProperties, TLC

Symmetry == Permutations(Request) \union Permutations(Challenge)

=============================================================================
