-------------------------------- MODULE MCDesk --------------------------------
(* Small instances of DeskIntents for TLC. *)
EXTENDS DeskProperties, TLC

\* Intents differ by name alone.
IntentSymmetry == Permutations(Intent)

=============================================================================
