------------------------------- MODULE MCControl -------------------------------
(* Instances of DeskControl for TLC. *)
EXTENDS ControlProperties

=============================================================================
