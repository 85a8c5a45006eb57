------------------------------ MODULE MCPayments ------------------------------
(* Instances of Payments for TLC.  Liveness is checked, hence no symmetry. *)
EXTENDS PaymentProperties

=============================================================================
