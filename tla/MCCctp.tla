-------------------------------- MODULE MCCctp --------------------------------
(* Small instances of CctpRebalance for TLC. *)
EXTENDS CctpProperties, TLC

\* Rows differ by name alone.
RowSymmetry == Permutations(Row)

\* Everything but the history variable, which no step and none of the properties
\* of that run reads, and which grows for ever while updates fail.
WithoutHistory ==
  <<table, base, allowance, burn, attested, forward, mint, pool, loose, locals, crashes>>

=============================================================================
