-------------------------------- MODULE MCWatch --------------------------------
(* Instances of SponsoredWatches for TLC. *)
EXTENDS WatchProperties, TLC

\* A public contract, a contract and a wallet whose owner is told as well, and
\* a wallet whose owner alone is.
Mixed == {<<"contract", "public">>, <<"contract", "bound">>,
          <<"wallet", "bound">>, <<"wallet", "private">>}

Plain == {<<"contract", "bound">>}

\* Calls and events differ by name alone.
Symmetry == Permutations(Call) \union Permutations(Event)

=============================================================================
