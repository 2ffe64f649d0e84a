------------------------------ MODULE MCTrade ------------------------------
(* An instance of Trade for TLC.                                            *)
EXTENDS Trade, TLC

Symmetry == Permutations(Players) \cup Permutations(Items)

=============================================================================
