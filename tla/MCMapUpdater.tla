---------------------------- MODULE MCMapUpdater ----------------------------
(* An instance of MapUpdater for TLC: two base maps, one of them with two   *)
(* instances, and three map threads.                                        *)
EXTENDS MapUpdater, TLC

CONSTANTS m1, m2, i1, i2, w1, w2, w3

MCParentOf == i1 :> m1 @@ i2 :> m1

=============================================================================
