---------------------------- MODULE MCMPSCQueue ----------------------------
(* An instance of MPSCQueue for TLC: three producers, and three addresses   *)
(* that are used again and again.                                           *)
EXTENDS MPSCQueue

=============================================================================
