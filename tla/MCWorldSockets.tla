--------------------------- MODULE MCWorldSockets ---------------------------
(* An instance of WorldSockets for TLC.                                     *)
EXTENDS WorldSockets

=============================================================================
