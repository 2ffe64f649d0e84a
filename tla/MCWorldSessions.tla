--------------------------- MODULE MCWorldSessions ---------------------------
(* Instances of WorldSessions for TLC. *)
EXTENDS WorldSessions

CONSTANTS a1, a2, a3, s1, s2, s3, s4, s5, c1, c2

\* Three accounts, one of which reconnects: the login queue.
QueueAccountOf == s1 :> a1 @@ s2 :> a1 @@ s3 :> a2 @@ s4 :> a3
QueueOwnerOf == [c \in {} |-> a1]

\* One account with two characters and three connections: reconnection.
ReconnectAccountOf == s1 :> a1 @@ s2 :> a1 @@ s3 :> a1
ReconnectOwnerOf == c1 :> a1 @@ c2 :> a1

==============================================================================
