------------------------ MODULE MCDatabaseWorkerPool ------------------------
(* An instance of DatabaseWorkerPool for TLC: two connections, transactions  *)
(* of two statements and of one, and a query.                                *)
EXTENDS DatabaseWorkerPool

CONSTANTS t1, t2, q, w1, w2

MCSizeOf == [o \in Operations |-> IF o = t1 THEN 2 ELSE 1]

=============================================================================
