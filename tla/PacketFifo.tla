------------------------------ MODULE PacketFifo ------------------------------
(***************************************************************************)
(* What a queue of many producers and one consumer promises (MPSCQueue).   *)
(*                                                                         *)
(* Packets leave in the order in which they were put.  The consumer may    *)
(* come back with nothing although packets are queued, but only if some    *)
(* producer was busy at a moment of its call: then it has to try again.    *)
(***************************************************************************)
EXTENDS Sequences

CONSTANTS Producers, Items

VARIABLES queue,      \* the packets put and not yet taken, oldest first
          putting,    \* the producers whose call has not returned
          taking,     \* whether the consumer's call runs
          disturbed   \* some producer was busy during that call

vars == <<queue, putting, taking, disturbed>>

Queued == {queue[k] : k \in DOMAIN queue}

Init ==
    /\ queue = <<>>
    /\ putting = {}
    /\ taking = FALSE
    /\ disturbed = FALSE

\* A packet in the queue is owned by the queue: it cannot be put again.
Put(p, i) ==
    /\ p \notin putting
    /\ i \notin Queued
    /\ queue' = Append(queue, i)
    /\ putting' = putting \cup {p}
    /\ disturbed' = TRUE
    /\ UNCHANGED taking

EndPut(p) ==
    /\ p \in putting
    /\ putting' = putting \ {p}
    /\ UNCHANGED <<queue, taking, disturbed>>

BeginTake ==
    /\ ~taking
    /\ taking' = TRUE
    /\ disturbed' = (putting # {})
    /\ UNCHANGED <<queue, putting>>

Take(i) ==
    /\ taking
    /\ queue # <<>>
    /\ i = Head(queue)
    /\ queue' = Tail(queue)
    /\ taking' = FALSE
    /\ UNCHANGED <<putting, disturbed>>

FindNothing ==
    /\ taking
    /\ queue = <<>> \/ disturbed
    /\ taking' = FALSE
    /\ UNCHANGED <<queue, putting, disturbed>>

Next ==
    \/ BeginTake \/ FindNothing
    \/ \E i \in Items : Take(i)
    \/ \E p \in Producers : EndPut(p) \/ \E i \in Items : Put(p, i)

Spec == Init /\ [][Next]_vars

==============================================================================
