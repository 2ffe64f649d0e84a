------------------------------ MODULE MPSCQueue ------------------------------
(***************************************************************************)
(* The lock-free queue between the threads that send packets and the       *)
(* network thread of the socket (MPSCQueueIntrusive, with                  *)
(* EncryptablePacket::SocketQueueLink as link): many producers, one        *)
(* consumer.                                                               *)
(*                                                                         *)
(* A step is one access to a shared atomic variable.  Packets are the      *)
(* addresses of EncryptablePackets: SendPacket allocates one, the consumer *)
(* deletes it once it is written, and the address may then serve again.    *)
(* _dummy is part of the queue object.                                     *)
(***************************************************************************)
EXTENDS Sequences, FiniteSets, Naturals

CONSTANTS
    Producers,    \* the threads that send: world, map and network threads
    Items,        \* addresses for packets
    Dummy,        \* _dummyPtr
    Null          \* nullptr

ASSUME NodesAssumption == Dummy \notin Items /\ Null \notin Items \cup {Dummy}

Nodes == Items \cup {Dummy}

VARIABLES
    head, tail,   \* _head, _tail
    link,         \* the IntrusiveLink of each node
    free,         \* addresses not allocated
    sender,       \* where each producer is: "idle", "exchange", "store"
    input,        \* its packet
    prevHead,     \* what its exchange returned
    reader,       \* where the consumer is
    cursor,       \* the local variable tail of Dequeue
    next,         \* the local variable next of Dequeue
    cut,          \* prevHead of its own Enqueue(_dummyPtr)
    result,       \* the packet Dequeue returned, until it is deleted
    list,         \* history: the nodes between _tail and _head, in order
    order,        \* history: the packets among them
    disturbed     \* history: an Enqueue overlapped with this Dequeue

sharedVars == <<head, tail, link, free>>
senderVars == <<sender, input, prevHead>>
readerVars == <<reader, cursor, next, cut, result>>
history == <<list, order, disturbed>>
vars == <<sharedVars, senderVars, readerVars, history>>

\* The history leaves its first node behind.
Behead(s) == IF s = <<>> THEN s ELSE Tail(s)

-----------------------------------------------------------------------------
(* Enqueue *)

\* SendPacket: new EncryptablePacket; Enqueue stores nullptr in its link.
Allocate(p, i) ==
    /\ sender[p] = "idle"
    /\ i \in free
    /\ free' = free \ {i}
    /\ link' = [link EXCEPT ![i] = Null]
    /\ input' = [input EXCEPT ![p] = i]
    /\ sender' = [sender EXCEPT ![p] = "exchange"]
    /\ UNCHANGED <<head, tail, prevHead, readerVars, history>>

\* Mutant: the predecessor is taken from the wrong end.
ExchangeTail(p) ==
    /\ sender[p] = "exchange"
    /\ prevHead' = [prevHead EXCEPT ![p] = tail]
    /\ head' = input[p]
    /\ sender' = [sender EXCEPT ![p] = "store"]
    /\ list' = Append(list, input[p])
    /\ order' = Append(order, input[p])
    /\ disturbed' = TRUE
    /\ UNCHANGED <<tail, link, free, input, readerVars>>

\* prevHead = _head.exchange(input): from here on the packet has its place.
Exchange(p) ==
    /\ sender[p] = "exchange"
    /\ prevHead' = [prevHead EXCEPT ![p] = head]
    /\ head' = input[p]
    /\ sender' = [sender EXCEPT ![p] = "store"]
    /\ list' = Append(list, input[p])
    /\ order' = Append(order, input[p])
    /\ disturbed' = TRUE
    /\ UNCHANGED <<tail, link, free, input, readerVars>>

\* prevHead's link = input: only now can the consumer get there.
StoreLink(p) ==
    /\ sender[p] = "store"
    /\ link' = [link EXCEPT ![prevHead[p]] = input[p]]
    /\ sender' = [sender EXCEPT ![p] = "idle"]
    /\ input' = [input EXCEPT ![p] = Null]
    /\ prevHead' = [prevHead EXCEPT ![p] = Null]
    /\ UNCHANGED <<head, tail, free, readerVars, history>>

-----------------------------------------------------------------------------
(* Dequeue, called by WorldSocket::Update in a loop *)

Call ==
    /\ reader = "idle"
    /\ reader' = "first"
    /\ disturbed' = (\E p \in Producers : sender[p] = "store")
    /\ UNCHANGED <<sharedVars, senderVars, cursor, next, cut, result, list, order>>

\* The local variables end with the call.
EndCall == cursor' = Null /\ next' = Null /\ cut' = Null

\* return false
ReturnFalse ==
    /\ reader' = "idle"
    /\ EndCall
    /\ UNCHANGED <<tail, result, list, order>>

\* _tail = successor; result = node; return true
ReturnTrue(node, successor) ==
    /\ tail' = successor
    /\ result' = node
    /\ reader' = "delete"
    /\ EndCall
    /\ list' = Behead(list)
    /\ order' = Behead(order)

\* Dequeue goes on without having taken anything yet.
Continue(at) == reader' = at /\ UNCHANGED <<tail, cut, result, list, order>>

\* tail = _tail and its link.
LoadFirst ==
    /\ reader = "first"
    /\ UNCHANGED <<head, link, free, senderVars, disturbed>>
    /\ \/ /\ tail = Dummy
          /\ link[tail] = Null
          /\ ReturnFalse
       \/ /\ tail = Dummy
          /\ link[tail] # Null
          /\ cursor' = tail
          /\ next' = link[tail]
          /\ Continue("skip")
       \/ /\ tail # Dummy
          /\ link[tail] # Null
          /\ ReturnTrue(tail, link[tail])
       \/ /\ tail # Dummy
          /\ link[tail] = Null
          /\ cursor' = tail
          /\ next' = Null
          /\ Continue("head")

\* _tail = next: the dummy leaves the list; tail = next.
SkipDummy ==
    /\ reader = "skip"
    /\ tail' = next
    /\ cursor' = next
    /\ next' = Null
    /\ reader' = "second"
    /\ list' = Behead(list)
    /\ UNCHANGED <<head, link, free, senderVars, cut, result, order, disturbed>>

\* next = the link of the node behind the dummy.
LoadSecond ==
    /\ reader = "second"
    /\ UNCHANGED <<head, link, free, senderVars, disturbed>>
    /\ \/ /\ link[cursor] # Null
          /\ ReturnTrue(cursor, link[cursor])
       \/ /\ link[cursor] = Null
          /\ UNCHANGED <<cursor, next>>
          /\ Continue("head")

\* Mutant: the last packet waits for a successor instead of the dummy.
LoadHeadGivesUp ==
    /\ reader = "head"
    /\ UNCHANGED <<head, link, free, senderVars, disturbed>>
    /\ ReturnFalse

\* Mutant: if (tail != head) return false is missing.
LoadHeadUnchecked ==
    /\ reader = "head"
    /\ reader' = "reset"
    /\ UNCHANGED <<sharedVars, senderVars, cursor, next, cut, result, history>>

\* Is the node the last one?  Otherwise a producer is about to link.
LoadHead ==
    /\ reader = "head"
    /\ UNCHANGED <<head, link, free, senderVars, disturbed>>
    /\ \/ /\ head # cursor
          /\ ReturnFalse
       \/ /\ head = cursor
          /\ UNCHANGED <<cursor, next>>
          /\ Continue("reset")

\* Enqueue(_dummyPtr), so that the last packet gets a successor: its link,
ResetDummy ==
    /\ reader = "reset"
    /\ link' = [link EXCEPT ![Dummy] = Null]
    /\ reader' = "exchange"
    /\ UNCHANGED <<head, tail, free, senderVars, cursor, next, cut, result, history>>

\* the exchange,
ExchangeDummy ==
    /\ reader = "exchange"
    /\ cut' = head
    /\ head' = Dummy
    /\ list' = Append(list, Dummy)
    /\ reader' = "store"
    /\ UNCHANGED <<tail, link, free, senderVars, cursor, next, result, order, disturbed>>

\* and the store in its predecessor.
StoreDummy ==
    /\ reader = "store"
    /\ link' = [link EXCEPT ![cut] = Dummy]
    /\ reader' = "last"
    /\ UNCHANGED <<head, tail, free, senderVars, cursor, next, cut, result, history>>

\* Mutant: the packet is returned without a look at its link.
LoadLastUnchecked ==
    /\ reader = "last"
    /\ UNCHANGED <<head, link, free, senderVars, disturbed>>
    /\ ReturnTrue(cursor, IF link[cursor] = Null THEN Dummy ELSE link[cursor])

\* A producer may have come between the packet and the dummy.
LoadLast ==
    /\ reader = "last"
    /\ UNCHANGED <<head, link, free, senderVars, disturbed>>
    /\ \/ /\ link[cursor] # Null
          /\ ReturnTrue(cursor, link[cursor])
       \/ /\ link[cursor] = Null
          /\ ReturnFalse

\* WorldSocket::Update has written the packet: delete queued.
Delete ==
    /\ reader = "delete"
    /\ free' = free \cup {result}
    /\ result' = Null
    /\ reader' = "idle"
    /\ UNCHANGED <<head, tail, link, senderVars, cursor, next, cut, history>>

-----------------------------------------------------------------------------
Init ==
    /\ head = Dummy
    /\ tail = Dummy
    /\ link = [n \in Nodes |-> Null]
    /\ free = Items
    /\ sender = [p \in Producers |-> "idle"]
    /\ input = [p \in Producers |-> Null]
    /\ prevHead = [p \in Producers |-> Null]
    /\ reader = "idle"
    /\ cursor = Null
    /\ next = Null
    /\ cut = Null
    /\ result = Null
    /\ list = <<Dummy>>
    /\ order = <<>>
    /\ disturbed = FALSE

Enqueue(p) == Exchange(p) \/ StoreLink(p)

Dequeue ==
    \/ LoadFirst \/ SkipDummy \/ LoadSecond \/ LoadHead
    \/ ResetDummy \/ ExchangeDummy \/ StoreDummy \/ LoadLast

Next ==
    \/ Call \/ Dequeue \/ Delete
    \/ \E p \in Producers : Enqueue(p) \/ \E i \in Items : Allocate(p, i)

Spec == Init /\ [][Next]_vars

\* Update runs every 10 milliseconds, and a thread inside Enqueue or Dequeue
\* goes on.  That anybody sends is not assumed.
FairSpec ==
    /\ Spec
    /\ WF_vars(Call \/ Dequeue \/ Delete)
    /\ \A p \in Producers : WF_vars(Enqueue(p))

-----------------------------------------------------------------------------
(* Properties *)

Queued == {order[k] : k \in DOMAIN order}

\* Every variable has its type; Dequeue never returns the dummy.
TypeOK ==
    /\ head \in Nodes /\ tail \in Nodes
    /\ link \in [Nodes -> Nodes \cup {Null}]
    /\ free \subseteq Items
    /\ sender \in [Producers -> {"idle", "exchange", "store"}]
    /\ input \in [Producers -> Items \cup {Null}]
    /\ prevHead \in [Producers -> Nodes \cup {Null}]
    /\ reader \in {"idle", "first", "skip", "second", "head", "reset", "exchange",
                   "store", "last", "delete"}
    /\ cursor \in Nodes \cup {Null}
    /\ next \in Nodes \cup {Null}
    /\ cut \in Nodes \cup {Null}
    /\ result \in Items \cup {Null}
    /\ list \in Seq(Nodes)
    /\ order \in Seq(Items)
    /\ disturbed \in BOOLEAN

\* No thread reads or writes the link of a packet that has been deleted: a
\* producer between exchange and store keeps its predecessor in the queue.
NoUseAfterDelete ==
    /\ \A p \in Producers : sender[p] = "store" => prevHead[p] \notin free
    /\ reader = "first" => tail \notin free
    /\ reader \in {"second", "last"} => cursor \notin free
    /\ reader = "store" => cut \notin free

Carried == {input[p] : p \in {q \in Producers : sender[q] = "exchange"}}
Returned == {result} \ {Null}

\* An allocated packet is in the hands of one producer, or queued at one
\* place, or returned: none is lost, sent twice or deleted twice.
EveryPacketHasOneOwner ==
    /\ \A k, l \in DOMAIN order : order[k] = order[l] => k = l
    /\ \A p, q \in Producers :
          sender[p] = "exchange" /\ sender[q] = "exchange" /\ input[p] = input[q] => p = q
    /\ Items = free \cup Queued \cup Carried \cup Returned
    /\ free \cap (Queued \cup Carried \cup Returned) = {}
    /\ Queued \cap (Carried \cup Returned) = {}
    /\ Carried \cap Returned = {}

\* The queue keeps the promise of PacketFifo: packets leave in the order of
\* the exchanges, and a Dequeue that no Enqueue overlaps misses none.  That the
\* packet handed to the caller is the one that left the order is for
\* EveryPacketHasOneOwner to say: it was queued, and is now the returned one.
fifo == INSTANCE PacketFifo WITH
            queue <- order,
            putting <- {p \in Producers : sender[p] = "store"},
            taking <- reader \notin {"idle", "delete"}
ImplementsPacketFifo == fifo!Spec

\* A packet whose producer has got to the exchange is delivered, however
\* often Dequeue comes back empty-handed before.
PacketsArrive == \A i \in Items : i \in Queued ~> i \notin Queued

=============================================================================
