------------------------ MODULE ProducerConsumerQueue ------------------------
(***************************************************************************)
(* The blocking queue between producers and worker threads (PCQueue.h).    *)
(*                                                                         *)
(* Every method runs under _queueLock, so it is one step; WaitAndPop is a  *)
(* step for each evaluation of its condition.  A consumer in "waiting" is  *)
(* blocked in _condition.wait; a consumer that was notified left the set   *)
(* and has still to take the lock again.                                   *)
(***************************************************************************)
EXTENDS Integers, FiniteSets, Sequences

CONSTANT Consumers       \* the threads that call WaitAndPop

VARIABLES queue, shutdown, waiting

queueVars == <<queue, shutdown, waiting>>

QueueInit == queue = <<>> /\ shutdown = FALSE /\ waiting = {}

QueueType(Item) ==
    queue \in Seq(Item) /\ shutdown \in BOOLEAN /\ waiting \subseteq Consumers

NotifyOne == IF waiting = {} THEN waiting' = waiting
             ELSE \E c \in waiting : waiting' = waiting \ {c}

\* Mutant: the consumers are not notified.
PushSilently(item) ==
    /\ queue' = Append(queue, item)
    /\ UNCHANGED <<shutdown, waiting>>

Push(item) ==
    /\ queue' = Append(queue, item)
    /\ NotifyOne
    /\ UNCHANGED shutdown

\* while (_queue.empty() && !_shutdown) _condition.wait(lock)
WaitAndPopBlocks(c) ==
    /\ c \notin waiting
    /\ queue = <<>>
    /\ ~shutdown
    /\ waiting' = waiting \cup {c}
    /\ UNCHANGED <<queue, shutdown>>

\* The standard lets a condition variable wake a thread up for no reason.
WakesSpuriously(c) ==
    /\ c \in waiting
    /\ waiting' = waiting \ {c}
    /\ UNCHANGED <<queue, shutdown>>

\* Mutant: pop is missing.
WaitAndPopPeeks(c) ==
    /\ c \notin waiting
    /\ queue # <<>>
    /\ ~shutdown
    /\ UNCHANGED queueVars

\* The caller receives Head(queue).
WaitAndPopTakes(c) ==
    /\ c \notin waiting
    /\ queue # <<>>
    /\ ~shutdown
    /\ queue' = Tail(queue)
    /\ UNCHANGED <<shutdown, waiting>>

\* After Cancel the caller's variable keeps its value.
WaitAndPopGivesUp(c) ==
    /\ c \notin waiting
    /\ shutdown
    /\ UNCHANGED queueVars

\* Mutant: notify_all is missing.
CancelSilently ==
    /\ queue' = <<>>
    /\ shutdown' = TRUE
    /\ UNCHANGED waiting

\* Deletes what is queued and wakes everybody up.
Cancel ==
    /\ queue' = <<>>
    /\ shutdown' = TRUE
    /\ waiting' = {}

-----------------------------------------------------------------------------

\* Of the consumers inside WaitAndPop none sleeps once the queue is cancelled,
\* nor while more items are queued than there are awake ones to take them: one
\* notify_one for each Push is enough, whatever is popped in between.
NobodyOversleeps(inside) ==
    /\ waiting \subseteq inside
    /\ waiting # {} => ~shutdown /\ Len(queue) <= Cardinality(inside \ waiting)

==============================================================================
