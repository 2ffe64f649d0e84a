--------------------- MODULE ProducerConsumerQueueProofs ---------------------
(***************************************************************************)
(* Lemmas about the blocking queue for the proofs about its users: what    *)
(* its methods do to the set of queued items, and that no consumer sleeps  *)
(* beside an item.                                                         *)
(***************************************************************************)
EXTENDS ProducerConsumerQueue, SequenceTheorems, FiniteSetTheorems, TLAPS

\* What is queued, and that nothing is queued twice.
Queued == {queue[k] : k \in DOMAIN queue}
Distinct == \A j, k \in DOMAIN queue : queue[j] = queue[k] => j = k

\* Push adds its item to what is queued.
LEMMA QueuedAfterPush ==
  ASSUME NEW Item, QueueType(Item), NEW r \in Item, Push(r)
  PROVE  /\ queue' \in Seq(Item)
         /\ Len(queue') = Len(queue) + 1
         /\ Queued' = Queued \cup {r}
         /\ r \notin Queued /\ Distinct => Distinct'
<1>1. queue \in Seq(Item) /\ queue' = Append(queue, r)
  BY DEF QueueType, Push
<1>2. /\ queue' \in Seq(Item)
      /\ Len(queue') = Len(queue) + 1
      /\ \A k \in 1 .. Len(queue) : queue'[k] = queue[k]
      /\ queue'[Len(queue) + 1] = r
  BY <1>1, AppendProperties
<1>3. /\ Len(queue) \in Nat
      /\ DOMAIN queue = 1 .. Len(queue)
      /\ DOMAIN queue' = 1 .. (Len(queue) + 1)
  BY <1>1, <1>2, LenProperties
<1>4. DOMAIN queue' = DOMAIN queue \cup {Len(queue) + 1}
  BY <1>3
<1>5. Queued' = Queued \cup {r}
  BY <1>2, <1>3, <1>4 DEF Queued
<1>6. ASSUME r \notin Queued, Distinct PROVE Distinct'
  BY <1>2, <1>3, <1>4, <1>6 DEF Distinct, Queued
<1> QED BY <1>2, <1>5, <1>6

\* WaitAndPop removes the item it returns.
LEMMA QueuedAfterPop ==
  ASSUME NEW Item, QueueType(Item), Distinct, NEW w \in Consumers, WaitAndPopTakes(w)
  PROVE  /\ queue' \in Seq(Item)
         /\ Len(queue') = Len(queue) - 1
         /\ Head(queue) \in Queued
         /\ Head(queue) \in Item
         /\ Queued' = Queued \ {Head(queue)}
         /\ Distinct'
<1>1. queue \in Seq(Item) /\ queue # <<>> /\ queue' = Tail(queue)
  BY DEF QueueType, WaitAndPopTakes
<1>2. /\ Head(queue) \in Item
      /\ queue' \in Seq(Item)
      /\ Len(queue') = Len(queue) - 1
      /\ \A k \in 1 .. Len(queue') : queue'[k] = queue[k + 1]
  BY <1>1, HeadTailProperties
<1>3. /\ Len(queue) \in Nat \ {0}
      /\ DOMAIN queue = 1 .. Len(queue)
      /\ DOMAIN queue' = 1 .. (Len(queue) - 1)
      /\ Head(queue) = queue[1]
  BY <1>1, <1>2, LenProperties, EmptySeq
<1>4. Head(queue) \in Queued
  BY <1>3 DEF Queued
<1>5. Queued' \subseteq Queued \ {Head(queue)}
  <2> SUFFICES ASSUME NEW k \in DOMAIN queue'
               PROVE  queue'[k] \in Queued \ {queue[1]}
    BY <1>3 DEF Queued
  <2>1. k + 1 \in DOMAIN queue /\ k + 1 # 1 /\ 1 \in DOMAIN queue
    BY <1>3
  <2> QED BY <1>2, <1>3, <2>1 DEF Queued, Distinct
<1>6. Queued \ {Head(queue)} \subseteq Queued'
  <2> SUFFICES ASSUME NEW k \in DOMAIN queue, queue[k] # queue[1]
               PROVE  queue[k] \in Queued'
    BY <1>3 DEF Queued
  <2>1. k - 1 \in DOMAIN queue'
    BY <1>3
  <2>2. queue'[k - 1] = queue[(k - 1) + 1] /\ (k - 1) + 1 = k
    BY <1>2, <1>3, <2>1
  <2> QED BY <2>1, <2>2 DEF Queued
<1>7. Distinct'
  <2> SUFFICES ASSUME NEW j \in DOMAIN queue', NEW k \in DOMAIN queue',
                      queue'[j] = queue'[k]
               PROVE  j = k
    BY DEF Distinct
  <2>1. j + 1 \in DOMAIN queue /\ k + 1 \in DOMAIN queue /\ queue[j + 1] = queue[k + 1]
    BY <1>2, <1>3
  <2>2. j + 1 = k + 1
    BY <2>1 DEF Distinct
  <2> QED BY <1>3, <2>2
<1> QED BY <1>2, <1>4, <1>5, <1>6, <1>7

\* The queue is empty as a sequence when it is as a set.
LEMMA QueuedEmpty ==
  ASSUME NEW Item, QueueType(Item)
  PROVE  /\ Queued = {} <=> queue = <<>>
         /\ Len(queue) \in Nat
         /\ Len(queue) = 0 <=> queue = <<>>
<1>1. queue \in Seq(Item) /\ Len(queue) \in Nat /\ DOMAIN queue = 1 .. Len(queue)
  BY LenProperties DEF QueueType
<1>2. Len(queue) = 0 <=> queue = <<>>
  BY <1>1, EmptySeq
<1>3. Queued = {} <=> Len(queue) = 0
  <2>1. Len(queue) = 0 => Queued = {}
    BY <1>1 DEF Queued
  <2>2. Len(queue) # 0 => queue[1] \in Queued
    BY <1>1 DEF Queued
  <2> QED BY <2>1, <2>2
<1> QED BY <1>1, <1>2, <1>3

-----------------------------------------------------------------------------
(* Sleeping consumers *)

\* One consumer more or less is awake.
LEMMA OneAwake ==
  ASSUME NEW A, IsFiniteSet(A), NEW c
  PROVE  /\ IsFiniteSet(A \cup {c}) /\ IsFiniteSet(A \ {c})
         /\ Cardinality(A) \in Nat
         /\ Cardinality(A \cup {c}) = IF c \in A THEN Cardinality(A) ELSE Cardinality(A) + 1
         /\ Cardinality(A \ {c}) = IF c \in A THEN Cardinality(A) - 1 ELSE Cardinality(A)
  BY FS_AddElement, FS_RemoveElement, FS_CardinalityType

\* Push wakes a sleeper up for its item.
LEMMA PushWakesOne ==
  ASSUME NEW Item, QueueType(Item), NEW r \in Item, Push(r),
         NEW I, IsFiniteSet(I), NobodyOversleeps(I)
  PROVE  NobodyOversleeps(I)'
<1>1. Len(queue') = Len(queue) + 1 /\ Len(queue) \in Nat /\ shutdown' = shutdown
  BY LenProperties, AppendProperties DEF QueueType, Push
<1>2. CASE waiting = {}
  BY <1>2 DEF Push, NotifyOne, NobodyOversleeps
<1>3. CASE waiting # {}
  <2>1. PICK c \in waiting : waiting' = waiting \ {c}
    BY <1>3 DEF Push, NotifyOne
  <2>2. IsFiniteSet(I \ waiting) /\ c \in I /\ c \notin I \ waiting
    BY FS_Subset DEF NobodyOversleeps
  <2>3. I \ waiting' = (I \ waiting) \cup {c}
    BY <2>1, <2>2
  <2>4. Cardinality(I \ waiting') = Cardinality(I \ waiting) + 1 /\ Cardinality(I \ waiting) \in Nat
    BY <2>2, <2>3, OneAwake
  <2> QED BY <1>1, <1>3, <2>1, <2>4 DEF NobodyOversleeps
<1> QED BY <1>2, <1>3

\* A consumer goes to sleep beside an empty queue only.
LEMMA BlocksBesideNothing ==
  ASSUME NEW Item, QueueType(Item), NEW I, IsFiniteSet(I), NobodyOversleeps(I),
         NEW c \in I, WaitAndPopBlocks(c)
  PROVE  NobodyOversleeps(I)'
<1>1. queue' = <<>> /\ ~shutdown' /\ waiting' = waiting \cup {c}
  BY DEF WaitAndPopBlocks
<1>2. Len(queue') = 0
  BY <1>1, EmptySeq
<1>3. Cardinality(I \ waiting') \in Nat
  <2>1. IsFiniteSet(I \ waiting')
    BY FS_Subset
  <2> QED BY <2>1, FS_CardinalityType
<1> QED BY <1>1, <1>2, <1>3 DEF NobodyOversleeps

\* A spurious wakeup leaves one sleeper less.
LEMMA SpuriousWakeup ==
  ASSUME NEW Item, QueueType(Item), NEW I, IsFiniteSet(I), NobodyOversleeps(I),
         NEW c, WakesSpuriously(c)
  PROVE  NobodyOversleeps(I)'
<1>1. c \in waiting /\ waiting' = waiting \ {c} /\ UNCHANGED <<queue, shutdown>>
  BY DEF WakesSpuriously
<1>2. IsFiniteSet(I \ waiting) /\ c \in I /\ c \notin I \ waiting
  BY <1>1, FS_Subset DEF NobodyOversleeps
<1>3. I \ waiting' = (I \ waiting) \cup {c}
  BY <1>1, <1>2
<1>4. Cardinality(I \ waiting') = Cardinality(I \ waiting) + 1 /\ Cardinality(I \ waiting) \in Nat
  BY <1>2, <1>3, OneAwake
<1>5. Len(queue) \in Nat
  BY LenProperties DEF QueueType
<1> QED BY <1>1, <1>4, <1>5 DEF NobodyOversleeps

\* Whoever takes an item leaves with it.
LEMMA TakesAndLeaves ==
  ASSUME NEW Item, QueueType(Item), NEW I, IsFiniteSet(I), NobodyOversleeps(I),
         NEW c \in I, WaitAndPopTakes(c)
  PROVE  NobodyOversleeps(I \ {c})'
<1>1. /\ c \notin waiting /\ UNCHANGED <<shutdown, waiting>>
      /\ queue # <<>> /\ queue \in Seq(Item) /\ queue' = Tail(queue)
  BY DEF WaitAndPopTakes, QueueType
<1>2. Len(queue') = Len(queue) - 1 /\ Len(queue) \in Nat
  BY <1>1, HeadTailProperties, LenProperties
<1>3. IsFiniteSet(I \ waiting) /\ c \in I \ waiting
  BY <1>1, FS_Subset
<1>4. (I \ {c}) \ waiting' = (I \ waiting) \ {c}
  BY <1>1
<1>5. Cardinality((I \ {c}) \ waiting') = Cardinality(I \ waiting) - 1
      /\ Cardinality(I \ waiting) \in Nat
  <2> DEFINE A == I \ waiting
  <2>1. IsFiniteSet(A) /\ c \in A
    BY <1>3
  <2> HIDE DEF A
  <2>2. Cardinality(A \ {c}) = Cardinality(A) - 1 /\ Cardinality(A) \in Nat
    BY <2>1, OneAwake
  <2> QED BY <1>4, <2>2 DEF A
<1>6. waiting' # {} => ~shutdown' /\ Len(queue') <= Cardinality((I \ {c}) \ waiting')
  BY <1>1, <1>2, <1>5 DEF NobodyOversleeps
<1>7. waiting' \subseteq I \ {c}
  BY <1>1 DEF NobodyOversleeps
<1> QED BY <1>6, <1>7, Zenon DEF NobodyOversleeps

\* Once the queue is cancelled nobody sleeps, whoever comes or leaves.
LEMMA GivesUpAndLeaves ==
  ASSUME NEW I, NobodyOversleeps(I), NEW c, WaitAndPopGivesUp(c)
  PROVE  NobodyOversleeps(I \ {c})'
  BY DEF NobodyOversleeps, WaitAndPopGivesUp, queueVars

LEMMA CancelWakesAll == ASSUME NEW I, Cancel PROVE NobodyOversleeps(I)'
  BY DEF NobodyOversleeps, Cancel

\* A consumer enters WaitAndPop awake.
LEMMA EntersAwake ==
  ASSUME NEW Item, QueueType(Item), NEW I, IsFiniteSet(I), NobodyOversleeps(I), NEW c,
         UNCHANGED queueVars
  PROVE  NobodyOversleeps(I \cup {c})'
<1>1. UNCHANGED <<queue, shutdown, waiting>>
  BY DEF queueVars
<1>2. IsFiniteSet(I \ waiting) /\ Len(queue) \in Nat
  BY FS_Subset, LenProperties DEF QueueType
<1>3. \/ (I \cup {c}) \ waiting' = I \ waiting
      \/ (I \cup {c}) \ waiting' = (I \ waiting) \cup {c}
  BY <1>1
<1>4. Cardinality((I \cup {c}) \ waiting') >= Cardinality(I \ waiting)
      /\ Cardinality(I \ waiting) \in Nat /\ Cardinality((I \cup {c}) \ waiting') \in Nat
  <2> DEFINE A == I \ waiting
  <2>1. IsFiniteSet(A)
    BY <1>2
  <2> HIDE DEF A
  <2>2. /\ Cardinality(A) \in Nat /\ Cardinality(A \cup {c}) \in Nat
        /\ Cardinality(A \cup {c}) >= Cardinality(A)
    <3>1. /\ Cardinality(A) \in Nat
          /\ Cardinality(A \cup {c}) = IF c \in A THEN Cardinality(A) ELSE Cardinality(A) + 1
      BY <2>1, OneAwake, Zenon
    <3> QED BY <3>1
  <2> DEFINE B == (I \cup {c}) \ waiting'
  <2>3. B = A \/ B = A \cup {c}
    BY <1>3 DEF A
  <2> HIDE DEF B
  <2>4. Cardinality(B) >= Cardinality(A) /\ Cardinality(B) \in Nat
    BY <2>2, <2>3
  <2> QED BY <2>2, <2>4 DEF A, B
<1>5. waiting' # {} => ~shutdown' /\ Len(queue') <= Cardinality((I \cup {c}) \ waiting')
  BY <1>1, <1>2, <1>4 DEF NobodyOversleeps
<1>6. waiting' \subseteq I \cup {c}
  BY <1>1 DEF NobodyOversleeps
<1> QED BY <1>5, <1>6, Zenon DEF NobodyOversleeps

LEMMA StaysAwake ==
  ASSUME NEW I, NobodyOversleeps(I), UNCHANGED queueVars
  PROVE  NobodyOversleeps(I)'
  BY DEF NobodyOversleeps, queueVars

\* While something is queued, somebody inside is awake, or nobody sleeps at all.
LEMMA SomebodyIsAwake ==
  ASSUME NEW Item, QueueType(Item), NEW I, IsFiniteSet(I), NobodyOversleeps(I),
         queue # <<>>
  PROVE  waiting = {} \/ \E c \in I : c \notin waiting
<1>1. Len(queue) \in Nat \ {0}
  BY LenProperties, EmptySeq DEF QueueType
<1>2. I \ waiting = {} => Cardinality(I \ waiting) = 0
  BY FS_EmptySet
<1> QED BY <1>1, <1>2 DEF NobodyOversleeps
=============================================================================
