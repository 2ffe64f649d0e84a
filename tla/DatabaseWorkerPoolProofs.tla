---------------------- MODULE DatabaseWorkerPoolProofs ----------------------
(***************************************************************************)
(* Theorems about DatabaseWorkerPool, for any number of connections, any   *)
(* operations and any sizes of transactions.                               *)
(***************************************************************************)
EXTENDS DatabaseWorkerPool, ProducerConsumerQueueProofs, FiniteSetTheorems

-----------------------------------------------------------------------------
(* The inductive invariant *)

Held(o) == \E w \in Consumers : operation[w] = o

\* An operation is queued, or one worker holds it, while it is "enqueued".
OnePlace ==
    /\ Distinct
    /\ \A w \in Consumers : operation[w] \notin Queued
    /\ \A v, w \in Consumers :
          v # w => operation[v] # operation[w] \/ operation[w] = None
    /\ \A o \in Operations : outcome[o] = "enqueued" <=> o \in Queued \/ Held(o)
    /\ \A w \in Consumers : worker[w] \in {"pop", "gone"} => operation[w] = None

\* What a connection has executed and not committed is the transaction of its
\* worker up to the present statement, unless it was lost on the way.
Progress ==
    \A w \in Consumers :
        /\ worker[w] # "run" => uncommitted[w] = {}
        /\ worker[w] = "run" /\ operation[w] \in Transactions \ disturbed =>
              inTrans[w] /\ uncommitted[w] = 1 .. executed[w]

IInv ==
    /\ TypeOK
    /\ OnePlace
    /\ Progress
    /\ ResultMatchesDatabase
    /\ ConnectionOutlivesWorker

-----------------------------------------------------------------------------
(* Facts used by several steps *)

\* Before anything is queued.
LEMMA InitIInv == Init => IInv
<1> SUFFICES ASSUME Init PROVE IInv
  OBVIOUS
<1> USE OperationsAssumption DEF Init, QueueInit
<1>1. Queued = {} /\ Distinct
  BY DEF Queued, Distinct
<1>2. QueueType(Operations)
  BY EmptySeq DEF QueueType
<1>3. TypeOK
  <2>1. \A o \in Operations : applied[o] \in [Statements(o) -> Nat]
    OBVIOUS
  <2>2. losses \in 0 .. MaxLosses /\ DOMAIN applied = Operations
    OBVIOUS
  <2>3. /\ worker \in [Consumers -> {"pop", "check", "gone"} \cup Working]
        /\ \A w \in Consumers : worker[w] \notin Working
    BY DEF Working
  <2> QED BY <1>2, <2>1, <2>2, <2>3 DEF TypeOK
<1>4. OnePlace
  BY <1>1 DEF OnePlace, Held
<1>5. Progress /\ ResultMatchesDatabase /\ ConnectionOutlivesWorker
  BY DEF Progress, ResultMatchesDatabase, ConnectionOutlivesWorker
<1> QED BY <1>3, <1>4, <1>5 DEF IInv

\* A worker at work holds an operation that no other one holds.
LEMMA WorkingHolds ==
  ASSUME IInv, NEW w \in Consumers, operation[w] \in Operations
  PROVE  /\ operation[w] # None
         /\ outcome[operation[w]] = "enqueued"
         /\ operation[w] \notin Queued
         /\ \A v \in Consumers : v # w => operation[v] # operation[w]
  BY OperationsAssumption DEF IInv, OnePlace, Held

\* Giving an operation its outcome takes it out of the pool.
LEMMA EndsInNoPlace ==
  ASSUME IInv, NEW w \in Consumers, operation[w] \in Operations, NEW result,
         result # "enqueued",
         outcome' = [outcome EXCEPT ![operation[w]] = result],
         operation' = [operation EXCEPT ![w] = None],
         NEW at, worker' = [worker EXCEPT ![w] = at],
         queue' = queue
  PROVE  OnePlace'
<1> DEFINE o == operation[w]
<1> USE OperationsAssumption
<1>1. /\ outcome \in [Operations -> {"new", "enqueued", "succeeded", "failed",
                                     "discarded", "leaked"}]
      /\ operation \in [Consumers -> Operations \cup {None}]
      /\ worker \in [Consumers -> {"pop", "check", "gone"} \cup Working]
      /\ Queued \subseteq Operations
  <2>1. queue \in Seq(Operations)
    BY DEF IInv, TypeOK, QueueType
  <2>2. \A k \in DOMAIN queue : queue[k] \in Operations
    BY <2>1, ElementOfSeq, LenProperties
  <2> QED BY <2>2 DEF IInv, TypeOK, Queued
<1>2. Queued' = Queued /\ (Distinct' <=> Distinct)
  BY DEF Queued, Distinct
<1>3. /\ o \notin Queued
      /\ \A v \in Consumers : v # w => operation[v] # o
  BY WorkingHolds
<1>4. \A p \in Operations : Held(p)' <=> Held(p) /\ p # o
  BY <1>1, <1>3 DEF Held
<1> QED BY <1>1, <1>2, <1>3, <1>4 DEF IInv, OnePlace

\* A step that moves no operation.
LEMMA StaysInPlace ==
  ASSUME IInv, UNCHANGED <<queue, outcome, operation>>,
         \A w \in Consumers :
            worker'[w] \in {"pop", "gone"} => operation[w] = None
  PROVE  OnePlace'
<1>1. Queued' = Queued /\ (Distinct' <=> Distinct) /\ \A o : Held(o)' <=> Held(o)
  BY DEF Queued, Distinct, Held
<1> QED BY <1>1 DEF IInv, OnePlace

\* A step that leaves the database and the attempts alone.
LEMMA DatabaseStays ==
  ASSUME IInv, UNCHANGED <<database, attempt>>,
         \A o \in Transactions : outcome'[o] = "succeeded" <=> outcome[o] = "succeeded",
         \A w \in Consumers :
            worker'[w] = "run" =>
               \/ worker[w] = "run" /\ operation'[w] = operation[w]
               \/ operation'[w] \notin Transactions,
         \A w \in Consumers : worker[w] = "run" => worker'[w] = "run" \/ uncommitted[w] = {}
  PROVE  Progress' /\ ResultMatchesDatabase'
<1>1. Progress'
  BY DEF IInv, Progress, database, attempt
<1>2. ResultMatchesDatabase'
  BY DEF IInv, ResultMatchesDatabase, database
<1> QED BY <1>1, <1>2

-----------------------------------------------------------------------------
(* Every step keeps the invariant *)

\* An operation enters the queue once.
LEMMA EnqueueKeeps ==
  ASSUME IInv, NEW o \in Operations, Enqueue(o)
  PROVE  IInv'
<1> USE OperationsAssumption DEF Enqueue, IInv
<1>1. UNCHANGED <<operation, worker, shutdown, database, attempt, retry, connection, pool>>
  BY DEF workerVars, Push
<1>2. /\ outcome \in [Operations -> {"new", "enqueued", "succeeded", "failed",
                                     "discarded", "leaked"}]
      /\ outcome[o] = "new"
      /\ outcome' = [outcome EXCEPT ![o] = "enqueued"]
      /\ o \notin Queued /\ ~Held(o) /\ Distinct
  BY DEF TypeOK, OnePlace
<1>3. /\ queue' \in Seq(Operations) /\ Queued' = Queued \cup {o} /\ Distinct'
  BY <1>2, QueuedAfterPush DEF TypeOK
<1>4. TypeOK'
  <2>1. waiting' \subseteq Consumers
    BY DEF Push, NotifyOne, TypeOK, QueueType
  <2> QED BY <1>1, <1>2, <1>3, <2>1 DEF TypeOK, QueueType, database, attempt, retry
<1>5. OnePlace'
  <2>1. \A p : Held(p)' <=> Held(p)
    BY <1>1 DEF Held
  <2> QED BY <1>1, <1>2, <1>3, <2>1 DEF OnePlace, Held
<1>6. Progress' /\ ResultMatchesDatabase'
  BY <1>1, <1>2, DatabaseStays
<1>7. ConnectionOutlivesWorker'
  BY <1>1 DEF ConnectionOutlivesWorker
<1> QED BY <1>4, <1>5, <1>6, <1>7

\* Steps of Close: the token, and the join of a worker that is gone.
LEMMA CloseKeeps ==
  ASSUME IInv, Close \/ \E w \in Consumers : StopWorker(w) \/ JoinAndClose(w)
  PROVE  IInv'
<1> USE DEF IInv
<1>1. UNCHANGED <<queueVars, outcome, database, workerVars, attempt, retry>>
  BY DEF Close, StopWorker, JoinAndClose
<1>2. /\ connection' \in [Consumers -> {"open", "stopping", "joining", "closed"}]
      /\ pool' \in {"open", "closing", "closed"}
  BY DEF Close, StopWorker, JoinAndClose, TypeOK
<1>3. TypeOK'
  BY <1>1, <1>2 DEF TypeOK, QueueType, queueVars, database, workerVars, attempt, retry
<1>4. OnePlace'
  BY <1>1, StaysInPlace DEF OnePlace, queueVars, workerVars
<1>5. Progress' /\ ResultMatchesDatabase'
  BY <1>1, DatabaseStays DEF workerVars
<1>6. ConnectionOutlivesWorker'
  BY <1>1 DEF ConnectionOutlivesWorker, Close, StopWorker, JoinAndClose, workerVars, TypeOK
<1> QED BY <1>3, <1>4, <1>5, <1>6

\* What is queued is discarded, and what a worker holds is not.
LEMMA CancelQueueKeeps ==
  ASSUME IInv, NEW w \in Consumers, CancelQueue(w)
  PROVE  IInv'
<1> USE DEF IInv, CancelQueue, Cancel
<1>1. UNCHANGED <<database, workerVars, attempt, retry, pool>>
  OBVIOUS
<1>2. /\ outcome \in [Operations -> {"new", "enqueued", "succeeded", "failed",
                                     "discarded", "leaked"}]
      /\ outcome' = [o \in Operations |-> IF o \in Queued THEN "discarded" ELSE outcome[o]]
  BY DEF TypeOK, Queued
<1>3. queue' = <<>> /\ Queued' = {} /\ Distinct' /\ queue' \in Seq(Operations)
  BY EmptySeq DEF Queued, Distinct
<1>4. TypeOK'
  BY <1>1, <1>2, <1>3 DEF TypeOK, QueueType, database, workerVars, attempt, retry
<1>5. OnePlace'
  <2>1. \A o : Held(o)' <=> Held(o)
    BY <1>1 DEF Held, workerVars
  <2>2. \A o \in Queued : ~Held(o)
    BY DEF OnePlace, Held
  <2> QED BY <1>1, <1>2, <1>3, <2>1, <2>2 DEF OnePlace, workerVars
<1>6. Progress' /\ ResultMatchesDatabase'
  <2>1. \A o \in Queued : o \in Operations => outcome[o] = "enqueued"
    BY DEF OnePlace
  <2> QED BY <1>1, <1>2, <2>1, OperationsAssumption, DatabaseStays DEF workerVars
<1>7. ConnectionOutlivesWorker'
  BY <1>1 DEF ConnectionOutlivesWorker, workerVars, TypeOK
<1> QED BY <1>4, <1>5, <1>6, <1>7

\* A worker blocks in WaitAndPop, or wakes up for no reason.
LEMMA SleepKeeps ==
  ASSUME IInv, NEW w \in Consumers, Blocks(w) \/ Wakes(w)
  PROVE  IInv'
<1> USE DEF IInv
<1>1. UNCHANGED <<queue, shutdown, outcome, database, workerVars, attempt, retry,
                  connection, pool>>
      /\ waiting' \subseteq Consumers
  BY DEF Blocks, WaitAndPopBlocks, Wakes, WakesSpuriously, TypeOK, QueueType
<1>2. TypeOK'
  BY <1>1 DEF TypeOK, QueueType, database, workerVars, attempt, retry
<1>3. OnePlace'
  BY <1>1, StaysInPlace DEF OnePlace, workerVars
<1>4. Progress' /\ ResultMatchesDatabase'
  BY <1>1, DatabaseStays DEF workerVars
<1>5. ConnectionOutlivesWorker'
  BY <1>1 DEF ConnectionOutlivesWorker, workerVars
<1> QED BY <1>2, <1>3, <1>4, <1>5

\* A worker takes the operation at the head of the queue.
LEMMA TakesKeeps ==
  ASSUME IInv, NEW w \in Consumers, Takes(w)
  PROVE  IInv'
<1> DEFINE o == Head(queue)
<1> USE OperationsAssumption DEF IInv, Takes
<1>1. Distinct /\ WaitAndPopTakes(w) /\ QueueType(Operations)
  BY DEF OnePlace, TypeOK
<1>2. /\ queue' \in Seq(Operations) /\ o \in Queued /\ o \in Operations
      /\ Queued' = Queued \ {o} /\ Distinct'
  BY <1>1, QueuedAfterPop
<1>3. UNCHANGED <<shutdown, waiting, outcome, database, attempt, retry, connection, pool>>
  BY <1>1 DEF WaitAndPopTakes
<1>4. /\ operation \in [Consumers -> Operations \cup {None}]
      /\ worker \in [Consumers -> {"pop", "check", "gone"} \cup Working]
      /\ operation' = [operation EXCEPT ![w] = o]
      /\ worker' = [worker EXCEPT ![w] = "check"]
      /\ worker[w] = "pop" /\ operation[w] = None
  BY DEF TypeOK, OnePlace
<1>5. TypeOK'
  <2>1. "check" \notin Working
    BY DEF Working
  <2> QED BY <1>2, <1>3, <1>4, <2>1 DEF TypeOK, QueueType, database, attempt, retry
<1>6. OnePlace'
  <2>1. \A p \in Operations : Held(p)' <=> Held(p) \/ p = o
    BY <1>2, <1>4 DEF Held
  <2>2. \A v \in Consumers : operation[v] # o
    BY <1>2 DEF OnePlace
  <2> QED BY <1>2, <1>3, <1>4, <2>1, <2>2 DEF OnePlace
<1>7. Progress' /\ ResultMatchesDatabase'
  BY <1>3, <1>4, DatabaseStays
<1>8. ConnectionOutlivesWorker'
  BY <1>3, <1>4 DEF ConnectionOutlivesWorker
<1> QED BY <1>5, <1>6, <1>7, <1>8

\* WaitAndPop returns without an operation.
LEMMA GivesUpKeeps ==
  ASSUME IInv, NEW w \in Consumers, GivesUp(w)
  PROVE  IInv'
<1> USE DEF IInv, GivesUp, WaitAndPopGivesUp
<1>1. UNCHANGED <<queueVars, outcome, database, operation, attempt, retry, connection, pool>>
  OBVIOUS
<1>2. /\ worker \in [Consumers -> {"pop", "check", "gone"} \cup Working]
      /\ worker' = [worker EXCEPT ![w] = "check"]
      /\ worker[w] = "pop"
  BY DEF TypeOK
<1>3. TypeOK'
  <2>1. "check" \notin Working
    BY DEF Working
  <2> QED BY <1>1, <1>2, <2>1 DEF TypeOK, QueueType, queueVars, database, attempt, retry
<1>4. OnePlace'
  BY <1>1, <1>2, StaysInPlace DEF OnePlace, queueVars
<1>5. Progress' /\ ResultMatchesDatabase'
  BY <1>1, <1>2, DatabaseStays
<1>6. ConnectionOutlivesWorker'
  BY <1>1, <1>2 DEF ConnectionOutlivesWorker
<1> QED BY <1>3, <1>4, <1>5, <1>6

\* A worker ends; an operation it has taken meanwhile is leaked.
LEMMA LeavesKeeps ==
  ASSUME IInv, NEW w \in Consumers, Leaves(w)
  PROVE  IInv'
<1> USE OperationsAssumption DEF IInv, Leaves
<1>1. UNCHANGED <<queueVars, database, attempt, retry, connection, pool>>
  OBVIOUS
<1>2. /\ outcome \in [Operations -> {"new", "enqueued", "succeeded", "failed",
                                     "discarded", "leaked"}]
      /\ operation \in [Consumers -> Operations \cup {None}]
      /\ worker \in [Consumers -> {"pop", "check", "gone"} \cup Working]
      /\ outcome' = [o \in Operations |-> IF o = operation[w] THEN "leaked" ELSE outcome[o]]
      /\ operation' = [operation EXCEPT ![w] = None]
      /\ worker' = [worker EXCEPT ![w] = "gone"]
      /\ worker[w] = "check"
  BY DEF TypeOK
<1>3. TypeOK'
  <2>1. "gone" \notin Working
    BY DEF Working
  <2> QED BY <1>1, <1>2, <2>1 DEF TypeOK, QueueType, queueVars, database, attempt, retry
<1>4. OnePlace'
  <2>1. CASE operation[w] = None
    <3>1. UNCHANGED <<queue, outcome, operation>>
      BY <1>1, <1>2, <2>1 DEF queueVars
    <3> QED BY <1>2, <2>1, <3>1, StaysInPlace DEF OnePlace
  <2>2. CASE operation[w] \in Operations
    <3>1. outcome' = [outcome EXCEPT ![operation[w]] = "leaked"] /\ queue' = queue
      BY <1>1, <1>2 DEF queueVars
    <3> QED BY <1>2, <2>2, <3>1, EndsInNoPlace
  <2> QED BY <1>2, <2>1, <2>2
<1>5. Progress' /\ ResultMatchesDatabase'
  <2>1. operation[w] \in Operations => outcome[operation[w]] = "enqueued"
    BY WorkingHolds
  <2> QED BY <1>1, <1>2, <2>1, DatabaseStays
<1>6. ConnectionOutlivesWorker'
  BY <1>1, <1>2 DEF ConnectionOutlivesWorker
<1> QED BY <1>3, <1>4, <1>5, <1>6

\* A worker at work is on a connection that is not closed.
LEMMA WorkerKeepsConnection ==
  ASSUME IInv, UNCHANGED connection, NEW w \in Consumers, worker[w] # "gone",
         NEW at, worker' = [worker EXCEPT ![w] = at]
  PROVE  ConnectionOutlivesWorker'
  BY DEF IInv, TypeOK, ConnectionOutlivesWorker

\* A worker goes from one place at work to another one; nothing else it holds
\* changes.
LEMMA WorkKeeps ==
  ASSUME IInv, NEW w \in Consumers, worker[w] \notin {"pop", "gone"},
         operation[w] \in Operations,
         NEW at \in Working, worker' = [worker EXCEPT ![w] = at],
         UNCHANGED <<queueVars, outcome, operation, connection>>
  PROVE  /\ OnePlace' /\ ConnectionOutlivesWorker'
         /\ worker' \in [Consumers -> {"pop", "check", "gone"} \cup Working]
         /\ \A v \in Consumers : worker'[v] \in Working => operation'[v] \in Operations
<1>1. worker \in [Consumers -> {"pop", "check", "gone"} \cup Working]
  BY DEF IInv, TypeOK
<1>2. OnePlace'
  BY <1>1, StaysInPlace DEF IInv, OnePlace, queueVars, Working
<1>3. ConnectionOutlivesWorker'
  BY WorkerKeepsConnection
<1> QED BY <1>1, <1>2, <1>3 DEF IInv, TypeOK

\* The worker calls its operation.
LEMMA CallsKeeps ==
  ASSUME IInv, NEW w \in Consumers, Calls(w)
  PROVE  IInv'
<1> DEFINE at == IF IsTransaction(w) THEN "begin" ELSE "run"
<1> USE DEF Calls
<1>1. /\ UNCHANGED <<queueVars, outcome, database, operation, inTrans, uncommitted,
                     retry, connection, pool>>
      /\ worker[w] = "check" /\ worker' = [worker EXCEPT ![w] = at] /\ at \in Working
      /\ executed' = [executed EXCEPT ![w] = 0]
      /\ operation[w] \in Operations
  BY DEF MustLeave, IInv, TypeOK, Working
<1>2. /\ OnePlace' /\ ConnectionOutlivesWorker'
      /\ worker' \in [Consumers -> {"pop", "check", "gone"} \cup Working]
      /\ \A v \in Consumers : worker'[v] \in Working => operation'[v] \in Operations
  BY <1>1, WorkKeeps
<1>3. TypeOK'
  BY <1>1, <1>2 DEF IInv, TypeOK, QueueType, queueVars, database, retry
<1>4. Progress'
  BY <1>1 DEF IInv, Progress, TypeOK, IsTransaction, database
<1>5. ResultMatchesDatabase'
  BY <1>1 DEF IInv, ResultMatchesDatabase, database
<1> QED BY <1>2, <1>3, <1>4, <1>5 DEF IInv

\* START TRANSACTION; an attempt starts with its first statement.
LEMMA BeginTransactionKeeps ==
  ASSUME IInv, NEW w \in Consumers, BeginTransaction(w)
  PROVE  IInv'
<1> USE DEF BeginTransaction
<1>1. /\ UNCHANGED <<queueVars, outcome, database, operation, uncommitted, retry,
                     connection, pool>>
      /\ worker[w] = "begin" /\ worker' = [worker EXCEPT ![w] = "run"]
      /\ "run" \in Working
      /\ executed' = [executed EXCEPT ![w] = 0]
      /\ inTrans' = [inTrans EXCEPT ![w] = TRUE]
      /\ operation[w] \in Operations
  BY DEF IInv, TypeOK, Working
<1>2. /\ OnePlace' /\ ConnectionOutlivesWorker'
      /\ worker' \in [Consumers -> {"pop", "check", "gone"} \cup Working]
      /\ \A v \in Consumers : worker'[v] \in Working => operation'[v] \in Operations
  BY <1>1, WorkKeeps
<1>3. TypeOK'
  BY <1>1, <1>2 DEF IInv, TypeOK, QueueType, queueVars, database, retry
<1>4. Progress'
  <2>1. 1 .. 0 = {}
    OBVIOUS
  <2> QED BY ZenonT(60), <1>1, <2>1 DEF IInv, Progress, TypeOK, database
<1>5. ResultMatchesDatabase'
  BY <1>1 DEF IInv, ResultMatchesDatabase, database
<1> QED BY <1>2, <1>3, <1>4, <1>5 DEF IInv

\* Steps of a transaction between two attempts.
LEMMA BetweenAttemptsKeeps ==
  ASSUME IInv, NEW w \in Consumers, LockForRetry(w) \/ RetriesAgain(w)
  PROVE  IInv'
<1> USE DEF LockForRetry, RetriesAgain
<1>1. /\ UNCHANGED <<queueVars, outcome, database, operation, attempt, expired,
                     connection, pool>>
      /\ worker[w] \in {"lock", "again"} /\ worker' = [worker EXCEPT ![w] = "begin"]
      /\ "begin" \in Working
      /\ deadlockLock' \in {w, deadlockLock}
      /\ operation[w] \in Operations
  BY DEF IInv, TypeOK, Working, retry
<1>2. /\ OnePlace' /\ ConnectionOutlivesWorker'
      /\ worker' \in [Consumers -> {"pop", "check", "gone"} \cup Working]
      /\ \A v \in Consumers : worker'[v] \in Working => operation'[v] \in Operations
  BY <1>1, WorkKeeps
<1>3. TypeOK'
  BY <1>1, <1>2 DEF IInv, TypeOK, QueueType, queueVars, database, attempt
<1>4. Progress' /\ ResultMatchesDatabase'
  BY <1>1, DatabaseStays DEF IInv, TypeOK
<1> QED BY <1>2, <1>3, <1>4 DEF IInv

\* The transaction is rolled back and waits for the retry lock.
LEMMA DeadlocksKeeps ==
  ASSUME IInv, NEW w \in Consumers, Deadlocks(w)
  PROVE  IInv'
<1> USE DEF Deadlocks, LeaveTransaction
<1>1. /\ UNCHANGED <<queueVars, outcome, database, operation, executed, retry,
                     connection, pool>>
      /\ worker[w] = "run" /\ worker' = [worker EXCEPT ![w] = "lock"]
      /\ "lock" \in Working
      /\ inTrans' = [inTrans EXCEPT ![w] = FALSE]
      /\ uncommitted' = [uncommitted EXCEPT ![w] = {}]
      /\ operation[w] \in Operations
  BY DEF IInv, TypeOK, Working
<1>2. /\ OnePlace' /\ ConnectionOutlivesWorker'
      /\ worker' \in [Consumers -> {"pop", "check", "gone"} \cup Working]
      /\ \A v \in Consumers : worker'[v] \in Working => operation'[v] \in Operations
  BY <1>1, WorkKeeps
<1>3. TypeOK'
  BY <1>1, <1>2 DEF IInv, TypeOK, QueueType, queueVars, database, retry
<1>4. Progress'
  BY <1>1 DEF IInv, Progress, TypeOK, database
<1>5. ResultMatchesDatabase'
  BY <1>1 DEF IInv, ResultMatchesDatabase, database
<1> QED BY <1>2, <1>3, <1>4, <1>5 DEF IInv

\* The clock.
LEMMA MinutePassesKeeps == IInv /\ MinutePasses => IInv'
<1> SUFFICES ASSUME IInv, MinutePasses PROVE IInv'
  OBVIOUS
<1> USE DEF MinutePasses
<1>1. TypeOK'
  BY DEF IInv, TypeOK, QueueType, queueVars, database, attempt, workerVars
<1>2. OnePlace'
  BY StaysInPlace DEF IInv, OnePlace, queueVars, workerVars
<1>3. Progress' /\ ResultMatchesDatabase'
  BY DatabaseStays DEF workerVars
<1>4. ConnectionOutlivesWorker'
  BY DEF IInv, ConnectionOutlivesWorker, workerVars
<1> QED BY <1>1, <1>2, <1>3, <1>4 DEF IInv

\* What Apply does: statements S of operation o take effect once more.
LEMMA ApplyType ==
  ASSUME TypeOK, NEW o \in Operations, NEW S
  PROVE  LET after == Apply(o, S) IN
         /\ DOMAIN after = Operations
         /\ \A p \in Operations : after[p] \in [Statements(p) -> Nat]
         /\ \A p \in Operations : p # o => after[p] = applied[p]
         /\ \A k \in Statements(o) :
               after[o][k] = IF k \in S THEN applied[o][k] + 1 ELSE applied[o][k]
<1> DEFINE after == Apply(o, S)
           entry == [k \in Statements(o) |-> IF k \in S THEN applied[o][k] + 1
                                                       ELSE applied[o][k]]
<1>1. applied[o] \in [Statements(o) -> Nat] /\ DOMAIN applied = Operations
  BY DEF TypeOK
<1>2. after = [applied EXCEPT ![o] = entry]
  BY DEF Apply
<1>3. entry \in [Statements(o) -> Nat]
  BY <1>1
<1> HIDE DEF entry, after
<1>4. DOMAIN after = Operations /\ after[o] = entry
      /\ \A p \in Operations : p # o => after[p] = applied[p]
  BY <1>1, <1>2
<1>5. \A p \in Operations : after[p] \in [Statements(p) -> Nat]
  BY <1>3, <1>4 DEF TypeOK
<1> QED BY <1>4, <1>5 DEF after, entry

\* A statement of a transaction stays uncommitted; outside of one it takes effect.
LEMMA ExecuteStatementKeeps ==
  ASSUME IInv, NEW w \in Consumers, ExecuteStatement(w)
  PROVE  IInv'
<1> DEFINE o == operation[w]
           next == executed[w] + 1
<1> USE OperationsAssumption
<1>1. /\ UNCHANGED <<queueVars, outcome, disturbed, losses, workerVars, inTrans,
                     retry, connection, pool>>
      /\ worker[w] = "run" /\ o \in Operations
      /\ executed \in [Consumers -> Nat] /\ executed' = [executed EXCEPT ![w] = next]
      /\ uncommitted \in [Consumers -> SUBSET Nat]
      /\ IF inTrans[w]
         THEN uncommitted' = [uncommitted EXCEPT ![w] = @ \cup {next}] /\ UNCHANGED applied
         ELSE applied' = Apply(o, {next}) /\ UNCHANGED uncommitted
  BY DEF ExecuteStatement, IInv, TypeOK, Working
<1>2. /\ DOMAIN applied' = Operations
      /\ \A p \in Operations : applied'[p] \in [Statements(p) -> Nat]
      /\ \A p \in Operations : p # o \/ inTrans[w] => applied'[p] = applied[p]
  <2>1. TypeOK
    BY DEF IInv
  <2>2. CASE inTrans[w]
    BY <1>1, <2>1, <2>2 DEF TypeOK
  <2>3. CASE ~inTrans[w]
    BY <1>1, <2>1, <2>3, ApplyType
  <2> QED BY <2>2, <2>3
<1>3. executed' \in [Consumers -> Nat] /\ uncommitted' \in [Consumers -> SUBSET Nat]
  BY <1>1
<1>4. TypeOK'
  BY <1>1, <1>2, <1>3 DEF IInv, TypeOK, QueueType, queueVars, workerVars, retry
<1>5. OnePlace' /\ ConnectionOutlivesWorker'
  BY <1>1, StaysInPlace DEF IInv, OnePlace, ConnectionOutlivesWorker, queueVars, workerVars
<1>6. Progress'
  <2> SUFFICES ASSUME NEW v \in Consumers
               PROVE  /\ worker[v] # "run" => uncommitted'[v] = {}
                      /\ worker[v] = "run" /\ operation[v] \in Transactions \ disturbed =>
                            inTrans[v] /\ uncommitted'[v] = 1 .. executed'[v]
    BY <1>1 DEF Progress, workerVars
  <2>1. CASE v # w
    <3>1. uncommitted'[v] = uncommitted[v] /\ executed'[v] = executed[v]
      BY <1>1, <2>1
    <3> QED BY <3>1 DEF IInv, Progress
  <2>2. CASE v = w /\ o \in Transactions \ disturbed
    <3>1. inTrans[w] /\ uncommitted[w] = 1 .. executed[w] /\ executed[w] \in Nat
      BY <1>1, <2>2 DEF IInv, Progress
    <3>2. uncommitted'[w] = (1 .. executed[w]) \cup {next} /\ executed'[w] = next
      BY <1>1, <3>1
    <3>3. 1 .. next = (1 .. executed[w]) \cup {next}
      BY <3>1
    <3> QED BY <1>1, <2>2, <3>1, <3>2, <3>3
  <2> QED BY <1>1, <2>1, <2>2
<1>7. ResultMatchesDatabase'
  <2>1. \A p \in Transactions \ disturbed : applied'[p] = applied[p]
    BY <1>1, <1>2 DEF IInv, Progress
  <2> QED BY <1>1, <2>1 DEF IInv, ResultMatchesDatabase
<1> QED BY <1>4, <1>5, <1>6, <1>7 DEF IInv

\* The end of an operation, with what it did to the database.
LEMMA FinishKeeps ==
  ASSUME IInv, NEW w \in Consumers, NEW result \in {"succeeded", "failed"},
         worker[w] \in Working, Finish(w, result),
         UNCHANGED <<queueVars, connection, pool, executed, disturbed, losses>>,
         LeaveTransaction(w) \/ (worker[w] # "run" /\ UNCHANGED <<inTrans, uncommitted>>),
         DOMAIN applied' = Operations,
         \A p \in Operations : applied'[p] \in [Statements(p) -> Nat],
         \A p \in Transactions \ disturbed : \A k \in Statements(p) :
            applied'[p][k] = IF p = operation[w] /\ result = "succeeded"
                             THEN applied[p][k] + 1 ELSE applied[p][k]
  PROVE  IInv'
<1> DEFINE o == operation[w]
<1> USE OperationsAssumption DEF Finish
<1>1. /\ o \in Operations /\ outcome[o] = "enqueued"
      /\ outcome \in [Operations -> {"new", "enqueued", "succeeded", "failed",
                                     "discarded", "leaked"}]
      /\ operation \in [Consumers -> Operations \cup {None}]
      /\ worker \in [Consumers -> {"pop", "check", "gone"} \cup Working]
      /\ inTrans \in [Consumers -> BOOLEAN]
      /\ uncommitted \in [Consumers -> SUBSET Nat]
      /\ worker[w] # "gone"
  BY WorkingHolds DEF IInv, TypeOK, Working
<1>2. /\ outcome' = [outcome EXCEPT ![o] = result]
      /\ operation' = [operation EXCEPT ![w] = None]
      /\ worker' = [worker EXCEPT ![w] = "pop"]
      /\ "pop" \notin Working
  BY DEF Working
<1>3. /\ inTrans' \in [Consumers -> BOOLEAN]
      /\ uncommitted' \in [Consumers -> SUBSET Nat]
      /\ \A v \in Consumers : v # w => inTrans'[v] = inTrans[v] /\ uncommitted'[v] = uncommitted[v]
      /\ uncommitted'[w] = {}
  BY ZenonT(40), <1>1 DEF LeaveTransaction, IInv, Progress
<1>4. deadlockLock' \in Consumers \cup {None} /\ expired' \in BOOLEAN
  BY DEF Release, IInv, TypeOK
<1>5. TypeOK'
  <2>1. \A v \in Consumers : worker'[v] \in Working => operation'[v] \in Operations
    BY <1>1, <1>2 DEF IInv, TypeOK
  <2>2. /\ outcome' \in [Operations -> {"new", "enqueued", "succeeded", "failed",
                                        "discarded", "leaked"}]
        /\ operation' \in [Consumers -> Operations \cup {None}]
        /\ worker' \in [Consumers -> {"pop", "check", "gone"} \cup Working]
    BY <1>1, <1>2
  <2>3. /\ QueueType(Operations)' /\ disturbed' \subseteq Operations
        /\ losses' \in 0 .. MaxLosses /\ executed' \in [Consumers -> Nat]
        /\ connection' \in [Consumers -> {"open", "stopping", "joining", "closed"}]
        /\ pool' \in {"open", "closing", "closed"}
    BY DEF IInv, TypeOK, QueueType, queueVars
  <2> HIDE DEF Finish
  <2> QED BY <1>3, <1>4, <2>1, <2>2, <2>3 DEF TypeOK
<1>6. OnePlace'
  BY ZenonT(60), <1>1, <1>2, EndsInNoPlace DEF queueVars
<1>7. ConnectionOutlivesWorker'
  BY <1>1, <1>2, WorkerKeepsConnection
<1>8. Progress'
  BY <1>1, <1>2, <1>3 DEF IInv, Progress
<1>9. ResultMatchesDatabase'
  <2> SUFFICES ASSUME NEW p \in Transactions \ disturbed, NEW k \in Statements(p)
               PROVE  applied'[p][k] = IF outcome'[p] = "succeeded" THEN 1 ELSE 0
    BY DEF ResultMatchesDatabase, Statements
  <2>1. applied[p][k] = IF outcome[p] = "succeeded" THEN 1 ELSE 0
    BY DEF IInv, ResultMatchesDatabase
  <2>2. CASE p = o
    BY <1>1, <1>2, <2>1, <2>2
  <2>3. CASE p # o
    BY <1>1, <1>2, <2>1, <2>3
  <2> QED BY <2>2, <2>3
<1> QED BY <1>5, <1>6, <1>7, <1>8, <1>9 DEF IInv

\* COMMIT: all statements of the transaction take effect, each of them once.
LEMMA SucceedsKeeps ==
  ASSUME IInv, NEW w \in Consumers, Succeeds(w)
  PROVE  IInv'
<1> DEFINE o == operation[w]
<1> USE OperationsAssumption
<1>1. /\ worker[w] = "run" /\ o \in Operations
      /\ executed[w] = SizeOf[o]
      /\ applied' = Apply(o, uncommitted[w])
  BY DEF Succeeds, AllExecuted, IInv, TypeOK, Working
<1>2. TypeOK
  BY DEF IInv
<1>3. /\ DOMAIN applied' = Operations
      /\ \A p \in Operations : applied'[p] \in [Statements(p) -> Nat]
      /\ \A p \in Operations : p # o => applied'[p] = applied[p]
      /\ \A k \in Statements(o) :
            k \in uncommitted[w] => applied'[o][k] = applied[o][k] + 1
  BY <1>1, <1>2, ApplyType
<1>4. o \in Transactions \ disturbed => uncommitted[w] = Statements(o)
  BY <1>1 DEF IInv, Progress, Statements
<1>5. \A p \in Transactions \ disturbed : \A k \in Statements(p) :
         applied'[p][k] = IF p = o /\ "succeeded" = "succeeded"
                          THEN applied[p][k] + 1 ELSE applied[p][k]
  BY <1>3, <1>4
<1> QED BY <1>1, <1>3, <1>5, FinishKeeps DEF Succeeds, Working

\* An attempt fails; in a retry another one follows.
LEMMA FailsKeeps ==
  ASSUME IInv, NEW w \in Consumers, Fails(w)
  PROVE  IInv'
<1> USE OperationsAssumption DEF Fails
<1>1. UNCHANGED <<queueVars, database, executed, connection, pool>>
      /\ worker[w] = "run" /\ LeaveTransaction(w)
  OBVIOUS
<1>2. CASE Retrying(w)
  <2>1. /\ UNCHANGED <<outcome, operation, retry>>
        /\ worker' = [worker EXCEPT ![w] = "again"] /\ "again" \in Working
        /\ operation[w] \in Operations
    BY <1>2 DEF IInv, TypeOK, Working
  <2>2. /\ OnePlace' /\ ConnectionOutlivesWorker'
        /\ worker' \in [Consumers -> {"pop", "check", "gone"} \cup Working]
        /\ \A v \in Consumers : worker'[v] \in Working => operation'[v] \in Operations
    BY <1>1, <2>1, WorkKeeps
  <2>3. TypeOK'
    BY <1>1, <2>1, <2>2 DEF IInv, TypeOK, QueueType, queueVars, database, retry,
                            LeaveTransaction
  <2>4. Progress'
    BY <1>1, <2>1 DEF IInv, Progress, TypeOK, database, LeaveTransaction
  <2>5. ResultMatchesDatabase'
    BY <1>1, <2>1 DEF IInv, ResultMatchesDatabase, database
  <2> QED BY <2>2, <2>3, <2>4, <2>5 DEF IInv
<1>3. CASE ~Retrying(w)
  <2>1. Finish(w, "failed") /\ applied' = applied
    BY <1>1, <1>3 DEF database
  <2>2. /\ DOMAIN applied' = Operations
        /\ \A p \in Operations : applied'[p] \in [Statements(p) -> Nat]
    BY <2>1 DEF IInv, TypeOK
  <2> QED BY <1>1, <2>1, <2>2, FinishKeeps DEF Working, database
<1> QED BY <1>2, <1>3

\* The minute is over: the transaction is reported as failed.
LEMMA GivesTransactionUpKeeps ==
  ASSUME IInv, NEW w \in Consumers, GivesTransactionUp(w)
  PROVE  IInv'
<1>1. /\ UNCHANGED <<queueVars, database, attempt, connection, pool>>
      /\ worker[w] = "again" /\ Finish(w, "failed") /\ applied' = applied
  BY DEF GivesTransactionUp, database
<1>2. /\ DOMAIN applied' = Operations
      /\ \A p \in Operations : applied'[p] \in [Statements(p) -> Nat]
  BY <1>1 DEF IInv, TypeOK
<1> QED BY <1>1, <1>2, FinishKeeps DEF Working, database, attempt

\* The operation that loses its connection is disturbed from then on; the others
\* are not touched.
LEMMA LosesConnectionKeeps ==
  ASSUME IInv, NEW w \in Consumers, LosesConnection(w)
  PROVE  IInv'
<1> DEFINE o == operation[w]
<1> USE OperationsAssumption
<1>1. /\ UNCHANGED <<queueVars, outcome, workerVars, executed, retry, connection, pool>>
      /\ worker[w] = "run" /\ o \in Operations
      /\ losses' \in 0 .. MaxLosses
      /\ disturbed' = disturbed \cup {o}
      /\ inTrans' = [inTrans EXCEPT ![w] = FALSE]
      /\ uncommitted' = [uncommitted EXCEPT ![w] = {}]
      /\ applied' = applied \/ \E S \in SUBSET Nat : applied' = Apply(o, S)
  <2>1. executed[w] + 1 \in Nat /\ uncommitted[w] \in SUBSET Nat
        /\ losses \in 0 .. MaxLosses
    BY DEF IInv, TypeOK
  <2> QED BY <2>1 DEF LosesConnection, LeaveTransaction, IInv, TypeOK, Working
<1>2. /\ DOMAIN applied' = Operations
      /\ \A p \in Operations : applied'[p] \in [Statements(p) -> Nat]
      /\ \A p \in Operations : p # o => applied'[p] = applied[p]
  <2>1. TypeOK
    BY DEF IInv
  <2>2. CASE applied' = applied
    BY <2>1, <2>2 DEF TypeOK
  <2>3. CASE \E S \in SUBSET Nat : applied' = Apply(o, S)
    BY <1>1, <2>1, <2>3, ApplyType
  <2> QED BY <1>1, <2>2, <2>3
<1>3. TypeOK'
  BY <1>1, <1>2 DEF IInv, TypeOK, QueueType, queueVars, workerVars, retry
<1>4. OnePlace' /\ ConnectionOutlivesWorker'
  BY <1>1, StaysInPlace DEF IInv, OnePlace, ConnectionOutlivesWorker, queueVars, workerVars
<1>5. Progress'
  BY <1>1 DEF IInv, Progress, TypeOK, workerVars
<1>6. ResultMatchesDatabase'
  BY <1>1, <1>2 DEF IInv, ResultMatchesDatabase
<1> QED BY <1>3, <1>4, <1>5, <1>6 DEF IInv

\* A step that changes nothing.
LEMMA StutterKeeps == IInv /\ UNCHANGED vars => IInv'
<1> SUFFICES ASSUME IInv, UNCHANGED vars PROVE IInv'
  OBVIOUS
<1>1. UNCHANGED <<queueVars, outcome, database, workerVars, attempt, retry, connection, pool>>
  BY DEF vars
<1>2. TypeOK'
  BY <1>1 DEF IInv, TypeOK, QueueType, queueVars, database, workerVars, attempt, retry
<1>3. OnePlace' /\ ConnectionOutlivesWorker'
  BY <1>1, StaysInPlace DEF IInv, OnePlace, ConnectionOutlivesWorker, queueVars, workerVars
<1>4. Progress' /\ ResultMatchesDatabase'
  BY <1>1, DatabaseStays DEF workerVars
<1> QED BY <1>2, <1>3, <1>4 DEF IInv

\* Every step keeps the invariant.
LEMMA NextIInv == IInv /\ [Next]_vars => IInv'
<1> SUFFICES ASSUME IInv, [Next]_vars PROVE IInv'
  OBVIOUS
<1>1. CASE Close \/ MinutePasses
  BY <1>1, CloseKeeps, MinutePassesKeeps
<1>2. ASSUME NEW o \in Operations, Enqueue(o) PROVE IInv'
  BY <1>2, EnqueueKeeps
<1>3. ASSUME NEW w \in Consumers, Closing(w) \/ LosesConnection(w) PROVE IInv'
  BY <1>3, CloseKeeps, CancelQueueKeeps, LosesConnectionKeeps DEF Closing
<1>4. ASSUME NEW w \in Consumers, Transaction(w) PROVE IInv'
  BY <1>4, BeginTransactionKeeps, ExecuteStatementKeeps, SucceedsKeeps, FailsKeeps,
     DeadlocksKeeps, BetweenAttemptsKeeps, GivesTransactionUpKeeps DEF Transaction
<1>5. ASSUME NEW w \in Consumers, Worker(w) \/ Wakes(w) PROVE IInv'
  BY <1>4, <1>5, SleepKeeps, TakesKeeps, GivesUpKeeps, LeavesKeeps, CallsKeeps DEF Worker
<1>6. CASE UNCHANGED vars
  BY <1>6, StutterKeeps
<1> QED BY <1>1, <1>2, <1>3, <1>5, <1>6 DEF Next

\* The invariant holds in every behaviour.
LEMMA SpecIInv == Spec => []IInv
  BY InitIInv, NextIInv, PTL DEF Spec

\* OnePlace, counted.
LEMMA OnePlaceCounted == IInv => EveryOperationInOnePlace
<1> SUFFICES ASSUME IInv, NEW o \in Operations
             PROVE  Cardinality({i \in DOMAIN queue : queue[i] = o})
                       + Cardinality({w \in Consumers : operation[w] = o})
                          = IF outcome[o] = "enqueued" THEN 1 ELSE 0
  BY DEF EveryOperationInOnePlace
<1> DEFINE At == {i \in DOMAIN queue : queue[i] = o}
           By == {w \in Consumers : operation[w] = o}
<1>1. o # None /\ OnePlace
  BY OperationsAssumption DEF IInv
<1>2. IF o \in Queued THEN \E i : At = {i} ELSE At = {}
  <2>1. CASE o \in Queued
    <3>1. PICK i \in DOMAIN queue : queue[i] = o
      BY <2>1 DEF Queued
    <3>2. \A j \in DOMAIN queue : queue[j] = o => j = i
      BY <1>1, <3>1 DEF OnePlace, Distinct
    <3>3. At = {i}
      BY <3>1, <3>2
    <3> QED BY <2>1, <3>3
  <2>2. CASE o \notin Queued
    BY <2>2 DEF Queued
  <2> QED BY <2>1, <2>2
<1>3. IF Held(o) THEN \E w : By = {w} ELSE By = {}
  <2>1. CASE Held(o)
    <3>1. PICK w \in Consumers : operation[w] = o
      BY <2>1 DEF Held
    <3>2. \A v \in Consumers : operation[v] = o => v = w
      BY <1>1, <3>1 DEF OnePlace
    <3>3. By = {w}
      BY <3>1, <3>2
    <3> QED BY <2>1, <3>3
  <2>2. CASE ~Held(o)
    BY <2>2 DEF Held
  <2> QED BY <2>1, <2>2
<1>4. ~(o \in Queued /\ Held(o))
  BY <1>1 DEF OnePlace, Held
<1>5. \A x : Cardinality({x}) = 1
  BY FS_Singleton
<1>6. Cardinality({}) = 0
  BY FS_EmptySet
<1>7. Cardinality(At) = IF o \in Queued THEN 1 ELSE 0
  BY <1>2, <1>5, <1>6
<1>8. Cardinality(By) = IF Held(o) THEN 1 ELSE 0
  BY <1>3, <1>5, <1>6
<1>9. outcome[o] = "enqueued" <=> o \in Queued \/ Held(o)
  BY <1>1 DEF OnePlace
<1> HIDE DEF At, By
<1>10. Cardinality(At) + Cardinality(By) = IF outcome[o] = "enqueued" THEN 1 ELSE 0
  BY <1>4, <1>7, <1>8, <1>9
<1> QED BY <1>10 DEF At, By

-----------------------------------------------------------------------------
(* Theorems *)

\* Every variable keeps its type, and a worker at work holds an operation.
THEOREM TypeCorrect == Spec => []TypeOK
<1>1. IInv => TypeOK
  BY DEF IInv
<1> QED BY <1>1, SpecIInv, PTL

\* No operation is executed, deleted or answered twice, and none is lost before
\* it has an outcome.
THEOREM OneWorkerPerOperation == Spec => []EveryOperationInOnePlace
  BY SpecIInv, OnePlaceCounted, PTL

\* The answer a TransactionCallback receives is what happened in the database,
\* retries included, as long as the connection was not lost.
THEOREM ResultsAreTrue == Spec => []ResultMatchesDatabase
<1>1. IInv => ResultMatchesDatabase
  BY DEF IInv
<1> QED BY <1>1, SpecIInv, PTL

\* MySQLConnection::Close joins the worker before it closes the connection.
THEOREM NoWorkerLeftBehind == Spec => []ConnectionOutlivesWorker
<1>1. IInv => ConnectionOutlivesWorker
  BY DEF IInv
<1> QED BY <1>1, SpecIInv, PTL


-----------------------------------------------------------------------------
(* Nobody waits in vain *)

Inside == {w \in Consumers : worker[w] = "pop"}

\* Who sleeps and who has been woken up, how far Close has come, and who has the
\* lock of the retries.
Waking ==
    /\ NobodyOversleeps(Inside)
    /\ shutdown => queue = <<>> /\ pool # "open"
    /\ \A w \in Consumers :
          /\ connection[w] # "open" => pool # "open"
          /\ connection[w] \in {"joining", "closed"} => shutdown
          /\ worker[w] = "check" => operation[w] # None \/ shutdown
          /\ worker[w] = "gone" => connection[w] # "open" \/ shutdown
    /\ deadlockLock # None => worker[deadlockLock] \in {"begin", "run", "again"}

\* Finitely many workers are inside WaitAndPop.
LEMMA InsideIsFinite == IsFiniteSet(Inside)
  BY WorkersAssumption, FS_Subset DEF Inside

\* NobodyOversleeps after a step, from what the lemmas about the queue say of
\* the set of workers that are inside WaitAndPop then.
LEMMA InsideAfter ==
  ASSUME NEW J, J = Inside', NobodyOversleeps(J)'
  PROVE  NobodyOversleeps(Inside)'
  BY DEF NobodyOversleeps

\* Before anything is queued.
LEMMA InitWaking == Init => Waking
<1> SUFFICES ASSUME Init PROVE Waking
  OBVIOUS
<1>1. NobodyOversleeps(Inside)
  BY DEF Init, QueueInit, NobodyOversleeps
<1> QED BY <1>1 DEF Init, QueueInit, Waking

\* Push wakes one worker up; nothing is queued once Close has begun.
LEMMA EnqueueKeepsWaking ==
  ASSUME IInv, Waking, NEW o \in Operations, Enqueue(o)
  PROVE  Waking'
<1>1. UNCHANGED <<worker, operation, connection, pool, shutdown, deadlockLock>> /\ pool = "open"
  BY DEF Enqueue, Push, workerVars, retry
<1>2. NobodyOversleeps(Inside)'
  <2>1. PICK J : J = Inside' /\ J = Inside
    BY <1>1 DEF Inside
  <2>2. QueueType(Operations) /\ Push(o) /\ NobodyOversleeps(J) /\ IsFiniteSet(J)
    BY <2>1, InsideIsFinite DEF IInv, TypeOK, Enqueue, Waking
  <2>3. NobodyOversleeps(J)'
    BY <2>2, PushWakesOne
  <2> QED BY <2>1, <2>3, InsideAfter
<1> QED BY <1>1, <1>2 DEF Waking

\* Steps of Close that leave the queue alone, and the clock.
LEMMA CloseKeepsWaking ==
  ASSUME IInv, Waking,
         Close \/ MinutePasses \/ \E w \in Consumers : StopWorker(w) \/ JoinAndClose(w)
  PROVE  Waking'
<1>1. UNCHANGED <<queueVars, worker, operation, deadlockLock>>
  BY DEF Close, MinutePasses, StopWorker, JoinAndClose, workerVars, retry
<1>2. NobodyOversleeps(Inside)'
  <2>1. PICK J : J = Inside' /\ J = Inside
    BY <1>1 DEF Inside
  <2>2. NobodyOversleeps(J)'
    BY <1>1, <2>1, StaysAwake DEF Waking
  <2> QED BY <2>1, <2>2, InsideAfter
<1>3. pool # "open" => pool' # "open"
  BY DEF Close, MinutePasses, StopWorker, JoinAndClose
<1>4. \A w \in Consumers :
         /\ connection'[w] # "open" => pool' # "open"
         /\ connection'[w] \in {"joining", "closed"} => connection[w] \in {"joining", "closed"}
         /\ connection[w] # "open" => connection'[w] # "open"
  BY <1>3 DEF Close, MinutePasses, StopWorker, JoinAndClose, Waking, IInv, TypeOK
<1> QED BY <1>1, <1>2, <1>3, <1>4 DEF Waking, queueVars

\* Cancel empties the queue and wakes everybody up.
LEMMA CancelKeepsWaking ==
  ASSUME IInv, Waking, NEW w \in Consumers, CancelQueue(w)
  PROVE  Waking'
<1>1. PICK J : J = Inside'
  OBVIOUS
<1>2. NobodyOversleeps(J)'
  BY CancelWakesAll DEF CancelQueue
<1>3. NobodyOversleeps(Inside)'
  BY <1>1, <1>2, InsideAfter
<1>4. \A v \in Consumers : connection[v] # "open" <=> connection'[v] # "open"
  BY DEF CancelQueue, IInv, TypeOK
<1> QED BY <1>3, <1>4 DEF CancelQueue, Cancel, workerVars, retry, Waking

\* A worker in WaitAndPop.
LEMMA PopKeepsWaking ==
  ASSUME IInv, Waking, NEW w \in Consumers, Blocks(w) \/ Wakes(w) \/ Takes(w) \/ GivesUp(w)
  PROVE  Waking'
<1>1. /\ UNCHANGED <<connection, pool, deadlockLock, shutdown>>
      /\ QueueType(Operations)
      /\ worker \in [Consumers -> {"pop", "check", "gone"} \cup Working]
      /\ NobodyOversleeps(Inside) /\ IsFiniteSet(Inside)
      /\ deadlockLock \in Consumers \cup {None}
  BY InsideIsFinite
  DEF Blocks, Wakes, Takes, GivesUp, retry, WaitAndPopBlocks, WakesSpuriously,
      WaitAndPopTakes, WaitAndPopGivesUp, queueVars, IInv, TypeOK, Waking
<1>2. NobodyOversleeps(Inside)'
  <2>1. PICK J, K : J = Inside' /\ K = Inside
    OBVIOUS
  <2>2. CASE Blocks(w)
    <3>1. J = Inside /\ w \in Inside /\ WaitAndPopBlocks(w)
      BY <2>1, <2>2 DEF Blocks, workerVars, Inside
    <3>2. NobodyOversleeps(J)'
      BY <1>1, <3>1, BlocksBesideNothing
    <3> QED BY <2>1, <3>2, InsideAfter
  <2>3. CASE Wakes(w)
    <3>1. J = Inside /\ WakesSpuriously(w)
      BY <2>1, <2>3 DEF Wakes, workerVars, Inside
    <3>2. NobodyOversleeps(J)'
      BY <1>1, <3>1, SpuriousWakeup
    <3> QED BY <2>1, <3>2, InsideAfter
  <2>4. CASE Takes(w)
    <3>1. J = Inside \ {w} /\ w \in Inside /\ WaitAndPopTakes(w)
      BY <1>1, <2>1, <2>4 DEF Takes, Inside
    <3>2. NobodyOversleeps(K \ {w})'
      BY <1>1, <2>1, <3>1, TakesAndLeaves
    <3>3. NobodyOversleeps(J)'
      BY <2>1, <3>1, <3>2
    <3> QED BY <2>1, <3>3, InsideAfter
  <2>5. CASE GivesUp(w)
    <3>1. J = Inside \ {w} /\ WaitAndPopGivesUp(w)
      BY <1>1, <2>1, <2>5 DEF GivesUp, Inside
    <3>2. NobodyOversleeps(K \ {w})'
      BY <1>1, <2>1, <3>1, GivesUpAndLeaves
    <3>3. NobodyOversleeps(J)'
      BY <2>1, <3>1, <3>2
    <3> QED BY <2>1, <3>3, InsideAfter
  <2> QED BY <2>2, <2>3, <2>4, <2>5
<1>3. shutdown => queue' = <<>>
  BY DEF Blocks, Wakes, Takes, GivesUp, WaitAndPopBlocks, WakesSpuriously,
         WaitAndPopTakes, WaitAndPopGivesUp, queueVars, Waking
<1>4. \A v \in Consumers :
         /\ worker'[v] = "gone" => worker[v] = "gone"
         /\ v # w => worker'[v] = worker[v] /\ operation'[v] = operation[v]
  BY <1>1 DEF Blocks, Wakes, Takes, GivesUp, workerVars, IInv, TypeOK
<1>5. worker'[w] = "check" => operation'[w] # None \/ shutdown
  <2>1. CASE Blocks(w) \/ Wakes(w)
    BY <2>1 DEF Blocks, Wakes, workerVars, Waking
  <2>2. CASE Takes(w)
    <3>1. Head(queue) \in Operations
      BY <1>1, <2>2, HeadTailProperties DEF Takes, WaitAndPopTakes, QueueType
    <3> QED BY <2>2, <3>1, OperationsAssumption DEF Takes, IInv, TypeOK
  <2>3. CASE GivesUp(w)
    BY <2>3 DEF GivesUp, WaitAndPopGivesUp
  <2> QED BY <2>1, <2>2, <2>3
<1>6. deadlockLock # None => worker'[deadlockLock] \in {"begin", "run", "again"}
  <2>1. CASE Blocks(w) \/ Wakes(w)
    BY <2>1 DEF Blocks, Wakes, workerVars, Waking
  <2>2. CASE Takes(w) \/ GivesUp(w)
    <3>1. worker[w] = "pop"
      BY <2>2 DEF Takes, GivesUp
    <3>2. deadlockLock # w
      BY <3>1, OperationsAssumption DEF Waking
    <3> QED BY <1>1, <1>4, <3>2 DEF Waking
  <2> QED BY <2>1, <2>2
<1> QED BY <1>1, <1>2, <1>3, <1>4, <1>5, <1>6 DEF Waking

\* The worker goes from a place outside of WaitAndPop to any other one, the
\* queue and the connections stay as they are, and the lock stays with a worker
\* that runs.
LEMMA OutsideKeepsWaking ==
  ASSUME IInv, Waking, NEW w \in Consumers, worker[w] # "pop",
         NEW at, worker' = [worker EXCEPT ![w] = at],
         UNCHANGED <<queueVars, connection, pool>>,
         operation' = operation \/ operation' = [operation EXCEPT ![w] = None],
         at # "check",
         at = "gone" => worker[w] = "check" /\ MustLeave(w),
         deadlockLock' = w => at \in {"begin", "run", "again"},
         deadlockLock' \in {deadlockLock, w, None}
  PROVE  Waking'
<1>1. /\ QueueType(Operations)
      /\ worker \in [Consumers -> {"pop", "check", "gone"} \cup Working]
      /\ operation \in [Consumers -> Operations \cup {None}]
      /\ NobodyOversleeps(Inside) /\ IsFiniteSet(Inside)
      /\ deadlockLock \in Consumers \cup {None}
  BY InsideIsFinite DEF IInv, TypeOK, Waking
<1>2. Inside' = Inside \/ Inside' = Inside \cup {w}
  BY <1>1 DEF Inside
<1>3. NobodyOversleeps(Inside)'
  <2>1. PICK J, K : J = Inside' /\ K = Inside
    OBVIOUS
  <2>2. CASE J = K
    <3>1. NobodyOversleeps(J)'
      BY <1>1, <2>1, <2>2, StaysAwake
    <3> QED BY <2>1, <3>1, InsideAfter
  <2>3. CASE J = K \cup {w}
    <3>1. NobodyOversleeps(K \cup {w})'
      BY <1>1, <2>1, EntersAwake
    <3>2. NobodyOversleeps(J)'
      BY <2>3, <3>1
    <3> QED BY <2>1, <3>2, InsideAfter
  <2> QED BY <1>2, <2>1, <2>2, <2>3
<1>4. UNCHANGED <<queue, shutdown>>
  BY DEF queueVars
<1>5. \A v \in Consumers :
         /\ worker'[v] = "check" => v # w /\ worker[v] = "check" /\ operation'[v] = operation[v]
         /\ worker'[v] = "gone" => worker[v] = "gone" \/ (v = w /\ MustLeave(w) /\ worker[w] = "check")
         /\ v # w => worker'[v] = worker[v]
  BY <1>1
<1>6. \A v \in Consumers : worker'[v] = "gone" => connection[v] # "open" \/ shutdown
  BY <1>5 DEF Waking, MustLeave
<1>7. deadlockLock' # None => worker'[deadlockLock'] \in {"begin", "run", "again"}
  <2>1. CASE deadlockLock' = w
    BY <1>1, <2>1
  <2>2. CASE deadlockLock' # w
    BY <1>1, <1>5, <2>2, OperationsAssumption DEF Waking
  <2> QED BY <2>1, <2>2
<1> QED BY <1>3, <1>4, <1>5, <1>6, <1>7 DEF Waking

\* What Finish does with the lock.
LEMMA FinishReleases ==
  ASSUME NEW w \in Consumers, NEW result, Finish(w, result)
  PROVE  /\ deadlockLock' # w /\ deadlockLock' \in {deadlockLock, w, None}
         /\ worker' = [worker EXCEPT ![w] = "pop"]
         /\ operation' = [operation EXCEPT ![w] = None]
  BY OperationsAssumption DEF Finish, Release, Retrying

\* A worker outside of WaitAndPop.
LEMMA WorkKeepsWaking ==
  ASSUME IInv, Waking, NEW w \in Consumers, Leaves(w) \/ Calls(w) \/ Transaction(w)
  PROVE  Waking'
<1> USE OperationsAssumption
<1>0. deadlockLock = w => worker[w] \in {"begin", "run", "again"}
  BY DEF Waking
<1>1. CASE Leaves(w)
  <2>1. /\ worker' = [worker EXCEPT ![w] = "gone"] /\ worker[w] = "check" /\ MustLeave(w)
        /\ UNCHANGED <<queueVars, connection, pool>> /\ deadlockLock' = deadlockLock
        /\ operation' = [operation EXCEPT ![w] = None]
    BY <1>1 DEF Leaves, retry
  <2> QED BY <1>0, <2>1, OutsideKeepsWaking
<1>2. CASE Calls(w)
  <2>1. PICK at \in {"begin", "run"} : worker' = [worker EXCEPT ![w] = at]
    BY <1>2 DEF Calls
  <2>2. /\ worker[w] = "check" /\ operation' = operation
        /\ UNCHANGED <<queueVars, connection, pool>> /\ deadlockLock' = deadlockLock
    BY <1>2 DEF Calls, retry
  <2> QED BY <1>0, <2>1, <2>2, OutsideKeepsWaking
<1>3. CASE BeginTransaction(w) \/ RetriesAgain(w) \/ LockForRetry(w)
  <2>1. PICK at \in {"begin", "run"} : worker' = [worker EXCEPT ![w] = at]
    BY <1>3 DEF BeginTransaction, RetriesAgain, LockForRetry
  <2>2. /\ worker[w] # "pop" /\ operation' = operation
        /\ UNCHANGED <<queueVars, connection, pool>> /\ deadlockLock' \in {deadlockLock, w}
    BY <1>3 DEF BeginTransaction, RetriesAgain, LockForRetry, retry
  <2> QED BY <2>1, <2>2, OutsideKeepsWaking
<1>4. CASE ExecuteStatement(w)
  <2>1. /\ worker[w] = "run" /\ worker' = worker /\ operation' = operation
        /\ UNCHANGED <<queueVars, connection, pool>> /\ deadlockLock' = deadlockLock
    BY <1>4 DEF ExecuteStatement, workerVars, retry
  <2>2. worker' = [worker EXCEPT ![w] = "run"]
    BY <2>1 DEF IInv, TypeOK
  <2> QED BY <2>1, <2>2, OutsideKeepsWaking
<1>5. CASE Deadlocks(w)
  <2>1. /\ worker' = [worker EXCEPT ![w] = "lock"] /\ worker[w] = "run" /\ operation' = operation
        /\ UNCHANGED <<queueVars, connection, pool>> /\ deadlockLock' = deadlockLock
        /\ deadlockLock # w
    BY <1>5 DEF Deadlocks, Retrying, retry
  <2> QED BY <2>1, OutsideKeepsWaking
<1>6. CASE Fails(w) /\ Retrying(w)
  <2>1. /\ worker' = [worker EXCEPT ![w] = "again"] /\ worker[w] = "run" /\ operation' = operation
        /\ UNCHANGED <<queueVars, connection, pool>> /\ deadlockLock' = deadlockLock
    BY <1>6 DEF Fails, retry
  <2> QED BY <2>1, OutsideKeepsWaking
<1>7. CASE Succeeds(w) \/ GivesTransactionUp(w) \/ (Fails(w) /\ ~Retrying(w))
  <2>1. /\ worker[w] # "pop" /\ UNCHANGED <<queueVars, connection, pool>>
        /\ Finish(w, "succeeded") \/ Finish(w, "failed")
    BY <1>7 DEF Succeeds, GivesTransactionUp, Fails
  <2>2. /\ deadlockLock' # w /\ deadlockLock' \in {deadlockLock, w, None}
        /\ worker' = [worker EXCEPT ![w] = "pop"]
        /\ operation' = [operation EXCEPT ![w] = None]
    BY <2>1, FinishReleases
  <2> QED BY <2>1, <2>2, OutsideKeepsWaking
<1> QED BY <1>1, <1>2, <1>3, <1>4, <1>5, <1>6, <1>7 DEF Transaction

\* A loss is no business of the threads.
LEMMA SameThreadsWaking ==
  ASSUME Waking, UNCHANGED <<queueVars, workerVars, retry, connection, pool>>
  PROVE  Waking'
<1>1. UNCHANGED <<queue, shutdown, worker, operation, deadlockLock>>
  BY DEF queueVars, workerVars, retry
<1>2. NobodyOversleeps(Inside)'
  <2>1. PICK J : J = Inside' /\ J = Inside
    BY <1>1 DEF Inside
  <2>2. NobodyOversleeps(J)'
    BY <2>1, StaysAwake DEF Waking
  <2> QED BY <2>1, <2>2, InsideAfter
<1> QED BY <1>1, <1>2 DEF Waking

\* Every step keeps it.
LEMMA NextWaking == IInv /\ Waking /\ [Next]_vars => Waking'
<1> SUFFICES ASSUME IInv, Waking, [Next]_vars PROVE Waking'
  OBVIOUS
<1>1. CASE Close \/ MinutePasses
  BY <1>1, CloseKeepsWaking
<1>2. ASSUME NEW o \in Operations, Enqueue(o) PROVE Waking'
  BY <1>2, EnqueueKeepsWaking
<1>3. ASSUME NEW w \in Consumers, Closing(w) PROVE Waking'
  BY <1>3, CloseKeepsWaking, CancelKeepsWaking DEF Closing
<1>4. ASSUME NEW w \in Consumers, LosesConnection(w) PROVE Waking'
  BY <1>4, SameThreadsWaking DEF LosesConnection
<1>5. ASSUME NEW w \in Consumers, Worker(w) \/ Wakes(w) PROVE Waking'
  BY <1>5, PopKeepsWaking, WorkKeepsWaking DEF Worker
<1>6. CASE UNCHANGED vars
  BY <1>6, SameThreadsWaking DEF vars
<1> QED BY <1>1, <1>2, <1>3, <1>4, <1>5, <1>6 DEF Next

\* So it holds in every behaviour.
LEMMA SpecWaking == Spec => [](IInv /\ Waking)
<1>1. Init => IInv /\ Waking
  BY InitIInv, InitWaking
<1>2. IInv /\ Waking /\ [Next]_vars => (IInv /\ Waking)'
  BY NextIInv, NextWaking
<1> QED BY <1>1, <1>2, PTL DEF Spec

\* A worker outside of WaitAndPop runs, or waits for the lock of one that runs.
LEMMA OutsideRuns ==
  ASSUME IInv, Waking, NEW w \in Consumers, worker[w] \notin {"pop", "gone"}
  PROVE  Runs(w) \/ (worker[w] = "lock" /\ deadlockLock \in Consumers /\ Runs(deadlockLock))
  BY DEF IInv, TypeOK, Working, Waking, Runs

\* The invariant implies the property.
LEMMA WakingSuffices == IInv /\ Waking => NobodyWaitsInVain
<1> SUFFICES ASSUME IInv, Waking PROVE NobodyWaitsInVain
  OBVIOUS
<1>1. ASSUME NEW o \in Operations, outcome[o] = "enqueued"
      PROVE  \E w \in Consumers : Runs(w) \/ connection[w] = "stopping"
  <2>1. o \in Queued \/ Held(o)
    BY <1>1 DEF IInv, OnePlace
  <2>2. CASE Held(o)
    <3>1. PICK w \in Consumers : operation[w] = o
      BY <2>2 DEF Held
    <3>2. worker[w] \notin {"pop", "gone"}
      BY <3>1, OperationsAssumption DEF IInv, OnePlace
    <3> QED BY <3>2, OutsideRuns
  <2>3. CASE o \in Queued
    <3>1. queue # <<>> /\ ~shutdown
      BY <2>3, QueuedEmpty DEF IInv, TypeOK, Waking
    <3>2. waiting = {} \/ \E c \in Inside : c \notin waiting
      BY <3>1, InsideIsFinite, SomebodyIsAwake DEF IInv, TypeOK, Waking
    <3>3. CASE \E c \in Inside : c \notin waiting
      BY <3>3 DEF Inside, Runs
    <3>4. CASE waiting = {}
      <4>1. PICK w \in Consumers : TRUE
        BY WorkersAssumption
      <4>2. CASE worker[w] = "pop"
        BY <3>4, <4>2 DEF Runs
      <4>3. CASE worker[w] = "gone"
        BY <3>1, <4>3 DEF Waking, IInv, TypeOK
      <4>4. CASE worker[w] \notin {"pop", "gone"}
        BY <4>4, OutsideRuns
      <4> QED BY <4>2, <4>3, <4>4
    <3> QED BY <3>2, <3>3, <3>4
  <2> QED BY <2>1, <2>2, <2>3
<1>2. ASSUME NEW w \in Consumers, connection[w] = "joining", worker[w] # "gone"
      PROVE  Runs(w) \/ (worker[w] = "lock" /\ Runs(deadlockLock))
  <2>1. waiting = {}
    BY <1>2 DEF Waking, NobodyOversleeps
  <2>2. CASE worker[w] = "pop"
    BY <2>1, <2>2 DEF Runs
  <2> QED BY <1>2, <2>2, OutsideRuns
<1>3. NobodyOversleeps({w \in Consumers : worker[w] = "pop"})
  BY DEF Waking, Inside
<1> QED BY <1>1, <1>2, <1>3 DEF NobodyWaitsInVain

\* No wakeup is lost and no lock is kept: while an operation is pending a worker
\* goes on by itself or the queue is about to be cancelled, and ~DatabaseWorker
\* never joins a thread that sleeps.
THEOREM NoWakeupIsLost == Spec => []NobodyWaitsInVain
  BY SpecWaking, WakingSuffices, PTL
=============================================================================
