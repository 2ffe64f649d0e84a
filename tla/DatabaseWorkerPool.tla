------------------------- MODULE DatabaseWorkerPool -------------------------
(***************************************************************************)
(* The asynchronous half of a database pool: operations are queued, one    *)
(* worker per connection executes them (DatabaseWorker), and Close stops   *)
(* the workers one by one.                                                 *)
(*                                                                         *)
(* A transaction is executed statement by statement on the MySQL server;   *)
(* the server may report a deadlock or another error, and the connection   *)
(* may be lost at any statement, COMMIT included.  MySQLConnection then    *)
(* reconnects and repeats the same statement on the new connection, which  *)
(* is in no transaction and commits each statement at once.  A transaction *)
(* that met a deadlock is retried for up to a minute, under a lock shared  *)
(* by all workers.  A reconnection that fails aborts the process and is    *)
(* left out.                                                               *)
(***************************************************************************)
EXTENDS Integers, FiniteSets, ProducerConsumerQueue

CONSTANTS
    Operations,    \* identities of SQLOperation objects
    Transactions,  \* those that are a TransactionTask or a ...WithResultTask
    SizeOf,        \* [Operations -> Nat \ {0}], statements of the operation
    MaxLosses,     \* bound: how often the server drops a connection
    None

ASSUME OperationsAssumption ==
    /\ Transactions \subseteq Operations
    /\ SizeOf \in [Operations -> Nat \ {0}]
    /\ \A o \in Operations \ Transactions : SizeOf[o] = 1
    /\ None \notin Operations \cup Consumers
    /\ MaxLosses \in Nat

\* DatabaseLoader::AddDatabase insists on 1 to 32 worker threads.
ASSUME WorkersAssumption == IsFiniteSet(Consumers) /\ Consumers # {}

VARIABLES
    outcome,      \* what became of each operation; its promise, if it has one
    applied,      \* how often each of its statements took effect for good
    disturbed,    \* operations during which the connection was lost
    losses,
    worker,       \* where the worker of each connection is
    operation,    \* what it holds
    executed,     \* how many statements of it were executed in this attempt
    inTrans,      \* the connection is in a transaction
    uncommitted,  \* statements executed in it
    deadlockLock, \* the worker that holds TransactionTask::_deadlockLock
    expired,      \* its minute of retries is over
    connection,   \* the life of each connection
    pool          \* "open", then Close

database == <<applied, disturbed, losses>>
attempt == <<executed, inTrans, uncommitted>>
retry == <<deadlockLock, expired>>
workerVars == <<worker, operation>>
vars == <<queueVars, outcome, database, workerVars, attempt, retry, connection,
          pool>>

Statements(o) == 1 .. SizeOf[o]
IsTransaction(w) == operation[w] \in Transactions
AllExecuted(w) == executed[w] = SizeOf[operation[w]]
Retrying(w) == deadlockLock = w

\* The database after statements S of operation o took effect.
Apply(o, S) ==
    [applied EXCEPT ![o] = [k \in Statements(o) |-> IF k \in S THEN @[k] + 1
                                                               ELSE @[k]]]

-----------------------------------------------------------------------------
(* The pool *)

\* Execute, AsyncQuery, DelayQueryHolder, CommitTransaction, ...
Enqueue(o) ==
    /\ pool = "open"
    /\ outcome[o] = "new"
    /\ outcome' = [outcome EXCEPT ![o] = "enqueued"]
    /\ Push(o)
    /\ UNCHANGED <<database, workerVars, attempt, retry, connection, pool>>

Close ==
    /\ pool = "open"
    /\ pool' = "closing"
    /\ UNCHANGED <<queueVars, outcome, database, workerVars, attempt, retry,
                   connection>>

\* ~DatabaseWorker of one connection after the other: the token,
StopWorker(w) ==
    /\ pool = "closing"
    /\ connection[w] = "open"
    /\ \A v \in Consumers : connection[v] \in {"open", "closed"}
    /\ connection' = [connection EXCEPT ![w] = "stopping"]
    /\ UNCHANGED <<queueVars, outcome, database, workerVars, attempt, retry, pool>>

\* the queue, whose operations are deleted,
CancelQueue(w) ==
    /\ connection[w] = "stopping"
    /\ Cancel
    /\ outcome' = [o \in Operations |->
                      IF \E i \in DOMAIN queue : queue[i] = o THEN "discarded"
                                                              ELSE outcome[o]]
    /\ connection' = [connection EXCEPT ![w] = "joining"]
    /\ UNCHANGED <<database, workerVars, attempt, retry, pool>>

\* Mutant: the connection is closed before its worker is joined.
CloseUnjoined(w) ==
    /\ connection[w] = "joining"
    /\ connection' = [connection EXCEPT ![w] = "closed"]
    /\ pool' = IF \A v \in Consumers \ {w} : connection[v] = "closed"
               THEN "closed" ELSE pool
    /\ UNCHANGED <<queueVars, outcome, database, workerVars, attempt, retry>>

\* the thread; then MySQLConnection::Close closes the connection.
JoinAndClose(w) ==
    /\ connection[w] = "joining"
    /\ worker[w] = "gone"
    /\ connection' = [connection EXCEPT ![w] = "closed"]
    /\ pool' = IF \A v \in Consumers \ {w} : connection[v] = "closed"
               THEN "closed" ELSE pool
    /\ UNCHANGED <<queueVars, outcome, database, workerVars, attempt, retry>>

-----------------------------------------------------------------------------
(* DatabaseWorker::WorkerThread *)

Blocks(w) ==
    /\ worker[w] = "pop"
    /\ WaitAndPopBlocks(w)
    /\ UNCHANGED <<outcome, database, workerVars, attempt, retry, connection, pool>>

Wakes(w) ==
    /\ WakesSpuriously(w)
    /\ UNCHANGED <<outcome, database, workerVars, attempt, retry, connection, pool>>

Takes(w) ==
    /\ worker[w] = "pop"
    /\ WaitAndPopTakes(w)
    /\ worker' = [worker EXCEPT ![w] = "check"]
    /\ operation' = [operation EXCEPT ![w] = Head(queue)]
    /\ UNCHANGED <<outcome, database, attempt, retry, connection, pool>>

GivesUp(w) ==
    /\ worker[w] = "pop"
    /\ WaitAndPopGivesUp(w)
    /\ worker' = [worker EXCEPT ![w] = "check"]
    /\ UNCHANGED <<outcome, database, operation, attempt, retry, connection, pool>>

MustLeave(w) == connection[w] # "open" \/ operation[w] = None

\* An operation it has already taken is neither executed nor deleted.
Leaves(w) ==
    /\ worker[w] = "check"
    /\ MustLeave(w)
    /\ worker' = [worker EXCEPT ![w] = "gone"]
    /\ outcome' = [o \in Operations |-> IF o = operation[w] THEN "leaked"
                                                           ELSE outcome[o]]
    /\ operation' = [operation EXCEPT ![w] = None]
    /\ UNCHANGED <<queueVars, database, attempt, retry, connection, pool>>

Calls(w) ==
    /\ worker[w] = "check"
    /\ ~MustLeave(w)
    /\ worker' = [worker EXCEPT ![w] = IF IsTransaction(w) THEN "begin" ELSE "run"]
    /\ executed' = [executed EXCEPT ![w] = 0]
    /\ UNCHANGED <<queueVars, outcome, database, operation, inTrans, uncommitted,
                   retry, connection, pool>>

-----------------------------------------------------------------------------
(* SQLOperation::Execute and MySQLConnection::ExecuteTransaction *)

\* Mutant: the lock is taken and never released.
ReleaseLater(w) == UNCHANGED retry

\* The guard of _deadlockLock goes out of scope.
Release(w) ==
    /\ deadlockLock' = IF Retrying(w) THEN None ELSE deadlockLock
    /\ expired' = IF Retrying(w) THEN FALSE ELSE expired

\* Execute returns, the promise is set, and the worker deletes the operation.
Finish(w, result) ==
    /\ outcome' = [outcome EXCEPT ![operation[w]] = result]
    /\ worker' = [worker EXCEPT ![w] = "pop"]
    /\ operation' = [operation EXCEPT ![w] = None]
    /\ Release(w)

\* The connection is in no transaction after COMMIT, ROLLBACK or a loss.
LeaveTransaction(w) ==
    /\ inTrans' = [inTrans EXCEPT ![w] = FALSE]
    /\ uncommitted' = [uncommitted EXCEPT ![w] = {}]

\* Mutant: START TRANSACTION is not sent.
BeginWithout(w) ==
    /\ worker[w] = "begin"
    /\ worker' = [worker EXCEPT ![w] = "run"]
    /\ executed' = [executed EXCEPT ![w] = 0]
    /\ UNCHANGED <<queueVars, outcome, database, operation, inTrans, uncommitted,
                   retry, connection, pool>>

BeginTransaction(w) ==
    /\ worker[w] = "begin"
    /\ worker' = [worker EXCEPT ![w] = "run"]
    /\ executed' = [executed EXCEPT ![w] = 0]
    /\ inTrans' = [inTrans EXCEPT ![w] = TRUE]
    /\ UNCHANGED <<queueVars, outcome, database, operation, uncommitted, retry,
                   connection, pool>>

ExecuteStatement(w) ==
    /\ worker[w] = "run"
    /\ ~AllExecuted(w)
    /\ LET next == executed[w] + 1 IN
          /\ executed' = [executed EXCEPT ![w] = next]
          /\ IF inTrans[w]
             THEN /\ uncommitted' = [uncommitted EXCEPT ![w] = @ \cup {next}]
                  /\ UNCHANGED applied
             ELSE /\ applied' = Apply(operation[w], {next})
                  /\ UNCHANGED uncommitted
    /\ UNCHANGED <<queueVars, outcome, disturbed, losses, workerVars, inTrans,
                   retry, connection, pool>>

\* A plain statement, or COMMIT, whose own result is not looked at: that it
\* could fail otherwise than by the loss of the connection, which the code
\* ignores, is left out, here and for START TRANSACTION.
Succeeds(w) ==
    /\ worker[w] = "run"
    /\ AllExecuted(w)
    /\ applied' = Apply(operation[w], uncommitted[w])
    /\ LeaveTransaction(w)
    /\ Finish(w, "succeeded")
    /\ UNCHANGED <<queueVars, disturbed, losses, executed, connection, pool>>

\* The server drops the connection, before or after it obeyed the statement or
\* COMMIT; after the reconnection the statement is sent again.
LosesConnection(w) ==
    /\ worker[w] = "run"
    /\ losses < MaxLosses
    /\ losses' = losses + 1
    /\ disturbed' = disturbed \cup {operation[w]}
    /\ \/ UNCHANGED applied
       \/ /\ AllExecuted(w)
          /\ IsTransaction(w)
          /\ applied' = Apply(operation[w], uncommitted[w])
       \/ /\ ~AllExecuted(w)
          /\ ~inTrans[w]
          /\ applied' = Apply(operation[w], {executed[w] + 1})
    /\ LeaveTransaction(w)
    /\ UNCHANGED <<queueVars, outcome, workerVars, executed, retry, connection,
                   pool>>

\* A statement fails; ROLLBACK follows in a transaction.  During the retries
\* any error leads to the next attempt.
Fails(w) ==
    /\ worker[w] = "run"
    /\ ~AllExecuted(w)
    /\ LeaveTransaction(w)
    /\ IF Retrying(w)
       THEN /\ worker' = [worker EXCEPT ![w] = "again"]
            /\ UNCHANGED <<outcome, operation, retry>>
       ELSE Finish(w, "failed")
    /\ UNCHANGED <<queueVars, database, executed, connection, pool>>

\* ER_LOCK_DEADLOCK in a transaction, not in a retry.
Deadlocks(w) ==
    /\ worker[w] = "run"
    /\ ~AllExecuted(w)
    /\ IsTransaction(w)
    /\ ~Retrying(w)
    /\ worker' = [worker EXCEPT ![w] = "lock"]
    /\ LeaveTransaction(w)
    /\ UNCHANGED <<queueVars, outcome, database, operation, executed, retry,
                   connection, pool>>

LockForRetry(w) ==
    /\ worker[w] = "lock"
    /\ deadlockLock = None
    /\ deadlockLock' = w
    /\ worker' = [worker EXCEPT ![w] = "begin"]
    /\ UNCHANGED <<queueVars, outcome, database, operation, attempt, expired,
                   connection, pool>>

\* DEADLOCK_MAX_RETRY_TIME_MS
MinutePasses ==
    /\ deadlockLock # None
    /\ ~expired
    /\ expired' = TRUE
    /\ UNCHANGED <<queueVars, outcome, database, workerVars, attempt,
                   deadlockLock, connection, pool>>

RetriesAgain(w) ==
    /\ worker[w] = "again"
    /\ ~expired
    /\ worker' = [worker EXCEPT ![w] = "begin"]
    /\ UNCHANGED <<queueVars, outcome, database, operation, attempt, retry,
                   connection, pool>>

GivesTransactionUp(w) ==
    /\ worker[w] = "again"
    /\ expired
    /\ Finish(w, "failed")
    /\ UNCHANGED <<queueVars, database, attempt, connection, pool>>

-----------------------------------------------------------------------------
Init ==
    /\ QueueInit
    /\ outcome = [o \in Operations |-> "new"]
    /\ applied = [o \in Operations |-> [k \in Statements(o) |-> 0]]
    /\ disturbed = {}
    /\ losses = 0
    /\ worker = [w \in Consumers |-> "pop"]
    /\ operation = [w \in Consumers |-> None]
    /\ executed = [w \in Consumers |-> 0]
    /\ inTrans = [w \in Consumers |-> FALSE]
    /\ uncommitted = [w \in Consumers |-> {}]
    /\ deadlockLock = None
    /\ expired = FALSE
    /\ connection = [w \in Consumers |-> "open"]
    /\ pool = "open"

Closing(w) == StopWorker(w) \/ CancelQueue(w) \/ JoinAndClose(w)

Transaction(w) ==
    \/ BeginTransaction(w) \/ ExecuteStatement(w) \/ Succeeds(w) \/ Fails(w)
    \/ Deadlocks(w) \/ LockForRetry(w) \/ RetriesAgain(w) \/ GivesTransactionUp(w)

Worker(w) ==
    \/ Blocks(w) \/ Takes(w) \/ GivesUp(w) \/ Leaves(w) \/ Calls(w)
    \/ Transaction(w)

Next ==
    \/ Close \/ MinutePasses
    \/ \E o \in Operations : Enqueue(o)
    \/ \E w \in Consumers : \/ Closing(w) \/ Worker(w)
                            \/ LosesConnection(w) \/ Wakes(w)

Spec == Init /\ [][Next]_vars

\* Threads run, and the clock of the retries does.
FairSpec == /\ Spec
            /\ WF_vars(MinutePasses)
            /\ \A w \in Consumers : WF_vars(Worker(w)) /\ WF_vars(Closing(w))

-----------------------------------------------------------------------------
(* Properties *)

Working == {"begin", "run", "lock", "again"}

\* Every variable has its type, and a worker at work holds an operation.
TypeOK ==
    /\ QueueType(Operations)
    /\ outcome \in [Operations -> {"new", "enqueued", "succeeded", "failed",
                                   "discarded", "leaked"}]
    /\ DOMAIN applied = Operations
    /\ \A o \in Operations : applied[o] \in [Statements(o) -> Nat]
    /\ disturbed \subseteq Operations
    /\ losses \in 0 .. MaxLosses
    /\ worker \in [Consumers -> {"pop", "check", "gone"} \cup Working]
    /\ operation \in [Consumers -> Operations \cup {None}]
    /\ \A w \in Consumers : worker[w] \in Working => operation[w] \in Operations
    /\ executed \in [Consumers -> Nat]
    /\ inTrans \in [Consumers -> BOOLEAN]
    /\ uncommitted \in [Consumers -> SUBSET Nat]
    /\ deadlockLock \in Consumers \cup {None}
    /\ expired \in BOOLEAN
    /\ connection \in [Consumers -> {"open", "stopping", "joining", "closed"}]
    /\ pool \in {"open", "closing", "closed"}

\* An operation that is not finished is in the queue or in the hands of one
\* worker, and nowhere twice: no task is executed or deleted a second time.
EveryOperationInOnePlace ==
    \A o \in Operations :
        Cardinality({i \in DOMAIN queue : queue[i] = o})
            + Cardinality({w \in Consumers : operation[w] = o})
                = IF outcome[o] = "enqueued" THEN 1 ELSE 0

\* What TransactionCallback is told is what happened in the database: a
\* transaction that succeeded took effect once and completely, any other one
\* not at all, retries included; unless the connection was lost on the way.  (A
\* COMMIT or a START TRANSACTION that fails for another reason, which
\* ExecuteTransaction ignores, is not in the model; see Succeeds.)
ResultMatchesDatabase ==
    \A o \in Transactions \ disturbed : \A k \in Statements(o) :
        applied[o][k] = IF outcome[o] = "succeeded" THEN 1 ELSE 0

\* "Stop the worker thread before the statements are cleared"
\* (MySQLConnection::Close): no worker is left behind on a closed connection.
ConnectionOutlivesWorker ==
    \A w \in Consumers : connection[w] = "closed" => worker[w] = "gone"

\* A worker that goes on by itself: it neither sleeps in WaitAndPop nor waits
\* for the lock of the retries.
Runs(w) ==
    \/ worker[w] \in {"check", "begin", "run", "again"}
    \/ worker[w] = "pop" /\ w \notin waiting
    \/ worker[w] = "lock" /\ deadlockLock = None

\* Nobody waits for a worker that sleeps or for a lock that nobody gives back:
\* while an operation is pending a worker runs, or ~DatabaseWorker is about to
\* cancel the queue; and a worker that is being joined is on its way out, at
\* most behind another one that runs.
NobodyWaitsInVain ==
    /\ NobodyOversleeps({w \in Consumers : worker[w] = "pop"})
    /\ (\E o \in Operations : outcome[o] = "enqueued") =>
          \E w \in Consumers : Runs(w) \/ connection[w] = "stopping"
    /\ \A w \in Consumers :
          connection[w] = "joining" /\ worker[w] # "gone" =>
              Runs(w) \/ (worker[w] = "lock" /\ Runs(deadlockLock))

\* Close returns, whatever the workers are doing.
CloseEnds == pool = "closing" ~> pool = "closed"

\* Nobody waits for ever for the result of an operation: it ends, although
\* transactions deadlock, wait for the retry lock and are closed upon.
OperationEnds ==
    \A o \in Operations : outcome[o] = "enqueued" ~> outcome[o] # "enqueued"

\* A one-way operation "will be executed asynchronously"
\* (DatabaseWorkerPool.h:66).  This does not hold: Close discards what is queued.
EnqueuedIsExecuted ==
    \A o \in Operations : outcome[o] \notin {"discarded", "leaked"}

\* A transaction runs with "Autocommit=0" and "will automatically rollback if
\* not commited" (DatabaseWorkerPool.h:155): a transaction that ended took effect
\* completely or not at all.  This does not hold after a reconnection.
TransactionIsAtomic ==
    \A o \in Transactions :
        outcome[o] \in {"succeeded", "failed"} =>
            \A j, k \in Statements(o) : applied[o][j] = applied[o][k]

=============================================================================
