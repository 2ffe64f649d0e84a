# Verification of the world server

TLA+ models of the concurrent core of this AzerothCore-based game server: what
is modelled, what TLC checks on small instances, and what TLAPS proves for all.
Paths below are relative to `src/src/`.

## 1. Inventory

| Component | State | Operations | Interacts with |
|---|---|---|---|
| Session registry (`server/game/World/World.cpp`) | `addSessQueue`, `m_sessions`, `m_offlineSessions`, `m_QueuedPlayer`, `m_disconnects` | `AddSession_`, `UpdateSessions`, `RemoveQueuedPlayer`, `KickAll` | network threads (queue), sessions (calls), login database (writes) |
| World session (`server/game/Server/WorldSession.cpp`, `Handlers/`) | socket, player, kicked, loading, in queue | constructor, `Update`, `HandleSocketClosed`, login, logout, destructor | registry, `WorldSocket`, character database (callbacks) |
| Map threads (`server/game/Maps/MapUpdater.cpp`) | queue, `pending_requests`, token | `schedule_update`, `wait`, `update_finished`, `deactivate`, worker | world thread, maps |
| Map tick (`Maps/MapMgr.cpp`, `MapInstanced.cpp`) | `i_maps`, `m_InstancedMaps` | `Update`, `CreateInstance`, `DestroyInstance`, `UnloadAll` | map threads |
| Blocking queue (`common/Threading/PCQueue.h`) | queue, shutdown flag, waiters | `Push`, `WaitAndPop`, `Cancel` | map threads, database workers |
| Database pool (`server/database/Database/`) | queue, connections, transactions, promises | `Execute`, `AsyncQuery`, `CommitTransaction`, `Close`, worker | every component; results come back as callbacks |
| Query callbacks (`QueryCallback.cpp`, `common/Utilities/AsyncCallbackProcessor.h`) | chain of callbacks, future | `InvokeIfReady`, `SetNextQuery`, `ProcessReadyCallbacks` | sessions, sockets |
| Sockets (`server/shared/Network/`, `Server/WorldSocket.cpp`) | `_closed`, `_closing`, write queue, `_worldSession` | read and write handlers, `Update`, delayed close, authentication | network thread, session |
| Lock-free queue (`common/Threading/MPSCQueue.h`) | linked list, head, tail | `Enqueue`, `Dequeue` | `WorldSocket` |
| Authentication server (`server/apps/authserver/`) | protocol status, session key | challenge, proof, reconnect, realm list | login database |
| Trade (`Handlers/TradeHandler.cpp`, `Entities/Player/TradeData.cpp`) | `m_trade` of both players: items, money, spell, accepted | set item, money or spell, accept, unaccept, cancel, exchange | inventories, sessions (logout cancels) |
| Other game systems (`server/game/…`) | dungeon finder, battleground queue, auctions, mail, guilds, groups, instance saves | packet handlers on the world or map threads | player data, character database |
| Game rules (spells, combat, AI, scripts) | numeric data | sequential computation | not a subject for model checking |
| Start and stop (`server/apps/worldserver/Main.cpp`) | order of handles | `WorldUpdateLoop`, shutdown | all |

What is hard here: sessions cross three containers while network threads close
their sockets and create new ones; a character outlives its connection by a
minute; requests are queued by the very threads whose completion is awaited;
shutdown has to drain all of it in one pass. `PROJECT.json` lists each hazard at
its line with the properties that would catch it. A socket that
is being refused and the two sides of a trade meet their events in any order, too.

What makes the components correct: a session has one owner and is never used
after its deletion; a character has one session; the login queue is fair, exact
and never idle beside a free slot; a tick gives each map one turn and ends; no
wakeup is lost; every database operation has one outcome that is reported once;
a packet put into a queue comes out once and in order; a socket that is to be
closed closes, after its answer; an acceptance stands for the offers it was given
for, and an exchange is whole.

## 2. Modules

| Module | Models |
|---|---|
| `LoginQueue` | abstract: what the realm promises those who want to play |
| `WorldSessions` | the registry, the login queue and the life of a session; implements `LoginQueue` |
| `WorldSessionsProofs` | theorems about the registry and the login queue |
| `WorldSessionsPlaces` | theorems about sessions, characters and positions, and the refinement of `LoginQueue`, on top of those |
| `ProducerConsumerQueue` | the blocking queue with its condition variable; extended by the modules of its users |
| `MapTick` | abstract: what a tick of the maps promises |
| `MapUpdater` | the map threads and the world thread that drives them; implements `MapTick` |
| `MapUpdaterProofs` | theorems about `MapUpdater`, refinement included |
| `DatabaseWorkerPool` | the asynchronous connections of a database pool: workers, transactions, reconnection, `Close` |
| `DatabaseWorkerPoolProofs` | theorems about it |
| `ProducerConsumerQueueProofs` | lemmas about the queue for the proofs about the map threads and the database |
| `PacketFifo` | abstract: what a queue of many senders and one receiver promises |
| `MPSCQueue` | the lock-free queue of `WorldSocket`, one step per access to an atomic; implements `PacketFifo` |
| `MPSCQueueProofs` | theorems about it, refinement included |
| `WorldSockets` | a network thread and its sockets, with the threads it shares them with |
| `WorldSocketsProofs` | theorems about it |
| `Trade` | trade windows from their opening to the exchange |
| `TradeProofs` | theorems about it |
| `MC…` | instances for TLC |

### WorldSessions

One step is one call of the world thread in `UpdateSessions` that the network
threads can interleave with: one `AddSession_` (`RejectSession`, `AddSession`,
`ReplaceSession`), one `HandleSocketClosed` test (`SocketStillOpen`,
`GoOffline`), one `WorldSession::Update` with what `UpdateSessions` does about
its result (`UpdateKeeps`, `UpdateRemoves`), one offline session
(`OfflineStays`, `OfflineEnds`). Between those steps the network threads run
`Connect` and `CloseSocket`. `sess` holds the fields of each object; a session
identity is used once, so that a use after deletion is visible. `told` is the
last authentication response sent to the client, `online` the column of the
account, written in the order of the queue: with the default of one worker
thread for the login database the writes are executed in that order.

Abstractions:

- `steady` stands for a player in the world and not in a taxi flight, `overdue`
  for more than 60 seconds offline. Time passes by `OfflineMinutePasses` and
  `TolerancePasses`.
- The packets of one `Update` do at most one thing to the session: a login, a
  logout, the start or end of a teleport. Packets that do not touch the
  session's place, player or socket are stutters.
- The client asks to log in only at its character screen (`MayLogIn`).
  `HandlePlayerLoginOpcode` does not enforce this: its test of `PlayerLoading()`
  follows the assignment of the flag.
- `PlayerLimit` is fixed at startup. `LoadConfigSettings` and a command can
  change it; then `NobodyWaitsForAFreeSlot` is re-established only by the next
  departures.
- `Kick` stands for the callers of `KickPlayer` on the world thread.

`LoginQueue` is what remains of this for those who want to play: who plays, who
waits, who is ahead of whom, and whose last departure was recent. A step of it is
one arrival, departure, takeover (a departure and then an arrival), the end of a
grace period, or the closing. In `WorldSessions` the first two are `Playing` (registered and not
listed) and `InLine`, the order is `Ahead` (positions in `m_QueuedPlayer`), and the
realm is open until `KickAll`. Deciding who enters is a count of
those who play in `LoginQueue`; the code counts sessions, subtracts the length of the
list and adjusts by one for the session that is still registered.

### MapUpdater

`MapUpdater::_lock` is held during all of `schedule_update` and
`update_finished`, and the queue's lock during each of its methods, so each is
one step. `WaitAndPop` and `wait` are a step for each evaluation of their
condition, and a blocked thread is in `waiting` (workers) or in `main =
"blocked"` until it is notified or wakes up for no reason. An instance is
created between ticks (sessions are updated then), and destroyed by the worker
that updates its base map; an instance whose unload timer has run down while
players are still inside is left alone (`LeavesInstance`). With 0 threads
nothing is concurrent, and the model leaves it out.

- `maps` starts empty: `CreateBaseMap` makes a base map when somebody first asks
  for it. The model lets only the world thread do so, between ticks. A map thread
  can, too, when a transport changes maps (`Entities/Transport/Transport.cpp:593`);
  that is left out.
- `CreateInstanceForPlayer` may replace an instance (`MapInstanced.cpp` 153-168:
  `DestroyInstance`, then `CreateInstance` of the same identity, in one call); the
  same maps exist before and after, so it is a stutter.
- A worker's use of its map ends with `update_finished` only when metrics are
  disabled. Otherwise the stopwatch of `METRIC_TIMER` (`MapUpdater.cpp:42`) calls
  `m_map.GetId()` when it is destroyed, after `update_finished()` at line 44
  (`common/Metric/Metric.h` 144-148, 204-208). That may be after the world thread
  has gone on to the next tick or to `UnloadAll`. `stopwatch` is the map such a
  worker still refers to. `NoDanglingMap` and `NothingRunsBetweenTicks` speak of
  requests up to `update_finished` and exclude it: for the stopwatch they would be
  false. `PROJECT.json` lists it as a hazard.

### DatabaseWorkerPool

A worker's step is one round of `WaitAndPop`, the test of the token, or one
statement sent to the server. `outcome` is what became of an operation: what its
promise received (`succeeded`, `failed`), or that `Close` deleted it from the
queue (`discarded`) or that its worker left with it (`leaked`). `applied` is the
database: how often each statement took effect for good. A transaction collects
its statements in `uncommitted` until `COMMIT`; `inTrans` is the server's view of
the connection.

- `LosesConnection` stands for every way a statement can end in
  `CR_SERVER_LOST` or `CR_SERVER_GONE_ERROR`, before or after the server obeyed it,
  with the reconnection and the repetition of that statement. A reconnection
  that fails aborts the process. A loss at `START TRANSACTION` or `ROLLBACK`
  changes nothing and is a stutter.
- The result of `COMMIT` and of `START TRANSACTION` is not looked at by the code
  (`MySQLConnection.cpp` 455-456); in the model they fail only by a lost
  connection. A `COMMIT` refused for another reason is reported as a success, and
  `ResultMatchesDatabase` does not cover it.
- `_deadlockLock` is shared by all pools. The model has one pool; workers of
  other pools would only make `LockForRetry` wait longer.
- Nothing is queued once `Close` runs: `Main.cpp` stops every other thread first.
- A query is an operation of one statement outside any transaction; what it
  returns is left out. Empty transactions are left out.

### MPSCQueue

A step is one access to a shared atomic: `exchange` of the head, store of a link,
load of a link or of the head. Acquire and release order every access the
algorithm relies on, so a step sees the latest value. A packet is an address that
`SendPacket` allocates and the consumer frees, and that may be allocated again.
`list`, `order` and `disturbed` are history variables: the nodes between tail and
head, the packets among them, and whether an `Enqueue` overlapped with the running
`Dequeue`. `PacketFifo` is what remains of the queue for its users: packets leave
in the order of the exchanges, and a `Dequeue` returns nothing only if the queue
is empty or an `Enqueue` was under way during the call. `WorldSockets` uses the
queue as that sequence (`bufferQueue`).

### WorldSockets

Four parties share a socket: the acceptor that hands it over, the network thread
that runs every handler and `NetworkThread::Update`, the world thread that kicks
and deletes the session, and the login database that answers the two queries of
the authentication, or never does. `at`, `on` and `back` are where the network
thread is, with which socket, and where its call returns to; a step of it ends
where another thread can notice: at `_worldSessionLock`, at the atomics `_closed`
and `_closing`, and where the session is handed to the world.

- A second `CMSG_AUTH_SESSION` tries the lock and, when it gets it, logs the
  session's player without asking whether `_worldSession` is null (`AuthedTwice`,
  place `"duplicate"`, `LogDuplicate`). A pointer that is not null is valid there,
  which `NoUseOfDeletedSession` says; that it is not null is false, which
  `DuplicateIsLogged` shows. Calling through a null pointer is undefined; the model
  goes on as if nothing had happened, so what else holds is checked after it, too.
- Packets are told apart as the challenge, a refusal and the others; a
  `MessageBuffer` is the set of packets in it. Splitting a packet over two
  buffers, encryption and the ping counters are left out.
- `KickPlayer` and `Delete` end at the exchange of `_closed` inside `CloseSocket`,
  and `FinishClose` is the rest: the network thread may be inside a handler
  meanwhile.
- What the session's side of `WorldSessions` needs of this module is `hasSocket`
  and the order of `CloseSocket` and deletion; the registries are not repeated.

### Trade

One step is one packet handler; they run in the world thread. `offer` is the
`TradeData` of a player: its slots, its money, and whether it is to cast a spell on
the item in the partner's last slot. Items and money also change by other ways
(`ItemGone`, `Wear`, `MoneyChanges`), because an offered item stays in its owner's
bags until the exchange.

- An item takes one place of `Room`, and a player may have `MaxCount` of the items
  in `Limited`: `CanTakeMoreSimilarItems`, for one kind of item. `CanStoreItems` adds
  up the places of all items of the exchange, but asks for each limited item alone
  (`PlayerStorage.cpp:1655`); `CanStore`, in the loop, counts what the turns before
  have stored. So the loop can refuse what the test accepted, and then gives both
  items of the slot back, each if its owner can still store it. If not, the item is
  in nobody's bags ("can't take item back", `TradeHandler.cpp:184`).
- Stacks are left out: `CanStoreItems` (1660-1724) and `CanStoreItem` may put an item
  on an incomplete stack instead of a place of its own.
- Every other reason why an item may not be traded or stored is a free choice to
  refuse, made before the exchange.
- An offered item its owner no longer has leaves its slot empty without
  withdrawing the acceptances (`GetItem` returns null). So
  `AcceptanceStandsForOffers` is about what was offered, and `ExchangeIsWhole`
  about what of it is still there.

## 3. Runs

| Run | Instance | Shows |
|---|---|---|
| `LoginQueue` | 3 accounts, 4 sessions, limit 1, tolerance on, no characters | the login queue, its refinement of `LoginQueue` |
| `Reconnect` | 1 account, 3 sessions, 2 characters, no limit | reconnection, going offline, shutdown, liveness |
| `OnlineFlag` | as `Reconnect` | a violation: an account is marked offline while it has a live session |
| `MapThreads` | 2 base maps, 2 instances of one of them, 3 workers | ticks, shutdown, no lost wakeup, refinement of `MapTick` |
| `Database` | 2 connections, transactions of 2 statements and of 1, 1 query, 1 lost connection | outcomes and results of the asynchronous database, no lost wakeup; every operation ends, `Close` returns |
| `DiscardedWrites` | as `Database`, no loss | a violation: `Close` discards queued operations |
| `LostTransaction` | as `Database` | a violation: a transaction takes partial effect after a reconnection |
| `LockFreeQueue` | 3 senders, 3 addresses | the lock-free queue, its refinement of `PacketFifo`, and that what is put arrives |
| `Sockets` | 1 socket, more packets sent while fewer than 3 are queued | the pointer to the session, one read or query at a time, refusals, delayed close |
| `DuplicateAuth` | 1 socket | a violation: a second `CMSG_AUTH_SESSION` uses a null `_worldSession` |
| `Trades` | 3 players, 3 items, of which a player may have 2, 2 traded slots, money up to 1, 2 places in the bags | trades open and close in pairs, acceptances, the exchange, no item in two bags |
| `TradeHalfway` | the same, 2 players | a violation: the loop gives back an item that `CanStoreItems` accepted |

Bounds. The queue needs one active session, two waiting ones to be reordered,
and an account that reconnects from each place: three accounts, four sessions.
Reconnection concerns one account at a time (`m_sessions` and
`m_offlineSessions` are keyed by it): three sessions let one be offline, one
registered and one waiting in `addSessQueue`, and two characters let the client
return with the same one or another. Two base maps, one of them with two
instances, let a worker queue instances while another one finishes. Two transactions
and two connections let one wait for the retry lock of the other while a third
operation is queued; two statements are the fewest that can be torn apart, and one
such transaction is enough for that.
`MaxLosses` bounds how often a connection is lost (once); it is the only counter
that is capped, and the theorems hold for every value of it.

Three senders let one overtake another between its exchange and its store while a
third finishes behind both, and three addresses let one be queued, one be written
and one be reused. Sockets of a network thread meet only in its loop, so one shows
every interleaving with the other three parties; `MaxPackets` lets a refusal find
a challenge and another packet in front of it. Three players let one trade be refused because of
another; two slots, and a limit that one item more than the partner has would meet,
are the fewest for which an exchange can fail in the middle, in both directions. An
item that nobody can store is beyond these bounds; the theorem covers it. Players and items are symmetric there: the run checks no
liveness.

The process stops after shutdown, so deadlock is not checked in the runs of
`WorldSessions`, `MapUpdater` and `DatabaseWorkerPool`; it is in the others.
`ShutdownLogsEverybodyOut` speaks of the sessions `KickAll` saw: a socket accepted
after it may still be in `addSessQueue` when the process halts, where `~World`
deletes it.

Fairness. `FairSpec` of `WorldSessions`: the world thread keeps calling
`UpdateSessions` (`WorldUpdateLoop`, `Main.cpp`) and every step of it is
finite; `KickAll` follows the loop; a minute passes. Nothing is assumed of
clients, sockets or administrators. `FairSpec` of `MapUpdater`: each thread
continues while it can run; a thread that holds `_lock` only does constant work.
A spurious wakeup and the start of shutdown are never assumed to happen.
`FairSpec` of `DatabaseWorkerPool`: each worker continues while it can run, `Close`
continues once it has begun, and the clock that ends the retries runs
(`MinutePasses`). The server is assumed to answer each statement, with success or
an error; that a deadlock or an error ever happens is not assumed. `FairSpec` of
`MPSCQueue`: a sender that has begun finishes, and the consumer calls again
(`NetworkThread::Update`). `FairSpec` of `WorldSockets`: the network thread finishes
what it does (`Proceed`), its timer comes (`BeginUpdate`), the network takes what is
written or fails (`WriteHandler`, `WriteAll` or `WriteFails`), a read buffer ends
(`LastPacket`), and an `Update` now and then finds all of what is in the lock-free
queue, which is what `PacketsArrive` shows of it. Nothing is assumed
of the client or of the database's answers.

## 4. Proofs

Each proof module defines one inductive invariant `IInv`, proves that `Init`
establishes it and that each action keeps it (one lemma per action), and derives
the theorems from it. TLC has checked each `IInv` on the instances above. The type
invariants of `WorldSessions`, `MapUpdater`, `DatabaseWorkerPool` and `MPSCQueue` are
part of it and proved (`TypeCorrect`); the runs leave them out.

`WorldSessionsProofs`, for any finite set of accounts, any sessions and
characters, and any limit (`AccountsAssumption`, `LimitAssumption`,
`NoneAssumption`): `TypeCorrect`, `QueueIsOfRegisteredSessions`, `QueueOnlyWhenFull`,
`FirstComeFirstServed`, `LoopsMeetLiveEntries`. `IInv` is the type invariant; `Keys`
(sessions are stored under their own account); `Walk` (the loops' remaining
accounts still have their entries, and the session between its two calls is
registered); and the two queue invariants. `Keys` is needed because
`RemoveQueuedPlayer` finds the departing session by pointer and the registry
frees its slot by account: only if both agree does the number of active sessions
drop by exactly one when an unlisted session leaves, which is what
`NobodyWaitsForAFreeSlot` counts. `Walk` is needed because `Unregister` would
otherwise be applied to an account without entry. The cardinality lemmas state
what replacing one entry of the registry does to the count.

`MapUpdaterProofs`, for any finite set of workers and any finite maps and
instances (`MapsAssumption`, `WorkersAssumption`): `TypeCorrect`, `PendingIsExact`,
`WorldThreadAlone`, `WorkersHoldRequests`, `RequestsReferToLiveMaps` and `Refinement` (`Spec =>
ImplementsMapTick`). `IInv` adds three parts to the checked invariants: `Control`
(the token is set before the queue is cancelled, and a worker without a request
exists only after that), `OnePlace` (a map is scheduled, queued, held or about to
be visited at one place only) and `TurnsInOrder` (a map on its way has had no turn,
an instance is on its way only after its base map's turn, and every existing map
has had its turn or is on its way). `wait` returning is a barrier because the
counter is exact; the tick is complete because of `TurnsInOrder`; a destroyed
instance is referred to by nobody else because of `OnePlace`, a stopwatch excepted.

`NoWakeupIsLost`, in `MapUpdaterProofs` and again in `DatabaseWorkerPoolProofs`, needs
an invariant of its own, `Waking`, whose centre is `NobodyOversleeps` of the queue:
while anybody sleeps, the queue holds no more requests than there are threads inside
`WaitAndPop` that are awake, and it has not been cancelled. That is what one
`notify_one` for each `Push` keeps: a push that meets sleepers wakes one of them, so
both sides grow by one; a thread goes to sleep only beside an empty queue. "Nobody sleeps while something is queued" would be
false, because the awakened thread has not taken its request yet. The lemmas of
`ProducerConsumerQueueProofs` say what each method does to it, and both components
cite them. From it follows that every blocked party has a thread that runs: the world
thread because requests are pending, `Close` and `deactivate` because `Cancel` has
woken everybody. `WorkersAssumption` (a finite number of threads, at least one) is what
`MapMgr.cpp:60` (threads are activated only if there are any) and
`DatabaseLoader.cpp:49` (at least one, at most 32) ensure.

`DatabaseWorkerPoolProofs`, for any connections, operations, sizes of transactions
and number of losses (`OperationsAssumption`): `TypeCorrect`,
`OneWorkerPerOperation`, `ResultsAreTrue`, `NoWorkerLeftBehind` and, with
`WorkersAssumption`, `NoWakeupIsLost`. `IInv` adds `OnePlace`
(an operation is queued or held by one worker exactly while it is `enqueued`) and
`Progress` (what an undisturbed transaction has uncommitted is exactly its
statements so far, inside a transaction of the server): with them `COMMIT` applies
each statement once, and every other end applies none.

`WorldSessionsPlaces`, under the same assumptions: `SessionsAreInOnePlace`,
`CharactersHaveOneSession`, `OnlineMeansASession`, `FlagFollowsList`,
`PositionsAreTrue`, `OfflineSessionsStay`, `ShutdownIsComplete`. `PInv` stands on `IInv`
and relates the fields of the sessions to the containers. `CharactersPlaced`: only a
registered or offline session plays, a character of its own account, and only a
registered one loads. `CharactersApart`: of the two sessions of an account, the
registered one neither plays nor loads the character of the offline one.
`OfflineEndsFirst` is what makes that inductive and what World.cpp:288 and 2936 rely
on: as soon as the registered session plays or loads, the offline one has lost its
character or is kicked, and the loop over the offline sessions is still to come
past it, before the registered one can go offline. `FlagsFollowList` keeps the
flag, the list and the kicks together. For the shutdown, `EndsOrEnded` says of a
session that `KickAll` saw where the world thread will still come past it;
`StaysOrEnds` shows that no step after `KickAll` moves it to another place.

`Refinement` (`Spec => ImplementsLoginQueue`), at the end of the same module, maps every
step of the registry to a step of `LoginQueue` or to a stutter. `Members` and `Order`
are the set and the order of a list, and one lemma per list operation says what
it does to them: `Remove` of a place keeps the order of the others, `Tail` takes the
one nobody is ahead of, `Append` puts the new one behind all. `PlayingCount` translates
the code's arithmetic: the number of registered sessions less the length of the list
is the number of those who play, because the list has no session twice and only
registered ones (`QueueIsOfRegisteredSessions`). An arrival is
compared by the code with all sessions, those that wait included, while `LoginQueue`
asks whether somebody waits or all places are taken; the two agree because nobody
waits while a place is free (`QueueOnlyWhenFull`). `ReplaceSession` is a departure and an arrival in
one step, in this order: the old session's place may go to the first of the line before
the new one asks for one.

`MPSCQueueProofs`, for any producers and addresses (`NodesAssumption`): `TypeCorrect`,
`LinksStayValid`, `Ownership`, `Refinement` (`Spec => ImplementsPacketFifo`). `IInv`
describes the list: links follow `list` or are still to be stored (`Chain`), each
missing link belongs to one thread about to store it (`Stores`, `Cuts`), what the
consumer knows at each of its places (`Reader`), and `order` is the list without
the dummy. A packet is returned only when its successor is linked, so the thread
that stores into it is done with it: that is why nothing is used after deletion.

`WorldSocketsProofs`, for any sockets (`MaxPacketsAssumption`, `NoSocketAssumption`):
`TypeCorrect`, `SessionsOutliveTheirUse`, `SocketsAreServed`, `RefusalsAreTold`. `IInv`
says of each socket that nobody knows it before it is handed over (`Unknown`), that
it waits for one read or one query or is in the network thread's hands (`Served`),
and how pointer, session and closing depend on each other (`Session`): the pointer
outlives the session's socket only while somebody is inside `CloseSocket` or
`OnClose`, and either keeps the session. So whoever finds a pointer under the lock
finds a session; `SessionsOutliveTheirUse` does not say that there is a pointer. `Told` adds what can be in the queues of a
client without a session: the challenge alone, then the refusal alone.

`TradeProofs`, for any players, items, slots, money and room (`NullAssumption`,
`CountAssumption`): `WindowsOpenAndCloseTogether`, `AcceptancesAreWithdrawn`,
`ItemsAreNeverDuplicated`, `ExchangesAreWhole`. `IInv` is
`TradesAreMutual` with the types it needs; every handler that changes an offer
reaches both acceptances through the partner it guarantees. `BInv` adds
`NothingDuplicated` and what it needs of the offers: an item stands in one slot of an
offer. An exchange stores the items slot by slot into bags that were measured
beforehand, so the theorem is about the sequence of bags `moveItems` goes through, for
any number of slots. `Moving` says of the bags after `n` slots where the items of those
slots are (`Done`: both swapped, or both back, an item missing only if its owner's bags
or limit refuse it still), that the bags hold nothing else, and that, if the limit
allows all of the exchange together, every item has changed hands. `OneTurn` and the
lemmas after it keep it over one slot; that a place is left for each item still to come
is counting (`RoomForEach`, `LimitForEach`). `AllMoved` is the induction over the slots; the
library's induction theorems take an operator as a parameter, so it rests on
`CountUp`, which takes the least number at which a claim fails and looks at the one
before. `ExchangesAreWhole` therefore allows for the loop's refusals and bounds what
they do; that `CanStoreItems` has foreseen every turn is claimed only where the limit
allows all items together. `ItemsAssumption` (finitely many items, some of them limited) is there because
items are counted.

Model-checked only: liveness (`TickEnds`, `ShutdownEnds`, `ClosedSessionIsRemoved`,
`OfflineSessionEnds`, `CloseEnds`, `OperationEnds`, `PacketsArrive`, `DelayedCloseEnds`):
fairness and `ENABLED` are outside the prover's reach. Every invariant and action
property of the passing runs is the subject of a theorem.

Left for later: that the pool's workers take operations in the order in which they
were queued, a stronger statement about `Close` (what is discarded was queued or in
hand at that time), and an abstract specification of the database pool.

## 5. Findings

- `OnlineFlag`: the tests that keep a deletion from writing `online = 0` beside a
  newer session do not look in `addSessQueue`, and `AddSession_` deletes a
  rejected session without any test.
- `DiscardedWrites`: the first connection that `Close` destroys cancels the queue
  of all; what is queued is deleted unexecuted, what a worker has just taken is
  dropped, and nothing waits for the queue to drain after the last saves.
- `LostTransaction`: after a reconnection the interrupted statement and those after
  it commit one by one, outside the transaction that was lost; the transaction is
  reported as a success.
- `DuplicateAuth`: the handler of a second `CMSG_AUTH_SESSION` takes the session's
  lock but does not test the pointer, which the close of the same socket may have
  reset after the test of `IsOpen()`.
- `TradeHalfway`: two items of a limited kind pass `CanStoreItems` one by one; the
  exchange stores the first and gives the second back, and moves all the money.

Met while modelling and listed as hazards, without a run: `HandlePlayerLoginOpcode`
sets `m_playerLoading` before its tests and its refusals do not reset it
(`CharacterHandler.cpp:668`), so a second login is not refused either, which
`MayLogIn` takes for granted; the stopwatch of a map thread (`MapUpdater.cpp:42`); and
a challenge that is still in the write queue when a client that answers before it
has read it is refused (`Socket.h:265`), which `RefusedClientIsTold` excuses.

## 6. Not modelled, and why

- The synchronous connections (`GetFreeConnection`, `DirectCommitTransaction`): a
  caller takes a connection, uses it and unlocks it in one function, alone.
- `QueryCallback` and `AsyncCallbackProcessor` as such: a processor is walked by one
  thread, and what a link of a chain does is its caller's code. The two chains
  other threads can notice are in `WorldSessions` and `WorldSockets`.
- The stop of a network thread, the Windows completion ports, the choice of the
  network thread for a new socket.
- The authentication server: its sockets are those of `WorldSockets`; its own part
  is a table of states and cryptography.
- The dungeon finder and the battleground queue: their decisions are arithmetic
  over roles, levels and group sizes read from many places; a model small enough to
  check would leave out what decides.
- Groups, instance saves, auctions, mail, guild bank: sequential handlers over wide
  data with little control between them.
- Changes of the player limit while the realm runs, `KickAllLess`, session counters.
- Game rules, scripts, file and SQL input and output, configuration, logging and
  the console: sequential computations over data, or the environment.

Most of the source is game rules, scripts and data. The models cover the
control that several threads, clients or connections share, which is a small part
of its lines.
