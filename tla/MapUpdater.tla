----------------------------- MODULE MapUpdater -----------------------------
(***************************************************************************)
(* The map threads (MapUpdater) and the tick that drives them              *)
(* (MapMgr::Update, MapInstanced::Update, MapMgr::UnloadAll).              *)
(*                                                                         *)
(* In each tick the world thread queues one request for the dungeon finder *)
(* and one for each base map, and waits until pending_requests is 0.  A    *)
(* worker that updates an instanceable base map queues the requests for    *)
(* its instances itself, before it reports its own request as finished.    *)
(*                                                                         *)
(* MapUpdater::_lock is taken once in each method and Push is called under *)
(* it, so schedule_update and update_finished are single steps.  A request *)
(* outlives update_finished: its METRIC_TIMER still reads the map's id.    *)
(***************************************************************************)
EXTENDS Integers, FiniteSets, ProducerConsumerQueue

CONSTANTS
    BaseMaps,     \* maps that may be in i_maps
    Instances,    \* instance maps that may exist, m_InstancedMaps
    ParentOf,     \* [Instances -> BaseMaps]
    Lfg,          \* the map-less request of schedule_lfg_update
    None          \* the null request

AllMaps == BaseMaps \cup Instances
Requests == AllMaps \cup {Lfg}

ASSUME MapsAssumption ==
    /\ ParentOf \in [Instances -> BaseMaps]
    /\ BaseMaps \cap Instances = {}
    /\ IsFiniteSet(AllMaps)
    /\ Lfg \notin AllMaps
    /\ None \notin Requests

\* MapMgr::Initialize activates the updater with num_threads > 0 only.
ASSUME WorkersAssumption == IsFiniteSet(Consumers) /\ Consumers # {}

VARIABLES
    pending_requests,
    cancelationToken,
    maps,          \* the Map objects that exist: i_maps, m_InstancedMaps
    turns,         \* how many turns each map has had in this tick
    main,          \* where the world thread is
    todo,          \* base maps it has still to schedule
    worker,        \* where each worker is
    request,       \* the request a worker holds, until update_finished
    stopwatch,     \* the map its METRIC_TIMER refers to from then on
    visit          \* instances its MapInstanced::Update has still to visit

mainVars == <<main, todo>>
workerVars == <<worker, request, stopwatch, visit>>
vars == <<queueVars, pending_requests, cancelationToken, maps, turns,
          mainVars, workerVars>>

-----------------------------------------------------------------------------
(* MapUpdater's methods *)

\* Mutant: the request is queued and not counted.
schedule_updateUncounted(r) ==
    /\ UNCHANGED pending_requests
    /\ Push(r)

schedule_update(r) ==
    /\ pending_requests' = pending_requests + 1
    /\ Push(r)

\* notify_all wakes the world thread up if it is blocked in wait.
update_finished ==
    /\ pending_requests' = pending_requests - 1
    /\ main' = IF main = "blocked" THEN "wait"
               ELSE IF main = "blockedAtEnd" THEN "waitAtEnd" ELSE main

\* Mutant: wait looks at the queue instead of the counter.
waitForQueue(at, blocked, next) ==
    /\ main = at
    /\ main' = IF queue # <<>> THEN blocked ELSE next

\* One evaluation of wait's condition.
wait(at, blocked, next) ==
    /\ main = at
    /\ main' = IF pending_requests > 0 THEN blocked ELSE next

-----------------------------------------------------------------------------
(* The world thread *)

\* MapMgr::Update schedules the dungeon finder first.
BeginTick ==
    /\ main = "between"
    /\ schedule_update(Lfg)
    /\ todo' = BaseMaps \cap maps
    /\ main' = IF todo' = {} THEN "wait" ELSE "schedule"
    /\ turns' = [m \in AllMaps |-> 0]
    /\ UNCHANGED <<cancelationToken, maps, workerVars>>

ScheduleMap(m) ==
    /\ main = "schedule"
    /\ m \in todo
    /\ schedule_update(m)
    /\ todo' = todo \ {m}
    /\ main' = IF todo = {m} THEN "wait" ELSE "schedule"
    /\ UNCHANGED <<cancelationToken, maps, turns, workerVars>>

\* When wait returns DelayedUpdate touches every map, then the tick is over.
WaitForMaps ==
    /\ wait("wait", "blocked", "between")
    /\ UNCHANGED <<queueVars, pending_requests, cancelationToken, maps, turns,
                   todo, workerVars>>

MainWakesSpuriously ==
    /\ main \in {"blocked", "blockedAtEnd"}
    /\ main' = IF main = "blocked" THEN "wait" ELSE "waitAtEnd"
    /\ UNCHANGED <<queueVars, pending_requests, cancelationToken, maps, turns,
                   todo, workerVars>>

\* The first use of a base map creates it.
CreateBaseMap(m) ==
    /\ main = "between"
    /\ m \notin maps
    /\ maps' = maps \cup {m}
    /\ UNCHANGED <<queueVars, pending_requests, cancelationToken, turns,
                   mainVars, workerVars>>

\* A player enters a new instance, of a base map that may be new, too, while
\* the sessions are updated.  (If it enters an empty one that exists with
\* another difficulty, a new Map takes its place: the same maps exist.)
CreateInstance(i) ==
    /\ main = "between"
    /\ i \notin maps
    /\ maps' = maps \cup {ParentOf[i], i}
    /\ UNCHANGED <<queueVars, pending_requests, cancelationToken, turns,
                   mainVars, workerVars>>

\* MapMgr::UnloadAll deletes the maps; the workers are still there.
UnloadAll ==
    /\ main = "between"
    /\ maps' = {}
    /\ main' = "deactivate"
    /\ UNCHANGED <<queueVars, pending_requests, cancelationToken, turns, todo,
                   workerVars>>

\* Mutant: the queue is cancelled before the token is set.
DeactivateCancelsFirst ==
    /\ main = "deactivate"
    /\ Cancel
    /\ main' = "waitAtEnd"
    /\ UNCHANGED <<pending_requests, cancelationToken, maps, turns, todo,
                   workerVars>>

\* deactivate: first the token,
Deactivate ==
    /\ main = "deactivate"
    /\ cancelationToken' = TRUE
    /\ main' = "waitAtEnd"
    /\ UNCHANGED <<queueVars, pending_requests, maps, turns, todo, workerVars>>

\* then wait(),
WaitAtEnd ==
    /\ wait("waitAtEnd", "blockedAtEnd", "cancel")
    /\ UNCHANGED <<queueVars, pending_requests, cancelationToken, maps, turns,
                   todo, workerVars>>

\* then the queue,
CancelQueue ==
    /\ main = "cancel"
    /\ Cancel
    /\ main' = "join"
    /\ UNCHANGED <<pending_requests, cancelationToken, maps, turns, todo,
                   workerVars>>

\* and at last every thread is joined.
JoinWorkers ==
    /\ main = "join"
    /\ \A w \in Consumers : worker[w] = "gone"
    /\ main' = "stopped"
    /\ UNCHANGED <<queueVars, pending_requests, cancelationToken, maps, turns,
                   todo, workerVars>>

-----------------------------------------------------------------------------
(* MapUpdater::WorkerThread *)

Blocks(w) ==
    /\ worker[w] = "pop"
    /\ WaitAndPopBlocks(w)
    /\ UNCHANGED <<pending_requests, cancelationToken, maps, turns, mainVars,
                   workerVars>>

Wakes(w) ==
    /\ WakesSpuriously(w)
    /\ UNCHANGED <<pending_requests, cancelationToken, maps, turns, mainVars,
                   workerVars>>

Takes(w) ==
    /\ worker[w] = "pop"
    /\ WaitAndPopTakes(w)
    /\ request' = [request EXCEPT ![w] = Head(queue)]
    /\ worker' = [worker EXCEPT ![w] = "check"]
    /\ UNCHANGED <<pending_requests, cancelationToken, maps, turns, mainVars,
                   stopwatch, visit>>

GivesUp(w) ==
    /\ worker[w] = "pop"
    /\ WaitAndPopGivesUp(w)
    /\ worker' = [worker EXCEPT ![w] = "check"]
    /\ UNCHANGED <<pending_requests, cancelationToken, maps, turns, mainVars,
                   request, stopwatch, visit>>

\* if (_cancelationToken) return
Leaves(w) ==
    /\ worker[w] = "check"
    /\ cancelationToken
    /\ worker' = [worker EXCEPT ![w] = "gone"]
    /\ UNCHANGED <<queueVars, pending_requests, cancelationToken, maps, turns,
                   mainVars, request, stopwatch, visit>>

\* request->call() updates the map (Map::Update) and, if it is a base map,
\* goes on to the instances it finds in m_InstancedMaps.
Calls(w) ==
    /\ worker[w] = "check"
    /\ ~cancelationToken
    /\ worker' = [worker EXCEPT ![w] = "call"]
    /\ turns' = [m \in AllMaps |->
                      IF m = request[w] THEN turns[m] + 1 ELSE turns[m]]
    /\ visit' = [visit EXCEPT ![w] = {i \in Instances \cap maps :
                                          ParentOf[i] = request[w]}]
    /\ UNCHANGED <<queueVars, pending_requests, cancelationToken, maps, mainVars,
                   request, stopwatch>>

SchedulesInstance(w, i) ==
    /\ worker[w] = "call"
    /\ i \in visit[w]
    /\ schedule_update(i)
    /\ visit' = [visit EXCEPT ![w] = @ \ {i}]
    /\ UNCHANGED <<cancelationToken, maps, turns, mainVars, worker, request,
                   stopwatch>>

\* CanUnload: the unload timer has run down.  DestroyInstance sends the players
\* out; if nobody is left the instance is destroyed,
DestroysInstance(w, i) ==
    /\ worker[w] = "call"
    /\ i \in visit[w]
    /\ maps' = maps \ {i}
    /\ visit' = [visit EXCEPT ![w] = @ \ {i}]
    /\ UNCHANGED <<queueVars, pending_requests, cancelationToken, turns,
                   mainVars, worker, request, stopwatch>>

\* otherwise it is left alone until the next tick.
LeavesInstance(w, i) ==
    /\ worker[w] = "call"
    /\ i \in visit[w]
    /\ turns' = [turns EXCEPT ![i] = @ + 1]
    /\ visit' = [visit EXCEPT ![w] = @ \ {i}]
    /\ UNCHANGED <<queueVars, pending_requests, cancelationToken, maps, mainVars,
                   worker, request, stopwatch>>

\* Mutant: a base map reports itself finished before it has visited its
\* instances.
FinishesEarly(w) ==
    /\ worker[w] = "call"
    /\ update_finished
    /\ worker' = [worker EXCEPT ![w] = "finished"]
    /\ stopwatch' = [stopwatch EXCEPT ![w] = IF request[w] = Lfg THEN None ELSE request[w]]
    /\ request' = [request EXCEPT ![w] = None]
    /\ visit' = [visit EXCEPT ![w] = {}]
    /\ UNCHANGED <<queueVars, cancelationToken, maps, turns, todo>>

\* update_finished; a map's request still has its stopwatch to destroy.
Finishes(w) ==
    /\ worker[w] = "call"
    /\ visit[w] = {}
    /\ update_finished
    /\ worker' = [worker EXCEPT ![w] = "finished"]
    /\ stopwatch' = [stopwatch EXCEPT ![w] = IF request[w] = Lfg THEN None ELSE request[w]]
    /\ request' = [request EXCEPT ![w] = None]
    /\ UNCHANGED <<queueVars, cancelationToken, maps, turns, todo, visit>>

\* The stopwatch reads m_map.GetId(), if metrics are enabled, and the request is
\* deleted.
EndsRequest(w) ==
    /\ worker[w] = "finished"
    /\ worker' = [worker EXCEPT ![w] = "pop"]
    /\ stopwatch' = [stopwatch EXCEPT ![w] = None]
    /\ UNCHANGED <<queueVars, pending_requests, cancelationToken, maps, turns,
                   mainVars, request, visit>>

-----------------------------------------------------------------------------
Init ==
    /\ QueueInit
    /\ pending_requests = 0
    /\ cancelationToken = FALSE
    /\ maps = {}
    /\ turns = [m \in AllMaps |-> 1]
    /\ main = "between"
    /\ todo = {}
    /\ worker = [w \in Consumers |-> "pop"]
    /\ request = [w \in Consumers |-> None]
    /\ stopwatch = [w \in Consumers |-> None]
    /\ visit = [w \in Consumers |-> {}]

Tick == BeginTick \/ WaitForMaps \/ \E m \in BaseMaps : ScheduleMap(m)

Shutdown == Deactivate \/ WaitAtEnd \/ CancelQueue \/ JoinWorkers

Worker(w) ==
    \/ Blocks(w) \/ Takes(w) \/ GivesUp(w) \/ Leaves(w) \/ Calls(w)
    \/ Finishes(w) \/ EndsRequest(w)
    \/ \E i \in Instances : \/ SchedulesInstance(w, i)
                           \/ DestroysInstance(w, i)
                           \/ LeavesInstance(w, i)

Next ==
    \/ Tick \/ UnloadAll \/ Shutdown \/ MainWakesSpuriously
    \/ \E m \in BaseMaps : CreateBaseMap(m)
    \/ \E i \in Instances : CreateInstance(i)
    \/ \E w \in Consumers : Worker(w) \/ Wakes(w)

Spec == Init /\ [][Next]_vars

\* No thread stops while it can run.
FairSpec == /\ Spec
            /\ WF_vars(Tick)
            /\ WF_vars(Shutdown)
            /\ \A w \in Consumers : WF_vars(Worker(w))


-----------------------------------------------------------------------------
(* Properties *)

\* Every variable has its type; pending_requests, a size_t, never wraps.
TypeOK ==
    /\ QueueType(Requests)
    /\ pending_requests \in Nat
    /\ cancelationToken \in BOOLEAN
    /\ maps \subseteq AllMaps
    /\ turns \in [AllMaps -> Nat]
    /\ main \in {"between", "schedule", "wait", "blocked", "deactivate",
                 "waitAtEnd", "blockedAtEnd", "cancel", "join", "stopped"}
    /\ todo \subseteq BaseMaps
    /\ worker \in [Consumers -> {"pop", "check", "call", "finished", "gone"}]
    /\ request \in [Consumers -> Requests \cup {None}]
    /\ stopwatch \in [Consumers -> AllMaps \cup {None}]
    /\ visit \in [Consumers -> SUBSET Instances]

\* pending_requests counts the requests that are queued or that a worker has
\* still to carry out, also while workers queue further ones.
PendingCountsRequests ==
    pending_requests =
        Len(queue) + Cardinality({w \in Consumers : request[w] # None})

\* The world thread has the maps to itself between two ticks (sessions,
\* battlegrounds, DelayedUpdate) and once they are being unloaded: no request
\* is queued and no Map::Update runs.  What a worker does after
\* update_finished, the stopwatch's GetId() and the delete, is not covered.
NothingRunsBetweenTicks ==
    main \notin {"schedule", "wait", "blocked"} =>
        queue = <<>> /\ \A w \in Consumers : request[w] = None

\* A MapUpdateRequest keeps a Map&, and MapInstanced::Update an iterator: up to
\* update_finished the maps they refer to exist, instances that other workers
\* destroy and maps that UnloadAll deletes included.  It is not so of the Map&
\* that the stopwatch uses after update_finished.
NoDanglingMap ==
    /\ \A i \in DOMAIN queue : queue[i] \in maps \cup {Lfg}
    /\ \A w \in Consumers : /\ request[w] \in maps \cup {Lfg, None}
                            /\ visit[w] \subseteq maps

\* A worker that WaitAndPop sends away without a request finds the token set
\* and does not call the null pointer.
NoNullCall == \A w \in Consumers : worker[w] = "call" => request[w] # None

\* A worker that is not asleep in WaitAndPop, and so goes on by itself.
Runs(w) ==
    \/ worker[w] \in {"check", "call", "finished"}
    \/ worker[w] = "pop" /\ w \notin waiting

\* Nobody waits for a thread that sleeps: the world thread is blocked only while
\* requests are pending and a worker runs; no request is queued with every
\* worker asleep; and the threads that deactivate joins are on their way out.
NobodyWaitsInVain ==
    /\ NobodyOversleeps({w \in Consumers : worker[w] = "pop"})
    /\ main \in {"blocked", "blockedAtEnd"} =>
          pending_requests > 0 /\ \E w \in Consumers : Runs(w)
    /\ queue # <<>> => \E w \in Consumers : Runs(w)
    /\ main = "join" => \A w \in Consumers : Runs(w) \/ worker[w] = "gone"

\* The threads together implement MapTick: one turn of every map per tick.
tick == INSTANCE MapTick WITH
            phase <- CASE main = "between" -> "between"
                       [] main \in {"schedule", "wait", "blocked"} -> "tick"
                       [] OTHER -> "over"
ImplementsMapTick == tick!Spec

\* wait always returns: no wakeup is lost on either condition variable.
TickEnds == main = "schedule" ~> main = "between"

\* deactivate returns with every worker joined.
ShutdownEnds == main = "deactivate" ~> main = "stopped"

=============================================================================
