-------------------------- MODULE MapUpdaterProofs --------------------------
(***************************************************************************)
(* Theorems about MapUpdater, for any finite set of map threads, any base  *)
(* maps and any instances.                                                 *)
(***************************************************************************)
EXTENDS MapUpdater, ProducerConsumerQueueProofs, FiniteSetTheorems

-----------------------------------------------------------------------------
(* The inductive invariant *)

Ticking == main \in {"schedule", "wait", "blocked"}
Holders == {w \in Consumers : request[w] # None}

\* The map has still to have its turn in this tick: it is to be scheduled, is in
\* the queue, has just been taken from it, or is to be visited.
Coming(m) ==
    \/ m \in todo
    \/ m \in Queued
    \/ \E w \in Consumers : \/ worker[w] = "check" /\ request[w] = m
                            \/ m \in visit[w]

\* Where the threads can be.  The token comes before the cancelled queue, so a
\* worker without a request meets the token.
Control ==
    /\ shutdown => cancelationToken
    /\ cancelationToken <=>
          main \in {"waitAtEnd", "blockedAtEnd", "cancel", "join", "stopped"}
    /\ main # "schedule" => todo = {}
    /\ \A w \in Consumers :
          /\ worker[w] \in {"pop", "finished"} => request[w] = None
          /\ worker[w] = "check" => request[w] # None \/ shutdown

\* No request is in two places.
OnePlace ==
    /\ Distinct
    /\ \A m \in todo : m \notin Queued /\ \A w \in Consumers : request[w] # m
    /\ \A w \in Consumers : request[w] \notin Queued
    /\ \A v, w \in Consumers : v # w => request[v] # request[w] \/ request[w] = None
    /\ \A w \in Consumers : \A i \in visit[w] :
          /\ worker[w] = "call"
          /\ request[w] = ParentOf[i]
          /\ i \notin Queued
          /\ \A v \in Consumers : request[v] # i

\* In a tick a base map has its turn first, then its instances; a map that
\* exists has had its turn, or is on its way to it.
TurnsInOrder ==
    /\ turns \in [AllMaps -> {0, 1}]
    /\ \A m \in AllMaps : Coming(m) => turns[m] = 0
    /\ \A i \in Instances :
          Coming(i) \/ (\E w \in Consumers : request[w] = i) => turns[ParentOf[i]] = 1
    /\ Ticking =>
          /\ todo \subseteq maps
          /\ \A i \in Instances : turns[ParentOf[i]] = 0 => turns[i] = 0
          /\ \A m \in BaseMaps \cap maps : turns[m] = 1 \/ Coming(m)
          /\ \A i \in Instances \cap maps :
                turns[i] = 1 \/ Coming(i) \/ turns[ParentOf[i]] = 0
    /\ \A i \in Instances \cap maps : ParentOf[i] \in maps

IInv ==
    /\ TypeOK
    /\ Control
    /\ PendingCountsRequests
    /\ NothingRunsBetweenTicks
    /\ NoNullCall
    /\ NoDanglingMap
    /\ OnePlace
    /\ TurnsInOrder

-----------------------------------------------------------------------------
(* The requests in hand *)

\* Taking a request and giving it back change the number of requests in hand.
LEMMA HoldersCount ==
  /\ Cardinality(Holders) \in Nat
  /\ Cardinality(Holders) = 0 <=> Holders = {}
  /\ \A w \in Consumers :
        /\ w \notin Holders => Cardinality(Holders \cup {w}) = Cardinality(Holders) + 1
        /\ w \in Holders => Cardinality(Holders \ {w}) = Cardinality(Holders) - 1
<1>1. IsFiniteSet(Holders)
  BY WorkersAssumption, FS_Subset DEF Holders
<1> QED BY <1>1, FS_CardinalityType, FS_EmptySet, FS_AddElement, FS_RemoveElement

-----------------------------------------------------------------------------
(* Every step keeps the invariant *)

\* Before the first tick.
LEMMA InitIInv == Init => IInv
<1> SUFFICES ASSUME Init PROVE IInv
  OBVIOUS
<1> USE MapsAssumption DEF Init, QueueInit, AllMaps, Requests
<1>1. Queued = {} /\ Len(queue) = 0
  BY DEF Queued
<1>2. Holders = {} /\ Cardinality(Holders) = 0
  BY FS_EmptySet DEF Holders
<1>3. \A m \in AllMaps : ~Coming(m)
  BY <1>1 DEF Coming
<1>4. TypeOK
  <2>1. QueueType(Requests)
    BY EmptySeq DEF QueueType
  <2> QED BY <2>1 DEF TypeOK
<1>5. Control /\ NothingRunsBetweenTicks /\ NoNullCall /\ NoDanglingMap
  BY DEF Control, NothingRunsBetweenTicks, NoNullCall, NoDanglingMap
<1>6. PendingCountsRequests
  BY <1>1, <1>2 DEF PendingCountsRequests, Holders
<1>7. OnePlace
  BY <1>1 DEF OnePlace, Distinct
<1>8. TurnsInOrder
  BY <1>1, <1>3 DEF TurnsInOrder, Ticking
<1> QED BY <1>4, <1>5, <1>6, <1>7, <1>8 DEF IInv

\* Everything in the invariant but Control and NothingRunsBetweenTicks depends
\* only on these variables.
Contents == <<queue, pending_requests, maps, turns, todo, worker, request, visit>>

\* The world thread's steps that only move it on, and the workers' waiting.
LEMMA MovesOnKeeps ==
  ASSUME IInv, UNCHANGED Contents,
         TypeOK', Control', NothingRunsBetweenTicks',
         Ticking' => Ticking, main' = "between" => Ticking \/ main = "between"
  PROVE  IInv'
<1> USE DEF IInv, Contents
<1>1. PendingCountsRequests' /\ NoNullCall' /\ NoDanglingMap'
  BY DEF PendingCountsRequests, NoNullCall, NoDanglingMap
<1>2. Queued' = Queued
  BY DEF Queued
<1>3. OnePlace'
  BY <1>2 DEF OnePlace, Distinct
<1>4. TurnsInOrder'
  BY <1>2 DEF TurnsInOrder, Coming
<1> QED BY <1>1, <1>3, <1>4

\* wait() lets the world thread go on only when no request is queued or in hand.
LEMMA WaitSeesNothing ==
  ASSUME IInv, pending_requests = 0
  PROVE  queue = <<>> /\ \A w \in Consumers : request[w] = None
<1>1. QueueType(Requests) /\ pending_requests = Len(queue) + Cardinality(Holders)
  BY DEF IInv, TypeOK, PendingCountsRequests, Holders
<1>2. Len(queue) = 0 /\ Cardinality(Holders) = 0
  BY <1>1, QueuedEmpty, HoldersCount
<1> QED BY <1>1, <1>2, QueuedEmpty, HoldersCount DEF Holders

\* wait() of a tick: it blocks, or the tick is over and nothing runs.
LEMMA WaitForMapsKeeps == IInv /\ WaitForMaps => IInv'
<1> SUFFICES ASSUME IInv, WaitForMaps PROVE IInv'
  OBVIOUS
<1> USE DEF WaitForMaps, wait, IInv
<1>1. UNCHANGED Contents
  BY DEF Contents, queueVars, workerVars
<1>2. TypeOK'
  BY DEF TypeOK, QueueType, queueVars, workerVars
<1>3. Control'
  BY DEF Control, queueVars, workerVars
<1>4. NothingRunsBetweenTicks'
  BY WaitSeesNothing DEF NothingRunsBetweenTicks, queueVars, workerVars, TypeOK
<1> QED BY <1>1, <1>2, <1>3, <1>4, MovesOnKeeps DEF Ticking

\* A spurious wakeup of the world thread.
LEMMA MainWakesKeeps == IInv /\ MainWakesSpuriously => IInv'
<1> SUFFICES ASSUME IInv, MainWakesSpuriously PROVE IInv'
  OBVIOUS
<1> USE DEF MainWakesSpuriously, IInv
<1>1. UNCHANGED Contents
  BY DEF Contents, queueVars, workerVars
<1>2. TypeOK'
  BY DEF TypeOK, QueueType, queueVars, workerVars
<1>3. Control' /\ NothingRunsBetweenTicks'
  BY DEF Control, NothingRunsBetweenTicks, queueVars, workerVars
<1> QED BY <1>1, <1>2, <1>3, MovesOnKeeps DEF Ticking

\* deactivate sets the token when the workers have nothing to do.
LEMMA DeactivateKeeps == IInv /\ Deactivate => IInv'
<1> SUFFICES ASSUME IInv, Deactivate PROVE IInv'
  OBVIOUS
<1> USE DEF Deactivate, IInv
<1>1. UNCHANGED Contents
  BY DEF Contents, queueVars, workerVars
<1>2. TypeOK'
  BY DEF TypeOK, QueueType, queueVars, workerVars
<1>3. Control' /\ NothingRunsBetweenTicks'
  BY DEF Control, NothingRunsBetweenTicks, queueVars, workerVars
<1> QED BY <1>1, <1>2, <1>3, MovesOnKeeps DEF Ticking

\* wait() in deactivate.
LEMMA WaitAtEndKeeps == IInv /\ WaitAtEnd => IInv'
<1> SUFFICES ASSUME IInv, WaitAtEnd PROVE IInv'
  OBVIOUS
<1> USE DEF WaitAtEnd, wait, IInv
<1>1. UNCHANGED Contents
  BY DEF Contents, queueVars, workerVars
<1>2. TypeOK'
  BY DEF TypeOK, QueueType, queueVars, workerVars
<1>3. Control' /\ NothingRunsBetweenTicks'
  BY DEF Control, NothingRunsBetweenTicks, queueVars, workerVars
<1> QED BY <1>1, <1>2, <1>3, MovesOnKeeps DEF Ticking

\* The end of deactivate.
LEMMA JoinWorkersKeeps == IInv /\ JoinWorkers => IInv'
<1> SUFFICES ASSUME IInv, JoinWorkers PROVE IInv'
  OBVIOUS
<1> USE DEF JoinWorkers, IInv
<1>1. UNCHANGED Contents
  BY DEF Contents, queueVars, workerVars
<1>2. TypeOK'
  BY DEF TypeOK, QueueType, queueVars, workerVars
<1>3. Control' /\ NothingRunsBetweenTicks'
  BY DEF Control, NothingRunsBetweenTicks, queueVars, workerVars
<1> QED BY <1>1, <1>2, <1>3, MovesOnKeeps DEF Ticking

\* A worker blocks in WaitAndPop or wakes up for no reason.
LEMMA SleepKeeps ==
  ASSUME IInv, NEW w \in Consumers, Blocks(w) \/ Wakes(w)
  PROVE  IInv'
<1> USE DEF Blocks, WaitAndPopBlocks, Wakes, WakesSpuriously, IInv
<1>1. UNCHANGED Contents
  BY DEF Contents, mainVars, workerVars
<1>2. TypeOK'
  BY DEF TypeOK, QueueType, mainVars, workerVars
<1>3. Control' /\ NothingRunsBetweenTicks'
  BY DEF Control, NothingRunsBetweenTicks, mainVars, workerVars
<1> QED BY <1>1, <1>2, <1>3, MovesOnKeeps DEF Ticking, mainVars

\* The queue that is cancelled is empty already: nothing is lost with it.
LEMMA CancelQueueKeeps == IInv /\ CancelQueue => IInv'
<1> SUFFICES ASSUME IInv, CancelQueue PROVE IInv'
  OBVIOUS
<1> USE DEF CancelQueue, Cancel, IInv
<1>1. queue = <<>> /\ UNCHANGED Contents
  BY DEF Contents, NothingRunsBetweenTicks, workerVars
<1>2. TypeOK'
  BY <1>1 DEF TypeOK, QueueType, Contents, workerVars
<1>3. Control' /\ NothingRunsBetweenTicks'
  <2>1. cancelationToken
    BY DEF Control
  <2> QED BY <2>1 DEF Control, NothingRunsBetweenTicks, workerVars
<1> QED BY <1>1, <1>2, <1>3, MovesOnKeeps DEF Ticking

\* The dungeon finder's request is the first one of a tick.
LEMMA BeginTickKeeps == IInv /\ BeginTick => IInv'
<1> SUFFICES ASSUME IInv, BeginTick PROVE IInv'
  OBVIOUS
<1> USE MapsAssumption DEF BeginTick, schedule_update, IInv
<1>1. queue = <<>> /\ Queued = {} /\ \A w \in Consumers : request[w] = None
  BY QueuedEmpty DEF NothingRunsBetweenTicks, TypeOK
<1>2. Distinct /\ Lfg \in Requests
  BY DEF OnePlace, Distinct, Requests
<1>3. /\ queue' \in Seq(Requests) /\ Len(queue') = Len(queue) + 1 /\ Queued' = {Lfg}
      /\ Distinct'
  BY <1>1, <1>2, QueuedAfterPush DEF TypeOK
<1>4. UNCHANGED <<maps, worker, request, stopwatch, visit, shutdown, cancelationToken>>
  BY DEF Push, workerVars
<1>5. waiting' \subseteq Consumers
  BY DEF Push, NotifyOne, TypeOK, QueueType
<1>6. \A w \in Consumers : visit[w] = {}
  BY <1>1 DEF OnePlace, TypeOK, AllMaps, Requests
<1>7. TypeOK'
  BY <1>3, <1>4, <1>5 DEF TypeOK, QueueType, AllMaps
<1>8. Control'
  BY <1>4 DEF Control
<1>9. PendingCountsRequests'
  BY <1>3, <1>4, QueuedEmpty, HoldersCount DEF PendingCountsRequests, TypeOK, Holders
<1>10. NothingRunsBetweenTicks' /\ NoNullCall'
  BY <1>4 DEF NothingRunsBetweenTicks, NoNullCall
<1>11. NoDanglingMap'
  BY <1>1, <1>3, <1>4, <1>6 DEF NoDanglingMap, Queued
<1>12. OnePlace'
  BY <1>1, <1>3, <1>4, <1>6 DEF OnePlace, Distinct, AllMaps, Requests
<1>13. \A m \in AllMaps : Coming(m)' <=> m \in BaseMaps \cap maps
  BY <1>1, <1>3, <1>4, <1>6 DEF Coming, AllMaps, Requests
<1>14. TurnsInOrder'
  BY <1>1, <1>4, <1>13 DEF TurnsInOrder, Ticking, AllMaps, Requests
<1> QED BY <1>7, <1>8, <1>9, <1>10, <1>11, <1>12, <1>14

\* A base map goes from the world thread's list to the queue.
LEMMA ScheduleMapKeeps ==
  ASSUME IInv, NEW m \in BaseMaps, ScheduleMap(m)
  PROVE  IInv'
<1> USE MapsAssumption DEF ScheduleMap, schedule_update, IInv
<1>1. m \in Requests /\ m \notin Queued /\ Distinct
  BY DEF OnePlace, Distinct, Requests, AllMaps
<1>2. /\ queue' \in Seq(Requests) /\ Len(queue') = Len(queue) + 1
      /\ Queued' = Queued \cup {m}
      /\ Distinct'
  BY <1>1, QueuedAfterPush DEF TypeOK
<1>3. UNCHANGED <<maps, turns, worker, request, stopwatch, visit, shutdown, cancelationToken>>
  BY DEF Push, workerVars
<1>4. waiting' \subseteq Consumers
  BY DEF Push, NotifyOne, TypeOK, QueueType
<1>5. TypeOK'
  BY <1>2, <1>3, <1>4 DEF TypeOK, QueueType
<1>6. Control'
  BY <1>3 DEF Control
<1>7. PendingCountsRequests'
  BY <1>2, <1>3, QueuedEmpty, HoldersCount DEF PendingCountsRequests, TypeOK, Holders
<1>8. NothingRunsBetweenTicks' /\ NoNullCall'
  BY <1>3 DEF NothingRunsBetweenTicks, NoNullCall
<1>9. NoDanglingMap'
  <2>1. m \in maps
    BY DEF TurnsInOrder, Ticking
  <2>2. Queued \subseteq maps \cup {Lfg}
    BY DEF NoDanglingMap, Queued
  <2>3. Queued' \subseteq maps \cup {Lfg}
    BY <1>2, <2>1, <2>2
  <2> QED BY <1>3, <2>3 DEF NoDanglingMap, Queued
<1>10. OnePlace'
  BY <1>2, <1>3 DEF OnePlace, Distinct, AllMaps, TypeOK
<1>11. \A x \in AllMaps : Coming(x)' <=> Coming(x)
  BY <1>2, <1>3 DEF Coming
<1>12. TurnsInOrder'
  BY <1>3, <1>11 DEF TurnsInOrder, Ticking, AllMaps
<1> QED BY <1>5, <1>6, <1>7, <1>8, <1>9, <1>10, <1>12

\* Maps are created between two ticks, an instance not before its base map.
LEMMA CreateKeeps ==
  ASSUME IInv,
         \/ \E m \in BaseMaps : CreateBaseMap(m)
         \/ \E i \in Instances : CreateInstance(i)
  PROVE  IInv'
<1> USE MapsAssumption DEF CreateBaseMap, CreateInstance, IInv
<1>1. UNCHANGED <<queue, shutdown, waiting, pending_requests, cancelationToken,
                  turns, main, todo, worker, request, stopwatch, visit>>
  BY DEF queueVars, mainVars, workerVars
<1>2. Queued' = Queued /\ \A x : Coming(x)' <=> Coming(x)
  BY <1>1 DEF Queued, Coming
<1>3. TypeOK'
  BY <1>1 DEF TypeOK, QueueType, AllMaps
<1>4. Control' /\ PendingCountsRequests' /\ NothingRunsBetweenTicks' /\ NoNullCall'
  BY <1>1 DEF Control, PendingCountsRequests, NothingRunsBetweenTicks, NoNullCall
<1>5. NoDanglingMap' /\ OnePlace'
  BY <1>1, <1>2 DEF NoDanglingMap, OnePlace, Distinct
<1>6. TurnsInOrder'
  <2>1. main = "between" /\ \A i \in Instances \cap maps' : ParentOf[i] \in maps'
    BY DEF TurnsInOrder
  <2> QED BY <1>1, <1>2, <2>1 DEF TurnsInOrder, Ticking
<1> QED BY <1>3, <1>4, <1>5, <1>6

\* UnloadAll deletes the maps when no request refers to one.
LEMMA UnloadAllKeeps == IInv /\ UnloadAll => IInv'
<1> SUFFICES ASSUME IInv, UnloadAll PROVE IInv'
  OBVIOUS
<1> USE MapsAssumption DEF UnloadAll, IInv
<1>1. UNCHANGED <<queue, shutdown, waiting, pending_requests, cancelationToken,
                  turns, todo, worker, request, stopwatch, visit>>
  BY DEF queueVars, workerVars
<1>2. queue = <<>> /\ \A w \in Consumers : request[w] = None /\ visit[w] = {}
  BY DEF NothingRunsBetweenTicks, OnePlace, TypeOK, AllMaps, Requests
<1>3. Queued' = Queued /\ \A x : Coming(x)' <=> Coming(x)
  BY <1>1 DEF Queued, Coming
<1>4. TypeOK'
  BY <1>1 DEF TypeOK, QueueType
<1>5. Control' /\ PendingCountsRequests' /\ NothingRunsBetweenTicks' /\ NoNullCall'
  BY <1>1 DEF Control, PendingCountsRequests, NothingRunsBetweenTicks, NoNullCall
<1>6. NoDanglingMap' /\ OnePlace'
  BY <1>1, <1>2, <1>3 DEF NoDanglingMap, OnePlace, Distinct
<1>7. TurnsInOrder'
  BY <1>1, <1>3 DEF TurnsInOrder, Ticking
<1> QED BY <1>4, <1>5, <1>6, <1>7

\* A worker takes the request at the head of the queue.
LEMMA TakesKeeps ==
  ASSUME IInv, NEW w \in Consumers, Takes(w)
  PROVE  IInv'
<1> DEFINE r == Head(queue)
<1> USE MapsAssumption DEF Takes, IInv
<1>1. Distinct /\ WaitAndPopTakes(w) /\ QueueType(Requests)
  BY DEF OnePlace, Distinct, TypeOK
<1>2. /\ queue' \in Seq(Requests) /\ Len(queue') = Len(queue) - 1
      /\ r \in Queued /\ r \in Requests /\ r # None
      /\ Queued' = Queued \ {r}
      /\ Distinct'
  BY <1>1, QueuedAfterPop
<1>3. UNCHANGED <<shutdown, waiting, pending_requests, cancelationToken, maps,
                  turns, main, todo, stopwatch, visit>>
  BY <1>1 DEF WaitAndPopTakes, mainVars
<1>4. /\ request \in [Consumers -> Requests \cup {None}]
      /\ worker \in [Consumers -> {"pop", "check", "call", "finished", "gone"}]
      /\ request' = [request EXCEPT ![w] = r]
      /\ worker' = [worker EXCEPT ![w] = "check"]
      /\ worker[w] = "pop" /\ request[w] = None
      /\ queue # <<>> /\ Ticking
  BY <1>1 DEF TypeOK, Control, WaitAndPopTakes, NothingRunsBetweenTicks, Ticking
<1>5. TypeOK'
  BY <1>2, <1>3, <1>4 DEF TypeOK, QueueType
<1>6. Control'
  BY <1>2, <1>3, <1>4 DEF Control
<1>7. PendingCountsRequests'
  <2>1. Holders' = Holders \cup {w} /\ w \notin Holders
    BY <1>2, <1>4 DEF Holders
  <2> QED BY <1>1, <1>2, <1>3, <2>1, QueuedEmpty, HoldersCount
          DEF PendingCountsRequests, Holders
<1>8. NothingRunsBetweenTicks' /\ NoNullCall'
  BY <1>3, <1>4 DEF NothingRunsBetweenTicks, NoNullCall, Ticking
<1>9. NoDanglingMap'
  <2>1. Queued \subseteq maps \cup {Lfg}
    BY DEF NoDanglingMap, Queued
  <2>2. Queued' \subseteq maps \cup {Lfg}
    BY <1>2, <2>1
  <2> QED BY <1>2, <1>3, <1>4, <2>1, <2>2 DEF NoDanglingMap, Queued
<1>10. OnePlace'
  BY <1>2, <1>3, <1>4 DEF OnePlace, Distinct
<1>11. \A x \in AllMaps : Coming(x)' <=> Coming(x)
  BY <1>2, <1>3, <1>4 DEF Coming, Requests
<1>12. TurnsInOrder'
  BY <1>2, <1>3, <1>4, <1>11 DEF TurnsInOrder, Ticking, Coming
<1> QED BY <1>5, <1>6, <1>7, <1>8, <1>9, <1>10, <1>12

\* WaitAndPop returns without a request after Cancel only.
LEMMA GivesUpKeeps ==
  ASSUME IInv, NEW w \in Consumers, GivesUp(w)
  PROVE  IInv'
<1> USE MapsAssumption DEF GivesUp, WaitAndPopGivesUp, IInv
<1>1. UNCHANGED <<queue, shutdown, waiting, pending_requests, cancelationToken, maps,
                  turns, main, todo, request, stopwatch, visit>>
  BY DEF queueVars, mainVars
<1>2. /\ worker \in [Consumers -> {"pop", "check", "call", "finished", "gone"}]
      /\ worker' = [worker EXCEPT ![w] = "check"]
      /\ worker[w] = "pop" /\ request[w] = None /\ shutdown
  BY DEF TypeOK, Control
<1>3. Queued' = Queued /\ \A x \in AllMaps : Coming(x)' <=> Coming(x)
  BY <1>1, <1>2 DEF Queued, Coming, Requests
<1>4. TypeOK'
  BY <1>1, <1>2 DEF TypeOK, QueueType
<1>5. Control' /\ PendingCountsRequests' /\ NothingRunsBetweenTicks' /\ NoNullCall'
  BY <1>1, <1>2 DEF Control, PendingCountsRequests, NothingRunsBetweenTicks, NoNullCall
<1>6. NoDanglingMap' /\ OnePlace'
  BY <1>1, <1>2, <1>3 DEF NoDanglingMap, OnePlace, Distinct
<1>7. TurnsInOrder'
  BY <1>1, <1>3 DEF TurnsInOrder, Ticking, AllMaps
<1> QED BY <1>4, <1>5, <1>6, <1>7

\* With the token set no worker holds a request it could drop.
LEMMA LeavesKeeps ==
  ASSUME IInv, NEW w \in Consumers, Leaves(w)
  PROVE  IInv'
<1> USE MapsAssumption DEF Leaves, IInv
<1>1. UNCHANGED <<queue, shutdown, waiting, pending_requests, cancelationToken, maps,
                  turns, main, todo, request, stopwatch, visit>>
  BY DEF queueVars, mainVars
<1>2. /\ worker \in [Consumers -> {"pop", "check", "call", "finished", "gone"}]
      /\ worker' = [worker EXCEPT ![w] = "gone"]
      /\ worker[w] = "check" /\ request[w] = None
  BY DEF TypeOK, Control, NothingRunsBetweenTicks
<1>3. Queued' = Queued /\ \A x \in AllMaps : Coming(x)' <=> Coming(x)
  BY <1>1, <1>2 DEF Queued, Coming, Requests
<1>4. TypeOK'
  BY <1>1, <1>2 DEF TypeOK, QueueType
<1>5. Control' /\ PendingCountsRequests' /\ NothingRunsBetweenTicks' /\ NoNullCall'
  BY <1>1, <1>2 DEF Control, PendingCountsRequests, NothingRunsBetweenTicks, NoNullCall
<1>6. NoDanglingMap' /\ OnePlace'
  BY <1>1, <1>2, <1>3 DEF NoDanglingMap, OnePlace, Distinct
<1>7. TurnsInOrder'
  BY <1>1, <1>3 DEF TurnsInOrder, Ticking, AllMaps
<1> QED BY <1>4, <1>5, <1>6, <1>7

\* A worker at work holds a request, and that happens within a tick only.
LEMMA WorkIsInTick ==
  ASSUME IInv, NEW w \in Consumers,
         worker[w] = "call" \/ (worker[w] = "check" /\ ~cancelationToken)
  PROVE  /\ request[w] # None /\ request[w] \in Requests
         /\ Ticking
         /\ ~cancelationToken /\ ~shutdown
  BY DEF IInv, TypeOK, Control, NoNullCall, NothingRunsBetweenTicks, Ticking

\* The request becomes a turn; a base map's instances, none of which has had its
\* own turn, are to be visited.
LEMMA CallsKeeps ==
  ASSUME IInv, NEW w \in Consumers, Calls(w)
  PROVE  IInv'
<1> DEFINE r == request[w]
           mine == {i \in Instances \cap maps : ParentOf[i] = r}
<1> USE MapsAssumption DEF Calls, IInv
<1>1. r \in Requests /\ r # None /\ Ticking
  BY WorkIsInTick
<1>2. UNCHANGED <<queue, shutdown, waiting, pending_requests, cancelationToken, maps,
                  main, todo, request, stopwatch>>
  BY DEF queueVars, mainVars
<1>3. /\ worker \in [Consumers -> {"pop", "check", "call", "finished", "gone"}]
      /\ worker[w] = "check" /\ worker' = [worker EXCEPT ![w] = "call"]
      /\ visit \in [Consumers -> SUBSET Instances]
      /\ visit[w] = {} /\ visit' = [visit EXCEPT ![w] = mine]
      /\ turns \in [AllMaps -> {0, 1}]
      /\ turns' = [m \in AllMaps |-> IF m = r THEN turns[m] + 1 ELSE turns[m]]
  BY DEF TypeOK, OnePlace, TurnsInOrder
<1>4. r \in AllMaps => turns[r] = 0
  BY <1>3 DEF TurnsInOrder, Coming
<1>5. \A i \in mine : /\ r \in BaseMaps /\ turns[i] = 0 /\ ~Coming(i)
                      /\ \A v \in Consumers : request[v] # i
  BY <1>1, <1>4 DEF TurnsInOrder, AllMaps
<1>6. Queued' = Queued
  BY <1>2 DEF Queued
<1>7. \A m \in AllMaps : Coming(m)' <=> m # r /\ (Coming(m) \/ m \in mine)
  <2>1. \A m \in AllMaps : (\E v \in Consumers : m \in visit'[v])
                              <=> m \in mine \/ \E v \in Consumers : m \in visit[v]
    BY <1>3
  <2>2. \A m \in AllMaps :
           (\E v \in Consumers : worker'[v] = "check" /\ request'[v] = m)
              <=> m # r /\ \E v \in Consumers : worker[v] = "check" /\ request[v] = m
    BY <1>1, <1>2, <1>3 DEF OnePlace
  <2>3. r \notin todo /\ r \notin Queued /\ r \notin mine
        /\ \A v \in Consumers : r \notin visit[v]
    BY <1>1, <1>5 DEF OnePlace, AllMaps
  <2> QED BY <1>2, <1>6, <2>1, <2>2, <2>3 DEF Coming
<1>8. TypeOK'
  BY <1>2, <1>3 DEF TypeOK, QueueType
<1>9. Control' /\ PendingCountsRequests' /\ NothingRunsBetweenTicks' /\ NoNullCall'
  BY <1>1, <1>2, <1>3 DEF Control, PendingCountsRequests, NothingRunsBetweenTicks, NoNullCall
<1>10. NoDanglingMap'
  BY <1>2, <1>3 DEF NoDanglingMap
<1>11. OnePlace'
  BY <1>2, <1>3, <1>5, <1>6 DEF OnePlace, Distinct, Coming
<1>12. TurnsInOrder'
  BY <1>1, <1>2, <1>3, <1>4, <1>5, <1>7 DEF TurnsInOrder, Ticking, AllMaps
<1> QED BY <1>8, <1>9, <1>10, <1>11, <1>12

\* The request of an instance is counted while that of its base map still is.
LEMMA SchedulesInstanceKeeps ==
  ASSUME IInv, NEW w \in Consumers, NEW i \in Instances, SchedulesInstance(w, i)
  PROVE  IInv'
<1> USE MapsAssumption DEF SchedulesInstance, schedule_update, IInv
<1>1. i \in Requests /\ i \notin Queued /\ Distinct /\ Ticking /\ i \in maps
  BY WorkIsInTick DEF OnePlace, Distinct, Requests, AllMaps, NoDanglingMap
<1>2. /\ queue' \in Seq(Requests) /\ Len(queue') = Len(queue) + 1
      /\ Queued' = Queued \cup {i}
      /\ Distinct'
  BY <1>1, QueuedAfterPush DEF TypeOK
<1>3. UNCHANGED <<maps, turns, main, todo, worker, request, stopwatch, shutdown,
                  cancelationToken>>
  BY DEF Push, mainVars
<1>4. waiting' \subseteq Consumers
  BY DEF Push, NotifyOne, TypeOK, QueueType
<1>5. /\ visit \in [Consumers -> SUBSET Instances]
      /\ i \in visit[w]
      /\ visit' = [visit EXCEPT ![w] = @ \ {i}]
  BY DEF TypeOK
<1>6. TypeOK'
  BY <1>2, <1>3, <1>4, <1>5 DEF TypeOK, QueueType
<1>7. Control' /\ NothingRunsBetweenTicks' /\ NoNullCall'
  BY <1>1, <1>3 DEF Control, NothingRunsBetweenTicks, NoNullCall, Ticking
<1>8. PendingCountsRequests'
  BY <1>2, <1>3, QueuedEmpty, HoldersCount DEF PendingCountsRequests, TypeOK, Holders
<1>9. NoDanglingMap'
  <2>1. Queued \subseteq maps \cup {Lfg}
    BY DEF NoDanglingMap, Queued
  <2>2. Queued' \subseteq maps \cup {Lfg}
    BY <1>1, <1>2, <2>1
  <2> QED BY <1>3, <1>5, <2>2 DEF NoDanglingMap, Queued
<1>10. OnePlace'
  <2>1. \A v \in Consumers : v # w => i \notin visit[v]
    BY <1>5 DEF OnePlace, TypeOK, AllMaps, Requests
  <2> QED BY <1>1, <1>2, <1>3, <1>5, <2>1 DEF OnePlace, Distinct, TypeOK, AllMaps
<1>11. \A x \in AllMaps : Coming(x)' <=> Coming(x)
  BY <1>2, <1>3, <1>5 DEF Coming
<1>12. TurnsInOrder'
  BY <1>3, <1>11 DEF TurnsInOrder, Ticking, AllMaps
<1> QED BY <1>6, <1>7, <1>8, <1>9, <1>10, <1>12

\* An instance that is still to be visited is nowhere else, and has had no turn.
LEMMA VisitedIsNowhereElse ==
  ASSUME IInv, NEW w \in Consumers, NEW i \in visit[w]
  PROVE  /\ i \notin Queued /\ i \notin todo
         /\ \A v \in Consumers : request[v] # i /\ (v # w => i \notin visit[v])
         /\ turns[i] = 0 /\ turns[ParentOf[i]] = 1
         /\ i \in Instances /\ i \in maps
<1> USE MapsAssumption DEF IInv
<1>1. i \in Instances /\ i \in maps
  BY DEF TypeOK, NoDanglingMap
<1>2. Coming(i)
  BY DEF Coming
<1>3. i \notin Queued /\ \A v \in Consumers : request[v] # i
  BY DEF OnePlace
<1>4. i \notin todo
  BY <1>1 DEF TypeOK
<1>5. \A v \in Consumers : v # w => i \notin visit[v]
  BY <1>1 DEF OnePlace, AllMaps, Requests
<1>6. turns[i] = 0 /\ turns[ParentOf[i]] = 1
  BY <1>1, <1>2 DEF TurnsInOrder, AllMaps
<1> QED BY <1>1, <1>3, <1>4, <1>5, <1>6

\* No request refers to an instance that is destroyed.
LEMMA DestroysInstanceKeeps ==
  ASSUME IInv, NEW w \in Consumers, NEW i \in Instances, DestroysInstance(w, i)
  PROVE  IInv'
<1> USE MapsAssumption DEF DestroysInstance, IInv
<1>1. /\ i \notin Queued
      /\ \A v \in Consumers : request[v] # i /\ (v # w => i \notin visit[v])
      /\ Ticking
  BY VisitedIsNowhereElse, WorkIsInTick
<1>2. UNCHANGED <<queue, shutdown, waiting, pending_requests, cancelationToken,
                  turns, main, todo, worker, request, stopwatch>>
  BY DEF queueVars, mainVars
<1>3. /\ visit \in [Consumers -> SUBSET Instances]
      /\ visit' = [visit EXCEPT ![w] = @ \ {i}]
      /\ maps' = maps \ {i} /\ i \notin BaseMaps
  BY DEF TypeOK
<1>4. Queued' = Queued
  BY <1>2 DEF Queued
<1>5. TypeOK'
  BY <1>2, <1>3 DEF TypeOK, QueueType
<1>6. Control' /\ PendingCountsRequests' /\ NothingRunsBetweenTicks' /\ NoNullCall'
  BY <1>2 DEF Control, PendingCountsRequests, NothingRunsBetweenTicks, NoNullCall
<1>7. NoDanglingMap'
  <2>1. i # Lfg /\ i # None
    BY DEF AllMaps, Requests
  <2>2. \A k \in DOMAIN queue : queue[k] # i
    BY <1>1 DEF Queued
  <2> QED BY <1>1, <1>2, <1>3, <2>1, <2>2 DEF NoDanglingMap
<1>8. OnePlace'
  BY <1>2, <1>3, <1>4 DEF OnePlace, Distinct
<1>9. \A x \in AllMaps : Coming(x)' => Coming(x)
  BY <1>2, <1>3, <1>4 DEF Coming
<1>10. \A x \in AllMaps : Coming(x) /\ x # i => Coming(x)'
  BY <1>2, <1>3, <1>4 DEF Coming
<1>11. TurnsInOrder'
  <2>1. /\ \A m \in AllMaps : Coming(m)' => turns'[m] = 0
        /\ \A j \in Instances :
              Coming(j)' \/ (\E v \in Consumers : request'[v] = j) => turns'[ParentOf[j]] = 1
    BY <1>2, <1>9 DEF TurnsInOrder, AllMaps
  <2>2. \A j \in Instances \cap maps' : ParentOf[j] \in maps'
    BY <1>3 DEF TurnsInOrder
  <2>3. \A m \in BaseMaps \cap maps' : turns'[m] = 1 \/ Coming(m)'
    BY <1>1, <1>2, <1>3, <1>10 DEF TurnsInOrder, AllMaps
  <2>4. \A j \in Instances \cap maps' :
           turns'[j] = 1 \/ Coming(j)' \/ turns'[ParentOf[j]] = 0
    BY <1>1, <1>2, <1>3, <1>10 DEF TurnsInOrder, AllMaps
  <2>5. todo' \subseteq maps'
    BY <1>1, <1>2, <1>3 DEF TurnsInOrder, TypeOK
  <2> QED BY <1>1, <1>2, <2>1, <2>2, <2>3, <2>4, <2>5 DEF TurnsInOrder, Ticking
<1> QED BY <1>5, <1>6, <1>7, <1>8, <1>11

\* An instance that cannot be destroyed yet has had its turn.
LEMMA LeavesInstanceKeeps ==
  ASSUME IInv, NEW w \in Consumers, NEW i \in Instances, LeavesInstance(w, i)
  PROVE  IInv'
<1> USE MapsAssumption DEF LeavesInstance, IInv
<1>1. /\ i \notin Queued /\ i \notin todo
      /\ \A v \in Consumers : request[v] # i /\ (v # w => i \notin visit[v])
      /\ turns[i] = 0 /\ turns[ParentOf[i]] = 1
      /\ Ticking
  BY VisitedIsNowhereElse, WorkIsInTick
<1>2. UNCHANGED <<queue, shutdown, waiting, pending_requests, cancelationToken,
                  maps, main, todo, worker, request, stopwatch>>
  BY DEF queueVars, mainVars
<1>3. /\ visit \in [Consumers -> SUBSET Instances]
      /\ visit' = [visit EXCEPT ![w] = @ \ {i}]
      /\ turns \in [AllMaps -> {0, 1}] /\ i \in AllMaps
      /\ turns' = [turns EXCEPT ![i] = 1]
  BY <1>1 DEF TypeOK, TurnsInOrder, AllMaps
<1>4. Queued' = Queued
  BY <1>2 DEF Queued
<1>5. TypeOK'
  BY <1>2, <1>3 DEF TypeOK, QueueType
<1>6. Control' /\ PendingCountsRequests' /\ NothingRunsBetweenTicks' /\ NoNullCall'
  BY <1>2 DEF Control, PendingCountsRequests, NothingRunsBetweenTicks, NoNullCall
<1>7. NoDanglingMap' /\ OnePlace'
  BY <1>2, <1>3, <1>4 DEF NoDanglingMap, OnePlace, Distinct
<1>8. \A x \in AllMaps : Coming(x)' <=> Coming(x) /\ x # i
  BY <1>1, <1>2, <1>3, <1>4 DEF Coming
<1>9. TurnsInOrder'
  BY <1>1, <1>2, <1>3, <1>8 DEF TurnsInOrder, Ticking, AllMaps
<1> QED BY <1>5, <1>6, <1>7, <1>9

\* update_finished takes the worker's own request off the count.
LEMMA FinishesKeeps ==
  ASSUME IInv, NEW w \in Consumers, Finishes(w)
  PROVE  IInv'
<1> USE MapsAssumption DEF Finishes, update_finished, IInv
<1>1. request[w] # None /\ Ticking /\ ~cancelationToken
  BY WorkIsInTick
<1>2. UNCHANGED <<queue, shutdown, waiting, cancelationToken, maps, turns, todo, visit>>
      /\ stopwatch' \in [Consumers -> AllMaps \cup {None}]
  BY <1>1 DEF queueVars, TypeOK, Requests
<1>3. /\ request \in [Consumers -> Requests \cup {None}]
      /\ worker \in [Consumers -> {"pop", "check", "call", "finished", "gone"}]
      /\ worker[w] = "call" /\ visit[w] = {}
      /\ request' = [request EXCEPT ![w] = None]
      /\ worker' = [worker EXCEPT ![w] = "finished"]
      /\ pending_requests' = pending_requests - 1
  BY DEF TypeOK
<1>4. Ticking' /\ (main' = "schedule" <=> main = "schedule")
  BY <1>1 DEF Ticking
<1>5. PendingCountsRequests' /\ pending_requests' \in Nat
  <2>1. Holders' = Holders \ {w} /\ w \in Holders
    BY <1>1, <1>3 DEF Holders
  <2>2. Cardinality(Holders) # 0 /\ Cardinality(Holders') = Cardinality(Holders) - 1
    BY <2>1, HoldersCount
  <2>3. Len(queue) \in Nat /\ Cardinality(Holders) \in Nat
    BY QueuedEmpty, HoldersCount DEF TypeOK
  <2> QED BY <1>2, <1>3, <2>2, <2>3 DEF PendingCountsRequests, Holders
<1>6. Queued' = Queued
  BY <1>2 DEF Queued
<1>7. TypeOK'
  BY <1>2, <1>3, <1>4, <1>5 DEF TypeOK, QueueType, Ticking
<1>8. Control' /\ NothingRunsBetweenTicks' /\ NoNullCall'
  BY <1>1, <1>2, <1>3, <1>4 DEF Control, NothingRunsBetweenTicks, NoNullCall, Ticking
<1>9. NoDanglingMap'
  BY <1>2, <1>3 DEF NoDanglingMap
<1>10. OnePlace'
  <2>1. None \notin Queued /\ None \notin todo /\ \A v \in Consumers : None \notin visit[v]
    BY DEF NoDanglingMap, Queued, TypeOK, Requests, AllMaps
  <2> QED BY <1>2, <1>3, <1>6, <2>1 DEF OnePlace, Distinct, AllMaps, Requests
<1>11. \A x \in AllMaps : Coming(x)' <=> Coming(x)
  BY <1>2, <1>3, <1>6 DEF Coming, Requests
<1>12. TurnsInOrder'
  BY <1>1, <1>2, <1>3, <1>4, <1>11 DEF TurnsInOrder, Ticking, AllMaps, Requests
<1> QED BY <1>5, <1>7, <1>8, <1>9, <1>10, <1>12

\* The end of a request nobody counts any more.
LEMMA EndsRequestKeeps ==
  ASSUME IInv, NEW w \in Consumers, EndsRequest(w)
  PROVE  IInv'
<1> USE MapsAssumption DEF EndsRequest, IInv
<1>1. UNCHANGED <<queue, shutdown, waiting, pending_requests, cancelationToken, maps,
                  turns, main, todo, request, visit>>
      /\ stopwatch' \in [Consumers -> AllMaps \cup {None}]
  BY DEF queueVars, mainVars, TypeOK
<1>2. /\ worker \in [Consumers -> {"pop", "check", "call", "finished", "gone"}]
      /\ worker' = [worker EXCEPT ![w] = "pop"]
      /\ worker[w] = "finished" /\ request[w] = None
  BY DEF TypeOK, Control
<1>3. Queued' = Queued /\ \A x \in AllMaps : Coming(x)' <=> Coming(x)
  BY <1>1, <1>2 DEF Queued, Coming, Requests
<1>4. TypeOK'
  BY <1>1, <1>2 DEF TypeOK, QueueType
<1>5. Control' /\ PendingCountsRequests' /\ NothingRunsBetweenTicks' /\ NoNullCall'
  BY <1>1, <1>2 DEF Control, PendingCountsRequests, NothingRunsBetweenTicks, NoNullCall
<1>6. NoDanglingMap' /\ OnePlace'
  BY <1>1, <1>2, <1>3 DEF NoDanglingMap, OnePlace, Distinct
<1>7. TurnsInOrder'
  BY <1>1, <1>3 DEF TurnsInOrder, Ticking, AllMaps
<1> QED BY <1>4, <1>5, <1>6, <1>7

\* A step that changes nothing.
LEMMA StutterKeeps == IInv /\ UNCHANGED vars => IInv'
<1> SUFFICES ASSUME IInv, UNCHANGED vars PROVE IInv'
  OBVIOUS
<1>1. UNCHANGED Contents /\ UNCHANGED <<queueVars, cancelationToken, main>>
  BY DEF vars, Contents, mainVars, workerVars, queueVars
<1>2. TypeOK' /\ Control' /\ NothingRunsBetweenTicks'
  BY <1>1 DEF IInv, TypeOK, QueueType, Control, NothingRunsBetweenTicks, Contents, queueVars,
             vars, workerVars
<1> QED BY <1>1, <1>2, MovesOnKeeps DEF Ticking

\* Every step keeps the invariant.
LEMMA NextIInv == IInv /\ [Next]_vars => IInv'
<1> SUFFICES ASSUME IInv, [Next]_vars PROVE IInv'
  OBVIOUS
<1>1. CASE Tick
  BY <1>1, BeginTickKeeps, ScheduleMapKeeps, WaitForMapsKeeps DEF Tick
<1>2. CASE UnloadAll \/ Shutdown \/ MainWakesSpuriously
  BY <1>2, UnloadAllKeeps, DeactivateKeeps, WaitAtEndKeeps, CancelQueueKeeps,
     JoinWorkersKeeps, MainWakesKeeps DEF Shutdown
<1>3. CASE \/ \E m \in BaseMaps : CreateBaseMap(m)
           \/ \E i \in Instances : CreateInstance(i)
  BY <1>3, CreateKeeps
<1>4. ASSUME NEW w \in Consumers, Worker(w) \/ Wakes(w) PROVE IInv'
  BY <1>4, SleepKeeps, TakesKeeps, GivesUpKeeps, LeavesKeeps, CallsKeeps,
     FinishesKeeps, EndsRequestKeeps, SchedulesInstanceKeeps, DestroysInstanceKeeps,
     LeavesInstanceKeeps DEF Worker
<1>5. CASE UNCHANGED vars
  BY <1>5, StutterKeeps
<1> QED BY <1>1, <1>2, <1>3, <1>4, <1>5 DEF Next

\* The invariant holds in every behaviour.
LEMMA SpecIInv == Spec => []IInv
  BY InitIInv, NextIInv, PTL DEF Spec

-----------------------------------------------------------------------------
(* Theorems *)

\* Every variable keeps its type; pending_requests never wraps.
THEOREM TypeCorrect == Spec => []TypeOK
<1>1. IInv => TypeOK
  BY DEF IInv
<1> QED BY <1>1, SpecIInv, PTL

\* pending_requests is exact, however many workers schedule and finish requests.
THEOREM PendingIsExact == Spec => []PendingCountsRequests
<1>1. IInv => PendingCountsRequests
  BY DEF IInv
<1> QED BY <1>1, SpecIInv, PTL

\* MapUpdater::wait is a barrier: between ticks the world thread is alone.
THEOREM WorldThreadAlone == Spec => []NothingRunsBetweenTicks
<1>1. IInv => NothingRunsBetweenTicks
  BY DEF IInv
<1> QED BY <1>1, SpecIInv, PTL

\* No worker calls a null request: pop leaves its argument unset only when the
\* queue is cancelled, and the worker then looks at the token first.
THEOREM WorkersHoldRequests == Spec => []NoNullCall
<1>1. IInv => NoNullCall
  BY DEF IInv
<1> QED BY <1>1, SpecIInv, PTL

\* The map of a request, queued or at work up to update_finished, and the
\* instances a worker is to visit exist, whoever destroys instances meanwhile.
\* (Not so the map of the stopwatch that outlives update_finished.)
THEOREM RequestsReferToLiveMaps == Spec => []NoDanglingMap
<1>1. IInv => NoDanglingMap
  BY DEF IInv
<1> QED BY <1>1, SpecIInv, PTL

-----------------------------------------------------------------------------
(* Refinement of MapTick *)

phase == CASE main = "between" -> "between"
           [] main \in {"schedule", "wait", "blocked"} -> "tick"
           [] OTHER -> "over"

\* The values of phase.
LEMMA PhaseValues ==
  /\ main = "between" => phase = "between"
  /\ Ticking => phase = "tick"
  /\ main # "between" /\ ~Ticking => phase = "over"
  BY DEF phase, Ticking

\* A step that changes neither maps, turns nor phase is a stutter of MapTick.
LEMMA Stutters ==
  ASSUME UNCHANGED <<maps, turns, phase>>
  PROVE  UNCHANGED tick!vars
  BY DEF tick!vars, phase

\* The maps start as MapTick says.
LEMMA InitRefines == Init => tick!Init
  BY DEF Init, tick!Init, tick!AllMaps, AllMaps

\* wait() returns when every map that exists has had its turn.
LEMMA WaitRefines ==
  ASSUME IInv, WaitForMaps
  PROVE  tick!EndTick \/ UNCHANGED tick!vars
<1> USE DEF WaitForMaps, wait, IInv
<1>1. UNCHANGED <<maps, turns>> /\ Ticking
  BY DEF Ticking
<1>2. CASE main' = "blocked"
  <2>1. phase' = phase
    BY <1>1, <1>2 DEF phase, Ticking
  <2> QED BY <1>1, <2>1, Stutters
<1>3. CASE main' # "blocked"
  <2>1. pending_requests = 0 /\ main' = "between"
    BY <1>3 DEF TypeOK
  <2>2. /\ Queued = {} /\ todo = {}
        /\ \A w \in Consumers : request[w] = None /\ visit[w] = {}
    BY <2>1, WaitSeesNothing, MapsAssumption
    DEF Control, Queued, OnePlace, TypeOK, AllMaps, Requests
  <2>3. \A m \in AllMaps : ~Coming(m)
    BY <2>2, MapsAssumption DEF Coming, Requests
  <2>4. \A m \in maps : turns[m] = 1
    BY <1>1, <2>3, MapsAssumption DEF TurnsInOrder, TypeOK, AllMaps
  <2> QED BY <1>1, <2>1, <2>4 DEF tick!EndTick, Ticking
<1> QED BY <1>2, <1>3

\* A request that is called is a turn of its map, the first one in the tick.
LEMMA CallsRefines ==
  ASSUME IInv, NEW w \in Consumers, Calls(w)
  PROVE  \/ \E m \in AllMaps : tick!Turn(m)
         \/ UNCHANGED tick!vars
<1> DEFINE r == request[w]
<1> USE MapsAssumption DEF Calls, IInv
<1>1. r \in Requests /\ r # None /\ Ticking
  BY WorkIsInTick
<1>2. /\ UNCHANGED <<maps, main>>
      /\ turns \in [AllMaps -> {0, 1}]
      /\ turns' = [m \in AllMaps |-> IF m = r THEN turns[m] + 1 ELSE turns[m]]
  BY DEF mainVars, TurnsInOrder
<1>3. CASE r = Lfg
  <2>1. turns' = turns
    BY <1>2, <1>3
  <2> QED BY <1>2, <2>1, Stutters DEF phase
<1>4. CASE r \in AllMaps
  <2>1. r \in maps /\ turns[r] = 0
    BY <1>1, <1>4 DEF NoDanglingMap, TurnsInOrder, Coming
  <2>2. turns' = [turns EXCEPT ![r] = 1]
    <3>1. turns[r] + 1 = 1
      BY <2>1
    <3>2. turns' = [m \in AllMaps |-> IF m = r THEN 1 ELSE turns[m]]
      BY <1>2, <3>1
    <3>3. DOMAIN turns = AllMaps
      BY <1>2
    <3> QED BY <3>2, <3>3
  <2> QED BY <1>1, <1>2, <1>4, <2>1, <2>2 DEF tick!Turn, Ticking
<1> QED BY <1>1, <1>3, <1>4 DEF Requests

\* The workers' steps: a turn, a destroyed instance, or nothing MapTick sees.
LEMMA WorkerRefines ==
  ASSUME IInv, NEW w \in Consumers, Worker(w) \/ Wakes(w)
  PROVE  tick!Next \/ UNCHANGED tick!vars
<1>1. CASE Blocks(w) \/ Wakes(w) \/ Takes(w) \/ GivesUp(w) \/ Leaves(w)
  <2>1. UNCHANGED <<maps, turns, main>>
    BY <1>1 DEF Blocks, Wakes, Takes, GivesUp, Leaves, mainVars
  <2> QED BY <2>1, Stutters DEF phase
<1>2. CASE Calls(w)
  BY <1>2, CallsRefines DEF tick!Next, tick!AllMaps, AllMaps
<1>7. CASE EndsRequest(w)
  <2>1. UNCHANGED <<maps, turns, main>>
    BY <1>7 DEF EndsRequest, mainVars
  <2> QED BY <2>1, Stutters DEF phase
<1>3. CASE Finishes(w)
  <2>1. UNCHANGED <<maps, turns>> /\ Ticking
    BY <1>3, WorkIsInTick DEF Finishes
  <2>2. phase' = phase
    BY <1>3, <2>1 DEF phase, Ticking, Finishes, update_finished
  <2> QED BY <2>1, <2>2, Stutters
<1>4. ASSUME NEW i \in Instances, SchedulesInstance(w, i)
      PROVE  UNCHANGED tick!vars
  <2>1. UNCHANGED <<maps, turns, main>>
    BY <1>4 DEF SchedulesInstance, mainVars
  <2> QED BY <2>1, Stutters DEF phase
<1>5. ASSUME NEW i \in Instances, DestroysInstance(w, i)
      PROVE  tick!Destroy(i)
  <2>1. turns[i] = 0 /\ Ticking
    BY <1>5, VisitedIsNowhereElse, WorkIsInTick DEF DestroysInstance
  <2> QED BY <1>5, <2>1 DEF DestroysInstance, tick!Destroy, Ticking, mainVars
<1>6. ASSUME NEW i \in Instances, LeavesInstance(w, i)
      PROVE  tick!Turn(i)
  <2>1. turns[i] = 0 /\ i \in maps /\ Ticking
    BY <1>6, VisitedIsNowhereElse, WorkIsInTick DEF LeavesInstance
  <2>2. turns' = [turns EXCEPT ![i] = 1]
    BY <1>6, <2>1 DEF LeavesInstance, IInv, TypeOK
  <2> QED BY <1>6, <2>1, <2>2 DEF LeavesInstance, tick!Turn, Ticking, mainVars
<1> QED BY <1>1, <1>2, <1>3, <1>4, <1>5, <1>6, <1>7 DEF Worker, tick!Next, tick!AllMaps

\* Every step is a step of MapTick, or none.
LEMMA NextRefines == IInv /\ [Next]_vars => [tick!Next]_(tick!vars)
<1> SUFFICES ASSUME IInv, [Next]_vars
             PROVE  tick!Next \/ UNCHANGED tick!vars
  OBVIOUS
<1>1. CASE BeginTick
  BY <1>1 DEF BeginTick, tick!Next, tick!BeginTick, tick!AllMaps, AllMaps
<1>2. ASSUME NEW m \in BaseMaps, ScheduleMap(m)
      PROVE  UNCHANGED tick!vars
  <2>1. UNCHANGED <<maps, turns, phase>>
    BY <1>2 DEF ScheduleMap, phase
  <2> QED BY <2>1, Stutters
<1>3. CASE WaitForMaps
  BY <1>3, WaitRefines DEF tick!Next
<1>4. CASE UnloadAll
  BY <1>4 DEF UnloadAll, tick!Next, tick!UnloadAll
<1>5. CASE Shutdown \/ MainWakesSpuriously
  <2>1. UNCHANGED <<maps, turns, phase>>
    BY <1>5 DEF Shutdown, Deactivate, WaitAtEnd, wait, CancelQueue, JoinWorkers,
                MainWakesSpuriously, phase
  <2> QED BY <2>1, Stutters
<1>6. ASSUME \/ \E m \in BaseMaps : CreateBaseMap(m)
             \/ \E i \in Instances : CreateInstance(i)
      PROVE  tick!Next
  <2>1. PICK new \in SUBSET AllMaps :
           /\ main = "between" /\ UNCHANGED <<main, turns>>
           /\ maps' = maps \cup new
    <3>1. CASE \E m \in BaseMaps : CreateBaseMap(m)
      BY <3>1 DEF CreateBaseMap, mainVars, AllMaps
    <3>2. CASE \E i \in Instances : CreateInstance(i)
      <4>1. PICK i \in Instances : CreateInstance(i)
        BY <3>2
      <4>2. {ParentOf[i], i} \in SUBSET AllMaps
        BY MapsAssumption DEF AllMaps
      <4> QED BY <4>1, <4>2 DEF CreateInstance, mainVars
    <3> QED BY <1>6, <3>1, <3>2
  <2>2. phase = "between" /\ UNCHANGED <<turns, phase>>
    BY <2>1 DEF phase
  <2>3. tick!Create(new)
    BY <2>1, <2>2 DEF tick!Create, phase
  <2> QED BY <2>1, <2>3 DEF tick!Next, tick!AllMaps, AllMaps
<1>7. CASE \E w \in Consumers : Worker(w) \/ Wakes(w)
  BY <1>7, WorkerRefines
<1>8. CASE UNCHANGED vars
  BY <1>8, Stutters DEF vars, mainVars, phase
<1> QED BY <1>1, <1>2, <1>3, <1>4, <1>5, <1>6, <1>7, <1>8 DEF Next, Tick

\* Whatever the number of map threads, and however they interleave, every tick
\* gives every map that exists exactly one turn, and nothing happens to the maps
\* outside a tick.
THEOREM Refinement == Spec => ImplementsMapTick
  BY InitRefines, NextRefines, SpecIInv, PTL DEF Spec, ImplementsMapTick, tick!Spec

-----------------------------------------------------------------------------
(* Nobody waits in vain *)

Inside == {w \in Consumers : worker[w] = "pop"}

\* Who sleeps, and who has been woken up.
Waking ==
    /\ NobodyOversleeps(Inside)
    /\ main \in {"blocked", "blockedAtEnd"} => pending_requests > 0
    /\ main \in {"join", "stopped"} => shutdown
    /\ \A w \in Consumers : worker[w] = "gone" => cancelationToken

\* NobodyOversleeps after a step, from what the lemmas about the queue say of
\* the set of threads that are inside WaitAndPop then.
LEMMA InsideAfter ==
  ASSUME NEW J, J = Inside', NobodyOversleeps(J)'
  PROVE  NobodyOversleeps(Inside)'
  BY DEF NobodyOversleeps

\* Finitely many threads are inside.
LEMMA InsideIsFinite == IsFiniteSet(Inside)
  BY WorkersAssumption, FS_Subset DEF Inside

\* Before the first tick nobody sleeps.
LEMMA InitWaking == Init => Waking
<1> SUFFICES ASSUME Init PROVE Waking
  OBVIOUS
<1>1. NobodyOversleeps(Inside)
  BY DEF Init, QueueInit, NobodyOversleeps
<1> QED BY <1>1 DEF Init, Waking

\* The world thread's steps that leave the queue alone.
LEMMA MainKeepsWaking ==
  ASSUME IInv, Waking,
         \/ WaitForMaps \/ MainWakesSpuriously \/ UnloadAll \/ Deactivate \/ WaitAtEnd
         \/ JoinWorkers
         \/ \E m \in BaseMaps : CreateBaseMap(m)
         \/ \E i \in Instances : CreateInstance(i)
  PROVE  Waking'
<1>1. UNCHANGED <<queueVars, worker, pending_requests>>
  BY DEF WaitForMaps, MainWakesSpuriously, UnloadAll, Deactivate, WaitAtEnd, JoinWorkers,
         CreateBaseMap, CreateInstance, workerVars, mainVars
<1>2. NobodyOversleeps(Inside)'
  <2>1. PICK J : J = Inside' /\ J = Inside
    BY <1>1 DEF Inside
  <2>2. NobodyOversleeps(J)'
    BY <1>1, <2>1, StaysAwake DEF Waking
  <2> QED BY <2>1, <2>2, InsideAfter
<1>3. UNCHANGED shutdown
  BY <1>1 DEF queueVars
<1>4. main' \in {"blocked", "blockedAtEnd"} => pending_requests' > 0
  BY <1>1 DEF WaitForMaps, wait, MainWakesSpuriously, UnloadAll, Deactivate, WaitAtEnd,
              JoinWorkers, CreateBaseMap, CreateInstance, mainVars, Waking
<1>5. main' \in {"join", "stopped"} => main \in {"join", "stopped"}
  BY DEF WaitForMaps, wait, MainWakesSpuriously, UnloadAll, Deactivate, WaitAtEnd,
         JoinWorkers, CreateBaseMap, CreateInstance, mainVars
<1>6. cancelationToken => cancelationToken'
  BY DEF WaitForMaps, MainWakesSpuriously, UnloadAll, Deactivate, WaitAtEnd,
         JoinWorkers, CreateBaseMap, CreateInstance
<1> QED BY <1>1, <1>2, <1>3, <1>4, <1>5, <1>6 DEF Waking

\* The steps that queue a request.
LEMMA PushKeepsWaking ==
  ASSUME IInv, Waking,
         \/ BeginTick \/ \E m \in BaseMaps : ScheduleMap(m)
         \/ \E w \in Consumers, i \in Instances : SchedulesInstance(w, i)
  PROVE  Waking'
<1>1. PICK r \in Requests : schedule_update(r)
  BY DEF BeginTick, ScheduleMap, SchedulesInstance, Requests, AllMaps
<1>2. UNCHANGED <<worker, cancelationToken, shutdown>>
  BY <1>1 DEF BeginTick, ScheduleMap, SchedulesInstance, workerVars, schedule_update, Push
<1>3. NobodyOversleeps(Inside)'
  <2>1. PICK J : J = Inside' /\ J = Inside
    BY <1>2 DEF Inside
  <2>2. QueueType(Requests) /\ Push(r) /\ NobodyOversleeps(J) /\ IsFiniteSet(J)
    BY <1>1, <2>1, InsideIsFinite DEF IInv, TypeOK, schedule_update, Waking
  <2>3. NobodyOversleeps(J)'
    BY <2>2, PushWakesOne
  <2> QED BY <2>1, <2>3, InsideAfter
<1>4. pending_requests' = pending_requests + 1 /\ pending_requests \in Nat
  BY <1>1 DEF schedule_update, IInv, TypeOK
<1>5. main' \in {"join", "stopped"} => main \in {"join", "stopped"}
  BY DEF BeginTick, ScheduleMap, SchedulesInstance, mainVars
<1> QED BY <1>2, <1>3, <1>4, <1>5 DEF Waking

\* Cancel wakes everybody up.
LEMMA CancelKeepsWaking ==
  ASSUME IInv, Waking, CancelQueue
  PROVE  Waking'
<1>1. PICK J : J = Inside'
  OBVIOUS
<1>2. NobodyOversleeps(J)'
  BY CancelWakesAll DEF CancelQueue
<1>3. NobodyOversleeps(Inside)'
  BY <1>1, <1>2, InsideAfter
<1> QED BY <1>3 DEF CancelQueue, Cancel, workerVars, Waking

\* A worker in WaitAndPop.
LEMMA PopKeepsWaking ==
  ASSUME IInv, Waking, NEW w \in Consumers, Blocks(w) \/ Wakes(w) \/ Takes(w) \/ GivesUp(w)
  PROVE  Waking'
<1>1. /\ UNCHANGED <<pending_requests, cancelationToken, main>>
      /\ QueueType(Requests) /\ worker \in [Consumers -> {"pop", "check", "call", "finished", "gone"}]
      /\ NobodyOversleeps(Inside) /\ IsFiniteSet(Inside)
  BY InsideIsFinite
  DEF Blocks, Wakes, Takes, GivesUp, mainVars, IInv, TypeOK, Waking
<1>2. NobodyOversleeps(Inside)'
  <2>1. PICK J : J = Inside'
    OBVIOUS
  <2>2. CASE Blocks(w)
    <3>1. J = Inside /\ w \in Inside /\ WaitAndPopBlocks(w)
      BY <2>1, <2>2 DEF Blocks, workerVars, Inside
    <3>2. NobodyOversleeps(J)'
      BY <1>1, <3>1, BlocksBesideNothing
    <3> QED BY <2>1, <3>2, InsideAfter
  <2>3. CASE Wakes(w)
    <3>1. J = Inside /\ WakesSpuriously(w)
      BY <2>1, <2>3 DEF Wakes, workerVars, Inside
    <3>2. NobodyOversleeps(J)'
      BY <1>1, <3>1, SpuriousWakeup
    <3> QED BY <2>1, <3>2, InsideAfter
  <2>4. CASE Takes(w)
    <3>1. J = Inside \ {w} /\ w \in Inside /\ WaitAndPopTakes(w)
      BY <1>1, <2>1, <2>4 DEF Takes, Inside
    <3>2. PICK K : K = Inside
      OBVIOUS
    <3>3. NobodyOversleeps(K \ {w})'
      BY <1>1, <3>1, <3>2, TakesAndLeaves
    <3>4. NobodyOversleeps(J)'
      BY <3>1, <3>2, <3>3
    <3> QED BY <2>1, <3>4, InsideAfter
  <2>5. CASE GivesUp(w)
    <3>1. J = Inside \ {w} /\ WaitAndPopGivesUp(w)
      BY <1>1, <2>1, <2>5 DEF GivesUp, Inside
    <3>2. PICK K : K = Inside
      OBVIOUS
    <3>3. NobodyOversleeps(K \ {w})'
      BY <1>1, <3>1, <3>2, GivesUpAndLeaves
    <3>4. NobodyOversleeps(J)'
      BY <3>1, <3>2, <3>3
    <3> QED BY <2>1, <3>4, InsideAfter
  <2> QED BY <2>2, <2>3, <2>4, <2>5
<1>3. UNCHANGED shutdown
  BY DEF Blocks, Wakes, Takes, GivesUp, WaitAndPopBlocks, WakesSpuriously,
         WaitAndPopTakes, WaitAndPopGivesUp, queueVars
<1>4. \A v \in Consumers : worker'[v] = "gone" => worker[v] = "gone"
  BY <1>1 DEF Blocks, Wakes, Takes, GivesUp, workerVars
<1> QED BY <1>1, <1>2, <1>3, <1>4 DEF Waking

\* A worker outside of WaitAndPop that leaves the queue alone.
LEMMA WorkKeepsWaking ==
  ASSUME IInv, Waking, NEW w \in Consumers,
         \/ Leaves(w) \/ Calls(w) \/ Finishes(w) \/ EndsRequest(w)
         \/ \E i \in Instances : DestroysInstance(w, i) \/ LeavesInstance(w, i)
  PROVE  Waking'
<1>1. /\ UNCHANGED <<queueVars, cancelationToken>>
      /\ QueueType(Requests) /\ worker \in [Consumers -> {"pop", "check", "call", "finished", "gone"}]
      /\ NobodyOversleeps(Inside) /\ IsFiniteSet(Inside)
      /\ worker[w] # "pop"
  BY InsideIsFinite
  DEF Leaves, Calls, Finishes, EndsRequest, DestroysInstance, LeavesInstance, IInv, TypeOK, Waking
<1>2. Inside' = Inside \/ Inside' = Inside \cup {w}
  BY <1>1 DEF Leaves, Calls, Finishes, EndsRequest, DestroysInstance, LeavesInstance, Inside
<1>3. NobodyOversleeps(Inside)'
  <2>1. PICK J, K : J = Inside' /\ K = Inside
    OBVIOUS
  <2>2. CASE J = K
    <3>1. NobodyOversleeps(J)'
      BY <1>1, <2>1, <2>2, StaysAwake
    <3> QED BY <2>1, <3>1, InsideAfter
  <2>3. CASE J = K \cup {w}
    <3>1. NobodyOversleeps(K \cup {w})'
      BY <1>1, <2>1, EntersAwake
    <3>2. NobodyOversleeps(J)'
      BY <2>3, <3>1
    <3> QED BY <2>1, <3>2, InsideAfter
  <2> QED BY <1>2, <2>1, <2>2, <2>3
<1>4. UNCHANGED shutdown
  BY <1>1 DEF queueVars
<1>5. main' \in {"blocked", "blockedAtEnd"} => pending_requests' > 0
  BY DEF Leaves, Calls, Finishes, EndsRequest, update_finished, DestroysInstance, LeavesInstance,
         mainVars, Waking
<1>6. main' \in {"join", "stopped"} => main \in {"join", "stopped"}
  BY DEF Leaves, Calls, Finishes, EndsRequest, update_finished, DestroysInstance, LeavesInstance, mainVars
<1>7. \A v \in Consumers : worker'[v] = "gone" => worker[v] = "gone" \/ cancelationToken
  BY <1>1 DEF Leaves, Calls, Finishes, EndsRequest, DestroysInstance, LeavesInstance
<1> QED BY <1>1, <1>3, <1>4, <1>5, <1>6, <1>7 DEF Waking

\* Every step keeps it.
LEMMA NextWaking == IInv /\ Waking /\ [Next]_vars => Waking'
<1> SUFFICES ASSUME IInv, Waking, [Next]_vars PROVE Waking'
  OBVIOUS
<1>1. CASE \/ Tick \/ UnloadAll \/ Shutdown \/ MainWakesSpuriously
           \/ \E m \in BaseMaps : CreateBaseMap(m)
           \/ \E i \in Instances : CreateInstance(i)
  BY <1>1, MainKeepsWaking, PushKeepsWaking, CancelKeepsWaking DEF Tick, Shutdown
<1>2. ASSUME NEW w \in Consumers, Worker(w) \/ Wakes(w) PROVE Waking'
  BY <1>2, PopKeepsWaking, WorkKeepsWaking, PushKeepsWaking DEF Worker
<1>3. CASE UNCHANGED vars
  <2>1. UNCHANGED <<queueVars, worker, pending_requests, main, cancelationToken>>
    BY <1>3 DEF vars, mainVars, workerVars
  <2>2. PICK J : J = Inside' /\ J = Inside
    BY <2>1 DEF Inside
  <2>3. NobodyOversleeps(J)'
    BY <2>1, <2>2, StaysAwake DEF Waking
  <2> QED BY <2>1, <2>2, <2>3, InsideAfter DEF Waking, queueVars
<1> QED BY <1>1, <1>2, <1>3 DEF Next

\* So it holds in every behaviour.
LEMMA SpecWaking == Spec => [](IInv /\ Waking)
<1>1. Init => IInv /\ Waking
  BY InitIInv, InitWaking
<1>2. IInv /\ Waking /\ [Next]_vars => (IInv /\ Waking)'
  BY NextIInv, NextWaking
<1> QED BY <1>1, <1>2, PTL DEF Spec

\* While a request is queued, a worker is on its way to it.
LEMMA QueuedMeansRunning ==
  ASSUME IInv, Waking, queue # <<>>
  PROVE  \E w \in Consumers : Runs(w)
<1>1. waiting = {} \/ \E c \in Inside : c \notin waiting
  BY InsideIsFinite, SomebodyIsAwake DEF IInv, TypeOK, Waking
<1>2. CASE \E c \in Inside : c \notin waiting
  BY <1>2 DEF Inside, Runs
<1>3. CASE waiting = {}
  <2>1. PICK w \in Consumers : TRUE
    BY WorkersAssumption
  <2>2. ~cancelationToken
    BY DEF IInv, Control, NothingRunsBetweenTicks
  <2>3. worker[w] \in {"pop", "check", "call", "finished"}
    BY <2>2 DEF Waking, IInv, TypeOK
  <2> QED BY <1>3, <2>3 DEF Runs
<1> QED BY <1>1, <1>2, <1>3

\* The invariant implies the property.
LEMMA WakingSuffices == IInv /\ Waking => NobodyWaitsInVain
<1> SUFFICES ASSUME IInv, Waking PROVE NobodyWaitsInVain
  OBVIOUS
<1>1. ASSUME main \in {"blocked", "blockedAtEnd"}
      PROVE  pending_requests > 0 /\ \E w \in Consumers : Runs(w)
  <2>1. pending_requests > 0 /\ pending_requests = Len(queue) + Cardinality(Holders)
    BY <1>1 DEF Waking, IInv, PendingCountsRequests, Holders
  <2>2. queue # <<>> \/ Holders # {}
    BY <2>1, QueuedEmpty, HoldersCount DEF IInv, TypeOK
  <2>3. CASE Holders # {}
    <3>1. PICK w \in Consumers : request[w] # None
      BY <2>3 DEF Holders
    <3>2. ~cancelationToken
      BY <3>1 DEF IInv, Control, NothingRunsBetweenTicks
    <3>3. worker[w] \in {"check", "call"}
      BY <3>1, <3>2 DEF Waking, IInv, TypeOK, Control
    <3> QED BY <2>1, <3>3 DEF Runs
  <2> QED BY <2>1, <2>2, <2>3, QueuedMeansRunning
<1>2. ASSUME main = "join", NEW w \in Consumers
      PROVE  Runs(w) \/ worker[w] = "gone"
  BY <1>2 DEF Waking, NobodyOversleeps, Runs, IInv, TypeOK
<1>3. NobodyOversleeps({w \in Consumers : worker[w] = "pop"})
  BY DEF Waking, Inside
<1> QED BY <1>1, <1>2, <1>3, QueuedMeansRunning DEF NobodyWaitsInVain

\* No wakeup is lost: the world thread is blocked in MapUpdater::wait only while
\* a map thread goes on by itself, no request lies in the queue with every map
\* thread asleep, and deactivate joins threads that are awake.
THEOREM NoWakeupIsLost == Spec => []NobodyWaitsInVain
  BY SpecWaking, WakingSuffices, PTL
=============================================================================
