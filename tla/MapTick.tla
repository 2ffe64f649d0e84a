------------------------------- MODULE MapTick -------------------------------
(***************************************************************************)
(* What MapMgr::Update promises the rest of the world, whatever the number *)
(* of map threads: each tick gives every map that exists exactly one turn, *)
(* and no map has a turn outside a tick.  In its turn a map is updated; an *)
(* instance that is due to be unloaded is destroyed instead, or left alone *)
(* while players are still on their way out.  Maps are created between two *)
(* ticks.                                                                  *)
(***************************************************************************)
EXTENDS Naturals

CONSTANTS BaseMaps, Instances

VARIABLES maps,      \* the maps that exist
          turns,     \* how many turns each has had in this tick
          phase      \* "between" two ticks, in a "tick", or "over"

vars == <<maps, turns, phase>>

AllMaps == BaseMaps \cup Instances

Init ==
    /\ maps = {}
    /\ turns = [m \in AllMaps |-> 1]
    /\ phase = "between"

BeginTick ==
    /\ phase = "between"
    /\ phase' = "tick"
    /\ turns' = [m \in AllMaps |-> 0]
    /\ UNCHANGED maps

Turn(m) ==
    /\ phase = "tick"
    /\ m \in maps
    /\ turns[m] = 0
    /\ turns' = [turns EXCEPT ![m] = 1]
    /\ UNCHANGED <<maps, phase>>

\* An instance goes instead of its turn, never after it.
Destroy(i) ==
    /\ phase = "tick"
    /\ turns[i] = 0
    /\ maps' = maps \ {i}
    /\ UNCHANGED <<turns, phase>>

EndTick ==
    /\ phase = "tick"
    /\ \A m \in maps : turns[m] = 1
    /\ phase' = "between"
    /\ UNCHANGED <<maps, turns>>

Create(new) ==
    /\ phase = "between"
    /\ maps' = maps \cup new
    /\ UNCHANGED <<turns, phase>>

UnloadAll ==
    /\ phase = "between"
    /\ phase' = "over"
    /\ maps' = {}
    /\ UNCHANGED turns

Next ==
    \/ BeginTick \/ EndTick \/ UnloadAll
    \/ \E m \in AllMaps : Turn(m)
    \/ \E i \in Instances : Destroy(i)
    \/ \E new \in SUBSET AllMaps : Create(new)

Spec == Init /\ [][Next]_vars

==============================================================================
