------------------------------ MODULE LoginQueue ------------------------------
(***************************************************************************)
(* What World promises the accounts that want to play.                     *)
(*                                                                         *)
(* A realm has PlayerLimit places.  Whoever finds all of them taken, or    *)
(* others waiting, joins a line behind all who wait; those who may skip    *)
(* the queue and those who have just been playing enter at once.  When     *)
(* somebody leaves and a place is free the first of the line enters, and   *)
(* nobody else; nobody in the line ever passes another one.  An account    *)
(* has one session at a time: a newer one takes over from the older, which *)
(* leaves first.  When the realm closes, the line is dissolved.            *)
(*                                                                         *)
(* The line is the set of those who wait and the relation "is ahead of".   *)
(***************************************************************************)
EXTENDS Integers, FiniteSets

CONSTANTS Accounts, Sessions, AccountOf, PlayerLimit, DisconnectTolerance, Privileged

VARIABLES realm,    \* who plays, who waits, who is ahead of whom, who is graced
          open      \* FALSE once the realm closes

vars == <<realm, open>>

Present == realm.playing \cup realm.waits

\* The realm once s has left it.
Left(s) ==
    LET stays  == realm.playing \ {s}
        others == realm.waits \ {s}
        admitted == {x \in others :
                        /\ PlayerLimit = 0 \/ Cardinality(stays) < PlayerLimit
                        /\ \A y \in others : <<y, x>> \notin realm.ahead}
        line == others \ admitted
    IN  [playing |-> stays \cup admitted,
         waits   |-> line,
         ahead   |-> realm.ahead \cap (line \X line),
         graced  |-> IF DisconnectTolerance /\ s \notin realm.waits
                     THEN realm.graced \cup {AccountOf[s]}
                     ELSE realm.graced]

MustWait(R, s) ==
    /\ PlayerLimit > 0
    /\ R.waits # {} \/ Cardinality(R.playing) >= PlayerLimit
    /\ s \notin Privileged
    /\ ~(DisconnectTolerance /\ AccountOf[s] \in R.graced)

\* The realm R once s has come.
Entered(R, s) ==
    IF MustWait(R, s)
    THEN [playing |-> R.playing,
          waits   |-> R.waits \cup {s},
          ahead   |-> R.ahead \cup (R.waits \X {s}),
          graced  |-> R.graced]
    ELSE [playing |-> R.playing \cup {s},
          waits   |-> R.waits,
          ahead   |-> R.ahead,
          graced  |-> R.graced]

-----------------------------------------------------------------------------
Init ==
    /\ realm = [playing |-> {}, waits |-> {}, ahead |-> {}, graced |-> {}]
    /\ open = TRUE

Enter(s) ==
    /\ \A x \in Present : AccountOf[x] # AccountOf[s]
    /\ realm' = Entered(realm, s)
    /\ UNCHANGED open

Leave(s) ==
    /\ s \in Present
    /\ realm' = Left(s)
    /\ UNCHANGED open

TakeOver(old, s) ==
    /\ old \in Present
    /\ s \notin Present
    /\ AccountOf[s] = AccountOf[old]
    /\ realm' = Entered(Left(old), s)
    /\ UNCHANGED open

GracePasses(a) ==
    /\ realm' = [realm EXCEPT !.graced = realm.graced \ {a}]
    /\ UNCHANGED open

\* Those who wait will have to leave with the others.
Close ==
    /\ open
    /\ open' = FALSE
    /\ realm' = [playing |-> Present, waits |-> {}, ahead |-> {}, graced |-> realm.graced]

Next ==
    \/ Close
    \/ \E a \in Accounts : GracePasses(a)
    \/ \E s \in Sessions : Enter(s) \/ Leave(s) \/ \E old \in Sessions : TakeOver(old, s)

Spec == Init /\ [][Next]_vars

===============================================================================
