---------------------------- MODULE WorldSessions ----------------------------
(***************************************************************************)
(* The session registry of the world server (World and WorldSession).      *)
(*                                                                         *)
(* Network threads create WorldSession objects and hand them to the world  *)
(* thread through addSessQueue; sockets close at any time.  The world      *)
(* thread runs World::UpdateSessions: it admits the new sessions, then     *)
(* visits every registered session, then every offline one (a session      *)
(* whose client is gone but whose character stays in the world for a       *)
(* minute).  Accounts over PlayerLimit wait in m_QueuedPlayer.             *)
(*                                                                         *)
(* One step of the world thread is one call of AddSession_, one            *)
(* HandleSocketClosed test, one WorldSession::Update with its consequences *)
(* in UpdateSessions, or one offline session; the network threads          *)
(* interleave between those steps.  A session is an object identity and is *)
(* never reused, so a use after its deletion would show.                   *)
(***************************************************************************)
EXTENDS Integers, SequencesExt

CONSTANTS
    Accounts,            \* account ids
    Sessions,            \* identities of WorldSession objects
    AccountOf,           \* [Sessions -> Accounts], GetAccountId
    Chars,               \* characters
    OwnerOf,             \* [Chars -> Accounts], _legitCharacters
    PlayerLimit,         \* m_playerLimit, set once at startup; 0 is no limit
    DisconnectTolerance, \* CONFIG_INTERVAL_DISCONNECT_TOLERANCE is not 0
    Privileged,          \* sessions with CanSkipQueue or above SEC_PLAYER
    None                 \* the null pointer

ASSUME AccountsAssumption ==
    /\ IsFiniteSet(Accounts)
    /\ AccountOf \in [Sessions -> Accounts]
    /\ OwnerOf \in [Chars -> Accounts]
    /\ Privileged \subseteq Sessions

ASSUME LimitAssumption ==
    /\ PlayerLimit \in Nat
    /\ DisconnectTolerance \in BOOLEAN

ASSUME NoneAssumption == None \notin Sessions \cup Chars

VARIABLES
    addSessQueue,      \* LockedQueue<WorldSession*> filled by network threads
    m_sessions,        \* account -> registered session
    m_offlineSessions, \* account -> session kept for a disconnected character
    m_QueuedPlayer,    \* sessions waiting for a free slot
    m_disconnects,     \* accounts still within the disconnect tolerance
    sess,              \* the fields of each WorldSession
    told,              \* last AUTH response: queue position, 0 for AUTH_OK
    online,            \* account.online, in the order the writes are queued
    stage,             \* the life of the process: m_stopEvent, then KickAll
    pc,                \* where the world thread is in UpdateSessions
    todo,              \* accounts the running loop has still to visit
    cur                \* session between HandleSocketClosed and Update

registry == <<m_sessions, m_offlineSessions, m_QueuedPlayer, m_disconnects>>
thread == <<pc, todo, cur>>
vars == <<addSessQueue, registry, sess, told, online, stage, thread>>

-----------------------------------------------------------------------------
(* Fields of a session and what single member functions do to them *)

NotTold == -1

SessionRec == [state : {"unborn", "live", "deleted"},
               socket : {"open", "closed", "null"},
               inQueue : BOOLEAN, kicked : BOOLEAN, loading : BOOLEAN,
               holder : Chars \cup {None}, player : Chars \cup {None},
               steady : BOOLEAN, overdue : BOOLEAN]

\* The constructor's fields; "steady" is a player in the world and not in a
\* taxi flight, "overdue" an offline session older than 60 seconds.
NewSession == [state |-> "live", socket |-> "open",
               inQueue |-> FALSE, kicked |-> FALSE, loading |-> FALSE,
               holder |-> None, player |-> None,
               steady |-> FALSE, overdue |-> FALSE]

\* delete session: ~WorldSession logs the player out and closes the socket.
Deleted(S, s) ==
    [S EXCEPT ![s] = [NewSession EXCEPT !.state = "deleted", !.socket = "null"]]

\* KickPlayer(reason, setKicked)
KickPlayer(S, s, setKicked) ==
    [S EXCEPT ![s].socket = IF @ = "null" THEN "null" ELSE "closed",
              ![s].kicked = IF setKicked THEN TRUE ELSE @]

\* The condition of HandleSocketClosed; its effect is LoseSocket.
HandleSocketClosed(S, s) ==
    /\ S[s].socket = "closed"
    /\ ~S[s].kicked
    /\ S[s].player # None
    /\ S[s].steady
    /\ stage = "running"

LoseSocket(S, s) == [S EXCEPT ![s].socket = "null", ![s].overdue = FALSE]

LogoutPlayer(S, s) == [S EXCEPT ![s].player = None, ![s].steady = FALSE]

\* A teleport or a taxi flight of the player begins or ends.
StartOrEndTravel(S, s) == [S EXCEPT ![s].steady = ~@]

IsRegistered(s) == m_sessions[AccountOf[s]] = s
IsOffline(s) == m_offlineSessions[AccountOf[s]] = s

-----------------------------------------------------------------------------
(* The login queue *)

GetActiveAndQueuedSessionCount ==
    Cardinality({a \in Accounts : m_sessions[a] # None})

Listed(s) == \E i \in DOMAIN m_QueuedPlayer : m_QueuedPlayer[i] = s
GetQueuePos(q, s) == CHOOSE i \in DOMAIN q : q[i] = s

\* Mutant: a listed session keeps its place.
UnlistedForgets(s) == m_QueuedPlayer

\* RemoveQueuedPlayer(s), first half: the queue without s.
Unlisted(s) ==
    IF Listed(s) THEN RemoveAt(m_QueuedPlayer, GetQueuePos(m_QueuedPlayer, s))
                 ELSE m_QueuedPlayer

\* Mutant: the departing session still counts.
ActiveWithStill(s) == GetActiveAndQueuedSessionCount - Len(m_QueuedPlayer)

\* "sessions": the active sessions, without s if it was one of them.
ActiveWithout(s) ==
    GetActiveAndQueuedSessionCount - Len(m_QueuedPlayer)
        - (IF Listed(s) THEN 0 ELSE 1)

\* Mutant: whoever leaves, the first waiting session is accepted.
AcceptsAlways(s) == Unlisted(s) # <<>>

\* Second half: the first waiting session takes the free slot.
Accepts(s) ==
    /\ PlayerLimit = 0 \/ ActiveWithout(s) < PlayerLimit
    /\ Unlisted(s) # <<>>

QueueAfter(s) == IF Accepts(s) THEN Tail(Unlisted(s)) ELSE Unlisted(s)

\* Mutant: SetInQueue(false) is not called.
FlagsKept(S, s) == S

FlagsAfter(S, s) ==
    [x \in Sessions |->
        IF (Listed(s) /\ x = s) \/ (Accepts(s) /\ x = Head(Unlisted(s)))
        THEN [S[x] EXCEPT !.inQueue = FALSE]
        ELSE S[x]]

\* Mutant: the iterator is not moved to the front after an acceptance.
ToldOnlyBehind(s) ==
    LET q == QueueAfter(s)
        from == IF Listed(s) THEN GetQueuePos(m_QueuedPlayer, s) ELSE Len(q) + 1
    IN  [x \in Sessions |->
            IF Accepts(s) /\ x = Head(Unlisted(s)) THEN 0
            ELSE IF \E i \in from .. Len(q) : q[i] = x THEN GetQueuePos(q, x)
            ELSE told[x]]

\* Positions are sent again from the place the list changed.
ToldAfter(s) ==
    LET q == QueueAfter(s)
        from == IF Accepts(s) THEN 1
                ELSE IF Listed(s) THEN GetQueuePos(m_QueuedPlayer, s)
                ELSE Len(q) + 1
    IN  [x \in Sessions |->
            IF Accepts(s) /\ x = Head(Unlisted(s)) THEN 0
            ELSE IF \E i \in from .. Len(q) : q[i] = x THEN GetQueuePos(q, x)
            ELSE told[x]]

DisconnectsAfter(s) ==
    IF ~Listed(s) /\ DisconnectTolerance
    THEN m_disconnects \cup {AccountOf[s]}
    ELSE m_disconnects

-----------------------------------------------------------------------------
(* Network threads *)

\* WorldSocket::HandleAuthSessionCallback: the constructor writes online = 1.
Connect(s) ==
    /\ sess[s].state = "unborn"
    /\ pc # "halted"
    /\ sess' = [sess EXCEPT ![s] = NewSession]
    /\ online' = [online EXCEPT ![AccountOf[s]] = TRUE]
    /\ addSessQueue' = Append(addSessQueue, s)
    /\ UNCHANGED <<registry, told, stage, thread>>

\* The client, the network or an idle timeout closes the socket.
CloseSocket(s) ==
    /\ sess[s].socket = "open"
    /\ sess[s].state = "live"
    /\ sess' = [sess EXCEPT ![s].socket = "closed"]
    /\ UNCHANGED <<addSessQueue, registry, told, online, stage, thread>>

-----------------------------------------------------------------------------
(* World::UpdateSessions, first loop: new sessions *)

BeginUpdateSessions ==
    /\ pc = "idle"
    /\ stage \in {"running", "kicked"}
    /\ pc' = "add"
    /\ UNCHANGED <<addSessQueue, registry, sess, told, online, stage, todo, cur>>

\* KickSession fails because the old session is loading its character.
RejectSession ==
    /\ pc = "add"
    /\ addSessQueue # <<>>
    /\ LET s == Head(addSessQueue)
           a == AccountOf[s]
       IN  /\ m_sessions[a] # None
           /\ sess[m_sessions[a]].loading
           /\ sess' = Deleted(sess, s)
           /\ online' = [online EXCEPT ![a] = FALSE]
    /\ addSessQueue' = Tail(addSessQueue)
    /\ UNCHANGED <<registry, told, stage, thread>>

\* Mutant: push_front instead of push_back.
JoinInFront(s, others, S, q, t, d) ==
    LET a == AccountOf[s]
        waits == /\ PlayerLimit > 0
                 /\ others >= PlayerLimit
                 /\ s \notin Privileged
                 /\ ~(DisconnectTolerance /\ a \in d)
    IN  /\ m_sessions' = [m_sessions EXCEPT ![a] = s]
        /\ m_QueuedPlayer' = IF waits THEN <<s>> \o q ELSE q
        /\ sess' = [S EXCEPT ![s].inQueue = waits]
        /\ told' = [t EXCEPT ![s] = IF waits THEN 1 ELSE 0]
        /\ m_disconnects' = d

\* The rest of AddSession_ once the account's slot is free: S, q, t and d are
\* the session fields, queue, positions and tolerated accounts by then.
Join(s, others, S, q, t, d) ==
    LET a == AccountOf[s]
        waits == /\ PlayerLimit > 0
                 /\ others >= PlayerLimit
                 /\ s \notin Privileged
                 /\ ~(DisconnectTolerance /\ a \in d)
    IN  /\ m_sessions' = [m_sessions EXCEPT ![a] = s]
        /\ m_QueuedPlayer' = IF waits THEN Append(q, s) ELSE q
        /\ sess' = [S EXCEPT ![s].inQueue = waits]
        /\ told' = [t EXCEPT ![s] = IF waits THEN Len(q) + 1 ELSE 0]
        /\ m_disconnects' = d

AddSession ==
    /\ pc = "add"
    /\ addSessQueue # <<>>
    /\ LET s == Head(addSessQueue)
       IN  /\ m_sessions[AccountOf[s]] = None
           /\ Join(s, GetActiveAndQueuedSessionCount,
                   sess, m_QueuedPlayer, told, m_disconnects)
    /\ addSessQueue' = Tail(addSessQueue)
    /\ UNCHANGED <<m_offlineSessions, online, stage, thread>>

\* The account is already connected: the old session is kicked and leaves its
\* place; a character in the world stays there as an offline session.
ReplaceSession ==
    /\ pc = "add"
    /\ addSessQueue # <<>>
    /\ LET s == Head(addSessQueue)
           a == AccountOf[s]
           old == m_sessions[a]
           S == FlagsAfter(KickPlayer(sess, old, FALSE), old)
           off == m_offlineSessions[a]
           S1 == IF HandleSocketClosed(S, old)
                 THEN LoseSocket(IF off = None THEN S ELSE Deleted(S, off), old)
                 ELSE Deleted(S, old)
       IN  /\ old # None
           /\ ~sess[old].loading
           /\ m_offlineSessions' = IF HandleSocketClosed(S, old)
                                   THEN [m_offlineSessions EXCEPT ![a] = old]
                                   ELSE m_offlineSessions
           /\ Join(s, GetActiveAndQueuedSessionCount - 1,
                   S1, QueueAfter(old), ToldAfter(old), DisconnectsAfter(old))
    /\ addSessQueue' = Tail(addSessQueue)
    /\ UNCHANGED <<online, stage, thread>>

EndAdding ==
    /\ pc = "add"
    /\ addSessQueue = <<>>
    /\ pc' = "sessions"
    /\ todo' = {a \in Accounts : m_sessions[a] # None}
    /\ UNCHANGED <<addSessQueue, registry, sess, told, online, stage, cur>>

-----------------------------------------------------------------------------
(* World::UpdateSessions, second loop: registered sessions.  m_sessions is  *)
(* an unordered map, so any account left is visited next.                   *)

\* Mutant: m_sessions.erase is missing.
UnregisterKeepsEntry(s, S) ==
    /\ m_sessions' = m_sessions
    /\ m_QueuedPlayer' = QueueAfter(s)
    /\ told' = ToldAfter(s)
    /\ m_disconnects' = DisconnectsAfter(s)
    /\ sess' = FlagsAfter(S, s)

\* The session leaves the registry and frees or leaves its place in the queue.
Unregister(s, S) ==
    /\ m_sessions' = [m_sessions EXCEPT ![AccountOf[s]] = None]
    /\ m_QueuedPlayer' = QueueAfter(s)
    /\ told' = ToldAfter(s)
    /\ m_disconnects' = DisconnectsAfter(s)
    /\ sess' = FlagsAfter(S, s)

SocketStillOpen(a) ==
    /\ pc = "sessions"
    /\ cur = None
    /\ a \in todo
    /\ ~HandleSocketClosed(sess, m_sessions[a])
    /\ cur' = m_sessions[a]
    /\ todo' = todo \ {a}
    /\ UNCHANGED <<addSessQueue, registry, sess, told, online, stage, pc>>

GoOffline(a) ==
    /\ pc = "sessions"
    /\ cur = None
    /\ a \in todo
    /\ LET s == m_sessions[a]
           off == m_offlineSessions[a]
           S == IF off = None THEN sess ELSE Deleted(sess, off)
       IN  /\ HandleSocketClosed(sess, s)
           /\ Unregister(s, LoseSocket(S, s))
           /\ m_offlineSessions' = [m_offlineSessions EXCEPT ![a] = s]
    /\ todo' = todo \ {a}
    /\ UNCHANGED <<addSessQueue, online, stage, pc, cur>>

\* Mutant: the character still in the world is not looked for.
LoginAlwaysLoads(S, s, c) ==
    {[S EXCEPT ![s].loading = TRUE], [S EXCEPT ![s].loading = TRUE, ![s].holder = c]}

\* HandlePlayerLoginOpcode for character c: a character still in the world is
\* taken over from the offline session; otherwise it is loaded from the
\* database.  A refusal leaves m_playerLoading set.
HandlePlayerLogin(S, s, c) ==
    LET off == m_offlineSessions[AccountOf[s]]
        loads == [S EXCEPT ![s].loading = TRUE, ![s].holder = c]
        refused == [S EXCEPT ![s].loading = TRUE]
        takesOver == [S EXCEPT ![off].player = None, ![off].steady = FALSE,
                               ![s].player = c, ![s].steady = TRUE,
                               ![s].loading = FALSE]
    IN  {refused} \cup
        IF off = None THEN {loads}
        ELSE IF S[off].player = None \/ S[off].kicked THEN {}
        ELSE IF S[off].player # c
             THEN {KickPlayer(loads, off, TRUE)}
             ELSE {takesOver}

\* The characters a client asks for.  It is the client that asks only at its
\* character screen, with no character and no login under way: the handler's own
\* test follows the assignment of m_playerLoading and does not refuse.
MayLogIn(s) ==
    {c \in Chars : /\ OwnerOf[c] = AccountOf[s]
                   /\ ~sess[s].inQueue
                   /\ sess[s].player = None
                   /\ sess[s].holder = None}

MayLogOut(s) == sess[s].player # None

\* What the packets of one Update may do to the session: nothing, log in, log
\* out, or start or end a teleport or a taxi flight.
Packets(s) ==
    {sess}
    \cup (UNION {HandlePlayerLogin(sess, s, c) : c \in MayLogIn(s)})
    \cup {S \in {LogoutPlayer(sess, s), StartOrEndTravel(sess, s)} : MayLogOut(s)}

\* ProcessQueryCallbacks: HandlePlayerLoginFromDB once the holder is ready.
Callbacks(S, s) ==
    {S} \cup
    IF S[s].holder = None THEN {}
    ELSE {KickPlayer([S EXCEPT ![s].holder = None, ![s].loading = FALSE],
                     s, TRUE)}
         \cup {[S EXCEPT ![s].player = S[s].holder, ![s].holder = None,
                         ![s].loading = FALSE, ![s].steady = b] :
                    b \in BOOLEAN}

\* A login finished from the database writes online = realm id.
OnlineAfter(S1, S, s) ==
    IF S1[s].holder # None /\ S[s].player # None
    THEN [online EXCEPT ![AccountOf[s]] = TRUE]
    ELSE online

\* Mutant: a session that loads its character is kept without its socket.
UpdateKeepsLoading ==
    /\ cur # None
    /\ \E S1 \in Packets(cur) : \E S \in Callbacks(S1, cur) :
          /\ S[cur].socket = "open" \/ S[cur].loading
          /\ sess' = S
          /\ online' = OnlineAfter(S1, S, cur)
    /\ cur' = None
    /\ UNCHANGED <<addSessQueue, registry, told, stage, pc, todo>>

UpdateKeeps ==
    /\ cur # None
    /\ \E S1 \in Packets(cur) : \E S \in Callbacks(S1, cur) :
          /\ S[cur].socket = "open"
          /\ sess' = S
          /\ online' = OnlineAfter(S1, S, cur)
    /\ cur' = None
    /\ UNCHANGED <<addSessQueue, registry, told, stage, pc, todo>>

\* Update returns false: the session is removed and deleted.
UpdateRemoves ==
    /\ cur # None
    /\ \E S1 \in Packets(cur) : \E S \in Callbacks(S1, cur) :
          /\ S[cur].socket # "open"
          /\ Unregister(cur, Deleted(S, cur))
          /\ online' = IF m_offlineSessions[AccountOf[cur]] = None
                       THEN [online EXCEPT ![AccountOf[cur]] = FALSE]
                       ELSE OnlineAfter(S1, S, cur)
    /\ cur' = None
    /\ UNCHANGED <<addSessQueue, m_offlineSessions, stage, pc, todo>>

EndSessions ==
    /\ pc = "sessions"
    /\ cur = None
    /\ todo = {}
    /\ pc' = "offline"
    /\ todo' = {a \in Accounts : m_offlineSessions[a] # None}
    /\ UNCHANGED <<addSessQueue, registry, sess, told, online, stage, cur>>

-----------------------------------------------------------------------------
(* World::UpdateSessions, third loop: offline sessions *)

\* Mutants: an offline session without character, or an old one, stays.
MustEndWithPlayer(s) == sess[s].overdue \/ sess[s].kicked
MustEndWithoutClock(s) == sess[s].player = None \/ sess[s].kicked

MustEnd(s) == sess[s].player = None \/ sess[s].overdue \/ sess[s].kicked

OfflineStays(a) ==
    /\ pc = "offline"
    /\ a \in todo
    /\ ~MustEnd(m_offlineSessions[a])
    /\ todo' = todo \ {a}
    /\ UNCHANGED <<addSessQueue, registry, sess, told, online, stage, pc, cur>>

\* Mutant: the account is not marked offline.
OfflineEndsSilently(a) ==
    /\ pc = "offline"
    /\ a \in todo
    /\ MustEnd(m_offlineSessions[a])
    /\ sess' = Deleted(sess, m_offlineSessions[a])
    /\ m_offlineSessions' = [m_offlineSessions EXCEPT ![a] = None]
    /\ todo' = todo \ {a}
    /\ UNCHANGED <<addSessQueue, m_sessions, m_QueuedPlayer, m_disconnects,
                   told, online, stage, pc, cur>>

OfflineEnds(a) ==
    /\ pc = "offline"
    /\ a \in todo
    /\ MustEnd(m_offlineSessions[a])
    /\ sess' = Deleted(sess, m_offlineSessions[a])
    /\ m_offlineSessions' = [m_offlineSessions EXCEPT ![a] = None]
    /\ online' = IF m_sessions[a] = None
                 THEN [online EXCEPT ![a] = FALSE]
                 ELSE online
    /\ todo' = todo \ {a}
    /\ UNCHANGED <<addSessQueue, m_sessions, m_QueuedPlayer, m_disconnects,
                   told, stage, pc, cur>>

\* UpdateSessions returns; after KickAll it was the last call.
EndUpdateSessions ==
    /\ pc = "offline"
    /\ todo = {}
    /\ pc' = IF stage = "kicked" THEN "halted" ELSE "idle"
    /\ UNCHANGED <<addSessQueue, registry, sess, told, online, stage, todo, cur>>

-----------------------------------------------------------------------------
(* The rest of the world's life *)

\* A ban, a command or a check kicks a session the world knows.
Kick(s) ==
    /\ pc = "idle" \/ cur # None
    /\ IsRegistered(s) \/ IsOffline(s)
    /\ sess' = KickPlayer(sess, s, TRUE)
    /\ UNCHANGED <<addSessQueue, registry, told, online, stage, thread>>

\* Map updates move characters between maps and taxis.
MapUpdate(s) ==
    /\ pc = "idle"
    /\ sess[s].player # None
    /\ sess' = StartOrEndTravel(sess, s)
    /\ UNCHANGED <<addSessQueue, registry, told, online, stage, thread>>

OfflineMinutePasses(s) ==
    /\ IsOffline(s)
    /\ ~sess[s].overdue
    /\ sess' = [sess EXCEPT ![s].overdue = TRUE]
    /\ UNCHANGED <<addSessQueue, registry, told, online, stage, thread>>

TolerancePasses(a) ==
    /\ a \in m_disconnects
    /\ m_disconnects' = m_disconnects \ {a}
    /\ UNCHANGED <<addSessQueue, m_sessions, m_offlineSessions, m_QueuedPlayer,
                   sess, told, online, stage, thread>>

\* World::StopNow, from any thread.
StopNow ==
    /\ stage = "running"
    /\ stage' = "stopped"
    /\ UNCHANGED <<addSessQueue, registry, sess, told, online, thread>>

\* Mutant: the offline sessions are forgotten.
KickAllRegistered ==
    /\ stage = "stopped"
    /\ pc = "idle"
    /\ stage' = "kicked"
    /\ m_QueuedPlayer' = <<>>
    /\ sess' = [s \in Sessions |->
                    IF IsRegistered(s) THEN KickPlayer(sess, s, TRUE)[s] ELSE sess[s]]
    /\ UNCHANGED <<addSessQueue, m_sessions, m_offlineSessions, m_disconnects,
                   told, online, thread>>

\* World::KickAll, once the update loop has ended.
KickAll ==
    /\ stage = "stopped"
    /\ pc = "idle"
    /\ stage' = "kicked"
    /\ m_QueuedPlayer' = <<>>
    /\ sess' = [s \in Sessions |->
                    IF IsRegistered(s) \/ IsOffline(s)
                    THEN KickPlayer(sess, s, TRUE)[s]
                    ELSE sess[s]]
    /\ UNCHANGED <<addSessQueue, m_sessions, m_offlineSessions, m_disconnects,
                   told, online, thread>>

-----------------------------------------------------------------------------
Init ==
    /\ addSessQueue = <<>>
    /\ m_sessions = [a \in Accounts |-> None]
    /\ m_offlineSessions = [a \in Accounts |-> None]
    /\ m_QueuedPlayer = <<>>
    /\ m_disconnects = {}
    /\ sess = [s \in Sessions |-> [NewSession EXCEPT !.state = "unborn",
                                                     !.socket = "null"]]
    /\ told = [s \in Sessions |-> NotTold]
    /\ online = [a \in Accounts |-> FALSE]
    /\ stage = "running"
    /\ pc = "idle"
    /\ todo = {}
    /\ cur = None

Network == \E s \in Sessions : Connect(s) \/ CloseSocket(s)

UpdateSessions ==
    \/ BeginUpdateSessions \/ RejectSession \/ AddSession \/ ReplaceSession
    \/ EndAdding \/ UpdateKeeps \/ UpdateRemoves \/ EndSessions
    \/ EndUpdateSessions
    \/ \E a \in Accounts : \/ SocketStillOpen(a) \/ GoOffline(a)
                           \/ OfflineStays(a) \/ OfflineEnds(a)

Passing == \/ \E s \in Sessions : OfflineMinutePasses(s)
           \/ \E a \in Accounts : TolerancePasses(a)

Others == \/ StopNow
          \/ \E s \in Sessions : Kick(s) \/ MapUpdate(s)

Next == Network \/ UpdateSessions \/ Passing \/ Others \/ KickAll

Spec == Init /\ [][Next]_vars

\* The world thread runs until it halts, and a minute passes.
FairSpec ==
    /\ Spec
    /\ WF_vars(UpdateSessions)
    /\ WF_vars(KickAll)
    /\ \A s \in Sessions : WF_vars(OfflineMinutePasses(s))

-----------------------------------------------------------------------------
(* Properties *)

\* Every variable has its type.
TypeOK ==
    /\ addSessQueue \in Seq(Sessions)
    /\ m_sessions \in [Accounts -> Sessions \cup {None}]
    /\ m_offlineSessions \in [Accounts -> Sessions \cup {None}]
    /\ m_QueuedPlayer \in Seq(Sessions)
    /\ m_disconnects \subseteq Accounts
    /\ sess \in [Sessions -> SessionRec]
    /\ told \in [Sessions -> Int]
    /\ online \in [Accounts -> BOOLEAN]
    /\ stage \in {"running", "stopped", "kicked"}
    /\ pc \in {"idle", "add", "sessions", "offline", "halted"}
    /\ todo \subseteq Accounts
    /\ cur \in Sessions \cup {None}

\* No session is lost, kept twice or used after deletion: a live session is in
\* exactly one of addSessQueue, m_sessions and m_offlineSessions, a deleted one
\* in none of them.
Waiting(s) == \E i \in DOMAIN addSessQueue : addSessQueue[i] = s
EverySessionInOnePlace ==
    /\ \A i, j \in DOMAIN addSessQueue :
          i # j => addSessQueue[i] # addSessQueue[j]
    /\ \A s \in Sessions :
          /\ sess[s].state = "live" <=> Waiting(s) \/ IsRegistered(s) \/ IsOffline(s)
          /\ ~(Waiting(s) /\ IsRegistered(s))
          /\ ~(IsOffline(s) /\ (Waiting(s) \/ IsRegistered(s)))
    /\ \A a \in Accounts :
          /\ m_sessions[a] # None => AccountOf[m_sessions[a]] = a
          /\ m_offlineSessions[a] # None => AccountOf[m_offlineSessions[a]] = a
    /\ cur # None => IsRegistered(cur)

\* The login queue lists registered sessions, each once: the pointers
\* RemoveQueuedPlayer follows are valid and GetActiveSessionCount, an unsigned
\* difference, does not wrap.
QueueOfRegistered ==
    /\ \A i \in DOMAIN m_QueuedPlayer : IsRegistered(m_QueuedPlayer[i])
    /\ \A i, j \in DOMAIN m_QueuedPlayer :
          i # j => m_QueuedPlayer[i] # m_QueuedPlayer[j]

\* Nobody waits while a slot is free (AddSession_, RemoveQueuedPlayer): with
\* anyone in the queue, the active sessions fill the limit.
NobodyWaitsForAFreeSlot ==
    m_QueuedPlayer # <<>> =>
        /\ PlayerLimit > 0
        /\ GetActiveAndQueuedSessionCount - Len(m_QueuedPlayer) >= PlayerLimit

\* m_inQueue, which drops the client's packets and exempts it from the idle
\* timeout, is set exactly for the listed sessions; KickAll empties the list
\* with the flags set, but then every flagged session is kicked.
InQueueFlagMatchesList ==
    \A s \in Sessions :
        /\ Listed(s) => sess[s].inQueue /\ sess[s].player = None
        /\ sess[s].inQueue => Listed(s) \/ sess[s].kicked

\* The client was last told its true state: its position while it is listed,
\* and AUTH_OK once it is in the game.
ClientsKnowTheirPosition ==
    /\ \A i \in DOMAIN m_QueuedPlayer : told[m_QueuedPlayer[i]] = i
    /\ \A s \in Sessions :
          IsRegistered(s) /\ ~Listed(s) /\ ~sess[s].kicked => told[s] = 0

\* A character is in the world for one session only: a reconnecting client
\* takes it over from the offline session or waits for its logout.
CharacterHasOneSession ==
    \A s, t \in Sessions :
        sess[s].player # None /\ sess[s].player = sess[t].player => s = t

\* An account without any session is not left marked online.
NobodyOnlineWithoutSession ==
    \A a \in Accounts :
        online[a] => \E s \in Sessions : AccountOf[s] = a /\ sess[s].state = "live"

\* KickAll and one last UpdateSessions log every character out: no session that
\* KickAll saw is left when the network is stopped.
KickAllSaw(s) ==
    stage = "kicked" /\ pc = "idle" /\ (IsRegistered(s) \/ IsOffline(s))
ShutdownLogsEverybodyOut ==
    \A s \in Sessions :
        [](KickAllSaw(s) => [](pc = "halted" => sess[s].state = "deleted"))

\* "there should be no offline session if current one is logged onto a
\* character" (World.cpp:288, 2936): no offline session is ever overwritten.
OfflineSessionNeverReplaced ==
    [][\A a \in Accounts :
          m_offlineSessions[a] # None =>
              m_offlineSessions'[a] \in {m_offlineSessions[a], None}]_vars

\* An admission: a session that is neither privileged nor tolerated joins
\* behind whoever waits.
JoinsBehind ==
    \A s \in Sessions :
        /\ ~IsRegistered(s)
        /\ m_sessions'[AccountOf[s]] = s
        /\ m_QueuedPlayer' # <<>>
        /\ s \notin Privileged
        /\ ~(DisconnectTolerance /\ AccountOf[s] \in m_disconnects')
        => m_QueuedPlayer'[Len(m_QueuedPlayer')] = s

\* First come, first served: a session that waits is passed only by one that
\* may skip the queue or reconnects within the tolerance.
NoOvertaking == [][JoinsBehind]_vars

\* AddSession_, RemoveQueuedPlayer and KickAll together keep the promise of
\* LoginQueue: the active sessions are those who play, and m_QueuedPlayer's
\* order says who is ahead of whom.
Playing == {s \in Sessions : IsRegistered(s) /\ ~Listed(s)}
InLine == {s \in Sessions : Listed(s)}
Ahead == {p \in Sessions \X Sessions :
              \E i, j \in DOMAIN m_QueuedPlayer :
                 i < j /\ m_QueuedPlayer[i] = p[1] /\ m_QueuedPlayer[j] = p[2]}
line == INSTANCE LoginQueue WITH
            realm <- [playing |-> Playing, waits |-> InLine,
                      ahead |-> Ahead, graced |-> m_disconnects],
            open <- stage # "kicked"
ImplementsLoginQueue == line!Spec

\* A session whose client is gone leaves m_sessions, whatever it was doing,
\* unless the process ends first (~World then deletes it).
ClosedSessionIsRemoved ==
    \A s \in Sessions :
        (IsRegistered(s) /\ sess[s].socket = "closed")
            ~> (~IsRegistered(s) \/ pc = "halted")

\* An offline session does not keep its character in the world for ever.
OfflineSessionEnds ==
    \A s \in Sessions : IsOffline(s) ~> ~IsOffline(s)

\* "don't set offline in db because new session for that acc is already
\* created" (World.cpp:302, 2977): no deletion of a session marks its account
\* offline while another session of the account lives.  This does not hold: the
\* tests look in m_sessions and m_offlineSessions, not in addSessQueue, and a
\* session that AddSession_ rejects is deleted without any test.
NotSetOfflineBesideASession ==
    [][\A a \in Accounts :
          online[a] /\ ~online'[a] =>
              \A s \in Sessions : AccountOf[s] = a => sess'[s].state # "live"]_vars

=============================================================================
