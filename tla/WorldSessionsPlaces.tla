------------------------- MODULE WorldSessionsPlaces -------------------------
(***************************************************************************)
(* More theorems about WorldSessions, on top of the invariant of           *)
(* WorldSessionsProofs: where a session can be, whose character it holds,  *)
(* what its client was told of the login queue, and, at the end, that the  *)
(* list of sessions in order implements the line of LoginQueue.            *)
(***************************************************************************)
EXTENDS WorldSessionsProofs

\* A live session is in one of three places.
InOnePlace ==
    /\ Distinct(addSessQueue)
    /\ \A x \in Sessions :
          /\ sess[x].state = "live" <=> Waiting(x) \/ IsRegistered(x) \/ IsOffline(x)
          /\ ~(Waiting(x) /\ IsRegistered(x))
          /\ ~(IsOffline(x) /\ (Waiting(x) \/ IsRegistered(x)))

\* A character belongs to the account of the session that plays or loads it.
CharactersPlaced(S) ==
    \A x \in Sessions :
        /\ S[x].player # None => /\ OwnerOf[S[x].player] = AccountOf[x]
                                 /\ IsRegistered(x) \/ IsOffline(x)
        /\ S[x].holder # None => /\ OwnerOf[S[x].holder] = AccountOf[x]
                                 /\ IsRegistered(x)
                                 /\ S[x].player = None

\* The two sessions of one account.
Successor(x, o) ==
    IsRegistered(x) /\ IsOffline(o) /\ AccountOf[x] = AccountOf[o]

\* They play different characters.
CharactersApart(S) ==
    \A x, o \in Sessions :
        Successor(x, o) /\ S[o].player # None =>
            S[x].player # S[o].player /\ S[x].holder # S[o].player

\* Once the new one plays or loads, the offline one ends in the same
\* UpdateSessions, before the new one can go offline.
OfflineEndsFirst(S) ==
    \A x, o \in Sessions :
        Successor(x, o) /\ (S[x].player # None \/ S[x].holder # None) =>
            /\ S[o].player = None \/ S[o].kicked
            /\ \/ pc = "sessions" /\ AccountOf[x] \notin todo
               \/ pc = "offline" /\ AccountOf[x] \in todo

\* The flag follows the list, and nobody plays from the queue.
FlagsFollowList(S) ==
    \A x \in Sessions :
        /\ Listed(x) => S[x].inQueue /\ S[x].player = None /\ S[x].holder = None
        /\ S[x].inQueue => Listed(x) \/ S[x].kicked
        /\ S[x].kicked => S[x].socket # "open"

FieldsInv(S) == /\ CharactersPlaced(S)
                /\ CharactersApart(S)
                /\ OfflineEndsFirst(S)
                /\ FlagsFollowList(S)

PInv == /\ InOnePlace
        /\ FieldsInv(sess)
        /\ ClientsKnowTheirPosition
        /\ NobodyOnlineWithoutSession

-----------------------------------------------------------------------------
(* What the operators on session fields do to the fields of PInv *)

\* Identity, character and flag stay; a kick closes the socket.
GentleAt(T, S, x) ==
    /\ T[x].state = S[x].state
    /\ T[x].inQueue = S[x].inQueue
    /\ T[x].player = S[x].player
    /\ T[x].holder = S[x].holder
    /\ S[x].kicked => T[x].kicked
    /\ T[x].socket = "open" => S[x].socket = "open"
    /\ T[x].kicked /\ ~S[x].kicked => T[x].socket # "open"

Gentle(T, S) == \A x \in Sessions : GentleAt(T, S, x)

\* A kick is gentle and marks the session.
LEMMA KickIsGentle ==
  ASSUME NEW S \in SessFuns, NEW s \in Sessions, NEW b \in BOOLEAN
  PROVE  /\ Gentle(KickPlayer(S, s, b), S)
         /\ b => KickPlayer(S, s, b)[s].kicked
         /\ KickPlayer(S, s, b)[s].socket # "open"
         /\ \A x \in Sessions : x # s => KickPlayer(S, s, b)[x] = S[x]
         /\ ~b => KickPlayer(S, s, b)[s].kicked = S[s].kicked
<1> DEFINE k == IF S[s].socket = "null" THEN "null" ELSE "closed"
           d == IF b THEN TRUE ELSE S[s].kicked
<1>1. KickPlayer(S, s, b) = [S EXCEPT ![s].socket = k, ![s].kicked = d]
  BY DEF KickPlayer, SessFuns, SessionRec
<1>2. k # "open"
  OBVIOUS
<1>3. (b => d) /\ (~b => d = S[s].kicked) /\ (S[s].kicked => d)
  OBVIOUS
<1> HIDE DEF k, d
<1>4. /\ KickPlayer(S, s, b)[s] = [S[s] EXCEPT !.socket = k, !.kicked = d]
      /\ \A x \in Sessions : x # s => KickPlayer(S, s, b)[x] = S[x]
  BY <1>1 DEF SessFuns
<1>5. S[s] \in SessionRec
  BY FieldValues
<1>6. /\ KickPlayer(S, s, b)[s].socket = k
      /\ KickPlayer(S, s, b)[s].kicked = d
      /\ KickPlayer(S, s, b)[s].state = S[s].state
      /\ KickPlayer(S, s, b)[s].inQueue = S[s].inQueue
      /\ KickPlayer(S, s, b)[s].player = S[s].player
      /\ KickPlayer(S, s, b)[s].holder = S[s].holder
  BY <1>4, <1>5 DEF SessionRec
<1> DEFINE T == KickPlayer(S, s, b)
<1> HIDE DEF T
<1>7. \A x \in Sessions : x # s => T[x] = S[x]
  BY <1>4 DEF T
<1>8. Gentle(T, S)
  BY <1>2, <1>3, <1>6, <1>7 DEF Gentle, GentleAt, T
<1> QED BY <1>2, <1>3, <1>6, <1>7, <1>8 DEF T

\* So are the loss of the socket, the passing of a minute and a teleport.
LEMMA FieldsAreGentle ==
  ASSUME NEW S \in SessFuns, NEW s \in Sessions
  PROVE  /\ Gentle(S, S)
         /\ Gentle(LoseSocket(S, s), S)
         /\ Gentle(StartOrEndTravel(S, s), S)
         /\ Gentle([S EXCEPT ![s].overdue = TRUE], S)
         /\ Gentle([S EXCEPT ![s].socket = "closed"], S)
         /\ Gentle([S EXCEPT ![s].loading = TRUE], S)
<1>1. S[s] \in SessionRec
  BY FieldValues
<1>2. Gentle(S, S)
  BY DEF Gentle, GentleAt
<1>3. Gentle(LoseSocket(S, s), S)
  <2>1. /\ LoseSocket(S, s)[s] = [S[s] EXCEPT !.socket = "null", !.overdue = FALSE]
        /\ \A x \in Sessions : x # s => LoseSocket(S, s)[x] = S[x]
    BY DEF LoseSocket, SessFuns
  <2>2. GentleAt(LoseSocket(S, s), S, s)
    BY <1>1, <2>1 DEF GentleAt, SessionRec
  <2>3. \A x \in Sessions : x # s => GentleAt(LoseSocket(S, s), S, x)
    BY <2>1 DEF GentleAt
  <2> QED BY <2>2, <2>3 DEF Gentle
<1>4. Gentle(StartOrEndTravel(S, s), S)
  <2>1. /\ StartOrEndTravel(S, s)[s] = [S[s] EXCEPT !.steady = ~S[s].steady]
        /\ \A x \in Sessions : x # s => StartOrEndTravel(S, s)[x] = S[x]
    BY DEF StartOrEndTravel, SessFuns
  <2> QED BY <1>1, <2>1 DEF Gentle, GentleAt, SessionRec
<1>5. Gentle([S EXCEPT ![s].overdue = TRUE], S)
  BY <1>1 DEF Gentle, GentleAt, SessionRec, SessFuns
<1>6. Gentle([S EXCEPT ![s].socket = "closed"], S)
  BY <1>1 DEF Gentle, GentleAt, SessionRec, SessFuns
<1>7. Gentle([S EXCEPT ![s].loading = TRUE], S)
  BY <1>1 DEF Gentle, GentleAt, SessionRec, SessFuns
<1> QED BY <1>2, <1>3, <1>4, <1>5, <1>6, <1>7

\* A gentle change keeps the invariant on the fields.
LEMMA GentleKeepsFields ==
  ASSUME NEW S, NEW T, Gentle(T, S), FieldsInv(S)
  PROVE  FieldsInv(T)
<1>1. CharactersPlaced(T)
  BY DEF Gentle, GentleAt, FieldsInv, CharactersPlaced
<1>2. CharactersApart(T)
  BY DEF Gentle, GentleAt, FieldsInv, CharactersApart
<1>3. OfflineEndsFirst(T)
  BY DEF Gentle, GentleAt, FieldsInv, OfflineEndsFirst
<1>4. FlagsFollowList(T)
  BY DEF Gentle, GentleAt, FieldsInv, FlagsFollowList
<1> QED BY <1>1, <1>2, <1>3, <1>4 DEF FieldsInv

\* A deleted session holds nothing.
LEMMA DeletedFields ==
  ASSUME NEW S \in SessFuns, NEW s \in Sessions
  PROVE  /\ \A x \in Sessions : x # s => Deleted(S, s)[x] = S[x]
         /\ Deleted(S, s)[s].state = "deleted"
         /\ Deleted(S, s)[s].player = None
         /\ Deleted(S, s)[s].holder = None
         /\ Deleted(S, s)[s].inQueue = FALSE
         /\ Deleted(S, s)[s].kicked = FALSE
  BY DEF Deleted, NewSession, SessFuns

\* The parts of it that are needed alone.
LEMMA DeletedOthers ==
  ASSUME NEW S \in SessFuns, NEW s \in Sessions, NEW x \in Sessions, x # s
  PROVE  Deleted(S, s)[x] = S[x]
  BY DEF Deleted, SessFuns

LEMMA DeletedState ==
  ASSUME NEW S \in SessFuns, NEW s \in Sessions
  PROVE  Deleted(S, s)[s].state = "deleted"
  BY DEF Deleted, NewSession, SessFuns

\* What RemoveQueuedPlayer does to the record of a session.
LEMMA FlagsRecord ==
  ASSUME NEW S \in SessFuns, NEW s \in Sessions, NEW x \in Sessions
  PROVE  FlagsAfter(S, s)[x] =
            IF (Listed(s) /\ x = s) \/ (Accepts(s) /\ x = Head(Unlisted(s)))
            THEN [S[x] EXCEPT !.inQueue = FALSE] ELSE S[x]
  BY DEF FlagsAfter

\* RemoveQueuedPlayer clears the flags of s and of the accepted session.
LEMMA FlagsFields ==
  ASSUME NEW S \in SessFuns, NEW s \in Sessions, NEW x \in Sessions
  PROVE  FlagsAfter(S, s)[x].inQueue =
            IF (Listed(s) /\ x = s) \/ (Accepts(s) /\ x = Head(Unlisted(s)))
            THEN FALSE ELSE S[x].inQueue
<1>1. S[x] \in SessionRec
  BY FieldValues
<1> DEFINE C == (Listed(s) /\ x = s) \/ (Accepts(s) /\ x = Head(Unlisted(s)))
<1>2. FlagsAfter(S, s)[x] = IF C THEN [S[x] EXCEPT !.inQueue = FALSE] ELSE S[x]
  BY FlagsRecord
<1> HIDE DEF C
<1>3. FlagsAfter(S, s)[x].inQueue = IF C THEN FALSE ELSE S[x].inQueue
  BY <1>1, <1>2 DEF SessionRec
<1> QED BY <1>3 DEF C

\* It leaves the other fields of every session alone.
LEMMA FlagsKeep ==
  ASSUME NEW S \in SessFuns, NEW s \in Sessions
  PROVE  \A x \in Sessions : /\ FlagsAfter(S, s)[x].state = S[x].state
                             /\ FlagsAfter(S, s)[x].player = S[x].player
                             /\ FlagsAfter(S, s)[x].holder = S[x].holder
                             /\ FlagsAfter(S, s)[x].kicked = S[x].kicked
                             /\ FlagsAfter(S, s)[x].socket = S[x].socket
<1> TAKE x \in Sessions
<1>1. S[x] \in SessionRec
  BY FieldValues
<1>2. \/ FlagsAfter(S, s)[x] = [S[x] EXCEPT !.inQueue = FALSE]
      \/ FlagsAfter(S, s)[x] = S[x]
  BY FlagsRecord
<1>3. CASE FlagsAfter(S, s)[x] = [S[x] EXCEPT !.inQueue = FALSE]
  BY <1>1, <1>3 DEF SessionRec
<1>4. CASE FlagsAfter(S, s)[x] = S[x]
  BY <1>4
<1> QED BY <1>2, <1>3, <1>4

-----------------------------------------------------------------------------
(* The packets and callbacks of one WorldSession::Update *)

\* The session in Update: its account has been taken off the loop.
InUpdate(s) ==
    /\ IsRegistered(s)
    /\ pc = "sessions"
    /\ AccountOf[s] \notin todo

\* What the outcomes of a login write, by name.
Loads(S, s, c) == [S EXCEPT ![s].loading = TRUE, ![s].holder = c]
TakesOver(S, s, c) ==
    [S EXCEPT ![s].player = c, ![s].steady = TRUE, ![s].loading = FALSE]
Fails(S, s) == [S EXCEPT ![s].holder = None, ![s].loading = FALSE]
Loaded(S, s, b) ==
    [S EXCEPT ![s].player = S[s].holder, ![s].holder = None,
              ![s].loading = FALSE, ![s].steady = b]

\* The fields a login from the database writes.
LEMMA LoadsFields ==
  ASSUME NEW S \in SessFuns, NEW s \in Sessions, NEW c
  PROVE  /\ \A x \in Sessions : x # s => Loads(S, s, c)[x] = S[x]
         /\ Loads(S, s, c)[s].holder = c
         /\ Loads(S, s, c)[s].player = S[s].player
         /\ Loads(S, s, c)[s].state = S[s].state
         /\ Loads(S, s, c)[s].inQueue = S[s].inQueue
         /\ Loads(S, s, c)[s].kicked = S[s].kicked
         /\ Loads(S, s, c)[s].socket = S[s].socket
<1> DEFINE r == [S[s] EXCEPT !.loading = TRUE, !.holder = c]
<1>1. S[s] \in SessionRec
  BY FieldValues
<1>2. /\ Loads(S, s, c)[s] = r
      /\ \A x \in Sessions : x # s => Loads(S, s, c)[x] = S[x]
  BY DEF SessFuns, Loads
<1>3. /\ r.holder = c
      /\ r.player = S[s].player
      /\ r.state = S[s].state
      /\ r.inQueue = S[s].inQueue
      /\ r.kicked = S[s].kicked
      /\ r.socket = S[s].socket
  BY <1>1 DEF SessionRec
<1> HIDE DEF r
<1> QED BY <1>2, <1>3

\* The fields a character that leaves a session writes.
LEMMA LogoutFields ==
  ASSUME NEW S \in SessFuns, NEW s \in Sessions
  PROVE  /\ \A x \in Sessions : x # s => LogoutPlayer(S, s)[x] = S[x]
         /\ LogoutPlayer(S, s)[s].player = None
         /\ LogoutPlayer(S, s)[s].holder = S[s].holder
         /\ LogoutPlayer(S, s)[s].state = S[s].state
         /\ LogoutPlayer(S, s)[s].inQueue = S[s].inQueue
         /\ LogoutPlayer(S, s)[s].kicked = S[s].kicked
         /\ LogoutPlayer(S, s)[s].socket = S[s].socket
<1> DEFINE T == LogoutPlayer(S, s)
<1>1. S[s] \in SessionRec
  BY FieldValues
<1>2. /\ T[s] = [S[s] EXCEPT !.player = None, !.steady = FALSE]
      /\ \A x \in Sessions : x # s => T[x] = S[x]
  BY DEF SessFuns, LogoutPlayer
<1> QED BY <1>1, <1>2 DEF SessionRec

\* The fields a session that takes a character over writes.
LEMMA TakeOverFields ==
  ASSUME NEW S \in SessFuns, NEW s \in Sessions, NEW c
  PROVE  /\ \A x \in Sessions : x # s => TakesOver(S, s, c)[x] = S[x]
         /\ TakesOver(S, s, c)[s].player = c
         /\ TakesOver(S, s, c)[s].holder = S[s].holder
         /\ TakesOver(S, s, c)[s].state = S[s].state
         /\ TakesOver(S, s, c)[s].inQueue = S[s].inQueue
         /\ TakesOver(S, s, c)[s].kicked = S[s].kicked
         /\ TakesOver(S, s, c)[s].socket = S[s].socket
<1> DEFINE r == [S[s] EXCEPT !.player = c, !.steady = TRUE, !.loading = FALSE]
<1>1. S[s] \in SessionRec
  BY FieldValues
<1>2. /\ TakesOver(S, s, c)[s] = r
      /\ \A x \in Sessions : x # s => TakesOver(S, s, c)[x] = S[x]
  BY DEF SessFuns, TakesOver
<1>3. /\ r.player = c
      /\ r.holder = S[s].holder
      /\ r.state = S[s].state
      /\ r.inQueue = S[s].inQueue
      /\ r.kicked = S[s].kicked
      /\ r.socket = S[s].socket
  BY <1>1 DEF SessionRec
<1> HIDE DEF r
<1> QED BY <1>2, <1>3

\* The fields a login that fails writes, before the kick.
LEMMA FailFields ==
  ASSUME NEW S \in SessFuns, NEW s \in Sessions
  PROVE  /\ \A x \in Sessions : x # s => Fails(S, s)[x] = S[x]
         /\ Fails(S, s)[s].holder = None
         /\ Fails(S, s)[s].player = S[s].player
         /\ Fails(S, s)[s].state = S[s].state
         /\ Fails(S, s)[s].inQueue = S[s].inQueue
         /\ Fails(S, s)[s].kicked = S[s].kicked
         /\ Fails(S, s)[s].socket = S[s].socket
<1> DEFINE r == [S[s] EXCEPT !.holder = None, !.loading = FALSE]
<1>1. S[s] \in SessionRec
  BY FieldValues
<1>2. /\ Fails(S, s)[s] = r
      /\ \A x \in Sessions : x # s => Fails(S, s)[x] = S[x]
  BY DEF SessFuns, Fails
<1>3. /\ r.holder = None
      /\ r.player = S[s].player
      /\ r.state = S[s].state
      /\ r.inQueue = S[s].inQueue
      /\ r.kicked = S[s].kicked
      /\ r.socket = S[s].socket
  BY <1>1 DEF SessionRec
<1> HIDE DEF r
<1> QED BY <1>2, <1>3

\* The fields a login that succeeds writes.
LEMMA LoadedFields ==
  ASSUME NEW S \in SessFuns, NEW s \in Sessions, NEW b \in BOOLEAN
  PROVE  /\ \A x \in Sessions : x # s => Loaded(S, s, b)[x] = S[x]
         /\ Loaded(S, s, b)[s].holder = None
         /\ Loaded(S, s, b)[s].player = S[s].holder
         /\ Loaded(S, s, b)[s].state = S[s].state
         /\ Loaded(S, s, b)[s].inQueue = S[s].inQueue
         /\ Loaded(S, s, b)[s].kicked = S[s].kicked
         /\ Loaded(S, s, b)[s].socket = S[s].socket
<1> DEFINE r == [S[s] EXCEPT !.player = S[s].holder, !.holder = None,
                !.loading = FALSE, !.steady = b]
<1>1. S[s] \in SessionRec
  BY FieldValues
<1>2. /\ Loaded(S, s, b)[s] = r
      /\ \A x \in Sessions : x # s => Loaded(S, s, b)[x] = S[x]
  BY DEF SessFuns, Loaded
<1>3. /\ r.holder = None
      /\ r.player = S[s].holder
      /\ r.state = S[s].state
      /\ r.inQueue = S[s].inQueue
      /\ r.kicked = S[s].kicked
      /\ r.socket = S[s].socket
  BY <1>1 DEF SessionRec
<1> HIDE DEF r
<1> QED BY <1>2, <1>3

\* Giving a character up keeps the invariant on the fields.
Weaker(T, S) ==
    \A x \in Sessions :
        /\ T[x].player \in {S[x].player, None}
        /\ T[x].holder \in {S[x].holder, None}
        /\ T[x].inQueue = S[x].inQueue
        /\ T[x].kicked = S[x].kicked
        /\ T[x].socket = S[x].socket

LEMMA WeakerKeepsFields ==
  ASSUME NEW S \in SessFuns, NEW T, Weaker(T, S), FieldsInv(S)
  PROVE  FieldsInv(T)
<1>1. CharactersPlaced(T)
  BY DEF Weaker, FieldsInv, CharactersPlaced
<1>2. CharactersApart(T)
  <2> SUFFICES ASSUME NEW x \in Sessions, NEW o \in Sessions,
                      Successor(x, o), T[o].player # None
               PROVE  T[x].player # T[o].player /\ T[x].holder # T[o].player
    BY DEF CharactersApart
  <2>1. T[o].player = S[o].player
    BY DEF Weaker
  <2>2. S[x].player # S[o].player /\ S[x].holder # S[o].player
    BY <2>1 DEF FieldsInv, CharactersApart
  <2> QED BY <2>1, <2>2 DEF Weaker
<1>3. OfflineEndsFirst(T)
  BY DEF Weaker, FieldsInv, OfflineEndsFirst
<1>4. FlagsFollowList(T)
  BY DEF Weaker, FieldsInv, FlagsFollowList
<1> QED BY <1>1, <1>2, <1>3, <1>4 DEF FieldsInv
\* No operation of an Update revives or ends a session, or takes a kick back.
Lives(T, S) ==
    \A x \in Sessions : /\ T[x].state = S[x].state
                        /\ S[x].kicked => T[x].kicked

\* The offline session of the account of s is the only one s can meet.
LEMMA OnlyOffline ==
  ASSUME IInv, InOnePlace, NEW s \in Sessions, NEW o \in Sessions, Successor(s, o)
  PROVE  /\ o = m_offlineSessions[AccountOf[s]]
         /\ o # s
  BY DEF Successor, IsOffline, InOnePlace

\* A character that is loaded from the database.
LEMMA LoadsKeepsFields ==
  ASSUME IInv, InOnePlace, FieldsInv(sess),
         NEW s \in Sessions, InUpdate(s), NEW c \in MayLogIn(s), NEW T,
         T = Loads(sess, s, c)
  PROVE  /\ Lives(T, sess)
         /\ m_offlineSessions[AccountOf[s]] = None => FieldsInv(T)
         /\ LET off == m_offlineSessions[AccountOf[s]]
            IN  off # None /\ sess[off].player # None /\ sess[off].player # c
                    => FieldsInv(KickPlayer(T, off, TRUE))
<1> DEFINE off == m_offlineSessions[AccountOf[s]]
<1>1. /\ sess \in SessFuns
      /\ c \in Chars /\ OwnerOf[c] = AccountOf[s] /\ c # None
      /\ ~sess[s].inQueue /\ sess[s].player = None
      /\ off \in Sessions \cup {None}
  BY AccountsAssumption, NoneAssumption DEF IInv, TypeOK, SessFuns, MayLogIn
<1>2. /\ \A x \in Sessions : x # s => T[x] = sess[x]
      /\ T[s].holder = c /\ T[s].player = sess[s].player
      /\ T[s].state = sess[s].state
      /\ T[s].inQueue = sess[s].inQueue
      /\ T[s].kicked = sess[s].kicked
      /\ T[s].socket = sess[s].socket
  BY <1>1, LoadsFields
<1>3. T \in SessFuns
  <2>1. c \in Chars \cup {None} /\ TRUE \in BOOLEAN
    BY <1>1
  <2>2. [sess EXCEPT ![s].loading = TRUE, ![s].holder = c] \in SessFuns
    BY Zenon, <1>1, <2>1, LoginFieldsType
  <2> QED BY <2>2 DEF Loads
<1>4. Lives(T, sess)
  BY <1>2 DEF Lives
<1>5. CharactersPlaced(T)
  BY <1>1, <1>2 DEF FieldsInv, CharactersPlaced, InUpdate
<1>6. FlagsFollowList(T)
  <2>1. ~Listed(s)
    BY <1>1 DEF FieldsInv, FlagsFollowList
  <2> QED BY <1>2, <2>1 DEF FieldsInv, FlagsFollowList
<1>7. \A x, o \in Sessions : Successor(x, o) =>
         IF x = s THEN o = off /\ o # s /\ o # None ELSE o # s
  <2> SUFFICES ASSUME NEW x \in Sessions, NEW o \in Sessions, Successor(x, o)
               PROVE  IF x = s THEN o = off /\ o # s /\ o # None ELSE o # s
    OBVIOUS
  <2>1. ~IsOffline(s)
    BY DEF InUpdate, InOnePlace
  <2> QED BY <2>1, OnlyOffline, NoneAssumption DEF Successor
<1>8. CASE off = None
  <2>1. \A x, o \in Sessions : Successor(x, o) => T[x] = sess[x] /\ T[o] = sess[o]
    BY <1>2, <1>7, <1>8
  <2>2. CharactersApart(T)
    BY <2>1 DEF FieldsInv, CharactersApart
  <2>3. OfflineEndsFirst(T)
    BY <2>1 DEF FieldsInv, OfflineEndsFirst
  <2> QED BY <1>4, <1>5, <1>6, <1>8, <2>2, <2>3 DEF FieldsInv
<1>9. CASE off # None /\ sess[off].player # None /\ sess[off].player # c
  <2>1. off \in Sessions
    BY <1>1, <1>9
  <2>2. CharactersApart(T)
    <3> SUFFICES ASSUME NEW x \in Sessions, NEW o \in Sessions,
                        Successor(x, o), T[o].player # None
                 PROVE  T[x].player # T[o].player /\ T[x].holder # T[o].player
      BY DEF CharactersApart
    <3>1. o # s /\ T[o] = sess[o]
      BY <1>2, <1>7
    <3>2. CASE x = s
      BY <1>1, <1>2, <1>7, <1>9, <3>1, <3>2
    <3>3. CASE x # s
      BY <1>2, <3>1, <3>3 DEF FieldsInv, CharactersApart
    <3> QED BY <3>2, <3>3
  <2> DEFINE K == KickPlayer(T, off, TRUE)
  <2>3. Gentle(K, T) /\ K[off].kicked
    <3> HIDE DEF off
    <3> QED BY <1>3, <2>1, KickIsGentle
  <2> HIDE DEF K
  <2>4. OfflineEndsFirst(K)
    <3> SUFFICES ASSUME NEW x \in Sessions, NEW o \in Sessions, Successor(x, o),
                        K[x].player # None \/ K[x].holder # None
                 PROVE  /\ K[o].player = None \/ K[o].kicked
                        /\ \/ pc = "sessions" /\ AccountOf[x] \notin todo
                           \/ pc = "offline" /\ AccountOf[x] \in todo
      BY DEF OfflineEndsFirst
    <3>1. CASE x = s
      BY <1>7, <2>3, <3>1 DEF InUpdate
    <3>2. CASE x # s
      <4>1. T[x] = sess[x] /\ T[o] = sess[o]
        BY <1>2, <1>7, <3>2
      <4>2. /\ K[x].player = sess[x].player /\ K[x].holder = sess[x].holder
            /\ K[o].player = sess[o].player
            /\ sess[o].kicked => K[o].kicked
        BY <2>3, <4>1 DEF Gentle, GentleAt
      <4> QED BY <4>2 DEF FieldsInv, OfflineEndsFirst
    <3> QED BY <3>1, <3>2
  <2>5. CharactersPlaced(K)
    BY <1>5, <2>3 DEF Gentle, GentleAt, CharactersPlaced
  <2>6. CharactersApart(K)
    BY <2>2, <2>3 DEF Gentle, GentleAt, CharactersApart
  <2>7. FlagsFollowList(K)
    BY <1>6, <2>3 DEF Gentle, GentleAt, FlagsFollowList
  <2> QED BY <1>4, <1>9, <2>4, <2>5, <2>6, <2>7 DEF FieldsInv, K
<1> QED BY <1>4, <1>8, <1>9

\* A character taken over from the offline session.
LEMMA TakeOverKeepsFields ==
  ASSUME IInv, InOnePlace, FieldsInv(sess),
         NEW s \in Sessions, InUpdate(s), NEW c \in MayLogIn(s),
         m_offlineSessions[AccountOf[s]] # None, NEW T,
         T = TakesOver(LogoutPlayer(sess, m_offlineSessions[AccountOf[s]]), s, c)
  PROVE  Lives(T, sess) /\ FieldsInv(T)
<1> DEFINE off == m_offlineSessions[AccountOf[s]]
           L == LogoutPlayer(sess, off)
<1>1. /\ sess \in SessFuns
      /\ c \in Chars /\ OwnerOf[c] = AccountOf[s] /\ c # None
      /\ ~sess[s].inQueue /\ sess[s].player = None /\ sess[s].holder = None
      /\ off \in Sessions
  BY AccountsAssumption, NoneAssumption DEF IInv, TypeOK, SessFuns, MayLogIn
<1>2. off # s
  <2>1. AccountOf[off] = AccountOf[s]
    BY AccountsAssumption DEF IInv, Keys
  <2>2. ~IsOffline(s)
    BY DEF InUpdate, InOnePlace
  <2> QED BY <2>1, <2>2 DEF IsOffline
<1>3. /\ \A x \in Sessions : x # off => L[x] = sess[x]
      /\ L[off].player = None
      /\ L[off].holder = sess[off].holder
      /\ L[off].state = sess[off].state
      /\ L[off].inQueue = sess[off].inQueue
      /\ L[off].kicked = sess[off].kicked
      /\ L[off].socket = sess[off].socket
  <2> HIDE DEF off
  <2> QED BY <1>1, LogoutFields
<1>4. L \in SessFuns
  <2> HIDE DEF off
  <2> QED BY <1>1, LogoutPlayerType
<1>5. Weaker(L, sess)
  BY <1>3 DEF Weaker
<1>6. FieldsInv(L)
  BY <1>1, <1>5, WeakerKeepsFields
<1> HIDE DEF L
<1>7. /\ \A x \in Sessions : x # s => T[x] = L[x]
      /\ T[s].player = c
      /\ T[s].holder = L[s].holder
      /\ T[s].state = L[s].state
      /\ T[s].inQueue = L[s].inQueue
      /\ T[s].kicked = L[s].kicked
      /\ T[s].socket = L[s].socket
  BY <1>4, TakeOverFields DEF L
<1>8. L[s] = sess[s]
  BY <1>2, <1>3
<1>9. Lives(T, sess)
  BY <1>3, <1>7, <1>8 DEF Lives
<1>10. CharactersPlaced(T)
  BY <1>1, <1>6, <1>7, <1>8 DEF FieldsInv, CharactersPlaced, InUpdate
<1>11. FlagsFollowList(T)
  <2>1. ~Listed(s)
    BY <1>1 DEF FieldsInv, FlagsFollowList
  <2> QED BY <1>6, <1>7, <2>1 DEF FieldsInv, FlagsFollowList
<1>12. \A x, o \in Sessions : Successor(x, o) =>
          o # s /\ (x = s => T[o].player = None)
  <2> SUFFICES ASSUME NEW x \in Sessions, NEW o \in Sessions, Successor(x, o)
               PROVE  o # s /\ (x = s => T[o].player = None)
    OBVIOUS
  <2>1. ~IsOffline(s)
    BY DEF InUpdate, InOnePlace
  <2>2. x = s => o = off
    BY OnlyOffline
  <2> QED BY <1>2, <1>3, <1>7, <2>1, <2>2 DEF Successor
<1>13. CharactersApart(T)
  BY <1>6, <1>7, <1>12 DEF FieldsInv, CharactersApart
<1>14. OfflineEndsFirst(T)
  BY <1>6, <1>7, <1>12 DEF FieldsInv, OfflineEndsFirst, InUpdate
<1> QED BY <1>9, <1>10, <1>11, <1>13, <1>14 DEF FieldsInv

\* Whatever the packets of an Update do, the fields stay consistent.
LEMMA PacketsKeepFields ==
  ASSUME IInv, InOnePlace, FieldsInv(sess),
         NEW s \in Sessions, InUpdate(s), NEW T \in Packets(s)
  PROVE  Lives(T, sess) /\ FieldsInv(T)
<1> DEFINE off == m_offlineSessions[AccountOf[s]]
<1>1. sess \in SessFuns /\ off \in Sessions \cup {None}
  BY AccountsAssumption DEF IInv, TypeOK, SessFuns
<1>2. CASE T = sess \/ T = StartOrEndTravel(sess, s)
  <2>1. Gentle(T, sess)
    BY <1>1, <1>2, FieldsAreGentle
  <2> QED BY <2>1, GentleKeepsFields DEF Gentle, GentleAt, Lives
<1>3. CASE T = LogoutPlayer(sess, s)
  <2>1. Weaker(T, sess) /\ Lives(T, sess)
    BY <1>1, <1>3, LogoutFields DEF Weaker, Lives
  <2> QED BY <1>1, <2>1, WeakerKeepsFields
<1>4. ASSUME NEW c \in MayLogIn(s), T \in HandlePlayerLogin(sess, s, c)
      PROVE  Lives(T, sess) /\ FieldsInv(T)
  <2> DEFINE loads == Loads(sess, s, c)
             takesOver == TakesOver(LogoutPlayer(sess, off), s, c)
  <2>1. \/ T = [sess EXCEPT ![s].loading = TRUE]
        \/ off = None /\ T = loads
        \/ /\ off # None /\ sess[off].player # None /\ sess[off].player # c
           /\ T = KickPlayer(loads, off, TRUE)
        \/ off # None /\ T = takesOver
    BY <1>4 DEF HandlePlayerLogin, Loads, TakesOver, LogoutPlayer
  <2>2. CASE T = [sess EXCEPT ![s].loading = TRUE]
    <3>1. Gentle(T, sess)
      BY <1>1, <2>2, FieldsAreGentle
    <3> QED BY <3>1, GentleKeepsFields DEF Gentle, GentleAt, Lives
  <2>3. CASE off = None /\ T = loads
    BY <2>3, LoadsKeepsFields
  <2>4. CASE /\ off # None /\ sess[off].player # None /\ sess[off].player # c
             /\ T = KickPlayer(loads, off, TRUE)
    <3>1. /\ Lives(loads, sess)
          /\ FieldsInv(KickPlayer(loads, off, TRUE))
      BY <2>4, LoadsKeepsFields
    <3>2. loads \in SessFuns
      <4>1. c \in Chars \cup {None} /\ TRUE \in BOOLEAN
        BY DEF MayLogIn
      <4> QED BY Zenon, <1>1, <4>1, LoginFieldsType DEF Loads
    <3>3. Gentle(KickPlayer(loads, off, TRUE), loads)
      <4> HIDE DEF loads, off
      <4> QED BY <1>1, <2>4, <3>2, KickIsGentle
    <3> QED BY <2>4, <3>1, <3>3 DEF Gentle, GentleAt, Lives
  <2>5. CASE off # None /\ T = takesOver
    <3> QED BY <2>5, TakeOverKeepsFields
  <2> QED BY <2>1, <2>2, <2>3, <2>4, <2>5
<1>5. \/ T = sess
      \/ \E c \in MayLogIn(s) : T \in HandlePlayerLogin(sess, s, c)
      \/ T = LogoutPlayer(sess, s)
      \/ T = StartOrEndTravel(sess, s)
  BY DEF Packets
<1> QED BY <1>2, <1>3, <1>4, <1>5

\* So do its query callbacks.
LEMMA CallbacksKeepFields ==
  ASSUME IInv, InOnePlace, NEW S \in SessFuns, FieldsInv(S),
         NEW s \in Sessions, InUpdate(s), NEW T \in Callbacks(S, s)
  PROVE  Lives(T, S) /\ FieldsInv(T)
<1> DEFINE failed == Fails(S, s)
<1>1. CASE T = S
  BY <1>1 DEF Lives
<1>2. CASE T = KickPlayer(failed, s, TRUE)
  <2>1. Weaker(failed, S) /\ Lives(failed, S)
    BY FailFields DEF Weaker, Lives
  <2>2. FieldsInv(failed)
    BY <2>1, WeakerKeepsFields
  <2>3. failed \in SessFuns
    BY Zenon, FailFieldsType DEF Fails
  <2>4. Gentle(T, failed)
    <3> HIDE DEF failed
    <3> QED BY <1>2, <2>3, KickIsGentle
  <2> QED BY <2>1, <2>2, <2>4, GentleKeepsFields DEF Gentle, GentleAt, Lives
<1>3. ASSUME NEW b \in BOOLEAN, T = Loaded(S, s, b), S[s].holder # None
      PROVE  Lives(T, S) /\ FieldsInv(T)
  <2>1. /\ \A x \in Sessions : x # s => T[x] = S[x]
        /\ T[s].holder = None /\ T[s].player = S[s].holder
        /\ T[s].state = S[s].state
        /\ T[s].inQueue = S[s].inQueue
        /\ T[s].kicked = S[s].kicked
        /\ T[s].socket = S[s].socket
    BY <1>3, LoadedFields
  <2>2. \A x, o \in Sessions : Successor(x, o) => o # s
    BY DEF Successor, InUpdate, InOnePlace
  <2>3. CharactersPlaced(T)
    BY <1>3, <2>1 DEF FieldsInv, CharactersPlaced
  <2>4. CharactersApart(T)
    <3> SUFFICES ASSUME NEW x \in Sessions, NEW o \in Sessions,
                        Successor(x, o), T[o].player # None
                 PROVE  T[x].player # T[o].player /\ T[x].holder # T[o].player
      BY DEF CharactersApart
    <3>1. T[o] = S[o]
      BY <2>1, <2>2
    <3>2. S[x].player # S[o].player /\ S[x].holder # S[o].player
      BY <3>1 DEF FieldsInv, CharactersApart
    <3> QED BY <2>1, <3>1, <3>2
  <2>5. OfflineEndsFirst(T)
    BY <1>3, <2>1, <2>2 DEF FieldsInv, OfflineEndsFirst
  <2>6. FlagsFollowList(T)
    BY <1>3, <2>1 DEF FieldsInv, FlagsFollowList
  <2> QED BY <2>1, <2>3, <2>4, <2>5, <2>6 DEF FieldsInv, Lives
<1>4. \/ T = S
      \/ T = KickPlayer(failed, s, TRUE)
      \/ S[s].holder # None /\ \E b \in BOOLEAN : T = Loaded(S, s, b)
  BY DEF Callbacks, Fails, Loaded
<1> QED BY <1>1, <1>2, <1>3, <1>4
-----------------------------------------------------------------------------
(* What RemoveQueuedPlayer does to the list, the flags and the positions *)

InList(q, x) == \E i \in DOMAIN q : q[i] = x

\* The queue without s keeps its front; only s is gone.
LEMMA UnlistedMembers ==
  ASSUME IInv, NEW s \in Sessions
  PROVE  /\ \A x : InList(Unlisted(s), x) <=> Listed(x) /\ x # s
         /\ Listed(s) => /\ GetQueuePos(m_QueuedPlayer, s) \in DOMAIN m_QueuedPlayer
                         /\ \A i \in DOMAIN Unlisted(s) :
                               i < GetQueuePos(m_QueuedPlayer, s) =>
                                   Unlisted(s)[i] = m_QueuedPlayer[i]
         /\ ~Listed(s) => Unlisted(s) = m_QueuedPlayer
<1> DEFINE q == m_QueuedPlayer
           p == GetQueuePos(q, s)
           u == Unlisted(s)
<1>1. q \in Seq(Sessions)
  BY DEF IInv, TypeOK
<1>2. CASE ~Listed(s)
  <2>1. u = q
    BY <1>2 DEF Unlisted
  <2>2. \A x : InList(u, x) <=> Listed(x) /\ x # s
    BY <1>2, <2>1 DEF InList, Listed
  <2> QED BY <1>2, <2>1, <2>2
<1>3. CASE Listed(s)
  <2>1. p \in 1 .. Len(q) /\ q[p] = s
    <3>1. \E i \in DOMAIN q : q[i] = s
      BY <1>3 DEF Listed
    <3> QED BY <1>1, <3>1 DEF GetQueuePos
  <2>2. u = RemoveAt(q, p)
    BY <1>3 DEF Unlisted
  <2>3. \A i, j \in 1 .. Len(q) : i # j => q[i] # q[j]
    BY <1>1 DEF IInv, QueueOfRegistered
  <2>4. \A x : Listed(x) <=> \E i \in 1 .. Len(q) : q[i] = x
    BY <1>1 DEF Listed
  <2> HIDE DEF q, p, u
  <2>5. /\ u \in Seq(Sessions)
        /\ Len(u) = Len(q) - 1
        /\ \A j \in 1 .. Len(q) - 1 : u[j] = IF j < p THEN q[j] ELSE q[j + 1]
    BY <1>1, <2>1, <2>2, RemoveAtProperties
  <2>6. DOMAIN u = 1 .. Len(q) - 1 /\ Len(q) \in Nat
    BY <1>1, <2>5
  <2>7. ASSUME NEW x, InList(u, x) PROVE Listed(x) /\ x # s
    <3>1. PICK j \in 1 .. Len(q) - 1 : u[j] = x
      BY <2>6, <2>7 DEF InList
    <3>2. \E i \in 1 .. Len(q) : i # p /\ q[i] = x
      BY <2>1, <2>5, <2>6, <3>1
    <3> QED BY <2>1, <2>3, <2>4, <3>2
  <2>8. ASSUME NEW x, Listed(x), x # s PROVE InList(u, x)
    <3>1. PICK i \in 1 .. Len(q) : q[i] = x
      BY <2>4, <2>8
    <3>2. i # p
      BY <2>1, <2>8, <3>1
    <3>3. CASE i < p
      BY <2>1, <2>5, <2>6, <3>1, <3>3 DEF InList
    <3>4. CASE i > p
      <4>1. i - 1 \in 1 .. Len(q) - 1 /\ ~(i - 1 < p) /\ (i - 1) + 1 = i
        BY <2>1, <2>6, <3>4
      <4>2. u[i - 1] = q[i]
        BY <2>5, <4>1
      <4> QED BY <2>6, <3>1, <4>1, <4>2 DEF InList
    <3> QED BY <2>1, <2>6, <3>2, <3>3, <3>4
  <2>9. \A i \in DOMAIN u : i < p => u[i] = q[i]
    BY <2>5, <2>6
  <2> QED BY <1>1, <1>3, <2>1, <2>7, <2>8, <2>9 DEF q, p, u
<1> QED BY <1>2, <1>3

\* The session that is accepted is the head; the others keep waiting.
LEMMA QueueAfterMembers ==
  ASSUME IInv, NEW s \in Sessions
  PROVE  /\ Accepts(s) => /\ Listed(Head(Unlisted(s)))
                          /\ Head(Unlisted(s)) # s
                          /\ Head(Unlisted(s)) \in Sessions
         /\ \A x : InList(QueueAfter(s), x) <=>
                      /\ Listed(x) /\ x # s
                      /\ ~(Accepts(s) /\ x = Head(Unlisted(s)))
<1> DEFINE u == Unlisted(s)
<1>1. /\ u \in Seq(Sessions)
      /\ Distinct(u)
  BY UnlistedProperties DEF IInv
<1>2. \A x : InList(u, x) <=> Listed(x) /\ x # s
  BY UnlistedMembers
<1>3. CASE ~Accepts(s)
  BY <1>2, <1>3 DEF QueueAfter
<1>4. CASE Accepts(s)
  <2>1. u # <<>> /\ QueueAfter(s) = Tail(u)
    BY <1>4 DEF Accepts, QueueAfter
  <2> HIDE DEF u
  <2>2. /\ Head(u) = u[1] /\ Head(u) \in Sessions
        /\ Tail(u) \in Seq(Sessions)
        /\ Len(Tail(u)) = Len(u) - 1
        /\ \A i \in 1 .. Len(Tail(u)) : Tail(u)[i] = u[i + 1]
    BY <1>1, <2>1, HeadTailProperties
  <2>3. /\ DOMAIN Tail(u) = 1 .. Len(u) - 1
        /\ DOMAIN u = 1 .. Len(u) /\ Len(u) \in Nat \ {0}
    BY <1>1, <2>1, <2>2, EmptySeq
  <2>4. InList(u, Head(u))
    BY <2>2, <2>3 DEF InList
  <2>5. ASSUME NEW x, InList(Tail(u), x) PROVE InList(u, x) /\ x # Head(u)
    <3>1. PICK i \in 1 .. Len(u) - 1 : Tail(u)[i] = x
      BY <2>3, <2>5 DEF InList
    <3>2. i + 1 \in DOMAIN u /\ i + 1 # 1 /\ 1 \in DOMAIN u /\ u[i + 1] = x
      BY <2>2, <2>3, <3>1
    <3> QED BY <1>1, <2>2, <3>2 DEF InList, Distinct
  <2>6. ASSUME NEW x, InList(u, x), x # Head(u) PROVE InList(Tail(u), x)
    <3>1. PICK i \in 1 .. Len(u) : u[i] = x
      BY <2>3, <2>6 DEF InList
    <3>2. i # 1
      BY <2>2, <2>6, <3>1
    <3>3. i - 1 \in 1 .. Len(u) - 1 /\ (i - 1) + 1 = i
      BY <2>3, <3>1, <3>2
    <3>4. Tail(u)[i - 1] = u[i]
      BY <2>2, <2>3, <3>3
    <3> QED BY <2>3, <3>1, <3>3, <3>4 DEF InList
  <2> QED BY <1>2, <1>4, <2>1, <2>2, <2>4, <2>5, <2>6 DEF u
<1> QED BY <1>3, <1>4

\* Clients are told their new positions, and the accepted one that it is in.
LEMMA ToldAfterIsTrue ==
  ASSUME IInv, ClientsKnowTheirPosition, NEW s \in Sessions
  PROVE  /\ \A i \in DOMAIN QueueAfter(s) : ToldAfter(s)[QueueAfter(s)[i]] = i
         /\ \A x \in Sessions : Accepts(s) /\ x = Head(Unlisted(s))
                                    => ToldAfter(s)[x] = 0
         /\ \A x \in Sessions : ~Listed(x) => ToldAfter(s)[x] = told[x]
<1> DEFINE q == QueueAfter(s)
           p == GetQueuePos(m_QueuedPlayer, s)
           from == IF Accepts(s) THEN 1
                   ELSE IF Listed(s) THEN p
                   ELSE Len(q) + 1
<1>1. /\ q \in Seq(Sessions)
      /\ Distinct(q)
  BY QueueAfterProperties DEF IInv
<1>2. \A x \in Sessions : ToldAfter(s)[x] =
          IF Accepts(s) /\ x = Head(Unlisted(s)) THEN 0
          ELSE IF \E i \in from .. Len(q) : q[i] = x THEN GetQueuePos(q, x)
          ELSE told[x]
  <2>1. ToldAfter(s) = [x \in Sessions |->
            IF Accepts(s) /\ x = Head(Unlisted(s)) THEN 0
            ELSE IF \E i \in from .. Len(q) : q[i] = x THEN GetQueuePos(q, x)
            ELSE told[x]]
    BY DEF ToldAfter
  <2> HIDE DEF q, from
  <2> QED BY <2>1
<1>3. m_QueuedPlayer \in Seq(Sessions)
  BY DEF IInv, TypeOK
<1>4. from \in Nat \ {0}
  <2>1. Listed(s) => p \in Nat \ {0}
    <3>1. Listed(s) => p \in DOMAIN m_QueuedPlayer
      BY UnlistedMembers
    <3> QED BY <1>3, <3>1
  <2>2. Len(q) \in Nat
    <3> HIDE DEF q
    <3> QED BY <1>1
  <2> HIDE DEF p, q
  <2> QED BY <2>1, <2>2
<1>5. \A x : InList(q, x) => Listed(x) /\ ~(Accepts(s) /\ x = Head(Unlisted(s)))
  BY QueueAfterMembers
<1>6. ASSUME NEW i \in DOMAIN q, i < from
      PROVE  /\ told[q[i]] = i
             /\ ~\E j \in from .. Len(q) : q[j] = q[i]
  <2>1. i \in 1 .. Len(q) /\ ~Accepts(s)
    BY <1>1, <1>6
  <2>2. q = Unlisted(s)
    BY <2>1 DEF QueueAfter
  <2>3. q[i] = m_QueuedPlayer[i] /\ i \in DOMAIN m_QueuedPlayer
    <3>1. CASE Listed(s)
      <4>1. i < p /\ p \in DOMAIN m_QueuedPlayer
        BY <1>6, <2>1, <3>1, UnlistedMembers
      <4>2. q[i] = m_QueuedPlayer[i]
        BY <2>2, <3>1, <4>1, UnlistedMembers
      <4> HIDE DEF p, q
      <4> QED BY <1>3, <2>1, <4>1, <4>2
    <3>2. CASE ~Listed(s)
      BY <2>2, <3>2, UnlistedMembers
    <3> QED BY <3>1, <3>2
  <2> HIDE DEF q, from
  <2>4. told[q[i]] = i
    BY <2>3 DEF ClientsKnowTheirPosition
  <2>5. ASSUME NEW j \in from .. Len(q) PROVE q[j] # q[i]
    <3>1. j \in DOMAIN q /\ j # i
      BY <1>1, <1>4, <1>6, <2>1
    <3> QED BY <1>1, <3>1 DEF Distinct
  <2> QED BY <2>4, <2>5
<1>7. ASSUME NEW i \in DOMAIN q, i >= from
      PROVE  /\ \E j \in from .. Len(q) : q[j] = q[i]
             /\ GetQueuePos(q, q[i]) = i
  <2> HIDE DEF q, from
  <2>1. i \in from .. Len(q)
    BY <1>1, <1>4, <1>7
  <2>2. \A j \in DOMAIN q : q[j] = q[i] => j = i
    BY <1>1 DEF Distinct
  <2> QED BY <2>1, <2>2 DEF GetQueuePos
<1>8. ASSUME NEW i \in DOMAIN q PROVE ToldAfter(s)[q[i]] = i
  <2>1. q[i] \in Sessions /\ InList(q, q[i])
    BY <1>1 DEF InList
  <2>2. ~(Accepts(s) /\ q[i] = Head(Unlisted(s)))
    BY <1>5, <2>1
  <2>3. i < from \/ i >= from
    <3> HIDE DEF q, from
    <3> QED BY <1>1, <1>4
  <2> HIDE DEF q, from
  <2> QED BY <1>2, <1>6, <1>7, <2>1, <2>2, <2>3
<1>9. ASSUME NEW x \in Sessions, ~Listed(x) PROVE ToldAfter(s)[x] = told[x]
  <2>1. Accepts(s) => x # Head(Unlisted(s))
    BY <1>9, QueueAfterMembers
  <2>2. ~InList(q, x)
    BY <1>5, <1>9
  <2> HIDE DEF q, from
  <2>3. ~\E i \in from .. Len(q) : q[i] = x
    BY <1>1, <1>4, <2>2 DEF InList
  <2> QED BY <1>2, <2>1, <2>3
<1> QED BY <1>2, <1>8, <1>9

\* Flags that follow the list but for s follow it when s has left.
FlagsFollowListBut(S, s) ==
    \A x \in Sessions :
        /\ Listed(x) /\ x # s => /\ S[x].inQueue
                                 /\ S[x].player = None /\ S[x].holder = None
        /\ S[x].inQueue => Listed(x) \/ S[x].kicked
        /\ S[x].kicked => S[x].socket # "open"

FlagsFollow(S, q) ==
    \A x \in Sessions :
        /\ InList(q, x) => S[x].inQueue /\ S[x].player = None /\ S[x].holder = None
        /\ S[x].inQueue => InList(q, x) \/ S[x].kicked
        /\ S[x].kicked => S[x].socket # "open"

LEMMA FlagsAfterFollow ==
  ASSUME IInv, NEW s \in Sessions, NEW S \in SessFuns, FlagsFollowListBut(S, s)
  PROVE  FlagsFollow(FlagsAfter(S, s), QueueAfter(s))
<1> DEFINE T == FlagsAfter(S, s)
           h == Head(Unlisted(s))
<1>1. \A x \in Sessions :
         /\ T[x].inQueue = IF (Listed(s) /\ x = s) \/ (Accepts(s) /\ x = h)
                           THEN FALSE ELSE S[x].inQueue
         /\ T[x].player = S[x].player
         /\ T[x].holder = S[x].holder
         /\ T[x].kicked = S[x].kicked
         /\ T[x].socket = S[x].socket
  <2> TAKE x \in Sessions
  <2>1. T[x].inQueue = IF (Listed(s) /\ x = s) \/ (Accepts(s) /\ x = h)
                       THEN FALSE ELSE S[x].inQueue
    BY FlagsFields
  <2>2. /\ T[x].player = S[x].player
        /\ T[x].holder = S[x].holder
        /\ T[x].kicked = S[x].kicked
        /\ T[x].socket = S[x].socket
    BY FlagsKeep
  <2> QED BY <2>1, <2>2
<1>2. \A x : InList(QueueAfter(s), x) <=>
                /\ Listed(x) /\ x # s
                /\ ~(Accepts(s) /\ x = h)
  BY QueueAfterMembers
<1> HIDE DEF T, h
<1>3. ASSUME NEW x \in Sessions
      PROVE  /\ InList(QueueAfter(s), x) => T[x].inQueue /\ T[x].player = None /\ T[x].holder = None
             /\ T[x].inQueue => InList(QueueAfter(s), x) \/ T[x].kicked
             /\ T[x].kicked => T[x].socket # "open"
  <2>1. CASE InList(QueueAfter(s), x)
    <3>1. Listed(x) /\ x # s /\ ~(Accepts(s) /\ x = h)
      BY <1>2, <2>1
    <3>2. T[x].inQueue = S[x].inQueue
      BY <1>1, <3>1
    <3>3. S[x].inQueue /\ S[x].player = None /\ S[x].holder = None
      BY <3>1 DEF FlagsFollowListBut
    <3>4. S[x].kicked => S[x].socket # "open"
      BY DEF FlagsFollowListBut
    <3> QED BY <1>1, <2>1, <3>2, <3>3, <3>4
  <2>2. CASE ~InList(QueueAfter(s), x)
    <3>1. T[x].inQueue => S[x].inQueue /\ ~Listed(x)
      BY <1>1, <1>2, <2>2
    <3> QED BY <1>1, <2>2, <3>1 DEF FlagsFollowListBut
  <2> QED BY <2>1, <2>2
<1> QED BY <1>3 DEF T, FlagsFollow

-----------------------------------------------------------------------------
(* The steps that leave every session in its place *)

\* The server starts in the invariant.
LEMMA InitPInv == Init => PInv
<1> SUFFICES ASSUME Init PROVE PInv
  OBVIOUS
<1>1. /\ \A x \in Sessions : /\ sess[x].state = "unborn" /\ sess[x].socket = "null"
                             /\ sess[x].player = None /\ sess[x].holder = None
                             /\ ~sess[x].inQueue /\ ~sess[x].kicked
      /\ addSessQueue = <<>> /\ m_QueuedPlayer = <<>>
      /\ \A a \in Accounts : m_sessions[a] = None /\ m_offlineSessions[a] = None
      /\ \A a \in Accounts : ~online[a]
  BY DEF Init, NewSession
<1>2. \A x \in Sessions : ~IsRegistered(x) /\ ~IsOffline(x) /\ ~Waiting(x) /\ ~Listed(x)
  BY <1>1, AccountsAssumption, NoneAssumption DEF IsRegistered, IsOffline, Waiting, Listed
<1>3. InOnePlace
  BY <1>1, <1>2 DEF InOnePlace, Distinct
<1>4. FieldsInv(sess)
  BY <1>1, <1>2 DEF FieldsInv, CharactersPlaced, CharactersApart, OfflineEndsFirst,
                    FlagsFollowList, Successor
<1>5. ClientsKnowTheirPosition /\ NobodyOnlineWithoutSession
  BY <1>1, <1>2 DEF ClientsKnowTheirPosition, NobodyOnlineWithoutSession
<1> QED BY <1>3, <1>4, <1>5 DEF PInv

\* Steps that leave the registry and the loops alone and are gentle.
LEMMA GentleStep ==
  ASSUME PInv, Gentle(sess', sess),
         UNCHANGED <<addSessQueue, m_sessions, m_offlineSessions, m_QueuedPlayer,
                     told, online, pc, todo>>
  PROVE  PInv'
<1>1. FieldsInv(sess')
  BY GentleKeepsFields DEF PInv
<1>2. FieldsInv(sess)'
  BY <1>1 DEF FieldsInv, CharactersPlaced, CharactersApart, OfflineEndsFirst,
              FlagsFollowList, Successor, IsRegistered, IsOffline, Listed
<1>3. InOnePlace'
  BY DEF PInv, InOnePlace, Gentle, GentleAt, Distinct, Waiting, IsRegistered, IsOffline
<1>4. ClientsKnowTheirPosition'
  BY DEF PInv, ClientsKnowTheirPosition, Gentle, GentleAt, IsRegistered, Listed
<1>5. NobodyOnlineWithoutSession'
  BY DEF PInv, NobodyOnlineWithoutSession, Gentle, GentleAt
<1> QED BY <1>2, <1>3, <1>4, <1>5 DEF PInv

\* The steps of the loops that only move on.
LEMMA LoopKeepsPlaces ==
  ASSUME IInv, PInv,
         \/ BeginUpdateSessions \/ EndAdding \/ EndSessions \/ EndUpdateSessions
         \/ \E a \in Accounts : SocketStillOpen(a) \/ OfflineStays(a)
  PROVE  PInv'
<1>1. UNCHANGED <<addSessQueue, m_sessions, m_offlineSessions, m_QueuedPlayer,
                  sess, told, online>>
  BY DEF BeginUpdateSessions, EndAdding, EndSessions, EndUpdateSessions,
         SocketStillOpen, OfflineStays, registry
<1>2. InOnePlace' /\ ClientsKnowTheirPosition' /\ NobodyOnlineWithoutSession'
  BY <1>1 DEF PInv, InOnePlace, ClientsKnowTheirPosition, NobodyOnlineWithoutSession,
              Distinct, Waiting, IsRegistered, IsOffline, Listed
<1>3. CharactersPlaced(sess)' /\ CharactersApart(sess)' /\ FlagsFollowList(sess)'
  BY <1>1 DEF PInv, FieldsInv, CharactersPlaced, CharactersApart, FlagsFollowList,
              Successor, IsRegistered, IsOffline, Listed
<1>4. OfflineEndsFirst(sess)'
  <2> SUFFICES ASSUME NEW x \in Sessions, NEW o \in Sessions, Successor(x, o),
                      sess[x].player # None \/ sess[x].holder # None
               PROVE  /\ sess[o].player = None \/ sess[o].kicked
                      /\ \/ pc' = "sessions" /\ AccountOf[x] \notin todo'
                         \/ pc' = "offline" /\ AccountOf[x] \in todo'
    BY <1>1 DEF OfflineEndsFirst, Successor, IsRegistered, IsOffline
  <2>1. /\ sess[o].player = None \/ sess[o].kicked
        /\ \/ pc = "sessions" /\ AccountOf[x] \notin todo
           \/ pc = "offline" /\ AccountOf[x] \in todo
    BY DEF PInv, FieldsInv, OfflineEndsFirst
  <2>2. /\ m_offlineSessions[AccountOf[x]] = o
        /\ AccountOf[x] \in Accounts
        /\ o # None
    BY AccountsAssumption, NoneAssumption DEF Successor, IsOffline
  <2>3. CASE BeginUpdateSessions \/ EndAdding
    BY <2>1, <2>3 DEF BeginUpdateSessions, EndAdding
  <2>4. CASE EndSessions
    BY <2>1, <2>2, <2>4 DEF EndSessions
  <2>5. CASE EndUpdateSessions
    BY <2>1, <2>5 DEF EndUpdateSessions
  <2>6. ASSUME NEW a \in Accounts, SocketStillOpen(a)
        PROVE  pc' = pc /\ pc = "sessions" /\ todo' \subseteq todo
    BY <2>6 DEF SocketStillOpen
  <2>7. ASSUME NEW a \in Accounts, OfflineStays(a)
        PROVE  pc' = "offline" /\ pc = "offline" /\ AccountOf[x] \in todo'
    <3>1. pc = "offline" /\ pc' = "offline" /\ todo' = todo \ {a}
      BY <2>7 DEF OfflineStays
    <3>2. ~MustEnd(m_offlineSessions[a])
      BY <2>7 DEF OfflineStays
    <3>3. AccountOf[x] # a
      BY <2>1, <2>2, <3>2 DEF MustEnd
    <3> QED BY <2>1, <3>1, <3>3
  <2> QED BY <2>1, <2>3, <2>4, <2>5, <2>6, <2>7
<1> QED BY <1>2, <1>3, <1>4 DEF PInv, FieldsInv

\* Kicks, map updates, closing sockets, passing minutes, StopNow.
LEMMA OtherStepsAreGentle ==
  ASSUME IInv,
         \/ Passing \/ Others
         \/ \E s \in Sessions : CloseSocket(s)
  PROVE  /\ Gentle(sess', sess)
         /\ UNCHANGED <<addSessQueue, m_sessions, m_offlineSessions, m_QueuedPlayer,
                        told, online, pc, todo, cur>>
<1>1. sess \in SessFuns
  BY DEF IInv, TypeOK, SessFuns
<1>2. UNCHANGED <<addSessQueue, m_sessions, m_offlineSessions, m_QueuedPlayer,
                  told, online, pc, todo, cur>>
  BY DEF Passing, OfflineMinutePasses, TolerancePasses, Others, StopNow, Kick,
         MapUpdate, CloseSocket, registry, thread
<1>3. Gentle(sess', sess)
  <2>1. ASSUME NEW s \in Sessions, Kick(s) PROVE Gentle(sess', sess)
    BY <1>1, <2>1, KickIsGentle DEF Kick
  <2>2. ASSUME NEW s \in Sessions, MapUpdate(s) PROVE Gentle(sess', sess)
    BY <1>1, <2>2, FieldsAreGentle DEF MapUpdate
  <2>3. ASSUME NEW s \in Sessions, OfflineMinutePasses(s) PROVE Gentle(sess', sess)
    BY <1>1, <2>3, FieldsAreGentle DEF OfflineMinutePasses
  <2>4. ASSUME NEW s \in Sessions, CloseSocket(s) PROVE Gentle(sess', sess)
    BY <1>1, <2>4, FieldsAreGentle DEF CloseSocket
  <2>5. ASSUME UNCHANGED sess PROVE Gentle(sess', sess)
    BY <2>5 DEF Gentle, GentleAt
  <2> QED BY <2>1, <2>2, <2>3, <2>4, <2>5 DEF Passing, TolerancePasses, Others, StopNow
<1> QED BY <1>2, <1>3

LEMMA OtherStepsKeepPlaces ==
  ASSUME IInv, PInv,
         \/ Passing \/ Others
         \/ \E s \in Sessions : CloseSocket(s)
  PROVE  PInv'
  BY OtherStepsAreGentle, GentleStep

\* KickAll empties the list; every session it could have held is kicked.
LEMMA KickAllKeepsPlaces ==
  ASSUME IInv, PInv, KickAll
  PROVE  PInv'
<1>1. sess \in SessFuns
  BY DEF IInv, TypeOK, SessFuns
<1>2. UNCHANGED <<addSessQueue, m_sessions, m_offlineSessions, told, online, pc, todo>>
  BY DEF KickAll, thread
<1>3. m_QueuedPlayer' = <<>> /\ \A x \in Sessions : ~Listed(x)'
  BY DEF KickAll, Listed
<1>4. \A x \in Sessions : sess'[x] = IF IsRegistered(x) \/ IsOffline(x)
                                     THEN KickPlayer(sess, x, TRUE)[x] ELSE sess[x]
  BY DEF KickAll
<1>5. Gentle(sess', sess)
      /\ \A x \in Sessions : IsRegistered(x) => sess'[x].kicked
  <2>1. \A x \in Sessions : /\ Gentle(KickPlayer(sess, x, TRUE), sess)
                            /\ KickPlayer(sess, x, TRUE)[x].kicked
    BY <1>1, KickIsGentle
  <2>2. ASSUME NEW x \in Sessions
        PROVE  /\ GentleAt(sess', sess, x)
               /\ IsRegistered(x) => sess'[x].kicked
    <3>1. GentleAt(KickPlayer(sess, x, TRUE), sess, x)
      BY <2>1 DEF Gentle, GentleAt
    <3> QED BY <1>4, <2>1, <3>1 DEF GentleAt
  <2> QED BY <2>2 DEF Gentle
<1>6. FieldsInv(sess')
  BY <1>5, GentleKeepsFields DEF PInv
<1>7. CharactersPlaced(sess)' /\ CharactersApart(sess)' /\ OfflineEndsFirst(sess)'
  BY <1>2, <1>6 DEF FieldsInv, CharactersPlaced, CharactersApart, OfflineEndsFirst,
                    Successor, IsRegistered, IsOffline
<1>8. FlagsFollowList(sess)'
  <2>1. \A x \in Sessions : Listed(x) => IsRegistered(x)
    BY DEF IInv, QueueOfRegistered, Listed
  <2>2. \A x \in Sessions : /\ sess'[x].inQueue => sess'[x].kicked
                            /\ sess'[x].kicked => sess'[x].socket # "open"
    BY <1>5, <1>6, <2>1 DEF FieldsInv, FlagsFollowList
  <2> QED BY <1>3, <2>2 DEF FlagsFollowList
<1>9. InOnePlace'
  BY <1>2, <1>5 DEF PInv, InOnePlace, Gentle, GentleAt, Distinct, Waiting, IsRegistered, IsOffline
<1>10. ClientsKnowTheirPosition'
  BY <1>2, <1>3, <1>5 DEF ClientsKnowTheirPosition, IsRegistered
<1>11. NobodyOnlineWithoutSession'
  BY <1>2, <1>5 DEF PInv, NobodyOnlineWithoutSession, Gentle, GentleAt
<1> QED BY <1>7, <1>8, <1>9, <1>10, <1>11 DEF PInv, FieldsInv
-----------------------------------------------------------------------------
(* The steps that create or delete a session outside m_sessions *)

\* Taking the head off addSessQueue.
LEMMA HeadLeaves ==
  ASSUME NEW q \in Seq(Sessions), q # <<>>, Distinct(q)
  PROVE  /\ Distinct(Tail(q))
         /\ InList(q, Head(q))
         /\ \A x : InList(Tail(q), x) <=> InList(q, x) /\ x # Head(q)
<1>1. /\ Head(q) = q[1]
      /\ Tail(q) \in Seq(Sessions)
      /\ Len(Tail(q)) = Len(q) - 1
      /\ \A i \in 1 .. Len(Tail(q)) : Tail(q)[i] = q[i + 1]
  BY HeadTailProperties
<1>2. /\ DOMAIN Tail(q) = 1 .. Len(q) - 1
      /\ DOMAIN q = 1 .. Len(q) /\ Len(q) \in Nat \ {0}
  BY <1>1, EmptySeq
<1>3. InList(q, Head(q))
  BY <1>1, <1>2 DEF InList
<1>4. Distinct(Tail(q))
  <2> SUFFICES ASSUME NEW i \in 1 .. Len(q) - 1, NEW j \in 1 .. Len(q) - 1, i # j
               PROVE  Tail(q)[i] # Tail(q)[j]
    BY <1>2 DEF Distinct
  <2>1. i + 1 # j + 1 /\ i + 1 \in DOMAIN q /\ j + 1 \in DOMAIN q
    BY <1>2
  <2>2. q[i + 1] # q[j + 1]
    BY <2>1 DEF Distinct
  <2> QED BY <1>1, <1>2, <2>2
<1>5. ASSUME NEW x, InList(Tail(q), x) PROVE InList(q, x) /\ x # Head(q)
  <2>1. PICK i \in 1 .. Len(q) - 1 : Tail(q)[i] = x
    BY <1>2, <1>5 DEF InList
  <2>2. i + 1 \in DOMAIN q /\ i + 1 # 1 /\ 1 \in DOMAIN q /\ q[i + 1] = x
    BY <1>1, <1>2, <2>1
  <2> QED BY <1>1, <2>2 DEF InList, Distinct
<1>6. ASSUME NEW x, InList(q, x), x # Head(q) PROVE InList(Tail(q), x)
  <2>1. PICK i \in 1 .. Len(q) : q[i] = x
    BY <1>2, <1>6 DEF InList
  <2>2. i # 1
    BY <1>1, <1>6, <2>1
  <2>3. i - 1 \in 1 .. Len(q) - 1 /\ (i - 1) + 1 = i
    BY <1>2, <2>1, <2>2
  <2>4. Tail(q)[i - 1] = q[i]
    BY <1>1, <2>3
  <2> QED BY <1>2, <2>1, <2>3, <2>4 DEF InList
<1> QED BY <1>3, <1>4, <1>5, <1>6

\* Joining a list at its end.
LEMMA EndJoins ==
  ASSUME NEW q \in Seq(Sessions), NEW s \in Sessions
  PROVE  /\ \A x : InList(Append(q, s), x) <=> InList(q, x) \/ x = s
         /\ Distinct(q) /\ ~InList(q, s) => Distinct(Append(q, s))
<1> DEFINE r == Append(q, s)
<1>1. /\ r \in Seq(Sessions)
      /\ Len(r) = Len(q) + 1
      /\ \A i \in 1 .. Len(q) : r[i] = q[i]
      /\ r[Len(q) + 1] = s
  BY AppendProperties
<1>2. Len(q) \in Nat /\ DOMAIN q = 1 .. Len(q) /\ DOMAIN r = 1 .. Len(q) + 1
  BY <1>1
<1> HIDE DEF r
<1>3. \A x : InList(r, x) <=> InList(q, x) \/ x = s
  <2>1. ASSUME NEW x, InList(r, x) PROVE InList(q, x) \/ x = s
    BY <1>1, <1>2, <2>1 DEF InList
  <2>2. ASSUME NEW x, InList(q, x) PROVE InList(r, x)
    BY <1>1, <1>2, <2>2 DEF InList
  <2>3. InList(r, s)
    BY <1>1, <1>2 DEF InList
  <2> QED BY <2>1, <2>2, <2>3
<1>4. Distinct(q) /\ ~InList(q, s) => Distinct(r)
  BY <1>1, <1>2 DEF Distinct, InList
<1> QED BY <1>3, <1>4 DEF r

\* Waiting is membership.
LEMMA WaitingInList == \A x : Waiting(x) <=> InList(addSessQueue, x)
  BY DEF Waiting, InList

\* Where a session that is in no list has nothing.
LEMMA NowhereHasNothing ==
  ASSUME IInv, PInv, NEW s \in Sessions, ~IsRegistered(s), ~IsOffline(s)
  PROVE  /\ sess[s].player = None /\ sess[s].holder = None
         /\ ~Listed(s)
  BY DEF IInv, QueueOfRegistered, Listed, PInv, FieldsInv, CharactersPlaced

\* A session that has no place gets or loses its fields: what the others have
\* is not disturbed.
LEMMA NewcomerStep ==
  ASSUME IInv, PInv, NEW s \in Sessions, ~IsRegistered(s), ~IsOffline(s),
         \A x \in Sessions : x # s => sess'[x] = sess[x],
         sess'[s].player = None, sess'[s].holder = None,
         ~sess'[s].inQueue, ~sess'[s].kicked,
         UNCHANGED <<m_sessions, m_offlineSessions, m_QueuedPlayer, told, pc, todo>>
  PROVE  FieldsInv(sess)' /\ ClientsKnowTheirPosition'
<1>1. ~Listed(s)
  BY NowhereHasNothing
<1>2. \A x \in Sessions : /\ IsRegistered(x)' <=> IsRegistered(x)
                          /\ IsOffline(x)' <=> IsOffline(x)
                          /\ Listed(x)' <=> Listed(x)
  BY DEF IsRegistered, IsOffline, Listed
<1>3. \A x, o \in Sessions : Successor(x, o)' => Successor(x, o) /\ x # s /\ o # s
  BY <1>2 DEF Successor
<1>4. CharactersPlaced(sess)' /\ FlagsFollowList(sess)'
  BY <1>1, <1>2 DEF PInv, FieldsInv, CharactersPlaced, FlagsFollowList
<1>5. CharactersApart(sess)'
  BY <1>3 DEF PInv, FieldsInv, CharactersApart
<1>6. OfflineEndsFirst(sess)'
  BY <1>3 DEF PInv, FieldsInv, OfflineEndsFirst
<1>7. ClientsKnowTheirPosition'
  BY <1>2 DEF PInv, ClientsKnowTheirPosition
<1> QED BY <1>4, <1>5, <1>6, <1>7 DEF FieldsInv

\* A new session waits in addSessQueue.
LEMMA ConnectKeepsPlaces ==
  ASSUME IInv, PInv, NEW s \in Sessions, Connect(s)
  PROVE  PInv'
<1>1. /\ sess \in SessFuns /\ addSessQueue \in Seq(Sessions)
      /\ online \in [Accounts -> BOOLEAN] /\ AccountOf[s] \in Accounts
  BY AccountsAssumption DEF IInv, TypeOK, SessFuns
<1>2. /\ addSessQueue' = Append(addSessQueue, s)
      /\ online' = [online EXCEPT ![AccountOf[s]] = TRUE]
      /\ UNCHANGED <<m_sessions, m_offlineSessions, m_QueuedPlayer, told, pc, todo>>
  BY DEF Connect, registry, thread
<1>3. /\ \A x \in Sessions : x # s => sess'[x] = sess[x]
      /\ sess'[s].state = "live"
      /\ sess'[s].player = None /\ sess'[s].holder = None
      /\ ~sess'[s].inQueue /\ ~sess'[s].kicked
  BY <1>1 DEF Connect, NewSession, SessFuns
<1>4. ~Waiting(s) /\ ~IsRegistered(s) /\ ~IsOffline(s)
  BY DEF Connect, PInv, InOnePlace
<1>5. FieldsInv(sess)' /\ ClientsKnowTheirPosition'
  BY <1>2, <1>3, <1>4, NewcomerStep
<1>6. InOnePlace'
  <2>1. \A x : Waiting(x)' <=> Waiting(x) \/ x = s
    BY <1>1, <1>2, EndJoins, WaitingInList DEF Waiting, InList
  <2>2. Distinct(addSessQueue)'
    BY <1>1, <1>2, <1>4, EndJoins, WaitingInList DEF PInv, InOnePlace, Distinct
  <2>3. \A x \in Sessions : /\ IsRegistered(x)' <=> IsRegistered(x)
                            /\ IsOffline(x)' <=> IsOffline(x)
    BY <1>2 DEF IsRegistered, IsOffline
  <2> QED BY <1>3, <1>4, <2>1, <2>2, <2>3 DEF PInv, InOnePlace
<1>7. NobodyOnlineWithoutSession'
  <2>1. \A a \in Accounts : online'[a] => a = AccountOf[s] \/ online[a]
    BY <1>1, <1>2
  <2>2. \A x \in Sessions : sess[x].state = "live" => sess'[x].state = "live"
    BY <1>3
  <2> QED BY <1>3, <2>1, <2>2 DEF PInv, NobodyOnlineWithoutSession
<1> QED BY <1>5, <1>6, <1>7 DEF PInv

\* A rejected session has no place and loses nothing.
LEMMA RejectKeepsPlaces ==
  ASSUME IInv, PInv, RejectSession
  PROVE  PInv'
<1> DEFINE s == Head(addSessQueue)
<1>1. /\ sess \in SessFuns /\ addSessQueue \in Seq(Sessions) /\ addSessQueue # <<>>
      /\ online \in [Accounts -> BOOLEAN]
      /\ s \in Sessions /\ AccountOf[s] \in Accounts
  BY NewSessionFacts DEF RejectSession, IInv, TypeOK, SessFuns
<1>2. /\ addSessQueue' = Tail(addSessQueue)
      /\ sess' = Deleted(sess, s)
      /\ online' = [online EXCEPT ![AccountOf[s]] = FALSE]
      /\ UNCHANGED <<m_sessions, m_offlineSessions, m_QueuedPlayer, told, pc, todo>>
  BY DEF RejectSession, registry, thread
<1>3. /\ Distinct(addSessQueue') /\ Waiting(s)
      /\ \A x : Waiting(x)' <=> Waiting(x) /\ x # s
  <2>1. Distinct(addSessQueue)
    BY DEF PInv, InOnePlace
  <2> QED BY <1>1, <1>2, <2>1, HeadLeaves, WaitingInList DEF Waiting, InList
<1> HIDE DEF s
<1>4. /\ \A x \in Sessions : x # s => sess'[x] = sess[x]
      /\ sess'[s].state = "deleted"
      /\ sess'[s].player = None /\ sess'[s].holder = None
      /\ ~sess'[s].inQueue /\ ~sess'[s].kicked
  BY <1>1, <1>2, DeletedFields
<1>5. ~IsRegistered(s) /\ ~IsOffline(s)
  BY <1>1, <1>3 DEF PInv, InOnePlace
<1>6. FieldsInv(sess)' /\ ClientsKnowTheirPosition'
  BY <1>1, <1>2, <1>4, <1>5, NewcomerStep
<1>7. InOnePlace'
  <2>1. \A x \in Sessions : /\ IsRegistered(x)' <=> IsRegistered(x)
                            /\ IsOffline(x)' <=> IsOffline(x)
    BY <1>2 DEF IsRegistered, IsOffline
  <2> QED BY <1>3, <1>4, <1>5, <2>1 DEF PInv, InOnePlace, Distinct
<1>8. NobodyOnlineWithoutSession'
  <2>1. \A a \in Accounts : online'[a] => online[a] /\ a # AccountOf[s]
    BY <1>1, <1>2
  <2> QED BY <1>4, <2>1 DEF PInv, NobodyOnlineWithoutSession
<1> QED BY <1>6, <1>7, <1>8 DEF PInv

\* The end of an offline session takes its character out of the world.
LEMMA OfflineEndsKeepsPlaces ==
  ASSUME IInv, PInv, NEW a \in Accounts, OfflineEnds(a)
  PROVE  PInv'
<1> DEFINE s == m_offlineSessions[a]
<1>1. /\ sess \in SessFuns /\ online \in [Accounts -> BOOLEAN]
      /\ m_offlineSessions \in [Accounts -> Sessions \cup {None}]
      /\ s \in Sessions /\ AccountOf[s] = a
      /\ pc = "offline"
  BY DEF OfflineEnds, IInv, TypeOK, SessFuns, Walk, Keys
<1>2. /\ sess' = Deleted(sess, s)
      /\ m_offlineSessions' = [m_offlineSessions EXCEPT ![a] = None]
      /\ online' = IF m_sessions[a] = None
                   THEN [online EXCEPT ![a] = FALSE] ELSE online
      /\ todo' = todo \ {a}
      /\ UNCHANGED <<addSessQueue, m_sessions, m_QueuedPlayer, told, pc>>
  BY DEF OfflineEnds
<1>3. /\ IsOffline(s)
      /\ \A x \in Sessions : IsOffline(x) /\ AccountOf[x] = a => x = s
  BY <1>1 DEF IsOffline
<1> HIDE DEF s
<1>4. /\ \A x \in Sessions : x # s => sess'[x] = sess[x]
      /\ sess'[s].state = "deleted"
      /\ sess'[s].player = None /\ sess'[s].holder = None
      /\ ~sess'[s].inQueue /\ ~sess'[s].kicked
  BY <1>1, <1>2, DeletedFields
<1>5. ~IsRegistered(s) /\ ~Waiting(s) /\ ~Listed(s)
  BY <1>1, <1>3 DEF PInv, InOnePlace, IInv, QueueOfRegistered, Listed
<1>6. \A x \in Sessions : /\ IsRegistered(x)' <=> IsRegistered(x)
                          /\ IsOffline(x)' <=> IsOffline(x) /\ x # s
                          /\ Listed(x)' <=> Listed(x)
                          /\ Waiting(x)' <=> Waiting(x)
  <2> TAKE x \in Sessions
  <2>1. AccountOf[x] \in Accounts /\ x # None
    BY AccountsAssumption, NoneAssumption
  <2>2. IsOffline(x)' <=> IsOffline(x) /\ x # s
    BY <1>1, <1>2, <1>3, <2>1 DEF IsOffline
  <2> QED BY <1>2, <2>2 DEF IsRegistered, Listed, Waiting
<1>7. \A x, o \in Sessions :
         Successor(x, o)' => Successor(x, o) /\ x # s /\ o # s /\ AccountOf[x] # a
  BY <1>3, <1>5, <1>6 DEF Successor
<1>8. CharactersPlaced(sess)' /\ FlagsFollowList(sess)'
  BY <1>4, <1>5, <1>6 DEF PInv, FieldsInv, CharactersPlaced, FlagsFollowList
<1>9. CharactersApart(sess)'
  BY <1>4, <1>7 DEF PInv, FieldsInv, CharactersApart
<1>10. OfflineEndsFirst(sess)'
  BY <1>2, <1>4, <1>7 DEF PInv, FieldsInv, OfflineEndsFirst
<1>11. ClientsKnowTheirPosition'
  BY <1>2, <1>4, <1>5, <1>6 DEF PInv, ClientsKnowTheirPosition
<1>12. InOnePlace'
  BY <1>2, <1>3, <1>4, <1>5, <1>6 DEF PInv, InOnePlace, Distinct
<1>13. NobodyOnlineWithoutSession'
  <2> SUFFICES ASSUME NEW b \in Accounts, online'[b]
               PROVE  \E x \in Sessions : AccountOf[x] = b /\ sess'[x].state = "live"
    BY DEF NobodyOnlineWithoutSession
  <2>1. online[b] /\ (b = a => m_sessions[a] # None)
    BY <1>1, <1>2
  <2>2. CASE b = a
    <3>1. /\ m_sessions[a] \in Sessions /\ AccountOf[m_sessions[a]] = a
          /\ IsRegistered(m_sessions[a])
      BY <2>1, <2>2 DEF IInv, TypeOK, Keys, IsRegistered
    <3>2. sess[m_sessions[a]].state = "live" /\ m_sessions[a] # s
      BY <1>5, <3>1 DEF PInv, InOnePlace
    <3> QED BY <1>4, <2>2, <3>1, <3>2
  <2>3. CASE b # a
    BY <1>1, <1>4, <2>1, <2>3 DEF PInv, NobodyOnlineWithoutSession
  <2> QED BY <2>2, <2>3
<1> QED BY <1>8, <1>9, <1>10, <1>11, <1>12, <1>13 DEF PInv, FieldsInv

\* A session that stays after its Update.
LEMMA UpdateFacts ==
  ASSUME IInv, PInv, cur # None,
         NEW S1 \in Packets(cur), NEW S \in Callbacks(S1, cur)
  PROVE  /\ cur \in Sessions /\ InUpdate(cur) /\ AccountOf[cur] \in Accounts
         /\ S \in SessFuns /\ Lives(S, sess) /\ FieldsInv(S)
<1>1. cur \in Sessions /\ InUpdate(cur) /\ AccountOf[cur] \in Accounts /\ TypeOK
  BY AccountsAssumption DEF IInv, TypeOK, Walk, InUpdate
<1>2. S1 \in SessFuns /\ Lives(S1, sess) /\ FieldsInv(S1)
  BY <1>1, PacketsType, PacketsKeepFields DEF PInv
<1>3. S \in SessFuns /\ Lives(S, S1) /\ FieldsInv(S)
  BY <1>1, <1>2, CallbacksType, CallbacksKeepFields DEF PInv
<1> QED BY <1>1, <1>2, <1>3 DEF Lives

LEMMA UpdateKeepsPlaces ==
  ASSUME IInv, PInv, UpdateKeeps
  PROVE  PInv'
<1>1. /\ cur # None
      /\ UNCHANGED <<addSessQueue, m_sessions, m_offlineSessions, m_QueuedPlayer,
                     told, pc, todo>>
  BY DEF UpdateKeeps, registry
<1>2. PICK S1 \in Packets(cur) : \E S \in Callbacks(S1, cur) :
          sess' = S /\ online' = OnlineAfter(S1, S, cur)
  BY DEF UpdateKeeps
<1>3. PICK S \in Callbacks(S1, cur) : sess' = S /\ online' = OnlineAfter(S1, S, cur)
  BY <1>2
<1>4. /\ cur \in Sessions /\ InUpdate(cur) /\ AccountOf[cur] \in Accounts
      /\ S \in SessFuns /\ Lives(S, sess) /\ FieldsInv(S)
  BY <1>1, UpdateFacts
<1>5. FieldsInv(sess)'
  BY <1>1, <1>3, <1>4 DEF FieldsInv, CharactersPlaced, CharactersApart,
        OfflineEndsFirst, FlagsFollowList, Successor, IsRegistered, IsOffline, Listed
<1>6. InOnePlace'
  BY <1>1, <1>3, <1>4 DEF PInv, InOnePlace, Lives, Distinct, Waiting,
                          IsRegistered, IsOffline
<1>7. ClientsKnowTheirPosition'
  BY <1>1, <1>3, <1>4 DEF PInv, ClientsKnowTheirPosition, Lives, IsRegistered, Listed
<1>8. NobodyOnlineWithoutSession'
  <2>1. sess[cur].state = "live"
    BY <1>4 DEF PInv, InOnePlace, InUpdate
  <2>2. \A a \in Accounts : online'[a] => online[a] \/ a = AccountOf[cur]
    BY <1>3, <1>4 DEF OnlineAfter, IInv, TypeOK
  <2> QED BY <1>3, <1>4, <2>1, <2>2 DEF PInv, NobodyOnlineWithoutSession, Lives
<1> QED BY <1>5, <1>6, <1>7, <1>8 DEF PInv
-----------------------------------------------------------------------------
(* The steps through which a session leaves m_sessions *)

\* A session with a character finds no offline session of its account when it
\* is about to go offline itself.
LEMMA OfflineIsFree ==
  ASSUME IInv, PInv, NEW a \in Accounts, m_sessions[a] # None,
         sess[m_sessions[a]].player # None,
         pc = "add" \/ (pc = "sessions" /\ a \in todo)
  PROVE  m_offlineSessions[a] = None
<1> SUFFICES ASSUME m_offlineSessions[a] # None PROVE FALSE
  OBVIOUS
<1>1. /\ m_sessions[a] \in Sessions /\ m_offlineSessions[a] \in Sessions
      /\ AccountOf[m_sessions[a]] = a /\ AccountOf[m_offlineSessions[a]] = a
  BY DEF IInv, TypeOK, Keys
<1>2. Successor(m_sessions[a], m_offlineSessions[a])
  BY <1>1 DEF Successor, IsRegistered, IsOffline
<1> QED BY <1>1, <1>2 DEF PInv, FieldsInv, OfflineEndsFirst

\* The list, the flags and the positions when s leaves m_sessions.
LEMMA DepartureKeepsQueue ==
  ASSUME IInv, PInv, NEW s \in Sessions, IsRegistered(s), NEW S \in SessFuns,
         FlagsFollowListBut(S, s), Unregister(s, S),
         \A x \in Sessions : x # s /\ sess[x].kicked => S[x].kicked
  PROVE  /\ FlagsFollowList(sess)' /\ ClientsKnowTheirPosition'
         /\ \A x \in Sessions : /\ sess'[x].state = S[x].state
                                /\ sess'[x].player = S[x].player
                                /\ sess'[x].holder = S[x].holder
                                /\ sess'[x].kicked = S[x].kicked
         /\ \A x \in Sessions : IsRegistered(x)' <=> IsRegistered(x) /\ x # s
<1>1. /\ m_sessions' = [m_sessions EXCEPT ![AccountOf[s]] = None]
      /\ m_QueuedPlayer' = QueueAfter(s)
      /\ told' = ToldAfter(s)
      /\ sess' = FlagsAfter(S, s)
  BY DEF Unregister
<1>2. \A x \in Sessions : IsRegistered(x)' <=> IsRegistered(x) /\ x # s
  <2> TAKE x \in Sessions
  <2>1. /\ AccountOf[x] \in Accounts /\ x # None /\ s # None
        /\ m_sessions \in [Accounts -> Sessions \cup {None}]
    BY AccountsAssumption, NoneAssumption DEF IInv, TypeOK
  <2> QED BY <1>1, <2>1 DEF IsRegistered
<1>3. \A x : Listed(x)' <=> InList(QueueAfter(s), x)
  BY <1>1 DEF Listed, InList
<1>4. FlagsFollowList(sess)'
  <2>1. FlagsFollow(FlagsAfter(S, s), QueueAfter(s))
    BY FlagsAfterFollow
  <2> QED BY <1>1, <1>3, <2>1 DEF FlagsFollow, FlagsFollowList
<1>5. \A x \in Sessions : /\ sess'[x].state = S[x].state
                          /\ sess'[x].player = S[x].player
                          /\ sess'[x].holder = S[x].holder
                          /\ sess'[x].kicked = S[x].kicked
  <2> TAKE x \in Sessions
  <2>1. /\ FlagsAfter(S, s)[x].state = S[x].state
        /\ FlagsAfter(S, s)[x].player = S[x].player
        /\ FlagsAfter(S, s)[x].holder = S[x].holder
        /\ FlagsAfter(S, s)[x].kicked = S[x].kicked
    BY FlagsKeep
  <2> QED BY <1>1, <2>1
<1>6. ClientsKnowTheirPosition'
  <2>1. /\ \A i \in DOMAIN QueueAfter(s) : ToldAfter(s)[QueueAfter(s)[i]] = i
        /\ \A x \in Sessions : Accepts(s) /\ x = Head(Unlisted(s))
                                   => ToldAfter(s)[x] = 0
        /\ \A x \in Sessions : ~Listed(x) => ToldAfter(s)[x] = told[x]
    BY ToldAfterIsTrue DEF PInv
  <2>2. ASSUME NEW x \in Sessions, IsRegistered(x)', ~Listed(x)', ~sess'[x].kicked
        PROVE  told'[x] = 0
    <3>1. IsRegistered(x) /\ x # s /\ ~sess[x].kicked
      BY <1>2, <1>5, <2>2
    <3>2. ~Listed(x) \/ (Accepts(s) /\ x = Head(Unlisted(s)))
      BY <1>3, <2>2, <3>1, QueueAfterMembers
    <3> QED BY <1>1, <2>1, <3>1, <3>2 DEF PInv, ClientsKnowTheirPosition
  <2> QED BY <1>1, <2>1, <2>2 DEF ClientsKnowTheirPosition
<1> QED BY <1>2, <1>4, <1>5, <1>6

\* A session that goes offline keeps its character.
LEMMA GoOfflineKeepsPlaces ==
  ASSUME IInv, PInv, NEW a \in Accounts, GoOffline(a)
  PROVE  PInv'
<1> DEFINE s == m_sessions[a]
           S == LoseSocket(sess, s)
<1>1. /\ sess \in SessFuns
      /\ m_offlineSessions \in [Accounts -> Sessions \cup {None}]
      /\ s \in Sessions /\ AccountOf[s] = a /\ IsRegistered(s)
      /\ s # None
  BY NoneAssumption DEF GoOffline, IInv, TypeOK, SessFuns, Walk, Keys, IsRegistered
<1>2. sess[s].player # None /\ pc = "sessions" /\ a \in todo
  BY DEF GoOffline, HandleSocketClosed
<1>3. m_offlineSessions[a] = None
  BY <1>1, <1>2, OfflineIsFree
<1>4. /\ Unregister(s, S)
      /\ m_offlineSessions' = [m_offlineSessions EXCEPT ![a] = s]
      /\ todo' = todo \ {a}
      /\ UNCHANGED <<addSessQueue, online, pc>>
  BY <1>3 DEF GoOffline
<1> HIDE DEF s
<1>5. Gentle(S, sess) /\ S \in SessFuns
  BY <1>1, FieldsAreGentle, LoseSocketType
<1>6. FieldsInv(S)
  BY <1>5, GentleKeepsFields DEF PInv
<1> HIDE DEF S
<1>7. /\ FlagsFollowList(sess)' /\ ClientsKnowTheirPosition'
      /\ \A x \in Sessions : /\ sess'[x].state = S[x].state
                             /\ sess'[x].player = S[x].player
                             /\ sess'[x].holder = S[x].holder
                             /\ sess'[x].kicked = S[x].kicked
      /\ \A x \in Sessions : IsRegistered(x)' <=> IsRegistered(x) /\ x # s
  <2>1. FlagsFollowListBut(S, s)
    BY <1>6 DEF FieldsInv, FlagsFollowList, FlagsFollowListBut
  <2>2. \A x \in Sessions : x # s /\ sess[x].kicked => S[x].kicked
    BY <1>5 DEF Gentle, GentleAt
  <2> QED BY <1>1, <1>4, <1>5, <2>1, <2>2, DepartureKeepsQueue
<1>8. \A x \in Sessions : /\ IsOffline(x)' <=> IsOffline(x) \/ x = s
                          /\ Waiting(x)' <=> Waiting(x)
  <2> TAKE x \in Sessions
  <2>1. AccountOf[x] \in Accounts /\ x # None
    BY AccountsAssumption, NoneAssumption
  <2>2. IsOffline(x)' <=> IsOffline(x) \/ x = s
    BY <1>1, <1>3, <1>4, <2>1 DEF IsOffline
  <2> QED BY <1>4, <2>2 DEF Waiting
<1>9. \A x, o \in Sessions : Successor(x, o)' =>
          Successor(x, o) /\ x # s /\ o # s /\ AccountOf[x] # a
  <2> SUFFICES ASSUME NEW x \in Sessions, NEW o \in Sessions, Successor(x, o)'
               PROVE  Successor(x, o) /\ x # s /\ o # s /\ AccountOf[x] # a
    OBVIOUS
  <2>1. IsRegistered(x) /\ x # s /\ AccountOf[x] = AccountOf[o]
    BY <1>7 DEF Successor
  <2>2. AccountOf[x] # a
    BY <1>1, <2>1 DEF IsRegistered
  <2> QED BY <1>1, <1>8, <2>1, <2>2 DEF Successor
<1>10. CharactersPlaced(sess)'
  <2>1. sess[s].holder = None
    BY <1>1, <1>2 DEF PInv, FieldsInv, CharactersPlaced
  <2>2. S[s].holder = None
    BY <1>1, <1>5, <2>1 DEF Gentle, GentleAt
  <2>3. CharactersPlaced(S)
    BY <1>6 DEF FieldsInv
  <2> QED BY <1>7, <1>8, <2>2, <2>3 DEF CharactersPlaced
<1>11. CharactersApart(sess)'
  BY <1>6, <1>7, <1>9 DEF FieldsInv, CharactersApart
<1>12. OfflineEndsFirst(sess)'
  BY <1>4, <1>6, <1>7, <1>9 DEF FieldsInv, OfflineEndsFirst
<1>13. InOnePlace'
  <2>1. ~Waiting(s)
    BY <1>1 DEF PInv, InOnePlace
  <2> QED BY <1>1, <1>4, <1>5, <1>7, <1>8, <2>1 DEF PInv, InOnePlace, Gentle, GentleAt, Distinct
<1>14. NobodyOnlineWithoutSession'
  BY <1>4, <1>5, <1>7 DEF PInv, NobodyOnlineWithoutSession, Gentle, GentleAt
<1> QED BY <1>7, <1>10, <1>11, <1>12, <1>13, <1>14 DEF PInv, FieldsInv

\* A session that Update gives up takes its character out of the world.
LEMMA UpdateRemovesKeepsPlaces ==
  ASSUME IInv, PInv, UpdateRemoves
  PROVE  PInv'
<1>1. /\ cur # None
      /\ UNCHANGED <<addSessQueue, m_offlineSessions, pc, todo>>
  BY DEF UpdateRemoves
<1>2. PICK S1 \in Packets(cur) : \E S \in Callbacks(S1, cur) :
          /\ Unregister(cur, Deleted(S, cur))
          /\ online' = IF m_offlineSessions[AccountOf[cur]] = None
                       THEN [online EXCEPT ![AccountOf[cur]] = FALSE]
                       ELSE OnlineAfter(S1, S, cur)
  BY DEF UpdateRemoves
<1>3. PICK U \in Callbacks(S1, cur) :
          /\ Unregister(cur, Deleted(U, cur))
          /\ online' = IF m_offlineSessions[AccountOf[cur]] = None
                       THEN [online EXCEPT ![AccountOf[cur]] = FALSE]
                       ELSE OnlineAfter(S1, U, cur)
  BY <1>2
<1>4. /\ cur \in Sessions /\ InUpdate(cur) /\ AccountOf[cur] \in Accounts
      /\ U \in SessFuns /\ Lives(U, sess) /\ FieldsInv(U)
  BY <1>1, UpdateFacts
<1> DEFINE S == Deleted(U, cur)
<1>5. /\ S \in SessFuns
      /\ \A x \in Sessions : x # cur => S[x] = U[x]
      /\ S[cur].state = "deleted"
      /\ S[cur].player = None /\ S[cur].holder = None
      /\ ~S[cur].inQueue /\ ~S[cur].kicked
  BY <1>4, DeletedType, DeletedFields
<1>6. Unregister(cur, S)
  BY <1>3
<1> HIDE DEF S
<1>7. /\ FlagsFollowList(sess)' /\ ClientsKnowTheirPosition'
      /\ \A x \in Sessions : /\ sess'[x].state = S[x].state
                             /\ sess'[x].player = S[x].player
                             /\ sess'[x].holder = S[x].holder
                             /\ sess'[x].kicked = S[x].kicked
      /\ \A x \in Sessions : IsRegistered(x)' <=> IsRegistered(x) /\ x # cur
  <2>1. FlagsFollowListBut(S, cur)
    BY <1>4, <1>5 DEF FieldsInv, FlagsFollowList, FlagsFollowListBut
  <2>2. \A x \in Sessions : x # cur /\ sess[x].kicked => S[x].kicked
    BY <1>4, <1>5 DEF Lives
  <2> QED BY <1>4, <1>5, <1>6, <2>1, <2>2, DepartureKeepsQueue DEF InUpdate
<1>8. \A x \in Sessions : /\ IsOffline(x)' <=> IsOffline(x)
                          /\ Waiting(x)' <=> Waiting(x)
  BY <1>1 DEF IsOffline, Waiting
<1>9. ~IsOffline(cur) /\ ~Waiting(cur)
  BY <1>4 DEF InUpdate, PInv, InOnePlace
<1>10. \A x, o \in Sessions : Successor(x, o)' =>
          Successor(x, o) /\ x # cur /\ o # cur
  BY <1>7, <1>8, <1>9 DEF Successor
<1>11. CharactersPlaced(sess)'
  BY <1>4, <1>5, <1>7, <1>8 DEF FieldsInv, CharactersPlaced
<1>12. CharactersApart(sess)'
  BY <1>4, <1>5, <1>7, <1>10 DEF FieldsInv, CharactersApart
<1>13. OfflineEndsFirst(sess)'
  BY <1>1, <1>4, <1>5, <1>7, <1>10 DEF FieldsInv, OfflineEndsFirst
<1>14. InOnePlace'
  BY <1>1, <1>4, <1>5, <1>7, <1>8, <1>9 DEF PInv, InOnePlace, Lives, Distinct
<1>15. NobodyOnlineWithoutSession'
  <2> SUFFICES ASSUME NEW b \in Accounts, online'[b]
               PROVE  \E x \in Sessions : AccountOf[x] = b /\ sess'[x].state = "live"
    BY DEF NobodyOnlineWithoutSession
  <2> DEFINE o == m_offlineSessions[AccountOf[cur]]
  <2>1. CASE b = AccountOf[cur]
    <3>1. o # None
      BY <1>3, <1>4, <2>1 DEF IInv, TypeOK
    <3>2. o \in Sessions /\ AccountOf[o] = b /\ IsOffline(o)
      BY <1>4, <2>1, <3>1 DEF IInv, TypeOK, Keys, IsOffline
    <3>3. sess[o].state = "live" /\ o # cur
      BY <1>9, <3>2 DEF PInv, InOnePlace
    <3>4. sess'[o].state = "live"
      BY <1>4, <1>5, <1>7, <3>2, <3>3 DEF Lives
    <3> QED BY <3>2, <3>4
  <2>2. CASE b # AccountOf[cur]
    <3>1. online[b]
      BY <1>3, <1>4, <2>2 DEF OnlineAfter, IInv, TypeOK
    <3>2. PICK x \in Sessions : AccountOf[x] = b /\ sess[x].state = "live"
      BY <3>1 DEF PInv, NobodyOnlineWithoutSession
    <3>3. sess'[x].state = "live"
      BY <1>4, <1>5, <1>7, <2>2, <3>2 DEF Lives
    <3> QED BY <3>2, <3>3
  <2> QED BY <2>1, <2>2
<1> QED BY <1>7, <1>11, <1>12, <1>13, <1>14, <1>15 DEF PInv, FieldsInv
-----------------------------------------------------------------------------
(* The steps through which a session enters m_sessions *)

\* What a session that enters leaves behind: the queue's flags and positions
\* are true again, and no other field has changed.
Joined(s, S, q, t) ==
    /\ FlagsFollowList(sess)'
    /\ \A i \in DOMAIN m_QueuedPlayer' : told'[m_QueuedPlayer'[i]] = i
    /\ ~Listed(s)' => told'[s] = 0
    /\ \A x \in Sessions : x # s => /\ told'[x] = t[x]
                                    /\ Listed(x)' <=> InList(q, x)
    /\ \A x \in Sessions : /\ sess'[x].state = S[x].state
                           /\ sess'[x].player = S[x].player
                           /\ sess'[x].holder = S[x].holder
                           /\ sess'[x].kicked = S[x].kicked
    /\ \A x \in Sessions : IsRegistered(x)' <=>
          x = s \/ (IsRegistered(x) /\ AccountOf[x] # AccountOf[s])

\* What Join writes, on top of the fields, list and positions it finds.
LEMMA JoinKeepsQueue ==
  ASSUME IInv, NEW s \in Sessions, NEW others, NEW S \in SessFuns,
         NEW q \in Seq(Sessions), NEW t \in [Sessions -> Int], NEW d,
         Join(s, others, S, q, t, d),
         ~InList(q, s), S[s].player = None, S[s].holder = None,
         FlagsFollow(S, q), \A i \in DOMAIN q : t[q[i]] = i
  PROVE  Joined(s, S, q, t)
<1> DEFINE w == Waits(s, others, d)
           r == Append(q, s)
<1>1. /\ m_sessions' = [m_sessions EXCEPT ![AccountOf[s]] = s]
      /\ m_QueuedPlayer' = IF w THEN r ELSE q
      /\ sess' = [S EXCEPT ![s].inQueue = w]
      /\ told' = [t EXCEPT ![s] = IF w THEN Len(q) + 1 ELSE 0]
  BY JoinExpanded
<1>2. w \in BOOLEAN
  BY DEF Waits
<1> HIDE DEF w
<1>3. \A x \in Sessions : IsRegistered(x)' <=>
               x = s \/ (IsRegistered(x) /\ AccountOf[x] # AccountOf[s])
  <2> TAKE x \in Sessions
  <2>1. /\ AccountOf[x] \in Accounts /\ AccountOf[s] \in Accounts
        /\ m_sessions \in [Accounts -> Sessions \cup {None}]
    BY AccountsAssumption DEF IInv, TypeOK
  <2> QED BY <1>1, <2>1 DEF IsRegistered
<1>4. /\ \A x \in Sessions : x # s => sess'[x] = S[x]
      /\ sess'[s].inQueue = w
      /\ sess'[s].state = S[s].state
      /\ sess'[s].player = S[s].player
      /\ sess'[s].holder = S[s].holder
      /\ sess'[s].kicked = S[s].kicked
      /\ sess'[s].socket = S[s].socket
  <2>1. S[s] \in SessionRec
    BY FieldValues
  <2> QED BY <1>1, <2>1 DEF SessFuns, SessionRec
<1>5. \A x : Listed(x)' <=> InList(q, x) \/ (w /\ x = s)
  <2>1. \A x : Listed(x)' <=> InList(m_QueuedPlayer', x)
    BY DEF Listed, InList
  <2>2. \A x : InList(r, x) <=> InList(q, x) \/ x = s
    BY EndJoins
  <2> HIDE DEF r
  <2> QED BY <1>1, <2>1, <2>2
<1>6. FlagsFollowList(sess)'
  <2> SUFFICES ASSUME NEW x \in Sessions
               PROVE  /\ Listed(x)' => /\ sess'[x].inQueue
                                       /\ sess'[x].player = None
                                       /\ sess'[x].holder = None
                      /\ sess'[x].inQueue => Listed(x)' \/ sess'[x].kicked
                      /\ sess'[x].kicked => sess'[x].socket # "open"
    BY DEF FlagsFollowList
  <2>1. CASE x = s
    BY <1>2, <1>4, <1>5, <2>1 DEF FlagsFollow
  <2>2. CASE x # s
    BY <1>4, <1>5, <2>2 DEF FlagsFollow
  <2> QED BY <2>1, <2>2
<1>7. /\ \A x \in Sessions : x # s => told'[x] = t[x]
      /\ told'[s] = IF w THEN Len(q) + 1 ELSE 0
  BY <1>1
<1>8. \A i \in DOMAIN m_QueuedPlayer' : told'[m_QueuedPlayer'[i]] = i
  <2>1. \A i \in DOMAIN q : q[i] # s /\ q[i] \in Sessions /\ told'[q[i]] = i
    BY <1>7 DEF InList
  <2>2. CASE w
    <3>1. /\ r \in Seq(Sessions)
          /\ Len(r) = Len(q) + 1
          /\ \A i \in 1 .. Len(q) : r[i] = q[i]
          /\ r[Len(q) + 1] = s
      BY AppendProperties
    <3>2. DOMAIN r = 1 .. Len(q) + 1 /\ DOMAIN q = 1 .. Len(q) /\ Len(q) \in Nat
      BY <3>1
    <3>3. m_QueuedPlayer' = r /\ told'[s] = Len(q) + 1
      BY <1>1, <1>7, <2>2
    <3> HIDE DEF r
    <3> SUFFICES ASSUME NEW i \in 1 .. Len(q) + 1 PROVE told'[r[i]] = i
      BY <3>2, <3>3
    <3>4. CASE i \in 1 .. Len(q)
      BY <2>1, <3>1, <3>2, <3>4
    <3>5. CASE i = Len(q) + 1
      BY <3>1, <3>3, <3>5
    <3> QED BY <3>2, <3>4, <3>5
  <2>3. CASE ~w
    BY <1>1, <2>1, <2>3
  <2> QED BY <2>2, <2>3
<1> QED BY <1>3, <1>4, <1>5, <1>6, <1>7, <1>8 DEF Joined

\* The head of addSessQueue enters m_sessions, where it plays nothing yet.
LEMMA EnteringKeepsPlaces ==
  ASSUME IInv, PInv, addSessQueue # <<>>, pc = "add",
         addSessQueue' = Tail(addSessQueue),
         UNCHANGED <<online, pc, todo>>,
         FlagsFollowList(sess)',
         \A i \in DOMAIN m_QueuedPlayer' : told'[m_QueuedPlayer'[i]] = i,
         NEW s, s = Head(addSessQueue),
         NEW old, old = m_sessions[AccountOf[s]],
         \A x \in Sessions : IsRegistered(x)' <=>
             x = s \/ (IsRegistered(x) /\ AccountOf[x] # AccountOf[s]),
         \A x \in Sessions : x # old =>
             /\ IsOffline(x)' <=> IsOffline(x)
             /\ sess'[x].state = sess[x].state
             /\ sess'[x].player = sess[x].player
             /\ sess'[x].holder = sess[x].holder
             /\ sess'[x].kicked = sess[x].kicked,
         ~Listed(s)' => told'[s] = 0,
         \A x \in Sessions :
             /\ IsRegistered(x) /\ AccountOf[x] # AccountOf[s]
             /\ ~Listed(x)' /\ ~sess[x].kicked
             => told'[x] = 0,
         old # None =>
             /\ sess'[old].holder = None
             /\ IsOffline(old)' => /\ sess'[old].state = "live"
                                   /\ sess'[old].player = sess[old].player
             /\ ~IsOffline(old)' => /\ sess'[old].state = "deleted"
                                    /\ sess'[old].player = None
  PROVE  PInv'
<1>1. /\ addSessQueue \in Seq(Sessions)
      /\ s \in Sessions /\ AccountOf[s] \in Accounts
      /\ old \in Sessions \cup {None}
  BY NewSessionFacts DEF IInv, TypeOK
<1>2. /\ Distinct(addSessQueue') /\ Waiting(s)
      /\ \A x : Waiting(x)' <=> Waiting(x) /\ x # s
  <2>1. Distinct(addSessQueue)
    BY DEF PInv, InOnePlace
  <2>2. /\ Distinct(Tail(addSessQueue))
        /\ InList(addSessQueue, s)
        /\ \A x : InList(Tail(addSessQueue), x) <=> InList(addSessQueue, x) /\ x # s
    BY <1>1, <2>1, HeadLeaves
  <2>3. \A x : Waiting(x)' <=> InList(Tail(addSessQueue), x)
    BY DEF Waiting, InList
  <2> QED BY <2>2, <2>3, WaitingInList
<1>3. ~IsRegistered(s) /\ ~IsOffline(s) /\ sess[s].state = "live" /\ s # old
  <2>1. ~IsRegistered(s) /\ ~IsOffline(s) /\ sess[s].state = "live"
    BY <1>1, <1>2 DEF PInv, InOnePlace
  <2>2. s # old
    BY <2>1 DEF IsRegistered
  <2> QED BY <2>1, <2>2
<1>4. sess[s].player = None /\ sess[s].holder = None
  BY <1>1, <1>3, NowhereHasNothing
<1>6. /\ old # None => IsRegistered(old) /\ AccountOf[old] = AccountOf[s]
                       /\ ~Waiting(old)
      /\ \A x \in Sessions : IsRegistered(x) =>
             (x = old <=> AccountOf[x] = AccountOf[s])
  <2>1. old # None => AccountOf[old] = AccountOf[s]
    BY <1>1 DEF IInv, Keys
  <2>2. old # None => IsRegistered(old)
    BY <2>1 DEF IsRegistered
  <2>3. old # None => ~Waiting(old)
    BY <1>1, <2>2 DEF PInv, InOnePlace
  <2>4. \A x \in Sessions : IsRegistered(x) => (x = old <=> AccountOf[x] = AccountOf[s])
    BY <2>1, NoneAssumption DEF IsRegistered
  <2> QED BY <2>1, <2>2, <2>3, <2>4
<1>7. InOnePlace'
  <2> SUFFICES ASSUME NEW x \in Sessions
               PROVE  /\ sess'[x].state = "live" <=>
                            Waiting(x)' \/ IsRegistered(x)' \/ IsOffline(x)'
                      /\ ~(Waiting(x)' /\ IsRegistered(x)')
                      /\ ~(IsOffline(x)' /\ (Waiting(x)' \/ IsRegistered(x)'))
    BY <1>2 DEF InOnePlace, Distinct
  <2>1. CASE x = s
    BY <1>2, <1>3, <2>1
  <2>2. CASE x = old
    <3>1. x # None
      BY NoneAssumption
    <3> QED BY <1>1, <1>2, <1>3, <1>6, <2>2, <3>1
  <2>3. CASE x # s /\ x # old
    BY <1>2, <1>6, <2>3 DEF PInv, InOnePlace
  <2> QED BY <2>1, <2>2, <2>3
<1>8. CharactersPlaced(sess)'
  <2> SUFFICES ASSUME NEW x \in Sessions
               PROVE  /\ sess'[x].player # None =>
                            /\ OwnerOf[sess'[x].player] = AccountOf[x]
                            /\ IsRegistered(x)' \/ IsOffline(x)'
                      /\ sess'[x].holder # None =>
                            /\ OwnerOf[sess'[x].holder] = AccountOf[x]
                            /\ IsRegistered(x)'
                            /\ sess'[x].player = None
    BY DEF CharactersPlaced
  <2>1. CASE x = old
    <3>1. x # None
      BY NoneAssumption
    <3> QED BY <2>1, <3>1 DEF PInv, FieldsInv, CharactersPlaced
  <2>2. CASE x # old
    BY <1>6, <2>2 DEF PInv, FieldsInv, CharactersPlaced
  <2> QED BY <2>1, <2>2
<1>9. ASSUME NEW x \in Sessions, NEW o \in Sessions, Successor(x, o)', x # s
      PROVE  Successor(x, o) /\ x # old /\ o # old
  <2>1. IsRegistered(x) /\ AccountOf[x] # AccountOf[s]
    BY <1>9 DEF Successor
  <2>2. AccountOf[o] = AccountOf[x] /\ IsOffline(o)'
    BY <1>9 DEF Successor
  <2>3. x # old /\ o # old
    BY <1>6, <2>1, <2>2, NoneAssumption
  <2> QED BY <2>1, <2>2, <2>3 DEF Successor
<1>10. sess'[s].player = None /\ sess'[s].holder = None
  BY <1>1, <1>3, <1>4
<1>11. CharactersApart(sess)'
  <2> SUFFICES ASSUME NEW x \in Sessions, NEW o \in Sessions,
                      Successor(x, o)', sess'[o].player # None
               PROVE  sess'[x].player # sess'[o].player
                      /\ sess'[x].holder # sess'[o].player
    BY DEF CharactersApart
  <2>1. CASE x = s
    BY <1>10, <2>1
  <2>2. CASE x # s
    BY <1>9, <2>2 DEF PInv, FieldsInv, CharactersApart
  <2> QED BY <2>1, <2>2
<1>12. OfflineEndsFirst(sess)'
  <2> SUFFICES ASSUME NEW x \in Sessions, NEW o \in Sessions, Successor(x, o)',
                      sess'[x].player # None \/ sess'[x].holder # None
               PROVE  FALSE
    BY DEF OfflineEndsFirst
  <2>1. x # s
    BY <1>10
  <2>2. Successor(x, o) /\ x # old
    BY <1>9, <2>1
  <2>3. sess[x].player # None \/ sess[x].holder # None
    BY <2>2
  <2> QED BY <2>2, <2>3 DEF PInv, FieldsInv, OfflineEndsFirst
<1>13. ClientsKnowTheirPosition'
  <2>1. ASSUME NEW x \in Sessions, IsRegistered(x)', ~Listed(x)', ~sess'[x].kicked
        PROVE  told'[x] = 0
    <3>1. CASE x = s
      BY <2>1, <3>1
    <3>2. CASE x # s
      BY <1>6, <2>1, <3>2
    <3> QED BY <3>1, <3>2
  <2> QED BY <2>1 DEF ClientsKnowTheirPosition
<1>14. NobodyOnlineWithoutSession'
  <2> SUFFICES ASSUME NEW b \in Accounts, online[b]
               PROVE  \E x \in Sessions : AccountOf[x] = b /\ sess'[x].state = "live"
    BY DEF NobodyOnlineWithoutSession
  <2>1. PICK x \in Sessions : AccountOf[x] = b /\ sess[x].state = "live"
    BY DEF PInv, NobodyOnlineWithoutSession
  <2>2. CASE b = AccountOf[s]
    BY <1>1, <1>3, <2>2
  <2>3. CASE b # AccountOf[s]
    <3>1. x # old
      BY <1>6, <2>1, <2>3, NoneAssumption
    <3> QED BY <2>1, <3>1
  <2> QED BY <2>2, <2>3
<1> QED BY <1>7, <1>8, <1>11, <1>12, <1>13, <1>14 DEF PInv, FieldsInv
\* A session of an account that is not connected.
LEMMA AddSessionKeepsPlaces ==
  ASSUME IInv, PInv, AddSession,
         NEW s, s = Head(addSessQueue), NEW old, old = m_sessions[AccountOf[s]]
  PROVE  PInv'
<1> DEFINE n == GetActiveAndQueuedSessionCount
<1>1. /\ addSessQueue # <<>> /\ pc = "add"
      /\ m_sessions[AccountOf[s]] = None
      /\ Join(s, n, sess, m_QueuedPlayer, told, m_disconnects)
      /\ addSessQueue' = Tail(addSessQueue)
      /\ UNCHANGED <<m_offlineSessions, online, pc, todo>>
  BY DEF AddSession, thread
<1>2. /\ s \in Sessions /\ addSessQueue \in Seq(Sessions)
      /\ sess \in SessFuns /\ m_QueuedPlayer \in Seq(Sessions)
      /\ told \in [Sessions -> Int]
  BY <1>1, NewSessionFacts DEF IInv, TypeOK, SessFuns
<1>3. ~IsRegistered(s) /\ ~IsOffline(s)
  <2>1. Waiting(s)
    BY <1>1, <1>2, HeadLeaves, WaitingInList DEF PInv, InOnePlace
  <2> QED BY <1>2, <2>1 DEF PInv, InOnePlace
<1> HIDE DEF n
<1>4. /\ sess[s].player = None /\ sess[s].holder = None
      /\ ~InList(m_QueuedPlayer, s)
  BY <1>2, <1>3, NowhereHasNothing DEF Listed, InList
<1>5. FlagsFollow(sess, m_QueuedPlayer)
  BY DEF PInv, FieldsInv, FlagsFollowList, FlagsFollow, Listed, InList
<1>6. \A i \in DOMAIN m_QueuedPlayer : told[m_QueuedPlayer[i]] = i
  BY DEF PInv, ClientsKnowTheirPosition
<1>7. /\ FlagsFollowList(sess)'
      /\ \A i \in DOMAIN m_QueuedPlayer' : told'[m_QueuedPlayer'[i]] = i
      /\ ~Listed(s)' => told'[s] = 0
      /\ \A x \in Sessions : x # s => /\ told'[x] = told[x]
                                      /\ Listed(x)' <=> InList(m_QueuedPlayer, x)
      /\ \A x \in Sessions : /\ sess'[x].state = sess[x].state
                             /\ sess'[x].player = sess[x].player
                             /\ sess'[x].holder = sess[x].holder
                             /\ sess'[x].kicked = sess[x].kicked
      /\ \A x \in Sessions : IsRegistered(x)' <=>
            x = s \/ (IsRegistered(x) /\ AccountOf[x] # AccountOf[s])
  <2>1. Joined(s, sess, m_QueuedPlayer, told)
    BY <1>1, <1>2, <1>4, <1>5, <1>6, JoinKeepsQueue
  <2> QED BY <2>1 DEF Joined
<1>8. \A x \in Sessions : IsOffline(x)' <=> IsOffline(x)
  BY <1>1 DEF IsOffline
<1>9. \A x \in Sessions :
         /\ IsRegistered(x) /\ AccountOf[x] # AccountOf[s]
         /\ ~Listed(x)' /\ ~sess[x].kicked
         => told'[x] = 0
  BY <1>3, <1>7 DEF PInv, ClientsKnowTheirPosition, Listed, InList
<1>10. old = None
  BY <1>1
<1> QED BY <1>1, <1>7, <1>8, <1>9, <1>10, EnteringKeepsPlaces

\* A session of an account that is connected already.
LEMMA ReplaceKeepsPlaces ==
  ASSUME IInv, PInv, ReplaceSession,
         NEW s, s = Head(addSessQueue), NEW old, old = m_sessions[AccountOf[s]]
  PROVE  PInv'
<1> DEFINE a == AccountOf[s]
           K == KickPlayer(sess, old, FALSE)
           S == FlagsAfter(K, old)
           off == m_offlineSessions[a]
           S1 == IF HandleSocketClosed(S, old)
                 THEN LoseSocket(IF off = None THEN S ELSE Deleted(S, off), old)
                 ELSE Deleted(S, old)
           n == GetActiveAndQueuedSessionCount - 1
           q == QueueAfter(old)
           t == ToldAfter(old)
           d == DisconnectsAfter(old)
<1>1. /\ addSessQueue # <<>> /\ pc = "add"
      /\ old # None
      /\ m_offlineSessions' = IF HandleSocketClosed(S, old)
                              THEN [m_offlineSessions EXCEPT ![a] = old]
                              ELSE m_offlineSessions
      /\ Join(s, n, S1, q, t, d)
      /\ addSessQueue' = Tail(addSessQueue)
      /\ UNCHANGED <<online, pc, todo>>
  BY DEF ReplaceSession, thread
<1>2. /\ s \in Sessions /\ addSessQueue \in Seq(Sessions) /\ a \in Accounts
      /\ sess \in SessFuns
      /\ m_offlineSessions \in [Accounts -> Sessions \cup {None}]
  BY <1>1, NewSessionFacts DEF IInv, TypeOK, SessFuns
<1>3. /\ old \in Sessions /\ AccountOf[old] = a /\ IsRegistered(old)
      /\ ~IsOffline(old)
  BY <1>1, <1>2 DEF IInv, TypeOK, Keys, IsRegistered, PInv, InOnePlace
<1>4. ~IsRegistered(s) /\ ~IsOffline(s)
  <2>1. Waiting(s)
    BY <1>1, <1>2, HeadLeaves, WaitingInList DEF PInv, InOnePlace
  <2> QED BY <1>2, <2>1 DEF PInv, InOnePlace
<1>5. s # old
  BY <1>3, <1>4
<1>6. sess[s].player = None /\ sess[s].holder = None
  BY <1>2, <1>4, NowhereHasNothing
<1>7. sess[old].player # None => off = None
  BY <1>1, <1>2, OfflineIsFree
<1> HIDE DEF a, off, n
<1>8. K \in SessFuns /\ Gentle(K, sess)
      /\ (\A x \in Sessions : x # old => K[x] = sess[x])
  BY <1>2, <1>3, KickPlayerType, KickIsGentle
<1>9. FlagsFollow(S, q)
  <2>1. FieldsInv(K)
    BY <1>8, GentleKeepsFields DEF PInv
  <2> HIDE DEF K
  <2>2. FlagsFollowListBut(K, old)
    BY <2>1 DEF FieldsInv, FlagsFollowList, FlagsFollowListBut
  <2> QED BY <1>3, <1>8, <2>2, FlagsAfterFollow
<1>10. S \in SessFuns
  <2> HIDE DEF K
  <2> QED BY <1>3, <1>8, FlagsAfterType
<1>11. \A x \in Sessions : /\ S[x].state = sess[x].state
                           /\ S[x].player = sess[x].player
                           /\ S[x].holder = sess[x].holder
                           /\ x # old => S[x].kicked = sess[x].kicked
  <2> TAKE x \in Sessions
  <2> HIDE DEF K
  <2>1. /\ S[x].state = K[x].state
        /\ S[x].player = K[x].player
        /\ S[x].holder = K[x].holder
        /\ S[x].kicked = K[x].kicked
    BY <1>3, <1>8, FlagsKeep
  <2> QED BY <1>8, <2>1 DEF Gentle, GentleAt
<1> HIDE DEF K, S
<1>12. \A x : InList(q, x) <=> /\ Listed(x) /\ x # old
                               /\ ~(Accepts(old) /\ x = Head(Unlisted(old)))
  BY <1>3, QueueAfterMembers
<1>13. ~InList(q, s) /\ ~InList(q, old)
  BY <1>2, <1>4, <1>12, NowhereHasNothing
<1>14. /\ q \in Seq(Sessions) /\ t \in [Sessions -> Int]
       /\ \A i \in DOMAIN q : t[q[i]] = i
       /\ \A x \in Sessions : Accepts(old) /\ x = Head(Unlisted(old)) => t[x] = 0
       /\ \A x \in Sessions : ~Listed(x) => t[x] = told[x]
  BY <1>3, QueueAfterProperties, ToldAfterType, ToldAfterIsTrue DEF IInv, PInv
<1> HIDE DEF q, t, d
<1>15. CASE HandleSocketClosed(S, old)
  <2>1. sess[old].player # None /\ off = None
    BY <1>3, <1>7, <1>11, <1>15 DEF HandleSocketClosed
  <2>2. S1 = LoseSocket(S, old)
    BY <1>15, <2>1
  <2>3. S1 \in SessFuns /\ Gentle(S1, S)
    BY <1>3, <1>10, <2>2, LoseSocketType, FieldsAreGentle
  <2> HIDE DEF S1
  <2>4. FlagsFollow(S1, q)
    BY <1>9, <2>3 DEF Gentle, GentleAt, FlagsFollow
  <2>5. \A x \in Sessions : /\ S1[x].state = sess[x].state
                            /\ S1[x].player = sess[x].player
                            /\ S1[x].holder = sess[x].holder
                            /\ x # old /\ sess[x].kicked => S1[x].kicked
    BY <1>11, <2>3 DEF Gentle, GentleAt
  <2>6. /\ FlagsFollowList(sess)'
        /\ \A i \in DOMAIN m_QueuedPlayer' : told'[m_QueuedPlayer'[i]] = i
        /\ ~Listed(s)' => told'[s] = 0
        /\ \A x \in Sessions : x # s => /\ told'[x] = t[x]
                                        /\ Listed(x)' <=> InList(q, x)
        /\ \A x \in Sessions : /\ sess'[x].state = S1[x].state
                               /\ sess'[x].player = S1[x].player
                               /\ sess'[x].holder = S1[x].holder
                               /\ sess'[x].kicked = S1[x].kicked
        /\ \A x \in Sessions : IsRegistered(x)' <=>
              x = s \/ (IsRegistered(x) /\ AccountOf[x] # AccountOf[s])
    <3>1. Joined(s, S1, q, t)
      BY <1>1, <1>2, <1>6, <1>13, <1>14, <2>3, <2>4, <2>5, JoinKeepsQueue
    <3> QED BY <3>1 DEF Joined
  <2>7. \A x \in Sessions : IsOffline(x)' <=> IsOffline(x) \/ x = old
    <3> TAKE x \in Sessions
    <3>1. AccountOf[x] \in Accounts /\ x # None
      BY AccountsAssumption, NoneAssumption
    <3> QED BY <1>1, <1>2, <1>3, <1>15, <2>1, <3>1 DEF IsOffline, off
  <2>8. /\ sess'[old].holder = None /\ sess'[old].player = sess[old].player
        /\ sess'[old].state = "live"
    BY <1>3, <2>1, <2>5, <2>6 DEF PInv, InOnePlace, FieldsInv, CharactersPlaced
  <2>9. \A x \in Sessions :
           /\ IsRegistered(x) /\ AccountOf[x] # AccountOf[s]
           /\ ~Listed(x)' /\ ~sess[x].kicked
           => told'[x] = 0
    <3> SUFFICES ASSUME NEW x \in Sessions, IsRegistered(x),
                        AccountOf[x] # AccountOf[s], ~Listed(x)', ~sess[x].kicked
                 PROVE  told'[x] = 0
      OBVIOUS
    <3>1. x # s /\ x # old
      BY <1>3, <1>4 DEF a
    <3>2. told'[x] = t[x] /\ ~InList(q, x)
      BY <2>6, <3>1
    <3>3. ~Listed(x) => told[x] = 0
      BY DEF PInv, ClientsKnowTheirPosition
    <3> QED BY <1>12, <1>14, <3>1, <3>2, <3>3
  <2>10. \A x \in Sessions : x # old =>
            /\ IsOffline(x)' <=> IsOffline(x)
            /\ sess'[x].state = sess[x].state
            /\ sess'[x].player = sess[x].player
            /\ sess'[x].holder = sess[x].holder
            /\ sess'[x].kicked = sess[x].kicked
    <3>1. \A x \in Sessions : S1[x].kicked = S[x].kicked
      BY <1>3, <1>10, <2>2 DEF LoseSocket, SessFuns, SessionRec
    <3> QED BY <1>11, <2>5, <2>6, <2>7, <3>1
  <2>11. IsOffline(old)'
    BY <1>3, <2>7
  <2> QED BY <1>1, <2>6, <2>8, <2>9, <2>10, <2>11, EnteringKeepsPlaces
<1>16. CASE ~HandleSocketClosed(S, old)
  <2>2. S1 = Deleted(S, old)
    BY <1>16
  <2>3. /\ S1 \in SessFuns
        /\ \A x \in Sessions : x # old => S1[x] = S[x]
        /\ S1[old].state = "deleted"
        /\ S1[old].player = None /\ S1[old].holder = None
        /\ S1[old].inQueue = FALSE /\ S1[old].kicked = FALSE
    <3> HIDE DEF S1
    <3>1. Deleted(S, old) \in SessFuns
      BY <1>3, <1>10, DeletedType
    <3>2. \A x \in Sessions : x # old => Deleted(S, old)[x] = S[x]
      BY <1>3, <1>10, DeletedOthers
    <3>3. /\ Deleted(S, old)[old].state = "deleted"
          /\ Deleted(S, old)[old].player = None /\ Deleted(S, old)[old].holder = None
          /\ Deleted(S, old)[old].inQueue = FALSE /\ Deleted(S, old)[old].kicked = FALSE
      BY <1>3, <1>10, DeletedFields
    <3> QED BY <2>2, <3>1, <3>2, <3>3
  <2> HIDE DEF S1
  <2>4. FlagsFollow(S1, q)
    BY <1>9, <1>13, <2>3 DEF FlagsFollow
  <2>5. S1[s].player = None /\ S1[s].holder = None
    BY <1>2, <1>5, <1>6, <1>11, <2>3
  <2>6. /\ FlagsFollowList(sess)'
        /\ \A i \in DOMAIN m_QueuedPlayer' : told'[m_QueuedPlayer'[i]] = i
        /\ ~Listed(s)' => told'[s] = 0
        /\ \A x \in Sessions : x # s => /\ told'[x] = t[x]
                                        /\ Listed(x)' <=> InList(q, x)
        /\ \A x \in Sessions : /\ sess'[x].state = S1[x].state
                               /\ sess'[x].player = S1[x].player
                               /\ sess'[x].holder = S1[x].holder
                               /\ sess'[x].kicked = S1[x].kicked
        /\ \A x \in Sessions : IsRegistered(x)' <=>
              x = s \/ (IsRegistered(x) /\ AccountOf[x] # AccountOf[s])
    <3>1. Joined(s, S1, q, t)
      BY <1>1, <1>2, <1>13, <1>14, <2>3, <2>4, <2>5, JoinKeepsQueue
    <3> QED BY <3>1 DEF Joined
  <2>7. \A x \in Sessions : IsOffline(x)' <=> IsOffline(x)
    BY <1>1, <1>16 DEF IsOffline
  <2>8. /\ sess'[old].holder = None /\ sess'[old].player = None
        /\ sess'[old].state = "deleted"
    BY <1>3, <2>3, <2>6
  <2>9. \A x \in Sessions :
           /\ IsRegistered(x) /\ AccountOf[x] # AccountOf[s]
           /\ ~Listed(x)' /\ ~sess[x].kicked
           => told'[x] = 0
    <3> SUFFICES ASSUME NEW x \in Sessions, IsRegistered(x),
                        AccountOf[x] # AccountOf[s], ~Listed(x)', ~sess[x].kicked
                 PROVE  told'[x] = 0
      OBVIOUS
    <3>1. x # s /\ x # old
      BY <1>3, <1>4 DEF a
    <3>2. told'[x] = t[x] /\ ~InList(q, x)
      BY <2>6, <3>1
    <3>3. ~Listed(x) => told[x] = 0
      BY DEF PInv, ClientsKnowTheirPosition
    <3> QED BY <1>12, <1>14, <3>1, <3>2, <3>3
  <2>10. \A x \in Sessions : x # old =>
            /\ IsOffline(x)' <=> IsOffline(x)
            /\ sess'[x].state = sess[x].state
            /\ sess'[x].player = sess[x].player
            /\ sess'[x].holder = sess[x].holder
            /\ sess'[x].kicked = sess[x].kicked
    BY <1>11, <2>3, <2>6, <2>7
  <2>11. ~IsOffline(old)'
    BY <1>3, <2>7
  <2> QED BY <1>1, <2>6, <2>8, <2>9, <2>10, <2>11, EnteringKeepsPlaces
<1> QED BY <1>15, <1>16
-----------------------------------------------------------------------------
(* The invariant *)

LEMMA StepPInv == IInv /\ PInv /\ [Next]_vars => PInv'
<1> SUFFICES ASSUME IInv, PInv, [Next]_vars PROVE PInv'
  OBVIOUS
<1>1. CASE UNCHANGED vars
  <2>1. UNCHANGED <<addSessQueue, m_sessions, m_offlineSessions, m_QueuedPlayer,
                    sess, told, online, pc, todo>>
    BY <1>1 DEF vars, registry, thread
  <2>2. Gentle(sess', sess)
    BY <2>1 DEF Gentle, GentleAt
  <2> QED BY <2>1, <2>2, GentleStep
<1>2. CASE Network
  <2>1. PICK s \in Sessions : Connect(s) \/ CloseSocket(s)
    BY <1>2 DEF Network
  <2> QED BY <2>1, ConnectKeepsPlaces, OtherStepsKeepPlaces
<1>3. CASE UpdateSessions
  <2>1. CASE AddSession
    BY <2>1, AddSessionKeepsPlaces
  <2>2. CASE ReplaceSession
    BY <2>2, ReplaceKeepsPlaces
  <2>3. CASE \E a \in Accounts : GoOffline(a) \/ OfflineEnds(a)
    BY <2>3, GoOfflineKeepsPlaces, OfflineEndsKeepsPlaces
  <2>4. CASE RejectSession \/ UpdateKeeps \/ UpdateRemoves
    BY <2>4, RejectKeepsPlaces, UpdateKeepsPlaces, UpdateRemovesKeepsPlaces
  <2>5. CASE \/ BeginUpdateSessions \/ EndAdding \/ EndSessions \/ EndUpdateSessions
             \/ \E a \in Accounts : SocketStillOpen(a) \/ OfflineStays(a)
    BY <2>5, LoopKeepsPlaces
  <2> QED BY <1>3, <2>1, <2>2, <2>3, <2>4, <2>5 DEF UpdateSessions
<1>4. CASE Passing \/ Others
  BY <1>4, OtherStepsKeepPlaces
<1>5. CASE KickAll
  BY <1>5, KickAllKeepsPlaces
<1> QED BY <1>1, <1>2, <1>3, <1>4, <1>5 DEF Next

\* The invariant holds in every reachable state.
LEMMA SpecPInv == Spec => [](IInv /\ PInv)
  BY InitIInv, StepIInv, InitPInv, StepPInv, PTL DEF Spec

\* An offline session makes room only by its end.
LEMMA StepOfflineStays ==
  ASSUME IInv, PInv, [Next]_vars, NEW a \in Accounts, m_offlineSessions[a] # None
  PROVE  m_offlineSessions'[a] \in {m_offlineSessions[a], None}
<1>1. CASE \E b \in Accounts : GoOffline(b)
  <2>1. PICK b \in Accounts : GoOffline(b)
    BY <1>1
  <2>2. /\ pc = "sessions" /\ b \in todo
        /\ m_sessions[b] # None
        /\ sess[m_sessions[b]].player # None
        /\ m_offlineSessions' = [m_offlineSessions EXCEPT ![b] = m_sessions[b]]
    BY <2>1 DEF GoOffline, HandleSocketClosed, IInv, Walk
  <2>3. a # b
    BY <2>2, OfflineIsFree
  <2> QED BY <2>2, <2>3 DEF IInv, TypeOK
<1>2. CASE ReplaceSession
  <2> DEFINE s == Head(addSessQueue)
             b == AccountOf[s]
             old == m_sessions[b]
             K == KickPlayer(sess, old, FALSE)
             S == FlagsAfter(K, old)
  <2>1. /\ pc = "add" /\ addSessQueue # <<>> /\ old # None
        /\ m_offlineSessions' = IF HandleSocketClosed(S, old)
                                THEN [m_offlineSessions EXCEPT ![b] = old]
                                ELSE m_offlineSessions
    BY <1>2 DEF ReplaceSession
  <2>2. b \in Accounts /\ old \in Sessions /\ sess \in SessFuns
    BY <2>1, NewSessionFacts DEF IInv, TypeOK, SessFuns
  <2> HIDE DEF b, old
  <2>3. K \in SessFuns /\ Gentle(K, sess)
    BY <2>2, KickPlayerType, KickIsGentle
  <2> HIDE DEF K
  <2>4. S[old].player = sess[old].player
    BY <2>2, <2>3, FlagsKeep DEF Gentle, GentleAt
  <2> HIDE DEF S
  <2>5. HandleSocketClosed(S, old) => a # b
    BY <2>1, <2>2, <2>4, OfflineIsFree DEF HandleSocketClosed, old
  <2> QED BY <2>1, <2>5 DEF IInv, TypeOK
<1>3. CASE \E b \in Accounts : OfflineEnds(b)
  BY <1>3 DEF OfflineEnds, IInv, TypeOK
<1>4. CASE UNCHANGED m_offlineSessions
  BY <1>4
<1>5. \/ ReplaceSession
      \/ \E b \in Accounts : GoOffline(b) \/ OfflineEnds(b)
      \/ UNCHANGED m_offlineSessions
  <2>1. CASE UNCHANGED vars
    BY <2>1 DEF vars, registry
  <2>2. CASE Network \/ Passing \/ Others \/ KickAll
    BY <2>2 DEF Network, Connect, CloseSocket, Passing, OfflineMinutePasses,
                TolerancePasses, Others, StopNow, Kick, MapUpdate, KickAll, registry
  <2>3. CASE UpdateSessions
    BY <2>3 DEF UpdateSessions, BeginUpdateSessions, RejectSession, AddSession,
                EndAdding, UpdateKeeps, UpdateRemoves, EndSessions,
                EndUpdateSessions, SocketStillOpen, OfflineStays, registry
  <2> QED BY <2>1, <2>2, <2>3 DEF Next
<1> QED BY <1>1, <1>2, <1>3, <1>4, <1>5

-----------------------------------------------------------------------------
(* Theorems *)

\* No session is lost, kept twice or used after its deletion: a live session is
\* in exactly one of addSessQueue, m_sessions and m_offlineSessions, a deleted
\* one in none of them.
THEOREM SessionsAreInOnePlace == Spec => []EverySessionInOnePlace
<1>1. IInv /\ PInv => EverySessionInOnePlace
  BY DEF IInv, PInv, InOnePlace, Keys, Walk, Distinct, EverySessionInOnePlace
<1> QED BY <1>1, SpecPInv, PTL

\* A character is in the world for one session only, whichever of reconnection,
\* takeover, logout and query callback comes first.
THEOREM CharactersHaveOneSession == Spec => []CharacterHasOneSession
<1>1. IInv /\ PInv => CharacterHasOneSession
  <2> SUFFICES ASSUME IInv, PInv, NEW s \in Sessions, NEW t \in Sessions,
                      sess[s].player # None, sess[s].player = sess[t].player
               PROVE  s = t
    BY DEF CharacterHasOneSession
  <2>1. /\ AccountOf[s] = AccountOf[t]
        /\ IsRegistered(s) \/ IsOffline(s)
        /\ IsRegistered(t) \/ IsOffline(t)
    BY DEF PInv, FieldsInv, CharactersPlaced
  <2>2. ~Successor(s, t) /\ ~Successor(t, s)
    BY DEF PInv, FieldsInv, CharactersApart
  <2> QED BY <2>1, <2>2 DEF Successor, IsRegistered, IsOffline
<1> QED BY <1>1, SpecPInv, PTL

\* An account none of whose sessions lives is not left marked online: each
\* deletion writes online = 0 unless the registries hold another session.
THEOREM OnlineMeansASession == Spec => []NobodyOnlineWithoutSession
<1>1. IInv /\ PInv => NobodyOnlineWithoutSession
  BY DEF PInv
<1> QED BY <1>1, SpecPInv, PTL

\* m_inQueue is set for the sessions in m_QueuedPlayer, which hold no
\* character, and for no others but those KickAll has kicked.
THEOREM FlagFollowsList == Spec => []InQueueFlagMatchesList
<1>1. IInv /\ PInv => InQueueFlagMatchesList
  BY DEF PInv, FieldsInv, FlagsFollowList, InQueueFlagMatchesList
<1> QED BY <1>1, SpecPInv, PTL

\* The last queue position sent to a waiting client is its place in the list,
\* and a client in the game was last told that it may enter.
THEOREM PositionsAreTrue == Spec => []ClientsKnowTheirPosition
<1>1. IInv /\ PInv => ClientsKnowTheirPosition
  BY DEF PInv
<1> QED BY <1>1, SpecPInv, PTL

\* No session that keeps a character in the world is overwritten in
\* m_offlineSessions: "there should be no offline session if current one is
\* logged onto a character".
THEOREM OfflineSessionsStay == Spec => OfflineSessionNeverReplaced
<1>1. IInv /\ PInv /\ [Next]_vars =>
         [\A a \in Accounts : m_offlineSessions[a] # None =>
             m_offlineSessions'[a] \in {m_offlineSessions[a], None}]_vars
  BY StepOfflineStays
<1> QED BY <1>1, SpecPInv, PTL DEF Spec, OfflineSessionNeverReplaced
-----------------------------------------------------------------------------
(* The end of the process *)

\* A step leaves s where it is, and kicked if it was.
Stays(s) ==
    /\ sess'[s].state = sess[s].state
    /\ sess[s].kicked => sess'[s].kicked
    /\ IsRegistered(s) => IsRegistered(s)'
    /\ IsOffline(s) => IsOffline(s)'

\* After KickAll no session goes offline any more: a step that touches the
\* place of a session deletes it, and a deleted session stays so.
LEMMA StaysOrEnds ==
  ASSUME IInv, PInv, [Next]_vars, stage = "kicked", NEW s \in Sessions,
         sess[s].state = "deleted" \/ IsRegistered(s) \/ IsOffline(s)
  PROVE  Stays(s) \/ sess'[s].state = "deleted"
<1>1. /\ sess \in SessFuns
      /\ m_sessions \in [Accounts -> Sessions \cup {None}]
      /\ m_offlineSessions \in [Accounts -> Sessions \cup {None}]
      /\ AccountOf \in [Sessions -> Accounts]
  BY AccountsAssumption DEF IInv, TypeOK, SessFuns
<1>2. ~Waiting(s) /\ sess[s].state # "unborn"
  BY DEF PInv, InOnePlace
<1>3. ASSUME Gentle(sess', sess), UNCHANGED <<m_sessions, m_offlineSessions>>
      PROVE  Stays(s)
  BY <1>3 DEF Gentle, GentleAt, Stays, IsRegistered, IsOffline
<1>4. CASE \/ UNCHANGED vars
           \/ BeginUpdateSessions \/ EndAdding \/ EndSessions \/ EndUpdateSessions
           \/ \E a \in Accounts : SocketStillOpen(a) \/ OfflineStays(a)
  <2>1. UNCHANGED <<sess, m_sessions, m_offlineSessions>>
    BY <1>4 DEF vars, BeginUpdateSessions, EndAdding, EndSessions,
                EndUpdateSessions, SocketStillOpen, OfflineStays, registry
  <2> QED BY <1>3, <2>1 DEF Gentle, GentleAt
<1>5. CASE Network
  <2>1. PICK x \in Sessions : Connect(x) \/ CloseSocket(x)
    BY <1>5 DEF Network
  <2>2. CASE Connect(x)
    <3>1. /\ sess' = [sess EXCEPT ![x] = NewSession] /\ x # s
          /\ UNCHANGED <<m_sessions, m_offlineSessions>>
      BY <1>2, <2>2 DEF Connect, registry
    <3>2. sess'[s] = sess[s]
      BY <1>1, <3>1 DEF SessFuns
    <3> QED BY <3>1, <3>2 DEF Stays, IsRegistered, IsOffline
  <2>3. CASE CloseSocket(x)
    BY <1>3, <2>3, OtherStepsAreGentle
  <2> QED BY <2>1, <2>2, <2>3
<1>6. CASE Passing \/ Others
  BY <1>3, <1>6, OtherStepsAreGentle
<1>7. CASE RejectSession
  <2> DEFINE h == Head(addSessQueue)
  <2>1. /\ h \in Sessions
        /\ sess' = Deleted(sess, h)
        /\ UNCHANGED <<m_sessions, m_offlineSessions>>
    BY <1>7, NewSessionFacts DEF RejectSession, registry
  <2>2. s # h => sess'[s] = sess[s]
    BY <1>1, <2>1, DeletedOthers
  <2>3. s = h => sess'[s].state = "deleted"
    <3>1. Deleted(sess, h)[h].state = "deleted"
      BY <1>1, <2>1, DeletedState
    <3> QED BY <2>1, <3>1
  <2> QED BY <2>1, <2>2, <2>3 DEF Stays, IsRegistered, IsOffline
<1>8. CASE UpdateKeeps
  <2>1. PICK S1 \in Packets(cur) : \E S \in Callbacks(S1, cur) : sess' = S
    BY <1>8 DEF UpdateKeeps
  <2>2. cur # None /\ UNCHANGED <<m_sessions, m_offlineSessions>>
    BY <1>8 DEF UpdateKeeps, registry
  <2>3. Lives(sess', sess)
    BY <2>1, <2>2, UpdateFacts
  <2> QED BY <2>2, <2>3 DEF Lives, Stays, IsRegistered, IsOffline
<1>9. CASE UpdateRemoves
  <2>1. PICK S1 \in Packets(cur) : \E S \in Callbacks(S1, cur) :
            Unregister(cur, Deleted(S, cur))
    BY <1>9 DEF UpdateRemoves
  <2>2. PICK U \in Callbacks(S1, cur) : Unregister(cur, Deleted(U, cur))
    BY <2>1
  <2>3. cur # None /\ UNCHANGED m_offlineSessions
    BY <1>9 DEF UpdateRemoves
  <2>4. /\ cur \in Sessions /\ IsRegistered(cur)
        /\ U \in SessFuns /\ Lives(U, sess)
    BY <2>3, UpdateFacts DEF InUpdate
  <2> DEFINE D == Deleted(U, cur)
  <2>5. /\ D \in SessFuns
        /\ D[cur].state = "deleted"
        /\ s # cur => D[s] = U[s]
    BY <2>4, DeletedType, DeletedFields
  <2>6. /\ sess' = FlagsAfter(D, cur)
        /\ m_sessions' = [m_sessions EXCEPT ![AccountOf[cur]] = None]
    BY <2>2 DEF Unregister
  <2> HIDE DEF D
  <2>7. sess'[s].state = D[s].state /\ sess'[s].kicked = D[s].kicked
    BY <2>4, <2>5, <2>6, FlagsKeep
  <2>8. s # cur /\ IsRegistered(s) => IsRegistered(s)'
    BY <1>1, <2>4, <2>6 DEF IsRegistered
  <2> QED BY <2>3, <2>4, <2>5, <2>7, <2>8 DEF Lives, Stays, IsOffline
<1>10. CASE \E a \in Accounts : OfflineEnds(a)
  <2>1. PICK a \in Accounts : OfflineEnds(a)
    BY <1>10
  <2> DEFINE o == m_offlineSessions[a]
  <2>2. /\ o \in Sessions /\ AccountOf[o] = a
        /\ sess' = Deleted(sess, o)
        /\ m_offlineSessions' = [m_offlineSessions EXCEPT ![a] = None]
        /\ UNCHANGED m_sessions
    BY <2>1 DEF OfflineEnds, IInv, TypeOK, Walk, Keys
  <2> HIDE DEF o
  <2>3. s = o => sess'[s].state = "deleted"
    <3>1. Deleted(sess, o)[o].state = "deleted"
      BY <1>1, <2>2, DeletedState
    <3> QED BY <2>2, <3>1
  <2>4. s # o => sess'[s] = sess[s]
    BY <1>1, <2>2, DeletedOthers
  <2>5. s # o /\ IsOffline(s) => IsOffline(s)'
    BY <1>1, <2>2 DEF IsOffline, o
  <2> QED BY <2>2, <2>3, <2>4, <2>5 DEF Stays, IsRegistered
<1>11. CASE AddSession
  <2> DEFINE h == Head(addSessQueue)
  <2>1. /\ h \in Sessions /\ m_sessions[AccountOf[h]] = None
        /\ Join(h, GetActiveAndQueuedSessionCount, sess, m_QueuedPlayer, told,
                m_disconnects)
        /\ UNCHANGED m_offlineSessions
    BY <1>11, NewSessionFacts DEF AddSession
  <2> HIDE DEF h
  <2> DEFINE w == Waits(h, GetActiveAndQueuedSessionCount, m_disconnects)
  <2>2. /\ m_sessions' = [m_sessions EXCEPT ![AccountOf[h]] = h]
        /\ sess' = [sess EXCEPT ![h].inQueue = w]
    BY <2>1, JoinExpanded
  <2> HIDE DEF w
  <2>3. sess[s] \in SessionRec
    BY <1>1, FieldValues
  <2>4. sess'[s].state = sess[s].state /\ sess'[s].kicked = sess[s].kicked
    BY <1>1, <2>2, <2>3 DEF SessFuns, SessionRec
  <2>5. IsRegistered(s) => IsRegistered(s)'
    BY <1>1, <2>1, <2>2, NoneAssumption DEF IsRegistered
  <2> QED BY <2>1, <2>4, <2>5 DEF Stays, IsOffline
<1>12. CASE ReplaceSession
  <2> DEFINE h == Head(addSessQueue)
             old == m_sessions[AccountOf[h]]
             K == KickPlayer(sess, old, FALSE)
             S == FlagsAfter(K, old)
             n == GetActiveAndQueuedSessionCount - 1
             D == Deleted(S, old)
  <2>1. /\ h \in Sessions /\ old # None
        /\ Join(h, n, D, QueueAfter(old), ToldAfter(old), DisconnectsAfter(old))
        /\ UNCHANGED m_offlineSessions
    BY <1>12, NewSessionFacts DEF ReplaceSession, HandleSocketClosed
  <2> HIDE DEF h
  <2>2. old \in Sessions /\ AccountOf[old] = AccountOf[h]
    BY <1>1, <2>1 DEF IInv, Keys
  <2> HIDE DEF n
  <2> DEFINE w == Waits(h, n, DisconnectsAfter(old))
  <2>3. /\ m_sessions' = [m_sessions EXCEPT ![AccountOf[h]] = h]
        /\ sess' = [D EXCEPT ![h].inQueue = w]
    <3> HIDE DEF D, old
    <3> QED BY <2>1, JoinExpanded
  <2>4. s = old \/ (IsRegistered(s) => AccountOf[s] # AccountOf[h])
    BY DEF IsRegistered
  <2> HIDE DEF w, old
  <2>5. K \in SessFuns /\ Gentle(K, sess)
    BY <1>1, <2>2, KickPlayerType, KickIsGentle
  <2> HIDE DEF K
  <2>6. /\ S \in SessFuns
        /\ S[s].state = sess[s].state
        /\ sess[s].kicked => S[s].kicked
    <3>1. S[s].state = K[s].state /\ S[s].kicked = K[s].kicked
      BY <2>2, <2>5, FlagsKeep
    <3>2. K[s].state = sess[s].state /\ (sess[s].kicked => K[s].kicked)
      BY <2>5 DEF Gentle, GentleAt
    <3> QED BY <2>2, <2>5, <3>1, <3>2, FlagsAfterType
  <2> HIDE DEF S
  <2>7. /\ D \in SessFuns
        /\ s = old => D[s].state = "deleted"
        /\ s # old => D[s] = S[s]
    <3>1. /\ Deleted(S, old) \in SessFuns
          /\ Deleted(S, old)[old].state = "deleted"
          /\ s # old => Deleted(S, old)[s] = S[s]
      <4> HIDE DEF D
      <4> QED BY <2>2, <2>6, DeletedType, DeletedFields
    <3> QED BY <3>1
  <2> HIDE DEF D
  <2>8. D[s] \in SessionRec
    BY <2>7, FieldValues
  <2>9. sess'[s].state = D[s].state /\ sess'[s].kicked = D[s].kicked
    BY <2>3, <2>7, <2>8 DEF SessFuns, SessionRec
  <2>10. s # old /\ IsRegistered(s) => IsRegistered(s)'
    BY <1>1, <2>1, <2>3, <2>4 DEF IsRegistered
  <2> QED BY <2>1, <2>6, <2>7, <2>9, <2>10 DEF Stays, IsOffline
<1>13. ~KickAll /\ \A a \in Accounts : ~GoOffline(a)
  BY DEF KickAll, GoOffline, HandleSocketClosed
<1> QED BY <1>4, <1>5, <1>6, <1>7, <1>8, <1>9, <1>10, <1>11, <1>12, <1>13
        DEF Next, UpdateSessions

\* A session KickAll saw is deleted, or the world thread still comes past it.
Ending(s) ==
    /\ sess[s].kicked
    /\ \/ /\ IsRegistered(s)
          /\ \/ pc \in {"idle", "add"}
             \/ pc = "sessions" /\ (AccountOf[s] \in todo \/ cur = s)
       \/ /\ IsOffline(s)
          /\ \/ pc \in {"idle", "add", "sessions"}
             \/ pc = "offline" /\ AccountOf[s] \in todo
EndsOrEnded(s) ==
    /\ stage = "kicked"
    /\ sess[s].state = "deleted" \/ Ending(s)

\* KickAll kicked every session it saw.
SawIsKicked == \A s \in Sessions : KickAllSaw(s) => sess[s].kicked

LEMMA StepEndsOrEnded ==
  ASSUME NEW s \in Sessions
  PROVE  IInv /\ PInv /\ EndsOrEnded(s) /\ [Next]_vars => EndsOrEnded(s)'
<1> SUFFICES ASSUME IInv, PInv, EndsOrEnded(s), [Next]_vars
             PROVE  EndsOrEnded(s)'
  OBVIOUS
<1>1. stage' = "kicked"
  BY DEF EndsOrEnded, Next, vars, Network, Connect, CloseSocket, UpdateSessions,
         BeginUpdateSessions, RejectSession, AddSession, ReplaceSession, EndAdding,
         UpdateKeeps, UpdateRemoves, EndSessions, EndUpdateSessions,
         SocketStillOpen, GoOffline, OfflineStays, OfflineEnds, Passing,
         OfflineMinutePasses, TolerancePasses, Others, StopNow, Kick, MapUpdate,
         KickAll
<1>2. Stays(s) \/ sess'[s].state = "deleted"
  BY StaysOrEnds DEF EndsOrEnded, Ending
<1> SUFFICES ASSUME sess'[s].state # "deleted" PROVE Ending(s)'
  BY <1>1 DEF EndsOrEnded
<1>3. Stays(s) /\ Ending(s) /\ sess'[s].kicked
  BY <1>2 DEF Stays, EndsOrEnded, Ending
<1>4. AccountOf[s] \in Accounts /\ s # None
  BY AccountsAssumption, NoneAssumption
<1>5. ASSUME UNCHANGED <<pc, todo, cur>> PROVE Ending(s)'
  BY <1>3, <1>5 DEF Stays, Ending
<1>6. CASE \/ UNCHANGED vars \/ Network \/ Passing \/ Others
           \/ RejectSession \/ AddSession \/ ReplaceSession
  <2>1. UNCHANGED <<pc, todo, cur>>
    BY <1>6 DEF vars, thread, Network, Connect, CloseSocket, Passing,
                OfflineMinutePasses, TolerancePasses, Others, StopNow, Kick,
                MapUpdate, RejectSession, AddSession, ReplaceSession
  <2> QED BY <1>5, <2>1
<1>7. CASE BeginUpdateSessions \/ EndAdding
  BY <1>3, <1>4, <1>7 DEF BeginUpdateSessions, EndAdding, Stays, Ending, IsRegistered
<1>8. CASE UpdateKeeps
  <2>1. UNCHANGED <<pc, todo>> /\ cur # None /\ sess'[cur].socket = "open"
    BY <1>8 DEF UpdateKeeps
  <2>2. sess'[s].socket # "open"
    BY <1>3, StepPInv DEF PInv, FieldsInv, FlagsFollowList
  <2> QED BY <1>3, <2>1, <2>2 DEF Stays, Ending
<1>9. CASE UpdateRemoves
  <2>1. /\ UNCHANGED <<pc, todo>> /\ cur # None
        /\ m_sessions' = [m_sessions EXCEPT ![AccountOf[cur]] = None]
    BY <1>9 DEF UpdateRemoves, Unregister
  <2>2. cur = s => ~IsRegistered(s)'
    BY <1>4, <2>1 DEF IInv, TypeOK, IsRegistered
  <2>3. cur = s => IsRegistered(s)
    BY <2>1 DEF IInv, Walk
  <2>4. cur # s
    BY <1>3, <2>2, <2>3 DEF Stays
  <2> QED BY <1>3, <2>1, <2>4 DEF Stays, Ending
<1>10. CASE EndSessions \/ EndUpdateSessions
  BY <1>3, <1>4, <1>10 DEF EndSessions, EndUpdateSessions, Stays, Ending, IsOffline
<1>11. CASE \E a \in Accounts : SocketStillOpen(a)
  BY <1>3, <1>4, <1>11 DEF SocketStillOpen, Stays, Ending, IsRegistered
<1>12. CASE \E a \in Accounts : OfflineStays(a)
  BY <1>3, <1>12 DEF OfflineStays, MustEnd, Stays, Ending, IsOffline
<1>13. CASE \E a \in Accounts : OfflineEnds(a)
  <2>1. PICK a \in Accounts : OfflineEnds(a)
    BY <1>13
  <2>2. /\ pc = "offline" /\ pc' = pc /\ todo' = todo \ {a}
        /\ m_offlineSessions' = [m_offlineSessions EXCEPT ![a] = None]
    BY <2>1 DEF OfflineEnds
  <2>3. IsOffline(s)'
    BY <1>3, <2>2 DEF Stays, Ending
  <2>4. AccountOf[s] # a
    BY <1>4, <2>2, <2>3 DEF IInv, TypeOK, IsOffline
  <2> QED BY <1>3, <2>2, <2>3, <2>4 DEF Ending
<1>14. ~KickAll /\ \A a \in Accounts : ~GoOffline(a)
  BY DEF EndsOrEnded, KickAll, GoOffline, HandleSocketClosed
<1> QED BY <1>6, <1>7, <1>8, <1>9, <1>10, <1>11, <1>12, <1>13, <1>14
        DEF Next, UpdateSessions

LEMMA StepSawIsKicked ==
  IInv /\ PInv /\ SawIsKicked /\ [Next]_vars => SawIsKicked'
<1> SUFFICES ASSUME IInv, PInv, SawIsKicked, [Next]_vars, NEW s \in Sessions,
                    stage' = "kicked", pc' = "idle",
                    IsRegistered(s)' \/ IsOffline(s)'
             PROVE  sess'[s].kicked
  BY DEF SawIsKicked, KickAllSaw
<1>1. CASE KickAll
  <2>1. sess \in SessFuns
    BY DEF IInv, TypeOK, SessFuns
  <2>2. KickPlayer(sess, s, TRUE)[s].kicked
    BY <2>1, KickIsGentle
  <2>3. IsRegistered(s) \/ IsOffline(s)
    BY <1>1 DEF KickAll, IsRegistered, IsOffline
  <2> QED BY <1>1, <2>2, <2>3 DEF KickAll
<1>2. CASE ~KickAll
  <2>1. stage = "kicked"
    BY <1>2 DEF Next, vars, Network, Connect, CloseSocket, UpdateSessions,
       BeginUpdateSessions, RejectSession, AddSession, ReplaceSession, EndAdding,
       UpdateKeeps, UpdateRemoves, EndSessions, EndUpdateSessions,
       SocketStillOpen, GoOffline, OfflineStays, OfflineEnds, Passing,
       OfflineMinutePasses, TolerancePasses, Others, StopNow, Kick, MapUpdate
  <2>2. ~UpdateSessions
    BY <2>1 DEF UpdateSessions, BeginUpdateSessions, RejectSession, AddSession,
       ReplaceSession, EndAdding, UpdateKeeps, UpdateRemoves, EndSessions,
       EndUpdateSessions, SocketStillOpen, GoOffline, OfflineStays, OfflineEnds,
       thread, IInv, Walk
  <2>3. UNCHANGED <<m_sessions, m_offlineSessions, pc>>
    BY <1>2, <2>2 DEF Next, vars, registry, thread, Network, Connect, CloseSocket,
       Passing, OfflineMinutePasses, TolerancePasses, Others, StopNow, Kick, MapUpdate
  <2>4. KickAllSaw(s)
    BY <2>1, <2>3 DEF KickAllSaw, IsRegistered, IsOffline
  <2>5. Stays(s) \/ sess'[s].state = "deleted"
    BY <2>1, <2>4, StaysOrEnds DEF KickAllSaw
  <2>6. sess'[s].state # "deleted"
    BY StepPInv DEF PInv, InOnePlace
  <2> QED BY <2>4, <2>5, <2>6 DEF SawIsKicked, Stays
<1> QED BY <1>1, <1>2

LEMMA SpecSawIsKicked == Spec => [](IInv /\ PInv /\ SawIsKicked)
<1>1. Init => SawIsKicked
  BY DEF Init, SawIsKicked, KickAllSaw
<1> QED BY <1>1, SpecPInv, StepSawIsKicked, PTL DEF Spec

\* KickAll and the one UpdateSessions after it log out every character that was
\* in the world: each session KickAll saw is deleted before the process halts.
THEOREM ShutdownIsComplete == Spec => ShutdownLogsEverybodyOut
<1>1. ASSUME NEW s \in Sessions
      PROVE  Spec => [](KickAllSaw(s) =>
                           [](pc = "halted" => sess[s].state = "deleted"))
  <2>1. SawIsKicked /\ KickAllSaw(s) => EndsOrEnded(s)
    BY DEF SawIsKicked, KickAllSaw, EndsOrEnded, Ending
  <2>2. IInv /\ PInv /\ EndsOrEnded(s) /\ [Next]_vars => EndsOrEnded(s)'
    BY StepEndsOrEnded
  <2>3. EndsOrEnded(s) => (pc = "halted" => sess[s].state = "deleted")
    BY DEF EndsOrEnded, Ending
  <2> QED BY <2>1, <2>2, <2>3, SpecSawIsKicked, PTL DEF Spec
<1> QED BY <1>1 DEF ShutdownLogsEverybodyOut

-----------------------------------------------------------------------------
(* The list as a set and an order *)

Members(q) == {x \in Sessions : InList(q, x)}

Order(q) == {p \in Sessions \X Sessions :
                 \E i, j \in DOMAIN q : i < j /\ q[i] = p[1] /\ q[j] = p[2]}

\* InLine and Ahead are those of m_QueuedPlayer.
LEMMA LineIs == InLine = Members(m_QueuedPlayer) /\ Ahead = Order(m_QueuedPlayer)
  BY DEF InLine, Ahead, Members, Order, InList, Listed

\* A pair of the order.
LEMMA InOrder ==
  ASSUME NEW q, NEW x, NEW y
  PROVE  <<x, y>> \in Order(q) <=>
            /\ x \in Sessions /\ y \in Sessions
            /\ \E i, j \in DOMAIN q : i < j /\ q[i] = x /\ q[j] = y
  BY DEF Order

\* Two lists with the same pairs have the same order.
LEMMA SameOrder ==
  ASSUME NEW q, NEW r, NEW T,
         \A x, y \in Sessions : <<x, y>> \in Order(r) <=> <<x, y>> \in Order(q) /\ x \in T /\ y \in T
  PROVE  Order(r) = Order(q) \cap (T \X T)
  BY DEF Order

\* The order concerns the members.
LEMMA OrderOfMembers ==
  ASSUME NEW q
  PROVE  Order(q) = Order(q) \cap (Members(q) \X Members(q))
  BY DEF Order, Members, InList

\* RemoveAt removes a session from the order and leaves the others as they are.
LEMMA OrderOfRemoveAt ==
  ASSUME NEW q \in Seq(Sessions), Distinct(q), NEW p \in 1 .. Len(q)
  PROVE  /\ Members(RemoveAt(q, p)) = Members(q) \ {q[p]}
         /\ Order(RemoveAt(q, p)) =
               Order(q) \cap ((Members(q) \ {q[p]}) \X (Members(q) \ {q[p]}))
<1> DEFINE u == RemoveAt(q, p)
           T == Members(q) \ {q[p]}
<1>1. /\ u \in Seq(Sessions)
      /\ Len(u) = Len(q) - 1
      /\ \A j \in 1 .. Len(q) - 1 : u[j] = IF j < p THEN q[j] ELSE q[j + 1]
  BY RemoveAtProperties
<1>2. /\ DOMAIN u = 1 .. Len(q) - 1
      /\ DOMAIN q = 1 .. Len(q)
      /\ Len(q) \in Nat
  BY <1>1
<1> HIDE DEF u
<1>3. \A i, j \in 1 .. Len(q) : q[i] = q[j] => i = j
  BY <1>2 DEF Distinct
<1>4. ASSUME NEW x \in Sessions PROVE InList(u, x) <=> InList(q, x) /\ x # q[p]
  <2>1. ASSUME NEW j \in 1 .. Len(q) - 1, u[j] = x PROVE InList(q, x) /\ x # q[p]
    <3>1. \E i \in 1 .. Len(q) : i # p /\ q[i] = x
      BY <1>1, <1>2, <2>1
    <3> QED BY <1>2, <1>3, <3>1 DEF InList
  <2>2. ASSUME NEW i \in 1 .. Len(q), q[i] = x, i # p PROVE InList(u, x)
    <3>1. CASE i < p
      BY <1>1, <1>2, <2>2, <3>1 DEF InList
    <3>2. CASE i > p
      <4>1. i - 1 \in 1 .. Len(q) - 1 /\ ~(i - 1 < p) /\ (i - 1) + 1 = i
        BY <1>2, <3>2
      <4>2. u[i - 1] = q[i]
        BY <1>1, <4>1
      <4> QED BY <1>2, <2>2, <4>1, <4>2 DEF InList
    <3> QED BY <2>2, <1>2, <3>1, <3>2
  <2> QED BY <1>2, <2>1, <2>2 DEF InList
<1>5. Members(u) = T
  BY <1>4 DEF Members
<1>6. ASSUME NEW x \in Sessions, NEW y \in Sessions, <<x, y>> \in Order(u)
      PROVE  <<x, y>> \in Order(q) /\ x \in T /\ y \in T
  <2>1. PICK i \in 1 .. Len(q) - 1, j \in 1 .. Len(q) - 1 : i < j /\ u[i] = x /\ u[j] = y
    BY <1>2, <1>6, InOrder
  <2>2. \E k, l \in 1 .. Len(q) : k < l /\ q[k] = x /\ q[l] = y
    <3>1. /\ x = q[IF i < p THEN i ELSE i + 1]
          /\ y = q[IF j < p THEN j ELSE j + 1]
      BY <1>1, <2>1
    <3>2. /\ (IF i < p THEN i ELSE i + 1) \in 1 .. Len(q)
          /\ (IF j < p THEN j ELSE j + 1) \in 1 .. Len(q)
          /\ (IF i < p THEN i ELSE i + 1) < (IF j < p THEN j ELSE j + 1)
      BY <1>2, <2>1
    <3> QED BY <3>1, <3>2
  <2>3. <<x, y>> \in Order(q)
    BY <1>2, <2>2, InOrder
  <2>4. InList(u, x) /\ InList(u, y)
    BY <1>2, <2>1 DEF InList
  <2> QED BY <1>4, <2>3, <2>4 DEF Members
<1>7. ASSUME NEW x \in Sessions, NEW y \in Sessions, <<x, y>> \in Order(q), x \in T, y \in T
      PROVE  <<x, y>> \in Order(u)
  <2>1. PICK i \in 1 .. Len(q), j \in 1 .. Len(q) : i < j /\ q[i] = x /\ q[j] = y
    BY <1>2, <1>7, InOrder
  <2>2. i # p /\ j # p
    BY <1>7, <2>1
  <2> DEFINE k == IF i < p THEN i ELSE i - 1
             l == IF j < p THEN j ELSE j - 1
  <2>3. /\ k \in 1 .. Len(q) - 1 /\ l \in 1 .. Len(q) - 1 /\ k < l
        /\ (IF k < p THEN k ELSE k + 1) = i
        /\ (IF l < p THEN l ELSE l + 1) = j
    BY <1>2, <2>1, <2>2
  <2> HIDE DEF k, l
  <2>4. u[k] = x /\ u[l] = y
    BY <1>1, <2>1, <2>3
  <2> QED BY <1>2, <2>3, <2>4, InOrder
<1>8. Order(u) = Order(q) \cap (T \X T)
  <2> HIDE DEF T
  <2> QED BY <1>6, <1>7, SameOrder
<1> QED BY <1>5, <1>8 DEF u

\* The head is the only one with nobody ahead; the others keep their order.
LEMMA OrderOfTail ==
  ASSUME NEW q \in Seq(Sessions), Distinct(q), q # <<>>
  PROVE  /\ Head(q) \in Members(q)
         /\ Members(Tail(q)) = Members(q) \ {Head(q)}
         /\ Order(Tail(q)) =
               Order(q) \cap ((Members(q) \ {Head(q)}) \X (Members(q) \ {Head(q)}))
         /\ \A x \in Members(q) :
               (\A y \in Members(q) : <<y, x>> \notin Order(q)) <=> x = Head(q)
<1> DEFINE u == Tail(q)
           h == Head(q)
           T == Members(q) \ {h}
<1>1. /\ h = q[1] /\ h \in Sessions
      /\ u \in Seq(Sessions)
      /\ Len(u) = Len(q) - 1
      /\ \A i \in 1 .. Len(u) : u[i] = q[i + 1]
  BY HeadTailProperties
<1>2. /\ DOMAIN u = 1 .. Len(q) - 1
      /\ DOMAIN q = 1 .. Len(q)
      /\ Len(q) \in Nat \ {0}
  BY <1>1, EmptySeq
<1> HIDE DEF u, h
<1>3. \A i, j \in 1 .. Len(q) : q[i] = q[j] => i = j
  BY <1>2 DEF Distinct
<1>4. ASSUME NEW x \in Sessions PROVE InList(u, x) <=> InList(q, x) /\ x # h
  <2>1. ASSUME NEW j \in 1 .. Len(q) - 1, u[j] = x PROVE InList(q, x) /\ x # h
    <3>1. j + 1 \in 1 .. Len(q) /\ j + 1 # 1 /\ 1 \in 1 .. Len(q) /\ q[j + 1] = x
      BY <1>1, <1>2, <2>1
    <3> QED BY <1>1, <1>2, <1>3, <3>1 DEF InList
  <2>2. ASSUME NEW i \in 1 .. Len(q), q[i] = x, x # h PROVE InList(u, x)
    <3>1. i - 1 \in 1 .. Len(q) - 1 /\ (i - 1) + 1 = i
      BY <1>1, <1>2, <2>2
    <3>2. u[i - 1] = q[i]
      BY <1>1, <3>1
    <3> QED BY <1>2, <2>2, <3>1, <3>2 DEF InList
  <2> QED BY <1>2, <2>1, <2>2 DEF InList
<1>5. Members(u) = T
  BY <1>4 DEF Members
<1>6. h \in Members(q)
  <2>1. 1 \in DOMAIN q
    BY <1>2
  <2> QED BY <1>1, <2>1 DEF Members, InList
<1>7. ASSUME NEW x \in Sessions, NEW y \in Sessions, <<x, y>> \in Order(u)
      PROVE  <<x, y>> \in Order(q) /\ x \in T /\ y \in T
  <2>1. PICK i \in 1 .. Len(q) - 1, j \in 1 .. Len(q) - 1 : i < j /\ u[i] = x /\ u[j] = y
    BY <1>2, <1>7, InOrder
  <2>2. /\ i + 1 \in DOMAIN q /\ j + 1 \in DOMAIN q /\ i + 1 < j + 1
        /\ q[i + 1] = x /\ q[j + 1] = y
    BY <1>1, <1>2, <2>1
  <2>3. <<x, y>> \in Order(q)
    BY <2>2, InOrder
  <2>4. InList(u, x) /\ InList(u, y)
    BY <1>2, <2>1 DEF InList
  <2> QED BY <1>4, <2>3, <2>4 DEF Members
<1>8. ASSUME NEW x \in Sessions, NEW y \in Sessions, <<x, y>> \in Order(q), x \in T, y \in T
      PROVE  <<x, y>> \in Order(u)
  <2>1. PICK i \in 1 .. Len(q), j \in 1 .. Len(q) : i < j /\ q[i] = x /\ q[j] = y
    BY <1>2, <1>8, InOrder
  <2>2. i # 1 /\ j # 1
    BY <1>1, <1>8, <2>1
  <2>3. /\ i - 1 \in 1 .. Len(q) - 1 /\ j - 1 \in 1 .. Len(q) - 1 /\ i - 1 < j - 1
        /\ (i - 1) + 1 = i /\ (j - 1) + 1 = j
    BY <1>2, <2>1, <2>2
  <2>4. u[i - 1] = q[i] /\ u[j - 1] = q[j]
    BY <1>1, <2>3
  <2>5. i - 1 \in DOMAIN u /\ j - 1 \in DOMAIN u /\ u[i - 1] = x /\ u[j - 1] = y
    BY <1>2, <2>1, <2>3, <2>4
  <2> QED BY <2>3, <2>5, InOrder
<1>9. Order(u) = Order(q) \cap (T \X T)
  <2> HIDE DEF T
  <2> QED BY <1>7, <1>8, SameOrder
<1>10. ASSUME NEW x \in Members(q)
       PROVE  (\A y \in Members(q) : <<y, x>> \notin Order(q)) <=> x = h
  <2>1. PICK i \in 1 .. Len(q) : q[i] = x
    BY <1>2 DEF Members, InList
  <2>2. CASE x = h
    <3>1. ASSUME NEW y, <<y, x>> \in Order(q) PROVE FALSE
      <4>1. PICK k \in 1 .. Len(q), l \in 1 .. Len(q) : k < l /\ q[k] = y /\ q[l] = x
        BY <1>2, <3>1, InOrder
      <4>2. l = 1
        BY <1>1, <1>2, <1>3, <2>2, <4>1
      <4> QED BY <4>1, <4>2
    <3> QED BY <2>2, <3>1
  <2>3. CASE x # h
    <3>1. /\ 1 \in DOMAIN q /\ i \in DOMAIN q /\ 1 < i
          /\ x \in Sessions
      BY <1>1, <1>2, <2>1, <2>3 DEF Members
    <3>2. <<h, x>> \in Order(q)
      BY <1>1, <2>1, <3>1, InOrder
    <3> QED BY <1>6, <2>3, <3>2
  <2> QED BY <2>2, <2>3
<1> QED BY <1>5, <1>6, <1>9, <1>10 DEF u, h

\* Whoever joins the list is behind all the others.
LEMMA OrderOfAppend ==
  ASSUME NEW q \in Seq(Sessions), NEW s \in Sessions
  PROVE  /\ Members(Append(q, s)) = Members(q) \cup {s}
         /\ Order(Append(q, s)) = Order(q) \cup (Members(q) \X {s})
<1> DEFINE r == Append(q, s)
<1>1. /\ r \in Seq(Sessions)
      /\ Len(r) = Len(q) + 1
      /\ \A i \in 1 .. Len(q) : r[i] = q[i]
      /\ r[Len(q) + 1] = s
  BY AppendProperties
<1>2. /\ Len(q) \in Nat
      /\ DOMAIN q = 1 .. Len(q)
      /\ DOMAIN r = 1 .. Len(q) + 1
  BY <1>1
<1> HIDE DEF r
<1>3. \A x : InList(r, x) <=> InList(q, x) \/ x = s
  <2> TAKE x
  <2>1. ASSUME NEW i \in 1 .. Len(q) + 1, r[i] = x PROVE InList(q, x) \/ x = s
    BY <1>1, <1>2, <2>1 DEF InList
  <2>2. ASSUME NEW i \in 1 .. Len(q), q[i] = x PROVE InList(r, x)
    BY <1>1, <1>2, <2>2 DEF InList
  <2>3. InList(r, s)
    BY <1>1, <1>2 DEF InList
  <2> QED BY <1>2, <2>1, <2>2, <2>3 DEF InList
<1>4. Members(r) = Members(q) \cup {s}
  BY <1>3 DEF Members
<1>5. ASSUME NEW x \in Sessions, NEW y \in Sessions
      PROVE  <<x, y>> \in Order(r) <=>
                <<x, y>> \in Order(q) \/ (InList(q, x) /\ y = s)
  <2>1. ASSUME NEW i \in 1 .. Len(q) + 1, NEW j \in 1 .. Len(q) + 1,
               i < j, r[i] = x, r[j] = y
        PROVE  <<x, y>> \in Order(q) \/ (InList(q, x) /\ y = s)
    <3>1. i \in DOMAIN q /\ q[i] = x
      BY <1>1, <1>2, <2>1
    <3>2. CASE j = Len(q) + 1
      BY <1>1, <2>1, <3>1, <3>2 DEF InList
    <3>3. CASE j # Len(q) + 1
      <4>1. j \in DOMAIN q /\ q[j] = y
        BY <1>1, <1>2, <2>1, <3>3
      <4> QED BY <2>1, <3>1, <4>1, InOrder
    <3> QED BY <3>2, <3>3
  <2>2. ASSUME NEW i \in 1 .. Len(q), NEW j \in 1 .. Len(q), i < j, q[i] = x, q[j] = y
        PROVE  <<x, y>> \in Order(r)
    <3>1. i \in DOMAIN r /\ j \in DOMAIN r /\ r[i] = x /\ r[j] = y
      BY <1>1, <1>2, <2>2
    <3> QED BY <2>2, <3>1, InOrder
  <2>3. ASSUME NEW i \in 1 .. Len(q), q[i] = x, y = s
        PROVE  <<x, y>> \in Order(r)
    <3>1. /\ i \in DOMAIN r /\ Len(q) + 1 \in DOMAIN r /\ i < Len(q) + 1
          /\ r[i] = x /\ r[Len(q) + 1] = y
      BY <1>1, <1>2, <2>3
    <3> QED BY <3>1, InOrder
  <2>4. <<x, y>> \in Order(r) => <<x, y>> \in Order(q) \/ (InList(q, x) /\ y = s)
    BY <1>2, <2>1, InOrder
  <2>5. <<x, y>> \in Order(q) => <<x, y>> \in Order(r)
    BY <1>2, <2>2, InOrder
  <2>6. InList(q, x) /\ y = s => <<x, y>> \in Order(r)
    BY <1>2, <2>3 DEF InList
  <2> QED BY <2>4, <2>5, <2>6
<1>6. Order(r) = Order(q) \cup (Members(q) \X {s})
  <2>1. Order(r) \subseteq Sessions \X Sessions /\ Order(q) \subseteq Sessions \X Sessions
    BY DEF Order
  <2>2. Members(q) \subseteq Sessions /\ \A x \in Sessions : x \in Members(q) <=> InList(q, x)
    BY DEF Members
  <2>3. \A x, y \in Sessions : <<x, y>> \in Order(r) <=>
             <<x, y>> \in Order(q) \cup (Members(q) \X {s})
    BY <1>5, <2>2
  <2> QED BY <2>1, <2>2, <2>3
<1> QED BY <1>4, <1>6 DEF r

-----------------------------------------------------------------------------
(* Counting those who play *)

\* The active sessions are as many as GetActiveSessionCount says.
LEMMA PlayingCount ==
  ASSUME IInv
  PROVE  /\ IsFiniteSet(Playing)
         /\ Cardinality(Playing) = GetActiveAndQueuedSessionCount - Len(m_QueuedPlayer)
<1> DEFINE R == {x \in Sessions : IsRegistered(x)}
           O == Occupied(m_sessions)
           q == m_QueuedPlayer
           f == [a \in O |-> m_sessions[a]]
           g == [i \in 1 .. Len(q) |-> q[i]]
<1>1. /\ m_sessions \in [Accounts -> Sessions \cup {None}]
      /\ q \in Seq(Sessions)
      /\ None \notin Sessions
  BY NoneAssumption DEF IInv, TypeOK
<1>2. IsFiniteSet(O) /\ Cardinality(O) = GetActiveAndQueuedSessionCount
  BY AccountsAssumption, FS_Subset DEF Occupied, GetActiveAndQueuedSessionCount
<1>3. ExistsBijection(O, R)
  <2>1. \A a \in O : m_sessions[a] \in R /\ AccountOf[m_sessions[a]] = a
    BY <1>1 DEF Occupied, IInv, Keys, IsRegistered
  <2>2. \A x \in R : AccountOf[x] \in O /\ m_sessions[AccountOf[x]] = x
    BY <1>1, AccountsAssumption DEF Occupied, IsRegistered
  <2> HIDE DEF O, R
  <2>3. f \in [O -> R]
    BY <2>1
  <2>4. \A a, b \in O : f[a] = f[b] => a = b
    BY <2>1
  <2>5. \A x \in R : \E a \in O : f[a] = x
    BY <2>2
  <2>6. f \in Bijection(O, R)
    BY <2>3, <2>4, <2>5 DEF Bijection, Injection, Surjection, IsInjective
  <2> QED BY <2>6 DEF ExistsBijection
<1>4. IsFiniteSet(R) /\ Cardinality(R) = GetActiveAndQueuedSessionCount
  <2> HIDE DEF O, R
  <2> QED BY <1>2, <1>3, FS_Bijection
<1>5. InLine \subseteq R
  BY DEF InLine, Listed, IInv, QueueOfRegistered
<1>6. ExistsBijection(1 .. Len(q), InLine)
  <2>1. DOMAIN q = 1 .. Len(q) /\ \A i \in 1 .. Len(q) : q[i] \in Sessions
    BY <1>1
  <2>2. \A x \in InLine : \E i \in 1 .. Len(q) : q[i] = x
    BY <2>1 DEF InLine, Listed
  <2>3. \A i \in 1 .. Len(q) : q[i] \in InLine
    BY <2>1 DEF InLine, Listed
  <2>4. \A i, j \in 1 .. Len(q) : q[i] = q[j] => i = j
    BY <2>1 DEF IInv, QueueOfRegistered
  <2> HIDE DEF q
  <2>5. g \in [1 .. Len(q) -> InLine]
    BY <2>3
  <2>6. g \in Bijection(1 .. Len(q), InLine)
    BY <2>2, <2>4, <2>5 DEF Bijection, Injection, Surjection, IsInjective
  <2> QED BY <2>6 DEF ExistsBijection
<1>7. IsFiniteSet(InLine) /\ Cardinality(InLine) = Len(q)
  <2>1. Len(q) \in Nat
    BY <1>1
  <2> HIDE DEF q
  <2> DEFINE D == 1 .. Len(q)
  <2>2. IsFiniteSet(D) /\ Cardinality(D) = Len(q)
    <3>1. PICK n \in Nat : n = Len(q)
      BY <2>1
    <3>2. IsFiniteSet(1 .. n) /\ Cardinality(1 .. n) = n
      <4>1. 1 \in Int /\ n \in Int /\ (IF 1 > n THEN 0 ELSE n - 1 + 1) = n
        OBVIOUS
      <4> QED BY <4>1, FS_Interval
    <3> QED BY <3>1, <3>2
  <2>3. ExistsBijection(D, InLine)
    BY <1>6
  <2> HIDE DEF D
  <2> QED BY Zenon, <2>2, <2>3, FS_Bijection
<1>8. Playing = R \ InLine
  BY DEF Playing, InLine
<1>9. R \cap InLine = InLine
  BY <1>5
<1> HIDE DEF R, q
<1>10. IsFiniteSet(R \ InLine) /\ Cardinality(R \ InLine) = Cardinality(R) - Cardinality(R \cap InLine)
  BY <1>4, FS_Difference
<1> QED BY <1>4, <1>7, <1>8, <1>9, <1>10 DEF q

\* How many play once s is gone.
LEMMA PlayingWithout ==
  ASSUME IInv, NEW s \in Sessions, IsRegistered(s)
  PROVE  /\ IsFiniteSet(Playing \ {s})
         /\ Cardinality(Playing \ {s}) = ActiveWithout(s)
<1>1. /\ IsFiniteSet(Playing)
      /\ Cardinality(Playing) = GetActiveAndQueuedSessionCount - Len(m_QueuedPlayer)
  BY PlayingCount
<1>2. s \in Playing <=> ~Listed(s)
  BY DEF Playing
<1>3. /\ IsFiniteSet(Playing \ {s})
      /\ Cardinality(Playing \ {s}) =
            IF s \in Playing THEN Cardinality(Playing) - 1 ELSE Cardinality(Playing)
  BY <1>1, FS_RemoveElement
<1>4. Cardinality(Playing) \in Nat
  BY <1>1, FS_CardinalityType
<1> QED BY <1>1, <1>2, <1>3, <1>4 DEF ActiveWithout

-----------------------------------------------------------------------------
(* Departures *)

realm == [playing |-> Playing, waits |-> InLine, ahead |-> Ahead, graced |-> m_disconnects]

\* The session RemoveQueuedPlayer(s) accepts.
Accepted(s) == IF Accepts(s) THEN {Head(Unlisted(s))} ELSE {}

\* LoginQueue counts as this module does.
LEMMA SameCardinality == \A T : line!Cardinality(T) = Cardinality(T)
  BY DEF line!Cardinality, Cardinality

\* What RemoveQueuedPlayer leaves is what LoginQueue says of a departure.
LEMMA LeftIs ==
  ASSUME IInv, NEW s \in Sessions, IsRegistered(s)
  PROVE  line!Left(s) = [playing |-> (Playing \ {s}) \cup Accepted(s),
                         waits   |-> Members(QueueAfter(s)),
                         ahead   |-> Order(QueueAfter(s)),
                         graced  |-> DisconnectsAfter(s)]
<1> DEFINE stays == Playing \ {s}
           others == InLine \ {s}
           u == Unlisted(s)
           admitted == {x \in others :
                           /\ PlayerLimit = 0 \/ Cardinality(stays) < PlayerLimit
                           /\ \A y \in others : <<y, x>> \notin Ahead}
           rest == others \ admitted
<1>1. line!Left(s) =
         [playing |-> stays \cup admitted,
          waits   |-> rest,
          ahead   |-> Ahead \cap (rest \X rest),
          graced  |-> IF DisconnectTolerance /\ s \notin InLine
                      THEN m_disconnects \cup {AccountOf[s]}
                      ELSE m_disconnects]
  BY SameCardinality DEF line!Left
<1>2. Cardinality(stays) = ActiveWithout(s)
  BY PlayingWithout
<1>3. /\ u \in Seq(Sessions)
      /\ Distinct(u)
  BY UnlistedProperties DEF IInv
<1>4. /\ m_QueuedPlayer \in Seq(Sessions)
      /\ Distinct(m_QueuedPlayer)
  BY DEF IInv, TypeOK, QueueOfRegistered, Distinct
<1>5. /\ Members(u) = others
      /\ Order(u) = Ahead \cap (others \X others)
  <2>1. CASE Listed(s)
    <3> DEFINE q == m_QueuedPlayer
               p == GetQueuePos(q, s)
    <3>1. p \in 1 .. Len(q) /\ q[p] = s
      <4>1. \E i \in DOMAIN q : q[i] = s
        BY <2>1 DEF Listed
      <4> QED BY <1>4, <4>1 DEF GetQueuePos
    <3>2. u = RemoveAt(q, p)
      BY <2>1 DEF Unlisted
    <3> HIDE DEF p, u
    <3>3. /\ Members(RemoveAt(q, p)) = Members(q) \ {q[p]}
          /\ Order(RemoveAt(q, p)) =
                Order(q) \cap ((Members(q) \ {q[p]}) \X (Members(q) \ {q[p]}))
      BY <1>4, <3>1, OrderOfRemoveAt
    <3> QED BY <3>1, <3>2, <3>3, LineIs
  <2>2. CASE ~Listed(s)
    <3>1. u = m_QueuedPlayer /\ s \notin InLine
      BY <2>2 DEF Unlisted, InLine
    <3> QED BY <3>1, LineIs, OrderOfMembers
  <2> QED BY <2>1, <2>2
<1>6. /\ admitted = Accepted(s)
      /\ rest = Members(QueueAfter(s))
      /\ Ahead \cap (rest \X rest) = Order(QueueAfter(s))
  <2>1. CASE Accepts(s)
    <3>1. /\ PlayerLimit = 0 \/ Cardinality(stays) < PlayerLimit
          /\ u # <<>>
          /\ QueueAfter(s) = Tail(u)
          /\ Accepted(s) = {Head(u)}
      BY <1>2, <2>1 DEF Accepts, QueueAfter, Accepted
    <3> HIDE DEF u, stays
    <3>2. /\ Head(u) \in Members(u)
          /\ Members(Tail(u)) = Members(u) \ {Head(u)}
          /\ Order(Tail(u)) =
                Order(u) \cap ((Members(u) \ {Head(u)}) \X (Members(u) \ {Head(u)}))
          /\ \A x \in Members(u) :
                (\A y \in Members(u) : <<y, x>> \notin Order(u)) <=> x = Head(u)
      BY <1>3, <3>1, OrderOfTail
    <3>3. \A x \in others : (\A y \in others : <<y, x>> \notin Ahead) <=> x = Head(u)
      <4> HIDE DEF others
      <4>1. \A x \in others :
               (\A y \in others : <<y, x>> \notin Ahead \cap (others \X others)) <=> x = Head(u)
        BY <1>5, <3>2
      <4>2. \A x, y \in others : <<y, x>> \in others \X others
        OBVIOUS
      <4> QED BY <4>1, <4>2
    <3> HIDE DEF others
    <3>4. admitted = {Head(u)}
      BY <1>5, <3>1, <3>2, <3>3
    <3> HIDE DEF admitted
    <3>5. rest = Members(QueueAfter(s))
      BY <1>5, <3>1, <3>2, <3>4
    <3>6. Ahead \cap (rest \X rest) = Order(QueueAfter(s))
      <4>1. rest \subseteq others
        OBVIOUS
      <4>2. Order(QueueAfter(s)) = (Ahead \cap (others \X others)) \cap (rest \X rest)
        BY <1>5, <3>1, <3>2, <3>4
      <4> HIDE DEF rest
      <4> QED BY <4>1, <4>2
    <3> QED BY <3>1, <3>4, <3>5, <3>6
  <2>2. CASE ~Accepts(s)
    <3>1. /\ ~(PlayerLimit = 0 \/ Cardinality(stays) < PlayerLimit) \/ u = <<>>
          /\ QueueAfter(s) = u
          /\ Accepted(s) = {}
      BY <1>2, <2>2 DEF Accepts, QueueAfter, Accepted
    <3>2. u = <<>> => others = {}
      <4>1. Members(<<>>) = {}
        BY DEF Members, InList
      <4> QED BY <1>5, <4>1
    <3> HIDE DEF u, stays, others
    <3>3. admitted = {}
      BY <3>1, <3>2
    <3> QED BY <1>5, <3>1, <3>3
  <2> QED BY <2>1, <2>2
<1>7. DisconnectsAfter(s) = IF DisconnectTolerance /\ s \notin InLine
                            THEN m_disconnects \cup {AccountOf[s]}
                            ELSE m_disconnects
  BY LimitAssumption DEF DisconnectsAfter, InLine
<1> HIDE DEF stays, admitted, rest
<1> QED BY <1>1, <1>6, <1>7 DEF stays

\* Who plays after a departure.
LEMMA PlayingAfter ==
  ASSUME IInv, NEW s \in Sessions, IsRegistered(s)
  PROVE  (Playing \ {s}) \cup Accepted(s) =
            {x \in Sessions : IsRegistered(x) /\ x # s /\ ~InList(QueueAfter(s), x)}
<1>1. /\ Accepts(s) => /\ Listed(Head(Unlisted(s)))
                       /\ Head(Unlisted(s)) # s
                       /\ Head(Unlisted(s)) \in Sessions
      /\ \A x : InList(QueueAfter(s), x) <=>
                      /\ Listed(x) /\ x # s
                      /\ ~(Accepts(s) /\ x = Head(Unlisted(s)))
  BY QueueAfterMembers
<1>2. \A x : Listed(x) => IsRegistered(x)
  BY DEF IInv, QueueOfRegistered, Listed
<1> QED BY <1>1, <1>2 DEF Playing, Accepted

\* Whoever is in m_sessions is present.
LEMMA PresentIs ==
  ASSUME IInv
  PROVE  line!Present = {x \in Sessions : IsRegistered(x)}
<1>1. \A x : Listed(x) => IsRegistered(x)
  BY DEF IInv, QueueOfRegistered, Listed
<1>2. line!Present = Playing \cup InLine
  BY DEF line!Present
<1> QED BY <1>1, <1>2 DEF Playing, InLine

\* A session that leaves m_sessions leaves the realm of LoginQueue.
LEMMA UnregisterRefines ==
  ASSUME IInv, NEW s \in Sessions, IsRegistered(s), NEW S, Unregister(s, S)
  PROVE  realm' = line!Left(s) /\ s \in line!Present
<1>1. /\ m_sessions' = [m_sessions EXCEPT ![AccountOf[s]] = None]
      /\ m_QueuedPlayer' = QueueAfter(s)
      /\ m_disconnects' = DisconnectsAfter(s)
  BY DEF Unregister
<1>2. /\ m_sessions \in [Accounts -> Sessions \cup {None}]
      /\ AccountOf \in [Sessions -> Accounts]
      /\ None \notin Sessions
  BY NoneAssumption, AccountsAssumption DEF IInv, TypeOK
<1>3. \A x \in Sessions : m_sessions'[AccountOf[x]] = x <=> IsRegistered(x) /\ x # s
  <2> TAKE x \in Sessions
  <2>1. CASE AccountOf[x] = AccountOf[s]
    BY <1>1, <1>2, <2>1 DEF IsRegistered
  <2>2. CASE AccountOf[x] # AccountOf[s]
    BY <1>1, <1>2, <2>2 DEF IsRegistered
  <2> QED BY <2>1, <2>2
<1>4. Playing' = {x \in Sessions : IsRegistered(x) /\ x # s /\ ~InList(QueueAfter(s), x)}
  <2>1. Playing' = {x \in Sessions : m_sessions'[AccountOf[x]] = x /\ ~InList(m_QueuedPlayer', x)}
    BY DEF Playing, IsRegistered, Listed, InList
  <2> QED BY <1>1, <1>3, <2>1
<1>5. InLine' = Members(QueueAfter(s)) /\ Ahead' = Order(QueueAfter(s))
  BY <1>1 DEF InLine, Ahead, Members, Order, InList, Listed
<1>6. realm' = [playing |-> (Playing \ {s}) \cup Accepted(s), waits |-> Members(QueueAfter(s)),
                ahead |-> Order(QueueAfter(s)), graced |-> DisconnectsAfter(s)]
  BY <1>1, <1>4, <1>5, PlayingAfter DEF realm
<1> QED BY <1>6, LeftIs, PresentIs

-----------------------------------------------------------------------------
(* Admissions *)

\* A realm whose line is the list q.
RealmOf(P, q, d) ==
    [playing |-> P, waits |-> Members(q), ahead |-> Order(q), graced |-> d]

\* AddSession_ counts the waiting sessions with the others and LoginQueue asks
\* whether anybody waits: it is the same, because nobody waits beside a free
\* slot.  P, q and d are those who play and wait, and the tolerated accounts,
\* once the account's own slot is free.
LEMMA EnteredIs ==
  ASSUME NEW s \in Sessions, NEW q \in Seq(Sessions), NEW P, NEW d, NEW others \in Int,
         NEW S, NEW t, Join(s, others, S, q, t, d),
         IsFiniteSet(P), others = Cardinality(P) + Len(q),
         q # <<>> => Cardinality(P) >= PlayerLimit
  PROVE  line!Entered(RealmOf(P, q, d), s)
         = RealmOf(IF InList(m_QueuedPlayer', s) /\ m_QueuedPlayer' # q THEN P ELSE P \cup {s},
                   m_QueuedPlayer', m_disconnects')
<1> DEFINE R == [playing |-> P, waits |-> Members(q), ahead |-> Order(q), graced |-> d]
           w == Waits(s, others, d)
           r == Append(q, s)
<1>1. /\ m_QueuedPlayer' = IF w THEN r ELSE q
      /\ m_disconnects' = d
  BY JoinExpanded
<1>2. Cardinality(P) \in Nat /\ Len(q) \in Nat /\ PlayerLimit \in Nat
  BY FS_CardinalityType, LimitAssumption
<1>3. /\ r # q /\ InList(r, s)
      /\ Members(r) = Members(q) \cup {s}
      /\ Order(r) = Order(q) \cup (Members(q) \X {s})
  <2>1. /\ r \in Seq(Sessions) /\ Len(r) = Len(q) + 1 /\ r[Len(q) + 1] = s
    BY AppendProperties
  <2> HIDE DEF r
  <2>2. r # q /\ Len(q) + 1 \in DOMAIN r
    BY <1>2, <2>1
  <2>3. InList(r, s)
    BY <2>1, <2>2 DEF InList
  <2> QED BY <2>2, <2>3, OrderOfAppend DEF r
<1>4. Members(q) # {} <=> q # <<>>
  <2>1. q # <<>> => 1 \in DOMAIN q /\ q[1] \in Sessions
    BY <1>2, EmptySeq
  <2>2. q = <<>> => Members(q) = {}
    BY DEF Members, InList
  <2> QED BY <2>1, <2>2 DEF Members, InList
<1>5. Len(q) = 0 <=> q = <<>>
  BY EmptySeq
<1>6. line!MustWait(R, s) <=> w
  <2>1. line!MustWait(R, s) <=>
           /\ PlayerLimit > 0
           /\ Members(q) # {} \/ Cardinality(P) >= PlayerLimit
           /\ s \notin Privileged
           /\ ~(DisconnectTolerance /\ AccountOf[s] \in d)
    BY SameCardinality DEF line!MustWait
  <2>2. others >= PlayerLimit <=> q # <<>> \/ Cardinality(P) >= PlayerLimit
    BY <1>2, <1>5
  <2> QED BY <1>4, <2>1, <2>2 DEF Waits
<1>7. line!Entered(R, s) =
         IF line!MustWait(R, s)
         THEN [playing |-> P, waits |-> Members(q) \cup {s},
               ahead |-> Order(q) \cup (Members(q) \X {s}), graced |-> d]
         ELSE [playing |-> P \cup {s}, waits |-> Members(q), ahead |-> Order(q), graced |-> d]
  BY DEF line!Entered
<1> DEFINE after == [playing |-> IF InList(m_QueuedPlayer', s) /\ m_QueuedPlayer' # q
                                 THEN P ELSE P \cup {s},
                     waits   |-> Members(m_QueuedPlayer'),
                     ahead   |-> Order(m_QueuedPlayer'),
                     graced  |-> m_disconnects']
<1> SUFFICES line!Entered(R, s) = after
  BY DEF RealmOf
<1> HIDE DEF R, w, r
<1>8. CASE w
  BY <1>1, <1>3, <1>6, <1>7, <1>8
<1>9. CASE ~w
  BY <1>1, <1>6, <1>7, <1>9
<1> QED BY <1>8, <1>9

\* Those who play once s has joined.
LEMMA JoinRefines ==
  ASSUME IInv, NEW s \in Sessions, ~IsRegistered(s), NEW q \in Seq(Sessions), NEW P, NEW d,
         NEW others \in Int, NEW S, NEW t, Join(s, others, S, q, t, d),
         IsFiniteSet(P), others = Cardinality(P) + Len(q),
         q # <<>> => Cardinality(P) >= PlayerLimit,
         P = {x \in Sessions : /\ IsRegistered(x) /\ x # m_sessions[AccountOf[s]]
                               /\ ~InList(q, x)},
         \A x : InList(q, x) => IsRegistered(x)
  PROVE  realm' = line!Entered(RealmOf(P, q, d), s)
<1>1. /\ m_sessions' = [m_sessions EXCEPT ![AccountOf[s]] = s]
      /\ m_QueuedPlayer' = IF Waits(s, others, d) THEN Append(q, s) ELSE q
  BY JoinExpanded
<1>2. /\ m_sessions \in [Accounts -> Sessions \cup {None}]
      /\ AccountOf \in [Sessions -> Accounts]
      /\ None \notin Sessions
  BY NoneAssumption, AccountsAssumption DEF IInv, TypeOK
<1>3. \A x \in Sessions : m_sessions'[AccountOf[x]] = x <=>
            x = s \/ (IsRegistered(x) /\ x # m_sessions[AccountOf[s]])
  <2> TAKE x \in Sessions
  <2>1. CASE AccountOf[x] = AccountOf[s]
    BY <1>1, <1>2, <2>1 DEF IsRegistered
  <2>2. CASE AccountOf[x] # AccountOf[s]
    BY <1>1, <1>2, <2>2 DEF IsRegistered, IInv, Keys
  <2> QED BY <2>1, <2>2
<1>4. /\ Playing' = {x \in Sessions : m_sessions'[AccountOf[x]] = x /\ ~InList(m_QueuedPlayer', x)}
      /\ InLine' = Members(m_QueuedPlayer')
      /\ Ahead' = Order(m_QueuedPlayer')
  BY DEF Playing, IsRegistered, Listed, InList, InLine, Ahead, Members, Order
<1>5. ~InList(q, s)
  OBVIOUS
<1>6. \A x \in Sessions : InList(Append(q, s), x) <=> InList(q, x) \/ x = s
  BY OrderOfAppend DEF Members
<1>7. Playing' = IF InList(m_QueuedPlayer', s) /\ m_QueuedPlayer' # q THEN P ELSE P \cup {s}
  <2>1. CASE Waits(s, others, d)
    <3>1. m_QueuedPlayer' = Append(q, s) /\ InList(m_QueuedPlayer', s) /\ m_QueuedPlayer' # q
      BY <1>1, <1>5, <1>6, <2>1
    <3> QED BY <1>3, <1>4, <1>6, <3>1
  <2>2. CASE ~Waits(s, others, d)
    <3>1. m_QueuedPlayer' = q
      BY <1>1, <2>2
    <3> QED BY <1>3, <1>4, <1>5, <3>1
  <2> QED BY <2>1, <2>2
<1>8. realm' = [playing |-> Playing', waits |-> InLine', ahead |-> Ahead', graced |-> m_disconnects']
  BY DEF realm
<1>9. line!Entered(RealmOf(P, q, d), s)
         = RealmOf(IF InList(m_QueuedPlayer', s) /\ m_QueuedPlayer' # q THEN P ELSE P \cup {s},
                   m_QueuedPlayer', m_disconnects')
  BY ZenonT(40), EnteredIs
<1> QED BY <1>4, <1>7, <1>8, <1>9 DEF RealmOf

\* The session AddSession_ is called for is new.
LEMMA HeadIsNew ==
  ASSUME IInv, PInv, addSessQueue # <<>>
  PROVE  Head(addSessQueue) \in Sessions /\ ~IsRegistered(Head(addSessQueue))
<1>1. Head(addSessQueue) \in Sessions /\ addSessQueue \in Seq(Sessions)
  BY NewSessionFacts DEF IInv, TypeOK
<1>2. Waiting(Head(addSessQueue))
  BY <1>1, HeadLeaves, WaitingInList DEF PInv, InOnePlace
<1> QED BY <1>1, <1>2 DEF PInv, InOnePlace

\* A first session of its account enters.
LEMMA AddSessionRefines ==
  ASSUME IInv, PInv, AddSession
  PROVE  \E s \in Sessions : line!Enter(s)
<1> DEFINE s == Head(addSessQueue)
           n == GetActiveAndQueuedSessionCount
           q == m_QueuedPlayer
<1>1. /\ addSessQueue # <<>>
      /\ m_sessions[AccountOf[s]] = None
      /\ Join(s, n, sess, q, told, m_disconnects)
      /\ UNCHANGED stage
  BY DEF AddSession
<1>2. s \in Sessions /\ ~IsRegistered(s)
  BY <1>1, HeadIsNew
<1>3. q \in Seq(Sessions) /\ Len(q) \in Nat
  BY DEF IInv, TypeOK
<1>4. IsFiniteSet(Playing) /\ Cardinality(Playing) = n - Len(q)
  BY PlayingCount
<1>5. Cardinality(Playing) \in Nat
  BY <1>4, FS_CardinalityType
<1>6. n \in Int
  <2>1. Cardinality(Occupied(m_sessions)) \in Nat
    BY AccountsAssumption, FS_Subset, FS_CardinalityType DEF Occupied
  <2> QED BY <2>1 DEF GetActiveAndQueuedSessionCount, Occupied
<1>7. \A x : InList(q, x) <=> Listed(x)
  BY DEF InList, Listed
<1>8. \A x : Listed(x) => IsRegistered(x)
  BY DEF IInv, QueueOfRegistered, Listed
<1>9. Playing = {x \in Sessions : /\ IsRegistered(x) /\ x # m_sessions[AccountOf[s]]
                                  /\ ~InList(q, x)}
  BY <1>1, <1>7, NoneAssumption DEF Playing
<1>10. q # <<>> => Cardinality(Playing) >= PlayerLimit
  BY <1>4 DEF IInv, NobodyWaitsForAFreeSlot
<1>11. realm = RealmOf(Playing, q, m_disconnects)
  BY LineIs DEF realm, RealmOf
<1>12. n = Cardinality(Playing) + Len(q)
  BY <1>3, <1>4, <1>6
<1> DEFINE P == Playing
<1> HIDE DEF s, n, q, P
<1>13. realm' = line!Entered(RealmOf(P, q, m_disconnects), s)
  BY <1>1, <1>2, <1>3, <1>4, <1>6, <1>7, <1>8, <1>9, <1>10, <1>12, JoinRefines DEF P
<1>14. realm' = line!Entered(realm, s)
  BY <1>11, <1>13 DEF P
<1>15. \A x \in line!Present : AccountOf[x] # AccountOf[s]
  BY <1>1, PresentIs, NoneAssumption DEF IsRegistered
<1> QED BY <1>1, <1>2, <1>14, <1>15 DEF line!Enter, realm

\* How many play once s has left and the first of the line has entered.
LEMMA PlayingAfterCount ==
  ASSUME IInv, NEW s \in Sessions, IsRegistered(s)
  PROVE  /\ IsFiniteSet((Playing \ {s}) \cup Accepted(s))
         /\ Cardinality((Playing \ {s}) \cup Accepted(s)) =
               GetActiveAndQueuedSessionCount - 1 - Len(QueueAfter(s))
<1> DEFINE h == Head(Unlisted(s))
           n == GetActiveAndQueuedSessionCount
           P == Playing \ {s}
           q == m_QueuedPlayer
<1>1. /\ IsFiniteSet(P)
      /\ Cardinality(P) = n - Len(q) - (IF Listed(s) THEN 0 ELSE 1)
  BY PlayingWithout DEF ActiveWithout
<1>2. Cardinality(P) \in Nat /\ Len(q) \in Nat
  BY <1>1, FS_CardinalityType DEF IInv, TypeOK
<1>3. Len(QueueAfter(s)) = Len(q) - (IF Listed(s) THEN 1 ELSE 0)
                                  - (IF Accepts(s) THEN 1 ELSE 0)
  BY QueueAfterProperties DEF IInv
<1>4. n \in Int
  <2>1. Cardinality(Occupied(m_sessions)) \in Nat
    BY AccountsAssumption, FS_Subset, FS_CardinalityType DEF Occupied
  <2> QED BY <2>1 DEF GetActiveAndQueuedSessionCount, Occupied
<1>5. CASE Accepts(s)
  <2>1. Accepted(s) = {h} /\ h \notin P
    BY <1>5, QueueAfterMembers DEF Accepted, Playing
  <2> HIDE DEF P, h, n, q
  <2>2. /\ IsFiniteSet(P \cup {h})
        /\ Cardinality(P \cup {h}) = Cardinality(P) + 1
    BY <1>1, <2>1, FS_AddElement
  <2>3. Cardinality(P) + 1 = n - 1 - Len(QueueAfter(s))
    BY <1>1, <1>2, <1>3, <1>4, <1>5
  <2> QED BY <2>1, <2>2, <2>3 DEF P, n
<1>6. CASE ~Accepts(s)
  <2>1. P \cup Accepted(s) = P
    BY <1>6 DEF Accepted
  <2> HIDE DEF P, n, q
  <2>2. Cardinality(P) = n - 1 - Len(QueueAfter(s))
    BY <1>1, <1>2, <1>3, <1>4, <1>6
  <2> QED BY <1>1, <2>1, <2>2 DEF P, n
<1> QED BY <1>5, <1>6

\* A second session of its account takes over.
LEMMA ReplaceSessionRefines ==
  ASSUME IInv, PInv, ReplaceSession
  PROVE  \E s, old \in Sessions : line!TakeOver(old, s)
<1> DEFINE s == Head(addSessQueue)
           old == m_sessions[AccountOf[s]]
           m == GetActiveAndQueuedSessionCount - 1
           q == QueueAfter(old)
           d == DisconnectsAfter(old)
           P == (Playing \ {old}) \cup Accepted(old)
<1>1. /\ addSessQueue # <<>>
      /\ old # None
      /\ \E S : Join(s, m, S, q, ToldAfter(old), d)
      /\ UNCHANGED stage
  BY DEF ReplaceSession
<1>2. s \in Sessions /\ ~IsRegistered(s)
  BY <1>1, HeadIsNew
<1>3. /\ old \in Sessions /\ IsRegistered(old)
      /\ AccountOf[old] = AccountOf[s]
  <2>1. AccountOf[s] \in Accounts /\ m_sessions \in [Accounts -> Sessions \cup {None}]
    BY <1>2, AccountsAssumption DEF IInv, TypeOK
  <2> QED BY <1>1, <2>1 DEF IInv, Keys, IsRegistered
<1>4. /\ q \in Seq(Sessions) /\ Len(q) \in Nat
      /\ \A i \in DOMAIN q : q[i] # old /\ IsRegistered(q[i])
  BY <1>3, QueueAfterProperties, LenProperties DEF IInv
<1>5. IsFiniteSet(P) /\ Cardinality(P) = m - Len(q)
  BY <1>3, PlayingAfterCount
<1>6. Cardinality(P) \in Nat
  BY <1>5, FS_CardinalityType
<1>7. m \in Int
  <2>1. Cardinality(Occupied(m_sessions)) \in Nat
    BY AccountsAssumption, FS_Subset, FS_CardinalityType DEF Occupied
  <2> QED BY <2>1 DEF GetActiveAndQueuedSessionCount, Occupied
<1>8. q # <<>> => Cardinality(P) >= PlayerLimit
  BY <1>3, <1>5, DepartureKeepsSlotsFull DEF IInv
<1>9. P = {x \in Sessions : IsRegistered(x) /\ x # old /\ ~InList(q, x)}
  BY <1>3, PlayingAfter
<1>10. \A x : InList(q, x) => IsRegistered(x)
  BY <1>4 DEF InList
<1>11. line!Left(old) = RealmOf(P, q, d)
  BY <1>3, LeftIs DEF RealmOf
<1>12. old = m_sessions[AccountOf[s]]
  OBVIOUS
<1> HIDE DEF s, old, m, q, d, P
<1>13. m = Cardinality(P) + Len(q)
  BY <1>4, <1>5, <1>6, <1>7
<1>14. realm' = line!Entered(RealmOf(P, q, d), s)
  BY <1>1, <1>2, <1>4, <1>5, <1>7, <1>8, <1>9, <1>10, <1>12, <1>13, JoinRefines
<1>15. realm' = line!Entered(line!Left(old), s)
  BY <1>11, <1>14
<1>16. old \in line!Present /\ s \notin line!Present
  BY <1>2, <1>3, PresentIs
<1>17. line!TakeOver(old, s)
  BY <1>1, <1>3, <1>15, <1>16 DEF line!TakeOver, realm
<1> QED BY <1>2, <1>3, <1>17

-----------------------------------------------------------------------------
(* The refinement *)

\* A step that touches neither m_sessions nor the queue is a stutter.
LEMMA RealmStutters ==
  ASSUME UNCHANGED <<m_sessions, m_QueuedPlayer, m_disconnects>>,
         stage # "kicked" <=> stage' # "kicked"
  PROVE  UNCHANGED line!vars
  BY DEF line!vars, Playing, InLine, Ahead, IsRegistered, Listed

\* The server starts with an empty realm.
LEMMA InitRefines == Init => line!Init
<1> SUFFICES ASSUME Init PROVE line!Init
  OBVIOUS
<1>1. /\ m_QueuedPlayer = <<>> /\ m_disconnects = {} /\ stage = "running"
      /\ \A x \in Sessions : m_sessions[AccountOf[x]] = None
  BY AccountsAssumption DEF Init
<1>2. Playing = {} /\ InLine = {} /\ Ahead = {}
  BY <1>1, NoneAssumption DEF Playing, InLine, Ahead, IsRegistered, Listed
<1> QED BY <1>1, <1>2 DEF line!Init

\* A session that leaves m_sessions is a departure.
LEMMA DepartureRefines ==
  ASSUME IInv, UpdateRemoves \/ \E a \in Accounts : GoOffline(a)
  PROVE  \E s \in Sessions : line!Leave(s)
<1>1. \E s \in Sessions : IsRegistered(s) /\ \E S : Unregister(s, S)
  <2>1. CASE UpdateRemoves
    BY <2>1 DEF UpdateRemoves, IInv, TypeOK, Walk
  <2>2. ASSUME NEW a \in Accounts, GoOffline(a)
        PROVE  \E s \in Sessions : IsRegistered(s) /\ \E S : Unregister(s, S)
    <3>1. m_sessions[a] # None /\ m_sessions[a] \in Sessions
      BY <2>2 DEF GoOffline, IInv, TypeOK, Walk
    <3>2. IsRegistered(m_sessions[a])
      BY <3>1 DEF IInv, Keys, IsRegistered
    <3>3. \E S : Unregister(m_sessions[a], S)
      BY <2>2 DEF GoOffline
    <3> QED BY <3>1, <3>2, <3>3
  <2> QED BY <2>1, <2>2
<1>2. PICK s \in Sessions : IsRegistered(s) /\ \E S : Unregister(s, S)
  BY <1>1
<1>3. realm' = line!Left(s) /\ s \in line!Present
  BY <1>2, UnregisterRefines
<1>4. UNCHANGED stage
  BY DEF UpdateRemoves, GoOffline
<1> QED BY <1>3, <1>4 DEF line!Leave, realm

\* KickAll closes the realm: whoever waited counts as active from then on.
LEMMA KickAllRefines ==
  ASSUME IInv, KickAll
  PROVE  line!Close
<1>1. /\ m_QueuedPlayer' = <<>> /\ stage = "stopped" /\ stage' = "kicked"
      /\ UNCHANGED <<m_sessions, m_disconnects>>
  BY DEF KickAll
<1>2. InLine' = {} /\ Ahead' = {}
  BY <1>1 DEF InLine, Ahead, Listed
<1>3. Playing' = line!Present
  <2>1. Playing' = {x \in Sessions : IsRegistered(x)}
    BY <1>1 DEF Playing, IsRegistered, Listed
  <2> QED BY <2>1, PresentIs
<1>4. realm' = [playing |-> line!Present, waits |-> {}, ahead |-> {}, graced |-> m_disconnects]
  BY <1>1, <1>2, <1>3 DEF realm
<1> QED BY <1>1, <1>4 DEF line!Close, realm

\* Every step is a step of LoginQueue or a stutter.
LEMMA NextRefines == IInv /\ PInv /\ [Next]_vars => [line!Next]_line!vars
<1> SUFFICES ASSUME IInv, PInv, [Next]_vars
             PROVE  line!Next \/ UNCHANGED line!vars
  OBVIOUS
<1>1. CASE AddSession
  BY <1>1, AddSessionRefines DEF line!Next
<1>2. CASE ReplaceSession
  BY <1>2, ReplaceSessionRefines DEF line!Next
<1>3. CASE UpdateRemoves \/ \E a \in Accounts : GoOffline(a)
  BY <1>3, DepartureRefines DEF line!Next
<1>4. CASE KickAll
  BY <1>4, KickAllRefines DEF line!Next
<1>5. ASSUME NEW a \in Accounts, TolerancePasses(a)
      PROVE  line!Next
  <2>1. /\ m_disconnects' = m_disconnects \ {a}
        /\ UNCHANGED <<m_sessions, m_QueuedPlayer, stage>>
    BY <1>5 DEF TolerancePasses
  <2>2. UNCHANGED <<Playing, InLine, Ahead>>
    BY <2>1 DEF Playing, InLine, Ahead, IsRegistered, Listed
  <2>3. line!GracePasses(a)
    BY <2>1, <2>2 DEF line!GracePasses
  <2> QED BY <2>3 DEF line!Next
<1>6. CASE UNCHANGED vars
  BY <1>6, RealmStutters DEF vars, registry
<1>7. CASE Network \/ Others \/ \E s \in Sessions : OfflineMinutePasses(s)
  <2>1. /\ UNCHANGED <<m_sessions, m_QueuedPlayer, m_disconnects>>
        /\ stage # "kicked" <=> stage' # "kicked"
    BY <1>7 DEF Network, Connect, CloseSocket, Others, StopNow, Kick, MapUpdate,
                OfflineMinutePasses, registry
  <2> QED BY <2>1, RealmStutters
<1>8. CASE \/ BeginUpdateSessions \/ RejectSession \/ EndAdding \/ UpdateKeeps
           \/ EndSessions \/ EndUpdateSessions
           \/ \E a \in Accounts : SocketStillOpen(a) \/ OfflineStays(a) \/ OfflineEnds(a)
  <2>1. UNCHANGED <<m_sessions, m_QueuedPlayer, m_disconnects, stage>>
    BY <1>8 DEF BeginUpdateSessions, RejectSession, EndAdding, UpdateKeeps, EndSessions,
                EndUpdateSessions, SocketStillOpen, OfflineStays, OfflineEnds, registry
  <2> QED BY <2>1, RealmStutters
<1> QED BY <1>1, <1>2, <1>3, <1>4, <1>5, <1>6, <1>7, <1>8
        DEF Next, UpdateSessions, Passing

\* The registry and the queue keep the promise of LoginQueue, for any accounts
\* and sessions and any limit: places go to the first of the line and to nobody
\* else, nobody in it is passed, and a takeover frees the old place first.
THEOREM Refinement == Spec => ImplementsLoginQueue
  BY InitRefines, NextRefines, SpecPInv, PTL DEF Spec, ImplementsLoginQueue, line!Spec
==============================================================================
