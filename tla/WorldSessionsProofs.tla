------------------------- MODULE WorldSessionsProofs -------------------------
(***************************************************************************)
(* Theorems about WorldSessions, for any accounts, sessions, characters    *)
(* and player limit.                                                       *)
(***************************************************************************)
EXTENDS WorldSessions, FiniteSetTheorems, SequenceTheorems, TLAPS

SessFuns == [Sessions -> SessionRec]

\* Every registered session is filed under its own account.
Keys ==
    /\ \A a \in Accounts : m_sessions[a] # None => AccountOf[m_sessions[a]] = a
    /\ \A a \in Accounts :
          m_offlineSessions[a] # None => AccountOf[m_offlineSessions[a]] = a

\* The loops of UpdateSessions never meet an account whose entry has gone: the
\* iterators stay valid.
Walk ==
    /\ cur # None => /\ pc = "sessions"
                     /\ IsRegistered(cur)
                     /\ AccountOf[cur] \notin todo
    /\ pc = "sessions" => \A a \in todo : m_sessions[a] # None
    /\ pc = "offline" => \A a \in todo : m_offlineSessions[a] # None

IInv == TypeOK /\ Keys /\ Walk /\ QueueOfRegistered /\ NobodyWaitsForAFreeSlot

-----------------------------------------------------------------------------
(* Types of the operators on session fields *)

\* A constructed session is well typed.
LEMMA NewSessionType == NewSession \in SessionRec
  BY DEF NewSession, SessionRec

\* Writing a value of its type to one field of a session keeps SessFuns; the
\* value is a bound variable so that the provers need not look at it.
LEMMA FieldType ==
  ASSUME NEW S \in SessFuns, NEW s \in Sessions,
         NEW k \in {"open", "closed", "null"}, NEW b \in BOOLEAN,
         NEW c \in Chars \cup {None}
  PROVE  /\ [S EXCEPT ![s].socket = k] \in SessFuns
         /\ [S EXCEPT ![s].kicked = b] \in SessFuns
         /\ [S EXCEPT ![s].loading = b] \in SessFuns
         /\ [S EXCEPT ![s].steady = b] \in SessFuns
         /\ [S EXCEPT ![s].overdue = b] \in SessFuns
         /\ [S EXCEPT ![s].inQueue = b] \in SessFuns
         /\ [S EXCEPT ![s].holder = c] \in SessFuns
         /\ [S EXCEPT ![s].player = c] \in SessFuns
<1>1. [S EXCEPT ![s].socket = k] \in SessFuns
  BY SMT DEF SessFuns, SessionRec
<1>2. [S EXCEPT ![s].kicked = b] \in SessFuns
  BY SMT DEF SessFuns, SessionRec
<1>3. [S EXCEPT ![s].loading = b] \in SessFuns
  BY SMT DEF SessFuns, SessionRec
<1>4. [S EXCEPT ![s].steady = b] \in SessFuns
  BY SMT DEF SessFuns, SessionRec
<1>5. [S EXCEPT ![s].overdue = b] \in SessFuns
  BY SMT DEF SessFuns, SessionRec
<1>6. [S EXCEPT ![s].inQueue = b] \in SessFuns
  BY SMT DEF SessFuns, SessionRec
<1>7. [S EXCEPT ![s].holder = c] \in SessFuns
  BY SMT DEF SessFuns, SessionRec
<1>8. [S EXCEPT ![s].player = c] \in SessFuns
  BY SMT DEF SessFuns, SessionRec
<1> QED BY <1>1, <1>2, <1>3, <1>4, <1>5, <1>6, <1>7, <1>8

\* The fields KickPlayer writes.
LEMMA KickFieldsType ==
  ASSUME NEW S \in SessFuns, NEW s \in Sessions,
         NEW k \in {"open", "closed", "null"}, NEW b \in BOOLEAN
  PROVE  [S EXCEPT ![s].socket = k, ![s].kicked = b] \in SessFuns
<1> DEFINE S1 == [S EXCEPT ![s].socket = k]
           S2 == [S1 EXCEPT ![s].kicked = b]
<1>1. S1 \in SessFuns
  BY FieldType
<1>2. S2 \in SessFuns
  <2> HIDE DEF S1
  <2> QED BY <1>1, FieldType
<1>3. [S EXCEPT ![s].socket = k, ![s].kicked = b] = S2
  OBVIOUS
<1> QED BY <1>2, <1>3

\* The fields the loss of the socket writes.
LEMMA SocketFieldsType ==
  ASSUME NEW S \in SessFuns, NEW s \in Sessions,
         NEW k \in {"open", "closed", "null"}, NEW b \in BOOLEAN
  PROVE  [S EXCEPT ![s].socket = k, ![s].overdue = b] \in SessFuns
<1> DEFINE S1 == [S EXCEPT ![s].socket = k]
           S2 == [S1 EXCEPT ![s].overdue = b]
<1>1. S1 \in SessFuns
  BY FieldType
<1>2. S2 \in SessFuns
  <2> HIDE DEF S1
  <2> QED BY <1>1, FieldType
<1>3. [S EXCEPT ![s].socket = k, ![s].overdue = b] = S2
  OBVIOUS
<1> QED BY <1>2, <1>3

\* The fields a logout writes.
LEMMA LogoutFieldsType ==
  ASSUME NEW S \in SessFuns, NEW s \in Sessions,
         NEW b \in BOOLEAN, NEW c \in Chars \cup {None}
  PROVE  [S EXCEPT ![s].player = c, ![s].steady = b] \in SessFuns
<1> DEFINE S1 == [S EXCEPT ![s].player = c]
           S2 == [S1 EXCEPT ![s].steady = b]
<1>1. S1 \in SessFuns
  BY FieldType
<1>2. S2 \in SessFuns
  <2> HIDE DEF S1
  <2> QED BY <1>1, FieldType
<1>3. [S EXCEPT ![s].player = c, ![s].steady = b] = S2
  OBVIOUS
<1> QED BY <1>2, <1>3

\* The fields a login that loads the character writes.
LEMMA LoginFieldsType ==
  ASSUME NEW S \in SessFuns, NEW s \in Sessions,
         NEW b \in BOOLEAN, NEW c \in Chars \cup {None}
  PROVE  [S EXCEPT ![s].loading = b, ![s].holder = c] \in SessFuns
<1> DEFINE S1 == [S EXCEPT ![s].loading = b]
           S2 == [S1 EXCEPT ![s].holder = c]
<1>1. S1 \in SessFuns
  BY FieldType
<1>2. S2 \in SessFuns
  <2> HIDE DEF S1
  <2> QED BY <1>1, FieldType
<1>3. [S EXCEPT ![s].loading = b, ![s].holder = c] = S2
  OBVIOUS
<1> QED BY <1>2, <1>3

\* The fields a login that fails writes.
LEMMA FailFieldsType ==
  ASSUME NEW S \in SessFuns, NEW s \in Sessions,
         NEW b \in BOOLEAN, NEW c \in Chars \cup {None}
  PROVE  [S EXCEPT ![s].holder = c, ![s].loading = b] \in SessFuns
<1> DEFINE S1 == [S EXCEPT ![s].holder = c]
           S2 == [S1 EXCEPT ![s].loading = b]
<1>1. S1 \in SessFuns
  BY FieldType
<1>2. S2 \in SessFuns
  <2> HIDE DEF S1
  <2> QED BY <1>1, FieldType
<1>3. [S EXCEPT ![s].holder = c, ![s].loading = b] = S2
  OBVIOUS
<1> QED BY <1>2, <1>3

\* The fields of a session that takes its character over.
LEMMA TakeOverFieldsType ==
  ASSUME NEW S \in SessFuns, NEW s \in Sessions,
         NEW b \in BOOLEAN, NEW d \in BOOLEAN, NEW c \in Chars \cup {None}
  PROVE  [S EXCEPT ![s].player = c, ![s].steady = b, ![s].loading = d] \in SessFuns
<1> DEFINE S1 == [S EXCEPT ![s].player = c]
           S2 == [S1 EXCEPT ![s].steady = b]
           S3 == [S2 EXCEPT ![s].loading = d]
<1>1. S1 \in SessFuns
  BY FieldType
<1>2. S2 \in SessFuns
  <2> HIDE DEF S1
  <2> QED BY <1>1, FieldType
<1>3. S3 \in SessFuns
  <2> HIDE DEF S2
  <2> QED BY <1>2, FieldType
<1>4. [S EXCEPT ![s].player = c, ![s].steady = b, ![s].loading = d] = S3
  OBVIOUS
<1> QED BY <1>3, <1>4

\* The fields of a session whose character has been loaded.
LEMMA LoadedFieldsType ==
  ASSUME NEW S \in SessFuns, NEW s \in Sessions,
         NEW b \in BOOLEAN, NEW d \in BOOLEAN,
         NEW c \in Chars \cup {None}, NEW e \in Chars \cup {None}
  PROVE  [S EXCEPT ![s].player = e, ![s].holder = c,
                    ![s].loading = b, ![s].steady = d] \in SessFuns
<1> DEFINE S1 == [S EXCEPT ![s].player = e]
           S2 == [S1 EXCEPT ![s].holder = c]
           S3 == [S2 EXCEPT ![s].loading = b]
           S4 == [S3 EXCEPT ![s].steady = d]
<1>1. S1 \in SessFuns
  BY FieldType
<1>2. S2 \in SessFuns
  <2> HIDE DEF S1
  <2> QED BY <1>1, FieldType
<1>3. S3 \in SessFuns
  <2> HIDE DEF S2
  <2> QED BY <1>2, FieldType
<1>4. S4 \in SessFuns
  <2> HIDE DEF S3
  <2> QED BY <1>3, FieldType
<1>5. [S EXCEPT ![s].player = e, ![s].holder = c,
                  ![s].loading = b, ![s].steady = d] = S4
  OBVIOUS
<1> QED BY <1>4, <1>5

\* What a well-typed field holds.
LEMMA FieldValues ==
  ASSUME NEW S \in SessFuns, NEW s \in Sessions
  PROVE  /\ S[s] \in SessionRec
         /\ S[s].socket \in {"open", "closed", "null"}
         /\ S[s].kicked \in BOOLEAN
         /\ S[s].steady \in BOOLEAN
         /\ S[s].holder \in Chars \cup {None}
         /\ S[s].player \in Chars \cup {None}
  BY DEF SessFuns, SessionRec

\* Deleting a session keeps the others well typed.
LEMMA DeletedType ==
  ASSUME NEW S \in SessFuns, NEW s \in Sessions
  PROVE  Deleted(S, s) \in SessFuns
  BY NewSessionType DEF Deleted, SessFuns, SessionRec, NewSession

\* So does kicking one.
LEMMA KickPlayerType ==
  ASSUME NEW S \in SessFuns, NEW s \in Sessions, NEW b \in BOOLEAN
  PROVE  KickPlayer(S, s, b) \in SessFuns
<1> DEFINE k == IF S[s].socket = "null" THEN "null" ELSE "closed"
           d == IF b THEN TRUE ELSE S[s].kicked
<1>1. k \in {"open", "closed", "null"}
  OBVIOUS
<1>2. d \in BOOLEAN
  BY FieldValues
<1>3. KickPlayer(S, s, b) = [S EXCEPT ![s].socket = k, ![s].kicked = d]
  BY DEF KickPlayer, SessFuns, SessionRec
<1> HIDE DEF k, d
<1>4. [S EXCEPT ![s].socket = k, ![s].kicked = d] \in SessFuns
  BY <1>1, <1>2, KickFieldsType
<1> QED BY <1>3, <1>4

\* So does the loss of its socket.
LEMMA LoseSocketType ==
  ASSUME NEW S \in SessFuns, NEW s \in Sessions
  PROVE  LoseSocket(S, s) \in SessFuns
<1>1. [S EXCEPT ![s].socket = "null", ![s].overdue = FALSE] \in SessFuns
  BY Zenon, SocketFieldsType
<1> QED BY <1>1 DEF LoseSocket

\* So does a logout.
LEMMA LogoutPlayerType ==
  ASSUME NEW S \in SessFuns, NEW s \in Sessions
  PROVE  LogoutPlayer(S, s) \in SessFuns
<1>1. [S EXCEPT ![s].player = None, ![s].steady = FALSE] \in SessFuns
  BY Zenon, LogoutFieldsType
<1> QED BY <1>1 DEF LogoutPlayer

\* So does the beginning or the end of a teleport or a flight.
LEMMA TravelType ==
  ASSUME NEW S \in SessFuns, NEW s \in Sessions
  PROVE  StartOrEndTravel(S, s) \in SessFuns
<1> DEFINE b == ~S[s].steady
<1>1. b \in BOOLEAN
  OBVIOUS
<1>2. StartOrEndTravel(S, s) = [S EXCEPT ![s].steady = b]
  BY DEF StartOrEndTravel
<1> HIDE DEF b
<1>3. [S EXCEPT ![s].steady = b] \in SessFuns
  BY <1>1, FieldType
<1> QED BY <1>2, <1>3

\* So does RemoveQueuedPlayer.
LEMMA FlagsAfterType ==
  ASSUME NEW S \in SessFuns, NEW s \in Sessions
  PROVE  FlagsAfter(S, s) \in SessFuns
  BY DEF FlagsAfter, SessFuns, SessionRec

\* Every outcome of HandlePlayerLoginOpcode is well typed.
LEMMA HandlePlayerLoginType ==
  ASSUME NEW S \in SessFuns, NEW s \in Sessions, NEW c \in Chars,
         TypeOK, NEW T \in HandlePlayerLogin(S, s, c)
  PROVE  T \in SessFuns
<1> DEFINE off == m_offlineSessions[AccountOf[s]]
           loads == [S EXCEPT ![s].loading = TRUE, ![s].holder = c]
           refused == [S EXCEPT ![s].loading = TRUE]
           left == [S EXCEPT ![off].player = None, ![off].steady = FALSE]
           takesOver == [S EXCEPT ![off].player = None, ![off].steady = FALSE,
                                  ![s].player = c, ![s].steady = TRUE,
                                  ![s].loading = FALSE]
<1>1. off \in Sessions \cup {None}
  BY AccountsAssumption DEF TypeOK
<1>2. loads \in SessFuns /\ refused \in SessFuns
  BY Zenon, FieldType, LoginFieldsType
<1>3. off # None => takesOver \in SessFuns
  <2> SUFFICES ASSUME off \in Sessions PROVE takesOver \in SessFuns
    BY <1>1
  <2>1. left \in SessFuns
    BY LogoutPlayerType DEF LogoutPlayer
  <2>2. takesOver = [left EXCEPT ![s].player = c, ![s].steady = TRUE,
                                 ![s].loading = FALSE]
    OBVIOUS
  <2> HIDE DEF left, takesOver
  <2>3. [left EXCEPT ![s].player = c, ![s].steady = TRUE, ![s].loading = FALSE]
          \in SessFuns
    BY Zenon, <2>1, TakeOverFieldsType
  <2> QED BY <2>2, <2>3
<1>4. off # None => KickPlayer(loads, off, TRUE) \in SessFuns
  <2> HIDE DEF loads, off
  <2> QED BY <1>1, <1>2, KickPlayerType
<1>5. \/ T = refused
      \/ T = loads
      \/ off # None /\ T = takesOver
      \/ off # None /\ T = KickPlayer(loads, off, TRUE)
  BY DEF HandlePlayerLogin
<1> QED BY <1>2, <1>3, <1>4, <1>5

\* So is everything the packets of one Update can do.
LEMMA PacketsType ==
  ASSUME TypeOK, NEW s \in Sessions, NEW T \in Packets(s)
  PROVE  T \in SessFuns
<1>1. sess \in SessFuns
  BY DEF TypeOK, SessFuns
<1>2. CASE \E c \in Chars : T \in HandlePlayerLogin(sess, s, c)
  BY <1>1, <1>2, HandlePlayerLoginType
<1>3. CASE T = LogoutPlayer(sess, s)
  BY <1>1, <1>3, LogoutPlayerType
<1>4. CASE T = StartOrEndTravel(sess, s)
  BY <1>1, <1>4, TravelType
<1>5. CASE T = sess
  BY <1>1, <1>5
<1>6. \/ T = sess
      \/ \E c \in MayLogIn(s) : T \in HandlePlayerLogin(sess, s, c)
      \/ T = LogoutPlayer(sess, s)
      \/ T = StartOrEndTravel(sess, s)
  BY DEF Packets
<1>7. MayLogIn(s) \subseteq Chars
  BY DEF MayLogIn
<1> QED BY <1>2, <1>3, <1>4, <1>5, <1>6, <1>7

\* So is everything its query callbacks can do.
LEMMA CallbacksType ==
  ASSUME NEW S \in SessFuns, NEW s \in Sessions, NEW T \in Callbacks(S, s)
  PROVE  T \in SessFuns
<1> DEFINE failed == [S EXCEPT ![s].holder = None, ![s].loading = FALSE]
           loaded(b) == [S EXCEPT ![s].player = S[s].holder, ![s].holder = None,
                                  ![s].loading = FALSE, ![s].steady = b]
<1>1. failed \in SessFuns
  BY Zenon, FailFieldsType
<1>2. KickPlayer(failed, s, TRUE) \in SessFuns
  <2> HIDE DEF failed
  <2> QED BY <1>1, KickPlayerType
<1>3. ASSUME NEW b \in BOOLEAN PROVE loaded(b) \in SessFuns
  <2>1. S[s].holder \in Chars \cup {None}
    BY FieldValues
  <2> QED BY Zenon, <2>1, LoadedFieldsType
<1>4. T = S \/ T = KickPlayer(failed, s, TRUE) \/ \E b \in BOOLEAN : T = loaded(b)
  BY DEF Callbacks
<1> QED BY <1>2, <1>3, <1>4

-----------------------------------------------------------------------------
(* The operators on the login queue *)

Distinct(q) == \A i, j \in DOMAIN q : i # j => q[i] # q[j]

\* Removing the element at position i keeps the others, in their order.
LEMMA RemoveAtProperties ==
  ASSUME NEW q \in Seq(Sessions), NEW i \in 1 .. Len(q)
  PROVE  /\ RemoveAt(q, i) \in Seq(Sessions)
         /\ Len(RemoveAt(q, i)) = Len(q) - 1
         /\ \A j \in 1 .. Len(q) - 1 :
               RemoveAt(q, i)[j] = IF j < i THEN q[j] ELSE q[j + 1]
<1> DEFINE left == SubSeq(q, 1, i - 1)
           right == SubSeq(q, i + 1, Len(q))
<1>1. /\ left \in Seq(Sessions)
      /\ Len(left) = i - 1
      /\ \A j \in 1 .. i - 1 : left[j] = q[j]
  <2>1. \A j \in 1 .. i - 1 : q[j] \in Sessions
    OBVIOUS
  <2>2. i - 1 \in Int /\ Len(q) \in Nat
    OBVIOUS
  <2> QED BY <2>1, <2>2, SubSeqProperties
<1>2. /\ right \in Seq(Sessions)
      /\ Len(right) = Len(q) - i
      /\ \A j \in 1 .. Len(q) - i : right[j] = q[i + j]
  <2>1. \A j \in i + 1 .. Len(q) : q[j] \in Sessions
    OBVIOUS
  <2>2. i + 1 \in Int /\ Len(q) \in Nat
    OBVIOUS
  <2>3. /\ right \in Seq(Sessions)
        /\ Len(right) = IF i + 1 <= Len(q) THEN Len(q) - (i + 1) + 1 ELSE 0
        /\ \A j \in 1 .. Len(q) - (i + 1) + 1 : right[j] = q[i + 1 + j - 1]
    BY <2>1, <2>2, SubSeqProperties
  <2> QED BY <2>3
<1>3. RemoveAt(q, i) = left \o right
  BY DEF RemoveAt
<1> HIDE DEF left, right
<1>4. /\ left \o right \in Seq(Sessions)
      /\ Len(left \o right) = Len(left) + Len(right)
      /\ \A j \in 1 .. Len(left) + Len(right) :
            (left \o right)[j] = IF j <= Len(left) THEN left[j]
                                 ELSE right[j - Len(left)]
  BY <1>1, <1>2, ConcatProperties
<1>5. ASSUME NEW j \in 1 .. Len(q) - 1
      PROVE  (left \o right)[j] = IF j < i THEN q[j] ELSE q[j + 1]
  <2>1. CASE j < i
    BY <1>1, <1>2, <1>4, <2>1
  <2>2. CASE j >= i
    <3>1. (left \o right)[j] = right[j - Len(left)]
      BY <1>1, <1>2, <1>4, <2>2
    <3>2. j - Len(left) \in 1 .. Len(q) - i
      BY <1>1, <2>2
    <3> QED BY <1>1, <1>2, <2>2, <3>1, <3>2
  <2>3. j < i \/ j >= i
    OBVIOUS
  <2> QED BY Zenon, <2>1, <2>2, <2>3
<1> QED BY <1>1, <1>2, <1>3, <1>4, <1>5

\* The queue without s: its elements are waiting sessions other than s.
LEMMA UnlistedProperties ==
  ASSUME TypeOK, QueueOfRegistered, NEW s \in Sessions
  PROVE  /\ Unlisted(s) \in Seq(Sessions)
         /\ Len(Unlisted(s)) = Len(m_QueuedPlayer) - (IF Listed(s) THEN 1 ELSE 0)
         /\ Distinct(Unlisted(s))
         /\ \A i \in DOMAIN Unlisted(s) :
               /\ Unlisted(s)[i] # s
               /\ IsRegistered(Unlisted(s)[i])
<1> DEFINE q == m_QueuedPlayer
           p == GetQueuePos(q, s)
<1>1. q \in Seq(Sessions)
  BY DEF TypeOK
<1>2. CASE ~Listed(s)
  BY <1>1, <1>2 DEF Unlisted, Listed, QueueOfRegistered, Distinct
<1>3. CASE Listed(s)
  <2>1. p \in 1 .. Len(q) /\ q[p] = s
    <3>1. \E i \in DOMAIN q : q[i] = s
      BY <1>3 DEF Listed
    <3> QED BY <1>1, <3>1 DEF GetQueuePos
  <2>2. Unlisted(s) = RemoveAt(q, p)
    BY <1>3 DEF Unlisted
  <2>3. \A i, j \in 1 .. Len(q) : i # j => q[i] # q[j]
    BY <1>1 DEF QueueOfRegistered
  <2>4. \A i \in 1 .. Len(q) : IsRegistered(q[i])
    BY <1>1 DEF QueueOfRegistered
  <2> HIDE DEF q, p
  <2>5. /\ Unlisted(s) \in Seq(Sessions)
        /\ Len(Unlisted(s)) = Len(q) - 1
        /\ \A j \in 1 .. Len(q) - 1 :
               Unlisted(s)[j] = IF j < p THEN q[j] ELSE q[j + 1]
    BY <1>1, <2>1, <2>2, RemoveAtProperties
  <2>6. DOMAIN Unlisted(s) = 1 .. Len(q) - 1
    BY <2>5
  <2>7. ASSUME NEW i \in 1 .. Len(q) - 1
        PROVE  Unlisted(s)[i] # s /\ IsRegistered(Unlisted(s)[i])
    <3>1. \E k \in 1 .. Len(q) : k # p /\ Unlisted(s)[i] = q[k]
      BY <1>1, <2>1, <2>5
    <3> QED BY <2>1, <2>3, <2>4, <3>1
  <2>8. ASSUME NEW i \in 1 .. Len(q) - 1, NEW j \in 1 .. Len(q) - 1, i # j
        PROVE  Unlisted(s)[i] # Unlisted(s)[j]
    <3>1. /\ Unlisted(s)[i] = IF i < p THEN q[i] ELSE q[i + 1]
          /\ Unlisted(s)[j] = IF j < p THEN q[j] ELSE q[j + 1]
      BY <2>5
    <3>2. (IF i < p THEN i ELSE i + 1) # (IF j < p THEN j ELSE j + 1)
      BY <2>1, <2>8, <1>1
    <3> QED BY <1>1, <2>1, <2>3, <3>1, <3>2
  <2>9. Distinct(Unlisted(s))
    BY <2>6, <2>8 DEF Distinct
  <2> QED BY <1>3, <2>5, <2>6, <2>7, <2>9 DEF q
<1> QED BY <1>2, <1>3

\* The same of the queue once the first waiting session has been accepted.
LEMMA QueueAfterProperties ==
  ASSUME TypeOK, QueueOfRegistered, NEW s \in Sessions
  PROVE  /\ QueueAfter(s) \in Seq(Sessions)
         /\ Len(QueueAfter(s)) =
               Len(m_QueuedPlayer) - (IF Listed(s) THEN 1 ELSE 0)
                                   - (IF Accepts(s) THEN 1 ELSE 0)
         /\ Distinct(QueueAfter(s))
         /\ \A i \in DOMAIN QueueAfter(s) :
               /\ QueueAfter(s)[i] # s
               /\ IsRegistered(QueueAfter(s)[i])
<1> DEFINE u == Unlisted(s)
<1>1. /\ u \in Seq(Sessions)
      /\ Len(u) = Len(m_QueuedPlayer) - (IF Listed(s) THEN 1 ELSE 0)
      /\ Distinct(u)
      /\ \A i \in DOMAIN u : u[i] # s /\ IsRegistered(u[i])
  BY UnlistedProperties
<1>2. Len(m_QueuedPlayer) \in Nat
  BY DEF TypeOK
<1>3. CASE ~Accepts(s)
  BY <1>1, <1>2, <1>3 DEF QueueAfter
<1>4. CASE Accepts(s)
  <2>1. u # <<>> /\ QueueAfter(s) = Tail(u)
    BY <1>4 DEF Accepts, QueueAfter
  <2> HIDE DEF u
  <2>2. /\ Tail(u) \in Seq(Sessions)
        /\ Len(Tail(u)) = Len(u) - 1
        /\ \A i \in 1 .. Len(Tail(u)) : Tail(u)[i] = u[i + 1]
    BY <1>1, <2>1, HeadTailProperties
  <2>3. /\ DOMAIN Tail(u) = 1 .. Len(u) - 1
        /\ \A i \in 1 .. Len(u) - 1 : i + 1 \in DOMAIN u
    BY <1>1, <2>2
  <2>4. \A i \in DOMAIN Tail(u) : Tail(u)[i] # s /\ IsRegistered(Tail(u)[i])
    BY <1>1, <2>2, <2>3
  <2>5. Distinct(Tail(u))
    <3> SUFFICES ASSUME NEW i \in 1 .. Len(u) - 1, NEW j \in 1 .. Len(u) - 1, i # j
                 PROVE  Tail(u)[i] # Tail(u)[j]
      BY <2>3 DEF Distinct
    <3>1. i + 1 # j + 1 /\ i + 1 \in DOMAIN u /\ j + 1 \in DOMAIN u
      BY <2>3
    <3>2. u[i + 1] # u[j + 1]
      BY <1>1, <3>1 DEF Distinct
    <3> QED BY <2>2, <3>2
  <2> QED BY <1>1, <1>2, <1>4, <2>1, <2>2, <2>4, <2>5
<1> QED BY <1>3, <1>4

\* Positions and flags sent by RemoveQueuedPlayer have their types.
LEMMA ToldAfterType ==
  ASSUME TypeOK, QueueOfRegistered, NEW s \in Sessions
  PROVE  ToldAfter(s) \in [Sessions -> Int]
<1> DEFINE q == QueueAfter(s)
           from == IF Accepts(s) THEN 1
                   ELSE IF Listed(s) THEN GetQueuePos(m_QueuedPlayer, s)
                   ELSE Len(q) + 1
<1>1. q \in Seq(Sessions)
  BY QueueAfterProperties
<1>2. from \in Nat \ {0}
  <2>1. Listed(s) => GetQueuePos(m_QueuedPlayer, s) \in DOMAIN m_QueuedPlayer
    BY DEF Listed, GetQueuePos
  <2>2. DOMAIN m_QueuedPlayer \subseteq Nat \ {0}
    BY DEF TypeOK
  <2> HIDE DEF q
  <2>3. Len(q) + 1 \in Nat \ {0}
    BY <1>1
  <2> QED BY <2>1, <2>2, <2>3
<1>3. ASSUME NEW x \in Sessions, \E i \in from .. Len(q) : q[i] = x
      PROVE  GetQueuePos(q, x) \in Int
  <2> HIDE DEF q, from
  <2>1. \E i \in DOMAIN q : q[i] = x
    BY <1>1, <1>2, <1>3
  <2>2. GetQueuePos(q, x) \in DOMAIN q
    BY <2>1 DEF GetQueuePos
  <2> QED BY <1>1, <2>2
<1>4. \A x \in Sessions : told[x] \in Int
  BY DEF TypeOK
<1>5. ToldAfter(s) = [x \in Sessions |->
          IF Accepts(s) /\ x = Head(Unlisted(s)) THEN 0
          ELSE IF \E i \in from .. Len(q) : q[i] = x THEN GetQueuePos(q, x)
          ELSE told[x]]
  BY DEF ToldAfter
<1> HIDE DEF q, from
<1> QED BY <1>3, <1>4, <1>5

-----------------------------------------------------------------------------
(* Counting sessions *)

Occupied(m) == {a \in Accounts : m[a] # None}

\* Writing one entry changes the number of sessions by at most one.
LEMMA CountProperties ==
  ASSUME NEW m \in [Accounts -> Sessions \cup {None}],
         NEW a \in Accounts, NEW v \in Sessions \cup {None}
  PROVE  /\ Cardinality(Occupied(m)) \in Nat
         /\ Cardinality(Occupied([m EXCEPT ![a] = v])) =
               Cardinality(Occupied(m)) + (IF v = None THEN 0 ELSE 1)
                                        - (IF m[a] = None THEN 0 ELSE 1)
<1> DEFINE O == Occupied(m)
           P == Occupied([m EXCEPT ![a] = v])
<1>1. IsFiniteSet(O)
  BY AccountsAssumption, FS_Subset DEF Occupied
<1>2. Cardinality(O) \in Nat
  BY <1>1, FS_CardinalityType
<1>3. a \in O <=> m[a] # None
  BY DEF Occupied
<1>4. CASE v = None
  <2>1. P = O \ {a}
    BY <1>4 DEF Occupied
  <2> HIDE DEF O, P
  <2>2. Cardinality(O \ {a}) = IF a \in O THEN Cardinality(O) - 1 ELSE Cardinality(O)
    BY <1>1, FS_RemoveElement
  <2>3. Cardinality(P) = Cardinality(O) + (IF v = None THEN 0 ELSE 1)
                                       - (IF m[a] = None THEN 0 ELSE 1)
    BY <1>2, <1>3, <1>4, <2>1, <2>2
  <2> QED BY Zenon, <1>2, <2>3 DEF O, P
<1>5. CASE v # None
  <2>1. P = O \cup {a}
    BY <1>5 DEF Occupied
  <2> HIDE DEF O, P
  <2>2. Cardinality(O \cup {a}) = IF a \in O THEN Cardinality(O) ELSE Cardinality(O) + 1
    BY <1>1, FS_AddElement
  <2>3. Cardinality(P) = Cardinality(O) + (IF v = None THEN 0 ELSE 1)
                                       - (IF m[a] = None THEN 0 ELSE 1)
    BY <1>2, <1>3, <1>5, <2>1, <2>2
  <2> QED BY Zenon, <1>2, <2>3 DEF O, P
<1> QED BY <1>4, <1>5

\* After a registered session has left, whoever still waits does so because
\* the others fill the limit.
LEMMA DepartureKeepsSlotsFull ==
  ASSUME TypeOK, QueueOfRegistered, NobodyWaitsForAFreeSlot,
         NEW s \in Sessions, IsRegistered(s), QueueAfter(s) # <<>>
  PROVE  /\ PlayerLimit > 0
         /\ GetActiveAndQueuedSessionCount - 1 - Len(QueueAfter(s)) >= PlayerLimit
<1> DEFINE n == GetActiveAndQueuedSessionCount
           q == m_QueuedPlayer
<1>1. n \in Nat /\ PlayerLimit \in Nat
  <2>1. m_sessions \in [Accounts -> Sessions \cup {None}] /\ AccountOf[s] \in Accounts
    BY AccountsAssumption DEF TypeOK
  <2>2. Cardinality(Occupied(m_sessions)) \in Nat
    BY <2>1, CountProperties
  <2> QED BY <2>2, LimitAssumption DEF GetActiveAndQueuedSessionCount, Occupied
<1>2. /\ QueueAfter(s) \in Seq(Sessions)
      /\ Len(QueueAfter(s)) = Len(q) - (IF Listed(s) THEN 1 ELSE 0)
                                     - (IF Accepts(s) THEN 1 ELSE 0)
  BY QueueAfterProperties
<1>3. Len(q) \in Nat /\ Len(QueueAfter(s)) \in Nat \ {0}
  <2>1. q \in Seq(Sessions) /\ QueueAfter(s) \in Seq(Sessions)
    BY <1>2 DEF TypeOK
  <2> HIDE DEF q
  <2> QED BY <2>1, EmptySeq, LenProperties
<1>4. q # <<>>
  BY <1>2, <1>3
<1>5. PlayerLimit > 0 /\ n - Len(q) >= PlayerLimit
  BY <1>4 DEF NobodyWaitsForAFreeSlot
<1>6. Unlisted(s) # <<>>
  <2>1. /\ Unlisted(s) \in Seq(Sessions)
        /\ Len(Unlisted(s)) = Len(q) - (IF Listed(s) THEN 1 ELSE 0)
    BY UnlistedProperties
  <2>2. Len(Unlisted(s)) > 0
    BY <1>2, <1>3, <2>1
  <2> QED BY <2>1, <2>2
<1>7. Accepts(s) <=> n - Len(q) - (IF Listed(s) THEN 0 ELSE 1) < PlayerLimit
  BY <1>1, <1>5, <1>6 DEF Accepts, ActiveWithout
<1> HIDE DEF n, q
<1>8. CASE Listed(s)
  BY <1>1, <1>2, <1>3, <1>5, <1>7, <1>8 DEF n
<1>9. CASE ~Listed(s)
  BY <1>1, <1>2, <1>3, <1>5, <1>7, <1>9 DEF n
<1> QED BY <1>8, <1>9

-----------------------------------------------------------------------------
(* The two operators through which actions change the registry *)

Waits(s, others, d) ==
    /\ PlayerLimit > 0
    /\ others >= PlayerLimit
    /\ s \notin Privileged
    /\ ~(DisconnectTolerance /\ AccountOf[s] \in d)

\* What Join does, without its local definitions.
LEMMA JoinExpanded ==
  ASSUME NEW s, NEW others, NEW S, NEW q, NEW t, NEW d, Join(s, others, S, q, t, d)
  PROVE  /\ m_sessions' = [m_sessions EXCEPT ![AccountOf[s]] = s]
         /\ m_QueuedPlayer' = IF Waits(s, others, d) THEN Append(q, s) ELSE q
         /\ sess' = [S EXCEPT ![s].inQueue = Waits(s, others, d)]
         /\ told' = [t EXCEPT ![s] = IF Waits(s, others, d) THEN Len(q) + 1 ELSE 0]
         /\ m_disconnects' = d
  BY DEF Join, Waits

\* Join keeps the types.
LEMMA JoinType ==
  ASSUME TypeOK, NEW s \in Sessions, NEW others \in Int, NEW S \in SessFuns,
         NEW q \in Seq(Sessions), NEW t \in [Sessions -> Int],
         NEW d \in SUBSET Accounts, Join(s, others, S, q, t, d)
  PROVE  /\ m_sessions' \in [Accounts -> Sessions \cup {None}]
         /\ m_QueuedPlayer' \in Seq(Sessions)
         /\ sess' \in SessFuns
         /\ told' \in [Sessions -> Int]
         /\ m_disconnects' \subseteq Accounts
<1> DEFINE w == Waits(s, others, d)
<1>1. w \in BOOLEAN
  BY DEF Waits
<1>2. AccountOf[s] \in Accounts
  BY AccountsAssumption
<1>3. /\ m_sessions' = [m_sessions EXCEPT ![AccountOf[s]] = s]
      /\ m_QueuedPlayer' = IF w THEN Append(q, s) ELSE q
      /\ sess' = [S EXCEPT ![s].inQueue = w]
      /\ told' = [t EXCEPT ![s] = IF w THEN Len(q) + 1 ELSE 0]
      /\ m_disconnects' = d
  BY JoinExpanded
<1> HIDE DEF w
<1>4. [S EXCEPT ![s].inQueue = w] \in SessFuns
  BY <1>1, FieldType
<1>5. m_sessions' \in [Accounts -> Sessions \cup {None}]
  BY <1>2, <1>3 DEF TypeOK
<1> QED BY <1>3, <1>4, <1>5

\* The place of s in the queue it may have joined.
JoinedBehind(s) ==
    /\ m_QueuedPlayer' # <<>>
    /\ s \notin Privileged
    /\ ~(DisconnectTolerance /\ AccountOf[s] \in m_disconnects')
    => m_QueuedPlayer'[Len(m_QueuedPlayer')] = s

\* AddSession_ keeps the order of the queue and the slots full: "others" are
\* the sessions left once the account's own slot is free.
LEMMA JoinQueue ==
  ASSUME TypeOK, NEW s \in Sessions, NEW others \in Int, NEW S,
         NEW q \in Seq(Sessions), NEW t, NEW d, Join(s, others, S, q, t, d),
         others = GetActiveAndQueuedSessionCount
                      - (IF m_sessions[AccountOf[s]] = None THEN 0 ELSE 1),
         Distinct(q),
         \A i \in DOMAIN q : /\ IsRegistered(q[i])
                             /\ q[i] # m_sessions[AccountOf[s]],
         q # <<>> => PlayerLimit > 0 /\ others - Len(q) >= PlayerLimit
  PROVE  /\ QueueOfRegistered'
         /\ NobodyWaitsForAFreeSlot'
         /\ JoinedBehind(s)
<1> DEFINE a == AccountOf[s]
           r == Append(q, s)
<1>1. /\ a \in Accounts
      /\ m_sessions \in [Accounts -> Sessions \cup {None}]
      /\ s # None
  BY AccountsAssumption, NoneAssumption DEF TypeOK
<1>2. /\ m_sessions' = [m_sessions EXCEPT ![a] = s]
      /\ m_QueuedPlayer' = IF Waits(s, others, d) THEN r ELSE q
      /\ m_disconnects' = d
  BY JoinExpanded
<1>3. /\ GetActiveAndQueuedSessionCount' = others + 1
      /\ others \in Nat
  <2>1. Cardinality(Occupied([m_sessions EXCEPT ![a] = s])) =
            Cardinality(Occupied(m_sessions)) + 1
                - (IF m_sessions[a] = None THEN 0 ELSE 1)
    BY <1>1, CountProperties
  <2>2. Cardinality(Occupied(m_sessions)) \in Nat
    BY <1>1, CountProperties
  <2>3. GetActiveAndQueuedSessionCount' = Cardinality(Occupied(m_sessions'))
    BY DEF GetActiveAndQueuedSessionCount, Occupied
  <2>4. GetActiveAndQueuedSessionCount = Cardinality(Occupied(m_sessions))
    BY DEF GetActiveAndQueuedSessionCount, Occupied
  <2>5. m_sessions[a] # None => Cardinality(Occupied(m_sessions)) # 0
    <3>1. IsFiniteSet(Occupied(m_sessions))
      BY AccountsAssumption, FS_Subset DEF Occupied
    <3>2. m_sessions[a] # None => a \in Occupied(m_sessions)
      BY <1>1 DEF Occupied
    <3> QED BY <3>1, <3>2, FS_EmptySet
  <2> QED BY <1>2, <2>1, <2>2, <2>3, <2>4, <2>5
<1>4. \A i \in DOMAIN q : /\ q[i] # s
                          /\ m_sessions'[AccountOf[q[i]]] = q[i]
  <2> TAKE i \in DOMAIN q
  <2>1. q[i] \in Sessions /\ AccountOf[q[i]] \in Accounts
    BY AccountsAssumption
  <2>2. m_sessions[AccountOf[q[i]]] = q[i] /\ q[i] # m_sessions[a]
    BY DEF IsRegistered
  <2>3. AccountOf[q[i]] # a
    BY <2>2
  <2> QED BY <1>1, <1>2, <2>1, <2>2, <2>3
<1>5. m_sessions'[a] = s
  BY <1>1, <1>2
<1>6. /\ r \in Seq(Sessions)
      /\ r # <<>>
      /\ Len(r) = Len(q) + 1
      /\ \A i \in 1 .. Len(q) : r[i] = q[i]
      /\ r[Len(q) + 1] = s
  BY AppendProperties
<1>7. Len(q) \in Nat /\ DOMAIN q = 1 .. Len(q) /\ DOMAIN r = 1 .. Len(q) + 1
  BY <1>6
<1>8. Distinct(r)
  <2> HIDE DEF r
  <2> QED BY <1>4, <1>6, <1>7 DEF Distinct
<1>9. \A i \in DOMAIN r : m_sessions'[AccountOf[r[i]]] = r[i]
  <2> HIDE DEF r
  <2> QED BY <1>4, <1>5, <1>6, <1>7
<1>10. QueueOfRegistered'
  <2> HIDE DEF r
  <2>1. \A i \in DOMAIN m_QueuedPlayer' :
           m_sessions'[AccountOf[m_QueuedPlayer'[i]]] = m_QueuedPlayer'[i]
    BY <1>2, <1>4, <1>9
  <2>2. Distinct(m_QueuedPlayer')
    BY <1>2, <1>8
  <2> QED BY <2>1, <2>2 DEF QueueOfRegistered, IsRegistered, Distinct
<1>11. q # <<>> => PlayerLimit > 0 /\ others >= PlayerLimit
  BY <1>3, <1>7, LimitAssumption
<1>12. NobodyWaitsForAFreeSlot'
  <2> HIDE DEF r
  <2>1. CASE Waits(s, others, d)
    <3>1. PlayerLimit > 0 /\ others >= PlayerLimit
      BY <2>1 DEF Waits
    <3>2. Len(q) = 0 \/ others - Len(q) >= PlayerLimit
      BY <1>7
    <3> QED BY <1>2, <1>3, <1>6, <1>7, <2>1, <3>1, <3>2, LimitAssumption
            DEF NobodyWaitsForAFreeSlot
  <2>2. CASE ~Waits(s, others, d)
    BY <1>2, <1>3, <1>7, <2>2, LimitAssumption DEF NobodyWaitsForAFreeSlot
  <2> QED BY <2>1, <2>2
<1>13. JoinedBehind(s)
  <2> HIDE DEF r
  <2>1. CASE Waits(s, others, d)
    BY <1>2, <1>6, <2>1 DEF JoinedBehind
  <2>2. CASE ~Waits(s, others, d)
    BY <1>2, <1>11, <2>2 DEF Waits, JoinedBehind
  <2> QED BY <2>1, <2>2
<1> QED BY <1>10, <1>12, <1>13

\* A session that leaves m_sessions.
LEMMA UnregisterStep ==
  ASSUME IInv, NEW s \in Sessions, IsRegistered(s), NEW S \in SessFuns,
         Unregister(s, S)
  PROVE  /\ m_sessions' = [m_sessions EXCEPT ![AccountOf[s]] = None]
         /\ m_sessions' \in [Accounts -> Sessions \cup {None}]
         /\ m_QueuedPlayer' \in Seq(Sessions)
         /\ sess' \in SessFuns
         /\ told' \in [Sessions -> Int]
         /\ m_disconnects' \subseteq Accounts
         /\ QueueOfRegistered'
         /\ NobodyWaitsForAFreeSlot'
<1> DEFINE a == AccountOf[s]
           q == QueueAfter(s)
<1>1. /\ a \in Accounts
      /\ m_sessions \in [Accounts -> Sessions \cup {None}]
      /\ m_sessions[a] = s
      /\ s # None
  BY AccountsAssumption, NoneAssumption DEF IInv, TypeOK, IsRegistered
<1>2. /\ m_sessions' = [m_sessions EXCEPT ![a] = None]
      /\ m_QueuedPlayer' = q
      /\ told' = ToldAfter(s)
      /\ m_disconnects' = DisconnectsAfter(s)
      /\ sess' = FlagsAfter(S, s)
  BY DEF Unregister
<1>3. /\ q \in Seq(Sessions)
      /\ Distinct(q)
      /\ \A i \in DOMAIN q : q[i] # s /\ IsRegistered(q[i])
  BY QueueAfterProperties DEF IInv
<1>4. q # <<>> =>
        /\ PlayerLimit > 0
        /\ GetActiveAndQueuedSessionCount - 1 - Len(q) >= PlayerLimit
  BY DepartureKeepsSlotsFull DEF IInv
<1>5. m_disconnects' \subseteq Accounts
  BY <1>1, <1>2 DEF DisconnectsAfter, IInv, TypeOK
<1>6. told' \in [Sessions -> Int] /\ sess' \in SessFuns
  BY <1>2, ToldAfterType, FlagsAfterType DEF IInv
<1> HIDE DEF q
<1>7. \A i \in DOMAIN q : m_sessions'[AccountOf[q[i]]] = q[i]
  <2> TAKE i \in DOMAIN q
  <2>1. q[i] \in Sessions /\ AccountOf[q[i]] \in Accounts
    BY <1>3, AccountsAssumption
  <2>2. m_sessions[AccountOf[q[i]]] = q[i] /\ q[i] # s
    BY <1>3 DEF IsRegistered
  <2>3. AccountOf[q[i]] # a
    BY <1>1, <2>2
  <2> QED BY <1>1, <1>2, <2>1, <2>2, <2>3
<1>8. QueueOfRegistered'
  BY <1>2, <1>3, <1>7 DEF QueueOfRegistered, IsRegistered, Distinct
<1>9. GetActiveAndQueuedSessionCount' = GetActiveAndQueuedSessionCount - 1
  <2>1. Cardinality(Occupied([m_sessions EXCEPT ![a] = None])) =
            Cardinality(Occupied(m_sessions)) + 0 - 1
    BY <1>1, CountProperties
  <2>2. Cardinality(Occupied(m_sessions)) \in Nat
    BY <1>1, CountProperties
  <2>3. GetActiveAndQueuedSessionCount' = Cardinality(Occupied(m_sessions'))
    BY DEF GetActiveAndQueuedSessionCount, Occupied
  <2>4. GetActiveAndQueuedSessionCount = Cardinality(Occupied(m_sessions))
    BY DEF GetActiveAndQueuedSessionCount, Occupied
  <2> QED BY <1>2, <2>1, <2>2, <2>3, <2>4
<1>10. NobodyWaitsForAFreeSlot'
  BY <1>2, <1>4, <1>9 DEF NobodyWaitsForAFreeSlot
<1>11. m_sessions' \in [Accounts -> Sessions \cup {None}]
  BY <1>1, <1>2
<1> QED BY <1>2, <1>3, <1>5, <1>6, <1>8, <1>10, <1>11

-----------------------------------------------------------------------------
(* The inductive invariant *)

\* The server starts in the invariant.
LEMMA InitIInv == Init => IInv
<1> SUFFICES ASSUME Init PROVE IInv
  OBVIOUS
<1>1. [NewSession EXCEPT !.state = "unborn", !.socket = "null"] \in SessionRec
  BY DEF NewSession, SessionRec
<1>2. TypeOK
  BY <1>1, EmptySeq DEF Init, TypeOK, NotTold
<1>3. Keys /\ Walk /\ QueueOfRegistered /\ NobodyWaitsForAFreeSlot
  BY DEF Init, Keys, Walk, QueueOfRegistered, NobodyWaitsForAFreeSlot
<1> QED BY <1>2, <1>3 DEF IInv

\* Steps that leave m_sessions, m_offlineSessions and the queue alone.
LEMMA RegistryUnchanged ==
  ASSUME IInv, UNCHANGED <<m_sessions, m_offlineSessions, m_QueuedPlayer>>
  PROVE  Keys' /\ QueueOfRegistered' /\ NobodyWaitsForAFreeSlot'
<1>1. GetActiveAndQueuedSessionCount' = GetActiveAndQueuedSessionCount
  BY DEF GetActiveAndQueuedSessionCount
<1> QED BY <1>1 DEF IInv, Keys, QueueOfRegistered, NobodyWaitsForAFreeSlot,
                    IsRegistered

\* New sessions and closing sockets keep the invariant.
LEMMA NetworkStep ==
  ASSUME IInv, Network
  PROVE  IInv'
<1>1. PICK s \in Sessions : Connect(s) \/ CloseSocket(s)
  BY DEF Network
<1>2. AccountOf[s] \in Accounts
  BY AccountsAssumption
<1>3. CASE Connect(s)
  <2>1. TypeOK'
    BY <1>2, <1>3, NewSessionType, AppendProperties
       DEF Connect, IInv, TypeOK, registry, thread
  <2>2. Walk'
    BY <1>3 DEF Connect, IInv, Walk, IsRegistered, registry, thread
  <2> QED BY <1>3, <2>1, <2>2, RegistryUnchanged DEF Connect, IInv, registry
<1>4. CASE CloseSocket(s)
  <2>1. sess' \in SessFuns
    <3>1. sess \in SessFuns /\ "closed" \in {"open", "closed", "null"}
      BY DEF IInv, TypeOK, SessFuns
    <3>2. [sess EXCEPT ![s].socket = "closed"] \in SessFuns
      BY Zenon, <3>1, FieldType
    <3> QED BY <1>4, <3>2 DEF CloseSocket
  <2>2. TypeOK'
    BY <1>4, <2>1 DEF CloseSocket, IInv, TypeOK, SessFuns, registry, thread
  <2>3. Walk'
    BY <1>4 DEF CloseSocket, IInv, Walk, IsRegistered, registry, thread
  <2> QED BY <1>4, <2>2, <2>3, RegistryUnchanged DEF CloseSocket, IInv, registry
<1> QED BY <1>1, <1>3, <1>4

\* The first loop: no session is being visited.
LEMMA NewSessionFacts ==
  ASSUME IInv, addSessQueue # <<>>
  PROVE  /\ Head(addSessQueue) \in Sessions
         /\ Tail(addSessQueue) \in Seq(Sessions)
         /\ AccountOf[Head(addSessQueue)] \in Accounts
  BY HeadTailProperties, AccountsAssumption DEF IInv, TypeOK

\* AddSession_ keeps it when the old session is loading.
LEMMA RejectSessionStep ==
  ASSUME IInv, RejectSession
  PROVE  IInv'
<1> DEFINE s == Head(addSessQueue)
<1>1. /\ s \in Sessions
      /\ Tail(addSessQueue) \in Seq(Sessions)
      /\ AccountOf[s] \in Accounts
  BY NewSessionFacts DEF RejectSession
<1>2. sess' \in SessFuns
  <2>1. sess \in SessFuns
    BY DEF IInv, TypeOK, SessFuns
  <2> QED BY <1>1, <2>1, DeletedType DEF RejectSession
<1>3. TypeOK'
  BY <1>1, <1>2 DEF RejectSession, IInv, TypeOK, SessFuns, registry, thread
<1>4. Walk'
  BY DEF RejectSession, IInv, Walk, IsRegistered, registry, thread
<1> QED BY <1>3, <1>4, RegistryUnchanged DEF RejectSession, IInv, registry

\* AddSession_ keeps it when the account is new, and queues in order.
LEMMA AddSessionStep ==
  ASSUME IInv, AddSession
  PROVE  /\ IInv'
         /\ m_sessions' =
               [m_sessions EXCEPT ![AccountOf[Head(addSessQueue)]] = Head(addSessQueue)]
         /\ JoinedBehind(Head(addSessQueue))
<1> DEFINE s == Head(addSessQueue)
           n == GetActiveAndQueuedSessionCount
<1>1. /\ s \in Sessions
      /\ Tail(addSessQueue) \in Seq(Sessions)
      /\ AccountOf[s] \in Accounts
  BY NewSessionFacts DEF AddSession
<1>2. /\ m_sessions[AccountOf[s]] = None
      /\ Join(s, n, sess, m_QueuedPlayer, told, m_disconnects)
      /\ addSessQueue' = Tail(addSessQueue)
      /\ UNCHANGED <<m_offlineSessions, online, stage, thread>>
      /\ pc = "add"
  BY DEF AddSession
<1>3. /\ sess \in SessFuns
      /\ m_QueuedPlayer \in Seq(Sessions)
      /\ told \in [Sessions -> Int]
      /\ m_disconnects \in SUBSET Accounts
      /\ m_sessions \in [Accounts -> Sessions \cup {None}]
  BY DEF IInv, TypeOK, SessFuns
<1>4. n \in Int
  <2>1. Cardinality(Occupied(m_sessions)) \in Nat
    BY <1>1, <1>3, CountProperties
  <2> QED BY <2>1 DEF GetActiveAndQueuedSessionCount, Occupied
<1> HIDE DEF s, n
<1>5. /\ m_sessions' \in [Accounts -> Sessions \cup {None}]
      /\ m_QueuedPlayer' \in Seq(Sessions)
      /\ sess' \in SessFuns
      /\ told' \in [Sessions -> Int]
      /\ m_disconnects' \subseteq Accounts
  BY <1>1, <1>2, <1>3, <1>4, JoinType DEF IInv
<1>6. TypeOK'
  BY <1>1, <1>2, <1>5 DEF IInv, TypeOK, SessFuns, thread
<1>7. QueueOfRegistered' /\ NobodyWaitsForAFreeSlot' /\ JoinedBehind(s)
  <2>1. /\ Distinct(m_QueuedPlayer)
        /\ \A i \in DOMAIN m_QueuedPlayer :
              /\ IsRegistered(m_QueuedPlayer[i])
              /\ m_QueuedPlayer[i] # m_sessions[AccountOf[s]]
    BY <1>2, <1>3, NoneAssumption DEF IInv, QueueOfRegistered, Distinct
  <2>2. m_QueuedPlayer # <<>> =>
            PlayerLimit > 0 /\ n - Len(m_QueuedPlayer) >= PlayerLimit
    BY DEF IInv, NobodyWaitsForAFreeSlot, n
  <2>3. n = GetActiveAndQueuedSessionCount
              - (IF m_sessions[AccountOf[s]] = None THEN 0 ELSE 1)
    BY <1>2, <1>4 DEF n
  <2> QED BY <1>1, <1>2, <1>3, <1>4, <2>1, <2>2, <2>3, JoinQueue DEF IInv
<1>8. m_sessions' = [m_sessions EXCEPT ![AccountOf[s]] = s]
  BY <1>2, JoinExpanded
<1>9. Keys'
  BY <1>1, <1>2, <1>3, <1>8 DEF IInv, Keys
<1>10. Walk'
  BY <1>2 DEF IInv, Walk, thread
<1> QED BY <1>6, <1>7, <1>8, <1>9, <1>10 DEF IInv, s

\* AddSession_ keeps it when it replaces a session, and queues in order.
LEMMA ReplaceSessionStep ==
  ASSUME IInv, ReplaceSession
  PROVE  /\ IInv'
         /\ m_sessions' =
               [m_sessions EXCEPT ![AccountOf[Head(addSessQueue)]] = Head(addSessQueue)]
         /\ JoinedBehind(Head(addSessQueue))
<1> DEFINE s == Head(addSessQueue)
           a == AccountOf[s]
           old == m_sessions[a]
           S == FlagsAfter(KickPlayer(sess, old, FALSE), old)
           off == m_offlineSessions[a]
           S1 == IF HandleSocketClosed(S, old)
                 THEN LoseSocket(IF off = None THEN S ELSE Deleted(S, off), old)
                 ELSE Deleted(S, old)
           n == GetActiveAndQueuedSessionCount
           q == QueueAfter(old)
           d == DisconnectsAfter(old)
<1>1. /\ s \in Sessions
      /\ Tail(addSessQueue) \in Seq(Sessions)
      /\ a \in Accounts
  BY NewSessionFacts DEF ReplaceSession
<1>2. /\ old # None
      /\ m_offlineSessions' = IF HandleSocketClosed(S, old)
                              THEN [m_offlineSessions EXCEPT ![a] = old]
                              ELSE m_offlineSessions
      /\ Join(s, n - 1, S1, q, ToldAfter(old), d)
      /\ addSessQueue' = Tail(addSessQueue)
      /\ UNCHANGED <<online, stage, thread>>
      /\ pc = "add"
  BY DEF ReplaceSession
<1>3. /\ sess \in SessFuns
      /\ m_sessions \in [Accounts -> Sessions \cup {None}]
      /\ m_offlineSessions \in [Accounts -> Sessions \cup {None}]
      /\ m_disconnects \subseteq Accounts
  BY DEF IInv, TypeOK, SessFuns
<1>4. /\ old \in Sessions
      /\ AccountOf[old] = a
      /\ IsRegistered(old)
      /\ off \in Sessions \cup {None}
  BY <1>1, <1>2, <1>3 DEF IInv, Keys, IsRegistered
<1>5. S1 \in SessFuns
  <2> HIDE DEF s, a, old, off
  <2>1. S \in SessFuns
    BY <1>3, <1>4, KickPlayerType, FlagsAfterType
  <2> HIDE DEF S
  <2>2. Deleted(S, old) \in SessFuns
    BY <1>4, <2>1, DeletedType
  <2>3. off # None => Deleted(S, off) \in SessFuns
    BY <1>4, <2>1, DeletedType
  <2>4. (IF off = None THEN S ELSE Deleted(S, off)) \in SessFuns
    BY <2>1, <2>3
  <2>5. LoseSocket(IF off = None THEN S ELSE Deleted(S, off), old) \in SessFuns
    BY <1>4, <2>4, LoseSocketType
  <2> QED BY <2>2, <2>5
<1>6. /\ q \in Seq(Sessions)
      /\ Distinct(q)
      /\ \A i \in DOMAIN q : q[i] # old /\ IsRegistered(q[i])
  BY <1>4, QueueAfterProperties DEF IInv
<1>7. q # <<>> => PlayerLimit > 0 /\ n - 1 - Len(q) >= PlayerLimit
  BY <1>4, DepartureKeepsSlotsFull DEF IInv
<1>8. ToldAfter(old) \in [Sessions -> Int]
  BY <1>4, ToldAfterType DEF IInv
<1>9. d \in SUBSET Accounts
  BY <1>1, <1>3, <1>4 DEF DisconnectsAfter
<1>10. n \in Int
  <2>1. Cardinality(Occupied(m_sessions)) \in Nat
    BY <1>1, <1>3, CountProperties
  <2> QED BY <2>1 DEF GetActiveAndQueuedSessionCount, Occupied
<1>11. n - 1 = GetActiveAndQueuedSessionCount
                 - (IF m_sessions[AccountOf[s]] = None THEN 0 ELSE 1)
  BY <1>2, <1>10
<1> DEFINE t == ToldAfter(old)
           m == n - 1
<1>12. m \in Int
  BY <1>10
<1>13. q # <<>> => PlayerLimit > 0 /\ m - Len(q) >= PlayerLimit
  BY <1>7
<1>14. m = GetActiveAndQueuedSessionCount
                 - (IF m_sessions[AccountOf[s]] = None THEN 0 ELSE 1)
  BY <1>11
<1>15. AccountOf[s] = a /\ m_sessions[AccountOf[s]] = old
  OBVIOUS
<1>16. Join(s, m, S1, q, t, d)
  BY <1>2
<1> HIDE DEF s, a, old, S, off, S1, n, q, d, t, m
<1>17. /\ m_sessions' \in [Accounts -> Sessions \cup {None}]
       /\ m_QueuedPlayer' \in Seq(Sessions)
       /\ sess' \in SessFuns
       /\ told' \in [Sessions -> Int]
       /\ m_disconnects' \subseteq Accounts
  BY <1>1, <1>5, <1>6, <1>8, <1>9, <1>12, <1>16, JoinType DEF IInv, t
<1>18. m_offlineSessions' \in [Accounts -> Sessions \cup {None}]
  BY <1>1, <1>2, <1>3, <1>4
<1>19. TypeOK'
  BY <1>1, <1>2, <1>17, <1>18 DEF IInv, TypeOK, SessFuns, thread
<1>20. QueueOfRegistered' /\ NobodyWaitsForAFreeSlot' /\ JoinedBehind(s)
  BY <1>1, <1>6, <1>12, <1>13, <1>14, <1>15, <1>16, JoinQueue DEF IInv
<1>21. m_sessions' = [m_sessions EXCEPT ![a] = s]
  BY <1>15, <1>16, JoinExpanded
<1>22. Keys'
  <2>2. \A x \in Accounts :
           m_sessions'[x] # None => AccountOf[m_sessions'[x]] = x
    BY <1>1, <1>3, <1>15, <1>21 DEF IInv, Keys
  <2>3. \A x \in Accounts :
           m_offlineSessions'[x] # None => AccountOf[m_offlineSessions'[x]] = x
    BY <1>1, <1>2, <1>3, <1>4 DEF IInv, Keys
  <2> QED BY <2>2, <2>3 DEF Keys
<1>23. Walk'
  BY <1>2 DEF IInv, Walk, thread
<1> QED BY <1>15, <1>19, <1>20, <1>21, <1>22, <1>23 DEF IInv, s

\* A session that leaves m_sessions takes only its own entry with it.
LEMMA UnregisterWalk ==
  ASSUME IInv, NEW s \in Sessions,
         m_sessions' = [m_sessions EXCEPT ![AccountOf[s]] = None],
         pc = "sessions", pc' = pc, cur' = None, todo' \subseteq todo,
         AccountOf[s] \notin todo'
  PROVE  /\ Walk'
         /\ \A x \in Accounts :
               m_sessions'[x] # None => AccountOf[m_sessions'[x]] = x
<1>1. AccountOf[s] \in Accounts /\ todo \subseteq Accounts
  BY AccountsAssumption DEF IInv, TypeOK
<1>2. \A x \in Accounts :
         m_sessions'[x] = IF x = AccountOf[s] THEN None ELSE m_sessions[x]
  BY <1>1 DEF IInv, TypeOK
<1>3. \A x \in todo' : m_sessions'[x] # None
  BY <1>1, <1>2 DEF IInv, Walk
<1>4. Walk'
  BY <1>3 DEF Walk
<1> QED BY <1>2, <1>4 DEF IInv, Keys

\* A session that goes offline keeps the invariant.
LEMMA GoOfflineStep ==
  ASSUME IInv, NEW a \in Accounts, GoOffline(a)
  PROVE  IInv'
<1> DEFINE s == m_sessions[a]
           off == m_offlineSessions[a]
           S == IF off = None THEN sess ELSE Deleted(sess, off)
<1>1. /\ pc = "sessions"
      /\ cur = None
      /\ a \in todo
      /\ Unregister(s, LoseSocket(S, s))
      /\ m_offlineSessions' = [m_offlineSessions EXCEPT ![a] = s]
      /\ todo' = todo \ {a}
      /\ UNCHANGED <<addSessQueue, online, stage, pc, cur>>
  BY DEF GoOffline
<1>2. /\ s \in Sessions
      /\ AccountOf[s] = a
      /\ IsRegistered(s)
      /\ off \in Sessions \cup {None}
  BY <1>1 DEF IInv, TypeOK, Walk, Keys, IsRegistered
<1>3. LoseSocket(S, s) \in SessFuns
  <2> HIDE DEF s, off
  <2>1. sess \in SessFuns
    BY DEF IInv, TypeOK, SessFuns
  <2>2. off # None => Deleted(sess, off) \in SessFuns
    BY <1>2, <2>1, DeletedType
  <2>3. S \in SessFuns
    BY <2>1, <2>2
  <2> HIDE DEF S
  <2> QED BY <1>2, <2>3, LoseSocketType
<1> HIDE DEF s, off, S
<1>4. /\ m_sessions' = [m_sessions EXCEPT ![AccountOf[s]] = None]
      /\ m_sessions' \in [Accounts -> Sessions \cup {None}]
      /\ m_QueuedPlayer' \in Seq(Sessions)
      /\ sess' \in SessFuns
      /\ told' \in [Sessions -> Int]
      /\ m_disconnects' \subseteq Accounts
      /\ QueueOfRegistered'
      /\ NobodyWaitsForAFreeSlot'
  BY <1>1, <1>2, <1>3, UnregisterStep
<1>5. TypeOK'
  BY <1>1, <1>2, <1>4 DEF IInv, TypeOK, SessFuns
<1>6. /\ Walk'
      /\ \A x \in Accounts :
            m_sessions'[x] # None => AccountOf[m_sessions'[x]] = x
  BY <1>1, <1>2, <1>4, UnregisterWalk
<1>7. \A x \in Accounts :
         m_offlineSessions'[x] # None => AccountOf[m_offlineSessions'[x]] = x
  BY <1>1, <1>2 DEF IInv, TypeOK, Keys
<1> QED BY <1>4, <1>5, <1>6, <1>7 DEF IInv, Keys

\* The database flag stays Boolean.
LEMMA OnlineAfterType ==
  ASSUME TypeOK, NEW S1, NEW S, NEW s \in Sessions
  PROVE  OnlineAfter(S1, S, s) \in [Accounts -> BOOLEAN]
  BY AccountsAssumption DEF TypeOK, OnlineAfter

\* A session that stays after its Update keeps the invariant.
LEMMA UpdateKeepsStep ==
  ASSUME IInv, UpdateKeeps
  PROVE  IInv'
<1>1. cur \in Sessions /\ TypeOK
  BY DEF UpdateKeeps, IInv, TypeOK
<1>2. PICK S1 \in Packets(cur) : \E S \in Callbacks(S1, cur) :
          sess' = S /\ online' = OnlineAfter(S1, S, cur)
  BY DEF UpdateKeeps
<1>3. sess' \in SessFuns
  <2>1. S1 \in SessFuns
    BY <1>1, PacketsType
  <2> QED BY <1>1, <1>2, <2>1, CallbacksType
<1>4. online' \in [Accounts -> BOOLEAN]
  BY <1>1, <1>2, OnlineAfterType
<1>5. TypeOK'
  BY <1>1, <1>3, <1>4 DEF UpdateKeeps, TypeOK, SessFuns, registry
<1>6. Walk'
  BY DEF UpdateKeeps, IInv, Walk, IsRegistered, registry
<1> QED BY <1>5, <1>6, RegistryUnchanged DEF UpdateKeeps, IInv, registry

\* So does a session that Update gives up.
LEMMA UpdateRemovesStep ==
  ASSUME IInv, UpdateRemoves
  PROVE  IInv'
<1>1. /\ cur \in Sessions
      /\ TypeOK
      /\ pc = "sessions"
      /\ IsRegistered(cur)
      /\ AccountOf[cur] \notin todo
      /\ AccountOf[cur] \in Accounts
  BY AccountsAssumption DEF UpdateRemoves, IInv, TypeOK, Walk
<1>2. PICK S1 \in Packets(cur) : \E S \in Callbacks(S1, cur) :
          /\ Unregister(cur, Deleted(S, cur))
          /\ online' = IF m_offlineSessions[AccountOf[cur]] = None
                       THEN [online EXCEPT ![AccountOf[cur]] = FALSE]
                       ELSE OnlineAfter(S1, S, cur)
  BY DEF UpdateRemoves
<1> PICK S \in Callbacks(S1, cur) :
          /\ Unregister(cur, Deleted(S, cur))
          /\ online' = IF m_offlineSessions[AccountOf[cur]] = None
                       THEN [online EXCEPT ![AccountOf[cur]] = FALSE]
                       ELSE OnlineAfter(S1, S, cur)
  BY <1>2
<1>3. /\ cur' = None
      /\ UNCHANGED <<addSessQueue, m_offlineSessions, stage, pc, todo>>
  BY DEF UpdateRemoves
<1>4. Deleted(S, cur) \in SessFuns
  <2>1. S1 \in SessFuns
    BY <1>1, PacketsType
  <2>2. S \in SessFuns
    BY <1>1, <2>1, CallbacksType
  <2> QED BY <1>1, <2>2, DeletedType
<1>5. /\ m_sessions' = [m_sessions EXCEPT ![AccountOf[cur]] = None]
      /\ m_sessions' \in [Accounts -> Sessions \cup {None}]
      /\ m_QueuedPlayer' \in Seq(Sessions)
      /\ sess' \in SessFuns
      /\ told' \in [Sessions -> Int]
      /\ m_disconnects' \subseteq Accounts
      /\ QueueOfRegistered'
      /\ NobodyWaitsForAFreeSlot'
  BY <1>1, <1>2, <1>4, UnregisterStep
<1>6. online' \in [Accounts -> BOOLEAN]
  <2>1. OnlineAfter(S1, S, cur) \in [Accounts -> BOOLEAN]
    BY <1>1, OnlineAfterType
  <2>2. [online EXCEPT ![AccountOf[cur]] = FALSE] \in [Accounts -> BOOLEAN]
    BY <1>1 DEF TypeOK
  <2> QED BY <1>2, <2>1, <2>2
<1>7. TypeOK'
  BY <1>1, <1>3, <1>5, <1>6 DEF TypeOK, SessFuns
<1>8. /\ Walk'
      /\ \A x \in Accounts :
            m_sessions'[x] # None => AccountOf[m_sessions'[x]] = x
  BY <1>1, <1>3, <1>5, UnregisterWalk
<1> QED BY <1>3, <1>5, <1>7, <1>8 DEF IInv, Keys

\* So does the end of an offline session.
LEMMA OfflineEndsStep ==
  ASSUME IInv, NEW a \in Accounts, OfflineEnds(a)
  PROVE  IInv'
<1>1. m_offlineSessions[a] \in Sessions
  BY DEF OfflineEnds, IInv, TypeOK, Walk
<1>2. sess' \in SessFuns
  <2>1. sess \in SessFuns
    BY DEF IInv, TypeOK, SessFuns
  <2> QED BY <1>1, <2>1, DeletedType DEF OfflineEnds
<1>3. TypeOK'
  BY <1>2 DEF OfflineEnds, IInv, TypeOK, SessFuns
<1>4. cur = None /\ pc = "offline"
  BY DEF OfflineEnds, IInv, Walk
<1>5. \A x \in Accounts :
         m_offlineSessions'[x] = IF x = a THEN None ELSE m_offlineSessions[x]
  BY DEF OfflineEnds, IInv, TypeOK
<1>6. Walk'
  BY <1>4, <1>5 DEF OfflineEnds, IInv, TypeOK, Walk
<1>7. Keys'
  BY <1>5 DEF OfflineEnds, IInv, Keys
<1>8. QueueOfRegistered' /\ NobodyWaitsForAFreeSlot'
  <2>1. UNCHANGED <<m_sessions, m_QueuedPlayer>>
    BY DEF OfflineEnds
  <2>2. GetActiveAndQueuedSessionCount' = GetActiveAndQueuedSessionCount
    BY <2>1 DEF GetActiveAndQueuedSessionCount
  <2> QED BY <2>1, <2>2 DEF IInv, QueueOfRegistered, NobodyWaitsForAFreeSlot,
                            IsRegistered
<1> QED BY <1>3, <1>6, <1>7, <1>8 DEF IInv

\* The steps of UpdateSessions that only move on to the next account or loop.
LEMMA LoopStep ==
  ASSUME IInv,
         \/ BeginUpdateSessions \/ EndAdding \/ EndSessions \/ EndUpdateSessions
         \/ \E a \in Accounts : SocketStillOpen(a) \/ OfflineStays(a)
  PROVE  IInv'
<1>1. /\ UNCHANGED <<addSessQueue, registry, sess, told, online, stage>>
      /\ pc' \in {"idle", "add", "sessions", "offline", "halted"}
      /\ todo' \subseteq Accounts
      /\ cur' \in Sessions \cup {None}
  <2>1. CASE \E a \in Accounts : SocketStillOpen(a) \/ OfflineStays(a)
    BY <2>1 DEF SocketStillOpen, OfflineStays, IInv, TypeOK
  <2>2. CASE BeginUpdateSessions \/ EndAdding \/ EndSessions \/ EndUpdateSessions
    BY <2>2 DEF BeginUpdateSessions, EndAdding, EndSessions, EndUpdateSessions,
                IInv, TypeOK
  <2> QED BY <2>1, <2>2
<1>2. TypeOK'
  BY <1>1 DEF IInv, TypeOK, registry
<1>3. Walk'
  <2>1. CASE \E a \in Accounts : SocketStillOpen(a)
    BY <2>1 DEF SocketStillOpen, IInv, TypeOK, Keys, Walk, IsRegistered, registry
  <2>2. CASE \E a \in Accounts : OfflineStays(a)
    BY <2>2 DEF OfflineStays, IInv, Walk, registry
  <2>3. CASE BeginUpdateSessions \/ EndAdding \/ EndSessions \/ EndUpdateSessions
    BY <2>3 DEF BeginUpdateSessions, EndAdding, EndSessions, EndUpdateSessions,
                IInv, Walk, registry
  <2> QED BY <2>1, <2>2, <2>3
<1> QED BY <1>1, <1>2, <1>3, RegistryUnchanged DEF IInv, registry

\* Time keeps the invariant.
LEMMA PassingStep ==
  ASSUME IInv, Passing
  PROVE  IInv'
<1>1. sess' \in SessFuns
  <2>1. sess \in SessFuns /\ TRUE \in BOOLEAN
    BY DEF IInv, TypeOK, SessFuns
  <2>2. \A s \in Sessions : [sess EXCEPT ![s].overdue = TRUE] \in SessFuns
    BY Zenon, <2>1, FieldType
  <2> QED BY <2>1, <2>2 DEF Passing, OfflineMinutePasses, TolerancePasses
<1>2. /\ UNCHANGED <<addSessQueue, m_sessions, m_offlineSessions, m_QueuedPlayer,
                     told, online, stage, pc, todo, cur>>
      /\ m_disconnects' \subseteq m_disconnects
  BY DEF Passing, OfflineMinutePasses, TolerancePasses, registry, thread
<1>3. TypeOK'
  BY <1>1, <1>2 DEF IInv, TypeOK, SessFuns
<1>4. Walk'
  BY <1>2 DEF IInv, Walk, IsRegistered
<1> QED BY <1>2, <1>3, <1>4, RegistryUnchanged DEF IInv

\* Kicks, map updates and StopNow keep the invariant.
LEMMA OthersStep ==
  ASSUME IInv, Others
  PROVE  IInv'
<1>1. sess' \in SessFuns
  <2>1. sess \in SessFuns /\ TRUE \in BOOLEAN
    BY DEF IInv, TypeOK, SessFuns
  <2>2. \A s \in Sessions : KickPlayer(sess, s, TRUE) \in SessFuns
    BY Zenon, <2>1, KickPlayerType
  <2>3. \A s \in Sessions : StartOrEndTravel(sess, s) \in SessFuns
    BY <2>1, TravelType
  <2> QED BY <2>1, <2>2, <2>3 DEF Others, Kick, MapUpdate, StopNow
<1>2. /\ UNCHANGED <<addSessQueue, registry, told, online, thread>>
      /\ stage' \in {"running", "stopped", "kicked"}
  BY DEF Others, Kick, MapUpdate, StopNow, IInv, TypeOK
<1>3. TypeOK'
  BY <1>1, <1>2 DEF IInv, TypeOK, SessFuns, registry, thread
<1>4. Walk'
  BY <1>2 DEF IInv, Walk, IsRegistered, registry, thread
<1> QED BY <1>2, <1>3, <1>4, RegistryUnchanged DEF IInv, registry

\* KickAll keeps the invariant.
LEMMA KickAllStep ==
  ASSUME IInv, KickAll
  PROVE  IInv'
<1>1. sess' \in SessFuns
  <2>1. sess \in SessFuns /\ TRUE \in BOOLEAN
    BY DEF IInv, TypeOK, SessFuns
  <2>2. \A s \in Sessions : KickPlayer(sess, s, TRUE) \in SessFuns
    BY Zenon, <2>1, KickPlayerType
  <2>3. \A s \in Sessions :
           /\ KickPlayer(sess, s, TRUE)[s] \in SessionRec
           /\ sess[s] \in SessionRec
    BY <2>1, <2>2 DEF SessFuns
  <2> QED BY <2>3 DEF KickAll, SessFuns
<1>2. /\ UNCHANGED <<addSessQueue, m_sessions, m_offlineSessions, m_disconnects,
                     told, online, thread>>
      /\ stage' = "kicked"
      /\ m_QueuedPlayer' = <<>>
  BY DEF KickAll
<1>3. TypeOK'
  BY <1>1, <1>2, EmptySeq DEF IInv, TypeOK, SessFuns, thread
<1>4. Walk'
  BY <1>2 DEF IInv, Walk, IsRegistered, thread
<1>5. Keys'
  BY <1>2 DEF IInv, Keys
<1>6. QueueOfRegistered' /\ NobodyWaitsForAFreeSlot'
  BY <1>2 DEF QueueOfRegistered, NobodyWaitsForAFreeSlot
<1> QED BY <1>3, <1>4, <1>5, <1>6 DEF IInv

\* Every step keeps the invariant.
LEMMA StepIInv == IInv /\ [Next]_vars => IInv'
<1> SUFFICES ASSUME IInv, [Next]_vars PROVE IInv'
  OBVIOUS
<1>1. CASE UNCHANGED vars
  <2>1. UNCHANGED <<addSessQueue, m_sessions, m_offlineSessions, m_QueuedPlayer,
                    m_disconnects, sess, told, online, stage, pc, todo, cur>>
    BY <1>1 DEF vars, registry, thread
  <2>2. TypeOK' /\ Walk'
    BY <2>1 DEF IInv, TypeOK, Walk, IsRegistered
  <2> QED BY <2>1, <2>2, RegistryUnchanged DEF IInv
<1>2. CASE UpdateSessions
  BY <1>2, RejectSessionStep, AddSessionStep, ReplaceSessionStep, GoOfflineStep,
     UpdateKeepsStep, UpdateRemovesStep, OfflineEndsStep, LoopStep
     DEF UpdateSessions
<1>3. CASE Network \/ Passing \/ Others \/ KickAll
  BY <1>3, NetworkStep, PassingStep, OthersStep, KickAllStep
<1> QED BY <1>1, <1>2, <1>3 DEF Next

\* The invariant holds in every reachable state.
LEMMA SpecIInv == Spec => []IInv
  BY InitIInv, StepIInv, PTL DEF Spec

\* The steps other than an admission at most delete entries of m_sessions.
LEMMA EntriesOnlyLeave ==
  ASSUME IInv, [Next]_vars, ~AddSession, ~ReplaceSession
  PROVE  \A a \in Accounts : m_sessions'[a] \in {m_sessions[a], None}
<1>1. CASE \E a \in Accounts : GoOffline(a)
  <2>1. PICK a \in Accounts : GoOffline(a)
    BY <1>1
  <2>2. m_sessions' = [m_sessions EXCEPT ![AccountOf[m_sessions[a]]] = None]
    BY <2>1 DEF GoOffline, Unregister
  <2> QED BY <2>2 DEF IInv, TypeOK
<1>2. CASE UpdateRemoves
  <2>1. m_sessions' = [m_sessions EXCEPT ![AccountOf[cur]] = None]
    BY <1>2 DEF UpdateRemoves, Unregister
  <2> QED BY <2>1 DEF IInv, TypeOK
<1>3. CASE UNCHANGED m_sessions
  BY <1>3
<1>4. \/ \E a \in Accounts : GoOffline(a)
      \/ UpdateRemoves
      \/ UNCHANGED m_sessions
  <2>1. CASE UNCHANGED vars
    BY <2>1 DEF vars, registry
  <2>2. CASE Network \/ Passing \/ Others \/ KickAll
    BY <2>2 DEF Network, Connect, CloseSocket, Passing, OfflineMinutePasses,
                TolerancePasses, Others, StopNow, Kick, MapUpdate, KickAll, registry
  <2>3. CASE UpdateSessions
    BY <2>3 DEF UpdateSessions, BeginUpdateSessions, RejectSession, EndAdding,
                UpdateKeeps, EndSessions, EndUpdateSessions, SocketStillOpen,
                OfflineStays, OfflineEnds, registry
  <2> QED BY <2>1, <2>2, <2>3 DEF Next
<1> QED BY <1>1, <1>2, <1>3, <1>4

\* Every step that admits a session queues it behind the others.
LEMMA StepJoinsBehind == IInv /\ [Next]_vars => [JoinsBehind]_vars
<1> SUFFICES ASSUME IInv, [Next]_vars, NEW s \in Sessions,
                    ~IsRegistered(s), m_sessions'[AccountOf[s]] = s
             PROVE  JoinedBehind(s)
  BY DEF JoinsBehind, JoinedBehind
<1> DEFINE h == Head(addSessQueue)
<1>1. s # None /\ AccountOf[s] \in Accounts /\ TypeOK
  BY NoneAssumption, AccountsAssumption DEF IInv
<1>2. m_sessions'[AccountOf[s]] \notin {m_sessions[AccountOf[s]], None}
  BY <1>1 DEF IsRegistered
<1>3. /\ m_sessions' = [m_sessions EXCEPT ![AccountOf[h]] = h]
      /\ JoinedBehind(h)
  BY <1>1, <1>2, EntriesOnlyLeave, AddSessionStep, ReplaceSessionStep
<1>4. h = s
  BY <1>1, <1>2, <1>3 DEF TypeOK
<1> QED BY <1>3, <1>4

-----------------------------------------------------------------------------
(* Theorems *)

\* Every variable of the registry keeps its type, whatever the interleaving of
\* the network threads with World::UpdateSessions.
THEOREM TypeCorrect == Spec => []TypeOK
<1>1. IInv => TypeOK
  BY DEF IInv
<1> QED BY <1>1, SpecIInv, PTL

\* The pointers in m_QueuedPlayer are valid and occur once: no session is
\* deleted while RemoveQueuedPlayer can still reach it.
THEOREM QueueIsOfRegisteredSessions == Spec => []QueueOfRegistered
<1>1. IInv => QueueOfRegistered
  BY DEF IInv
<1> QED BY <1>1, SpecIInv, PTL

\* No session waits while AddSession_ would admit it: the active sessions fill
\* m_playerLimit whenever the queue is not empty, for every limit.
THEOREM QueueOnlyWhenFull == Spec => []NobodyWaitsForAFreeSlot
<1>1. IInv => NobodyWaitsForAFreeSlot
  BY DEF IInv
<1> QED BY <1>1, SpecIInv, PTL

\* A session that must wait joins behind everybody who waits already, also when
\* the same step lets the account's old session leave the queue.
THEOREM FirstComeFirstServed == Spec => NoOvertaking
  BY SpecIInv, StepJoinsBehind, PTL DEF Spec, NoOvertaking

\* The iterators of the loops of UpdateSessions point to live entries.
THEOREM LoopsMeetLiveEntries == Spec => []Walk
<1>1. IInv => Walk
  BY DEF IInv
<1> QED BY <1>1, SpecIInv, PTL
=============================================================================
