---------------------------- MODULE WorldSockets ----------------------------
(***************************************************************************)
(* A network thread and its sockets: NetworkThread, Socket, WorldSocket.   *)
(*                                                                         *)
(* The network thread runs one handler at a time; the world thread closes  *)
(* and deletes the sessions it was given; the acceptor hands sockets over; *)
(* the login database answers queries at some time or never.  A step ends  *)
(* where another thread can notice the difference: before and after a      *)
(* lock, an atomic, or the publication of a session.                       *)
(***************************************************************************)
EXTENDS Sequences, Naturals, FiniteSets

CONSTANTS
    Sockets,
    NoSocket,
    MaxPackets    \* bound: one more packet is sent while fewer are queued

ASSUME MaxPacketsAssumption == MaxPackets \in Nat
ASSUME NoSocketAssumption == NoSocket \notin Sockets

\* The packets told apart: SMSG_AUTH_CHALLENGE, an SMSG_AUTH_RESPONSE that
\* refuses, and the others.
Packets == {"challenge", "refusal", "data"}

VARIABLES
    stage,          \* "new", "added" (_newSockets), "served" (_sockets), "removed"
    closed, closing,\* _closed, _closing
    reading,        \* an async_read_some is outstanding
    query,          \* the callback in _queryProcessor: "none", "ip", "auth"
    bufferQueue,    \* _bufferQueue
    writeQueue,     \* _writeQueue; a buffer is the set of packets in it
    writing,        \* _isWritingAsync
    authed,         \* _authed
    worldSession,   \* _worldSession # nullptr
    session,        \* the session: "none", "built", "live" (World has it), "deleted"
    hasSocket,      \* its m_Socket # nullptr
    closer,         \* the world thread inside CloseSocket: "none", "kick", "delete"
    at, on, back,   \* the network thread: place, socket, where its call returns to
    todo,           \* the rest of the loop of NetworkThread::Update
    delivered,      \* history: which of the first two have been written to the network
    excused         \* history: a write has failed, or the client has not waited
                    \* for the challenge

flags == <<closed, closing>>
queues == <<bufferQueue, writeQueue, writing>>
sessions == <<session, hasSocket, closer>>
thread == <<at, on, back, todo>>
history == <<delivered, excused>>
vars == <<stage, flags, reading, query, queues, authed, worldSession, sessions, thread, history>>

IsOpen(s) == ~closed[s] /\ ~closing[s]

\* The network thread is at place p, with socket s.
At(p, s) == at = p /\ on = s

\* Mutant: the reference to the socket is kept after the socket is dealt with.
GotoKeepsSocket(p) ==
    /\ at' = p
    /\ back' = IF p \in {"idle", "loop"} THEN "idle" ELSE back
    /\ UNCHANGED <<on, todo>>

\* It goes on at place p, with the same socket until that is dealt with.
Goto(p) ==
    /\ at' = p
    /\ on' = IF p \in {"idle", "loop"} THEN NoSocket ELSE on
    /\ back' = IF p \in {"idle", "loop"} THEN "idle" ELSE back
    /\ UNCHANGED todo

\* SendPacket: nothing for a socket that is not open.
Send(s, p) ==
    bufferQueue' = IF IsOpen(s) THEN [bufferQueue EXCEPT ![s] = Append(@, p)] ELSE bufferQueue

-----------------------------------------------------------------------------
(* The acceptor *)

\* OnSocketOpen: Start asks for the address, AddSocket takes _newSocketsLock
\* and makes the socket known to the network thread.
OnSocketOpen(s) ==
    /\ stage[s] = "new"
    /\ stage' = [stage EXCEPT ![s] = "added"]
    /\ query' = [query EXCEPT ![s] = "ip"]
    /\ UNCHANGED <<flags, reading, queues, authed, worldSession, sessions, thread, history>>

-----------------------------------------------------------------------------
(* NetworkThread::Update *)

\* The timer; AddNewSockets, under the lock.
BeginUpdate ==
    /\ at = "idle"
    /\ stage' = [s \in Sockets |-> IF stage[s] # "added" THEN stage[s]
                                   ELSE IF IsOpen(s) THEN "served" ELSE "removed"]
    /\ todo' = {s \in Sockets : stage'[s] = "served"}
    /\ at' = "loop"
    /\ UNCHANGED <<on, back, flags, reading, query, queues, authed, worldSession, sessions, history>>

EndUpdate ==
    /\ at = "loop"
    /\ todo = {}
    /\ at' = "idle"
    /\ UNCHANGED <<stage, on, back, todo, flags, reading, query, queues, authed, worldSession,
                   sessions, history>>

\* The buffers that the packets of q end up in: one, or the last packet has
\* no room in it and starts another.
Packed(q) ==
    IF q = <<>> THEN {<<>>}
    ELSE LET Contents(i, j) == {q[k] : k \in i .. j} IN
         {<<Contents(1, Len(q))>>, <<Contents(1, Len(q) - 1), Contents(Len(q), Len(q))>>}

\* WorldSocket::Update takes n packets; the lock-free queue may come back
\* empty-handed before its end.
Drain(s, n) ==
    /\ at = "loop"
    /\ s \in todo
    /\ todo' = todo \ {s}
    /\ on' = s
    /\ at' = "update"
    /\ back' = "callbacks"
    /\ bufferQueue' = [bufferQueue EXCEPT ![s] = SubSeq(@, n + 1, Len(@))]
    /\ \E buffers \in Packed(SubSeq(bufferQueue[s], 1, n)) :
          writeQueue' = [writeQueue EXCEPT ![s] = @ \o buffers]
    /\ UNCHANGED <<stage, flags, reading, query, writing, authed, worldSession, sessions, history>>

\* BaseSocket::Update returns false: the socket leaves _sockets.
RemoveSocket(s) ==
    /\ At("update", s)
    /\ closed[s]
    /\ stage' = [stage EXCEPT ![s] = "removed"]
    /\ Goto("loop")
    /\ UNCHANGED <<flags, reading, query, queues, authed, worldSession, sessions, history>>

UpdateSocket(s) ==
    /\ At("update", s)
    /\ ~closed[s]
    /\ Goto(IF writing[s] \/ (writeQueue[s] = <<>> /\ ~closing[s]) THEN "callbacks" ELSE "handle")
    /\ UNCHANGED <<stage, flags, reading, query, queues, authed, worldSession, sessions, history>>

-----------------------------------------------------------------------------
(* Socket::HandleQueue *)

\* Behind shutdown, which follows the exchange of _closed, writes fail.
ShutDown(s) == closed[s] /\ closer[s] = "none"

NothingToWrite(s) ==
    /\ At("handle", s)
    /\ writeQueue[s] = <<>>
    /\ Goto(back)
    /\ UNCHANGED <<stage, flags, reading, query, queues, authed, worldSession, sessions, history>>

\* would_block, or a part is written: AsyncProcessQueue.
WriteBlocks(s) ==
    /\ At("handle", s)
    /\ writeQueue[s] # <<>>
    /\ Head(writeQueue[s]) # {}
    /\ ~ShutDown(s)
    /\ writing' = [writing EXCEPT ![s] = TRUE]
    /\ Goto(back)
    /\ UNCHANGED <<stage, flags, reading, query, bufferQueue, writeQueue, authed, worldSession,
                   sessions, history>>

\* Mutant: the delayed close does not wait for the rest of the queue.
PopClosesEarly(s, more) ==
    /\ writeQueue' = [writeQueue EXCEPT ![s] = Tail(@)]
    /\ Goto(IF closing[s] THEN "close"
            ELSE IF more /\ Tail(writeQueue[s]) # <<>> THEN "handle" ELSE back)

\* The buffer is done with; a delayed close happens when it was the last.
\* more: HandleQueue returns that there are others, and Update loops.
Pop(s, more) ==
    /\ writeQueue' = [writeQueue EXCEPT ![s] = Tail(@)]
    /\ Goto(IF closing[s] /\ Tail(writeQueue[s]) = <<>> THEN "close"
            ELSE IF more /\ Tail(writeQueue[s]) # <<>> THEN "handle" ELSE back)

\* The whole buffer is written; nothing of an empty one.
WriteAll(s) ==
    /\ At("handle", s)
    /\ writeQueue[s] # <<>>
    /\ ~ShutDown(s)
    /\ delivered' = [delivered EXCEPT ![s] = @ \cup (Head(writeQueue[s]) \ {"data"})]
    /\ Pop(s, Head(writeQueue[s]) # {} /\ back = "callbacks")
    /\ UNCHANGED <<stage, flags, reading, query, bufferQueue, writing, authed, worldSession,
                   sessions, excused>>

\* Another error: the buffer is dropped.
WriteFails(s) ==
    /\ At("handle", s)
    /\ writeQueue[s] # <<>>
    /\ excused' = [excused EXCEPT ![s] = TRUE]
    /\ Pop(s, FALSE)
    /\ UNCHANGED <<stage, flags, reading, query, bufferQueue, writing, authed, worldSession,
                   sessions, delivered>>

\* The socket is writable again: WriteHandlerWrapper.
WriteHandler(s) ==
    /\ at = "idle"
    /\ writing[s]
    /\ writing' = [writing EXCEPT ![s] = FALSE]
    /\ at' = "handle"
    /\ on' = s
    /\ back' = "idle"
    /\ UNCHANGED <<stage, todo, flags, reading, query, bufferQueue, writeQueue, authed, worldSession,
                   sessions, history>>

-----------------------------------------------------------------------------
(* Socket::CloseSocket on the network thread *)

CloseSocket(s) ==
    /\ At("close", s)
    /\ closed' = [closed EXCEPT ![s] = TRUE]
    /\ Goto(IF closed[s] THEN back ELSE "onClose")
    /\ UNCHANGED <<stage, closing, reading, query, queues, authed, worldSession, sessions, history>>

\* OnClose takes _worldSessionLock, which nobody else holds for long.
OnClose(s) ==
    /\ At("onClose", s)
    /\ worldSession' = [worldSession EXCEPT ![s] = FALSE]
    /\ Goto(back)
    /\ UNCHANGED <<stage, flags, reading, query, queues, authed, sessions, history>>

-----------------------------------------------------------------------------
(* QueryCallbackProcessor::ProcessReadyCallbacks and the callbacks *)

\* There is no query, or its result is not there yet.
NoCallback(s) ==
    /\ At("callbacks", s)
    /\ Goto("loop")
    /\ UNCHANGED <<stage, flags, reading, query, queues, authed, worldSession, sessions, history>>

\* The result of query q is there and its callback runs.
Callback(s, q) ==
    /\ At("callbacks", s)
    /\ query[s] = q
    /\ query' = [query EXCEPT ![s] = "none"]

\* Mutant: the delayed close comes before the answer, which is then not sent.
RefuseCloseFirst(s, q) ==
    /\ Callback(s, q)
    /\ closing' = [closing EXCEPT ![s] = TRUE]
    /\ Goto("loop")
    /\ UNCHANGED <<stage, closed, reading, queues, authed, worldSession, sessions, history>>

\* CheckIpCallback for a banned address, HandleAuthSessionCallback for an
\* account that may not enter: SendAuthResponseError, DelayedCloseSocket.
Refuse(s, q) ==
    /\ Callback(s, q)
    /\ Send(s, "refusal")
    /\ closing' = [closing EXCEPT ![s] = TRUE]
    /\ Goto("loop")
    /\ UNCHANGED <<stage, closed, reading, writeQueue, writing, authed, worldSession, sessions, history>>

\* CheckIpCallback: AsyncRead, HandleSendAuthSession.
Challenge(s) ==
    /\ Callback(s, "ip")
    /\ reading' = IF IsOpen(s) THEN [reading EXCEPT ![s] = TRUE] ELSE reading
    /\ Send(s, "challenge")
    /\ Goto("loop")
    /\ UNCHANGED <<stage, flags, writeQueue, writing, authed, worldSession, sessions, history>>

\* HandleAuthSessionCallback: new WorldSession, without the lock.
Accept(s) ==
    /\ Callback(s, "auth")
    /\ authed' = [authed EXCEPT ![s] = TRUE]
    /\ session' = [session EXCEPT ![s] = "built"]
    /\ hasSocket' = [hasSocket EXCEPT ![s] = TRUE]
    /\ worldSession' = [worldSession EXCEPT ![s] = TRUE]
    /\ Goto("publish")
    /\ UNCHANGED <<stage, flags, reading, queues, closer, history>>

\* World::AddSession: from here on the world thread may do what it likes.
AddSession(s) ==
    /\ At("publish", s)
    /\ session' = [session EXCEPT ![s] = "live"]
    /\ at' = "read"
    /\ back' = "loop"
    /\ UNCHANGED <<stage, on, todo, flags, reading, query, queues, authed, worldSession, hasSocket,
                   closer, history>>

AsyncRead(s) ==
    /\ At("read", s)
    /\ reading' = IF IsOpen(s) THEN [reading EXCEPT ![s] = TRUE] ELSE reading
    /\ Goto(back)
    /\ UNCHANGED <<stage, flags, query, queues, authed, worldSession, sessions, history>>

-----------------------------------------------------------------------------
(* Socket::ReadHandlerInternal, WorldSocket::ReadHandler *)

\* The outstanding read of s completes.
ReadCompletes(s) ==
    /\ at = "idle"
    /\ reading[s]
    /\ reading' = [reading EXCEPT ![s] = FALSE]
    /\ on' = s
    /\ back' = "idle"
    /\ UNCHANGED <<stage, todo, flags, query, queues, authed, worldSession, sessions, history>>

\* With an error, or the client has closed its end.
Disconnect(s) == ReadCompletes(s) /\ at' = "close"

ReadHandler(s) == ReadCompletes(s) /\ at' = IF IsOpen(s) THEN "packet" ELSE "ignore"

\* if (!IsOpen()) return
Ignore(s) ==
    /\ At("ignore", s)
    /\ Goto("idle")
    /\ UNCHANGED <<stage, flags, reading, query, queues, authed, worldSession, sessions, history>>

\* A header or a packet that cannot be read.
Malformed(s) ==
    /\ At("packet", s)
    /\ Goto("close")
    /\ UNCHANGED <<stage, flags, reading, query, queues, authed, worldSession, sessions, history>>

\* Mutant: ReadHandler takes WaitingForQuery for Ok and reads on.
HandleAuthSessionReadsOn(s) ==
    /\ At("packet", s)
    /\ ~authed[s]
    /\ query' = [query EXCEPT ![s] = "auth"]
    /\ excused' = [excused EXCEPT ![s] = @ \/ "challenge" \notin delivered[s]]
    /\ Goto("read")
    /\ UNCHANGED <<stage, flags, reading, queues, authed, worldSession, sessions,
                   delivered>>

\* The first CMSG_AUTH_SESSION: WaitingForQuery, nothing is read meanwhile.
HandleAuthSession(s) ==
    /\ At("packet", s)
    /\ ~authed[s]
    /\ query' = [query EXCEPT ![s] = "auth"]
    /\ excused' = [excused EXCEPT ![s] = @ \/ "challenge" \notin delivered[s]]
    /\ Goto("idle")
    /\ UNCHANGED <<stage, flags, reading, queues, authed, worldSession, sessions,
                   delivered>>

\* Another one is an error, which is logged if try_lock gets _worldSessionLock.
AuthedTwice(s) ==
    /\ At("packet", s)
    /\ authed[s]
    /\ \E p \in {"duplicate", "close"} : Goto(p)
    /\ UNCHANGED <<stage, flags, reading, query, queues, authed, worldSession, sessions, history>>

\* _worldSession->GetPlayerInfo(), under the lock and without a test.  When
\* the pointer is null the code's behaviour is undefined; the model goes on.
LogDuplicate(s) ==
    /\ At("duplicate", s)
    /\ Goto("close")
    /\ UNCHANGED <<stage, flags, reading, query, queues, authed, worldSession, sessions, history>>

\* Any other packet: lock _worldSessionLock, test _worldSession.
LockSession(s) ==
    /\ At("packet", s)
    /\ worldSession[s]
    /\ Goto("session")
    /\ UNCHANGED <<stage, flags, reading, query, queues, authed, worldSession, sessions, history>>

\* Without a session: an error, or CMSG_KEEP_ALIVE, which is Ok.
NoSession(s) ==
    /\ At("packet", s)
    /\ ~worldSession[s]
    /\ \E p \in {"close", "packet", "read"} : Goto(p)
    /\ UNCHANGED <<stage, flags, reading, query, queues, authed, worldSession, sessions, history>>

\* With it, under the lock: QueuePacket, ResetTimeOutTime, SetLatency; then an
\* error (no handler), the next packet of the buffer, or the next read.
UseSession(s) ==
    /\ At("session", s)
    /\ \E p \in {"close", "packet", "read"} : Goto(p)
    /\ UNCHANGED <<stage, flags, reading, query, queues, authed, worldSession, sessions, history>>

\* CMSG_PING is answered, after the unlock.
Pong(s) ==
    /\ At("session", s)
    /\ Len(bufferQueue[s]) + Len(writeQueue[s]) < MaxPackets
    /\ Send(s, "data")
    /\ \E p \in {"packet", "read"} : Goto(p)
    /\ UNCHANGED <<stage, flags, reading, query, writeQueue, writing, authed, worldSession, sessions,
                   history>>

-----------------------------------------------------------------------------
(* The world thread, and the map threads that work for it *)

\* WorldSession::SendPacket
SendPacket(s) ==
    /\ session[s] = "live"
    /\ hasSocket[s]
    /\ IsOpen(s)
    /\ Len(bufferQueue[s]) + Len(writeQueue[s]) < MaxPackets
    /\ Send(s, "data")
    /\ UNCHANGED <<stage, flags, reading, query, writeQueue, writing, authed, worldSession, sessions,
                   thread, history>>

\* KickPlayer: CloseSocket, up to the exchange of _closed.
KickPlayer(s) ==
    /\ session[s] = "live"
    /\ hasSocket[s]
    /\ closer[s] = "none"
    /\ ~closed[s]
    /\ closed' = [closed EXCEPT ![s] = TRUE]
    /\ closer' = [closer EXCEPT ![s] = "kick"]
    /\ UNCHANGED <<stage, closing, reading, query, queues, authed, worldSession, session, hasSocket,
                   thread, history>>

\* HandleSocketClosed, Update: m_Socket = nullptr when it is no longer open.
LoseSocket(s) ==
    /\ session[s] = "live"
    /\ hasSocket[s]
    /\ closer[s] = "none"
    /\ ~IsOpen(s)
    /\ hasSocket' = [hasSocket EXCEPT ![s] = FALSE]
    /\ UNCHANGED <<stage, flags, reading, query, queues, authed, worldSession, session, closer,
                   thread, history>>

\* Mutant: the session is deleted without its socket being closed.
DeleteLeavesSocket(s) ==
    /\ session[s] = "live"
    /\ closer[s] = "none"
    /\ session' = [session EXCEPT ![s] = "deleted"]
    /\ hasSocket' = [hasSocket EXCEPT ![s] = FALSE]
    /\ UNCHANGED <<stage, flags, closer, reading, query, queues, authed, worldSession, thread, history>>

\* ~WorldSession: CloseSocket up to the exchange, if there is a socket that
\* nobody has closed; otherwise the session is gone at once.
Delete(s) ==
    /\ session[s] = "live"
    /\ closer[s] = "none"
    /\ IF hasSocket[s] /\ ~closed[s]
       THEN /\ closed' = [closed EXCEPT ![s] = TRUE]
            /\ closer' = [closer EXCEPT ![s] = "delete"]
            /\ UNCHANGED <<closing, session, hasSocket>>
       ELSE /\ session' = [session EXCEPT ![s] = "deleted"]
            /\ hasSocket' = [hasSocket EXCEPT ![s] = FALSE]
            /\ UNCHANGED <<flags, closer>>
    /\ UNCHANGED <<stage, reading, query, queues, authed, worldSession, thread, history>>

\* OnClose waits for _worldSessionLock; then the caller goes on.
FinishClose(s) ==
    /\ closer[s] # "none"
    /\ ~At("session", s) /\ ~At("duplicate", s)
    /\ worldSession' = [worldSession EXCEPT ![s] = FALSE]
    /\ closer' = [closer EXCEPT ![s] = "none"]
    /\ session' = [session EXCEPT ![s] = IF closer[s] = "delete" THEN "deleted" ELSE @]
    /\ hasSocket' = [hasSocket EXCEPT ![s] = @ /\ closer[s] # "delete"]
    /\ UNCHANGED <<stage, flags, reading, query, queues, authed, thread, history>>

-----------------------------------------------------------------------------
Init ==
    /\ stage = [s \in Sockets |-> "new"]
    /\ closed = [s \in Sockets |-> FALSE]
    /\ closing = [s \in Sockets |-> FALSE]
    /\ reading = [s \in Sockets |-> FALSE]
    /\ query = [s \in Sockets |-> "none"]
    /\ bufferQueue = [s \in Sockets |-> <<>>]
    /\ writeQueue = [s \in Sockets |-> <<>>]
    /\ writing = [s \in Sockets |-> FALSE]
    /\ authed = [s \in Sockets |-> FALSE]
    /\ worldSession = [s \in Sockets |-> FALSE]
    /\ session = [s \in Sockets |-> "none"]
    /\ hasSocket = [s \in Sockets |-> FALSE]
    /\ closer = [s \in Sockets |-> "none"]
    /\ at = "idle"
    /\ on = NoSocket
    /\ back = "idle"
    /\ todo = {}
    /\ delivered = [s \in Sockets |-> {}]
    /\ excused = [s \in Sockets |-> FALSE]

UpdateOf(s) ==
    \/ \E n \in 0 .. Len(bufferQueue[s]) : Drain(s, n)
    \/ RemoveSocket(s) \/ UpdateSocket(s)

HandleQueue(s) ==
    NothingToWrite(s) \/ WriteBlocks(s) \/ WriteAll(s) \/ WriteFails(s)

ProcessReadyCallbacks(s) ==
    \/ NoCallback(s) \/ Challenge(s) \/ Accept(s) \/ AddSession(s)
    \/ \E q \in {"ip", "auth"} : Refuse(s, q)

Read(s) ==
    \/ AsyncRead(s) \/ Ignore(s) \/ Malformed(s) \/ HandleAuthSession(s) \/ AuthedTwice(s)
    \/ LogDuplicate(s) \/ LockSession(s) \/ NoSession(s) \/ UseSession(s) \/ Pong(s)

\* What the network thread does once it has begun something.
Proceed ==
    \/ EndUpdate
    \/ \E s \in Sockets : \/ UpdateOf(s) \/ HandleQueue(s) \/ CloseSocket(s) \/ OnClose(s)
                          \/ ProcessReadyCallbacks(s) \/ Read(s)

\* The last packet of a read buffer.
LastPacket(s) == (UseSession(s) \/ Pong(s) \/ NoSession(s)) /\ at' # "packet"

World(s) ==
    SendPacket(s) \/ KickPlayer(s) \/ LoseSocket(s) \/ Delete(s) \/ FinishClose(s)

Next ==
    \/ BeginUpdate \/ Proceed
    \/ \E s \in Sockets : \/ OnSocketOpen(s)
                          \/ WriteHandler(s) \/ Disconnect(s) \/ ReadHandler(s) \/ World(s)

Spec == Init /\ [][Next]_vars

\* The io_context runs the timer and every ready handler in turn, so none of
\* them is postponed for ever, and handlers return: a read buffer holds
\* finitely many packets.  A peer that is connected takes data at some time,
\* or the write fails (SF); the lock-free queue delivers what is in it
\* (MPSCQueue!PacketsArrive).
FairSpec ==
    /\ Spec
    /\ WF_vars(Proceed)
    /\ SF_vars(BeginUpdate)
    /\ SF_vars(\E s \in Sockets : LastPacket(s))
    /\ \A s \in Sockets :
        /\ SF_vars(WriteHandler(s))
        /\ SF_vars(WriteAll(s) \/ WriteFails(s))
        /\ SF_vars(bufferQueue[s] # <<>> /\ Drain(s, Len(bufferQueue[s])))

-----------------------------------------------------------------------------
(* Properties *)

Places == {"idle", "loop", "update", "handle", "close", "onClose", "callbacks", "publish",
           "read", "ignore", "packet", "session", "duplicate"}

\* Every variable has its type; the network thread has a socket in hand
\* exactly while it deals with one.
TypeOK ==
    /\ stage \in [Sockets -> {"new", "added", "served", "removed"}]
    /\ closed \in [Sockets -> BOOLEAN] /\ closing \in [Sockets -> BOOLEAN]
    /\ reading \in [Sockets -> BOOLEAN]
    /\ query \in [Sockets -> {"none", "ip", "auth"}]
    /\ bufferQueue \in [Sockets -> Seq(Packets)]
    /\ writeQueue \in [Sockets -> Seq(SUBSET Packets)]
    /\ writing \in [Sockets -> BOOLEAN]
    /\ authed \in [Sockets -> BOOLEAN]
    /\ worldSession \in [Sockets -> BOOLEAN]
    /\ session \in [Sockets -> {"none", "built", "live", "deleted"}]
    /\ hasSocket \in [Sockets -> BOOLEAN]
    /\ closer \in [Sockets -> {"none", "kick", "delete"}]
    /\ at \in Places /\ on \in Sockets \cup {NoSocket} /\ back \in {"idle", "loop", "callbacks"}
    /\ on = NoSocket <=> at \in {"idle", "loop"}
    /\ todo \subseteq Sockets
    /\ delivered \in [Sockets -> SUBSET Packets]
    /\ excused \in [Sockets -> BOOLEAN]

\* A session that the network thread reaches through _worldSession, under the
\* lock or before it is published, exists: OnClose comes before the deletion,
\* whoever closes, and waits for the lock.  ReadDataHandler tests the pointer;
\* the report of a duplicate CMSG_AUTH_SESSION does not, and what holds for it
\* is only that a pointer that is not null is valid (see DuplicateIsLogged).
NoUseOfDeletedSession ==
    \A s \in Sockets :
        /\ At("session", s) => session[s] = "live"
        /\ At("duplicate", s) /\ worldSession[s] => session[s] = "live"
        /\ At("publish", s) => session[s] = "built"
        /\ worldSession[s] /\ session[s] = "deleted" => At("onClose", s)

\* The network thread is about to read again, or to close.
InHand(s) == on = s /\ at \in {"packet", "session", "duplicate", "publish", "read", "close"}

\* An open socket waits for exactly one thing, the next read or the answer to
\* its query, or is in hand: it is never forgotten and never read twice at a
\* time.  A callback never creates a session for a closed socket.
OpenSocketIsServed ==
    \A s \in Sockets :
        /\ ~(reading[s] /\ query[s] # "none")
        /\ InHand(s) => ~reading[s] /\ query[s] = "none"
        /\ stage[s] # "new" /\ IsOpen(s) => reading[s] \/ query[s] # "none" \/ InHand(s)
        /\ At("publish", s) => IsOpen(s)

\* "locking just to safely log offending user is probably overkill"
\* (ReadDataHandler): who holds the lock finds the session of the offending
\* user.  It does not: the world thread may have closed the socket since
\* ReadHandler found it open, and OnClose has reset the pointer.
DuplicateIsLogged == \A s \in Sockets : At("duplicate", s) => worldSession[s]

\* A client that is refused is told so before its socket is closed, unless a
\* write fails or it has not waited for the challenge.
RefusedClientIsTold ==
    \A s \in Sockets :
        closing[s] /\ closed[s] /\ ~excused[s] => "refusal" \in delivered[s]

\* A delayed close closes the socket, and it leaves the thread.
DelayedCloseEnds == \A s \in Sockets : closing[s] ~> stage[s] = "removed"

=============================================================================
