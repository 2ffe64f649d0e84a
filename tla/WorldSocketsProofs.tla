------------------------- MODULE WorldSocketsProofs -------------------------
(***************************************************************************)
(* Theorems about WorldSockets, for any sockets and any bound on packets.  *)
(*                                                                         *)
(* The argument: a session that the world thread may delete has a socket   *)
(* that is closed or that it closes first, and a closed socket has its     *)
(* pointer reset or is being closed by a thread that will reset it.  What  *)
(* waits for a read or a query is open or nobody else's (IInv).  On top of *)
(* that, a refused client that has behaved has nothing in front of the     *)
(* refusal (Told).                                                         *)
(***************************************************************************)
EXTENDS WorldSockets, SequenceTheorems, TLAPS

-----------------------------------------------------------------------------
(* The inductive invariant *)

\* Before the acceptor hands it over nobody knows the socket.
Unknown(s) ==
    stage[s] = "new" =>
        /\ IsOpen(s) /\ ~reading[s] /\ query[s] = "none" /\ ~writing[s]
        /\ session[s] = "none" /\ s \notin todo /\ on # s

\* The socket waits for one thing.
Served(s) ==
    /\ reading[s] => query[s] = "none"
    /\ InHand(s) => ~reading[s] /\ query[s] = "none"
    /\ stage[s] # "new" /\ IsOpen(s) => reading[s] \/ query[s] # "none" \/ InHand(s)
    /\ query[s] # "none" => IsOpen(s) /\ session[s] = "none"
    /\ closing[s] => ~reading[s]
    /\ At("publish", s) => IsOpen(s)
    /\ At("packet", s) /\ session[s] = "none" => IsOpen(s)
    /\ At("onClose", s) => closed[s]

\* The session and the pointer to it.
Session(s) ==
    /\ authed[s] <=> session[s] # "none"
    /\ session[s] = "built" <=> At("publish", s)
    /\ session[s] # "none" => ~closing[s]
    /\ session[s] \in {"built", "live"} /\ ~hasSocket[s] => closed[s]
    /\ closer[s] # "none" => session[s] = "live" /\ closed[s]
    /\ worldSession[s] => session[s] \in {"built", "live"} \/ At("onClose", s)
    /\ worldSession[s] => authed[s]
    /\ worldSession[s] /\ closed[s] => At("onClose", s) \/ closer[s] # "none"
    /\ At("session", s) => worldSession[s]
    /\ At("duplicate", s) => authed[s]

IInv == TypeOK /\ \A s \in Sockets : Unknown(s) /\ Served(s) /\ Session(s)

\* Nothing is on its way to the client, or p alone.
NoneQueued(s) == bufferQueue[s] = <<>> /\ writeQueue[s] = <<>>
Queued(s, p) ==
    \/ bufferQueue[s] = <<p>> /\ writeQueue[s] = <<>>
    \/ bufferQueue[s] = <<>> /\ writeQueue[s] \in {<<{p}>>, <<{}, {p}>>}

\* Unless excused: what a client without a session is sent is the challenge,
\* and when that has arrived the refusal; until this arrives it is not closed.
Told(s) ==
    ~excused[s] =>
        /\ stage[s] = "new" \/ query[s] = "ip" => NoneQueued(s) /\ "challenge" \notin delivered[s]
        /\ query[s] = "auth" => "challenge" \in delivered[s]
        /\ session[s] = "none" /\ ~closing[s] =>
              NoneQueued(s) \/ (Queued(s, "challenge") /\ "challenge" \notin delivered[s])
        /\ closing[s] /\ "refusal" \notin delivered[s] =>
              ~closed[s] /\ ~At("close", s) /\ Queued(s, "refusal")

TInv == IInv /\ \A s \in Sockets : Told(s)

-----------------------------------------------------------------------------
(* Every action keeps IInv *)

LEMMA OnSocketOpenKeeps ==
    ASSUME NEW s \in Sockets, IInv, OnSocketOpen(s) PROVE IInv'
<1> USE NoSocketAssumption DEF vars, flags, queues, sessions, thread, history, At, IsOpen
<1>1. TypeOK'
  BY DEF IInv, TypeOK, Places, Packets, OnSocketOpen
<1>2. ASSUME NEW x \in Sockets PROVE Unknown(x)' /\ Served(x)' /\ Session(x)'
  <2> USE DEF OnSocketOpen
  <2>1. TypeOK /\ TypeOK' /\ Unknown(x) /\ Served(x) /\ Session(x)
    BY <1>1 DEF IInv
  <2>2. Unknown(x)'
    BY <2>1 DEF TypeOK, Unknown, Session
  <2>3. Served(x)'
    BY <2>1 DEF TypeOK, Served, InHand, Unknown, Session
  <2>4. Session(x)'
    BY <2>1 DEF TypeOK, Session, Served, InHand, Unknown
  <2> QED BY <2>2, <2>3, <2>4
<1> QED BY <1>1, <1>2 DEF IInv

LEMMA RemoveSocketKeeps ==
    ASSUME NEW s \in Sockets, IInv, RemoveSocket(s) PROVE IInv'
<1> USE NoSocketAssumption DEF vars, flags, queues, sessions, thread, history, At, IsOpen
<1>1. TypeOK'
  BY DEF IInv, TypeOK, Places, Packets, RemoveSocket, Goto
<1>2. ASSUME NEW x \in Sockets PROVE Unknown(x)' /\ Served(x)' /\ Session(x)'
  <2> USE DEF RemoveSocket, Goto
  <2>1. TypeOK /\ TypeOK' /\ Unknown(x) /\ Served(x) /\ Session(x)
    BY <1>1 DEF IInv
  <2>2. Unknown(x)'
    BY <2>1 DEF TypeOK, Unknown, Session
  <2>3. Served(x)'
    BY <2>1 DEF TypeOK, Served, InHand, Unknown, Session
  <2>4. Session(x)'
    BY <2>1 DEF TypeOK, Session, Served, InHand, Unknown
  <2> QED BY <2>2, <2>3, <2>4
<1> QED BY <1>1, <1>2 DEF IInv

LEMMA UpdateSocketKeeps ==
    ASSUME NEW s \in Sockets, IInv, UpdateSocket(s) PROVE IInv'
<1> USE NoSocketAssumption DEF vars, flags, queues, sessions, thread, history, At, IsOpen
<1>1. TypeOK'
  BY DEF IInv, TypeOK, Places, Packets, UpdateSocket, Goto
<1>2. ASSUME NEW x \in Sockets PROVE Unknown(x)' /\ Served(x)' /\ Session(x)'
  <2> USE DEF UpdateSocket, Goto
  <2>1. TypeOK /\ TypeOK' /\ Unknown(x) /\ Served(x) /\ Session(x)
    BY <1>1 DEF IInv
  <2>2. Unknown(x)'
    BY <2>1 DEF TypeOK, Unknown, Session
  <2>3. Served(x)'
    BY <2>1 DEF TypeOK, Served, InHand, Unknown, Session
  <2>4. Session(x)'
    BY <2>1 DEF TypeOK, Session, Served, InHand, Unknown
  <2> QED BY <2>2, <2>3, <2>4
<1> QED BY <1>1, <1>2 DEF IInv

LEMMA NothingToWriteKeeps ==
    ASSUME NEW s \in Sockets, IInv, NothingToWrite(s) PROVE IInv'
<1> USE NoSocketAssumption DEF vars, flags, queues, sessions, thread, history, At, IsOpen
<1>1. TypeOK'
  BY DEF IInv, TypeOK, Places, Packets, NothingToWrite, Goto
<1>2. ASSUME NEW x \in Sockets PROVE Unknown(x)' /\ Served(x)' /\ Session(x)'
  <2> USE DEF NothingToWrite, Goto
  <2>1. TypeOK /\ TypeOK' /\ Unknown(x) /\ Served(x) /\ Session(x)
    BY <1>1 DEF IInv
  <2>2. Unknown(x)'
    BY <2>1 DEF TypeOK, Unknown, Session
  <2>3. Served(x)'
    BY <2>1 DEF TypeOK, Served, InHand, Unknown, Session
  <2>4. Session(x)'
    BY <2>1 DEF TypeOK, Session, Served, InHand, Unknown
  <2> QED BY <2>2, <2>3, <2>4
<1> QED BY <1>1, <1>2 DEF IInv

LEMMA WriteBlocksKeeps ==
    ASSUME NEW s \in Sockets, IInv, WriteBlocks(s) PROVE IInv'
<1> USE NoSocketAssumption DEF vars, flags, queues, sessions, thread, history, At, IsOpen
<1>1. TypeOK'
  BY DEF IInv, TypeOK, Places, Packets, WriteBlocks, Goto
<1>2. ASSUME NEW x \in Sockets PROVE Unknown(x)' /\ Served(x)' /\ Session(x)'
  <2> USE DEF WriteBlocks, Goto
  <2>1. TypeOK /\ TypeOK' /\ Unknown(x) /\ Served(x) /\ Session(x)
    BY <1>1 DEF IInv
  <2>2. Unknown(x)'
    BY <2>1 DEF TypeOK, Unknown, Session
  <2>3. Served(x)'
    BY <2>1 DEF TypeOK, Served, InHand, Unknown, Session
  <2>4. Session(x)'
    BY <2>1 DEF TypeOK, Session, Served, InHand, Unknown
  <2> QED BY <2>2, <2>3, <2>4
<1> QED BY <1>1, <1>2 DEF IInv

LEMMA WriteAllKeeps ==
    ASSUME NEW s \in Sockets, IInv, WriteAll(s) PROVE IInv'
<1> USE NoSocketAssumption DEF vars, flags, queues, sessions, thread, history, At, IsOpen
<1>1. TypeOK'
  BY DEF IInv, TypeOK, Places, Packets, WriteAll, Pop, Goto
<1>2. ASSUME NEW x \in Sockets PROVE Unknown(x)' /\ Served(x)' /\ Session(x)'
  <2> USE DEF WriteAll, Pop, Goto
  <2>1. TypeOK /\ TypeOK' /\ Unknown(x) /\ Served(x) /\ Session(x)
    BY <1>1 DEF IInv
  <2>2. Unknown(x)'
    BY <2>1 DEF TypeOK, Unknown, Session
  <2>3. Served(x)'
    BY <2>1 DEF TypeOK, Served, InHand, Unknown, Session
  <2>4. Session(x)'
    BY <2>1 DEF TypeOK, Session, Served, InHand, Unknown
  <2> QED BY <2>2, <2>3, <2>4
<1> QED BY <1>1, <1>2 DEF IInv

LEMMA WriteFailsKeeps ==
    ASSUME NEW s \in Sockets, IInv, WriteFails(s) PROVE IInv'
<1> USE NoSocketAssumption DEF vars, flags, queues, sessions, thread, history, At, IsOpen
<1>1. TypeOK'
  BY DEF IInv, TypeOK, Places, Packets, WriteFails, Pop, Goto
<1>2. ASSUME NEW x \in Sockets PROVE Unknown(x)' /\ Served(x)' /\ Session(x)'
  <2> USE DEF WriteFails, Pop, Goto
  <2>1. TypeOK /\ TypeOK' /\ Unknown(x) /\ Served(x) /\ Session(x)
    BY <1>1 DEF IInv
  <2>2. Unknown(x)'
    BY <2>1 DEF TypeOK, Unknown, Session
  <2>3. Served(x)'
    BY <2>1 DEF TypeOK, Served, InHand, Unknown, Session
  <2>4. Session(x)'
    BY <2>1 DEF TypeOK, Session, Served, InHand, Unknown
  <2> QED BY <2>2, <2>3, <2>4
<1> QED BY <1>1, <1>2 DEF IInv

LEMMA WriteHandlerKeeps ==
    ASSUME NEW s \in Sockets, IInv, WriteHandler(s) PROVE IInv'
<1> USE NoSocketAssumption DEF vars, flags, queues, sessions, thread, history, At, IsOpen
<1>1. TypeOK'
  BY DEF IInv, TypeOK, Places, Packets, WriteHandler
<1>2. ASSUME NEW x \in Sockets PROVE Unknown(x)' /\ Served(x)' /\ Session(x)'
  <2> USE DEF WriteHandler
  <2>1. TypeOK /\ TypeOK' /\ Unknown(x) /\ Served(x) /\ Session(x)
    BY <1>1 DEF IInv
  <2>2. Unknown(x)'
    BY <2>1 DEF TypeOK, Unknown, Session
  <2>3. Served(x)'
    BY <2>1 DEF TypeOK, Served, InHand, Unknown, Session
  <2>4. Session(x)'
    BY <2>1 DEF TypeOK, Session, Served, InHand, Unknown
  <2> QED BY <2>2, <2>3, <2>4
<1> QED BY <1>1, <1>2 DEF IInv

LEMMA CloseSocketKeeps ==
    ASSUME NEW s \in Sockets, IInv, CloseSocket(s) PROVE IInv'
<1> USE NoSocketAssumption DEF vars, flags, queues, sessions, thread, history, At, IsOpen
<1>1. TypeOK'
  BY DEF IInv, TypeOK, Places, Packets, CloseSocket, Goto
<1>2. ASSUME NEW x \in Sockets PROVE Unknown(x)' /\ Served(x)' /\ Session(x)'
  <2> USE DEF CloseSocket, Goto
  <2>1. TypeOK /\ TypeOK' /\ Unknown(x) /\ Served(x) /\ Session(x)
    BY <1>1 DEF IInv
  <2>2. Unknown(x)'
    BY <2>1 DEF TypeOK, Unknown, Session
  <2>3. Served(x)'
    BY <2>1 DEF TypeOK, Served, InHand, Unknown, Session
  <2>4. Session(x)'
    BY <2>1 DEF TypeOK, Session, Served, InHand, Unknown
  <2> QED BY <2>2, <2>3, <2>4
<1> QED BY <1>1, <1>2 DEF IInv

LEMMA OnCloseKeeps ==
    ASSUME NEW s \in Sockets, IInv, OnClose(s) PROVE IInv'
<1> USE NoSocketAssumption DEF vars, flags, queues, sessions, thread, history, At, IsOpen
<1>1. TypeOK'
  BY DEF IInv, TypeOK, Places, Packets, OnClose, Goto
<1>2. ASSUME NEW x \in Sockets PROVE Unknown(x)' /\ Served(x)' /\ Session(x)'
  <2> USE DEF OnClose, Goto
  <2>1. TypeOK /\ TypeOK' /\ Unknown(x) /\ Served(x) /\ Session(x)
    BY <1>1 DEF IInv
  <2>2. Unknown(x)'
    BY <2>1 DEF TypeOK, Unknown, Session
  <2>3. Served(x)'
    BY <2>1 DEF TypeOK, Served, InHand, Unknown, Session
  <2>4. Session(x)'
    BY <2>1 DEF TypeOK, Session, Served, InHand, Unknown
  <2> QED BY <2>2, <2>3, <2>4
<1> QED BY <1>1, <1>2 DEF IInv

LEMMA NoCallbackKeeps ==
    ASSUME NEW s \in Sockets, IInv, NoCallback(s) PROVE IInv'
<1> USE NoSocketAssumption DEF vars, flags, queues, sessions, thread, history, At, IsOpen
<1>1. TypeOK'
  BY DEF IInv, TypeOK, Places, Packets, NoCallback, Goto
<1>2. ASSUME NEW x \in Sockets PROVE Unknown(x)' /\ Served(x)' /\ Session(x)'
  <2> USE DEF NoCallback, Goto
  <2>1. TypeOK /\ TypeOK' /\ Unknown(x) /\ Served(x) /\ Session(x)
    BY <1>1 DEF IInv
  <2>2. Unknown(x)'
    BY <2>1 DEF TypeOK, Unknown, Session
  <2>3. Served(x)'
    BY <2>1 DEF TypeOK, Served, InHand, Unknown, Session
  <2>4. Session(x)'
    BY <2>1 DEF TypeOK, Session, Served, InHand, Unknown
  <2> QED BY <2>2, <2>3, <2>4
<1> QED BY <1>1, <1>2 DEF IInv

LEMMA ChallengeKeeps ==
    ASSUME NEW s \in Sockets, IInv, Challenge(s) PROVE IInv'
<1> USE NoSocketAssumption DEF vars, flags, queues, sessions, thread, history, At, IsOpen
<1>1. TypeOK'
  BY DEF IInv, TypeOK, Places, Packets, Challenge, Callback, Send, Goto
<1>2. ASSUME NEW x \in Sockets PROVE Unknown(x)' /\ Served(x)' /\ Session(x)'
  <2> USE DEF Challenge, Callback, Send, Goto
  <2>1. TypeOK /\ TypeOK' /\ Unknown(x) /\ Served(x) /\ Session(x)
    BY <1>1 DEF IInv
  <2>2. Unknown(x)'
    BY <2>1 DEF TypeOK, Unknown, Session
  <2>3. Served(x)'
    BY <2>1 DEF TypeOK, Served, InHand, Unknown, Session
  <2>4. Session(x)'
    BY <2>1 DEF TypeOK, Session, Served, InHand, Unknown
  <2> QED BY <2>2, <2>3, <2>4
<1> QED BY <1>1, <1>2 DEF IInv

LEMMA AcceptKeeps ==
    ASSUME NEW s \in Sockets, IInv, Accept(s) PROVE IInv'
<1> USE NoSocketAssumption DEF vars, flags, queues, sessions, thread, history, At, IsOpen
<1>1. TypeOK'
  BY DEF IInv, TypeOK, Places, Packets, Accept, Callback, Goto
<1>2. ASSUME NEW x \in Sockets PROVE Unknown(x)' /\ Served(x)' /\ Session(x)'
  <2> USE DEF Accept, Callback, Goto
  <2>1. TypeOK /\ TypeOK' /\ Unknown(x) /\ Served(x) /\ Session(x)
    BY <1>1 DEF IInv
  <2>2. Unknown(x)'
    BY <2>1 DEF TypeOK, Unknown, Session
  <2>3. Served(x)'
    BY <2>1 DEF TypeOK, Served, InHand, Unknown, Session
  <2>4. Session(x)'
    BY <2>1 DEF TypeOK, Session, Served, InHand, Unknown
  <2> QED BY <2>2, <2>3, <2>4
<1> QED BY <1>1, <1>2 DEF IInv

LEMMA AddSessionKeeps ==
    ASSUME NEW s \in Sockets, IInv, AddSession(s) PROVE IInv'
<1> USE NoSocketAssumption DEF vars, flags, queues, sessions, thread, history, At, IsOpen
<1>1. TypeOK'
  BY DEF IInv, TypeOK, Places, Packets, AddSession
<1>2. ASSUME NEW x \in Sockets PROVE Unknown(x)' /\ Served(x)' /\ Session(x)'
  <2> USE DEF AddSession
  <2>1. TypeOK /\ TypeOK' /\ Unknown(x) /\ Served(x) /\ Session(x)
    BY <1>1 DEF IInv
  <2>2. Unknown(x)'
    BY <2>1 DEF TypeOK, Unknown, Session
  <2>3. Served(x)'
    BY <2>1 DEF TypeOK, Served, InHand, Unknown, Session
  <2>4. Session(x)'
    BY <2>1 DEF TypeOK, Session, Served, InHand, Unknown
  <2> QED BY <2>2, <2>3, <2>4
<1> QED BY <1>1, <1>2 DEF IInv

LEMMA AsyncReadKeeps ==
    ASSUME NEW s \in Sockets, IInv, AsyncRead(s) PROVE IInv'
<1> USE NoSocketAssumption DEF vars, flags, queues, sessions, thread, history, At, IsOpen
<1>1. TypeOK'
  BY DEF IInv, TypeOK, Places, Packets, AsyncRead, Goto
<1>2. ASSUME NEW x \in Sockets PROVE Unknown(x)' /\ Served(x)' /\ Session(x)'
  <2> USE DEF AsyncRead, Goto
  <2>1. TypeOK /\ TypeOK' /\ Unknown(x) /\ Served(x) /\ Session(x)
    BY <1>1 DEF IInv
  <2>2. Unknown(x)'
    BY <2>1 DEF TypeOK, Unknown, Session
  <2>3. Served(x)'
    BY <2>1 DEF TypeOK, Served, InHand, Unknown, Session
  <2>4. Session(x)'
    BY <2>1 DEF TypeOK, Session, Served, InHand, Unknown
  <2> QED BY <2>2, <2>3, <2>4
<1> QED BY <1>1, <1>2 DEF IInv

LEMMA DisconnectKeeps ==
    ASSUME NEW s \in Sockets, IInv, Disconnect(s) PROVE IInv'
<1> USE NoSocketAssumption DEF vars, flags, queues, sessions, thread, history, At, IsOpen
<1>1. TypeOK'
  BY DEF IInv, TypeOK, Places, Packets, Disconnect, ReadCompletes
<1>2. ASSUME NEW x \in Sockets PROVE Unknown(x)' /\ Served(x)' /\ Session(x)'
  <2> USE DEF Disconnect, ReadCompletes
  <2>1. TypeOK /\ TypeOK' /\ Unknown(x) /\ Served(x) /\ Session(x)
    BY <1>1 DEF IInv
  <2>2. Unknown(x)'
    BY <2>1 DEF TypeOK, Unknown, Session
  <2>3. Served(x)'
    BY <2>1 DEF TypeOK, Served, InHand, Unknown, Session
  <2>4. Session(x)'
    BY <2>1 DEF TypeOK, Session, Served, InHand, Unknown
  <2> QED BY <2>2, <2>3, <2>4
<1> QED BY <1>1, <1>2 DEF IInv

LEMMA ReadHandlerKeeps ==
    ASSUME NEW s \in Sockets, IInv, ReadHandler(s) PROVE IInv'
<1> USE NoSocketAssumption DEF vars, flags, queues, sessions, thread, history, At, IsOpen
<1>1. TypeOK'
  BY DEF IInv, TypeOK, Places, Packets, ReadHandler, ReadCompletes
<1>2. ASSUME NEW x \in Sockets PROVE Unknown(x)' /\ Served(x)' /\ Session(x)'
  <2> USE DEF ReadHandler, ReadCompletes
  <2>1. TypeOK /\ TypeOK' /\ Unknown(x) /\ Served(x) /\ Session(x)
    BY <1>1 DEF IInv
  <2>2. Unknown(x)'
    BY <2>1 DEF TypeOK, Unknown, Session
  <2>3. Served(x)'
    BY <2>1 DEF TypeOK, Served, InHand, Unknown, Session
  <2>4. Session(x)'
    BY <2>1 DEF TypeOK, Session, Served, InHand, Unknown
  <2> QED BY <2>2, <2>3, <2>4
<1> QED BY <1>1, <1>2 DEF IInv

LEMMA IgnoreKeeps ==
    ASSUME NEW s \in Sockets, IInv, Ignore(s) PROVE IInv'
<1> USE NoSocketAssumption DEF vars, flags, queues, sessions, thread, history, At, IsOpen
<1>1. TypeOK'
  BY DEF IInv, TypeOK, Places, Packets, Ignore, Goto
<1>2. ASSUME NEW x \in Sockets PROVE Unknown(x)' /\ Served(x)' /\ Session(x)'
  <2> USE DEF Ignore, Goto
  <2>1. TypeOK /\ TypeOK' /\ Unknown(x) /\ Served(x) /\ Session(x)
    BY <1>1 DEF IInv
  <2>2. Unknown(x)'
    BY <2>1 DEF TypeOK, Unknown, Session
  <2>3. Served(x)'
    BY <2>1 DEF TypeOK, Served, InHand, Unknown, Session
  <2>4. Session(x)'
    BY <2>1 DEF TypeOK, Session, Served, InHand, Unknown
  <2> QED BY <2>2, <2>3, <2>4
<1> QED BY <1>1, <1>2 DEF IInv

LEMMA MalformedKeeps ==
    ASSUME NEW s \in Sockets, IInv, Malformed(s) PROVE IInv'
<1> USE NoSocketAssumption DEF vars, flags, queues, sessions, thread, history, At, IsOpen
<1>1. TypeOK'
  BY DEF IInv, TypeOK, Places, Packets, Malformed, Goto
<1>2. ASSUME NEW x \in Sockets PROVE Unknown(x)' /\ Served(x)' /\ Session(x)'
  <2> USE DEF Malformed, Goto
  <2>1. TypeOK /\ TypeOK' /\ Unknown(x) /\ Served(x) /\ Session(x)
    BY <1>1 DEF IInv
  <2>2. Unknown(x)'
    BY <2>1 DEF TypeOK, Unknown, Session
  <2>3. Served(x)'
    BY <2>1 DEF TypeOK, Served, InHand, Unknown, Session
  <2>4. Session(x)'
    BY <2>1 DEF TypeOK, Session, Served, InHand, Unknown
  <2> QED BY <2>2, <2>3, <2>4
<1> QED BY <1>1, <1>2 DEF IInv

LEMMA HandleAuthSessionKeeps ==
    ASSUME NEW s \in Sockets, IInv, HandleAuthSession(s) PROVE IInv'
<1> USE NoSocketAssumption DEF vars, flags, queues, sessions, thread, history, At, IsOpen
<1>1. TypeOK'
  BY DEF IInv, TypeOK, Places, Packets, HandleAuthSession, Goto
<1>2. ASSUME NEW x \in Sockets PROVE Unknown(x)' /\ Served(x)' /\ Session(x)'
  <2> USE DEF HandleAuthSession, Goto
  <2>1. TypeOK /\ TypeOK' /\ Unknown(x) /\ Served(x) /\ Session(x)
    BY <1>1 DEF IInv
  <2>2. Unknown(x)'
    BY <2>1 DEF TypeOK, Unknown, Session
  <2>3. Served(x)'
    BY <2>1 DEF TypeOK, Served, InHand, Unknown, Session
  <2>4. Session(x)'
    BY <2>1 DEF TypeOK, Session, Served, InHand, Unknown
  <2> QED BY <2>2, <2>3, <2>4
<1> QED BY <1>1, <1>2 DEF IInv

LEMMA AuthedTwiceKeeps ==
    ASSUME NEW s \in Sockets, IInv, AuthedTwice(s) PROVE IInv'
<1> USE NoSocketAssumption DEF vars, flags, queues, sessions, thread, history, At, IsOpen
<1>1. TypeOK'
  BY DEF IInv, TypeOK, Places, Packets, AuthedTwice, Goto
<1>2. ASSUME NEW x \in Sockets PROVE Unknown(x)' /\ Served(x)' /\ Session(x)'
  <2> USE DEF AuthedTwice, Goto
  <2>1. TypeOK /\ TypeOK' /\ Unknown(x) /\ Served(x) /\ Session(x)
    BY <1>1 DEF IInv
  <2>2. Unknown(x)'
    BY <2>1 DEF TypeOK, Unknown, Session
  <2>3. Served(x)'
    BY <2>1 DEF TypeOK, Served, InHand, Unknown, Session
  <2>4. Session(x)'
    BY <2>1 DEF TypeOK, Session, Served, InHand, Unknown
  <2> QED BY <2>2, <2>3, <2>4
<1> QED BY <1>1, <1>2 DEF IInv

LEMMA LogDuplicateKeeps ==
    ASSUME NEW s \in Sockets, IInv, LogDuplicate(s) PROVE IInv'
<1> USE NoSocketAssumption DEF vars, flags, queues, sessions, thread, history, At, IsOpen
<1>1. TypeOK'
  BY DEF IInv, TypeOK, Places, Packets, LogDuplicate, Goto
<1>2. ASSUME NEW x \in Sockets PROVE Unknown(x)' /\ Served(x)' /\ Session(x)'
  <2> USE DEF LogDuplicate, Goto
  <2>1. TypeOK /\ TypeOK' /\ Unknown(x) /\ Served(x) /\ Session(x)
    BY <1>1 DEF IInv
  <2>2. Unknown(x)'
    BY <2>1 DEF TypeOK, Unknown, Session
  <2>3. Served(x)'
    BY <2>1 DEF TypeOK, Served, InHand, Unknown, Session
  <2>4. Session(x)'
    BY <2>1 DEF TypeOK, Session, Served, InHand, Unknown
  <2> QED BY <2>2, <2>3, <2>4
<1> QED BY <1>1, <1>2 DEF IInv

LEMMA LockSessionKeeps ==
    ASSUME NEW s \in Sockets, IInv, LockSession(s) PROVE IInv'
<1> USE NoSocketAssumption DEF vars, flags, queues, sessions, thread, history, At, IsOpen
<1>1. TypeOK'
  BY DEF IInv, TypeOK, Places, Packets, LockSession, Goto
<1>2. ASSUME NEW x \in Sockets PROVE Unknown(x)' /\ Served(x)' /\ Session(x)'
  <2> USE DEF LockSession, Goto
  <2>1. TypeOK /\ TypeOK' /\ Unknown(x) /\ Served(x) /\ Session(x)
    BY <1>1 DEF IInv
  <2>2. Unknown(x)'
    BY <2>1 DEF TypeOK, Unknown, Session
  <2>3. Served(x)'
    BY <2>1 DEF TypeOK, Served, InHand, Unknown, Session
  <2>4. Session(x)'
    BY <2>1 DEF TypeOK, Session, Served, InHand, Unknown
  <2> QED BY <2>2, <2>3, <2>4
<1> QED BY <1>1, <1>2 DEF IInv

LEMMA NoSessionKeeps ==
    ASSUME NEW s \in Sockets, IInv, NoSession(s) PROVE IInv'
<1> USE NoSocketAssumption DEF vars, flags, queues, sessions, thread, history, At, IsOpen
<1>1. TypeOK'
  BY DEF IInv, TypeOK, Places, Packets, NoSession, Goto
<1>2. ASSUME NEW x \in Sockets PROVE Unknown(x)' /\ Served(x)' /\ Session(x)'
  <2> USE DEF NoSession, Goto
  <2>1. TypeOK /\ TypeOK' /\ Unknown(x) /\ Served(x) /\ Session(x)
    BY <1>1 DEF IInv
  <2>2. Unknown(x)'
    BY <2>1 DEF TypeOK, Unknown, Session
  <2>3. Served(x)'
    BY <2>1 DEF TypeOK, Served, InHand, Unknown, Session
  <2>4. Session(x)'
    BY <2>1 DEF TypeOK, Session, Served, InHand, Unknown
  <2> QED BY <2>2, <2>3, <2>4
<1> QED BY <1>1, <1>2 DEF IInv

LEMMA UseSessionKeeps ==
    ASSUME NEW s \in Sockets, IInv, UseSession(s) PROVE IInv'
<1> USE NoSocketAssumption DEF vars, flags, queues, sessions, thread, history, At, IsOpen
<1>1. TypeOK'
  BY DEF IInv, TypeOK, Places, Packets, UseSession, Goto
<1>2. ASSUME NEW x \in Sockets PROVE Unknown(x)' /\ Served(x)' /\ Session(x)'
  <2> USE DEF UseSession, Goto
  <2>1. TypeOK /\ TypeOK' /\ Unknown(x) /\ Served(x) /\ Session(x)
    BY <1>1 DEF IInv
  <2>2. Unknown(x)'
    BY <2>1 DEF TypeOK, Unknown, Session
  <2>3. Served(x)'
    BY <2>1 DEF TypeOK, Served, InHand, Unknown, Session
  <2>4. Session(x)'
    BY <2>1 DEF TypeOK, Session, Served, InHand, Unknown
  <2> QED BY <2>2, <2>3, <2>4
<1> QED BY <1>1, <1>2 DEF IInv

LEMMA PongKeeps ==
    ASSUME NEW s \in Sockets, IInv, Pong(s) PROVE IInv'
<1> USE NoSocketAssumption DEF vars, flags, queues, sessions, thread, history, At, IsOpen
<1>1. TypeOK'
  BY DEF IInv, TypeOK, Places, Packets, Pong, Send, Goto
<1>2. ASSUME NEW x \in Sockets PROVE Unknown(x)' /\ Served(x)' /\ Session(x)'
  <2> USE DEF Pong, Send, Goto
  <2>1. TypeOK /\ TypeOK' /\ Unknown(x) /\ Served(x) /\ Session(x)
    BY <1>1 DEF IInv
  <2>2. Unknown(x)'
    BY <2>1 DEF TypeOK, Unknown, Session
  <2>3. Served(x)'
    BY <2>1 DEF TypeOK, Served, InHand, Unknown, Session
  <2>4. Session(x)'
    BY <2>1 DEF TypeOK, Session, Served, InHand, Unknown
  <2> QED BY <2>2, <2>3, <2>4
<1> QED BY <1>1, <1>2 DEF IInv

LEMMA SendPacketKeeps ==
    ASSUME NEW s \in Sockets, IInv, SendPacket(s) PROVE IInv'
<1> USE NoSocketAssumption DEF vars, flags, queues, sessions, thread, history, At, IsOpen
<1>1. TypeOK'
  BY DEF IInv, TypeOK, Places, Packets, SendPacket, Send
<1>2. ASSUME NEW x \in Sockets PROVE Unknown(x)' /\ Served(x)' /\ Session(x)'
  <2> USE DEF SendPacket, Send
  <2>1. TypeOK /\ TypeOK' /\ Unknown(x) /\ Served(x) /\ Session(x)
    BY <1>1 DEF IInv
  <2>2. Unknown(x)'
    BY <2>1 DEF TypeOK, Unknown, Session
  <2>3. Served(x)'
    BY <2>1 DEF TypeOK, Served, InHand, Unknown, Session
  <2>4. Session(x)'
    BY <2>1 DEF TypeOK, Session, Served, InHand, Unknown
  <2> QED BY <2>2, <2>3, <2>4
<1> QED BY <1>1, <1>2 DEF IInv

LEMMA KickPlayerKeeps ==
    ASSUME NEW s \in Sockets, IInv, KickPlayer(s) PROVE IInv'
<1> USE NoSocketAssumption DEF vars, flags, queues, sessions, thread, history, At, IsOpen
<1>1. TypeOK'
  BY DEF IInv, TypeOK, Places, Packets, KickPlayer
<1>2. ASSUME NEW x \in Sockets PROVE Unknown(x)' /\ Served(x)' /\ Session(x)'
  <2> USE DEF KickPlayer
  <2>1. TypeOK /\ TypeOK' /\ Unknown(x) /\ Served(x) /\ Session(x)
    BY <1>1 DEF IInv
  <2>2. Unknown(x)'
    BY <2>1 DEF TypeOK, Unknown, Session
  <2>3. Served(x)'
    BY <2>1 DEF TypeOK, Served, InHand, Unknown, Session
  <2>4. Session(x)'
    BY <2>1 DEF TypeOK, Session, Served, InHand, Unknown
  <2> QED BY <2>2, <2>3, <2>4
<1> QED BY <1>1, <1>2 DEF IInv

LEMMA LoseSocketKeeps ==
    ASSUME NEW s \in Sockets, IInv, LoseSocket(s) PROVE IInv'
<1> USE NoSocketAssumption DEF vars, flags, queues, sessions, thread, history, At, IsOpen
<1>1. TypeOK'
  BY DEF IInv, TypeOK, Places, Packets, LoseSocket
<1>2. ASSUME NEW x \in Sockets PROVE Unknown(x)' /\ Served(x)' /\ Session(x)'
  <2> USE DEF LoseSocket
  <2>1. TypeOK /\ TypeOK' /\ Unknown(x) /\ Served(x) /\ Session(x)
    BY <1>1 DEF IInv
  <2>2. Unknown(x)'
    BY <2>1 DEF TypeOK, Unknown, Session
  <2>3. Served(x)'
    BY <2>1 DEF TypeOK, Served, InHand, Unknown, Session
  <2>4. Session(x)'
    BY <2>1 DEF TypeOK, Session, Served, InHand, Unknown
  <2> QED BY <2>2, <2>3, <2>4
<1> QED BY <1>1, <1>2 DEF IInv

LEMMA DeleteKeeps ==
    ASSUME NEW s \in Sockets, IInv, Delete(s) PROVE IInv'
<1> USE NoSocketAssumption DEF vars, flags, queues, sessions, thread, history, At, IsOpen
<1>1. TypeOK'
  BY ZenonT(60) DEF IInv, TypeOK, Places, Packets, Delete
<1>2. ASSUME NEW x \in Sockets PROVE Unknown(x)' /\ Served(x)' /\ Session(x)'
  <2> USE DEF Delete
  <2>1. TypeOK /\ TypeOK' /\ Unknown(x) /\ Served(x) /\ Session(x)
    BY <1>1 DEF IInv
  <2>2. Unknown(x)'
    BY <2>1 DEF TypeOK, Unknown, Session
  <2>3. Served(x)'
    BY <2>1 DEF TypeOK, Served, InHand, Unknown, Session
  <2>4. Session(x)'
    BY <2>1 DEF TypeOK, Session, Served, InHand, Unknown
  <2> QED BY <2>2, <2>3, <2>4
<1> QED BY <1>1, <1>2 DEF IInv

LEMMA FinishCloseKeeps ==
    ASSUME NEW s \in Sockets, IInv, FinishClose(s) PROVE IInv'
<1> USE NoSocketAssumption DEF vars, flags, queues, sessions, thread, history, At, IsOpen
<1>1. TypeOK'
  BY DEF IInv, TypeOK, Places, Packets, FinishClose
<1>2. ASSUME NEW x \in Sockets PROVE Unknown(x)' /\ Served(x)' /\ Session(x)'
  <2> USE DEF FinishClose
  <2>1. TypeOK /\ TypeOK' /\ Unknown(x) /\ Served(x) /\ Session(x)
    BY <1>1 DEF IInv
  <2>2. Unknown(x)'
    BY <2>1 DEF TypeOK, Unknown, Session
  <2>3. Served(x)'
    BY <2>1 DEF TypeOK, Served, InHand, Unknown, Session
  <2>4. Session(x)'
    BY <2>1 DEF TypeOK, Session, Served, InHand, Unknown
  <2> QED BY <2>2, <2>3, <2>4
<1> QED BY <1>1, <1>2 DEF IInv

LEMMA RefuseKeeps ==
    ASSUME NEW s \in Sockets, NEW q \in {"ip", "auth"}, IInv, Refuse(s, q) PROVE IInv'
<1> USE NoSocketAssumption DEF vars, flags, queues, sessions, thread, history, At, IsOpen
<1>1. TypeOK'
  BY DEF IInv, TypeOK, Places, Packets, Refuse, Callback, Send, Goto
<1>2. ASSUME NEW x \in Sockets PROVE Unknown(x)' /\ Served(x)' /\ Session(x)'
  <2> USE DEF Refuse, Callback, Send, Goto
  <2>1. TypeOK /\ TypeOK' /\ Unknown(x) /\ Served(x) /\ Session(x)
    BY <1>1 DEF IInv
  <2>2. Unknown(x)'
    BY <2>1 DEF TypeOK, Unknown, Session
  <2>3. Served(x)'
    BY <2>1 DEF TypeOK, Served, InHand, Unknown, Session
  <2>4. Session(x)'
    BY <2>1 DEF TypeOK, Session, Served, InHand, Unknown
  <2> QED BY <2>2, <2>3, <2>4
<1> QED BY <1>1, <1>2 DEF IInv

LEMMA DrainTypes ==
    ASSUME NEW s \in Sockets, TypeOK, NEW n \in 0 .. Len(bufferQueue[s]), Drain(s, n)
    PROVE  /\ bufferQueue' \in [Sockets -> Seq(Packets)]
           /\ writeQueue' \in [Sockets -> Seq(SUBSET Packets)]
<1> DEFINE q == bufferQueue[s]
           front == SubSeq(q, 1, n)
<1>1. q \in Seq(Packets) /\ writeQueue[s] \in Seq(SUBSET Packets)
  BY DEF TypeOK
<1>2. front \in Seq(Packets) /\ SubSeq(q, n + 1, Len(q)) \in Seq(Packets)
  BY <1>1, SubSeqProperties
<1>3. \A buffers \in Packed(front) : buffers \in Seq(SUBSET Packets)
  <2> DEFINE Contents(i, j) == {front[k] : k \in i .. j}
  <2>1. \A i, j \in Nat : i \in 1 .. Len(front) + 1 /\ j \in 0 .. Len(front) => Contents(i, j) \in SUBSET Packets
    BY <1>2
  <2>2. CASE front = <<>>
    BY <2>2 DEF Packed
  <2>3. CASE front # <<>>
    <3>1. Len(front) \in Nat \ {0}
      BY <1>2, <2>3
    <3> DEFINE a == Contents(1, Len(front))
               b == Contents(1, Len(front) - 1)
               c == Contents(Len(front), Len(front))
    <3>2. a \in SUBSET Packets /\ b \in SUBSET Packets /\ c \in SUBSET Packets
      <4> HIDE DEF Contents, front
      <4> QED BY <2>1, <3>1
    <3>3. Packed(front) = {<<a>>, <<b, c>>}
      BY <2>3 DEF Packed
    <3>4. <<a>> \in Seq(SUBSET Packets) /\ <<b, c>> \in Seq(SUBSET Packets)
      <4> HIDE DEF a, b, c
      <4> QED BY <3>2
    <3> HIDE DEF a, b, c, front
    <3> QED BY <3>3, <3>4
  <2> QED BY <2>2, <2>3
<1>4. bufferQueue' \in [Sockets -> Seq(Packets)]
  BY <1>2 DEF Drain, TypeOK
<1>5. PICK buffers \in Packed(front) : writeQueue' = [writeQueue EXCEPT ![s] = @ \o buffers]
  BY DEF Drain
<1>6. writeQueue[s] \o buffers \in Seq(SUBSET Packets)
  BY <1>1, <1>3, ConcatProperties
<1>7. writeQueue' \in [Sockets -> Seq(SUBSET Packets)]
  BY <1>5, <1>6 DEF TypeOK
<1> QED BY <1>4, <1>7

LEMMA DrainKeeps ==
    ASSUME NEW s \in Sockets, NEW n \in 0 .. Len(bufferQueue[s]), IInv, Drain(s, n) PROVE IInv'
<1> USE NoSocketAssumption DEF vars, flags, queues, sessions, thread, history, At, IsOpen
<1>1. TypeOK'
  BY DrainTypes DEF IInv, TypeOK, Places, Drain
<1>2. ASSUME NEW x \in Sockets PROVE Unknown(x)' /\ Served(x)' /\ Session(x)'
  <2> USE DEF Drain
  <2>1. TypeOK /\ TypeOK' /\ Unknown(x) /\ Served(x) /\ Session(x)
    BY <1>1 DEF IInv
  <2>2. Unknown(x)'
    BY <2>1 DEF TypeOK, Unknown, Session
  <2>3. Served(x)'
    BY <2>1 DEF TypeOK, Served, InHand, Unknown, Session
  <2>4. Session(x)'
    BY <2>1 DEF TypeOK, Session, Served, InHand, Unknown
  <2> QED BY <2>2, <2>3, <2>4
<1> QED BY <1>1, <1>2 DEF IInv

-----------------------------------------------------------------------------
(* Every action keeps Told *)

LEMMA PackedOne ==
    /\ Packed(<<>>) = {<<>>}
    /\ \A p : Packed(<<p>>) = {<<{p}>>, <<{}, {p}>>}
<1>1. Packed(<<>>) = {<<>>}
  BY DEF Packed
<1>2. ASSUME NEW p PROVE Packed(<<p>>) = {<<{p}>>, <<{}, {p}>>}
  <2>1. 1 .. 0 = {} /\ 1 .. 1 = {1} /\ <<p>> # <<>> /\ Len(<<p>>) = 1 /\ <<p>>[1] = p
    OBVIOUS
  <2>2. {<<p>>[k] : k \in {1}} = {p} /\ {<<p>>[k] : k \in {}} = {}
    BY <2>1
  <2> QED BY <2>1, <2>2 DEF Packed
<1> QED BY <1>1, <1>2

LEMMA OnSocketOpenTells ==
    ASSUME NEW s \in Sockets, NEW x \in Sockets, IInv, Told(x), OnSocketOpen(s) PROVE Told(x)'
<1> USE DEF vars, flags, queues, sessions, thread, history, At, IsOpen
<1>1. TypeOK /\ Unknown(x) /\ Served(x) /\ Session(x)
  BY DEF IInv
<1>2. CASE x # s
  BY <1>1, <1>2, NoSocketAssumption DEF OnSocketOpen, TypeOK, Told, Queued, NoneQueued
<1>3. CASE x = s
  BY <1>1, <1>3, NoSocketAssumption
     DEF OnSocketOpen, TypeOK, Told, Queued, NoneQueued, Unknown, Served, Session, InHand
<1> QED BY <1>2, <1>3

LEMMA RemoveSocketTells ==
    ASSUME NEW s \in Sockets, NEW x \in Sockets, IInv, Told(x), RemoveSocket(s) PROVE Told(x)'
<1> USE DEF vars, flags, queues, sessions, thread, history, At, IsOpen
<1>1. TypeOK /\ Unknown(x) /\ Served(x) /\ Session(x)
  BY DEF IInv
<1>2. CASE x # s
  BY <1>1, <1>2, NoSocketAssumption DEF RemoveSocket, Goto, TypeOK, Told, Queued, NoneQueued
<1>3. CASE x = s
  BY <1>1, <1>3, NoSocketAssumption
     DEF RemoveSocket, Goto, TypeOK, Told, Queued, NoneQueued, Unknown, Served, Session, InHand
<1> QED BY <1>2, <1>3

LEMMA UpdateSocketTells ==
    ASSUME NEW s \in Sockets, NEW x \in Sockets, IInv, Told(x), UpdateSocket(s) PROVE Told(x)'
<1> USE DEF vars, flags, queues, sessions, thread, history, At, IsOpen
<1>1. TypeOK /\ Unknown(x) /\ Served(x) /\ Session(x)
  BY DEF IInv
<1>2. CASE x # s
  BY <1>1, <1>2, NoSocketAssumption DEF UpdateSocket, Goto, TypeOK, Told, Queued, NoneQueued
<1>3. CASE x = s
  BY <1>1, <1>3, NoSocketAssumption
     DEF UpdateSocket, Goto, TypeOK, Told, Queued, NoneQueued, Unknown, Served, Session, InHand
<1> QED BY <1>2, <1>3

LEMMA NothingToWriteTells ==
    ASSUME NEW s \in Sockets, NEW x \in Sockets, IInv, Told(x), NothingToWrite(s) PROVE Told(x)'
<1> USE DEF vars, flags, queues, sessions, thread, history, At, IsOpen
<1>1. TypeOK /\ Unknown(x) /\ Served(x) /\ Session(x)
  BY DEF IInv
<1>2. CASE x # s
  BY <1>1, <1>2, NoSocketAssumption DEF NothingToWrite, Goto, TypeOK, Told, Queued, NoneQueued
<1>3. CASE x = s
  BY <1>1, <1>3, NoSocketAssumption
     DEF NothingToWrite, Goto, TypeOK, Told, Queued, NoneQueued, Unknown, Served, Session,
         InHand
<1> QED BY <1>2, <1>3

LEMMA WriteBlocksTells ==
    ASSUME NEW s \in Sockets, NEW x \in Sockets, IInv, Told(x), WriteBlocks(s) PROVE Told(x)'
<1> USE DEF vars, flags, queues, sessions, thread, history, At, IsOpen
<1>1. TypeOK /\ Unknown(x) /\ Served(x) /\ Session(x)
  BY DEF IInv
<1>2. CASE x # s
  BY <1>1, <1>2, NoSocketAssumption DEF WriteBlocks, Goto, TypeOK, Told, Queued, NoneQueued
<1>3. CASE x = s
  BY <1>1, <1>3, NoSocketAssumption
     DEF WriteBlocks, Goto, TypeOK, Told, Queued, NoneQueued, Unknown, Served, Session, InHand
<1> QED BY <1>2, <1>3

LEMMA WriteAllTells ==
    ASSUME NEW s \in Sockets, NEW x \in Sockets, IInv, Told(x), WriteAll(s) PROVE Told(x)'
<1> USE DEF flags, queues, sessions, thread, history, At, IsOpen
<1>1. TypeOK /\ Unknown(x) /\ Served(x) /\ Session(x)
  BY DEF IInv
<1>2. CASE x # s
  BY <1>1, <1>2, NoSocketAssumption DEF WriteAll, Pop, Goto, TypeOK, Told, Queued, NoneQueued
<1>3. CASE x = s
  <2> SUFFICES ASSUME ~excused[s] PROVE Told(s)'
    BY <1>3 DEF WriteAll, Told
  <2>1. /\ writeQueue[s]' = Tail(writeQueue[s])
        /\ delivered[s]' = delivered[s] \cup (Head(writeQueue[s]) \ {"data"})
        /\ UNCHANGED <<stage, closed, closing, query, bufferQueue, session, excused>>
    BY <1>1 DEF WriteAll, Pop, TypeOK
  <2>2. at' = "close" => Tail(writeQueue[s]) = <<>>
    BY <1>1 DEF WriteAll, Pop, Goto, TypeOK
  <2>3. writeQueue[s] # <<>> /\ query[s] # "ip" /\ stage[s] # "new"
    BY <1>3 DEF WriteAll, Told, NoneQueued
  <2>4. \A p : /\ Head(<<{p}>>) = {p} /\ Tail(<<{p}>>) = <<>>
               /\ Head(<<{}, {p}>>) = {} /\ Tail(<<{}, {p}>>) = <<{p}>>
    OBVIOUS
  <2>5. query[s] = "auth" => "challenge" \in delivered[s]'
    BY <1>3, <2>1 DEF Told
  <2>6. ASSUME session[s] = "none", ~closing[s]
        PROVE  \/ NoneQueued(s)'
               \/ Queued(s, "challenge")' /\ "challenge" \notin delivered[s]'
    BY <1>3, <2>1, <2>3, <2>4, <2>6 DEF Told, NoneQueued, Queued
  <2>7. ASSUME closing[s], "refusal" \notin delivered[s]'
        PROVE  ~closed[s] /\ at' # "close" /\ Queued(s, "refusal")'
    <3>1. ~closed[s] /\ Queued(s, "refusal")
      BY <1>3, <2>1, <2>7 DEF Told
    <3>2. writeQueue[s] = <<{}, {"refusal"}>>
      BY <2>1, <2>3, <2>4, <2>7, <3>1 DEF Queued
    <3> QED BY <2>1, <2>2, <2>4, <3>1, <3>2 DEF Queued
  <2> HIDE DEF WriteAll
  <2> QED BY <2>1, <2>3, <2>5, <2>6, <2>7 DEF Told
<1> QED BY <1>2, <1>3

LEMMA WriteFailsTells ==
    ASSUME NEW s \in Sockets, NEW x \in Sockets, IInv, Told(x), WriteFails(s) PROVE Told(x)'
<1> USE DEF vars, flags, queues, sessions, thread, history, At, IsOpen
<1>1. TypeOK /\ Unknown(x) /\ Served(x) /\ Session(x)
  BY DEF IInv
<1>2. CASE x # s
  BY <1>1, <1>2, NoSocketAssumption DEF WriteFails, Pop, Goto, TypeOK, Told, Queued, NoneQueued
<1>3. CASE x = s
  BY <1>1, <1>3, NoSocketAssumption
     DEF WriteFails, Pop, Goto, TypeOK, Told, Queued, NoneQueued, Unknown, Served, Session,
         InHand
<1> QED BY <1>2, <1>3

LEMMA WriteHandlerTells ==
    ASSUME NEW s \in Sockets, NEW x \in Sockets, IInv, Told(x), WriteHandler(s) PROVE Told(x)'
<1> USE DEF vars, flags, queues, sessions, thread, history, At, IsOpen
<1>1. TypeOK /\ Unknown(x) /\ Served(x) /\ Session(x)
  BY DEF IInv
<1>2. CASE x # s
  BY <1>1, <1>2, NoSocketAssumption DEF WriteHandler, TypeOK, Told, Queued, NoneQueued
<1>3. CASE x = s
  BY <1>1, <1>3, NoSocketAssumption
     DEF WriteHandler, TypeOK, Told, Queued, NoneQueued, Unknown, Served, Session, InHand
<1> QED BY <1>2, <1>3

LEMMA CloseSocketTells ==
    ASSUME NEW s \in Sockets, NEW x \in Sockets, IInv, Told(x), CloseSocket(s) PROVE Told(x)'
<1> USE DEF vars, flags, queues, sessions, thread, history, At, IsOpen
<1>1. TypeOK /\ Unknown(x) /\ Served(x) /\ Session(x)
  BY DEF IInv
<1>2. CASE x # s
  BY <1>1, <1>2, NoSocketAssumption DEF CloseSocket, Goto, TypeOK, Told, Queued, NoneQueued
<1>3. CASE x = s
  BY <1>1, <1>3, NoSocketAssumption
     DEF CloseSocket, Goto, TypeOK, Told, Queued, NoneQueued, Unknown, Served, Session, InHand
<1> QED BY <1>2, <1>3

LEMMA OnCloseTells ==
    ASSUME NEW s \in Sockets, NEW x \in Sockets, IInv, Told(x), OnClose(s) PROVE Told(x)'
<1> USE DEF vars, flags, queues, sessions, thread, history, At, IsOpen
<1>1. TypeOK /\ Unknown(x) /\ Served(x) /\ Session(x)
  BY DEF IInv
<1>2. CASE x # s
  BY <1>1, <1>2, NoSocketAssumption DEF OnClose, Goto, TypeOK, Told, Queued, NoneQueued
<1>3. CASE x = s
  BY <1>1, <1>3, NoSocketAssumption
     DEF OnClose, Goto, TypeOK, Told, Queued, NoneQueued, Unknown, Served, Session, InHand
<1> QED BY <1>2, <1>3

LEMMA NoCallbackTells ==
    ASSUME NEW s \in Sockets, NEW x \in Sockets, IInv, Told(x), NoCallback(s) PROVE Told(x)'
<1> USE DEF vars, flags, queues, sessions, thread, history, At, IsOpen
<1>1. TypeOK /\ Unknown(x) /\ Served(x) /\ Session(x)
  BY DEF IInv
<1>2. CASE x # s
  BY <1>1, <1>2, NoSocketAssumption DEF NoCallback, Goto, TypeOK, Told, Queued, NoneQueued
<1>3. CASE x = s
  BY <1>1, <1>3, NoSocketAssumption
     DEF NoCallback, Goto, TypeOK, Told, Queued, NoneQueued, Unknown, Served, Session, InHand
<1> QED BY <1>2, <1>3

LEMMA ChallengeTells ==
    ASSUME NEW s \in Sockets, NEW x \in Sockets, IInv, Told(x), Challenge(s) PROVE Told(x)'
<1> USE DEF vars, flags, queues, sessions, thread, history, At, IsOpen
<1>1. TypeOK /\ Unknown(x) /\ Served(x) /\ Session(x)
  BY DEF IInv
<1>2. CASE x # s
  BY <1>1, <1>2, NoSocketAssumption
     DEF Challenge, Callback, Send, Goto, TypeOK, Told, Queued, NoneQueued
<1>3. CASE x = s
  BY <1>1, <1>3, NoSocketAssumption
     DEF Challenge, Callback, Send, Goto, TypeOK, Told, Queued, NoneQueued, Unknown, Served,
         Session, InHand
<1> QED BY <1>2, <1>3

LEMMA AcceptTells ==
    ASSUME NEW s \in Sockets, NEW x \in Sockets, IInv, Told(x), Accept(s) PROVE Told(x)'
<1> USE DEF vars, flags, queues, sessions, thread, history, At, IsOpen
<1>1. TypeOK /\ Unknown(x) /\ Served(x) /\ Session(x)
  BY DEF IInv
<1>2. CASE x # s
  BY <1>1, <1>2, NoSocketAssumption DEF Accept, Callback, Goto, TypeOK, Told, Queued, NoneQueued
<1>3. CASE x = s
  BY <1>1, <1>3, NoSocketAssumption
     DEF Accept, Callback, Goto, TypeOK, Told, Queued, NoneQueued, Unknown, Served, Session,
         InHand
<1> QED BY <1>2, <1>3

LEMMA AddSessionTells ==
    ASSUME NEW s \in Sockets, NEW x \in Sockets, IInv, Told(x), AddSession(s) PROVE Told(x)'
<1> USE DEF vars, flags, queues, sessions, thread, history, At, IsOpen
<1>1. TypeOK /\ Unknown(x) /\ Served(x) /\ Session(x)
  BY DEF IInv
<1>2. CASE x # s
  BY <1>1, <1>2, NoSocketAssumption DEF AddSession, TypeOK, Told, Queued, NoneQueued
<1>3. CASE x = s
  BY <1>1, <1>3, NoSocketAssumption
     DEF AddSession, TypeOK, Told, Queued, NoneQueued, Unknown, Served, Session, InHand
<1> QED BY <1>2, <1>3

LEMMA AsyncReadTells ==
    ASSUME NEW s \in Sockets, NEW x \in Sockets, IInv, Told(x), AsyncRead(s) PROVE Told(x)'
<1> USE DEF vars, flags, queues, sessions, thread, history, At, IsOpen
<1>1. TypeOK /\ Unknown(x) /\ Served(x) /\ Session(x)
  BY DEF IInv
<1>2. CASE x # s
  BY <1>1, <1>2, NoSocketAssumption DEF AsyncRead, Goto, TypeOK, Told, Queued, NoneQueued
<1>3. CASE x = s
  BY <1>1, <1>3, NoSocketAssumption
     DEF AsyncRead, Goto, TypeOK, Told, Queued, NoneQueued, Unknown, Served, Session, InHand
<1> QED BY <1>2, <1>3

LEMMA DisconnectTells ==
    ASSUME NEW s \in Sockets, NEW x \in Sockets, IInv, Told(x), Disconnect(s) PROVE Told(x)'
<1> USE DEF vars, flags, queues, sessions, thread, history, At, IsOpen
<1>1. TypeOK /\ Unknown(x) /\ Served(x) /\ Session(x)
  BY DEF IInv
<1>2. CASE x # s
  BY <1>1, <1>2, NoSocketAssumption DEF Disconnect, ReadCompletes, TypeOK, Told, Queued, NoneQueued
<1>3. CASE x = s
  BY <1>1, <1>3, NoSocketAssumption
     DEF Disconnect, ReadCompletes, TypeOK, Told, Queued, NoneQueued, Unknown, Served, Session,
         InHand
<1> QED BY <1>2, <1>3

LEMMA ReadHandlerTells ==
    ASSUME NEW s \in Sockets, NEW x \in Sockets, IInv, Told(x), ReadHandler(s) PROVE Told(x)'
<1> USE DEF vars, flags, queues, sessions, thread, history, At, IsOpen
<1>1. TypeOK /\ Unknown(x) /\ Served(x) /\ Session(x)
  BY DEF IInv
<1>2. CASE x # s
  BY <1>1, <1>2, NoSocketAssumption DEF ReadHandler, ReadCompletes, TypeOK, Told, Queued, NoneQueued
<1>3. CASE x = s
  BY <1>1, <1>3, NoSocketAssumption
     DEF ReadHandler, ReadCompletes, TypeOK, Told, Queued, NoneQueued, Unknown, Served, Session,
         InHand
<1> QED BY <1>2, <1>3

LEMMA IgnoreTells ==
    ASSUME NEW s \in Sockets, NEW x \in Sockets, IInv, Told(x), Ignore(s) PROVE Told(x)'
<1> USE DEF vars, flags, queues, sessions, thread, history, At, IsOpen
<1>1. TypeOK /\ Unknown(x) /\ Served(x) /\ Session(x)
  BY DEF IInv
<1>2. CASE x # s
  BY <1>1, <1>2, NoSocketAssumption DEF Ignore, Goto, TypeOK, Told, Queued, NoneQueued
<1>3. CASE x = s
  BY <1>1, <1>3, NoSocketAssumption
     DEF Ignore, Goto, TypeOK, Told, Queued, NoneQueued, Unknown, Served, Session, InHand
<1> QED BY <1>2, <1>3

LEMMA MalformedTells ==
    ASSUME NEW s \in Sockets, NEW x \in Sockets, IInv, Told(x), Malformed(s) PROVE Told(x)'
<1> USE DEF vars, flags, queues, sessions, thread, history, At, IsOpen
<1>1. TypeOK /\ Unknown(x) /\ Served(x) /\ Session(x)
  BY DEF IInv
<1>2. CASE x # s
  BY <1>1, <1>2, NoSocketAssumption DEF Malformed, Goto, TypeOK, Told, Queued, NoneQueued
<1>3. CASE x = s
  BY <1>1, <1>3, NoSocketAssumption
     DEF Malformed, Goto, TypeOK, Told, Queued, NoneQueued, Unknown, Served, Session, InHand
<1> QED BY <1>2, <1>3

LEMMA HandleAuthSessionTells ==
    ASSUME NEW s \in Sockets, NEW x \in Sockets, IInv, Told(x), HandleAuthSession(s) PROVE Told(x)'
<1> USE DEF vars, flags, queues, sessions, thread, history, At, IsOpen
<1>1. TypeOK /\ Unknown(x) /\ Served(x) /\ Session(x)
  BY DEF IInv
<1>2. CASE x # s
  BY <1>1, <1>2, NoSocketAssumption DEF HandleAuthSession, Goto, TypeOK, Told, Queued, NoneQueued
<1>3. CASE x = s
  BY <1>1, <1>3, NoSocketAssumption
     DEF HandleAuthSession, Goto, TypeOK, Told, Queued, NoneQueued, Unknown, Served, Session,
         InHand
<1> QED BY <1>2, <1>3

LEMMA AuthedTwiceTells ==
    ASSUME NEW s \in Sockets, NEW x \in Sockets, IInv, Told(x), AuthedTwice(s) PROVE Told(x)'
<1> USE DEF vars, flags, queues, sessions, thread, history, At, IsOpen
<1>1. TypeOK /\ Unknown(x) /\ Served(x) /\ Session(x)
  BY DEF IInv
<1>2. CASE x # s
  BY <1>1, <1>2, NoSocketAssumption DEF AuthedTwice, Goto, TypeOK, Told, Queued, NoneQueued
<1>3. CASE x = s
  BY <1>1, <1>3, NoSocketAssumption
     DEF AuthedTwice, Goto, TypeOK, Told, Queued, NoneQueued, Unknown, Served, Session, InHand
<1> QED BY <1>2, <1>3

LEMMA LogDuplicateTells ==
    ASSUME NEW s \in Sockets, NEW x \in Sockets, IInv, Told(x), LogDuplicate(s) PROVE Told(x)'
<1> USE DEF vars, flags, queues, sessions, thread, history, At, IsOpen
<1>1. TypeOK /\ Unknown(x) /\ Served(x) /\ Session(x)
  BY DEF IInv
<1>2. CASE x # s
  BY <1>1, <1>2, NoSocketAssumption DEF LogDuplicate, Goto, TypeOK, Told, Queued, NoneQueued
<1>3. CASE x = s
  BY <1>1, <1>3, NoSocketAssumption
     DEF LogDuplicate, Goto, TypeOK, Told, Queued, NoneQueued, Unknown, Served, Session, InHand
<1> QED BY <1>2, <1>3

LEMMA LockSessionTells ==
    ASSUME NEW s \in Sockets, NEW x \in Sockets, IInv, Told(x), LockSession(s) PROVE Told(x)'
<1> USE DEF vars, flags, queues, sessions, thread, history, At, IsOpen
<1>1. TypeOK /\ Unknown(x) /\ Served(x) /\ Session(x)
  BY DEF IInv
<1>2. CASE x # s
  BY <1>1, <1>2, NoSocketAssumption DEF LockSession, Goto, TypeOK, Told, Queued, NoneQueued
<1>3. CASE x = s
  BY <1>1, <1>3, NoSocketAssumption
     DEF LockSession, Goto, TypeOK, Told, Queued, NoneQueued, Unknown, Served, Session, InHand
<1> QED BY <1>2, <1>3

LEMMA NoSessionTells ==
    ASSUME NEW s \in Sockets, NEW x \in Sockets, IInv, Told(x), NoSession(s) PROVE Told(x)'
<1> USE DEF vars, flags, queues, sessions, thread, history, At, IsOpen
<1>1. TypeOK /\ Unknown(x) /\ Served(x) /\ Session(x)
  BY DEF IInv
<1>2. CASE x # s
  BY <1>1, <1>2, NoSocketAssumption DEF NoSession, Goto, TypeOK, Told, Queued, NoneQueued
<1>3. CASE x = s
  BY <1>1, <1>3, NoSocketAssumption
     DEF NoSession, Goto, TypeOK, Told, Queued, NoneQueued, Unknown, Served, Session, InHand
<1> QED BY <1>2, <1>3

LEMMA UseSessionTells ==
    ASSUME NEW s \in Sockets, NEW x \in Sockets, IInv, Told(x), UseSession(s) PROVE Told(x)'
<1> USE DEF vars, flags, queues, sessions, thread, history, At, IsOpen
<1>1. TypeOK /\ Unknown(x) /\ Served(x) /\ Session(x)
  BY DEF IInv
<1>2. CASE x # s
  BY <1>1, <1>2, NoSocketAssumption DEF UseSession, Goto, TypeOK, Told, Queued, NoneQueued
<1>3. CASE x = s
  BY <1>1, <1>3, NoSocketAssumption
     DEF UseSession, Goto, TypeOK, Told, Queued, NoneQueued, Unknown, Served, Session, InHand
<1> QED BY <1>2, <1>3

LEMMA PongTells ==
    ASSUME NEW s \in Sockets, NEW x \in Sockets, IInv, Told(x), Pong(s) PROVE Told(x)'
<1> USE DEF vars, flags, queues, sessions, thread, history, At, IsOpen
<1>1. TypeOK /\ Unknown(x) /\ Served(x) /\ Session(x)
  BY DEF IInv
<1>2. CASE x # s
  BY <1>1, <1>2, NoSocketAssumption DEF Pong, Send, Goto, TypeOK, Told, Queued, NoneQueued
<1>3. CASE x = s
  BY <1>1, <1>3, NoSocketAssumption
     DEF Pong, Send, Goto, TypeOK, Told, Queued, NoneQueued, Unknown, Served, Session, InHand
<1> QED BY <1>2, <1>3

LEMMA SendPacketTells ==
    ASSUME NEW s \in Sockets, NEW x \in Sockets, IInv, Told(x), SendPacket(s) PROVE Told(x)'
<1> USE DEF vars, flags, queues, sessions, thread, history, At, IsOpen
<1>1. TypeOK /\ Unknown(x) /\ Served(x) /\ Session(x)
  BY DEF IInv
<1>2. CASE x # s
  BY <1>1, <1>2, NoSocketAssumption DEF SendPacket, Send, TypeOK, Told, Queued, NoneQueued
<1>3. CASE x = s
  BY <1>1, <1>3, NoSocketAssumption
     DEF SendPacket, Send, TypeOK, Told, Queued, NoneQueued, Unknown, Served, Session, InHand
<1> QED BY <1>2, <1>3

LEMMA KickPlayerTells ==
    ASSUME NEW s \in Sockets, NEW x \in Sockets, IInv, Told(x), KickPlayer(s) PROVE Told(x)'
<1> USE DEF vars, flags, queues, sessions, thread, history, At, IsOpen
<1>1. TypeOK /\ Unknown(x) /\ Served(x) /\ Session(x)
  BY DEF IInv
<1>2. CASE x # s
  BY <1>1, <1>2, NoSocketAssumption DEF KickPlayer, TypeOK, Told, Queued, NoneQueued
<1>3. CASE x = s
  BY <1>1, <1>3, NoSocketAssumption
     DEF KickPlayer, TypeOK, Told, Queued, NoneQueued, Unknown, Served, Session, InHand
<1> QED BY <1>2, <1>3

LEMMA LoseSocketTells ==
    ASSUME NEW s \in Sockets, NEW x \in Sockets, IInv, Told(x), LoseSocket(s) PROVE Told(x)'
<1> USE DEF vars, flags, queues, sessions, thread, history, At, IsOpen
<1>1. TypeOK /\ Unknown(x) /\ Served(x) /\ Session(x)
  BY DEF IInv
<1>2. CASE x # s
  BY <1>1, <1>2, NoSocketAssumption DEF LoseSocket, TypeOK, Told, Queued, NoneQueued
<1>3. CASE x = s
  BY <1>1, <1>3, NoSocketAssumption
     DEF LoseSocket, TypeOK, Told, Queued, NoneQueued, Unknown, Served, Session, InHand
<1> QED BY <1>2, <1>3

LEMMA DeleteTells ==
    ASSUME NEW s \in Sockets, NEW x \in Sockets, IInv, Told(x), Delete(s) PROVE Told(x)'
<1> USE DEF vars, flags, queues, sessions, thread, history, At, IsOpen
<1>1. TypeOK /\ Unknown(x) /\ Served(x) /\ Session(x)
  BY DEF IInv
<1>2. CASE x # s
  BY <1>1, <1>2, NoSocketAssumption DEF Delete, TypeOK, Told, Queued, NoneQueued
<1>3. CASE x = s
  BY <1>1, <1>3, NoSocketAssumption
     DEF Delete, TypeOK, Told, Queued, NoneQueued, Unknown, Served, Session, InHand
<1> QED BY <1>2, <1>3

LEMMA FinishCloseTells ==
    ASSUME NEW s \in Sockets, NEW x \in Sockets, IInv, Told(x), FinishClose(s) PROVE Told(x)'
<1> USE DEF vars, flags, queues, sessions, thread, history, At, IsOpen
<1>1. TypeOK /\ Unknown(x) /\ Served(x) /\ Session(x)
  BY DEF IInv
<1>2. CASE x # s
  BY <1>1, <1>2, NoSocketAssumption DEF FinishClose, TypeOK, Told, Queued, NoneQueued
<1>3. CASE x = s
  BY <1>1, <1>3, NoSocketAssumption
     DEF FinishClose, TypeOK, Told, Queued, NoneQueued, Unknown, Served, Session, InHand
<1> QED BY <1>2, <1>3

LEMMA RefuseTells ==
    ASSUME NEW s \in Sockets, NEW q \in {"ip", "auth"}, NEW x \in Sockets, IInv, Told(x),
           Refuse(s, q)
    PROVE  Told(x)'
<1> USE DEF flags, queues, sessions, thread, history, At
<1>1. TypeOK /\ Unknown(x) /\ Served(x) /\ Session(x)
  BY DEF IInv
<1>2. CASE x # s
  BY <1>1, <1>2, NoSocketAssumption
     DEF Refuse, Callback, Send, Goto, TypeOK, Told, Queued, NoneQueued
<1>3. CASE x = s
  <2> SUFFICES ASSUME ~excused[s] PROVE Told(s)'
    BY <1>3 DEF Refuse, Told
  <2>1. IsOpen(s) /\ session[s] = "none" /\ NoneQueued(s)
    BY <1>1, <1>3 DEF Refuse, Callback, Served, Told, Queued, NoneQueued, IsOpen
  <2>2. /\ bufferQueue[s]' = <<"refusal">> /\ writeQueue[s]' = <<>>
        /\ query[s]' = "none" /\ closing[s]' /\ at' = "loop"
        /\ UNCHANGED <<stage, closed, session, delivered, excused>>
    BY <1>1, <2>1 DEF Refuse, Callback, Send, Goto, NoneQueued, TypeOK
  <2>3. stage[s] # "new" /\ ~closed[s]
    BY <1>1, <1>3, <2>1 DEF Unknown, Refuse, Callback, IsOpen
  <2> QED BY <2>2, <2>3 DEF Told, Queued
<1> QED BY <1>2, <1>3

LEMMA DrainTells ==
    ASSUME NEW s \in Sockets, NEW n \in 0 .. Len(bufferQueue[s]), NEW x \in Sockets, IInv, Told(x),
           Drain(s, n)
    PROVE  Told(x)'
<1> USE DEF flags, queues, sessions, thread, history, At
<1>1. TypeOK /\ Unknown(x) /\ Served(x) /\ Session(x)
  BY DEF IInv
<1>2. CASE x # s
  BY <1>1, <1>2, NoSocketAssumption DEF Drain, TypeOK, Told, Queued, NoneQueued
<1>3. CASE x = s
  <2> SUFFICES ASSUME ~excused[s] PROVE Told(s)'
    BY <1>3 DEF Drain, Told
  <2>1. PICK buffers \in Packed(SubSeq(bufferQueue[s], 1, n)) :
           writeQueue' = [writeQueue EXCEPT ![s] = @ \o buffers]
    BY DEF Drain
  <2>2. /\ bufferQueue[s]' = SubSeq(bufferQueue[s], n + 1, Len(bufferQueue[s]))
        /\ writeQueue[s]' = writeQueue[s] \o buffers
        /\ at' = "update"
        /\ UNCHANGED <<stage, closed, closing, query, session, delivered, excused>>
    BY <1>1, <2>1 DEF Drain, TypeOK
  <2>3. NoneQueued(s) => NoneQueued(s)'
    <3>1. SUFFICES ASSUME bufferQueue[s] = <<>>, writeQueue[s] = <<>>
          PROVE  bufferQueue[s]' = <<>> /\ writeQueue[s]' = <<>>
      BY DEF NoneQueued
    <3>2. n = 0 /\ SubSeq(bufferQueue[s], 1, n) = <<>>
      BY <3>1
    <3>3. buffers \in Packed(<<>>)
      BY <2>1, <3>2, Zenon
    <3>4. buffers = <<>>
      BY <3>3, PackedOne
    <3> QED BY <2>2, <3>1, <3>2, <3>4
  <2>4. ASSUME NEW p, Queued(s, p) PROVE Queued(s, p)'
    <3>1. CASE bufferQueue[s] = <<p>> /\ writeQueue[s] = <<>> /\ n = 1
      <4>1. SubSeq(bufferQueue[s], 1, n) = <<p>> /\ bufferQueue[s]' = <<>>
        <5>1. <<p>> \in Seq({p}) /\ Len(<<p>>) = 1 /\ <<p>>[1] = p
          OBVIOUS
        <5>2. SubSeq(<<p>>, 1, 1) = <<p>>
          BY <5>1, SubSeqFull
        <5>3. SubSeq(<<p>>, 2, 1) = <<>>
          BY SubSeqEmpty
        <5> QED BY <2>2, <3>1, <5>1, <5>2, <5>3
      <4>2. buffers \in {<<{p}>>, <<{}, {p}>>}
        <5>1. buffers \in Packed(<<p>>)
          BY <2>1, <4>1, Zenon
        <5> QED BY <5>1, PackedOne
      <4>3. writeQueue[s]' = buffers
        BY <2>2, <3>1, <4>2
      <4> QED BY <4>1, <4>2, <4>3 DEF Queued
    <3>2. CASE n = 0
      <4>1. SubSeq(bufferQueue[s], 1, n) = <<>> /\ bufferQueue[s]' = bufferQueue[s]
        BY <1>1, <2>2, <3>2 DEF TypeOK
      <4>2. buffers = <<>>
        <5>1. buffers \in Packed(<<>>)
          BY <2>1, <4>1, Zenon
        <5> QED BY <5>1, PackedOne
      <4>3. writeQueue[s]' = writeQueue[s]
        BY <1>1, <2>2, <4>2 DEF TypeOK
      <4> QED BY <2>4, <4>1, <4>3, Zenon DEF Queued
    <3>3. Len(<<p>>) = 1 /\ Len(<<>>) = 0
      OBVIOUS
    <3>4. n = 0 \/ (n = 1 /\ bufferQueue[s] = <<p>> /\ writeQueue[s] = <<>>)
      <4>1. CASE bufferQueue[s] = <<>>
        BY <3>3, <4>1
      <4>2. CASE bufferQueue[s] = <<p>> /\ writeQueue[s] = <<>>
        BY <3>3, <4>2
      <4> QED BY <2>4, <4>1, <4>2 DEF Queued
    <3> QED BY <3>1, <3>2, <3>4
  <2>5. at' # "close"
    BY <2>2
  <2> QED BY <1>3, <2>2, <2>3, <2>4, <2>5 DEF Told
<1> QED BY <1>2, <1>3

LEMMA OtherStepsKeep ==
    ASSUME IInv, BeginUpdate \/ EndUpdate \/ UNCHANGED vars PROVE IInv'
<1> USE DEF vars, flags, queues, sessions, thread, history, At, IsOpen
<1>1. TypeOK'
  BY DEF IInv, TypeOK, Places, BeginUpdate, EndUpdate
<1>2. ASSUME NEW x \in Sockets PROVE Unknown(x)' /\ Served(x)' /\ Session(x)'
  <2>1. TypeOK /\ TypeOK' /\ Unknown(x) /\ Served(x) /\ Session(x)
    BY <1>1 DEF IInv
  <2>2. CASE BeginUpdate
    BY <2>1, <2>2 DEF BeginUpdate, TypeOK, Unknown, Served, InHand, Session
  <2>3. CASE EndUpdate
    BY <2>1, <2>3 DEF EndUpdate, TypeOK, Unknown, Served, InHand, Session
  <2>4. CASE UNCHANGED vars
    BY <2>1, <2>4 DEF TypeOK, Unknown, Served, InHand, Session
  <2> QED BY <2>2, <2>3, <2>4
<1> QED BY <1>1, <1>2 DEF IInv

LEMMA OtherStepsTell ==
    ASSUME NEW x \in Sockets, IInv, Told(x), BeginUpdate \/ EndUpdate \/ UNCHANGED vars
    PROVE  Told(x)'
<1> USE DEF vars, flags, queues, sessions, thread, history, At, IsOpen
<1>1. TypeOK
  BY DEF IInv
<1>2. CASE BeginUpdate
  BY <1>1, <1>2 DEF BeginUpdate, TypeOK, Told, Queued, NoneQueued
<1>3. CASE EndUpdate
  BY <1>1, <1>3 DEF EndUpdate, TypeOK, Told, Queued, NoneQueued
<1>4. CASE UNCHANGED vars
  BY <1>1, <1>4 DEF TypeOK, Told, Queued, NoneQueued
<1> QED BY <1>2, <1>3, <1>4

-----------------------------------------------------------------------------
(* The invariant holds *)

LEMMA InitInvariant == Init => IInv
<1> SUFFICES ASSUME Init PROVE IInv
  OBVIOUS
<1>1. TypeOK
  BY NoSocketAssumption DEF Init, TypeOK, Places
<1>2. \A s \in Sockets : Unknown(s) /\ Served(s) /\ Session(s)
  BY NoSocketAssumption DEF Init, Unknown, Served, Session, InHand, At, IsOpen
<1> QED BY <1>1, <1>2 DEF IInv

LEMMA ProceedKeeps == IInv /\ Proceed => IInv'
<1> SUFFICES ASSUME IInv, Proceed PROVE IInv'
  OBVIOUS
<1>1. CASE EndUpdate
  BY <1>1, OtherStepsKeep
<1>2. ASSUME NEW s \in Sockets, UpdateOf(s) PROVE IInv'
  BY <1>2, DrainKeeps, RemoveSocketKeeps, UpdateSocketKeeps DEF UpdateOf
<1>3. ASSUME NEW s \in Sockets, HandleQueue(s) PROVE IInv'
  BY <1>3, NothingToWriteKeeps, WriteBlocksKeeps, WriteAllKeeps, WriteFailsKeeps DEF HandleQueue
<1>4. ASSUME NEW s \in Sockets, CloseSocket(s) \/ OnClose(s) PROVE IInv'
  BY <1>4, CloseSocketKeeps, OnCloseKeeps
<1>5. ASSUME NEW s \in Sockets, ProcessReadyCallbacks(s) PROVE IInv'
  BY <1>5, NoCallbackKeeps, ChallengeKeeps, AcceptKeeps, AddSessionKeeps, RefuseKeeps
     DEF ProcessReadyCallbacks
<1>6. ASSUME NEW s \in Sockets, Read(s) PROVE IInv'
  BY <1>6, AsyncReadKeeps, IgnoreKeeps, MalformedKeeps, HandleAuthSessionKeeps, AuthedTwiceKeeps,
     LogDuplicateKeeps, LockSessionKeeps, NoSessionKeeps, UseSessionKeeps, PongKeeps DEF Read
<1> QED BY <1>1, <1>2, <1>3, <1>4, <1>5, <1>6 DEF Proceed

LEMMA NextKeeps == IInv /\ [Next]_vars => IInv'
<1> SUFFICES ASSUME IInv, [Next]_vars PROVE IInv'
  OBVIOUS
<1>1. CASE BeginUpdate \/ UNCHANGED vars
  BY <1>1, OtherStepsKeep
<1>2. CASE Proceed
  BY <1>2, ProceedKeeps
<1>3. ASSUME NEW s \in Sockets,
             OnSocketOpen(s) \/ WriteHandler(s) \/ Disconnect(s) \/ ReadHandler(s)
      PROVE  IInv'
  BY <1>3, OnSocketOpenKeeps, WriteHandlerKeeps, DisconnectKeeps, ReadHandlerKeeps
<1>4. ASSUME NEW s \in Sockets, World(s) PROVE IInv'
  BY <1>4, SendPacketKeeps, KickPlayerKeeps, LoseSocketKeeps, DeleteKeeps, FinishCloseKeeps
     DEF World
<1> QED BY <1>1, <1>2, <1>3, <1>4 DEF Next

LEMMA ProceedTells == ASSUME NEW x \in Sockets, IInv, Told(x), Proceed PROVE Told(x)'
<1>1. CASE EndUpdate
  BY <1>1, OtherStepsTell
<1>2. ASSUME NEW s \in Sockets, UpdateOf(s) PROVE Told(x)'
  BY <1>2, DrainTells, RemoveSocketTells, UpdateSocketTells DEF UpdateOf
<1>3. ASSUME NEW s \in Sockets, HandleQueue(s) PROVE Told(x)'
  BY <1>3, NothingToWriteTells, WriteBlocksTells, WriteAllTells, WriteFailsTells DEF HandleQueue
<1>4. ASSUME NEW s \in Sockets, CloseSocket(s) \/ OnClose(s) PROVE Told(x)'
  BY <1>4, CloseSocketTells, OnCloseTells
<1>5. ASSUME NEW s \in Sockets, ProcessReadyCallbacks(s) PROVE Told(x)'
  BY <1>5, NoCallbackTells, ChallengeTells, AcceptTells, AddSessionTells, RefuseTells
     DEF ProcessReadyCallbacks
<1>6. ASSUME NEW s \in Sockets, Read(s) PROVE Told(x)'
  BY <1>6, AsyncReadTells, IgnoreTells, MalformedTells, HandleAuthSessionTells, AuthedTwiceTells,
     LogDuplicateTells, LockSessionTells, NoSessionTells, UseSessionTells, PongTells DEF Read
<1> QED BY <1>1, <1>2, <1>3, <1>4, <1>5, <1>6 DEF Proceed

LEMMA NextTells == ASSUME NEW x \in Sockets, IInv, Told(x), [Next]_vars PROVE Told(x)'
<1>1. CASE BeginUpdate \/ UNCHANGED vars
  BY <1>1, OtherStepsTell
<1>2. CASE Proceed
  BY <1>2, ProceedTells
<1>3. ASSUME NEW s \in Sockets,
             OnSocketOpen(s) \/ WriteHandler(s) \/ Disconnect(s) \/ ReadHandler(s)
      PROVE  Told(x)'
  BY <1>3, OnSocketOpenTells, WriteHandlerTells, DisconnectTells, ReadHandlerTells
<1>4. ASSUME NEW s \in Sockets, World(s) PROVE Told(x)'
  BY <1>4, SendPacketTells, KickPlayerTells, LoseSocketTells, DeleteTells, FinishCloseTells
     DEF World
<1> QED BY <1>1, <1>2, <1>3, <1>4 DEF Next

LEMMA Invariance == Spec => []TInv
<1>1. Init => TInv
  <2>1. Init => \A s \in Sockets : Told(s)
    BY DEF Init, Told, NoneQueued, At
  <2> QED BY <2>1, InitInvariant DEF TInv
<1>2. TInv /\ [Next]_vars => TInv'
  BY NextKeeps, NextTells DEF TInv
<1> QED BY <1>1, <1>2, PTL DEF Spec

-----------------------------------------------------------------------------
(* The theorems *)

\* Every variable keeps its type, and the network thread lets go of a socket
\* when it has dealt with it, whatever the number of sockets.
THEOREM TypeCorrect == Spec => []TypeOK
<1>1. TInv => TypeOK
  BY DEF TInv, IInv
<1> QED BY <1>1, Invariance, PTL

\* No handler that has tested _worldSession under the lock, and not the report
\* of a duplicate either, reaches a session that ~WorldSession has deleted; a
\* pointer to one is left only while OnClose is about to reset it.  (That the
\* report may find a null pointer is not excluded.)
THEOREM SessionsOutliveTheirUse == Spec => []NoUseOfDeletedSession
<1>1. TInv => NoUseOfDeletedSession
  <2> SUFFICES ASSUME TInv, NEW s \in Sockets
      PROVE  /\ At("session", s) => session[s] = "live"
             /\ At("duplicate", s) /\ worldSession[s] => session[s] = "live"
             /\ At("publish", s) => session[s] = "built"
             /\ worldSession[s] /\ session[s] = "deleted" => At("onClose", s)
    BY DEF NoUseOfDeletedSession
  <2> QED BY DEF TInv, IInv, TypeOK, Session, At
<1> QED BY <1>1, Invariance, PTL

\* A socket that is open waits for one read or one query, or the network
\* thread has it in hand, whatever the other sockets do.
THEOREM SocketsAreServed == Spec => []OpenSocketIsServed
<1>1. TInv => OpenSocketIsServed
  BY DEF TInv, IInv, Served, OpenSocketIsServed
<1> QED BY <1>1, Invariance, PTL

\* A delayed close never overtakes the refusal: the client is sent it before
\* the socket closes, unless it has not waited or a write has failed.
THEOREM RefusalsAreTold == Spec => []RefusedClientIsTold
<1>1. TInv => RefusedClientIsTold
  BY DEF TInv, Told, RefusedClientIsTold
<1> QED BY <1>1, Invariance, PTL

=============================================================================
