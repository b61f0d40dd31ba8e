-------------------------- MODULE AckChannelProofs --------------------------
(***************************************************************************)
(* Theorems about AckChannel, for every set of messages, every number of   *)
(* sends and sockets, and every choice of faults: the types of its         *)
(* variables and the watchdog, then its safety.  ChannelInv is inductive,  *)
(* the properties that matter follow from it, and AckChannel implements    *)
(* ReliableChannel.  Last, on sockets that keep order, nothing is parked.  *)
(***************************************************************************)
EXTENDS AckChannel, TransportProofs

-----------------------------------------------------------------------------
(* Type correctness *)

LEMMA InitType == Init => TypeOK
<1>. SUFFICES ASSUME Init PROVE TypeOK
  OBVIOUS
<1>1. NewTransport \in Transport
  BY NewTransportType
<1>2. <<>> \in Seq(Frame) /\ <<>> \in Seq(Msg)
  BY EmptySeq
<1>3. accepted \in 0 .. MaxSocket /\ opening \subseteq 1 .. accepted
  BY MaxSocketAssumption DEF Init
<1>4. \A e \in End : ep[e].socket \in 0 .. accepted
  BY DEF Init, NewTransport, NoSocket
<1>5. /\ ep \in [End -> Transport]
      /\ wire \in [Sockets -> [End -> Seq(Frame)]]
      /\ sent \in [End -> Seq(Msg)]
      /\ delivered \in [End -> Seq(Msg)]
  BY <1>1, <1>2 DEF Init
<1>. QED
  BY <1>3, <1>4, <1>5 DEF TypeOK

\* A step that touches the transport of one end and the wires only.
LEMMA LocalStepType ==
  ASSUME TypeOK, NEW e \in End, NEW q \in Transport,
         q.socket \in {ep[e].socket, NoSocket},
         ep' = [ep EXCEPT ![e] = q],
         wire' \in Wires,
         UNCHANGED <<accepted, opening, sent, delivered>>
  PROVE  TypeOK'
<1>1. ep[e].socket \in 0 .. accepted /\ accepted \in Nat
  BY DEF TypeOK
<1>2. \A d \in End : ep'[d].socket \in 0 .. accepted'
  BY <1>1 DEF TypeOK, NoSocket
<1>. QED
  BY <1>2 DEF TypeOK, Wires

LEMMA DisconnectType ==
  ASSUME TypeOK, NEW e \in End, Disconnect(e)
  PROVE  TypeOK'
<1>1. wire \in Wires /\ ep[e] \in Transport
  BY DEF TypeOK, Wires
<1>2. wire' \in Wires
  BY <1>1, CarriedType DEF Disconnect
<1>3. /\ HandleTransportClose(ep[e]) \in Transport
      /\ HandleTransportClose(ep[e]).socket = NoSocket
  BY <1>1, LoseSocketType
<1>. QED
  BY <1>2, <1>3, LocalStepType DEF Disconnect

LEMMA AcceptType ==
  ASSUME TypeOK, Accept
  PROVE  TypeOK'
<1>. DEFINE s == accepted + 1
<1>1. /\ wire \in Wires
      /\ ep["server"] \in Transport
      /\ "server" \in End
      /\ s \in Nat
      /\ s \in 0 .. MaxSocket
  BY MaxSocketAssumption, SMTT(60) DEF TypeOK, Wires, End, Accept, Sockets
<1>2. ReconnectFrames(ep["server"]) \in Seq(Frame)
  BY <1>1, FramesType
<1>3. wire' \in Wires
  BY <1>1, <1>2, PutType DEF Accept
<1>4. /\ Reconnect(ep["server"], s) \in Transport
      /\ Reconnect(ep["server"], s).socket \in {ep["server"].socket, s}
  BY <1>1, ReconnectType
<1>5. /\ ep' \in [End -> Transport]
      /\ \A e \in End : ep'[e].socket \in 0 .. accepted'
  BY <1>1, <1>4 DEF Accept, TypeOK
<1>6. accepted' \in 0 .. MaxSocket /\ opening' \subseteq 1 .. accepted'
  BY <1>1 DEF Accept, TypeOK
<1>. QED
  BY <1>3, <1>5, <1>6 DEF Accept, TypeOK, Wires

LEMMA ClientOpensType ==
  ASSUME TypeOK, NEW s \in Sockets, ClientOpens(s)
  PROVE  TypeOK'
<1>. DEFINE q == ep["client"]
            frames == IF IsDisconnected(q) THEN ReconnectFrames(q) ELSE <<>>
<1>1. /\ wire \in Wires
      /\ q \in Transport
      /\ "client" \in End
      /\ s \in Nat
  BY MaxSocketAssumption DEF TypeOK, Wires, End, Sockets
<1>2. frames \in Seq(Frame)
  BY <1>1, FramesType, EmptySeq
<1>3. wire' \in Wires
  <2>. HIDE DEF frames, q
  <2>. QED  BY <1>1, <1>2, PutType DEF ClientOpens, frames, q
<1>4. Reconnect(q, s) \in Transport /\ Reconnect(q, s).socket \in {q.socket, s}
  BY <1>1, ReconnectType
<1>5. /\ ep' \in [End -> Transport]
      /\ \A e \in End : ep'[e].socket \in 0 .. accepted'
  <2>1. s \in 1 .. accepted /\ accepted' = accepted
    BY DEF ClientOpens, TypeOK
  <2>2. CASE IsDisconnected(q)
    BY <1>1, <1>4, <2>1, <2>2 DEF ClientOpens, TypeOK
  <2>3. CASE ~IsDisconnected(q)
    BY <2>1, <2>3 DEF ClientOpens, TypeOK
  <2>. QED  BY <2>2, <2>3
<1>6. opening' \subseteq 1 .. accepted'
  BY DEF ClientOpens, TypeOK
<1>. QED
  BY <1>3, <1>5, <1>6 DEF ClientOpens, TypeOK, Wires

LEMMA SendType ==
  ASSUME TypeOK, NEW e \in End, NEW m \in Msg, Send(e, m)
  PROVE  TypeOK'
<1>1. wire \in Wires /\ ep[e] \in Transport
  BY DEF TypeOK, Wires
<1>2. /\ SendFrames(ep[e], m) \in Seq(Frame)
      /\ Enqueue(ep[e], m) \in Transport
      /\ Enqueue(ep[e], m).socket = ep[e].socket
  BY <1>1, FramesType, EnqueueType
<1>3. wire' \in Wires
  BY <1>1, <1>2, PutType DEF Send
<1>4. /\ ep' \in [End -> Transport]
      /\ \A d \in End : ep'[d].socket \in 0 .. accepted'
  BY <1>2 DEF Send, TypeOK
<1>5. Append(sent[e], m) \in Seq(Msg)
  BY DEF TypeOK
<1>6. sent' \in [End -> Seq(Msg)]
  BY <1>5 DEF Send, TypeOK
<1>. QED
  BY <1>3, <1>4, <1>6 DEF Send, TypeOK, Wires

LEMMA AckTimeoutType ==
  ASSUME TypeOK, NEW e \in End, AckTimeout(e)
  PROVE  TypeOK'
<1>1. wire \in Wires /\ ep[e] \in Transport
  BY DEF TypeOK, Wires
<1>2. /\ AckFrames(ep[e]) \in Seq(Frame)
      /\ HandleAckTimer(ep[e]) \in Transport
      /\ HandleAckTimer(ep[e]).socket = ep[e].socket
  BY <1>1, FramesType DEF HandleAckTimer, Transport
<1>3. wire' \in Wires
  BY <1>1, <1>2, PutType DEF AckTimeout
<1>. QED
  BY <1>2, <1>3, LocalStepType DEF AckTimeout

LEMMA CloseEndType ==
  ASSUME TypeOK, NEW e \in End, CloseEnd(e)
  PROVE  TypeOK'
<1>1. wire \in Wires /\ ep[e] \in Transport
  BY DEF TypeOK, Wires
<1>2. wire' \in Wires
  BY <1>1, CarriedType DEF CloseEnd
<1>3. Close(ep[e]) \in Transport /\ Close(ep[e]).socket \in {ep[e].socket, NoSocket}
  BY <1>1, LoseSocketType
<1>. QED
  BY <1>2, <1>3, LocalStepType DEF CloseEnd

LEMMA NetworkType ==
  ASSUME TypeOK,
         \/ \E s \in Sockets : OpenFails(s)
         \/ \E s \in Sockets, e \in End : LoseFrame(s, e)
  PROVE  TypeOK'
<1>1. wire \in Wires
  BY DEF TypeOK, Wires
<1>2. wire' \in Wires
  BY <1>1, CarriedType, TookFrames DEF OpenFails, LoseFrame
<1>. QED
  BY <1>2 DEF OpenFails, LoseFrame, TypeOK, Wires

\* A frame taken from the socket of e.
LEMMA TakenFrame ==
  ASSUME TypeOK, NEW e \in End, IsOpen(ep[e]),
         NEW i \in 1 .. Len(wire[ep[e].socket][e])
  PROVE  /\ ep[e].socket \in Sockets
         /\ wire[ep[e].socket][e][i] \in Frame
         /\ wire[ep[e].socket][e][i].type = "CONTENT" =>
              wire[ep[e].socket][e][i] \in ContentFrame
         /\ wire[ep[e].socket][e][i].type = "ACK" =>
              wire[ep[e].socket][e][i] \in AckFrame
<1>1. ep[e].socket \in Sockets
  BY MaxSocketAssumption DEF TypeOK, IsOpen, NoSocket, Sockets
<1>2. wire[ep[e].socket][e] \in Seq(Frame)
  BY <1>1 DEF TypeOK
<1>3. wire[ep[e].socket][e][i] \in Frame
  BY <1>2, ElementOfSeq
<1>. QED
  BY <1>1, <1>3 DEF Frame, ContentFrame, AckFrame

\* What Receive does to the wires.
LEMMA ReceiveWire ==
  ASSUME TypeOK, NEW e \in End, IsOpen(ep[e]),
         NEW i \in 1 .. Len(wire[ep[e].socket][e]),
         \/ wire' = Carried(Took(wire, ep[e].socket, e, i), ep', opening)
         \/ wire' = Carried(wire, ep', opening)
  PROVE  /\ wire' \in Wires
         /\ \A t \in Sockets, d \in End : \A j \in 1 .. Len(wire'[t][d]) :
              \E k \in 1 .. Len(wire[t][d]) : wire'[t][d][j] = wire[t][d][k]
<1>1. wire \in Wires /\ ep[e].socket \in Sockets
  BY TakenFrame DEF TypeOK, Wires
<1>2. CASE wire' = Carried(Took(wire, ep[e].socket, e, i), ep', opening)
  <2>. DEFINE w == Took(wire, ep[e].socket, e, i)
  <2>1. /\ w \in Wires
        /\ \A t \in Sockets, d \in End : \A j \in 1 .. Len(w[t][d]) :
             \E k \in 1 .. Len(wire[t][d]) : w[t][d][j] = wire[t][d][k]
    BY <1>1, TookFrames
  <2>. HIDE DEF w
  <2>2. wire' = Carried(w, ep', opening)
    BY <1>2 DEF w
  <2>3. /\ wire' \in Wires
        /\ \A t \in Sockets, d \in End : \A j \in 1 .. Len(wire'[t][d]) :
             \E k \in 1 .. Len(w[t][d]) : wire'[t][d][j] = w[t][d][k]
    <3>1. w \in Wires
      BY <2>1
    <3>2. /\ Carried(w, ep', opening) \in Wires
          /\ \A t \in Sockets, d \in End :
               \A j \in 1 .. Len(Carried(w, ep', opening)[t][d]) :
                 \E k \in 1 .. Len(w[t][d]) :
                   Carried(w, ep', opening)[t][d][j] = w[t][d][k]
      BY <3>1, CarriedType
    <3>. QED  BY <2>2, <3>2, Zenon, SMTT(60)
  <2>4. ASSUME NEW t \in Sockets, NEW d \in End, NEW j \in 1 .. Len(wire'[t][d])
        PROVE  \E k \in 1 .. Len(wire[t][d]) : wire'[t][d][j] = wire[t][d][k]
    <3>1. PICK l \in 1 .. Len(w[t][d]) : wire'[t][d][j] = w[t][d][l]
      BY <2>3
    <3>. QED  BY <2>1, <3>1
  <2>5. wire' \in Wires
    BY <2>3
  <2>. QED  BY <2>4, <2>5, Zenon
<1>3. CASE wire' = Carried(wire, ep', opening)
  BY <1>1, <1>3, CarriedType
<1>. QED
  BY <1>2, <1>3

LEMMA ReceiveType ==
  ASSUME TypeOK, NEW e \in End, Receive(e)
  PROVE  TypeOK'
<1>. DEFINE s == ep[e].socket
<1>1. PICK i \in 1 .. Len(wire[s][e]) :
        /\ \/ wire[s][e][i].type = "CONTENT" /\ ReceiveContent(e, wire[s][e][i])
           \/ wire[s][e][i].type = "ACK" /\ ReceiveAck(e, wire[s][e][i])
        /\ \/ wire' = Carried(Took(wire, s, e, i), ep', opening)
           \/ wire' = Carried(wire, ep', opening)
  BY DEF Receive
<1>2. IsOpen(ep[e]) /\ ep[e] \in Transport
  BY DEF Receive, TypeOK
<1>3. wire' \in Wires
  BY <1>1, <1>2, ReceiveWire
<1>4. /\ accepted' = accepted /\ opening' = opening /\ sent' = sent
      /\ s \in 0 .. accepted /\ accepted \in Nat
  BY DEF Receive, TypeOK
<1>. DEFINE f == wire[s][e][i]
<1>5. CASE f.type = "CONTENT" /\ ReceiveContent(e, f)
  <2>1. f \in ContentFrame
    BY <1>2, <1>5, TakenFrame
  <2>. HIDE DEF f
  <2>2. MaxSend[Peer(e)] \in Nat
    BY MaxSendAssumption, PeerType
  <2>3. PICK n \in 0 .. MaxSend[Peer(e)] :
          /\ ProcessesUpTo(ep[e], f, n)
          /\ ep' = [ep EXCEPT ![e] = HandleContent(@, f, n)]
          /\ delivered' = [delivered EXCEPT ![e] = @ \o Processed(ep[e], f, n)]
    BY <1>5 DEF ReceiveContent
  <2>4. n \in Nat
    BY <2>2
  <2>5. /\ HandleContent(ep[e], f, n) \in Transport
        /\ HandleContent(ep[e], f, n).socket = s
    BY <1>2, <2>1, <2>4, HandleContentType
  <2>6. /\ ep' \in [End -> Transport]
        /\ \A d \in End : ep'[d].socket \in 0 .. accepted'
    BY <1>4, <2>3, <2>5 DEF TypeOK
  <2>7. Processed(ep[e], f, n) \in Seq(Msg) /\ delivered[e] \in Seq(Msg)
    BY <1>2, <2>1, <2>3, <2>4, ProcessedType DEF TypeOK
  <2>8. delivered[e] \o Processed(ep[e], f, n) \in Seq(Msg)
    BY <2>7, ConcatProperties
  <2>9. delivered' \in [End -> Seq(Msg)]
    BY <2>3, <2>8 DEF TypeOK
  <2>. QED  BY <1>3, <1>4, <2>6, <2>9 DEF TypeOK, Wires
<1>6. CASE f.type = "ACK" /\ ReceiveAck(e, f)
  <2>. HIDE DEF f
  <2>1. PICK k \in 0 .. MaxSend[e] :
          /\ AcknowledgesFirst(ep[e], f, k)
          /\ ep' = [ep EXCEPT ![e] = HandleAck(@, f, k)]
    BY <1>6 DEF ReceiveAck
  <2>2. k \in 0 .. Len(ep[e].pendingSends)
    BY <2>1 DEF AcknowledgesFirst
  <2>3. /\ HandleAck(ep[e], f, k) \in Transport
        /\ HandleAck(ep[e], f, k).socket \in {s, NoSocket}
    BY <1>2, <2>2, HandleAckType
  <2>. QED
    BY <1>3, <1>4, <1>6, <2>1, <2>3, LocalStepType DEF ReceiveAck
<1>. QED
  BY <1>1, <1>5, <1>6

\* TypeOK, for every value of the constants.
THEOREM TypeCorrect == Spec => []TypeOK
<1>1. TypeOK /\ [Next]_vars => TypeOK'
  <2>. SUFFICES ASSUME TypeOK, [Next]_vars PROVE TypeOK'
    OBVIOUS
  <2>1. CASE Accept
    BY <2>1, AcceptType
  <2>2. CASE \E s \in Sockets : ClientOpens(s) \/ OpenFails(s)
    BY <2>2, ClientOpensType, NetworkType
  <2>3. CASE ClientNoticesDeadSocket
    BY <2>3, DisconnectType DEF ClientNoticesDeadSocket, End
  <2>4. CASE \E s \in Sockets, e \in End : LoseFrame(s, e)
    BY <2>4, NetworkType
  <2>5. ASSUME NEW e \in End, SocketCloses(e) \/ PendingMessageTimeout(e)
        PROVE  TypeOK'
    BY <2>5, DisconnectType DEF SocketCloses, PendingMessageTimeout
  <2>6. ASSUME NEW e \in End, NEW m \in Msg, Send(e, m)
        PROVE  TypeOK'
    BY <2>6, SendType
  <2>7. ASSUME NEW e \in End, AckTimeout(e) \/ Receive(e) \/ CloseEnd(e)
        PROVE  TypeOK'
    BY <2>7, AckTimeoutType, ReceiveType, CloseEndType
  <2>8. CASE UNCHANGED vars
    BY <2>8 DEF vars, TypeOK
  <2>. QED
    BY <2>1, <2>2, <2>3, <2>4, <2>5, <2>6, <2>7, <2>8 DEF Next
<1>. QED
  BY <1>1, InitType, PTL DEF Spec

-----------------------------------------------------------------------------
(* The watchdog: the timer of _handlePendingMessageTimeout is armed exactly *)
(* while an open transport waits for something.  The argument is about one  *)
(* transport at a time: every method keeps Guarded, whatever the network    *)
(* does.                                                                    *)

LEMMA WatchdogUnfolded ==
  /\ Watchdog <=> \A e \in End : Guarded(ep[e])
  /\ Watchdog' <=> \A e \in End : Guarded(ep'[e])
  BY DEF Watchdog, Guarded, WantsPendingMessageTimer, HasPendingMessage

\* A step that leaves one end guarded and the other alone.
LEMMA OneEnd ==
  ASSUME TypeOK, Watchdog, NEW e \in End, NEW q, Guarded(q),
         ep' = [ep EXCEPT ![e] = q]
  PROVE  Watchdog'
<1>1. \A d \in End : ep'[d] = IF d = e THEN q ELSE ep[d]
  BY DEF TypeOK
<1>. QED
  BY <1>1, WatchdogUnfolded

\* The watchdog is armed exactly while an open transport waits, and the
\* assertions of _checkLeaks hold after every method.
THEOREM WatchdogArmed == Spec => []Watchdog
<1>1. Init => Watchdog
  <2>. SUFFICES ASSUME Init PROVE Watchdog
    OBVIOUS
  <2>1. Guarded(NewTransport)
    BY DEF Guarded, CheckLeaks, WantsPendingMessageTimer, IsOpen, HasPendingMessage,
           NewTransport, NoSocket
  <2>2. \A e \in End : ep[e] = NewTransport
    BY DEF Init
  <2>. QED  BY <2>1, <2>2, WatchdogUnfolded
<1>2. TypeOK /\ Watchdog /\ [Next]_vars => Watchdog'
  <2>. SUFFICES ASSUME TypeOK, Watchdog, [Next]_vars PROVE Watchdog'
    OBVIOUS
  <2>1. \A e \in End : ep[e] \in Transport /\ Guarded(ep[e])
    BY WatchdogUnfolded DEF TypeOK
  <2>2. ASSUME NEW e \in End, Disconnect(e)
        PROVE  Watchdog'
    BY <2>1, <2>2, LoseSocketGuarded, OneEnd DEF Disconnect
  <2>3. CASE Accept
    <3>1. "server" \in End /\ accepted + 1 \in Nat /\ accepted + 1 # NoSocket
      BY DEF End, TypeOK, NoSocket
    <3>2. Guarded(Reconnect(ep["server"], accepted + 1))
      BY <2>1, <3>1, ReconnectGuarded
    <3>. QED  BY <2>3, <3>1, <3>2, OneEnd DEF Accept
  <2>4. ASSUME NEW s \in Sockets, ClientOpens(s)
        PROVE  Watchdog'
    <3>1. "client" \in End /\ s \in Nat /\ s # NoSocket
      BY MaxSocketAssumption DEF End, Sockets, NoSocket
    <3>2. Guarded(Reconnect(ep["client"], s))
      BY <2>1, <3>1, ReconnectGuarded
    <3>3. CASE IsDisconnected(ep["client"])
      BY <2>4, <3>1, <3>2, <3>3, OneEnd DEF ClientOpens
    <3>4. CASE ~IsDisconnected(ep["client"])
      BY <2>1, <2>4, <3>4, WatchdogUnfolded DEF ClientOpens
    <3>. QED  BY <3>3, <3>4
  <2>5. ASSUME ep' = ep
        PROVE  Watchdog'
    BY <2>1, <2>5, WatchdogUnfolded
  <2>6. ASSUME NEW e \in End, NEW m \in Msg, Send(e, m)
        PROVE  Watchdog'
    BY <2>1, <2>6, EnqueueGuarded, OneEnd DEF Send
  <2>7. ASSUME NEW e \in End, AckTimeout(e)
        PROVE  Watchdog'
    <3>1. Guarded(HandleAckTimer(ep[e]))
      BY <2>1 DEF HandleAckTimer, Guarded, CheckLeaks, Transport,
                  WantsPendingMessageTimer, IsOpen, HasPendingMessage
    <3>. QED  BY <2>7, <3>1, OneEnd DEF AckTimeout
  <2>8. ASSUME NEW e \in End, CloseEnd(e)
        PROVE  Watchdog'
    BY <2>1, <2>8, LoseSocketGuarded, OneEnd DEF CloseEnd
  <2>9. ASSUME NEW e \in End, Receive(e)
        PROVE  Watchdog'
    <3>1. IsOpen(ep[e])
      BY <2>9 DEF Receive
    <3>2. PICK i \in 1 .. Len(wire[ep[e].socket][e]) :
            LET f == wire[ep[e].socket][e][i] IN
            \/ f.type = "CONTENT" /\ ReceiveContent(e, f)
            \/ f.type = "ACK" /\ ReceiveAck(e, f)
      BY <2>9 DEF Receive
    <3>. DEFINE f == wire[ep[e].socket][e][i]
    <3>3. f.type = "CONTENT" => f \in ContentFrame
      BY <3>1, TakenFrame
    <3>. HIDE DEF f
    <3>4. CASE f.type = "CONTENT" /\ ReceiveContent(e, f)
      <4>1. PICK n \in 0 .. MaxSend[Peer(e)] :
              /\ ProcessesUpTo(ep[e], f, n)
              /\ ep' = [ep EXCEPT ![e] = HandleContent(@, f, n)]
        BY <3>4 DEF ReceiveContent
      <4>2. n \in Nat /\ n >= ep[e].lastProcessedId
        BY <4>1, MaxSendAssumption, PeerType DEF ProcessesUpTo
      <4>3. Guarded(HandleContent(ep[e], f, n))
        BY <2>1, <3>1, <3>3, <3>4, <4>2, HandleContentGuarded
      <4>. QED  BY <4>1, <4>3, OneEnd
    <3>5. CASE f.type = "ACK" /\ ReceiveAck(e, f)
      <4>1. PICK k \in 0 .. MaxSend[e] :
              /\ AcknowledgesFirst(ep[e], f, k)
              /\ ep' = [ep EXCEPT ![e] = HandleAck(@, f, k)]
        BY <3>5 DEF ReceiveAck
      <4>2. k \in 0 .. Len(ep[e].pendingSends)
        BY <4>1 DEF AcknowledgesFirst
      <4>3. Guarded(HandleAck(ep[e], f, k))
        BY <2>1, <4>2, HandleAckGuarded
      <4>. QED  BY <4>1, <4>3, OneEnd
    <3>. QED  BY <3>2, <3>4, <3>5 DEF f
  <2>10. CASE \E s \in Sockets : ClientOpens(s) \/ OpenFails(s)
    BY <2>4, <2>5, <2>10 DEF OpenFails
  <2>11. CASE ClientNoticesDeadSocket
    BY <2>2, <2>11 DEF ClientNoticesDeadSocket, End
  <2>12. CASE \E s \in Sockets, e \in End : LoseFrame(s, e)
    BY <2>5, <2>12 DEF LoseFrame
  <2>13. ASSUME NEW e \in End, SocketCloses(e) \/ PendingMessageTimeout(e)
         PROVE  Watchdog'
    BY <2>2, <2>13 DEF SocketCloses, PendingMessageTimeout
  <2>14. CASE UNCHANGED vars
    BY <2>5, <2>14 DEF vars
  <2>. QED
    BY <2>3, <2>6, <2>7, <2>8, <2>9, <2>10, <2>11, <2>12, <2>13, <2>14 DEF Next
<1>. QED
  BY <1>1, <1>2, TypeCorrect, PTL DEF Spec

-----------------------------------------------------------------------------
(* Sequences that grow at the end. *)

\* A prefix of a sequence is a prefix of the longer one.
LEMMA PrefixOfAppend ==
  ASSUME NEW S, NEW s \in Seq(S), NEW m \in S, NEW n \in 0 .. Len(s)
  PROVE  SubSeq(Append(s, m), 1, n) = SubSeq(s, 1, n)
<1>. DEFINE t == Append(s, m)
<1>1. /\ t \in Seq(S) /\ Len(t) = Len(s) + 1 /\ Len(s) \in Nat
      /\ \A i \in 1 .. Len(s) : t[i] = s[i]
  BY AppendProperties, LenProperties
<1>. HIDE DEF t
<1>2. /\ SubSeq(s, 1, n) \in Seq(S) /\ Len(SubSeq(s, 1, n)) = n
      /\ \A i \in 1 .. n : SubSeq(s, 1, n)[i] = s[i]
  BY <1>1, SubSeqProperties, ElementOfSeq
<1>3. /\ SubSeq(t, 1, n) \in Seq(S) /\ Len(SubSeq(t, 1, n)) = n
      /\ \A i \in 1 .. n : SubSeq(t, 1, n)[i] = t[i]
  BY <1>1, SubSeqProperties, ElementOfSeq
<1>4. \A i \in 1 .. n : SubSeq(t, 1, n)[i] = SubSeq(s, 1, n)[i]
  BY <1>1, <1>2, <1>3
<1>. QED
  BY <1>2, <1>3, <1>4, SeqEqual DEF t

\* A prefix is extended by the elements that follow it.
LEMMA PrefixExtended ==
  ASSUME NEW S, NEW s \in Seq(S), NEW a \in Nat, NEW n \in a .. Len(s),
         NEW more \in Seq(S), Len(more) = n - a,
         \A i \in 1 .. n - a : more[i] = s[a + i]
  PROVE  SubSeq(s, 1, a) \o more = SubSeq(s, 1, n)
<1>. DEFINE p == SubSeq(s, 1, a)
<1>1. Len(s) \in Nat /\ n \in Nat /\ a <= n /\ n <= Len(s)
  BY LenProperties
<1>2. /\ p \in Seq(S) /\ Len(p) = a
      /\ \A i \in 1 .. a : p[i] = s[i]
  BY <1>1, SubSeqProperties, ElementOfSeq
<1>3. /\ SubSeq(s, 1, n) \in Seq(S) /\ Len(SubSeq(s, 1, n)) = n
      /\ \A i \in 1 .. n : SubSeq(s, 1, n)[i] = s[i]
  BY <1>1, SubSeqProperties, ElementOfSeq
<1>. HIDE DEF p
<1>4. /\ p \o more \in Seq(S) /\ Len(p \o more) = n
      /\ \A i \in 1 .. n : (p \o more)[i] = IF i <= a THEN p[i] ELSE more[i - a]
  <2>1. /\ p \o more \in Seq(S)
        /\ Len(p \o more) = Len(p) + Len(more)
        /\ \A i \in 1 .. Len(p) + Len(more) :
             (p \o more)[i] = IF i <= Len(p) THEN p[i] ELSE more[i - Len(p)]
    BY <1>2, ConcatProperties
  <2>2. Len(p) = a /\ Len(p) + Len(more) = n
    BY <1>1, <1>2
  <2>. QED  BY <2>1, <2>2
<1>5. \A i \in 1 .. n : (p \o more)[i] = s[i]
  BY <1>1, <1>2, <1>4
<1>6. \A i \in 1 .. n : (p \o more)[i] = SubSeq(s, 1, n)[i]
  BY <1>3, <1>5
<1>. QED
  BY <1>3, <1>4, <1>6, SeqEqual DEF p

-----------------------------------------------------------------------------
(* The invariant with its operands spelled out. *)

\* m is the id-th message of s.
IsMessage(s, id, m) == id \in 1 .. Len(s) /\ m = s[id]

\* A frame from an end that sent s and has processed n messages.
FrameFrom(s, n, f) ==
  /\ f.type = "CONTENT" => IsMessage(s, f.id, f.msg)
  /\ f.type = "ACK" => f.id <= n

\* What end d may find on its sockets, before and after a step.
FrameTo(d, f) == FrameFrom(sent[Peer(d)], ep[Peer(d)].lastProcessedId, f)

FrameToNext(d, f) == FrameFrom(sent'[Peer(d)], ep'[Peer(d)].lastProcessedId, f)

\* The queue of a transport q that sent s, to a peer that processed n of it.
QueueOf(q, s, n) ==
  /\ q.lastSendId = Len(s)
  /\ q.lastSendId - Len(q.pendingSends) >= 0
  /\ \A i \in 1 .. Len(q.pendingSends) :
       q.pendingSends[i] = [id  |-> q.lastSendId - Len(q.pendingSends) + i,
                            msg |-> s[q.lastSendId - Len(q.pendingSends) + i]]
  /\ ~q.isClosed => q.lastSendId - Len(q.pendingSends) <= n

LEMMA CompleteQueueUnfolded ==
  \A e \in End :
    /\ CompleteQueue(e) <=> QueueOf(ep[e], sent[e], ep[Peer(e)].lastProcessedId)
    /\ CompleteQueue(e)' <=> QueueOf(ep'[e], sent'[e], ep'[Peer(e)].lastProcessedId)
  BY DEF CompleteQueue, QueueOf

\* What a transport q took from a peer that sent s: out was handed over.
ReceiverOf(q, s, out) ==
  /\ \A r \in q.pendingReceives : IsMessage(s, r.id, r.msg)
  /\ q.lastProcessedId <= Len(s)
  /\ out = SubSeq(s, 1, q.lastProcessedId)

LEMMA HonestReceiverUnfolded ==
  \A e \in End :
    /\ HonestReceiver(e) <=> ReceiverOf(ep[e], sent[Peer(e)], delivered[e])
    /\ HonestReceiver(e)' <=> ReceiverOf(ep'[e], sent'[Peer(e)], delivered'[e])
  BY DEF HonestReceiver, ReceiverOf, Genuine, IsMessage

LEMMA SameQueueOf ==
  ASSUME NEW p, NEW q, NEW s, NEW n, QueueOf(q, s, n),
         p.lastSendId = q.lastSendId,
         p.pendingSends = q.pendingSends,
         p.isClosed = q.isClosed
  PROVE  QueueOf(p, s, n)
  BY Zenon DEF QueueOf

LEMMA QueueOfGrows ==
  ASSUME NEW q, NEW s, NEW m \in Nat, NEW n \in Nat, m <= n, QueueOf(q, s, m),
         q.lastSendId - Len(q.pendingSends) \in Int
  PROVE  QueueOf(q, s, n)
<1>1. ~q.isClosed => q.lastSendId - Len(q.pendingSends) <= n
  <2>. DEFINE acked == q.lastSendId - Len(q.pendingSends)
  <2>1. acked \in Int /\ (~q.isClosed => acked <= m)
    BY DEF QueueOf
  <2>. HIDE DEF acked
  <2>2. ~q.isClosed => acked <= n
    BY <2>1
  <2>. QED  BY <2>2 DEF acked
<1>. QED
  BY <1>1, Zenon DEF QueueOf

\* s is a prefix of t.
Grows(s, t) == Len(s) <= Len(t) /\ \A i \in 1 .. Len(s) : t[i] = s[i]

LEMMA HonestWireUnfolded ==
  HonestWire <=>
    \A t \in Sockets, d \in End : \A j \in 1 .. Len(wire[t][d]) :
      FrameTo(d, wire[t][d][j])
  BY DEF HonestWire, HonestFrame, Genuine, FrameTo, FrameFrom, IsMessage

LEMMA HonestWireNextUnfolded ==
  HonestWire' <=>
    \A t \in Sockets, d \in End : \A j \in 1 .. Len(wire'[t][d]) :
      FrameToNext(d, wire'[t][d][j])
  BY DEF HonestWire, HonestFrame, Genuine, FrameToNext, FrameFrom, IsMessage

\* Frames stay honest when the histories they refer to grow.
LEMMA HonestWireStep ==
  ASSUME TypeOK, TypeOK', HonestWire,
         \A d \in End : /\ Grows(sent[d], sent'[d])
                        /\ ep[d].lastProcessedId <= ep'[d].lastProcessedId,
         \A t \in Sockets, d \in End : \A j \in 1 .. Len(wire'[t][d]) :
           \/ \E k \in 1 .. Len(wire[t][d]) : wire'[t][d][j] = wire[t][d][k]
           \/ FrameTo(d, wire'[t][d][j])
           \/ FrameToNext(d, wire'[t][d][j])
  PROVE  HonestWire'
<1>. SUFFICES ASSUME NEW t \in Sockets, NEW d \in End, NEW j \in 1 .. Len(wire'[t][d])
              PROVE  FrameToNext(d, wire'[t][d][j])
  BY HonestWireNextUnfolded
<1>. DEFINE f == wire'[t][d][j]
            n == ep[Peer(d)].lastProcessedId
            m == ep'[Peer(d)].lastProcessedId
<1>1. Peer(d) \in End
  BY PeerType
<1>2. n \in Nat /\ m \in Nat /\ n <= m
  BY <1>1 DEF TypeOK, Transport
<1>3. Grows(sent[Peer(d)], sent'[Peer(d)])
  BY <1>1
<1>4. /\ Len(sent[Peer(d)]) \in Nat /\ Len(sent'[Peer(d)]) \in Nat
  BY <1>1, LenProperties DEF TypeOK
<1>5. f \in Frame
  <2>1. wire'[t][d] \in Seq(Frame)
    BY DEF TypeOK
  <2>. QED  BY <2>1, ElementOfSeq
<1>6. f.id \in Nat
  BY <1>5 DEF Frame, ContentFrame, AckFrame
<1>7. \/ FrameTo(d, f)
      \/ FrameToNext(d, f)
  BY HonestWireUnfolded
<1>8. ASSUME FrameTo(d, f)
      PROVE  FrameToNext(d, f)
  <2>. HIDE DEF f
  <2>. QED
    BY <1>2, <1>3, <1>4, <1>6, <1>8 DEF FrameTo, FrameToNext, FrameFrom, IsMessage, Grows
<1>. QED
  BY <1>7, <1>8

-----------------------------------------------------------------------------
(* Frames an end puts on a socket *)

\* The entries of the queue of e, as CompleteQueue numbers them.
LEMMA QueueEntry ==
  ASSUME TypeOK, NEW e \in End, CompleteQueue(e),
         NEW i \in 1 .. Len(ep[e].pendingSends)
  PROVE  /\ ep[e].pendingSends[i].id
              = ep[e].lastSendId - Len(ep[e].pendingSends) + i
         /\ IsMessage(sent[e], ep[e].pendingSends[i].id, ep[e].pendingSends[i].msg)
<1>. DEFINE q == ep[e]
            acked == q.lastSendId - Len(q.pendingSends)
<1>1. q \in Transport /\ Len(q.pendingSends) \in Nat /\ q.lastSendId \in Nat
  BY LenProperties DEF TypeOK, Transport
<1>2. /\ q.lastSendId = Len(sent[e])
      /\ acked >= 0
      /\ q.pendingSends[i] = [id |-> acked + i, msg |-> sent[e][acked + i]]
  BY DEF CompleteQueue
<1>3. i \in 1 .. Len(q.pendingSends)
  OBVIOUS
<1>. HIDE DEF q
<1>4. acked + i \in 1 .. Len(sent[e])
  <2>1. Len(sent[e]) = q.lastSendId /\ acked >= 0
    BY <1>2
  <2>2. \A L, n \in Nat : \A j \in 1 .. L : n - L >= 0 => n - L + j \in 1 .. n
    OBVIOUS
  <2>. QED  BY <1>1, <1>3, <2>1, <2>2
<1>5. /\ q.pendingSends[i].id = acked + i
      /\ q.pendingSends[i].msg = sent[e][acked + i]
  BY <1>2
<1>. HIDE DEF acked
<1>6. IsMessage(sent[e], q.pendingSends[i].id, q.pendingSends[i].msg)
  BY <1>4, <1>5 DEF IsMessage
<1>. QED
  BY <1>5, <1>6 DEF q, acked

LEMMA HonestFrames ==
  ASSUME TypeOK, NEW e \in End, CompleteQueue(e)
  PROVE  /\ \A k \in 1 .. Len(AckFrames(ep[e])) :
              FrameTo(Peer(e), AckFrames(ep[e])[k])
         /\ \A k \in 1 .. Len(ReconnectFrames(ep[e])) :
              FrameTo(Peer(e), ReconnectFrames(ep[e])[k])
<1>. DEFINE q == ep[e]
            N == Len(q.pendingSends)
            acks == AckFrames(q)
            resent == [i \in 1 .. N |-> ContentOf(q.pendingSends[i])]
<1>1. q \in Transport /\ Peer(Peer(e)) = e
  BY PeerType DEF TypeOK
<1>2. q.lastProcessedId \in Nat /\ N \in Nat
  BY <1>1, LenProperties DEF Transport
<1>3. FrameTo(Peer(e), AckOf(q.lastProcessedId))
  BY <1>1, <1>2 DEF FrameTo, FrameFrom, AckOf
<1>4. acks \in {<<>>, <<AckOf(q.lastProcessedId)>>}
  BY DEF AckFrames
<1>5. /\ Len(acks) \in Nat
      /\ \A k \in 1 .. Len(acks) : FrameTo(Peer(e), acks[k])
  BY <1>3, <1>4
<1>6. \A i \in 1 .. N : FrameTo(Peer(e), ContentOf(q.pendingSends[i]))
  BY <1>1, QueueEntry DEF FrameTo, FrameFrom, ContentOf
<1>7. /\ acks \in Seq(Frame) /\ resent \in Seq(Frame) /\ Len(resent) = N
      /\ \A i \in 1 .. N : resent[i] = ContentOf(q.pendingSends[i])
  <2>1. \A i \in 1 .. N : q.pendingSends[i] \in Numbered
    BY <1>1, ElementOfSeq DEF Transport
  <2>2. resent \in [1 .. N -> Frame]
    BY <2>1, FrameType
  <2>3. acks \in Seq(Frame)
    BY <1>1, FramesType
  <2>4. resent \in Seq(Frame)
    <3>. HIDE DEF resent, N, q, acks
    <3>1. resent \in UNION {[1 .. n -> Frame] : n \in Nat}
      BY <1>2, <2>2
    <3>. QED  BY <3>1, SeqDef, Zenon
  <2>5. Len(resent) = N
    BY <1>2
  <2>. QED  BY <2>3, <2>4, <2>5
<1>. HIDE DEF acks, resent
<1>8. \A k \in 1 .. Len(acks \o resent) : FrameTo(Peer(e), (acks \o resent)[k])
  <2>1. /\ Len(acks \o resent) = Len(acks) + N
        /\ \A k \in 1 .. Len(acks) + N :
             (acks \o resent)[k] = IF k <= Len(acks) THEN acks[k]
                                                    ELSE resent[k - Len(acks)]
    <3>. HIDE DEF N
    <3>. QED  BY <1>7, ConcatProperties
  <2>. SUFFICES ASSUME NEW k \in 1 .. Len(acks) + N
                PROVE  FrameTo(Peer(e), (acks \o resent)[k])
    BY <2>1
  <2>2. CASE k <= Len(acks)
    BY <1>5, <2>1, <2>2
  <2>3. CASE ~(k <= Len(acks))
    <3>1. k - Len(acks) \in 1 .. N
      BY <1>2, <1>5, <2>3
    <3>. QED  BY <1>6, <1>7, <2>1, <2>3, <3>1
  <2>. QED  BY <2>2, <2>3
<1>9. \/ ReconnectFrames(q) = acks \o resent
      \/ ReconnectFrames(q) = <<>>
  BY DEF ReconnectFrames, ResendFrames, acks, resent
<1>10. \A k \in 1 .. Len(ReconnectFrames(q)) : FrameTo(Peer(e), ReconnectFrames(q)[k])
  BY <1>8, <1>9, EmptySeq
<1>. QED
  BY <1>5, <1>10 DEF acks

-----------------------------------------------------------------------------
(* Steps that neither send nor receive *)

\* End e puts frames on a socket.
Puts(s, e, frames, open) == wire' = Carried(Put(wire, s, e, frames), ep', open)

\* Every frame was there or is one of those.
LEMMA PutStep ==
  ASSUME TypeOK, NEW s, NEW e \in End, NEW frames \in Seq(Frame), NEW open,
         Puts(s, e, frames, open)
  PROVE  \A t \in Sockets, d \in End : \A j \in 1 .. Len(wire'[t][d]) :
           \/ \E k \in 1 .. Len(wire[t][d]) : wire'[t][d][j] = wire[t][d][k]
           \/ d = Peer(e) /\ \E k \in 1 .. Len(frames) : wire'[t][d][j] = frames[k]
<1>1. wire \in Wires
  BY DEF TypeOK, Wires
<1>. QED
  BY <1>1, PutFramesOf DEF Puts

LEMMA PutHonest ==
  ASSUME TypeOK, NEW s, NEW e \in End, NEW frames \in Seq(Frame),
         \A k \in 1 .. Len(frames) : FrameTo(Peer(e), frames[k]),
         NEW open, Puts(s, e, frames, open)
  PROVE  \A t \in Sockets, d \in End : \A j \in 1 .. Len(wire'[t][d]) :
           \/ \E k \in 1 .. Len(wire[t][d]) : wire'[t][d][j] = wire[t][d][k]
           \/ FrameTo(d, wire'[t][d][j])
<1>1. \A t \in Sockets, d \in End : \A j \in 1 .. Len(wire'[t][d]) :
        \/ \E k \in 1 .. Len(wire[t][d]) : wire'[t][d][j] = wire[t][d][k]
        \/ d = Peer(e) /\ \E k \in 1 .. Len(frames) : wire'[t][d][j] = frames[k]
  BY PutStep, ZenonT(60)
<1>2. ASSUME NEW t \in Sockets, NEW d \in End, NEW j \in 1 .. Len(wire'[t][d]),
             d = Peer(e), NEW k \in 1 .. Len(frames), wire'[t][d][j] = frames[k]
      PROVE  FrameTo(d, wire'[t][d][j])
  BY <1>2
<1>. QED
  BY <1>1, <1>2

\* End e keeps its queues, or closes and empties them; nothing is delivered.
LEMMA QuietStep ==
  ASSUME TypeOK, TypeOK', ChannelInv, NEW e \in End, NEW q,
         ep' = [ep EXCEPT ![e] = q],
         q.lastSendId = ep[e].lastSendId,
         q.lastProcessedId = ep[e].lastProcessedId,
         q.pendingReceives \subseteq ep[e].pendingReceives,
         \/ q.pendingSends = ep[e].pendingSends /\ q.isClosed = ep[e].isClosed
         \/ q.pendingSends = <<>> /\ q.isClosed,
         UNCHANGED <<sent, delivered>>,
         \A t \in Sockets, d \in End : \A j \in 1 .. Len(wire'[t][d]) :
           \/ \E k \in 1 .. Len(wire[t][d]) : wire'[t][d][j] = wire[t][d][k]
           \/ FrameTo(d, wire'[t][d][j])
  PROVE  ChannelInv'
<1>1. ep'[e] = q /\ \A d \in End : d # e => ep'[d] = ep[d]
  BY DEF TypeOK
<1>2. \A d \in End : /\ ep'[d].lastSendId = ep[d].lastSendId
                     /\ ep'[d].lastProcessedId = ep[d].lastProcessedId
                     /\ ep'[d].pendingReceives \subseteq ep[d].pendingReceives
  BY <1>1
<1>3. \A d \in End : /\ ep[d].lastProcessedId \in Nat
                     /\ ep[d].lastSendId \in Nat
  BY DEF TypeOK, Transport
<1>4. HonestWire'
  <2>1. \A d \in End : /\ Grows(sent[d], sent'[d])
                       /\ ep[d].lastProcessedId <= ep'[d].lastProcessedId
    <3>1. \A d \in End : Len(sent[d]) \in Nat
      BY LenProperties DEF TypeOK
    <3>. QED  BY <1>2, <1>3, <3>1 DEF Grows
  <2>. QED  BY <2>1, HonestWireStep DEF ChannelInv
<1>5. ASSUME NEW d \in End
      PROVE  HonestReceiver(d)'
  BY <1>2, <1>5, PeerType DEF ChannelInv, HonestReceiver, Genuine
<1>6. ASSUME NEW d \in End
      PROVE  CompleteQueue(d)'
  <2>1. /\ QueueOf(ep[d], sent[d], ep[Peer(d)].lastProcessedId)
        /\ Peer(d) \in End
    BY PeerType, CompleteQueueUnfolded DEF ChannelInv
  <2>2. CASE ep'[d].pendingSends = ep[d].pendingSends /\ ep'[d].isClosed = ep[d].isClosed
    <3>1. /\ ep'[d].lastSendId = ep[d].lastSendId
          /\ ep'[Peer(d)].lastProcessedId = ep[Peer(d)].lastProcessedId
          /\ sent'[d] = sent[d]
      BY <1>2, <2>1
    <3>2. QueueOf(ep'[d], sent'[d], ep'[Peer(d)].lastProcessedId)
      BY <2>1, <2>2, <3>1, SameQueueOf
    <3>. QED  BY <3>2, CompleteQueueUnfolded
  <2>3. CASE ep'[d].pendingSends = <<>> /\ ep'[d].isClosed
    <3>1. Len(ep'[d].pendingSends) = 0
      BY <2>3
    <3>. QED  BY <1>2, <1>3, <2>1, <2>3, <3>1, CompleteQueueUnfolded DEF QueueOf
  <2>. QED  BY <1>1, <2>2, <2>3
<1>. QED
  BY <1>4, <1>5, <1>6 DEF ChannelInv

\* End e gives up its socket, or closes, and puts nothing on any socket.
LEMMA SilentStep ==
  ASSUME TypeOK, TypeOK', ChannelInv, NEW e \in End,
         \/ ep' = [ep EXCEPT ![e] = HandleTransportClose(@)]
         \/ ~ep[e].isClosed /\ ep' = [ep EXCEPT ![e] = Close(@)]
         \/ ep' = ep,
         NEW open, wire' = Carried(wire, ep', open),
         UNCHANGED <<sent, delivered>>
  PROVE  ChannelInv'
<1>1. wire \in Wires /\ ep[e] \in Transport /\ ep \in [End -> Transport]
  BY DEF TypeOK, Wires
<1>2. \A t \in Sockets, d \in End : \A j \in 1 .. Len(wire'[t][d]) :
        \/ \E k \in 1 .. Len(wire[t][d]) : wire'[t][d][j] = wire[t][d][k]
        \/ FrameTo(d, wire'[t][d][j])
  BY <1>1, CarriedType
<1>3. CASE ep' = [ep EXCEPT ![e] = HandleTransportClose(@)]
  <2>. DEFINE q == HandleTransportClose(ep[e])
  <2>1. SameQueues(q, ep[e])
    BY <1>1, SocketsKeepQueues, MaxSocketAssumption
  <2>2. ep' = [ep EXCEPT ![e] = q]
    BY <1>3
  <2>. HIDE DEF q
  <2>. QED  BY <1>2, <2>1, <2>2, QuietStep DEF SameQueues
<1>4. CASE ~ep[e].isClosed /\ ep' = [ep EXCEPT ![e] = Close(@)]
  <2>. DEFINE q == Close(ep[e])
  <2>1. /\ q.pendingSends = <<>>
        /\ q.pendingReceives = {}
        /\ q.lastSendId = ep[e].lastSendId
        /\ q.lastProcessedId = ep[e].lastProcessedId
        /\ q.isClosed
    BY <1>1, <1>4, CloseEmptiesQueues
  <2>2. ep' = [ep EXCEPT ![e] = q]
    BY <1>4
  <2>. HIDE DEF q
  <2>. QED  BY <1>2, <2>1, <2>2, QuietStep
<1>5. CASE ep' = ep
  <2>1. ep' = [ep EXCEPT ![e] = ep[e]]
    BY <1>1, <1>5
  <2>. QED  BY <1>2, <2>1, QuietStep
<1>. QED
  BY <1>3, <1>4, <1>5

LEMMA DisconnectSafe ==
  ASSUME TypeOK, TypeOK', ChannelInv, NEW e \in End, Disconnect(e)
  PROVE  ChannelInv'
<1>1. /\ ep' = [ep EXCEPT ![e] = HandleTransportClose(@)]
      /\ wire' = Carried(wire, ep', opening)
      /\ UNCHANGED <<sent, delivered>>
  BY DEF Disconnect
<1>. QED
  BY <1>1, SilentStep

LEMMA CloseEndSafe ==
  ASSUME TypeOK, TypeOK', ChannelInv, NEW e \in End, CloseEnd(e)
  PROVE  ChannelInv'
<1>1. /\ ~ep[e].isClosed
      /\ ep' = [ep EXCEPT ![e] = Close(@)]
      /\ wire' = Carried(wire, ep', opening)
      /\ UNCHANGED <<sent, delivered>>
  BY DEF CloseEnd
<1>. QED
  BY <1>1, SilentStep

LEMMA OpenFailsSafe ==
  ASSUME TypeOK, TypeOK', ChannelInv, NEW s \in Sockets, OpenFails(s)
  PROVE  ChannelInv'
<1>1. /\ ep' = ep
      /\ wire' = Carried(wire, ep', opening')
      /\ UNCHANGED <<sent, delivered>>
      /\ "client" \in End
  BY DEF OpenFails, End
<1>. QED
  BY <1>1, SilentStep

LEMMA LoseFrameSafe ==
  ASSUME TypeOK, TypeOK', ChannelInv, NEW s \in Sockets, NEW e \in End,
         LoseFrame(s, e)
  PROVE  ChannelInv'
<1>1. wire \in Wires /\ ep' = [ep EXCEPT ![e] = ep[e]]
  BY DEF TypeOK, Wires, LoseFrame
<1>2. PICK i \in 1 .. Len(wire[s][e]) : wire' = Took(wire, s, e, i)
  BY DEF LoseFrame
<1>3. \A t \in Sockets, d \in End : \A j \in 1 .. Len(wire'[t][d]) :
        \/ \E k \in 1 .. Len(wire[t][d]) : wire'[t][d][j] = wire[t][d][k]
        \/ FrameTo(d, wire'[t][d][j])
  BY <1>1, <1>2, TookFrames
<1>. QED
  BY <1>1, <1>3, QuietStep DEF LoseFrame

\* End e adopts socket s, or stays as it is, and resends its queue.
LEMMA AdoptStep ==
  ASSUME TypeOK, TypeOK', ChannelInv, NEW e \in End, NEW s \in Nat,
         ep' = [ep EXCEPT ![e] = Reconnect(@, s)],
         NEW open,
         wire' = Carried(Put(wire, s, e, ReconnectFrames(ep[e])), ep', open),
         UNCHANGED <<sent, delivered>>
  PROVE  ChannelInv'
<1>. DEFINE q == Reconnect(ep[e], s)
            frames == ReconnectFrames(ep[e])
<1>1. ep[e] \in Transport /\ CompleteQueue(e)
  BY DEF TypeOK, ChannelInv
<1>2. SameQueues(q, ep[e])
  BY <1>1, SocketsKeepQueues
<1>3. frames \in Seq(Frame)
  BY <1>1, FramesType
<1>4. \A k \in 1 .. Len(frames) : FrameTo(Peer(e), frames[k])
  BY <1>1, HonestFrames
<1>5. ep' = [ep EXCEPT ![e] = q] /\ Puts(s, e, frames, open)
  BY DEF Puts
<1>. HIDE DEF q, frames
<1>6. \A t \in Sockets, d \in End : \A j \in 1 .. Len(wire'[t][d]) :
        \/ \E k \in 1 .. Len(wire[t][d]) : wire'[t][d][j] = wire[t][d][k]
        \/ FrameTo(d, wire'[t][d][j])
  BY <1>3, <1>4, <1>5, PutHonest, ZenonT(60)
<1>. QED
  BY <1>2, <1>5, <1>6, QuietStep DEF SameQueues

LEMMA AcceptSafe ==
  ASSUME TypeOK, TypeOK', ChannelInv, Accept
  PROVE  ChannelInv'
<1>. DEFINE s == accepted + 1
<1>1. /\ ep' = [ep EXCEPT !["server"] = Reconnect(@, s)]
      /\ wire' = Carried(Put(wire, s, "server", ReconnectFrames(ep["server"])),
                         ep', opening')
      /\ UNCHANGED <<sent, delivered>>
      /\ s \in Nat
      /\ "server" \in End
  BY DEF Accept, TypeOK, End
<1>. QED
  BY <1>1, AdoptStep

LEMMA ClientOpensSafe ==
  ASSUME TypeOK, TypeOK', ChannelInv, NEW s \in Sockets, ClientOpens(s)
  PROVE  ChannelInv'
<1>1. "client" \in End /\ s \in Nat /\ UNCHANGED <<sent, delivered>>
  BY MaxSocketAssumption DEF End, Sockets, ClientOpens
<1>2. CASE IsDisconnected(ep["client"])
  <2>1. /\ ep' = [ep EXCEPT !["client"] = Reconnect(@, s)]
        /\ wire' = Carried(Put(wire, s, "client", ReconnectFrames(ep["client"])),
                           ep', opening')
    BY <1>2 DEF ClientOpens
  <2>. QED  BY <1>1, <2>1, AdoptStep
<1>3. CASE ~IsDisconnected(ep["client"])
  <2>. DEFINE frames == <<>>
  <2>1. /\ ep' = [ep EXCEPT !["client"] = ep["client"]]
        /\ Puts(s, "client", frames, opening')
    BY <1>3 DEF ClientOpens, TypeOK, Puts
  <2>2. /\ frames \in Seq(Frame)
        /\ \A k \in 1 .. Len(frames) : FrameTo(Peer("client"), frames[k])
    BY EmptySeq
  <2>. HIDE DEF frames
  <2>3. \A t \in Sockets, d \in End : \A j \in 1 .. Len(wire'[t][d]) :
          \/ \E k \in 1 .. Len(wire[t][d]) : wire'[t][d][j] = wire[t][d][k]
          \/ FrameTo(d, wire'[t][d][j])
    BY <1>1, <2>1, <2>2, PutHonest
  <2>. QED  BY <1>1, <2>1, <2>3, QuietStep
<1>. QED
  BY <1>2, <1>3

LEMMA AckTimeoutSafe ==
  ASSUME TypeOK, TypeOK', ChannelInv, NEW e \in End, AckTimeout(e)
  PROVE  ChannelInv'
<1>. DEFINE q == HandleAckTimer(ep[e])
            frames == AckFrames(ep[e])
<1>1. ep[e] \in Transport /\ CompleteQueue(e)
  BY DEF TypeOK, ChannelInv
<1>2. SameQueues(q, ep[e])
  BY <1>1, TimersKeepQueues
<1>3. frames \in Seq(Frame)
  BY <1>1, FramesType
<1>4. \A k \in 1 .. Len(frames) : FrameTo(Peer(e), frames[k])
  BY <1>1, HonestFrames
<1>5. /\ ep' = [ep EXCEPT ![e] = q]
      /\ Puts(ep[e].socket, e, frames, opening)
      /\ UNCHANGED <<sent, delivered>>
  BY DEF AckTimeout, Puts
<1>. HIDE DEF q, frames
<1>6. \A t \in Sockets, d \in End : \A j \in 1 .. Len(wire'[t][d]) :
        \/ \E k \in 1 .. Len(wire[t][d]) : wire'[t][d][j] = wire[t][d][k]
        \/ FrameTo(d, wire'[t][d][j])
  BY <1>3, <1>4, <1>5, PutHonest, ZenonT(60)
<1>. QED
  BY <1>2, <1>5, <1>6, QuietStep DEF SameQueues

-----------------------------------------------------------------------------
(* Sending *)

LEMMA EnqueueQueue ==
  ASSUME NEW q \in Transport, ~q.isClosed, NEW m \in Msg, NEW s \in Seq(Msg),
         NEW n \in Nat, QueueOf(q, s, n)
  PROVE  QueueOf(Enqueue(q, m), Append(s, m), n)
<1>. DEFINE p == Enqueue(q, m)
            L == Len(q.pendingSends)
            S == Len(s)
            t == Append(s, m)
<1>1. /\ S \in Nat /\ t \in Seq(Msg) /\ Len(t) = S + 1
      /\ \A i \in 1 .. S : t[i] = s[i]
      /\ t[S + 1] = m
  BY AppendProperties, LenProperties
<1>2. NextNumbered(q, m) \in Numbered /\ q.pendingSends \in Seq(Numbered)
  BY DEF NextNumbered, Numbered, Transport
<1>3. /\ L \in Nat
      /\ Len(p.pendingSends) = L + 1
      /\ \A i \in 1 .. L : p.pendingSends[i] = q.pendingSends[i]
      /\ p.pendingSends[L + 1] = NextNumbered(q, m)
  BY <1>2, EnqueueFields, AppendProperties, LenProperties, SMTT(60)
<1>4. p.lastSendId = q.lastSendId + 1 /\ p.isClosed = q.isClosed
  BY EnqueueFields
<1>5. /\ q.lastSendId = S
      /\ S - L >= 0
      /\ \A i \in 1 .. L : q.pendingSends[i] = [id |-> S - L + i, msg |-> s[S - L + i]]
      /\ S - L <= n
  BY DEF QueueOf
<1>. HIDE DEF p, L, S, t
<1>6. p.lastSendId = Len(t) /\ p.lastSendId - Len(p.pendingSends) = S - L
  BY <1>1, <1>3, <1>4, <1>5
<1>7. ASSUME NEW i \in 1 .. L + 1
      PROVE  p.pendingSends[i] = [id |-> S - L + i, msg |-> t[S - L + i]]
  <2>1. CASE i = L + 1
    <3>1. S - L + i = S + 1
      BY <1>1, <1>3, <2>1
    <3>2. p.pendingSends[i] = [id |-> S + 1, msg |-> m]
      BY <1>3, <1>5, <2>1 DEF NextNumbered
    <3>. QED  BY <1>1, <3>1, <3>2
  <2>2. CASE i # L + 1
    <3>1. i \in 1 .. L /\ S - L + i \in 1 .. S
      BY <1>1, <1>3, <1>5, <2>2
    <3>2. /\ p.pendingSends[i] = [id |-> S - L + i, msg |-> s[S - L + i]]
          /\ t[S - L + i] = s[S - L + i]
      BY <1>1, <1>3, <1>5, <3>1
    <3>. QED  BY <3>2
  <2>. QED  BY <2>1, <2>2
<1>8. QueueOf(p, t, n)
  BY <1>3, <1>5, <1>6, <1>7 DEF QueueOf
<1>. QED
  BY <1>8 DEF p, t

\* A receiver is not concerned by a message that is yet to reach it.
LEMMA ReceiverOfAppend ==
  ASSUME NEW q \in Transport, NEW s \in Seq(Msg), NEW m \in Msg, NEW out,
         ReceiverOf(q, s, out)
  PROVE  ReceiverOf(q, Append(s, m), out)
<1>1. /\ Append(s, m) \in Seq(Msg) /\ Len(s) \in Nat
      /\ Len(Append(s, m)) = Len(s) + 1
      /\ \A i \in 1 .. Len(s) : Append(s, m)[i] = s[i]
  BY AppendProperties, LenProperties
<1>2. q.lastProcessedId \in 0 .. Len(s)
  BY <1>1 DEF ReceiverOf, Transport
<1>3. SubSeq(Append(s, m), 1, q.lastProcessedId) = SubSeq(s, 1, q.lastProcessedId)
  BY <1>2, PrefixOfAppend
<1>4. \A r \in q.pendingReceives : IsMessage(Append(s, m), r.id, r.msg)
  BY <1>1 DEF ReceiverOf, IsMessage
<1>5. q.lastProcessedId <= Len(Append(s, m))
  BY <1>1, <1>2
<1>. QED
  BY <1>3, <1>4, <1>5 DEF ReceiverOf

LEMMA SendSafe ==
  ASSUME TypeOK, TypeOK', ChannelInv, NEW e \in End, NEW m \in Msg, Send(e, m)
  PROVE  ChannelInv'
<1>. DEFINE q == ep[e]
            p == Enqueue(q, m)
            s == sent[e]
            t == Append(s, m)
            frames == SendFrames(q, m)
<1>1. /\ q \in Transport /\ ~q.isClosed /\ s \in Seq(Msg)
      /\ Peer(e) \in End /\ Peer(e) # e
      /\ ep[Peer(e)].lastProcessedId \in Nat
  BY PeerType DEF Send, TypeOK, Transport, End, Peer
<1>2. /\ ep' = [ep EXCEPT ![e] = p]
      /\ sent' = [sent EXCEPT ![e] = t]
      /\ delivered' = delivered
      /\ Puts(q.socket, e, frames, opening)
  BY DEF Send, Puts
<1>3. /\ ep'[e] = p /\ \A d \in End : d # e => ep'[d] = ep[d]
      /\ sent'[e] = t /\ \A d \in End : d # e => sent'[d] = sent[d]
  BY <1>2 DEF TypeOK
<1>4. /\ p.pendingReceives = q.pendingReceives
      /\ p.lastProcessedId = q.lastProcessedId
  BY <1>1, EnqueueFields
<1>5. /\ QueueOf(q, s, ep[Peer(e)].lastProcessedId)
      /\ ReceiverOf(q, sent[Peer(e)], delivered[e])
      /\ QueueOf(ep[Peer(e)], sent[Peer(e)], q.lastProcessedId)
      /\ ReceiverOf(ep[Peer(e)], s, delivered[Peer(e)])
  BY <1>1, CompleteQueueUnfolded, HonestReceiverUnfolded, PeerType DEF ChannelInv
<1>6. QueueOf(p, t, ep[Peer(e)].lastProcessedId)
  BY <1>1, <1>5, EnqueueQueue
<1>7. ReceiverOf(ep[Peer(e)], t, delivered[Peer(e)])
  BY <1>1, <1>5, ReceiverOfAppend DEF TypeOK
<1>8. ReceiverOf(p, sent[Peer(e)], delivered[e])
  BY <1>4, <1>5 DEF ReceiverOf
<1>9. /\ s \in Seq(Msg) /\ t \in Seq(Msg) /\ Len(s) \in Nat /\ Len(t) = Len(s) + 1
      /\ \A i \in 1 .. Len(s) : t[i] = s[i]
      /\ t[Len(s) + 1] = m
  BY <1>1, AppendProperties, LenProperties
<1>10. frames \in Seq(Frame)
  BY <1>1, FramesType
<1>11. \A k \in 1 .. Len(frames) :
         FrameFrom(t, p.lastProcessedId, frames[k])
  <2>1. FrameFrom(t, p.lastProcessedId, ContentOf(NextNumbered(q, m)))
    <3>1. q.lastSendId = Len(s)
      BY <1>5 DEF QueueOf
    <3>. HIDE DEF q, s, t, p
    <3>. QED
      BY <1>9, <3>1 DEF FrameFrom, ContentOf, NextNumbered, IsMessage
  <2>2. frames \in {<<>>, <<ContentOf(NextNumbered(q, m))>>}
    BY DEF SendFrames
  <2>. QED  BY <2>1, <2>2, EmptySeq
<1>12. \A u \in Sockets, d \in End : \A j \in 1 .. Len(wire'[u][d]) :
         \/ \E k \in 1 .. Len(wire[u][d]) : wire'[u][d][j] = wire[u][d][k]
         \/ d = Peer(e) /\ \E k \in 1 .. Len(frames) : wire'[u][d][j] = frames[k]
  <2>. HIDE DEF p, s, t, frames
  <2>. QED  BY <1>2, <1>10, PutStep, ZenonT(60)
<1>. HIDE DEF q, p, s, t, frames
<1>13. HonestWire'
  <2>1. \A d \in End : /\ Grows(sent[d], sent'[d])
                       /\ ep[d].lastProcessedId <= ep'[d].lastProcessedId
    <3>1. \A d \in End : Len(sent[d]) \in Nat /\ ep[d].lastProcessedId \in Nat
      BY LenProperties DEF TypeOK, Transport
    <3>2. Grows(s, t)
      BY <1>9 DEF Grows
    <3>. QED  BY <1>3, <1>4, <3>1, <3>2 DEF Grows, q, s
  <2>2. ASSUME NEW r \in Sockets, NEW d \in End, NEW j \in 1 .. Len(wire'[r][d])
        PROVE  \/ \E k \in 1 .. Len(wire[r][d]) : wire'[r][d][j] = wire[r][d][k]
               \/ FrameToNext(d, wire'[r][d][j])
    <3>1. \/ \E k \in 1 .. Len(wire[r][d]) : wire'[r][d][j] = wire[r][d][k]
          \/ d = Peer(e) /\ \E k \in 1 .. Len(frames) : wire'[r][d][j] = frames[k]
      BY <1>12
    <3>2. ASSUME d = Peer(e), NEW k \in 1 .. Len(frames), wire'[r][d][j] = frames[k]
          PROVE  FrameToNext(d, wire'[r][d][j])
      <4>1. Peer(d) = e
        BY <3>2, PeerType
      <4>. QED  BY <1>3, <1>11, <3>2, <4>1 DEF FrameToNext
    <3>. QED  BY <3>1, <3>2
  <2>. QED  BY <2>1, <2>2, HonestWireStep DEF ChannelInv
<1>14. \A d \in End : d = e \/ d = Peer(e)
  BY DEF End, Peer
<1>15. HonestReceiver(e)' /\ HonestReceiver(Peer(e))'
  BY <1>1, <1>2, <1>3, <1>7, <1>8, HonestReceiverUnfolded, PeerType DEF s
<1>16. CompleteQueue(e)' /\ CompleteQueue(Peer(e))'
  BY <1>1, <1>2, <1>3, <1>4, <1>5, <1>6, CompleteQueueUnfolded, PeerType
<1>. QED
  BY <1>13, <1>14, <1>15, <1>16 DEF ChannelInv

-----------------------------------------------------------------------------
(* Receiving *)

\* What is handed over continues what was handed over before.
LEMMA ProcessedContinues ==
  ASSUME NEW q \in Transport, NEW f \in ContentFrame, NEW n \in Nat,
         NEW s \in Seq(Msg), NEW out, ReceiverOf(q, s, out),
         IsMessage(s, f.id, f.msg), ProcessesUpTo(q, f, n)
  PROVE  /\ \A r \in Received(q, f) : IsMessage(s, r.id, r.msg)
         /\ n \in q.lastProcessedId .. Len(s)
         /\ out \o Processed(q, f, n) = SubSeq(s, 1, n)
<1>. DEFINE a == q.lastProcessedId
            N == n - a
            entry(i) == CHOOSE r \in Received(q, f) : r.id = a + i
            more == Processed(q, f, n)
<1>1. a \in Nat /\ Len(s) \in Nat /\ n >= a /\ a <= Len(s) /\ N \in Nat
  BY LenProperties DEF ProcessesUpTo, Transport, ReceiverOf
<1>2. \A r \in Received(q, f) : IsMessage(s, r.id, r.msg)
  BY DEF Received, ReceiverOf
<1>3. n <= Len(s)
  <2>1. CASE n = a
    BY <1>1, <2>1
  <2>2. CASE n # a
    <3>1. n \in a + 1 .. n
      BY <1>1, <2>2
    <3>2. \E r \in Received(q, f) : r.id = n
      BY <3>1 DEF ProcessesUpTo
    <3>. QED  BY <1>1, <1>2, <3>2 DEF IsMessage
  <2>. QED  BY <2>1, <2>2
<1>4. \A i \in 1 .. N : entry(i).msg = s[a + i]
  <2>. SUFFICES ASSUME NEW i \in 1 .. N
                PROVE  entry(i).msg = s[a + i]
    OBVIOUS
  <2>1. a + i \in a + 1 .. n
    BY <1>1
  <2>2. \E r \in Received(q, f) : r.id = a + i
    BY <2>1 DEF ProcessesUpTo
  <2>3. entry(i) \in Received(q, f) /\ entry(i).id = a + i
    BY <2>2
  <2>. QED  BY <1>2, <2>3 DEF IsMessage
<1>5. /\ more \in Seq(Msg)
      /\ DOMAIN more = 1 .. N
      /\ \A i \in 1 .. N : more[i] = s[a + i]
  BY <1>4, ProcessedType DEF Processed
<1>6. Len(more) = N
  BY <1>1, <1>5, LenProperties
<1>7. n \in a .. Len(s)
  BY <1>1, <1>3
<1>8. out = SubSeq(s, 1, a)
  BY DEF ReceiverOf
<1>. HIDE DEF more
<1>9. SubSeq(s, 1, a) \o more = SubSeq(s, 1, n)
  BY <1>1, <1>5, <1>6, <1>7, PrefixExtended
<1>. QED
  BY <1>2, <1>7, <1>8, <1>9 DEF more

\* An ack dequeues messages that the peer, having processed n, has processed.
LEMMA AckedQueue ==
  ASSUME NEW q \in Transport, NEW p \in Transport, NEW s \in Seq(Msg),
         NEW n \in Nat, NEW id \in Nat, id <= n,
         NEW k \in 0 .. Len(q.pendingSends),
         \A i \in 1 .. k : q.pendingSends[i].id <= id,
         p.lastSendId = q.lastSendId,
         p.pendingSends = SubSeq(q.pendingSends, k + 1, Len(q.pendingSends)),
         p.isClosed = q.isClosed, ~q.isClosed,
         QueueOf(q, s, n)
  PROVE  QueueOf(p, s, n)
<1>. DEFINE L == Len(q.pendingSends)
            S == Len(s)
            x == q.pendingSends
            y == p.pendingSends
<1>1. x \in Seq(Numbered) /\ L \in Nat /\ S \in Nat
  BY LenProperties DEF Transport
<1>2. /\ q.lastSendId = S
      /\ S - L >= 0
      /\ \A i \in 1 .. L : x[i] = [id |-> S - L + i, msg |-> s[S - L + i]]
      /\ S - L <= n
  BY DEF QueueOf
<1>3. Len(y) = L - k /\ \A i \in 1 .. L - k : y[i] = x[k + i]
  <2>1. \A i \in k + 1 .. L : x[i] \in Numbered
    BY <1>1, ElementOfSeq
  <2>. QED  BY <1>1, <2>1, SubSeqProperties
<1>4. k \in 0 .. L
  OBVIOUS
<1>. HIDE DEF L, S, x, y
<1>5. S - Len(y) = S - L + k /\ S - Len(y) >= 0
  BY <1>1, <1>2, <1>3, <1>4
<1>6. ASSUME NEW i \in 1 .. Len(y)
      PROVE  y[i] = [id |-> S - Len(y) + i, msg |-> s[S - Len(y) + i]]
  <2>1. i \in 1 .. L - k /\ k + i \in 1 .. L
    BY <1>1, <1>3, <1>4
  <2>2. S - L + (k + i) = S - Len(y) + i
    BY <1>1, <1>3, <1>4, <1>5, <2>1
  <2>. QED  BY <1>2, <1>3, <2>1, <2>2
<1>7. S - Len(y) <= n
  <2>1. CASE k = 0
    BY <1>1, <1>2, <1>5, <2>1
  <2>2. CASE k # 0
    <3>1. k \in 1 .. k /\ k \in 1 .. L
      BY <1>1, <1>4, <2>2
    <3>2. x[k].id <= id
      BY <3>1 DEF x
    <3>3. x[k].id = S - L + k
      <4>1. x[k] = [id |-> S - L + k, msg |-> s[S - L + k]]
        BY <1>2, <3>1
      <4>. QED  BY <4>1
    <3>. QED  BY <1>1, <1>4, <1>5, <3>2, <3>3
  <2>. QED  BY <2>1, <2>2
<1>. QED
  BY <1>2, <1>5, <1>6, <1>7 DEF QueueOf, y, S

LEMMA ReceiveSafe ==
  ASSUME TypeOK, TypeOK', ChannelInv, NEW e \in End, Receive(e)
  PROVE  ChannelInv'
<1>. DEFINE q == ep[e]
            d == Peer(e)
<1>1. PICK i \in 1 .. Len(wire[q.socket][e]) :
        /\ \/ wire[q.socket][e][i].type = "CONTENT" /\ ReceiveContent(e, wire[q.socket][e][i])
           \/ wire[q.socket][e][i].type = "ACK" /\ ReceiveAck(e, wire[q.socket][e][i])
        /\ \/ wire' = Carried(Took(wire, q.socket, e, i), ep', opening)
           \/ wire' = Carried(wire, ep', opening)
  BY DEF Receive
<1>. DEFINE f == wire[q.socket][e][i]
<1>2. /\ IsOpen(q) /\ q \in Transport /\ sent' = sent
      /\ ep[d] \in Transport /\ sent[e] \in Seq(Msg) /\ sent[d] \in Seq(Msg)
      /\ d \in End /\ Peer(d) = e /\ d # e /\ \A x \in End : x = e \/ x = d
  BY PeerType DEF Receive, TypeOK, End, Peer
<1>3. \A t \in Sockets, x \in End : \A j \in 1 .. Len(wire'[t][x]) :
        \/ \E k \in 1 .. Len(wire[t][x]) : wire'[t][x][j] = wire[t][x][k]
        \/ FrameTo(x, wire'[t][x][j])
        \/ FrameToNext(x, wire'[t][x][j])
  BY <1>1, <1>2, ReceiveWire
<1>4. /\ QueueOf(q, sent[e], ep[d].lastProcessedId)
      /\ ReceiverOf(q, sent[d], delivered[e])
      /\ QueueOf(ep[d], sent[d], q.lastProcessedId)
      /\ ReceiverOf(ep[d], sent[e], delivered[d])
  BY <1>2, CompleteQueueUnfolded, HonestReceiverUnfolded DEF ChannelInv
<1>5. /\ FrameFrom(sent[d], ep[d].lastProcessedId, f)
      /\ f.type = "CONTENT" => f \in ContentFrame
      /\ f.type = "ACK" => f \in AckFrame
  BY <1>2, TakenFrame, HonestWireUnfolded DEF ChannelInv, FrameTo
<1>6. ASSUME q.lastProcessedId <= ep'[e].lastProcessedId,
             \A x \in End : x # e => ep'[x] = ep[x]
      PROVE  HonestWire'
  <2>1. \A x \in End : Len(sent[x]) \in Nat /\ ep[x].lastProcessedId \in Nat
    BY LenProperties DEF TypeOK, Transport
  <2>2. \A x \in End : /\ Grows(sent[x], sent'[x])
                       /\ ep[x].lastProcessedId <= ep'[x].lastProcessedId
    BY <1>2, <1>6, <2>1 DEF Grows
  <2>. QED  BY <1>3, <2>2, HonestWireStep DEF ChannelInv
<1>. HIDE DEF f
<1>7. CASE f.type = "CONTENT" /\ ReceiveContent(e, f)
  <2>1. MaxSend[d] \in Nat
    BY <1>2, MaxSendAssumption
  <2>2. PICK n \in 0 .. MaxSend[d] :
          /\ ProcessesUpTo(q, f, n)
          /\ ep' = [ep EXCEPT ![e] = HandleContent(@, f, n)]
          /\ delivered' = [delivered EXCEPT ![e] = @ \o Processed(q, f, n)]
    BY <1>7 DEF ReceiveContent
  <2>. DEFINE p == HandleContent(q, f, n)
  <2>3. /\ ep'[e] = p /\ \A x \in End : x # e => ep'[x] = ep[x]
        /\ delivered'[e] = delivered[e] \o Processed(q, f, n)
        /\ \A x \in End : x # e => delivered'[x] = delivered[x]
    BY <2>2 DEF TypeOK
  <2>4. n \in Nat /\ f \in ContentFrame /\ IsMessage(sent[d], f.id, f.msg)
    BY <1>5, <1>7, <2>1 DEF FrameFrom
  <2>5. /\ \A r \in Received(q, f) : IsMessage(sent[d], r.id, r.msg)
        /\ n \in q.lastProcessedId .. Len(sent[d])
        /\ delivered[e] \o Processed(q, f, n) = SubSeq(sent[d], 1, n)
    BY <1>2, <1>4, <2>2, <2>4, ProcessedContinues, ZenonT(60)
  <2>6. /\ p.lastSendId = q.lastSendId
        /\ p.pendingSends = q.pendingSends
        /\ p.pendingReceives \subseteq Received(q, f)
        /\ p.lastProcessedId = n
        /\ p.isClosed = q.isClosed
    BY <1>2, <2>4, HandleContentFields
  <2>. HIDE DEF p, q, d
  <2>7. ReceiverOf(p, sent[d], delivered'[e])
    BY <2>3, <2>5, <2>6 DEF ReceiverOf
  <2>8. QueueOf(p, sent[e], ep[d].lastProcessedId)
    BY <1>4, <2>6, SameQueueOf
  <2>9. q.lastProcessedId \in Nat /\ Len(sent[d]) \in Nat /\ q.lastProcessedId <= n
    BY <1>2, <2>5, LenProperties DEF Transport
  <2>10. QueueOf(ep[d], sent[d], n)
    <3>1. ep[d].lastSendId - Len(ep[d].pendingSends) \in Int
      BY <1>2, LenProperties DEF Transport
    <3>. QED  BY <1>4, <2>4, <2>9, <3>1, QueueOfGrows
  <2>11. HonestWire'
    BY <1>6, <2>3, <2>6, <2>9
  <2>12. HonestReceiver(e)' /\ HonestReceiver(d)'
    BY <1>2, <1>4, <2>3, <2>7, HonestReceiverUnfolded DEF d
  <2>13. CompleteQueue(e)' /\ CompleteQueue(d)'
    BY <1>2, <2>3, <2>6, <2>8, <2>10, CompleteQueueUnfolded DEF d
  <2>. QED  BY <1>2, <2>11, <2>12, <2>13 DEF ChannelInv
<1>8. CASE f.type = "ACK" /\ ReceiveAck(e, f)
  <2>1. PICK k \in 0 .. MaxSend[e] :
          /\ AcknowledgesFirst(q, f, k)
          /\ ep' = [ep EXCEPT ![e] = HandleAck(@, f, k)]
    BY <1>8 DEF ReceiveAck
  <2>. DEFINE p == HandleAck(q, f, k)
  <2>2. /\ ep'[e] = p /\ \A x \in End : x # e => ep'[x] = ep[x]
        /\ delivered' = delivered
    BY <1>8, <2>1 DEF TypeOK, ReceiveAck
  <2>3. p \in Transport
    BY <1>2, <2>2 DEF TypeOK
  <2>4. f.id \in Nat /\ f.id <= ep[d].lastProcessedId
    BY <1>5, <1>8 DEF FrameFrom, AckFrame
  <2>5. /\ ep[d].lastProcessedId \in Nat /\ q.lastProcessedId \in Nat
        /\ q.lastSendId \in Nat
        /\ ep[d].lastProcessedId <= Len(sent[e]) /\ q.lastSendId = Len(sent[e])
    BY <1>2, <1>4 DEF ReceiverOf, QueueOf, Transport
  <2>6. ~IsAmnesia(q, f)
    BY <2>4, <2>5 DEF IsAmnesia
  <2>7. /\ k \in 0 .. Len(q.pendingSends)
        /\ \A j \in 1 .. k : q.pendingSends[j].id <= f.id
    BY <2>1 DEF AcknowledgesFirst
  <2>8. /\ p.lastSendId = q.lastSendId
        /\ p.pendingSends = SubSeq(q.pendingSends, k + 1, Len(q.pendingSends))
        /\ p.pendingReceives = q.pendingReceives
        /\ p.lastProcessedId = q.lastProcessedId
        /\ p.isClosed = q.isClosed
    BY <1>2, <2>6, <2>7, HandleAckFields, SMTT(60)
  <2>9. ~q.isClosed
    BY <1>2 DEF IsOpen
  <2>. HIDE DEF p, q, d
  <2>10. QueueOf(p, sent[e], ep[d].lastProcessedId)
    BY <1>2, <1>4, <2>3, <2>4, <2>5, <2>7, <2>8, <2>9, AckedQueue
  <2>11. ReceiverOf(p, sent[d], delivered[e])
    BY <1>4, <2>8 DEF ReceiverOf
  <2>12. HonestWire'
    BY <1>6, <2>2, <2>5, <2>8
  <2>13. HonestReceiver(e)' /\ HonestReceiver(d)'
    BY <1>2, <1>4, <2>2, <2>11, HonestReceiverUnfolded DEF d
  <2>14. CompleteQueue(e)' /\ CompleteQueue(d)'
    BY <1>2, <1>4, <2>2, <2>8, <2>10, CompleteQueueUnfolded DEF d
  <2>. QED  BY <1>2, <2>12, <2>13, <2>14 DEF ChannelInv
<1>. QED
  BY <1>1, <1>7, <1>8 DEF f

-----------------------------------------------------------------------------
(* The invariant *)

LEMMA InitInv == Init => ChannelInv
<1>. SUFFICES ASSUME Init PROVE ChannelInv
  OBVIOUS
<1>1. Len(<<>>) = 0 /\ SubSeq(<<>>, 1, 0) = <<>>
  OBVIOUS
<1>2. HonestWire
  BY <1>1 DEF Init, HonestWire
<1>3. ASSUME NEW e \in End
      PROVE  /\ ep[e] = NewTransport /\ ep[Peer(e)] = NewTransport
             /\ sent[e] = <<>> /\ sent[Peer(e)] = <<>> /\ delivered[e] = <<>>
  BY <1>3, PeerType DEF Init
<1>4. ASSUME NEW e \in End
      PROVE  HonestReceiver(e)
  <2>1. /\ ep[e].pendingReceives = {} /\ ep[e].lastProcessedId = 0
        /\ sent[Peer(e)] = <<>> /\ delivered[e] = <<>>
    BY <1>3 DEF NewTransport
  <2>2. ep[e].lastProcessedId <= Len(sent[Peer(e)])
    BY <1>1, <2>1
  <2>3. delivered[e] = SubSeq(sent[Peer(e)], 1, ep[e].lastProcessedId)
    BY <1>1, <2>1
  <2>. QED  BY <2>1, <2>2, <2>3, Zenon DEF HonestReceiver
<1>5. \A e \in End : CompleteQueue(e)
  BY <1>1, <1>3 DEF CompleteQueue, NewTransport
<1>. QED
  BY <1>2, <1>4, <1>5 DEF ChannelInv

\* ChannelInv is inductive: frames repeat what was sent, and each queue starts
\* no later than the first message the other end misses.
THEOREM ChannelInvariant == Spec => []ChannelInv
<1>1. TypeOK /\ TypeOK' /\ ChannelInv /\ [Next]_vars => ChannelInv'
  <2>. SUFFICES ASSUME TypeOK, TypeOK', ChannelInv, [Next]_vars
                PROVE  ChannelInv'
    OBVIOUS
  <2>1. CASE Accept
    BY <2>1, AcceptSafe
  <2>2. CASE \E s \in Sockets : ClientOpens(s) \/ OpenFails(s)
    BY <2>2, ClientOpensSafe, OpenFailsSafe
  <2>3. CASE ClientNoticesDeadSocket
    BY <2>3, DisconnectSafe DEF ClientNoticesDeadSocket, End
  <2>4. CASE \E s \in Sockets, e \in End : LoseFrame(s, e)
    BY <2>4, LoseFrameSafe
  <2>5. ASSUME NEW e \in End, SocketCloses(e) \/ PendingMessageTimeout(e)
        PROVE  ChannelInv'
    BY <2>5, DisconnectSafe DEF SocketCloses, PendingMessageTimeout
  <2>6. ASSUME NEW e \in End, NEW m \in Msg, Send(e, m)
        PROVE  ChannelInv'
    BY <2>6, SendSafe
  <2>7. ASSUME NEW e \in End, AckTimeout(e) \/ Receive(e) \/ CloseEnd(e)
        PROVE  ChannelInv'
    BY <2>7, AckTimeoutSafe, ReceiveSafe, CloseEndSafe
  <2>8. CASE UNCHANGED vars
    BY <2>8 DEF vars, ChannelInv, HonestWire, HonestFrame, HonestReceiver,
                CompleteQueue, Genuine
  <2>. QED
    BY <2>1, <2>2, <2>3, <2>4, <2>5, <2>6, <2>7, <2>8 DEF Next
<1>. QED
  BY <1>1, InitInv, TypeCorrect, PTL DEF Spec

\* Each end hands over the messages of the other in order, each once.
THEOREM InOrderDelivery == Spec => []InOrderExactlyOnce
<1>1. ChannelInv => InOrderExactlyOnce
  BY DEF ChannelInv, HonestReceiver, InOrderExactlyOnce
<1>. QED
  BY <1>1, ChannelInvariant, PTL

\* A message the peer has not processed is still in the queue.
THEOREM QueueComplete == Spec => []NothingForgotten
<1>1. TypeOK /\ ChannelInv => NothingForgotten
  <2>. SUFFICES ASSUME TypeOK, ChannelInv, NEW e \in End, ~ep[e].isClosed,
                       NEW id \in ep[Peer(e)].lastProcessedId + 1 .. ep[e].lastSendId
                PROVE  \E i \in 1 .. Len(ep[e].pendingSends) :
                         ep[e].pendingSends[i] = [id |-> id, msg |-> sent[e][id]]
    BY DEF NothingForgotten
  <2>. DEFINE L == Len(ep[e].pendingSends)
              acked == ep[e].lastSendId - L
              n == ep[Peer(e)].lastProcessedId
  <2>1. L \in Nat /\ ep[e].lastSendId \in Nat /\ n \in Nat
    BY PeerType, LenProperties DEF TypeOK, Transport
  <2>2. /\ acked >= 0 /\ acked <= n
        /\ \A i \in 1 .. L :
             ep[e].pendingSends[i] = [id |-> acked + i, msg |-> sent[e][acked + i]]
    BY DEF ChannelInv, CompleteQueue
  <2>3. id \in n + 1 .. ep[e].lastSendId /\ acked = ep[e].lastSendId - L
    OBVIOUS
  <2>. HIDE DEF L, acked, n
  <2>4. id - acked \in 1 .. L /\ acked + (id - acked) = id
    BY <2>1, <2>2, <2>3
  <2>5. ep[e].pendingSends[id - acked] = [id |-> id, msg |-> sent[e][id]]
    BY <2>2, <2>4
  <2>. QED  BY <2>4, <2>5 DEF L
<1>. QED
  BY <1>1, ChannelInvariant, TypeCorrect, PTL

\* No end ever receives an ack for a message it did not send.
THEOREM AcksKnown == Spec => []NoAmnesia
<1>1. TypeOK /\ ChannelInv => NoAmnesia
  <2>. SUFFICES ASSUME TypeOK, ChannelInv, NEW s \in Sockets, NEW e \in End,
                       NEW i \in 1 .. Len(wire[s][e]), wire[s][e][i].type = "ACK"
                PROVE  ~IsAmnesia(ep[e], wire[s][e][i])
    BY DEF NoAmnesia
  <2>. DEFINE f == wire[s][e][i]
  <2>1. f.id <= ep[Peer(e)].lastProcessedId
    BY DEF ChannelInv, HonestWire, HonestFrame
  <2>2. f.id \in Nat
    <3>1. wire[s][e] \in Seq(Frame)
      BY DEF TypeOK
    <3>2. f \in Frame
      BY <3>1, ElementOfSeq
    <3>. QED  BY <3>2 DEF Frame, ContentFrame, AckFrame
  <2>3. /\ Peer(e) \in End /\ Peer(Peer(e)) = e
        /\ ep[Peer(e)].lastProcessedId \in Nat /\ ep[e].lastSendId \in Nat
    BY PeerType DEF TypeOK, Transport
  <2>4. ep[Peer(e)].lastProcessedId <= ep[e].lastSendId
    BY <2>3 DEF ChannelInv, HonestReceiver, CompleteQueue
  <2>. HIDE DEF f
  <2>. QED  BY <2>1, <2>2, <2>3, <2>4 DEF IsAmnesia, f
<1>. QED
  BY <1>1, ChannelInvariant, TypeCorrect, PTL

-----------------------------------------------------------------------------
(* AckChannel implements ReliableChannel: a step of the two transports      *)
(* sends, delivers or closes, or is invisible to the layers above.          *)

Closed == {e \in End : ep[e].isClosed}

ClosedNext == {e \in End : ep'[e].isClosed}

LEMMA ChannelVars ==
  /\ UNCHANGED <<sent, delivered>> /\ ClosedNext = Closed
       => UNCHANGED Channel!chanVars
  /\ \A e \in End : /\ Channel!Peer(e) = Peer(e)
                    /\ e \in Channel!End
  BY DEF Channel!chanVars, Channel!Peer, Channel!End, Peer, End, Closed, ClosedNext

\* The transport of one end changes, and stays open or stays closed.
LEMMA StaysOpen ==
  ASSUME TypeOK, NEW e \in End, NEW q, ep' = [ep EXCEPT ![e] = q],
         q.isClosed = ep[e].isClosed
  PROVE  ClosedNext = Closed
<1>1. \A d \in End : ep'[d] = IF d = e THEN q ELSE ep[d]
  BY DEF TypeOK
<1>2. \A d \in End : ep'[d].isClosed = ep[d].isClosed
  BY <1>1
<1>. QED
  BY <1>2 DEF Closed, ClosedNext

\* Losing or adopting a socket, or a timer, is invisible.
LEMMA SocketSteps ==
  ASSUME TypeOK, NEW e \in End, UNCHANGED <<sent, delivered>>,
         \/ ep' = ep
         \/ ep' = [ep EXCEPT ![e] = HandleTransportClose(@)]
         \/ ep' = [ep EXCEPT ![e] = HandleAckTimer(@)]
         \/ \E s \in Nat : ep' = [ep EXCEPT ![e] = Reconnect(@, s)]
  PROVE  UNCHANGED Channel!chanVars
<1>1. ep[e] \in Transport
  BY DEF TypeOK
<1>2. CASE ep' = ep
  <2>1. ep' = [ep EXCEPT ![e] = ep[e]]
    BY <1>2 DEF TypeOK
  <2>. QED  BY <2>1, StaysOpen, ChannelVars
<1>3. CASE ep' = [ep EXCEPT ![e] = HandleTransportClose(@)]
  <2>1. HandleTransportClose(ep[e]).isClosed = ep[e].isClosed
    BY <1>1 DEF HandleTransportClose, Transport
  <2>. QED  BY <1>3, <2>1, StaysOpen, ChannelVars
<1>4. CASE ep' = [ep EXCEPT ![e] = HandleAckTimer(@)]
  <2>1. HandleAckTimer(ep[e]).isClosed = ep[e].isClosed
    BY <1>1, TimersKeepQueues DEF SameQueues
  <2>. QED  BY <1>4, <2>1, StaysOpen, ChannelVars
<1>5. ASSUME NEW s \in Nat, ep' = [ep EXCEPT ![e] = Reconnect(@, s)]
      PROVE  UNCHANGED Channel!chanVars
  <2>1. Reconnect(ep[e], s).isClosed = ep[e].isClosed
    BY <1>1, SocketsKeepQueues DEF SameQueues
  <2>. QED  BY <1>5, <2>1, StaysOpen, ChannelVars
<1>. QED
  BY <1>2, <1>3, <1>4, <1>5

LEMMA SendRefines ==
  ASSUME TypeOK, NEW e \in End, NEW m \in Msg, Send(e, m)
  PROVE  Channel!ChanSend(e)
<1>1. ep[e] \in Transport /\ ~ep[e].isClosed
  BY DEF TypeOK, Send
<1>2. Enqueue(ep[e], m).isClosed = ep[e].isClosed
  BY <1>1, EnqueueFields
<1>3. ClosedNext = Closed
  BY <1>2, StaysOpen DEF Send
<1>4. e \notin Closed
  BY <1>1 DEF Closed
<1>. QED
  BY <1>3, <1>4 DEF Send, Channel!ChanSend, Closed, ClosedNext

LEMMA CloseRefines ==
  ASSUME TypeOK, NEW e \in End, CloseEnd(e)
  PROVE  Channel!ChanClose(e)
<1>1. ep[e] \in Transport /\ ~ep[e].isClosed
  BY DEF TypeOK, CloseEnd
<1>2. Close(ep[e]).isClosed
  BY <1>1, CloseEmptiesQueues
<1>3. \A d \in End : ep'[d] = IF d = e THEN Close(ep[e]) ELSE ep[d]
  BY DEF CloseEnd, TypeOK
<1>4. e \notin Closed /\ ClosedNext = Closed \cup {e}
  BY <1>1, <1>2, <1>3 DEF Closed, ClosedNext
<1>. QED
  BY <1>4 DEF CloseEnd, Channel!ChanClose, Closed, ClosedNext

\* A frame delivers the messages it completes, or nothing; an ack is never
\* taken for amnesia, so it closes nothing.
LEMMA ReceiveRefines ==
  ASSUME TypeOK, ChannelInv, ChannelInv', NEW e \in End, Receive(e)
  PROVE  Channel!ChanDeliver(e) \/ UNCHANGED Channel!chanVars
<1>. DEFINE q == ep[e]
            d == Peer(e)
<1>1. PICK i \in 1 .. Len(wire[q.socket][e]) :
        \/ wire[q.socket][e][i].type = "CONTENT" /\ ReceiveContent(e, wire[q.socket][e][i])
        \/ wire[q.socket][e][i].type = "ACK" /\ ReceiveAck(e, wire[q.socket][e][i])
  BY DEF Receive
<1>. DEFINE f == wire[q.socket][e][i]
<1>2. /\ IsOpen(q) /\ q \in Transport /\ sent' = sent
      /\ d \in End /\ sent[d] \in Seq(Msg) /\ Peer(d) = e
  BY PeerType DEF Receive, TypeOK
<1>3. /\ FrameFrom(sent[d], ep[d].lastProcessedId, f)
      /\ f.type = "CONTENT" => f \in ContentFrame
      /\ f.type = "ACK" => f \in AckFrame
  BY <1>2, TakenFrame, HonestWireUnfolded DEF ChannelInv, FrameTo
<1>4. e \notin Closed
  BY <1>2 DEF Closed, IsOpen
<1>. HIDE DEF f
<1>5. CASE f.type = "CONTENT" /\ ReceiveContent(e, f)
  <2>1. PICK n \in 0 .. MaxSend[d] :
          /\ ProcessesUpTo(q, f, n)
          /\ ep' = [ep EXCEPT ![e] = HandleContent(@, f, n)]
          /\ delivered' = [delivered EXCEPT ![e] = @ \o Processed(q, f, n)]
    BY <1>5 DEF ReceiveContent
  <2>2. /\ n \in Nat /\ f \in ContentFrame /\ IsMessage(sent[d], f.id, f.msg)
        /\ ReceiverOf(q, sent[d], delivered[e])
    BY <1>2, <1>3, <1>5, <2>1, MaxSendAssumption, HonestReceiverUnfolded
       DEF FrameFrom, ChannelInv
  <2>3. /\ n \in q.lastProcessedId .. Len(sent[d])
        /\ delivered[e] \o Processed(q, f, n) = SubSeq(sent[d], 1, n)
    BY <1>2, <2>1, <2>2, ProcessedContinues
  <2>4. HandleContent(q, f, n).isClosed = q.isClosed
    BY <1>2, <2>2, HandleContentFields
  <2>5. ClosedNext = Closed
    BY <2>1, <2>4, StaysOpen
  <2>6. delivered' = [delivered EXCEPT ![e] = SubSeq(sent[d], 1, n)]
    BY <2>1, <2>3
  <2>7. q.lastProcessedId \in 0 .. Len(sent[d]) /\ Len(sent[d]) \in Nat
    BY <1>2, <2>2, LenProperties DEF ReceiverOf, Transport
  <2>8. delivered[e] = SubSeq(sent[d], 1, q.lastProcessedId)
    BY <2>2 DEF ReceiverOf
  <2>9. Len(delivered[e]) = q.lastProcessedId
    <3>. DEFINE a == q.lastProcessedId
                s == sent[d]
    <3>1. a \in 0 .. Len(s) /\ Len(s) \in Nat /\ s \in Seq(Msg)
      BY <1>2, <2>7
    <3>. HIDE DEF a, s
    <3>2. \A j \in 1 .. a : s[j] \in Msg
      BY <3>1, ElementOfSeq
    <3>3. Len(SubSeq(s, 1, a)) = a
      BY <3>1, <3>2, SubSeqProperties
    <3>. QED  BY <2>8, <3>3 DEF a, s
  <2>10. CASE n = q.lastProcessedId
    <3>1. delivered' = delivered
      BY <2>6, <2>8, <2>10 DEF TypeOK
    <3>. QED  BY <1>2, <2>5, <3>1, ChannelVars
  <2>11. CASE n # q.lastProcessedId
    <3>1. n \in Len(delivered[e]) + 1 .. Len(sent[Channel!Peer(e)])
      BY <2>3, <2>7, <2>9, <2>11, ChannelVars
    <3>2. delivered' = [delivered EXCEPT ![e] = SubSeq(sent[Channel!Peer(e)], 1, n)]
      BY <2>6, ChannelVars
    <3>. QED
      BY <1>2, <1>4, <2>5, <3>1, <3>2 DEF Channel!ChanDeliver, Closed, ClosedNext
  <2>. QED  BY <2>10, <2>11
<1>6. CASE f.type = "ACK" /\ ReceiveAck(e, f)
  <2>1. PICK k \in 0 .. MaxSend[e] :
          /\ AcknowledgesFirst(q, f, k)
          /\ ep' = [ep EXCEPT ![e] = HandleAck(@, f, k)]
    BY <1>6 DEF ReceiveAck
  <2>2. ~IsAmnesia(q, f)
    <3>1. f.id \in Nat /\ f.id <= ep[d].lastProcessedId
      BY <1>3, <1>6 DEF FrameFrom, AckFrame
    <3>2. ep[d].lastProcessedId \in Nat /\ q.lastSendId \in Nat
      BY <1>2 DEF TypeOK, Transport
    <3>3. ep[d].lastProcessedId <= q.lastSendId
      BY <1>2 DEF ChannelInv, HonestReceiver, CompleteQueue
    <3>. HIDE DEF d, q
    <3>. QED  BY <3>1, <3>2, <3>3 DEF IsAmnesia
  <2>3. k \in 0 .. Len(q.pendingSends)
    BY <2>1 DEF AcknowledgesFirst
  <2>4. HandleAck(q, f, k).isClosed = q.isClosed
    BY <1>2, <2>2, <2>3, HandleAckFields
  <2>5. ClosedNext = Closed
    BY <2>1, <2>4, StaysOpen
  <2>6. delivered' = delivered
    BY <1>6 DEF ReceiveAck
  <2>. QED  BY <1>2, <2>5, <2>6, ChannelVars
<1>. QED
  BY <1>1, <1>5, <1>6 DEF f

\* Two transports joined by sockets that come and go are a reliable channel.
THEOREM RefinesChannel == Spec => ImplementsChannel
<1>1. Init => Channel!ChanInit
  <2>. SUFFICES ASSUME Init PROVE Channel!ChanInit
    OBVIOUS
  <2>1. {e \in End : ep[e].isClosed} = {}
    BY DEF Init, NewTransport
  <2>. QED  BY <2>1 DEF Init, Channel!ChanInit, Channel!End, End
<1>2. TypeOK /\ ChannelInv /\ ChannelInv' /\ [Next]_vars
        => [Channel!ChanNext]_(Channel!chanVars)
  <2>. SUFFICES ASSUME TypeOK, ChannelInv, ChannelInv', [Next]_vars
                PROVE  Channel!ChanNext \/ UNCHANGED Channel!chanVars
    OBVIOUS
  <2>1. ASSUME NEW e \in End,
               Channel!ChanSend(e) \/ Channel!ChanDeliver(e) \/ Channel!ChanClose(e)
        PROVE  Channel!ChanNext
    BY <2>1, ChannelVars DEF Channel!ChanNext
  <2>2. "server" \in End /\ "client" \in End
    BY DEF End
  <2>3. CASE Accept
    <3>1. accepted + 1 \in Nat
      BY DEF TypeOK
    <3>2. \E s \in Nat : ep' = [ep EXCEPT !["server"] = Reconnect(@, s)]
      BY <2>3, <3>1 DEF Accept
    <3>. QED  BY <2>2, <2>3, <3>2, SocketSteps DEF Accept
  <2>4. ASSUME NEW s \in Sockets, ClientOpens(s)
        PROVE  UNCHANGED Channel!chanVars
    <3>1. s \in Nat
      BY MaxSocketAssumption DEF Sockets
    <3>2. ep' = ep \/ ep' = [ep EXCEPT !["client"] = Reconnect(@, s)]
      BY <2>4 DEF ClientOpens
    <3>. QED  BY <2>2, <2>4, <3>1, <3>2, SocketSteps DEF ClientOpens
  <2>5. ASSUME ep' = ep, UNCHANGED <<sent, delivered>>
        PROVE  UNCHANGED Channel!chanVars
    BY <2>2, <2>5, SocketSteps
  <2>6. CASE \E s \in Sockets : ClientOpens(s) \/ OpenFails(s)
    BY <2>4, <2>5, <2>6 DEF OpenFails
  <2>7. ASSUME NEW e \in End, Disconnect(e)
        PROVE  UNCHANGED Channel!chanVars
    BY <2>7, SocketSteps DEF Disconnect
  <2>8. CASE ClientNoticesDeadSocket
    BY <2>2, <2>7, <2>8 DEF ClientNoticesDeadSocket
  <2>9. CASE \E s \in Sockets, e \in End : LoseFrame(s, e)
    BY <2>5, <2>9 DEF LoseFrame
  <2>10. ASSUME NEW e \in End, SocketCloses(e) \/ PendingMessageTimeout(e)
         PROVE  UNCHANGED Channel!chanVars
    BY <2>7, <2>10 DEF SocketCloses, PendingMessageTimeout
  <2>11. ASSUME NEW e \in End, NEW m \in Msg, Send(e, m)
         PROVE  Channel!ChanNext
    BY <2>1, <2>11, SendRefines
  <2>12. ASSUME NEW e \in End, AckTimeout(e)
         PROVE  UNCHANGED Channel!chanVars
    BY <2>12, SocketSteps DEF AckTimeout
  <2>13. ASSUME NEW e \in End, Receive(e)
         PROVE  Channel!ChanNext \/ UNCHANGED Channel!chanVars
    BY <2>1, <2>13, ReceiveRefines
  <2>14. ASSUME NEW e \in End, CloseEnd(e)
         PROVE  Channel!ChanNext
    BY <2>1, <2>14, CloseRefines
  <2>15. CASE UNCHANGED vars
    BY <2>5, <2>15 DEF vars
  <2>. QED
    BY <2>3, <2>6, <2>8, <2>9, <2>10, <2>11, <2>12, <2>13, <2>14, <2>15 DEF Next
<1>. QED
  BY <1>1, <1>2, TypeCorrect, ChannelInvariant, PTL
     DEF Spec, ImplementsChannel, Channel!ChanSpec

-----------------------------------------------------------------------------
(* Sockets that keep order: they may lose what follows the frame where they *)
(* break, and may repeat a frame, but skip none.                            *)

FifoSockets == "lose" \notin Faults /\ "reorder" \notin Faults

\* The frames on the socket of e reach up to the last message it sent, while
\* the other end may still read them.
Topped(e) ==
  LET s == ep[e].socket IN
  s \in Sockets /\ Reaches(s, Peer(e), ep, opening) =>
    \/ ep[e].lastSendId <= ep[Peer(e)].lastProcessedId
    \/ Contains(wire[s][Peer(e)], ep[e].lastSendId)

\* Nothing is parked because no socket shows an end a gap: every frame on it
\* follows one that comes before it there, or one already handed over.
Gapless ==
  /\ \A e \in End : ep[e].pendingReceives = {}
  /\ \A s \in Sockets, e \in End : Chained(wire[s][e], ep[e].lastProcessedId)
  /\ \A e \in End : Topped(e)

LEMMA EndPeer == \A e, d \in End : Peer(e) \in End /\ (d = e <=> d # Peer(e)) /\ Peer(Peer(e)) = e
  BY DEF End, Peer

\* The wires after a step, from what the sockets then carry.
LEMMA CarriedGapless ==
  ASSUME NEW w, wire' = Carried(w, ep', opening'),
         \A e \in End : ep'[e].pendingReceives = {},
         \A s \in Sockets, e \in End :
           Reaches(s, e, ep', opening') => Chained(w[s][e], ep'[e].lastProcessedId),
         \A e \in End :
           ep'[e].socket \in Sockets /\ Reaches(ep'[e].socket, Peer(e), ep', opening') =>
             \/ ep'[e].lastSendId <= ep'[Peer(e)].lastProcessedId
             \/ Contains(w[ep'[e].socket][Peer(e)], ep'[e].lastSendId)
  PROVE  Gapless'
<1>1. \A s \in Sockets, e \in End : wire'[s][e] =
        IF Reaches(s, e, ep', opening') THEN w[s][e] ELSE <<>>
  BY DEF Carried
<1>2. \A n : Chained(<<>>, n)
  BY EmptySeq DEF Chained
<1>3. \A s \in Sockets, e \in End : Chained(wire'[s][e], ep'[e].lastProcessedId)
  BY <1>1, <1>2
<1>4. \A e \in End : Topped(e)'
  <2>. SUFFICES ASSUME NEW e \in End, ep'[e].socket \in Sockets,
                       Reaches(ep'[e].socket, Peer(e), ep', opening')
                PROVE  \/ ep'[e].lastSendId <= ep'[Peer(e)].lastProcessedId
                       \/ Contains(wire'[ep'[e].socket][Peer(e)], ep'[e].lastSendId)
    BY DEF Topped
  <2>1. wire'[ep'[e].socket][Peer(e)] = w[ep'[e].socket][Peer(e)]
    BY <1>1, EndPeer
  <2>. QED  BY <2>1
<1>. QED
  BY <1>3, <1>4 DEF Gapless

\* A step of end e that reads nothing: it may put frames on a socket, if they
\* leave no gap there, and may change its socket.
LEMMA PutGapless ==
  ASSUME TypeOK, Gapless, NEW e \in End, NEW q,
         ep' = [ep EXCEPT ![e] = q],
         q.lastProcessedId = ep[e].lastProcessedId, q.pendingReceives = {},
         NEW s, NEW frames \in Seq(Frame),
         wire' = Carried(Put(wire, s, e, frames), ep', opening'),
         s \in Sockets /\ Reaches(s, Peer(e), ep', opening') =>
           Chained(wire[s][Peer(e)] \o frames, ep[Peer(e)].lastProcessedId),
         q.socket \in Sockets /\ Reaches(q.socket, Peer(e), ep', opening') =>
           \/ q.lastSendId <= ep[Peer(e)].lastProcessedId
           \/ Contains(Put(wire, s, e, frames)[q.socket][Peer(e)], q.lastSendId),
         LET t == ep[Peer(e)].socket IN
           t \in Sockets /\ Reaches(t, e, ep', opening') => Reaches(t, e, ep, opening)
  PROVE  Gapless'
<1>. DEFINE p == Peer(e)
            w == Put(wire, s, e, frames)
<1>1. p \in End /\ p # e /\ Peer(p) = e /\ \A d \in End : d = e \/ d = p
  BY EndPeer
<1>2. ep'[e] = q /\ ep'[p] = ep[p]
  BY <1>1 DEF TypeOK
<1>3. \A t \in Sockets, d \in End :
        w[t][d] = IF t = s /\ d = p THEN wire[t][d] \o frames ELSE wire[t][d]
  BY DEF Put
<1>4. \A d \in End : ep'[d].lastProcessedId = ep[d].lastProcessedId
  BY <1>1, <1>2
<1>5. \A d \in End : ep'[d].pendingReceives = {}
  BY <1>1, <1>2 DEF Gapless
<1>6. ASSUME NEW t \in Sockets, NEW d \in End, Reaches(t, d, ep', opening')
      PROVE  Chained(w[t][d], ep'[d].lastProcessedId)
  <2>. HIDE DEF w
  <2>1. CASE t = s /\ d = p
    BY <1>2, <1>3, <1>6, <2>1
  <2>2. CASE ~(t = s /\ d = p)
    BY <1>3, <1>4, <2>2 DEF Gapless
  <2>. QED  BY <2>1, <2>2
<1>7. ASSUME NEW d \in End, ep'[d].socket \in Sockets, Reaches(ep'[d].socket, Peer(d), ep', opening')
      PROVE  \/ ep'[d].lastSendId <= ep'[Peer(d)].lastProcessedId
             \/ Contains(w[ep'[d].socket][Peer(d)], ep'[d].lastSendId)
  <2>1. CASE d = e
    BY <1>2, <1>7, <2>1
  <2>2. CASE d = p
    <3>1. ep[p].socket \in Sockets /\ Reaches(ep[p].socket, e, ep, opening)
      BY <1>1, <1>2, <1>7, <2>2
    <3>2. \/ ep[p].lastSendId <= ep[e].lastProcessedId
          \/ Contains(wire[ep[p].socket][e], ep[p].lastSendId)
      BY <1>1, <3>1 DEF Gapless, Topped
    <3>3. w[ep[p].socket][e] = wire[ep[p].socket][e]
      BY <1>1, <1>3, <3>1
    <3>. HIDE DEF w, p
    <3>. QED  BY <1>1, <1>2, <1>4, <2>2, <3>2, <3>3
  <2>. QED  BY <1>1, <2>1, <2>2
<1>8. wire' = Carried(w, ep', opening')
  OBVIOUS
<1>. HIDE DEF w
<1>. QED
  BY <1>5, <1>6, <1>7, <1>8, CarriedGapless

\* A step that puts nothing on a socket and adopts none.
LEMMA SilentGapless ==
  ASSUME TypeOK, Gapless, NEW e \in End, NEW q,
         ep' = [ep EXCEPT ![e] = q],
         q.lastProcessedId = ep[e].lastProcessedId, q.pendingReceives = {},
         q.lastSendId = ep[e].lastSendId, q.socket \in {ep[e].socket, NoSocket},
         opening' \subseteq opening,
         wire' = Carried(wire, ep', opening')
  PROVE  Gapless'
<1>. DEFINE p == Peer(e)
<1>1. p \in End /\ p # e /\ Peer(p) = e
  BY EndPeer
<1>2. ep'[e] = q /\ ep'[p] = ep[p]
  BY <1>1 DEF TypeOK
<1>3. wire \in Wires /\ <<>> \in Seq(Frame) /\ NoSocket \notin Sockets
  BY EmptySeq DEF TypeOK, Wires, NoSocket, Sockets
<1>4. Put(wire, NoSocket, e, <<>>) = wire
  BY <1>3, PutNothing
<1>5. wire' = Carried(Put(wire, NoSocket, e, <<>>), ep', opening')
  BY <1>4
<1>6. \A t \in Sockets : /\ Reaches(t, p, ep', opening') => Reaches(t, p, ep, opening)
                         /\ Reaches(t, e, ep', opening') => Reaches(t, e, ep, opening)
  BY <1>2, <1>3 DEF Reaches
<1>7. ASSUME q.socket \in Sockets, Reaches(q.socket, p, ep', opening')
      PROVE  q.lastSendId <= ep[p].lastProcessedId \/ Contains(wire[q.socket][p], q.lastSendId)
  <2>1. q.socket = ep[e].socket
    BY <1>3, <1>7
  <2>. QED  BY <1>6, <1>7, <2>1 DEF Gapless, Topped
<1>. QED
  BY <1>3, <1>4, <1>5, <1>6, <1>7, PutGapless, Zenon

\* The queue of an end that is open, as the lemmas about sockets want it.
LEMMA QueueOnSockets ==
  ASSUME TypeOK, ChannelInv, NEW e \in End
  PROVE  /\ QueueNumbered(ep[e])
         /\ ~ep[e].isClosed =>
              ep[e].lastSendId - Len(ep[e].pendingSends) <= ep[Peer(e)].lastProcessedId
<1>. DEFINE N == Len(ep[e].pendingSends)
<1>1. N \in Nat /\ ep[e].lastSendId \in Nat
  BY LenProperties DEF TypeOK, Transport
<1>2. CompleteQueue(e)
  BY DEF ChannelInv
<1>3. ep[e].lastSendId - N >= 0 /\ (~ep[e].isClosed => ep[e].lastSendId - N <= ep[Peer(e)].lastProcessedId)
  BY <1>2 DEF CompleteQueue
<1>4. \A i \in 1 .. N : ep[e].pendingSends[i].id = ep[e].lastSendId - N + i
  BY <1>2, QueueEntry
<1>5. N <= ep[e].lastSendId
  <2>. HIDE DEF N
  <2>. QED  BY <1>1, <1>3
<1>. QED
  BY <1>3, <1>4, <1>5 DEF QueueNumbered

\* An end adopts a socket: what it resends leaves no gap for the other end.
LEMMA AdoptGapless ==
  ASSUME TypeOK, ChannelInv, Gapless, NEW e \in End, NEW s \in Sockets,
         ~ep[e].isClosed,
         ep' = [ep EXCEPT ![e] = Reconnect(@, s)],
         wire' = Carried(Put(wire, s, e, ReconnectFrames(ep[e])), ep', opening'),
         LET t == ep[Peer(e)].socket IN
           t \in Sockets /\ Reaches(t, e, ep', opening') => Reaches(t, e, ep, opening)
  PROVE  Gapless'
<1>. DEFINE p == Peer(e)
            n == ep[p].lastProcessedId
            frames == ResendFrames(ep[e])
            q == Reconnect(ep[e], s)
            w == Put(wire, s, e, frames)
<1>1. ep[e] \in Transport /\ p \in End /\ s \in Nat
  BY PeerType, MaxSocketAssumption DEF TypeOK, Sockets
<1>2. n \in Nat /\ wire[s][p] \in Seq(Frame)
  BY <1>1 DEF TypeOK, Transport
<1>3. ReconnectFrames(ep[e]) = frames
  BY DEF ReconnectFrames
<1>4. /\ frames \in Seq(Frame) /\ Chained(frames, n)
      /\ ep[e].lastSendId <= n \/ Contains(frames, ep[e].lastSendId)
  BY <1>1, <1>2, QueueOnSockets, ResendChained
<1>5. SameQueues(q, ep[e]) /\ q.socket = s
  BY <1>1, SocketsKeepQueues, ReconnectSocket
<1>6. /\ q.lastProcessedId = ep[e].lastProcessedId /\ q.pendingReceives = {}
      /\ q.lastSendId = ep[e].lastSendId
  BY <1>5 DEF SameQueues, Gapless
<1>7. Chained(wire[s][p], n)
  BY <1>1 DEF Gapless
<1>. HIDE DEF frames, q
<1>8. /\ Chained(wire[s][p] \o frames, n)
      /\ \A id : Contains(frames, id) => Contains(wire[s][p] \o frames, id)
  <2>1. \A i \in 1 .. Len(frames) : frames[i].type = "CONTENT" =>
          \/ frames[i].id <= n + 1
          \/ \E j \in 1 .. i - 1 : frames[j].type = "CONTENT" /\ frames[j].id = frames[i].id - 1
    BY <1>4 DEF Chained
  <2>. HIDE DEF n, p
  <2>. QED  BY <1>2, <1>4, <1>7, <2>1, ChainedConcat
<1>9. w[s][p] = wire[s][p] \o frames
  BY <1>1 DEF Put
<1>10. q.lastSendId <= n \/ Contains(w[s][p], q.lastSendId)
  BY <1>4, <1>6, <1>8, <1>9
<1>11. ep' = [ep EXCEPT ![e] = q]
  BY DEF q
<1>12. wire' = Carried(Put(wire, s, e, frames), ep', opening')
  BY <1>3
<1>13. \/ q.lastSendId <= n
       \/ Contains(Put(wire, s, e, frames)[q.socket][p], q.lastSendId)
  BY <1>5, <1>10
<1>. HIDE DEF w
<1>. QED
  BY <1>4, <1>6, <1>8, <1>11, <1>12, <1>13, PutGapless, Zenon

LEMMA AcceptGapless ==
  ASSUME TypeOK, ChannelInv, Gapless, Accept
  PROVE  Gapless'
<1>. DEFINE s == accepted + 1
            q == ep["server"]
<1>1. /\ "server" \in End /\ "client" \in End
      /\ Peer("server") = "client" /\ Peer("client") = "server"
  BY DEF End, Peer
<1>2. /\ s \in Sockets /\ accepted \in Nat /\ opening' = opening \cup {s}
      /\ ep' = [ep EXCEPT !["server"] = Reconnect(@, s)]
      /\ wire' = Carried(Put(wire, s, "server", ReconnectFrames(q)), ep', opening')
  BY DEF Accept, TypeOK
<1>3. ep["server"].socket # s /\ ep["client"].socket # s
  BY <1>1, <1>2 DEF TypeOK
<1>4. CASE ~q.isClosed
  <2>1. ep'["server"].socket = s
    <3>1. q \in Transport /\ s \in Nat
      BY <1>1, <1>2 DEF TypeOK
    <3>. QED  BY <1>1, <1>2, <1>4, <3>1, ReconnectSocket DEF TypeOK
  <2>2. ~Reaches(ep["client"].socket, "server", ep', opening')
    BY <1>3, <2>1 DEF Reaches
  <2>. HIDE DEF s
  <2>. QED  BY <1>1, <1>2, <1>4, <2>2, AdoptGapless
<1>5. CASE q.isClosed
  <2>1. ep' = [ep EXCEPT !["server"] = q]
    BY <1>2, <1>5 DEF Reconnect
  <2>2. /\ ep' = ep /\ ReconnectFrames(q) = <<>>
    BY <1>5, <2>1 DEF ReconnectFrames, TypeOK
  <2>3. wire' = Carried(wire, ep', opening') /\ wire \in Wires
    BY <1>1, <1>2, <2>2, PutNothing DEF TypeOK, Wires
  <2>4. ASSUME NEW t \in Sockets, Reaches(t, "client", ep', opening'), t # s
        PROVE  Reaches(t, "client", ep, opening)
    BY <1>2, <2>2, <2>4 DEF Reaches
  <2>5. ASSUME NEW t \in Sockets, Reaches(t, "server", ep', opening')
        PROVE  Reaches(t, "server", ep, opening)
    BY <2>2, <2>5 DEF Reaches
  <2>6. \A e \in End : e = "client" \/ e = "server"
    BY DEF End
  <2>7. ASSUME NEW e \in End, ep'[e].socket \in Sockets, Reaches(ep'[e].socket, Peer(e), ep', opening')
        PROVE  \/ ep'[e].lastSendId <= ep'[Peer(e)].lastProcessedId
               \/ Contains(wire[ep'[e].socket][Peer(e)], ep'[e].lastSendId)
    <3>1. ep[e].socket # s
      BY <1>3, <2>6, <1>2
    <3>2. Reaches(ep[e].socket, Peer(e), ep, opening) /\ ep[e].socket \in Sockets
      BY <1>1, <2>2, <2>4, <2>5, <2>6, <2>7, <3>1
    <3>. QED  BY <2>2, <3>2 DEF Gapless, Topped
  <2>8. /\ \A e \in End : ep'[e].pendingReceives = {}
        /\ \A t \in Sockets, e \in End : Chained(wire[t][e], ep'[e].lastProcessedId)
    BY <2>2 DEF Gapless
  <2>. QED  BY <2>3, <2>7, <2>8, CarriedGapless
<1>. QED
  BY <1>4, <1>5

LEMMA ClientOpensGapless ==
  ASSUME TypeOK, ChannelInv, Gapless, NEW s \in Sockets, ClientOpens(s)
  PROVE  Gapless'
<1>. DEFINE q == ep["client"]
<1>1. /\ "server" \in End /\ "client" \in End
      /\ Peer("server") = "client" /\ Peer("client") = "server"
      /\ wire \in Wires /\ s \in Nat
  BY MaxSocketAssumption DEF End, Peer, TypeOK, Wires, Sockets
<1>2. s \in opening /\ opening' \subseteq opening
  BY DEF ClientOpens
<1>3. CASE IsDisconnected(q)
  <2>1. /\ ep' = [ep EXCEPT !["client"] = Reconnect(@, s)] /\ ~q.isClosed
        /\ wire' = Carried(Put(wire, s, "client", ReconnectFrames(q)), ep', opening')
    BY <1>3 DEF ClientOpens, IsDisconnected
  <2>2. ep'["client"].socket = s
    <3>1. q \in Transport
      BY <1>1 DEF TypeOK
    <3>. QED  BY <1>1, <2>1, <3>1, ReconnectSocket DEF TypeOK
  <2>3. \A t : Reaches(t, "client", ep', opening') => Reaches(t, "client", ep, opening)
    BY <1>2, <2>2 DEF Reaches
  <2>. QED  BY <1>1, <2>1, <2>3, AdoptGapless
<1>4. CASE ~IsDisconnected(q)
  <2>1. /\ ep' = [ep EXCEPT !["client"] = q]
        /\ wire' = Carried(Put(wire, s, "client", <<>>), ep', opening')
    BY <1>4 DEF ClientOpens, TypeOK
  <2>2. wire' = Carried(wire, ep', opening')
    BY <1>1, <2>1, PutNothing
  <2>3. q.pendingReceives = {}
    BY <1>1 DEF Gapless
  <2>. QED  BY <1>1, <1>2, <2>1, <2>2, <2>3, SilentGapless
<1>. QED
  BY <1>3, <1>4

LEMMA LoseSocketGapless ==
  ASSUME TypeOK, Gapless, NEW e \in End, Disconnect(e) \/ CloseEnd(e)
  PROVE  Gapless'
<1>1. ep[e] \in Transport /\ ep[e].pendingReceives = {}
  BY DEF TypeOK, Gapless
<1>2. CASE Disconnect(e)
  <2>. DEFINE q == HandleTransportClose(ep[e])
  <2>1. SameQueues(q, ep[e]) /\ q.socket = NoSocket
    BY <1>1, LoseSocketType, SocketsKeepQueues, MaxSocketAssumption
  <2>2. /\ ep' = [ep EXCEPT ![e] = q] /\ opening' = opening
        /\ wire' = Carried(wire, ep', opening')
    BY <1>2 DEF Disconnect
  <2>. HIDE DEF q
  <2>. QED  BY <1>1, <2>1, <2>2, SilentGapless DEF SameQueues
<1>3. CASE CloseEnd(e)
  <2>. DEFINE q == Close(ep[e])
  <2>1. /\ q.lastProcessedId = ep[e].lastProcessedId /\ q.lastSendId = ep[e].lastSendId
        /\ q.pendingReceives = {} /\ q.socket \in {ep[e].socket, NoSocket}
    BY <1>1, <1>3, CloseEmptiesQueues, LoseSocketType DEF CloseEnd
  <2>2. /\ ep' = [ep EXCEPT ![e] = q] /\ opening' = opening
        /\ wire' = Carried(wire, ep', opening')
    BY <1>3 DEF CloseEnd
  <2>. HIDE DEF q
  <2>. QED  BY <1>1, <2>1, <2>2, SilentGapless
<1>. QED
  BY <1>2, <1>3

LEMMA OpenFailsGapless ==
  ASSUME TypeOK, Gapless, NEW s \in Sockets, OpenFails(s)
  PROVE  Gapless'
<1>1. "client" \in End /\ ep' = [ep EXCEPT !["client"] = ep["client"]]
  BY DEF End, OpenFails, TypeOK
<1>2. /\ opening' \subseteq opening /\ wire' = Carried(wire, ep', opening')
      /\ ep["client"].pendingReceives = {}
  BY <1>1 DEF OpenFails, Gapless
<1>. QED
  BY <1>1, <1>2, SilentGapless

LEMMA AckTimeoutGapless ==
  ASSUME TypeOK, Gapless, NEW e \in End, AckTimeout(e)
  PROVE  Gapless'
<1>. DEFINE p == Peer(e)
            s == ep[e].socket
            n == ep[p].lastProcessedId
            frames == AckFrames(ep[e])
            q == HandleAckTimer(ep[e])
            w == Put(wire, s, e, frames)
<1>1. ep[e] \in Transport /\ p \in End /\ p # e
  BY EndPeer DEF TypeOK
<1>2. SameQueues(q, ep[e]) /\ q.socket = s
  BY <1>1, TimersKeepQueues DEF HandleAckTimer, Transport
<1>3. /\ ep' = [ep EXCEPT ![e] = q] /\ opening' = opening
      /\ wire' = Carried(Put(wire, s, e, frames), ep', opening')
  BY DEF AckTimeout
<1>4. q.lastProcessedId = ep[e].lastProcessedId /\ q.pendingReceives = {} /\ q.lastSendId = ep[e].lastSendId
  BY <1>2 DEF SameQueues, Gapless
<1>5. /\ frames \in Seq(Frame)
      /\ \A i \in 1 .. Len(frames) : frames[i].type # "CONTENT"
  <2>1. frames \in Seq(Frame)
    BY <1>1, FramesType
  <2>2. CASE ep[e].lastProcessedId > 0
    <3>1. frames = <<AckOf(ep[e].lastProcessedId)>>
      BY <2>2 DEF AckFrames
    <3>2. Len(frames) = 1 /\ frames[1].type # "CONTENT"
      BY <3>1 DEF AckOf
    <3>3. \A i \in 1 .. Len(frames) : i = 1
      BY <3>2
    <3>. QED  BY <2>1, <3>2, <3>3
  <2>3. CASE ~(ep[e].lastProcessedId > 0)
    BY <2>1, <2>3, EmptySeq DEF AckFrames
  <2>. QED  BY <2>2, <2>3
<1>6. \A t : /\ Reaches(t, p, ep', opening') => Reaches(t, p, ep, opening)
             /\ Reaches(t, e, ep', opening') => Reaches(t, e, ep, opening)
  BY <1>1, <1>2, <1>3 DEF Reaches, TypeOK
<1>. HIDE DEF frames, q
<1>7. ASSUME s \in Sockets
      PROVE  /\ Chained(wire[s][p] \o frames, n)
             /\ \A id : Contains(wire[s][p], id) => Contains(w[s][p], id)
  <2>1. wire[s][p] \in Seq(Frame) /\ Chained(wire[s][p], n) /\ n \in Nat
    BY <1>1, <1>7 DEF TypeOK, Transport, Gapless
  <2>2. w[s][p] = wire[s][p] \o frames
    BY <1>1, <1>7 DEF Put
  <2>. HIDE DEF n, p, s, w
  <2>. QED  BY <1>5, <2>1, <2>2, ChainedConcat
<1>8. ASSUME q.socket \in Sockets, Reaches(q.socket, p, ep', opening')
      PROVE  \/ q.lastSendId <= n
             \/ Contains(Put(wire, s, e, frames)[q.socket][p], q.lastSendId)
  <2>1. s \in Sockets /\ Reaches(s, p, ep, opening)
    BY <1>2, <1>6, <1>8
  <2>2. ep[e].lastSendId <= n \/ Contains(wire[s][p], ep[e].lastSendId)
    BY <2>1 DEF Gapless, Topped
  <2>. QED  BY <1>2, <1>4, <1>7, <2>1, <2>2
<1>. QED
  BY <1>3, <1>4, <1>5, <1>6, <1>7, <1>8, PutGapless, Zenon

\* What was sent last precedes a new message on the socket, or was handed over.
LEMMA SendGapless ==
  ASSUME TypeOK, Gapless, NEW e \in End, NEW m \in Msg, Send(e, m)
  PROVE  Gapless'
<1>. DEFINE p == Peer(e)
            s == ep[e].socket
            n == ep[p].lastProcessedId
            id == ep[e].lastSendId
            frames == SendFrames(ep[e], m)
            g == ContentOf(NextNumbered(ep[e], m))
            q == Enqueue(ep[e], m)
            w == Put(wire, s, e, frames)
<1>1. ep[e] \in Transport /\ p \in End /\ p # e /\ ~ep[e].isClosed /\ id \in Nat
  BY EndPeer DEF TypeOK, Send, Transport
<1>2. /\ q.lastSendId = id + 1 /\ q.lastProcessedId = ep[e].lastProcessedId
      /\ q.pendingReceives = {} /\ q.socket = s
  BY <1>1, EnqueueFields, EnqueueType DEF Gapless
<1>3. /\ ep' = [ep EXCEPT ![e] = q] /\ opening' = opening
      /\ wire' = Carried(Put(wire, s, e, frames), ep', opening')
  BY DEF Send
<1>4. frames \in Seq(Frame)
  BY <1>1, FramesType
<1>5. \A t : /\ Reaches(t, p, ep', opening') => Reaches(t, p, ep, opening)
             /\ Reaches(t, e, ep', opening') => Reaches(t, e, ep, opening)
  BY <1>1, <1>2, <1>3 DEF Reaches, TypeOK
<1>6. g.type = "CONTENT" /\ g.id = id + 1
  BY DEF ContentOf, NextNumbered
<1>7. s \in Sockets => frames = <<g>>
  BY <1>1 DEF SendFrames, IsOpen, NoSocket, Sockets
<1>. HIDE DEF frames, q, g
<1>8. ASSUME s \in Sockets, Reaches(s, p, ep', opening')
      PROVE  /\ Chained(wire[s][p] \o frames, n)
             /\ Contains(w[s][p], id + 1)
  <2>1. wire[s][p] \in Seq(Frame) /\ Chained(wire[s][p], n) /\ n \in Nat
    BY <1>1, <1>8 DEF TypeOK, Transport, Gapless
  <2>2. w[s][p] = wire[s][p] \o frames
    BY <1>1, <1>8 DEF Put
  <2>3. id <= n \/ Contains(wire[s][p], id)
    BY <1>5, <1>8 DEF Gapless, Topped
  <2>4. /\ Len(frames) = 1 /\ frames[1] = g /\ 1 \in 1 .. Len(frames)
        /\ \A i \in 1 .. Len(frames) : i = 1
    <3>1. frames = <<g>>
      BY <1>7, <1>8
    <3>2. Len(<<g>>) = 1 /\ <<g>>[1] = g
      OBVIOUS
    <3>. QED  BY <3>1, <3>2
  <2>5. Contains(frames, id + 1)
    BY <1>6, <2>4 DEF Contains
  <2>. HIDE DEF n, p, s, w, id
  <2>6. \A i \in 1 .. Len(frames) : frames[i].type = "CONTENT" =>
          frames[i].id <= n + 1 \/ Contains(wire[s][p], frames[i].id - 1)
    <3>1. g.id <= n + 1 \/ Contains(wire[s][p], g.id - 1)
      <4>1. g.id - 1 = id /\ (id <= n => g.id <= n + 1)
        BY <1>1, <1>6, <2>1 DEF id
      <4>. QED  BY <2>3, <4>1
    <3>. QED  BY <2>4, <3>1
  <2>. QED  BY <1>4, <2>1, <2>2, <2>5, <2>6, ChainedConcat
<1>9. ASSUME q.socket \in Sockets, Reaches(q.socket, p, ep', opening')
      PROVE  Contains(Put(wire, s, e, frames)[q.socket][p], q.lastSendId)
  BY <1>2, <1>8, <1>9
<1>. QED
  BY <1>2, <1>3, <1>4, <1>5, <1>8, <1>9, PutGapless, Zenon

\* A step in which e reads the next frame of its socket, or a copy of it.
LEMMA ReadGapless ==
  ASSUME TypeOK, Gapless, NEW e \in End, NEW q \in Transport, IsOpen(ep[e]),
         1 \in 1 .. Len(wire[ep[e].socket][e]),
         ep' = [ep EXCEPT ![e] = q], opening' = opening,
         \/ wire' = Carried(Took(wire, ep[e].socket, e, 1), ep', opening')
         \/ wire' = Carried(wire, ep', opening'),
         ep[e].lastProcessedId <= q.lastProcessedId,
         wire[ep[e].socket][e][1].type = "CONTENT" =>
           wire[ep[e].socket][e][1].id <= q.lastProcessedId,
         q.pendingReceives = {}, q.lastSendId = ep[e].lastSendId,
         q.socket \in {ep[e].socket, NoSocket}
  PROVE  Gapless'
<1>. DEFINE p == Peer(e)
            s == ep[e].socket
            n == ep[e].lastProcessedId
            m == q.lastProcessedId
<1>1. p \in End /\ p # e /\ Peer(p) = e /\ \A d \in End : d = e \/ d = p
  BY EndPeer
<1>2. ep'[e] = q /\ ep'[p] = ep[p] /\ n \in Nat /\ m \in Nat /\ n <= m
  BY <1>1 DEF TypeOK, Transport
<1>3. s \in Sockets /\ wire \in Wires /\ NoSocket \notin Sockets
  BY TakenFrame DEF TypeOK, Wires, Sockets, NoSocket
<1>4. PICK w : /\ wire' = Carried(w, ep', opening')
               /\ w = Took(wire, s, e, 1) \/ w = wire
  OBVIOUS
<1>5. \A t \in Sockets : wire[t][e] \in Seq(Frame) /\ Chained(wire[t][e], n)
  BY <1>3 DEF Gapless, Wires
<1>6. /\ \A t \in Sockets : w[t][p] = wire[t][p]
      /\ \A t \in Sockets : /\ Chained(w[t][e], m)
                            /\ \A id \in Nat : Contains(wire[t][e], id) =>
                                 id <= m \/ Contains(w[t][e], id)
  <2>1. CASE w = wire
    BY <1>2, <1>5, <2>1, ChainedMore
  <2>2. CASE w = Took(wire, s, e, 1)
    <3>1. 1 \in 1 .. Len(wire[s][e]) /\ (wire[s][e][1].type = "CONTENT" => wire[s][e][1].id <= m)
      OBVIOUS
    <3>. HIDE DEF s, n, m
    <3>2. /\ \A t \in Sockets, d \in End : ~(t = s /\ d = e) => w[t][d] = wire[t][d]
          /\ Len(w[s][e]) = Len(wire[s][e]) - 1
          /\ \A i \in 1 .. Len(wire[s][e]) - 1 : w[s][e][i] = wire[s][e][i + 1]
      BY <1>3, <2>2, <3>1, TookFirst
    <3>3. /\ Chained(w[s][e], m)
          /\ \A id \in Nat : Contains(wire[s][e], id) => id <= m \/ Contains(w[s][e], id)
      BY <1>2, <1>3, <1>5, <3>1, <3>2, ChainedTail
    <3>4. \A t \in Sockets : t # s => Chained(wire[t][e], m) /\ w[t][e] = wire[t][e]
      BY <1>2, <1>5, <3>2, ChainedMore
    <3>. QED  BY <1>1, <3>2, <3>3, <3>4
  <2>. QED  BY <1>4, <2>1, <2>2
<1>7. \A d \in End : ep'[d].pendingReceives = {}
  BY <1>1, <1>2 DEF Gapless
<1>8. \A t \in Sockets, d \in End : Chained(w[t][d], ep'[d].lastProcessedId)
  BY <1>1, <1>2, <1>6 DEF Gapless
<1>9. \A t \in Sockets, d \in End : Reaches(t, d, ep', opening') => Reaches(t, d, ep, opening)
  BY <1>1, <1>2, <1>3 DEF Reaches
<1>10. ASSUME NEW d \in End, ep'[d].socket \in Sockets, Reaches(ep'[d].socket, Peer(d), ep', opening')
       PROVE  \/ ep'[d].lastSendId <= ep'[Peer(d)].lastProcessedId
              \/ Contains(w[ep'[d].socket][Peer(d)], ep'[d].lastSendId)
  <2>1. /\ ep'[d].socket = ep[d].socket /\ ep'[d].lastSendId = ep[d].lastSendId
        /\ ep[d].socket \in Sockets /\ ep[d].lastSendId \in Nat
    BY <1>1, <1>2, <1>3, <1>10 DEF TypeOK, Transport
  <2>2. \/ ep[d].lastSendId <= ep[Peer(d)].lastProcessedId
        \/ Contains(wire[ep[d].socket][Peer(d)], ep[d].lastSendId)
    BY <1>1, <1>9, <1>10, <2>1 DEF Gapless, Topped
  <2>3. CASE d = e
    BY <1>1, <1>2, <1>6, <2>1, <2>2, <2>3
  <2>4. CASE d = p
    <3>. HIDE DEF m, n, p
    <3>1. ep'[e].lastProcessedId = m /\ ep[e].lastProcessedId = n
      BY <1>2 DEF m, n
    <3>. QED  BY <1>1, <1>2, <1>6, <2>1, <2>2, <2>4, <3>1
  <2>. QED  BY <1>1, <2>3, <2>4
<1>. QED
  BY <1>4, <1>7, <1>8, <1>10, CarriedGapless

LEMMA ReceiveGapless ==
  ASSUME FifoSockets, TypeOK, Gapless, NEW e \in End, Receive(e)
  PROVE  Gapless'
<1>. DEFINE s == ep[e].socket
            f == wire[s][e][1]
<1>1. /\ 1 \in 1 .. Len(wire[s][e])
      /\ \/ f.type = "CONTENT" /\ ReceiveContent(e, f)
         \/ f.type = "ACK" /\ ReceiveAck(e, f)
      /\ \/ wire' = Carried(Took(wire, s, e, 1), ep', opening')
         \/ wire' = Carried(wire, ep', opening')
      /\ opening' = opening /\ IsOpen(ep[e])
  BY DEF Receive, FifoSockets
<1>2. ep[e] \in Transport /\ ep[e].pendingReceives = {} /\ s \in Sockets
  BY <1>1, TakenFrame DEF TypeOK, Gapless
<1>3. CASE f.type = "CONTENT" /\ ReceiveContent(e, f)
  <2>1. f \in ContentFrame
    BY <1>1, <1>3, TakenFrame
  <2>2. f.id <= ep[e].lastProcessedId + 1
    <3>1. Chained(wire[s][e], ep[e].lastProcessedId)
      BY <1>2 DEF Gapless
    <3>2. \A j : j \notin 1 .. 1 - 1
      OBVIOUS
    <3>. QED  BY <1>1, <1>3, <3>1, <3>2 DEF Chained
  <2>3. f.type = "CONTENT" => wire[s][e][1].id = f.id
    OBVIOUS
  <2>. HIDE DEF f
  <2>4. MaxSend[Peer(e)] \in Nat
    BY MaxSendAssumption, PeerType
  <2>5. PICK n \in 0 .. MaxSend[Peer(e)] :
          /\ ProcessesUpTo(ep[e], f, n)
          /\ ep' = [ep EXCEPT ![e] = HandleContent(@, f, n)]
    BY <1>3 DEF ReceiveContent
  <2>. DEFINE q == HandleContent(ep[e], f, n)
  <2>6. n \in Nat
    BY <2>4
  <2>7. /\ q \in Transport /\ q.socket = s /\ q.lastProcessedId = n
        /\ q.pendingReceives = {r \in Received(ep[e], f) : r.id > n}
        /\ q.lastSendId = ep[e].lastSendId
    BY <1>2, <2>1, <2>6, HandleContentType, HandleContentFields
  <2>8. q.pendingReceives = {} /\ n >= f.id /\ n >= ep[e].lastProcessedId
    <3>1. n >= ep[e].lastProcessedId
      BY <2>5 DEF ProcessesUpTo
    <3>. HIDE DEF q
    <3>. QED  BY <1>2, <2>1, <2>2, <2>5, <2>6, <2>7, <3>1, InOrderContent
  <2>9. ep' = [ep EXCEPT ![e] = q]
    BY <2>5
  <2>10. ep[e].lastProcessedId <= q.lastProcessedId /\ f.id <= q.lastProcessedId
    <3>1. n >= f.id /\ n >= ep[e].lastProcessedId /\ q.lastProcessedId = n
      BY <2>7, <2>8
    <3>2. f.id \in Nat /\ ep[e].lastProcessedId \in Nat
      BY <1>2, <2>1 DEF ContentFrame, Transport
    <3>. HIDE DEF q
    <3>. QED  BY <2>6, <3>1, <3>2
  <2>. HIDE DEF q
  <2>11. wire[s][e][1].type = "CONTENT" => wire[s][e][1].id <= q.lastProcessedId
    BY <2>10 DEF f
  <2>. QED  BY <1>1, <2>7, <2>8, <2>9, <2>10, <2>11, ReadGapless
<1>4. CASE f.type = "ACK" /\ ReceiveAck(e, f)
  <2>1. f \in AckFrame /\ f.type # "CONTENT"
    BY <1>1, <1>4, TakenFrame
  <2>2. PICK k \in 0 .. MaxSend[e] :
          /\ AcknowledgesFirst(ep[e], f, k)
          /\ ep' = [ep EXCEPT ![e] = HandleAck(@, f, k)]
    BY <1>4 DEF ReceiveAck
  <2>. DEFINE q == HandleAck(ep[e], f, k)
  <2>3. k \in 0 .. Len(ep[e].pendingSends)
    BY <2>2 DEF AcknowledgesFirst
  <2>. HIDE DEF f
  <2>4. q \in Transport /\ q.socket \in {s, NoSocket}
    BY <1>2, <2>3, HandleAckType
  <2>5. /\ q.lastProcessedId = ep[e].lastProcessedId /\ q.lastSendId = ep[e].lastSendId
        /\ q.pendingReceives = {}
    <3>1. CASE IsAmnesia(ep[e], f)
      BY <1>1, <1>2, <3>1, CloseEmptiesQueues DEF HandleAck, IsOpen
    <3>2. CASE ~IsAmnesia(ep[e], f)
      BY <1>2, <2>3, <3>2, HandleAckFields
    <3>. QED  BY <3>1, <3>2
  <2>6. ep' = [ep EXCEPT ![e] = q]
    BY <2>2
  <2>. HIDE DEF q
  <2>7. ep[e].lastProcessedId <= q.lastProcessedId
    BY <1>2, <2>5 DEF Transport
  <2>8. wire[s][e][1].type = "CONTENT" => wire[s][e][1].id <= q.lastProcessedId
    BY <2>1 DEF f
  <2>. QED  BY <1>1, <2>4, <2>5, <2>6, <2>7, <2>8, ReadGapless
<1>. QED
  BY <1>1, <1>3, <1>4

LEMMA InitGapless == Init => Gapless
<1>. SUFFICES ASSUME Init PROVE Gapless
  OBVIOUS
<1>1. /\ \A e \in End : ep[e] = NewTransport
      /\ \A s \in Sockets, e \in End : wire[s][e] = <<>>
      /\ NoSocket \notin Sockets /\ Len(<<>>) = 0
  BY EmptySeq DEF Init, NoSocket, Sockets
<1>. QED
  BY <1>1 DEF Gapless, Topped, Chained, NewTransport

\* On sockets that lose and reorder no frame nothing is ever parked: a new
\* socket starts with the first message the other end may miss, and what
\* follows on it leaves no gap.  Frames may be repeated, sockets may fail
\* with what they carry, and either end may close.
THEOREM NothingParked == FifoSockets => (Spec => []NoGapOnFifoSockets)
<1>. SUFFICES ASSUME FifoSockets PROVE Spec => []NoGapOnFifoSockets
  OBVIOUS
<1>1. TypeOK /\ ChannelInv /\ Gapless /\ [Next]_vars => Gapless'
  <2>. SUFFICES ASSUME TypeOK, ChannelInv, Gapless, [Next]_vars
                PROVE  Gapless'
    OBVIOUS
  <2>1. CASE Accept
    BY <2>1, AcceptGapless
  <2>2. CASE \E s \in Sockets : ClientOpens(s) \/ OpenFails(s)
    BY <2>2, ClientOpensGapless, OpenFailsGapless
  <2>3. CASE ClientNoticesDeadSocket
    BY <2>3, LoseSocketGapless DEF ClientNoticesDeadSocket, End
  <2>4. ASSUME NEW s \in Sockets, NEW e \in End
        PROVE  ~LoseFrame(s, e)
    BY DEF LoseFrame, FifoSockets
  <2>5. ASSUME NEW e \in End, SocketCloses(e) \/ PendingMessageTimeout(e) \/ CloseEnd(e)
        PROVE  Gapless'
    BY <2>5, LoseSocketGapless DEF SocketCloses, PendingMessageTimeout
  <2>6. ASSUME NEW e \in End, NEW m \in Msg, Send(e, m)
        PROVE  Gapless'
    BY <2>6, SendGapless
  <2>7. ASSUME NEW e \in End, AckTimeout(e) \/ Receive(e)
        PROVE  Gapless'
    BY <2>7, AckTimeoutGapless, ReceiveGapless
  <2>8. CASE UNCHANGED vars
    BY <2>8 DEF vars, Gapless, Topped
  <2>. QED
    BY <2>1, <2>2, <2>3, <2>4, <2>5, <2>6, <2>7, <2>8 DEF Next
<1>2. Gapless => NoGapOnFifoSockets
  BY DEF Gapless, NoGapOnFifoSockets
<1>. QED
  BY <1>1, <1>2, InitGapless, TypeCorrect, ChannelInvariant, PTL DEF Spec

=============================================================================
