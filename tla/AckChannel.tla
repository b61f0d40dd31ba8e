----------------------------- MODULE AckChannel -----------------------------
(***************************************************************************)
(* Two QueuedAckTransport objects, the client's and the server's, joined   *)
(* by a succession of WebSockets.  The server adopts a socket when it      *)
(* accepts it (BigDigServer._onWebSocketConnection), the client when its   *)
(* `open` event arrives (ReliableSocket._reconnect), and each of the two   *)
(* notices on its own, and at a different time, that a socket is gone.     *)
(* Until then it keeps sending into it.                                    *)
(*                                                                         *)
(* Faults says what a socket may do to frames: {} is a WebSocket, which    *)
(* delivers a prefix of what was sent; the other values are the            *)
(* UnreliableTransport the class is written and tested against.            *)
(***************************************************************************)
EXTENDS QueuedAckTransport, SocketWires

CONSTANTS
  MaxSend,     \* MaxSend[e]: bound on the messages end e sends
  MayClose,    \* the ends whose owner may call close()
  MaxInFlight, \* bound on the frames opposite to a duplicated one
  Faults       \* a subset of {"lose", "reorder", "duplicate"}

ASSUME MaxSendAssumption == MaxSend \in [End -> Nat]
ASSUME MaxInFlightAssumption == MaxInFlight \in Nat
ASSUME MayCloseAssumption == MayClose \subseteq End
ASSUME FaultsAssumption == Faults \subseteq {"lose", "reorder", "duplicate"}

VARIABLES
  ep,         \* ep[e]: the transport object of end e
  wire,       \* wire[s][e]: the frames on socket s that travel to end e
  accepted,   \* the number of sockets the server has accepted
  opening,    \* accepted sockets whose `open` event has not reached the client
  sent,       \* history: the messages passed to send() of each end
  delivered   \* history: the messages handed to the subscriber of each end

vars == <<ep, wire, accepted, opening, sent, delivered>>

Init ==
  /\ ep = [e \in End |-> NewTransport]
  /\ wire = [s \in Sockets |-> [e \in End |-> <<>>]]
  /\ accepted = 0
  /\ opening = {}
  /\ sent = [e \in End |-> <<>>]
  /\ delivered = [e \in End |-> <<>>]

-----------------------------------------------------------------------------
(* Sockets *)

\* A socket that may break.  The last one does not, so that a behaviour in
\* which the network settles is among the behaviours of a bounded instance.
Spare(s) == s < MaxSocket

\* The server accepts a connection and adopts it, closing the one it had.
\* The client may have dialled it before it adopted another socket; the last
\* socket is one the client really waits for.
Accept ==
  LET s == accepted + 1
      q == ep["server"]
      eps == [ep EXCEPT !["server"] = Reconnect(@, s)]
  IN
  /\ s \in Sockets
  /\ Spare(s) \/ (IsDisconnected(ep["client"]) /\ opening = {})
  /\ ep' = eps
  /\ accepted' = s
  /\ opening' = opening \cup {s}
  /\ wire' = Carried(Put(wire, s, "server", ReconnectFrames(q)), eps, opening')
  /\ UNCHANGED <<sent, delivered>>

\* The `open` event of socket s: a client that is not disconnected ignores it.
ClientOpens(s) ==
  LET q == ep["client"]
      adopt == IsDisconnected(q)
      eps == IF adopt THEN [ep EXCEPT !["client"] = Reconnect(@, s)] ELSE ep
      frames == IF adopt THEN ReconnectFrames(q) ELSE <<>>
  IN
  /\ s \in opening
  /\ ep' = eps
  /\ opening' = opening \ {s}
  /\ wire' = Carried(Put(wire, s, "client", frames), eps, opening')
  /\ UNCHANGED <<accepted, sent, delivered>>

\* The attempt to connect fails at the client after the server accepted it.
OpenFails(s) ==
  /\ s \in opening
  /\ Spare(s)
  /\ opening' = opening \ {s}
  /\ wire' = Carried(wire, ep, opening')
  /\ UNCHANGED <<ep, accepted, sent, delivered>>

\* End e gives up its socket: its `close` event, its `error` event, or the
\* ping of ReliableSocket that nobody answered.
Disconnect(e) ==
  LET eps == [ep EXCEPT ![e] = HandleTransportClose(@)] IN
  /\ IsOpen(ep[e])
  /\ ep' = eps
  /\ wire' = Carried(wire, eps, opening)
  /\ UNCHANGED <<accepted, opening, sent, delivered>>

SocketCloses(e) == Spare(ep[e].socket) /\ Disconnect(e)

\* The socket of the client is dead: the server is not on it.
HalfOpen ==
  IsOpen(ep["client"]) /\ ep["client"].socket # ep["server"].socket

ClientNoticesDeadSocket == HalfOpen /\ Disconnect("client")

\* _handlePendingMessageTimeout
PendingMessageTimeout(e) ==
  /\ ep[e].pendingMessageTimer
  /\ Spare(ep[e].socket)
  /\ Disconnect(e)

LoseFrame(s, e) ==
  /\ "lose" \in Faults
  /\ Spare(s)
  /\ \E i \in 1 .. Len(wire[s][e]) : wire' = Took(wire, s, e, i)
  /\ UNCHANGED <<ep, accepted, opening, sent, delivered>>

-----------------------------------------------------------------------------
(* The methods and timers of the two transports *)

\* The server's object is built when the server accepts the first socket.
Constructed(e) == e = "client" \/ accepted > 0

Send(e, m) ==
  LET q == ep[e]
      eps == [ep EXCEPT ![e] = Enqueue(@, m)]
  IN
  /\ Constructed(e)
  /\ ~q.isClosed
  /\ q.lastSendId < MaxSend[e]
  /\ ep' = eps
  /\ wire' = Carried(Put(wire, q.socket, e, SendFrames(q, m)), eps, opening)
  /\ sent' = [sent EXCEPT ![e] = Append(@, m)]
  /\ UNCHANGED <<accepted, opening, delivered>>

AckTimeout(e) ==
  LET q == ep[e]
      eps == [ep EXCEPT ![e] = HandleAckTimer(@)]
  IN
  /\ q.ackTimer
  /\ ep' = eps
  /\ wire' = Carried(Put(wire, q.socket, e, AckFrames(q)), eps, opening)
  /\ UNCHANGED <<accepted, opening, sent, delivered>>

ReceiveContent(e, f) ==
  \E n \in 0 .. MaxSend[Peer(e)] :
    /\ ProcessesUpTo(ep[e], f, n)
    /\ ep' = [ep EXCEPT ![e] = HandleContent(@, f, n)]
    /\ delivered' = [delivered EXCEPT ![e] = @ \o Processed(ep[e], f, n)]

ReceiveAck(e, f) ==
  /\ \E k \in 0 .. MaxSend[e] :
       /\ AcknowledgesFirst(ep[e], f, k)
       /\ ep' = [ep EXCEPT ![e] = HandleAck(@, f, k)]
  /\ UNCHANGED delivered

\* A faulty socket hands over a frame and keeps a copy, while few enough
\* frames (the acks this provokes) travel the other way.
MayDuplicate(s, e) ==
  /\ "duplicate" \in Faults
  /\ Spare(s)
  /\ Len(wire[s][Peer(e)]) < MaxInFlight

\* _handleMessage: the socket of end e hands over its i-th frame, the first
\* one unless the socket reorders.
Receive(e) ==
  LET s == ep[e].socket IN
  /\ IsOpen(ep[e])
  /\ \E i \in 1 .. Len(wire[s][e]) :
       LET f == wire[s][e][i] IN
       /\ i = 1 \/ "reorder" \in Faults
       /\ \/ f.type = "CONTENT" /\ ReceiveContent(e, f)
          \/ f.type = "ACK" /\ ReceiveAck(e, f)
       /\ \/ wire' = Carried(Took(wire, s, e, i), ep', opening)
          \/ /\ MayDuplicate(s, e)
             /\ wire' = Carried(wire, ep', opening)
  /\ UNCHANGED <<accepted, opening, sent>>

CloseEnd(e) ==
  LET eps == [ep EXCEPT ![e] = Close(@)] IN
  /\ e \in MayClose
  /\ Constructed(e)
  /\ ~ep[e].isClosed
  /\ ep' = eps
  /\ wire' = Carried(wire, eps, opening)
  /\ UNCHANGED <<accepted, opening, sent, delivered>>

-----------------------------------------------------------------------------
Next ==
  \/ Accept
  \/ \E s \in Sockets : ClientOpens(s) \/ OpenFails(s)
  \/ ClientNoticesDeadSocket
  \/ \E s \in Sockets, e \in End : LoseFrame(s, e)
  \/ \E e \in End : \/ SocketCloses(e)
                    \/ PendingMessageTimeout(e)
                    \/ \E m \in Msg : Send(e, m)
                    \/ AckTimeout(e)
                    \/ Receive(e)
                    \/ CloseEnd(e)

Spec == Init /\ [][Next]_vars

(***************************************************************************)
(* Fairness.  Timers that are armed fire, sockets deliver, a dead socket   *)
(* is noticed (its `close` event, or the unanswered ping), and a client    *)
(* that is disconnected dials again (ReliableSocket._scheduleReconnect)    *)
(* until the server accepts.  Nothing makes a socket fail, an application  *)
(* send, or an owner close.                                                *)
(***************************************************************************)
Fairness ==
  /\ WF_vars(Accept)
  /\ \A s \in Sockets : WF_vars(ClientOpens(s))
  /\ WF_vars(ClientNoticesDeadSocket)
  /\ \A e \in End : /\ WF_vars(PendingMessageTimeout(e))
                    /\ WF_vars(AckTimeout(e))
                    /\ WF_vars(Receive(e))

FairSpec == Spec /\ Fairness

-----------------------------------------------------------------------------
(* The inductive invariant *)

\* End e sent m as its message number id.
Genuine(e, id, m) == id \in 1 .. Len(sent[e]) /\ m = sent[e][id]

\* A frame travelling to e repeats a message of its peer, or acknowledges a
\* message the peer has processed.
HonestFrame(e, f) ==
  /\ f.type = "CONTENT" => Genuine(Peer(e), f.id, f.msg)
  /\ f.type = "ACK" => f.id <= ep[Peer(e)].lastProcessedId

HonestWire ==
  \A s \in Sockets, e \in End :
    \A i \in 1 .. Len(wire[s][e]) : HonestFrame(e, wire[s][e][i])

\* What e has received and handed over comes from its peer.
HonestReceiver(e) ==
  /\ \A r \in ep[e].pendingReceives : Genuine(Peer(e), r.id, r.msg)
  /\ ep[e].lastProcessedId <= Len(sent[Peer(e)])
  /\ delivered[e] = SubSeq(sent[Peer(e)], 1, ep[e].lastProcessedId)

\* The queue of e is the tail of what e sent, and starts no later than the
\* first message its peer misses.
CompleteQueue(e) ==
  LET q == ep[e]
      acked == q.lastSendId - Len(q.pendingSends)
  IN
  /\ q.lastSendId = Len(sent[e])
  /\ acked >= 0
  /\ \A i \in 1 .. Len(q.pendingSends) :
       q.pendingSends[i] = [id |-> acked + i, msg |-> sent[e][acked + i]]
  /\ ~q.isClosed => acked <= ep[Peer(e)].lastProcessedId

ChannelInv ==
  /\ HonestWire
  /\ \A e \in End : HonestReceiver(e) /\ CompleteQueue(e)

-----------------------------------------------------------------------------
(* Properties *)

\* The types of the variables.
TypeOK ==
  /\ ep \in [End -> Transport]
  /\ \A e \in End : ep[e].socket \in 0 .. accepted
  /\ wire \in [Sockets -> [End -> Seq(Frame)]]
  /\ accepted \in 0 .. MaxSocket
  /\ opening \subseteq 1 .. accepted
  /\ sent \in [End -> Seq(Msg)]
  /\ delivered \in [End -> Seq(Msg)]

\* Every end has handed over exactly the first lastProcessedId messages of
\* its peer: none lost, repeated or out of order, whatever was resent.
InOrderExactlyOnce ==
  \A e \in End :
    /\ ep[e].lastProcessedId <= Len(sent[Peer(e)])
    /\ delivered[e] = SubSeq(sent[Peer(e)], 1, ep[e].lastProcessedId)

\* A message leaves _pendingSends only when the peer has processed it, so a
\* later reconnect still finds every message the peer misses.
NothingForgotten ==
  \A e \in End : ~ep[e].isClosed =>
    \A id \in ep[Peer(e)].lastProcessedId + 1 .. ep[e].lastSendId :
      \E i \in 1 .. Len(ep[e].pendingSends) :
        ep[e].pendingSends[i] = [id |-> id, msg |-> sent[e][id]]

\* The assertion of _handleMessage cannot fail between two objects that both
\* live as long as the connection: no ack exceeds what was sent.
NoAmnesia ==
  \A s \in Sockets, e \in End : \A i \in 1 .. Len(wire[s][e]) :
    wire[s][e][i].type = "ACK" => ~IsAmnesia(ep[e], wire[s][e][i])

\* _checkLeaks, and the watchdog: its timer is armed exactly while an open
\* transport waits for something, so its assertions hold when it fires and a
\* stalled socket is always abandoned.  What is parked waits for an earlier
\* message, so receiving without progress leaves the timer something to guard.
Watchdog ==
  \A e \in End :
    /\ CheckLeaks(ep[e])
    /\ \A r \in ep[e].pendingReceives : r.id > ep[e].lastProcessedId
    /\ ep[e].pendingMessageTimer <=>
         /\ IsOpen(ep[e])
         /\ ep[e].pendingSends # <<>> \/ ep[e].pendingReceives # {}

\* On sockets that keep order nothing is ever parked in _pendingReceives: each
\* new socket starts with the first message the other end may miss.
NoGapOnFifoSockets == \A e \in End : ep[e].pendingReceives = {}

\* The connection is a reliable channel.
Channel == INSTANCE ReliableChannel
             WITH closed <- {e \in End : ep[e].isClosed}

ImplementsChannel == Channel!ChanSpec

\* When sockets stop failing, everything sent arrives, unless an end closes.
EventuallyDelivered ==
  \A e \in End : \A k \in 1 .. MaxSend[e] :
    (Len(sent[e]) >= k) ~> \/ Len(delivered[Peer(e)]) >= k
                          \/ \E d \in End : ep[d].isClosed

=============================================================================
