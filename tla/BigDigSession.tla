--------------------------- MODULE BigDigSession ---------------------------
(***************************************************************************)
(* A big-dig session: a BigDigClient over its ReliableSocket, one          *)
(* BigDigServer, and the WebSockets the client dials.  ReliableSocket      *)
(* dials again whenever its transport is disconnected, guards the open     *)
(* socket with pings, and may have several dials in flight; BigDigServer   *)
(* keeps one QueuedAckTransport per client id, joins each new WebSocket to *)
(* it, and forgets it when it reads the close message.  The server process *)
(* may crash, which loses every transport, and come back.                  *)
(*                                                                         *)
(* The subscribers of the server (the tunnel, Thrift and RPC launchers)    *)
(* answer requests and never speak first.  The backoff of the reconnect    *)
(* timer is abstracted: an armed timer fires at any later moment.          *)
(***************************************************************************)
EXTENDS QueuedAckTransport, SocketWires, FiniteSets

CONSTANTS
  MaxRequest,     \* bound on the requests of the client
  MaxDial,        \* bound on the dials in flight at once
  MaxRestart,     \* bound on the restarts of the server
  MayClose        \* whether the owner may call BigDigClient.close()

ASSUME BoundsAssumption ==
  MaxRequest \in Nat /\ MaxDial \in Nat \ {0} /\ MaxRestart \in Nat
ASSUME MayCloseAssumption == MayClose \in BOOLEAN

\* The client sends requests and finally the close message (CLOSE_TAG); the
\* server answers, each answer naming the incarnation that wrote it.
Request == [kind |-> "request", by |-> 0]
CloseMessage == [kind |-> "close", by |-> 0]
Reply(incarnation) == [kind |-> "reply", by |-> incarnation]

Message == {Request, CloseMessage} \cup {Reply(i) : i \in 0 .. MaxRestart}

ASSUME MsgAssumption == Msg = Message

VARIABLES
  ep,             \* ep[e]: the transport object of the client, of the server
  wire,           \* wire[s][e]: the frames on socket s that travel to end e
  accepted,       \* the number of WebSockets the server has accepted
  opening,        \* accepted sockets whose `open` event is still to come
  dialing,        \* the number of dials the server has not seen yet
  open,           \* open[e]: the sockets whose WebSocket is open at end e
  dead,           \* the sockets the network has broken
  reconnectTimer, \* whether _reconnectTimer is armed
  ping,           \* _pingTimer: not armed, waiting to ping, waiting for a pong
  registered,     \* whether _clientIdToTransport has an entry for the client
  up,             \* whether the server process runs
  restarts,       \* the number of restarts, which names the incarnation
  sent,           \* history: the messages given to the transport of each end
  delivered,      \* history: the messages each transport handed over
  retired,        \* history: sockets 1 .. retired were accepted by servers that crashed
  late            \* history: whether the client ever adopted a retired socket

socketVars == <<wire, accepted, opening, dialing, open, dead>>
clientVars == <<reconnectTimer, ping>>
serverVars == <<registered, up, restarts, retired>>
history == <<sent, delivered, late>>

vars == <<ep, socketVars, clientVars, serverVars, history>>

client == ep["client"]
server == ep["server"]

\* The constructor of ReliableSocket dials at once.
Init ==
  /\ ep = [e \in End |-> NewTransport]
  /\ wire = [s \in Sockets |-> [e \in End |-> <<>>]]
  /\ accepted = 0
  /\ opening = {}
  /\ dialing = 1
  /\ open = [e \in End |-> {}]
  /\ dead = {}
  /\ reconnectTimer = FALSE
  /\ ping = "none"
  /\ registered = FALSE
  /\ up = TRUE
  /\ restarts = 0
  /\ sent = [e \in End |-> <<>>]
  /\ delivered = [e \in End |-> <<>>]
  /\ retired = 0
  /\ late = FALSE

\* A socket that may break; the last one does not, so that the behaviours in
\* which the network settles are among those of a bounded instance.
Spare(s) == s < MaxSocket

\* The `close` event of socket s can reach end e.
Gone(s, e) ==
  \/ s \in dead
  \/ s \notin open[Peer(e)] /\ (e = "server" => s \notin opening)

-----------------------------------------------------------------------------
(* ReliableSocket: dialling *)

\* The callback of _scheduleReconnect.
ReconnectTimerFires ==
  /\ reconnectTimer
  /\ IsDisconnected(client) => dialing < MaxDial
  /\ reconnectTimer' = FALSE
  /\ dialing' = IF IsDisconnected(client) THEN dialing + 1 ELSE dialing
  /\ UNCHANGED <<ep, wire, accepted, opening, open, dead, ping, serverVars, history>>

\* A heartbeat succeeds after one that failed, and the socket hears of it.
HeartbeatRestored ==
  /\ up
  /\ IsDisconnected(client)
  /\ reconnectTimer' = TRUE
  /\ UNCHANGED <<ep, socketVars, ping, serverVars, history>>

\* onSocketError, for an error other than ECONNREFUSED.
DialFails ==
  /\ dialing > 0
  /\ Spare(accepted + 1)
  /\ dialing' = dialing - 1
  /\ reconnectTimer' = (reconnectTimer \/ IsDisconnected(client))
  /\ UNCHANGED <<ep, wire, accepted, opening, open, dead, ping, serverVars, history>>

\* ReliableSocket.close, whatever was sent just before.
CloseReliableSocket(q, frames) ==
  /\ ep' = [ep EXCEPT !["client"] = Close(q)]
  /\ wire' = Carried(Put(wire, client.socket, "client", frames), ep', opening)
  /\ open' = [open EXCEPT !["client"] = @ \ {client.socket}]
  /\ reconnectTimer' = FALSE
  /\ ping' = "none"

\* onSocketError, for ECONNREFUSED: a listener of onIntransientError (there is
\* one unless createBigDigClient is told to ignore such errors) closes the
\* socket before the reconnect is scheduled.
DialRefused ==
  /\ dialing > 0
  /\ ~up
  /\ dialing' = dialing - 1
  /\ \/ CloseReliableSocket(client, <<>>)
     \/ /\ reconnectTimer' = (reconnectTimer \/ IsDisconnected(client))
        /\ UNCHANGED <<ep, wire, open, ping>>
  /\ UNCHANGED <<accepted, opening, dead, serverVars, history>>

\* Mutant of Opens: whichever socket opens last is adopted.
OpensAlways(s) ==
  /\ s \in opening \ dead
  /\ opening' = opening \ {s}
  /\ open' = [open EXCEPT !["client"] = @ \cup {s}]
  /\ ep' = [ep EXCEPT !["client"] = Reconnect(@, s)]
  /\ wire' = Carried(Put(wire, s, "client", ReconnectFrames(client)), ep', opening')
  /\ ping' = "idle"
  /\ late' = (late \/ s <= retired)
  /\ UNCHANGED <<accepted, dialing, dead, reconnectTimer, serverVars, sent, delivered>>

\* onSocketOpen: a socket that opens while the transport is not disconnected
\* is left alone.
Opens(s) ==
  LET adopt == IsDisconnected(client)
      frames == IF adopt THEN ReconnectFrames(client) ELSE <<>>
  IN
  /\ s \in opening \ dead
  /\ opening' = opening \ {s}
  /\ open' = [open EXCEPT !["client"] = @ \cup {s}]
  /\ ep' = IF adopt THEN [ep EXCEPT !["client"] = Reconnect(@, s)] ELSE ep
  /\ wire' = Carried(Put(wire, s, "client", frames), ep', opening')
  /\ ping' = IF adopt THEN "idle" ELSE ping
  /\ late' = (late \/ (adopt /\ s <= retired))
  /\ UNCHANGED <<accepted, dialing, dead, reconnectTimer, serverVars, sent, delivered>>

\* Mutant of OpenFails: no reconnect is scheduled.
OpenFailsUnscheduled(s) ==
  /\ s \in opening
  /\ Spare(s)
  /\ opening' = opening \ {s}
  /\ wire' = Carried(wire, ep, opening')
  /\ UNCHANGED <<ep, accepted, dialing, open, dead, clientVars, serverVars, history>>

\* The connection fails after the server accepted it and before it opens.
OpenFails(s) ==
  /\ s \in opening
  /\ Spare(s)
  /\ opening' = opening \ {s}
  /\ wire' = Carried(wire, ep, opening')
  /\ reconnectTimer' = (reconnectTimer \/ IsDisconnected(client))
  /\ UNCHANGED <<ep, accepted, dialing, open, dead, ping, serverVars, history>>

-----------------------------------------------------------------------------
(* BigDigServer: accepting *)

\* _onWebSocketConnection.  A client id without an entry gets a new transport;
\* a transport that is closed ignores the socket, which stays open.
Accept ==
  LET s == accepted + 1
      q == IF registered THEN server ELSE NewTransport
      replaced == IF q.isClosed THEN {} ELSE {q.socket}
  IN
  /\ up
  /\ dialing > 0
  /\ s \in Sockets
  /\ Spare(s) \/ (IsDisconnected(client) /\ opening = {})
  /\ ep' = [ep EXCEPT !["server"] = Reconnect(q, s)]
  /\ accepted' = s
  /\ dialing' = dialing - 1
  /\ opening' = opening \cup {s}
  /\ open' = [open EXCEPT !["server"] = (@ \ replaced) \cup {s}]
  /\ wire' = Carried(Put(wire, s, "server", ReconnectFrames(q)), ep', opening')
  /\ registered' = TRUE
  /\ UNCHANGED <<dead, clientVars, up, restarts, retired, history>>

-----------------------------------------------------------------------------
(* Losing sockets *)

BreakSocket(s) ==
  /\ Spare(s)
  /\ s \in (open["client"] \cup open["server"] \cup opening) \ dead
  /\ dead' = dead \cup {s}
  /\ UNCHANGED <<ep, wire, accepted, opening, dialing, open, clientVars,
                 serverVars, history>>

\* Mutant of LoseWebSocket: the transport is not told.
LoseWebSocketSilently(e, s) ==
  /\ open' = [open EXCEPT ![e] = @ \ {s}]
  /\ UNCHANGED <<ep, wire, accepted, opening, dialing, dead, clientVars,
                 serverVars, history>>

\* Mutant of LoseWebSocket: no reconnect is scheduled.
LoseWebSocketUnscheduled(e, s) ==
  LET used == ep[e].socket = s IN
  /\ open' = [open EXCEPT ![e] = @ \ {s}]
  /\ ep' = IF used THEN [ep EXCEPT ![e] = HandleTransportClose(@)] ELSE ep
  /\ wire' = Carried(wire, ep', opening)
  /\ ping' = IF used /\ e = "client" THEN "none" ELSE ping
  /\ UNCHANGED <<accepted, opening, dialing, dead, reconnectTimer, serverVars,
                 history>>

\* WebSocket s closes at end e.  If the transport of e uses it, it becomes
\* disconnected, and on the client a reconnect is scheduled.
LoseWebSocket(e, s) ==
  LET used == ep[e].socket = s IN
  /\ open' = [open EXCEPT ![e] = @ \ {s}]
  /\ ep' = IF used THEN [ep EXCEPT ![e] = HandleTransportClose(@)] ELSE ep
  /\ wire' = Carried(wire, ep', opening)
  /\ IF used /\ e = "client"
       THEN ping' = "none" /\ reconnectTimer' = TRUE
       ELSE UNCHANGED clientVars
  /\ UNCHANGED <<accepted, opening, dialing, dead, serverVars, history>>

\* The `close` or `error` event of a WebSocket.
WebSocketCloses(e, s) ==
  /\ s \in open[e]
  /\ Gone(s, e)
  /\ LoseWebSocket(e, s)

\* The `error` event of a WebSocket that opened and was not adopted: the
\* listener onSocketError of its dial is still there.
UnusedWebSocketFails(s) ==
  /\ s \in open["client"]
  /\ s # client.socket
  /\ Gone(s, "client")
  /\ open' = [open EXCEPT !["client"] = @ \ {s}]
  /\ reconnectTimer' = (reconnectTimer \/ IsDisconnected(client))
  /\ UNCHANGED <<ep, wire, accepted, opening, dialing, dead, ping, serverVars, history>>

\* The first half of _schedulePing's timer: the ping is sent.
PingTimerFires ==
  /\ ping = "idle"
  /\ ping' = "sent"
  /\ UNCHANGED <<ep, socketVars, reconnectTimer, serverVars, history>>

\* The pong: the WebSocket of the server answers by itself.
PongArrives ==
  /\ ping = "sent"
  /\ ~Gone(client.socket, "client")
  /\ ping' = "idle"
  /\ UNCHANGED <<ep, socketVars, reconnectTimer, serverVars, history>>

\* Mutant of PingTimeout: a pong that is missing is ignored.
PingTimeoutIgnored ==
  /\ ping = "sent"
  /\ Gone(client.socket, "client") \/ Spare(client.socket)
  /\ ping' = "idle"
  /\ UNCHANGED <<ep, socketVars, reconnectTimer, serverVars, history>>

\* The second half of _schedulePing's timer: the pong did not come in time.
PingTimeout ==
  /\ ping = "sent"
  /\ Gone(client.socket, "client") \/ Spare(client.socket)
  /\ LoseWebSocket("client", client.socket)

\* _handlePendingMessageTimeout
PendingMessageTimeout(e) ==
  /\ ep[e].pendingMessageTimer
  /\ Gone(ep[e].socket, e) \/ Spare(ep[e].socket)
  /\ LoseWebSocket(e, ep[e].socket)

-----------------------------------------------------------------------------
(* Messages *)

Send(e, m) ==
  /\ ep' = [ep EXCEPT ![e] = Enqueue(@, m)]
  /\ wire' = Carried(Put(wire, ep[e].socket, e, SendFrames(ep[e], m)), ep', opening)
  /\ sent' = [sent EXCEPT ![e] = Append(@, m)]
  /\ UNCHANGED <<accepted, opening, dialing, open, dead, clientVars,
                 serverVars, delivered, late>>

SendRequest ==
  /\ ~client.isClosed
  /\ client.lastSendId < MaxRequest
  /\ Send("client", Request)

\* A subscriber of the server answers a request it has been handed.
SendReply ==
  /\ registered
  /\ ~server.isClosed
  /\ server.lastSendId < server.lastProcessedId
  /\ Send("server", Reply(restarts))

AckTimeout(e) ==
  /\ ep[e].ackTimer
  /\ ep' = [ep EXCEPT ![e] = HandleAckTimer(@)]
  /\ wire' = Carried(Put(wire, ep[e].socket, e, AckFrames(ep[e])), ep', opening)
  /\ UNCHANGED <<accepted, opening, dialing, open, dead, clientVars,
                 serverVars, history>>

\* _handleBigDigMessage of the close message: the entry is deleted and the
\* transport closed.  Nothing refers to the object afterwards.
ForgetClient ==
  /\ registered' = FALSE
  /\ ep' = [ep EXCEPT !["server"] = NewTransport]
  /\ open' = [open EXCEPT !["server"] = @ \ {server.socket}]
  /\ sent' = [sent EXCEPT !["server"] = <<>>]
  /\ delivered' = [delivered EXCEPT !["server"] = <<>>]

ReceiveContent(e, f) ==
  \E n \in 0 .. MaxRequest + 1 :
    /\ ProcessesUpTo(ep[e], f, n)
    /\ LET received == Processed(ep[e], f, n) IN
       IF \E i \in 1 .. Len(received) : received[i] = CloseMessage
         THEN ForgetClient
         ELSE /\ ep' = [ep EXCEPT ![e] = HandleContent(@, f, n)]
              /\ delivered' = [delivered EXCEPT ![e] = @ \o received]
              /\ UNCHANGED <<registered, open, sent>>

\* An ack of a message that was never sent closes the transport, and its
\* WebSocket; the entry of the client id stays.
ReceiveAck(e, f) ==
  /\ \E k \in 0 .. MaxRequest + 1 :
       /\ AcknowledgesFirst(ep[e], f, k)
       /\ ep' = [ep EXCEPT ![e] = HandleAck(@, f, k)]
  /\ open' = IF IsAmnesia(ep[e], f)
               THEN [open EXCEPT ![e] = @ \ {ep[e].socket}]
               ELSE open
  /\ UNCHANGED <<registered, sent, delivered>>

Receive(e) ==
  LET s == ep[e].socket IN
  /\ IsOpen(ep[e])
  /\ s \notin dead
  /\ wire[s][e] # <<>>
  /\ LET f == Head(wire[s][e]) IN
     \/ f.type = "CONTENT" /\ ReceiveContent(e, f)
     \/ f.type = "ACK" /\ ReceiveAck(e, f)
  /\ wire' = Carried(Took(wire, s, e, 1), ep', opening)
  /\ ping' = IF e = "client" /\ IsOpen(ep'["client"]) THEN "idle" ELSE ping
  /\ UNCHANGED <<accepted, opening, dialing, dead, reconnectTimer, up, restarts,
                 retired, late>>

\* BigDigClient.close: the close message, then ReliableSocket.close.
ClientCloses ==
  /\ MayClose
  /\ ~client.isClosed
  /\ CloseReliableSocket(Enqueue(client, CloseMessage),
                         SendFrames(client, CloseMessage))
  /\ sent' = [sent EXCEPT !["client"] = Append(@, CloseMessage)]
  /\ UNCHANGED <<accepted, opening, dialing, dead, serverVars, delivered, late>>

-----------------------------------------------------------------------------
(* The server process *)

Crash ==
  /\ up
  /\ restarts < MaxRestart
  /\ up' = FALSE
  /\ registered' = FALSE
  /\ ep' = [ep EXCEPT !["server"] = NewTransport]
  /\ open' = [open EXCEPT !["server"] = {}]
  /\ wire' = Carried(wire, ep', opening)
  /\ sent' = [sent EXCEPT !["server"] = <<>>]
  /\ delivered' = [delivered EXCEPT !["server"] = <<>>]
  /\ retired' = accepted
  /\ UNCHANGED <<accepted, opening, dialing, dead, clientVars, restarts, late>>

Restart ==
  /\ ~up
  /\ up' = TRUE
  /\ restarts' = restarts + 1
  /\ UNCHANGED <<ep, socketVars, clientVars, registered, retired, history>>

-----------------------------------------------------------------------------
Next ==
  \/ ReconnectTimerFires \/ HeartbeatRestored \/ DialFails \/ DialRefused
  \/ Accept
  \/ \E s \in Sockets : \/ Opens(s) \/ OpenFails(s) \/ BreakSocket(s)
                        \/ UnusedWebSocketFails(s)
                        \/ \E e \in End : WebSocketCloses(e, s)
  \/ PingTimerFires \/ PongArrives \/ PingTimeout
  \/ SendRequest \/ SendReply
  \/ \E e \in End : \/ PendingMessageTimeout(e)
                    \/ AckTimeout(e)
                    \/ Receive(e)
  \/ ClientCloses
  \/ Crash \/ Restart

Spec == Init /\ [][Next]_vars

(***************************************************************************)
(* Fairness.  A crashed server is started again; armed timers fire; a      *)
(* connection that was accepted opens or fails; a server that runs accepts *)
(* a client that keeps dialling, even if some dials fail; pongs and frames *)
(* arrive on a socket that works; the subscribers answer.  The `close`     *)
(* event of a broken socket is not assumed: a half-open socket is only     *)
(* noticed by the timers.                                                  *)
(***************************************************************************)
Fairness ==
  /\ WF_vars(Restart)
  /\ WF_vars(ReconnectTimerFires)
  /\ SF_vars(Accept)
  /\ \A s \in Sockets : /\ WF_vars(Opens(s))
                        /\ WF_vars(Gone(s, "client") /\ OpenFails(s))
  /\ WF_vars(PingTimerFires) /\ WF_vars(PongArrives) /\ WF_vars(PingTimeout)
  /\ WF_vars(SendReply)
  /\ \A e \in End : /\ WF_vars(PendingMessageTimeout(e))
                    /\ WF_vars(AckTimeout(e))
                    /\ WF_vars(Receive(e))

FairSpec == Spec /\ Fairness

-----------------------------------------------------------------------------
(* Properties *)

\* The types of the variables.
TypeOK ==
  /\ ep \in [End -> Transport]
  /\ \A e \in End : ep[e].socket \in open[e] \cup {NoSocket}
  /\ wire \in [Sockets -> [End -> Seq(Frame)]]
  /\ accepted \in 0 .. MaxSocket
  /\ opening \subseteq 1 .. accepted
  /\ dialing \in 0 .. MaxDial
  /\ open \in [End -> SUBSET (1 .. accepted)]
  /\ dead \subseteq 1 .. accepted
  /\ reconnectTimer \in BOOLEAN
  /\ ping \in {"none", "idle", "sent"}
  /\ registered \in BOOLEAN
  /\ up \in BOOLEAN
  /\ restarts \in 0 .. MaxRestart
  /\ sent \in [End -> Seq(Message)]
  /\ delivered \in [End -> Seq(Message)]
  /\ retired \in 0 .. accepted
  /\ late \in BOOLEAN

\* A client that is disconnected is on its way back: a reconnect is scheduled
\* or a dial is still to succeed or fail.  No order of failures, late `open`
\* events and heartbeats makes ReliableSocket forget to try again, or try again
\* after close().  And the ping timer guards the socket in use: it is never left
\* to close a socket the client has given up.
NeverStranded ==
  /\ IsDisconnected(client) => reconnectTimer \/ dialing > 0 \/ opening # {}
  /\ client.isClosed => ~reconnectTimer
  /\ ping # "none" <=> IsOpen(client)

\* All the replies one client is handed come from one incarnation of the
\* server: the streams of two transports of the server are never spliced,
\* although both count their messages from 1.  This needs that the client never
\* adopts a socket that was accepted by a server that crashed since: such a
\* socket may hold later replies of the old stream than the new one has.
Unspliced ==
  \A i, j \in 1 .. Len(delivered["client"]) :
    delivered["client"][i] = delivered["client"][j]

NoSplice == ~late => Unspliced

\* The assertion in the amnesia branch of _handleMessage: a transport reads an
\* ack of a message it never sent only before it sent or processed anything.
AmnesiaOnlyWhenNew ==
  \A e \in End : IsOpen(ep[e]) /\ wire[ep[e].socket][e] # <<>> =>
    LET f == Head(wire[ep[e].socket][e]) IN
    f.type = "ACK" /\ IsAmnesia(ep[e], f) =>
      ep[e].lastSendId = 0 /\ ep[e].lastProcessedId = 0

\* The assertion holds unless a socket of a crashed server opened late.
AmnesiaInOrder == ~late => AmnesiaOnlyWhenNew

\* "Once closed, reconnect may not be called": the server joins a WebSocket
\* only to a transport that can still use it.
NoReconnectOnceClosed ==
  [][accepted' # accepted /\ registered => ~server.isClosed]_vars

\* The transports of a session, and the sockets under them.
AckChan == INSTANCE AckChannel
             WITH MaxSend <- [e \in End |-> MaxRequest], MayClose <- {},
                  MaxInFlight <- 0, Faults <- {}

\* Until the server crashes or the client is closed, the session is a run of two
\* transports over successive sockets, as AckChannel describes.
Undisturbed == up /\ restarts = 0 /\ ~client.isClosed

ImplementsAckChannel ==
  AckChan!Init /\ [][Undisturbed' => AckChan!Next]_(AckChan!vars)

\* A client that is disconnected does not stay so, even if the server goes
\* down and comes back or gives the client up, unless it is closed or the last
\* socket of the instance is used up.
Reconnects ==
  []<>(IsOpen(client) \/ client.isClosed \/ accepted = MaxSocket)

\* When the network settles, every request is answered, whichever dials,
\* sockets, acks and pongs were lost before, unless the client is closed or
\* the server crashed and forgot the request.
Answered ==
  \A k \in 1 .. MaxRequest :
    Len(sent["client"]) >= k
      ~> Len(delivered["client"]) >= k \/ client.isClosed \/ restarts > 0

=============================================================================
