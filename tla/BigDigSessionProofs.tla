------------------------ MODULE BigDigSessionProofs ------------------------
(***************************************************************************)
(* Theorems about BigDigSession, for every bound on requests, dials,       *)
(* sockets and restarts.                                                   *)
(*                                                                         *)
(* The types of its variables, with how the server, its sockets and the    *)
(* wires belong together; what a step does to a transport, its effects, of *)
(* which every step of the session is one; then the safety of the session, *)
(* one invariant at a time, each shown for the effects: a disconnected     *)
(* client is on its way back, the replies of two incarnations of the       *)
(* server are not spliced, and only a new transport meets an order of      *)
(* messages that starts anew.  At the end, the refinement: until the       *)
(* session is disturbed its transports do what AckChannel lets them do.    *)
(***************************************************************************)
EXTENDS BigDigSession, TransportProofs

-----------------------------------------------------------------------------
(* Types and structure.  The types are inductive only together with how the *)
(* server, its sockets and the wires belong together.                       *)

Structure ==
  /\ \A e \in End : Guarded(ep[e])
  /\ ~registered => server = NewTransport
  /\ ~up => ~registered /\ retired = accepted /\ restarts < MaxRestart
  /\ server.socket = NoSocket \/ server.socket > retired
  /\ open["client"] \cap opening = {}
  /\ \A s \in Sockets, e \in End : wire[s][e] # <<>> => Reaches(s, e, ep, opening)

Sane == TypeOK /\ Structure

LEMMA EndCases == /\ "client" \in End /\ "server" \in End /\ "client" # "server"
                  /\ \A e \in End : e = "client" \/ e = "server"
                  /\ Peer("client") = "server" /\ Peer("server") = "client"
  BY DEF End, Peer

LEMMA SaneParts ==
  ASSUME Sane
  PROVE  /\ wire \in Wires
         /\ \A e \in End : /\ ep[e] \in Transport
                           /\ Guarded(ep[e])
                           /\ ep[e].socket \in 0 .. accepted
                           /\ IsOpen(ep[e]) => ep[e].socket \in Sockets
                           /\ ep[e].isClosed => ep[e].socket = NoSocket
                           /\ ep[e].socket = NoSocket => ~ep[e].pendingMessageTimer
                           /\ open[e] \subseteq 1 .. accepted
         /\ client \in Transport /\ server \in Transport
         /\ accepted \in 0 .. MaxSocket /\ MaxSocket \in Nat
         /\ MaxRequest \in Nat /\ MaxRestart \in Nat /\ MaxDial \in Nat
<1>1. /\ MaxSocket \in Nat /\ MaxRequest \in Nat /\ MaxRestart \in Nat /\ MaxDial \in Nat
      /\ accepted \in 0 .. MaxSocket
  BY MaxSocketAssumption, BoundsAssumption DEF Sane, TypeOK
<1>2. ASSUME NEW e \in End
      PROVE  /\ ep[e] \in Transport
             /\ Guarded(ep[e])
             /\ ep[e].socket \in 0 .. accepted
             /\ open[e] \subseteq 1 .. accepted
  BY <1>1 DEF Sane, TypeOK, Structure, NoSocket
<1>3. ASSUME NEW e \in End
      PROVE  /\ IsOpen(ep[e]) => ep[e].socket \in Sockets
             /\ ep[e].isClosed => ep[e].socket = NoSocket
             /\ ep[e].socket = NoSocket => ~ep[e].pendingMessageTimer
  BY <1>1, <1>2 DEF Guarded, CheckLeaks, Sockets, IsOpen, NoSocket
<1>. QED
  BY <1>1, <1>2, <1>3, EndCases DEF Sane, TypeOK, Wires, client, server

\* What a step that touches the transport of one end and its sockets must keep.
LEMMA OneEndStep ==
  ASSUME Sane, NEW e \in End, NEW q \in Transport, Guarded(q), NEW o,
         NEW w \in Wires,
         ep' = [ep EXCEPT ![e] = q],
         open' = [open EXCEPT ![e] = o],
         wire' = Carried(w, ep', opening'),
         accepted' \in accepted .. MaxSocket,
         o \subseteq 1 .. accepted', q.socket \in o \cup {NoSocket},
         opening' \subseteq 1 .. accepted',
         open'["client"] \cap opening' = {},
         dialing' \in 0 .. MaxDial, dead' = dead,
         reconnectTimer' \in BOOLEAN, ping' \in {"none", "idle", "sent"},
         registered' \in BOOLEAN, up' \in BOOLEAN, restarts' = restarts,
         sent' \in [End -> Seq(Message)], delivered' \in [End -> Seq(Message)],
         retired' \in 0 .. accepted', late' \in BOOLEAN,
         e = "client" => /\ UNCHANGED <<registered, up, retired, accepted>>,
         e = "server" => /\ ~registered' => q = NewTransport
                         /\ q.socket = NoSocket \/ q.socket > retired',
         ~up' => ~registered' /\ retired' = accepted' /\ restarts < MaxRestart
  PROVE  Sane'
<1>1. /\ \A d \in End : ep'[d] = IF d = e THEN q ELSE ep[d]
      /\ \A d \in End : open'[d] = IF d = e THEN o ELSE open[d]
      /\ ep' \in [End -> Transport]
  BY DEF Sane, TypeOK
<1>2. 1 .. accepted \subseteq 1 .. accepted' /\ accepted' \in 0 .. MaxSocket
  BY SaneParts
<1>3. wire' \in Wires
  BY CarriedType
<1>4. \A s \in Sockets, d \in End : wire'[s][d] # <<>> => Reaches(s, d, ep', opening')
  BY DEF Carried
<1>5. TypeOK'
  <2>1. \A d \in End : ep'[d].socket \in open'[d] \cup {NoSocket}
    BY <1>1 DEF Sane, TypeOK
  <2>2. open' \in [End -> SUBSET (1 .. accepted')]
    BY <1>1, <1>2 DEF Sane, TypeOK
  <2>3. dead' \subseteq 1 .. accepted'
    BY <1>2 DEF Sane, TypeOK
  <2>. QED
    BY <1>1, <1>2, <1>3, <2>1, <2>2, <2>3 DEF Sane, TypeOK, Wires
<1>6. \A d \in End : Guarded(ep'[d])
  BY <1>1 DEF Sane, Structure
<1>7. /\ ~registered' => server' = NewTransport
      /\ server'.socket = NoSocket \/ server'.socket > retired'
  BY <1>1, EndCases DEF Sane, Structure, server
<1>. QED
  BY <1>4, <1>5, <1>6, <1>7 DEF Sane, Structure

LEMMA InitSane == Init => Sane
<1>. SUFFICES ASSUME Init PROVE Sane
  OBVIOUS
<1>1. NewTransport \in Transport /\ Guarded(NewTransport) /\ NewTransport.socket = NoSocket
  BY NewTransportType, NewTransportGuarded DEF NewTransport
<1>2. <<>> \in Seq(Frame) /\ <<>> \in Seq(Message)
  BY EmptySeq
<1>3. /\ accepted \in 0 .. MaxSocket /\ opening \subseteq 1 .. accepted
      /\ dialing \in 0 .. MaxDial /\ restarts \in 0 .. MaxRestart
      /\ retired \in 0 .. accepted
  BY MaxSocketAssumption, BoundsAssumption DEF Init
<1>4. TypeOK
  BY <1>1, <1>2, <1>3 DEF Init, TypeOK
<1>5. Structure
  BY <1>1, EndCases DEF Init, Structure, server
<1>. QED  BY <1>4, <1>5 DEF Sane

-----------------------------------------------------------------------------
(* Steps that leave the transports and the wires alone. *)

QuietActions ==
  \/ ReconnectTimerFires \/ HeartbeatRestored \/ DialFails
  \/ \E s \in Sockets : BreakSocket(s) \/ UnusedWebSocketFails(s)
  \/ PingTimerFires \/ PongArrives

LEMMA SameTransports ==
  ASSUME Sane,
         UNCHANGED <<ep, wire, accepted, opening, registered, up, restarts, retired,
                     sent, delivered, late>>,
         open' \in [End -> SUBSET (1 .. accepted)],
         \A e \in End : /\ open'[e] \subseteq open[e]
                        /\ ep[e].socket \in open[e] => ep[e].socket \in open'[e],
         dialing' \in 0 .. MaxDial, dead' \subseteq 1 .. accepted,
         reconnectTimer' \in BOOLEAN, ping' \in {"none", "idle", "sent"}
  PROVE  Sane'
<1>1. \A e \in End : ep[e].socket \in open'[e] \cup {NoSocket}
  BY DEF Sane, TypeOK
<1>2. TypeOK'
  BY <1>1 DEF Sane, TypeOK
<1>3. open'["client"] \cap opening = {}
  BY EndCases DEF Sane, Structure
<1>4. ep' = ep /\ server' = server /\ opening' = opening /\ wire' = wire
  BY DEF server
<1>5. Structure'
  BY <1>3, <1>4 DEF Sane, Structure
<1>. QED
  BY <1>2, <1>5 DEF Sane

LEMMA QuietSane ==
  ASSUME Sane, QuietActions \/ UNCHANGED vars
  PROVE  Sane'
<1>1. /\ open \in [End -> SUBSET (1 .. accepted)]
      /\ dialing \in 0 .. MaxDial /\ dead \subseteq 1 .. accepted
      /\ reconnectTimer \in BOOLEAN /\ ping \in {"none", "idle", "sent"}
      /\ \A e \in End : open[e] \subseteq open[e]
  BY DEF Sane, TypeOK
<1>2. CASE ReconnectTimerFires \/ HeartbeatRestored \/ DialFails
  <2>1. dialing' \in 0 .. MaxDial
    BY <1>1, <1>2, BoundsAssumption
       DEF ReconnectTimerFires, HeartbeatRestored, DialFails, socketVars
  <2>2. reconnectTimer' \in BOOLEAN
    BY <1>2, Zenon DEF ReconnectTimerFires, HeartbeatRestored, DialFails
  <2>. QED
    BY <1>1, <1>2, <2>1, <2>2, SameTransports
       DEF ReconnectTimerFires, HeartbeatRestored, DialFails, socketVars, serverVars, history
<1>3. CASE \E s \in Sockets : BreakSocket(s)
  <2>1. dead' \subseteq 1 .. accepted
    BY <1>1, <1>3, EndCases DEF BreakSocket, Sane, TypeOK
  <2>. QED
    BY <1>1, <1>3, <2>1, SameTransports DEF BreakSocket, serverVars, clientVars, history
<1>4. ASSUME NEW s \in Sockets, UnusedWebSocketFails(s)
      PROVE  Sane'
  <2>1. /\ open' = [open EXCEPT !["client"] = @ \ {s}]
        /\ s # client.socket
        /\ reconnectTimer' \in BOOLEAN
        /\ UNCHANGED <<ep, wire, accepted, opening, dialing, dead, ping, serverVars, history>>
    BY <1>1, <1>4 DEF UnusedWebSocketFails, IsDisconnected
  <2>2. open'["client"] = open["client"] \ {s} /\ open'["server"] = open["server"]
    BY <1>1, <2>1, EndCases
  <2>3. open' \in [End -> SUBSET (1 .. accepted)]
    BY <1>1, <2>1
  <2>4. \A e \in End : /\ open'[e] \subseteq open[e]
                       /\ ep[e].socket \in open[e] => ep[e].socket \in open'[e]
    BY <2>1, <2>2, EndCases DEF client
  <2>. QED
    BY <1>1, <2>1, <2>3, <2>4, SameTransports DEF serverVars, history
<1>5. CASE PingTimerFires \/ PongArrives
  BY <1>1, <1>5, SameTransports DEF PingTimerFires, PongArrives, serverVars, socketVars, history
<1>6. CASE UNCHANGED vars
  BY <1>1, <1>6, SameTransports DEF vars, serverVars, socketVars, clientVars, history
<1>. QED
  BY <1>2, <1>3, <1>4, <1>5, <1>6 DEF QuietActions

-----------------------------------------------------------------------------
(* Steps of the client's sockets *)

LEMMA CloseReliableSocketSane ==
  ASSUME Sane, NEW q \in Transport, q.socket = client.socket, Guarded(q),
         NEW frames \in Seq(Frame), CloseReliableSocket(q, frames),
         dialing' \in 0 .. MaxDial, sent' \in [End -> Seq(Message)],
         UNCHANGED <<accepted, opening, dead, serverVars, delivered, late>>
  PROVE  Sane'
<1>1. Close(q) \in Transport /\ Guarded(Close(q)) /\ Close(q).socket = NoSocket
  BY LoseSocketType, LoseSocketGuarded DEF Close, HandleTransportClose, Guarded, CheckLeaks,
     Transport
<1>. DEFINE w == Put(wire, client.socket, "client", frames)
            o == open["client"] \ {client.socket}
<1>2. w \in Wires
  BY SaneParts, EndCases, PutWires
<1>3. /\ wire' = Carried(w, ep', opening') /\ opening' = opening
      /\ ep' = [ep EXCEPT !["client"] = Close(q)]
      /\ open' = [open EXCEPT !["client"] = o]
      /\ reconnectTimer' = FALSE /\ ping' = "none"
  BY DEF CloseReliableSocket
<1>. HIDE DEF w
<1>4. o \subseteq 1 .. accepted /\ open'["client"] \cap opening = {}
  BY <1>3, EndCases DEF Sane, TypeOK, Structure
<1>5. /\ accepted' \in accepted .. MaxSocket /\ opening' \subseteq 1 .. accepted'
      /\ registered' \in BOOLEAN /\ up' \in BOOLEAN /\ restarts' = restarts
      /\ retired' \in 0 .. accepted' /\ delivered' \in [End -> Seq(Message)]
      /\ late' \in BOOLEAN /\ dead' = dead
      /\ UNCHANGED <<registered, up, retired, accepted>>
      /\ ~up' => ~registered' /\ retired' = accepted' /\ restarts < MaxRestart
  BY SaneParts DEF serverVars, Sane, TypeOK, Structure
<1>. HIDE DEF o
<1>. QED
  BY <1>1, <1>2, <1>3, <1>4, <1>5, OneEndStep, EndCases

LEMMA DialRefusedSane ==
  ASSUME Sane, DialRefused
  PROVE  Sane'
<1>1. dialing' \in 0 .. MaxDial
  BY BoundsAssumption DEF DialRefused, Sane, TypeOK
<1>2. CASE CloseReliableSocket(client, <<>>)
  <2>1. <<>> \in Seq(Frame) /\ client.socket = client.socket
    BY EmptySeq
  <2>2. client \in Transport /\ Guarded(client)
    BY SaneParts, EndCases DEF client
  <2>3. sent' \in [End -> Seq(Message)]
    BY DEF DialRefused, history, Sane, TypeOK
  <2>. QED
    BY <1>1, <1>2, <2>1, <2>2, <2>3, CloseReliableSocketSane DEF DialRefused, history
<1>3. CASE /\ reconnectTimer' = (reconnectTimer \/ IsDisconnected(client))
           /\ UNCHANGED <<ep, wire, open, ping>>
  <2>1. reconnectTimer' \in BOOLEAN
    BY <1>3, Zenon
  <2>2. /\ open' \in [End -> SUBSET (1 .. accepted)]
        /\ dead' \subseteq 1 .. accepted /\ ping' \in {"none", "idle", "sent"}
        /\ \A e \in End : open'[e] \subseteq open[e]
    BY <1>3 DEF DialRefused, Sane, TypeOK
  <2>. QED
    BY <1>1, <1>3, <2>1, <2>2, SameTransports DEF DialRefused, serverVars, history
<1>. QED
  BY <1>2, <1>3 DEF DialRefused

\* A step of the client that neither closes nor opens a socket of the server.
LEMMA ClientStep ==
  ASSUME Sane, NEW q \in Transport, Guarded(q), NEW o, NEW w \in Wires,
         ep' = [ep EXCEPT !["client"] = q],
         open' = [open EXCEPT !["client"] = o],
         wire' = Carried(w, ep', opening'),
         o \subseteq 1 .. accepted, q.socket \in o \cup {NoSocket},
         opening' \subseteq opening, o \cap opening' = {},
         reconnectTimer' \in BOOLEAN, ping' \in {"none", "idle", "sent"},
         sent' \in [End -> Seq(Message)], delivered' \in [End -> Seq(Message)],
         late' \in BOOLEAN,
         UNCHANGED <<accepted, dialing, dead, registered, up, restarts, retired>>
  PROVE  Sane'
<1>1. /\ accepted' \in accepted .. MaxSocket /\ accepted' = accepted
      /\ opening' \subseteq 1 .. accepted'
      /\ dialing' \in 0 .. MaxDial /\ registered' \in BOOLEAN /\ up' \in BOOLEAN
      /\ retired' \in 0 .. accepted'
      /\ ~up' => ~registered' /\ retired' = accepted' /\ restarts < MaxRestart
  BY SaneParts DEF Sane, TypeOK, Structure
<1>2. open'["client"] \cap opening' = {}
  BY EndCases DEF Sane, TypeOK
<1>. QED
  BY <1>1, <1>2, OneEndStep, EndCases

LEMMA OpensSane ==
  ASSUME Sane, NEW s \in Sockets, Opens(s)
  PROVE  Sane'
<1>. DEFINE adopt == IsDisconnected(client)
            frames == IF adopt THEN ReconnectFrames(client) ELSE <<>>
            q == IF adopt THEN Reconnect(client, s) ELSE client
            w == Put(wire, s, "client", frames)
            o == open["client"] \cup {s}
<1>1. /\ wire \in Wires /\ client \in Transport /\ Guarded(client)
      /\ s \in Nat /\ s # NoSocket /\ s \in 1 .. accepted
      /\ open["client"] \subseteq 1 .. accepted
      /\ client.socket \in open["client"] \cup {NoSocket}
      /\ open["client"] \cap opening = {}
      /\ accepted \in Nat
  BY SMTT(30), SaneParts, EndCases DEF Sockets, NoSocket, Opens, client, Sane, TypeOK, Structure
<1>2. frames \in Seq(Frame)
  BY <1>1, FramesType, EmptySeq
<1>3. w \in Wires
  <2>. HIDE DEF frames
  <2>. QED  BY <1>1, <1>2, PutWires, EndCases
<1>4. q \in Transport /\ Guarded(q) /\ q.socket \in o \cup {NoSocket}
  BY <1>1, ReconnectType, ReconnectGuarded
<1>5. /\ ep' = [ep EXCEPT !["client"] = q]
      /\ open' = [open EXCEPT !["client"] = o]
      /\ wire' = Carried(w, ep', opening')
      /\ opening' = opening \ {s}
      /\ UNCHANGED <<accepted, dialing, dead, registered, up, restarts, retired, sent, delivered>>
  BY DEF Opens, serverVars, client, Sane, TypeOK
<1>6. late' \in BOOLEAN
  BY Zenon DEF Opens
<1>7. /\ reconnectTimer' \in BOOLEAN /\ ping' \in {"none", "idle", "sent"}
      /\ sent' \in [End -> Seq(Message)] /\ delivered' \in [End -> Seq(Message)]
  BY <1>5 DEF Opens, Sane, TypeOK
<1>. HIDE DEF frames, q, w
<1>8. o \subseteq 1 .. accepted /\ opening' \subseteq opening /\ o \cap opening' = {}
  BY <1>1, <1>5
<1>. HIDE DEF o
<1>. QED
  BY <1>3, <1>4, <1>5, <1>6, <1>7, <1>8, ClientStep

LEMMA OpenFailsSane ==
  ASSUME Sane, NEW s \in Sockets, OpenFails(s)
  PROVE  Sane'
<1>. DEFINE o == open["client"]
<1>1. /\ wire \in Wires /\ client \in Transport /\ Guarded(client)
      /\ o \subseteq 1 .. accepted
      /\ client.socket \in o \cup {NoSocket}
      /\ o \cap (opening \ {s}) = {}
  BY SaneParts, EndCases DEF client, Sane, TypeOK, Structure
<1>2. /\ ep' = [ep EXCEPT !["client"] = client]
      /\ open' = [open EXCEPT !["client"] = o]
      /\ wire' = Carried(wire, ep', opening')
      /\ opening' = opening \ {s}
      /\ UNCHANGED <<accepted, dialing, dead, registered, up, restarts, retired,
                     sent, delivered, late, ping>>
  BY DEF OpenFails, serverVars, history, client, Sane, TypeOK
<1>3. reconnectTimer' \in BOOLEAN
  BY Zenon DEF OpenFails
<1>4. /\ ping' \in {"none", "idle", "sent"} /\ late' \in BOOLEAN
      /\ sent' \in [End -> Seq(Message)] /\ delivered' \in [End -> Seq(Message)]
      /\ opening' \subseteq opening
  BY <1>2 DEF Sane, TypeOK
<1>. QED
  BY <1>1, <1>2, <1>3, <1>4, ClientStep

\* A step of the server that opens or closes no socket but its own.
LEMMA ServerStep ==
  ASSUME Sane, NEW q \in Transport, Guarded(q), NEW o, NEW w \in Wires,
         ep' = [ep EXCEPT !["server"] = q],
         open' = [open EXCEPT !["server"] = o],
         wire' = Carried(w, ep', opening'),
         accepted' \in accepted .. MaxSocket,
         o \subseteq 1 .. accepted', q.socket \in o \cup {NoSocket},
         opening' \subseteq 1 .. accepted', open["client"] \cap opening' = {},
         dialing' \in 0 .. MaxDial,
         ping' \in {"none", "idle", "sent"},
         registered' \in BOOLEAN,
         up' \in BOOLEAN,
         retired' \in 0 .. accepted',
         ~registered' => q = NewTransport,
         q.socket = NoSocket \/ q.socket > retired',
         ~up' => ~registered' /\ retired' = accepted' /\ restarts < MaxRestart,
         sent' \in [End -> Seq(Message)], delivered' \in [End -> Seq(Message)],
         UNCHANGED <<dead, reconnectTimer, restarts, late>>
  PROVE  Sane'
<1>1. reconnectTimer' \in BOOLEAN /\ late' \in BOOLEAN /\ "server" # "client"
  BY DEF Sane, TypeOK
<1>2. open'["client"] \cap opening' = {}
  BY EndCases DEF Sane, TypeOK
<1>. QED
  BY <1>1, <1>2, OneEndStep, EndCases

LEMMA AcceptSane ==
  ASSUME Sane, Accept
  PROVE  Sane'
<1>. DEFINE s == accepted + 1
            w == Put(wire, s, "server", ReconnectFrames(server))
            q == Reconnect(server, s)
            replaced == IF server.isClosed THEN {} ELSE {server.socket}
            o == (open["server"] \ replaced) \cup {s}
<1>1. /\ wire \in Wires /\ server \in Transport /\ Guarded(server)
      /\ s \in Nat /\ s # NoSocket /\ s \in 1 .. MaxSocket /\ accepted \in Nat
      /\ open["server"] \subseteq 1 .. accepted
      /\ server.socket \in open["server"] \cup {NoSocket}
      /\ open["client"] \subseteq 1 .. accepted
      /\ open["client"] \cap opening = {}
      /\ opening \subseteq 1 .. accepted
      /\ MaxSocket \in Nat
      /\ retired \in 0 .. accepted
      /\ server.isClosed => server.socket = NoSocket
  <2>1. /\ wire \in Wires /\ server \in Transport /\ Guarded(server) /\ accepted \in Nat
        /\ MaxSocket \in Nat
    BY SaneParts, EndCases DEF server, Sane
  <2>2. /\ s \in 1 .. MaxSocket /\ s \in Nat /\ s # NoSocket
    BY <2>1 DEF Accept, Sockets, NoSocket
  <2>3. /\ open["server"] \subseteq 1 .. accepted /\ open["client"] \subseteq 1 .. accepted
        /\ open["client"] \cap opening = {} /\ opening \subseteq 1 .. accepted
        /\ retired \in 0 .. accepted
    BY SaneParts, EndCases DEF Sane, TypeOK, Structure
  <2>4. /\ server.socket \in open["server"] \cup {NoSocket}
        /\ server.isClosed => server.socket = NoSocket
    BY SaneParts, EndCases DEF server, Sane, TypeOK, Structure
  <2>. QED BY <2>1, <2>2, <2>3, <2>4
<1>2. server = IF registered THEN server ELSE NewTransport
  BY DEF Sane, Structure
<1>3. /\ ep' = [ep EXCEPT !["server"] = q]
      /\ open' = [open EXCEPT !["server"] = o]
      /\ opening' = opening \cup {s}
      /\ wire' = Carried(w, ep', opening')
      /\ accepted' = s
      /\ registered' = TRUE
      /\ dialing' = dialing - 1 /\ dialing > 0
      /\ up' = up /\ up
      /\ UNCHANGED <<dead, reconnectTimer, ping, restarts, retired, sent, delivered, late>>
  <2>. HIDE DEF o, q, w
  <2>. QED
    BY <1>2 DEF Accept, serverVars, clientVars, history, o, q, w
<1>4. w \in Wires
  BY <1>1, FramesType, PutWires, EndCases
<1>5. /\ q \in Transport /\ Guarded(q)
      /\ q.socket = IF server.isClosed THEN server.socket ELSE s
  <2>1. ~server.isClosed => q.socket = s
    BY <1>1, ReconnectSocket
  <2>2. server.isClosed => q = server
    BY DEF Reconnect
  <2>. QED  BY <1>1, <2>1, <2>2, ReconnectType, ReconnectGuarded
<1>. HIDE DEF w, q
<1>6. /\ o \subseteq 1 .. accepted' /\ q.socket \in o \cup {NoSocket}
      /\ opening' \subseteq 1 .. accepted'
      /\ open["client"] \cap opening' = {}
      /\ accepted' \in accepted .. MaxSocket
      /\ retired' \in 0 .. accepted'
      /\ q.socket = NoSocket \/ q.socket > retired'
  BY <1>1, <1>3, <1>5
<1>7. /\ dialing' \in 0 .. MaxDial
      /\ ping' \in {"none", "idle", "sent"} /\ registered' /\ up'
      /\ registered' \in BOOLEAN /\ up' \in BOOLEAN
      /\ sent' \in [End -> Seq(Message)] /\ delivered' \in [End -> Seq(Message)]
  BY <1>3, BoundsAssumption DEF Sane, TypeOK
<1>. HIDE DEF o
<1>. QED
  BY <1>3, <1>4, <1>5, <1>6, <1>7, ServerStep

-----------------------------------------------------------------------------
(* Losing sockets *)

LEMMA LoseWebSocketSane ==
  ASSUME Sane, NEW e \in End, NEW s, e = "server" => s # NoSocket, LoseWebSocket(e, s)
  PROVE  Sane'
<1>. DEFINE used == ep[e].socket = s
            q == IF used THEN HandleTransportClose(ep[e]) ELSE ep[e]
            o == open[e] \ {s}
<1>1. /\ wire \in Wires /\ ep[e] \in Transport /\ Guarded(ep[e])
      /\ open[e] \subseteq 1 .. accepted
      /\ ep[e].socket \in open[e] \cup {NoSocket}
  BY SaneParts DEF Sane, TypeOK
<1>2. /\ q \in Transport /\ Guarded(q)
      /\ used => q.socket = NoSocket
      /\ ~used => q = ep[e]
      /\ q.socket \in o \cup {NoSocket}
  BY <1>1, LoseSocketType, LoseSocketGuarded
<1>3. /\ ep' = [ep EXCEPT ![e] = q]
      /\ open' = [open EXCEPT ![e] = o]
      /\ wire' = Carried(wire, ep', opening') /\ opening' = opening
      /\ UNCHANGED <<accepted, opening, dialing, dead, registered, up, restarts, retired,
                     sent, delivered, late>>
  BY DEF LoseWebSocket, serverVars, history, Sane, TypeOK
<1>4. reconnectTimer' \in BOOLEAN /\ ping' \in {"none", "idle", "sent"}
  BY DEF LoseWebSocket, clientVars, Sane, TypeOK
<1>5. e = "server" => /\ ~registered' => q = NewTransport
                      /\ q.socket = NoSocket \/ q.socket > retired'
  <2>. SUFFICES ASSUME e = "server"
                PROVE  /\ ~registered' => q = NewTransport
                       /\ q.socket = NoSocket \/ q.socket > retired'
    OBVIOUS
  <2>1. /\ ~registered => ep[e] = NewTransport
        /\ ep[e].socket = NoSocket \/ ep[e].socket > retired
    BY DEF Sane, Structure, server
  <2>2. ~registered => ~used
    BY <2>1 DEF NewTransport
  <2>. HIDE DEF q, used
  <2>. QED  BY <1>2, <1>3, <2>1, <2>2
<1>6. /\ accepted' \in accepted .. MaxSocket /\ opening' \subseteq 1 .. accepted'
      /\ dialing' \in 0 .. MaxDial /\ registered' \in BOOLEAN /\ up' \in BOOLEAN
      /\ retired' \in 0 .. accepted' /\ late' \in BOOLEAN
      /\ sent' \in [End -> Seq(Message)] /\ delivered' \in [End -> Seq(Message)]
      /\ ~up' => ~registered' /\ retired' = accepted' /\ restarts < MaxRestart
      /\ o \subseteq 1 .. accepted'
  BY <1>1, <1>3, SaneParts DEF Sane, TypeOK, Structure
<1>7. open'["client"] \cap opening' = {}
  <2>1. open'["client"] \subseteq open["client"]
    BY <1>3, EndCases DEF Sane, TypeOK
  <2>. QED  BY <1>3, <2>1 DEF Sane, Structure
<1>8. /\ e = "client" => UNCHANGED <<registered, up, retired, accepted>>
      /\ dead' = dead /\ restarts' = restarts
  BY <1>3
<1>. HIDE DEF q, o, used
<1>. QED
  BY <1>1, <1>2, <1>3, <1>4, <1>5, <1>6, <1>7, <1>8, OneEndStep

LosingActions ==
  \/ \E s \in Sockets, e \in End : WebSocketCloses(e, s)
  \/ PingTimeout
  \/ \E e \in End : PendingMessageTimeout(e)

\* The three ways to lose a socket; the timer of a transport guards a socket
\* that is there.
LEMMA LosingCases ==
  ASSUME Sane, LosingActions
  PROVE  \E e \in End : \E s : /\ e = "server" => s # NoSocket
                               /\ LoseWebSocket(e, s)
<1>1. ASSUME NEW s \in Sockets, NEW e \in End, WebSocketCloses(e, s)
      PROVE  s # NoSocket /\ LoseWebSocket(e, s)
  BY <1>1 DEF WebSocketCloses, Sockets, NoSocket
<1>2. ASSUME PingTimeout
      PROVE  LoseWebSocket("client", client.socket)
  BY <1>2 DEF PingTimeout
<1>3. ASSUME NEW e \in End, PendingMessageTimeout(e)
      PROVE  ep[e].socket # NoSocket /\ LoseWebSocket(e, ep[e].socket)
  BY <1>3, SaneParts DEF PendingMessageTimeout
<1>. QED
  BY <1>1, <1>2, <1>3, EndCases DEF LosingActions

-----------------------------------------------------------------------------
(* Messages *)

\* A step of one end that changes neither its sockets nor the server process.
LEMMA MessageStep ==
  ASSUME Sane, NEW e \in End, NEW q \in Transport, Guarded(q),
         q.socket = ep[e].socket, NEW w \in Wires,
         ep' = [ep EXCEPT ![e] = q],
         wire' = Carried(w, ep', opening'),
         e = "server" => registered,
         ping' \in {"none", "idle", "sent"},
         sent' \in [End -> Seq(Message)], delivered' \in [End -> Seq(Message)],
         UNCHANGED <<accepted, opening, dialing, open, dead, reconnectTimer,
                     registered, up, restarts, retired, late>>
  PROVE  Sane'
<1>. DEFINE o == open[e]
<1>1. /\ open' = [open EXCEPT ![e] = o]
      /\ o \subseteq 1 .. accepted
      /\ q.socket \in o \cup {NoSocket}
      /\ dialing' \in 0 .. MaxDial
      /\ registered' \in BOOLEAN /\ up' \in BOOLEAN /\ reconnectTimer' \in BOOLEAN
      /\ late' \in BOOLEAN
      /\ retired' \in 0 .. accepted' /\ opening' \subseteq 1 .. accepted'
      /\ ~up' => ~registered' /\ retired' = accepted' /\ restarts < MaxRestart
      /\ accepted' \in accepted .. MaxSocket
      /\ open'["client"] \cap opening' = {}
  BY SaneParts DEF Sane, TypeOK, Structure
<1>2. e = "server" => /\ ~registered' => q = NewTransport
                      /\ q.socket = NoSocket \/ q.socket > retired'
  BY DEF Sane, Structure, server
<1>. HIDE DEF o
<1>. QED
  BY <1>1, <1>2, OneEndStep

LEMMA SendSane ==
  ASSUME Sane, NEW e \in End, NEW m \in Message, ~ep[e].isClosed,
         e = "server" => registered, Send(e, m)
  PROVE  Sane'
<1>1. /\ wire \in Wires /\ ep[e] \in Transport /\ Guarded(ep[e]) /\ m \in Msg
  BY SaneParts, MsgAssumption
<1>2. /\ Enqueue(ep[e], m) \in Transport
      /\ Enqueue(ep[e], m).socket = ep[e].socket
      /\ Guarded(Enqueue(ep[e], m))
      /\ SendFrames(ep[e], m) \in Seq(Frame)
  BY <1>1, EnqueueType, EnqueueGuarded, FramesType
<1>3. Put(wire, ep[e].socket, e, SendFrames(ep[e], m)) \in Wires
  BY <1>1, <1>2, PutWires
<1>4. sent' \in [End -> Seq(Message)]
  <2>1. Append(sent[e], m) \in Seq(Message)
    BY DEF Sane, TypeOK
  <2>. QED  BY <2>1 DEF Send, Sane, TypeOK
<1>5. /\ ping' \in {"none", "idle", "sent"} /\ delivered' \in [End -> Seq(Message)]
  BY DEF Send, clientVars, Sane, TypeOK
<1>. QED
  BY <1>2, <1>3, <1>4, <1>5, MessageStep DEF Send, clientVars, serverVars

LEMMA AckTimeoutSane ==
  ASSUME Sane, NEW e \in End, AckTimeout(e)
  PROVE  Sane'
<1>1. /\ wire \in Wires /\ ep[e] \in Transport /\ Guarded(ep[e])
  BY SaneParts
<1>2. /\ HandleAckTimer(ep[e]) \in Transport
      /\ HandleAckTimer(ep[e]).socket = ep[e].socket
      /\ Guarded(HandleAckTimer(ep[e]))
      /\ AckFrames(ep[e]) \in Seq(Frame)
  BY <1>1, HandleAckTimerGuarded, FramesType
<1>3. Put(wire, ep[e].socket, e, AckFrames(ep[e])) \in Wires
  BY <1>1, <1>2, PutWires
<1>4. /\ ping' \in {"none", "idle", "sent"} /\ delivered' \in [End -> Seq(Message)]
      /\ sent' \in [End -> Seq(Message)]
  BY DEF AckTimeout, clientVars, history, Sane, TypeOK
<1>5. e = "server" => registered
  <2>. SUFFICES ASSUME e = "server", ~registered PROVE FALSE
    BY DEF Sane, TypeOK
  <2>1. ep[e] = NewTransport
    BY DEF Sane, Structure, server
  <2>. QED  BY <2>1 DEF AckTimeout, NewTransport
<1>. QED
  BY <1>2, <1>3, <1>4, <1>5, MessageStep DEF AckTimeout, clientVars, serverVars, history

LEMMA ClientClosesSane ==
  ASSUME Sane, ClientCloses
  PROVE  Sane'
<1>1. client \in Transport /\ Guarded(client) /\ ~client.isClosed /\ CloseMessage \in Msg
  BY SaneParts, EndCases, MsgAssumption DEF client, ClientCloses, Message
<1>2. /\ Enqueue(client, CloseMessage) \in Transport
      /\ Enqueue(client, CloseMessage).socket = client.socket
      /\ Guarded(Enqueue(client, CloseMessage))
      /\ SendFrames(client, CloseMessage) \in Seq(Frame)
  BY <1>1, EnqueueType, EnqueueGuarded, FramesType
<1>3. sent' \in [End -> Seq(Message)]
  <2>1. Append(sent["client"], CloseMessage) \in Seq(Message)
    BY <1>1, MsgAssumption, EndCases DEF Sane, TypeOK
  <2>. QED  BY <2>1 DEF ClientCloses, Sane, TypeOK
<1>4. dialing' \in 0 .. MaxDial
  BY DEF ClientCloses, Sane, TypeOK
<1>. QED
  BY <1>2, <1>3, <1>4, CloseReliableSocketSane DEF ClientCloses

\* The frame that an open transport reads next.
LEMMA NextFrame ==
  ASSUME Sane, NEW e \in End, IsOpen(ep[e]), wire[ep[e].socket][e] # <<>>
  PROVE  LET f == Head(wire[ep[e].socket][e]) IN
         /\ ep[e].socket \in Sockets
         /\ 1 \in 1 .. Len(wire[ep[e].socket][e])
         /\ f = wire[ep[e].socket][e][1]
         /\ f \in Frame
         /\ f.type = "CONTENT" => f \in ContentFrame
         /\ f.type = "ACK" => f \in AckFrame
         /\ Took(wire, ep[e].socket, e, 1) \in Wires
<1>. DEFINE x == wire[ep[e].socket][e]
<1>1. ep[e].socket \in Sockets /\ wire \in Wires
  BY SaneParts
<1>2. x \in Seq(Frame) /\ x # <<>>
  BY <1>1 DEF Wires
<1>3. Head(x) = x[1] /\ Head(x) \in Frame /\ 1 \in 1 .. Len(x)
  <2>. HIDE DEF x
  <2>1. Len(x) \in Nat /\ Len(x) # 0
    BY <1>2, LenProperties, EmptySeq
  <2>2. 1 \in 1 .. Len(x)
    BY <2>1
  <2>. QED  BY <1>2, <2>2, ElementOfSeq, HeadTailProperties
<1>4. Took(wire, ep[e].socket, e, 1) \in Wires
  BY <1>1, <1>3, TookFrames
<1>. QED
  BY <1>1, <1>3, <1>4 DEF Frame, ContentFrame, AckFrame

LEMMA ForgetClientSane ==
  ASSUME Sane, ForgetClient, NEW w \in Wires, wire' = Carried(w, ep', opening'),
         ping' \in {"none", "idle", "sent"},
         UNCHANGED <<accepted, opening, dialing, dead, reconnectTimer, up, restarts,
                     retired, late>>
  PROVE  Sane'
<1>. DEFINE q == NewTransport
            o == open["server"] \ {server.socket}
<1>1. /\ q = NewTransport /\ q \in Transport /\ Guarded(q) /\ q.socket = NoSocket
  BY NewTransportType, NewTransportGuarded DEF NewTransport
<1>2. /\ o \subseteq 1 .. accepted'
      /\ accepted' \in accepted .. MaxSocket
      /\ opening' \subseteq 1 .. accepted' /\ open["client"] \cap opening' = {}
      /\ dialing' \in 0 .. MaxDial /\ up' \in BOOLEAN
      /\ retired' \in 0 .. accepted'
      /\ ~up' => retired' = accepted' /\ restarts < MaxRestart
  BY SMTT(30), SaneParts, EndCases DEF Sane, TypeOK, Structure
<1>3. /\ ep' = [ep EXCEPT !["server"] = q]
      /\ open' = [open EXCEPT !["server"] = o]
      /\ registered' = FALSE
  BY DEF ForgetClient
<1>4. /\ sent' \in [End -> Seq(Message)] /\ delivered' \in [End -> Seq(Message)]
  <2>1. <<>> \in Seq(Message)
    BY EmptySeq
  <2>. QED  BY <2>1 DEF ForgetClient, Sane, TypeOK
<1>5. registered' \in BOOLEAN
  BY <1>3
<1>. HIDE DEF q, o
<1>. QED
  BY <1>1, <1>2, <1>3, <1>4, <1>5, ServerStep

LEMMA ReceiveSane ==
  ASSUME Sane, NEW e \in End, Receive(e)
  PROVE  Sane'
<1>. DEFINE s == ep[e].socket
            f == Head(wire[s][e])
            w == Took(wire, s, e, 1)
<1>1. /\ IsOpen(ep[e]) /\ wire[s][e] # <<>>
      /\ \/ f.type = "CONTENT" /\ ReceiveContent(e, f)
         \/ f.type = "ACK" /\ ReceiveAck(e, f)
      /\ wire' = Carried(w, ep', opening) /\ opening' = opening
      /\ UNCHANGED <<accepted, opening, dialing, dead, reconnectTimer, up, restarts,
                     retired, late>>
  BY DEF Receive
<1>2. /\ w \in Wires
      /\ f.type = "CONTENT" => f \in ContentFrame
      /\ f.type = "ACK" => f \in AckFrame
  BY <1>1, NextFrame
<1>3. ping' \in {"none", "idle", "sent"}
  BY DEF Receive, Sane, TypeOK
<1>4. ep[e] \in Transport /\ Guarded(ep[e]) /\ MaxRequest \in Nat
  BY SaneParts
<1>5. e = "server" => registered
  <2>. SUFFICES ASSUME e = "server", ~registered PROVE FALSE
    BY DEF Sane, TypeOK
  <2>1. ep[e] = NewTransport
    BY DEF Sane, Structure, server
  <2>. QED  BY <1>1, <2>1 DEF IsOpen, NewTransport
<1>. HIDE DEF f, w
<1>6. CASE f.type = "CONTENT" /\ ReceiveContent(e, f)
  <2>1. PICK n \in 0 .. MaxRequest + 1 :
          /\ ProcessesUpTo(ep[e], f, n)
          /\ \/ ForgetClient
             \/ /\ ep' = [ep EXCEPT ![e] = HandleContent(@, f, n)]
                /\ delivered' = [delivered EXCEPT ![e] = @ \o Processed(ep[e], f, n)]
                /\ UNCHANGED <<registered, open, sent>>
    BY <1>6 DEF ReceiveContent
  <2>2. n \in Nat /\ n >= ep[e].lastProcessedId
    BY <1>4, <2>1 DEF ProcessesUpTo
  <2>3. CASE ForgetClient
    BY <1>1, <1>2, <1>3, <2>3, ForgetClientSane
  <2>4. CASE /\ ep' = [ep EXCEPT ![e] = HandleContent(@, f, n)]
             /\ delivered' = [delivered EXCEPT ![e] = @ \o Processed(ep[e], f, n)]
             /\ UNCHANGED <<registered, open, sent>>
    <3>1. /\ HandleContent(ep[e], f, n) \in Transport
          /\ HandleContent(ep[e], f, n).socket = ep[e].socket
          /\ Guarded(HandleContent(ep[e], f, n))
      BY <1>1, <1>2, <1>4, <1>6, <2>2, HandleContentType, HandleContentGuarded
    <3>2. delivered' \in [End -> Seq(Message)]
      <4>1. Processed(ep[e], f, n) \in Seq(Message) /\ delivered[e] \in Seq(Message)
        BY <1>2, <1>4, <1>6, <2>1, <2>2, ProcessedType, MsgAssumption DEF Sane, TypeOK
      <4>2. delivered[e] \o Processed(ep[e], f, n) \in Seq(Message)
        BY <4>1, ConcatProperties
      <4>. QED  BY <2>4, <4>2 DEF Sane, TypeOK
    <3>3. sent' \in [End -> Seq(Message)]
      BY <2>4 DEF Sane, TypeOK
    <3>. QED
      BY <1>1, <1>2, <1>3, <1>5, <2>4, <3>1, <3>2, <3>3, MessageStep
  <2>. QED  BY <2>1, <2>3, <2>4
<1>7. CASE f.type = "ACK" /\ ReceiveAck(e, f)
  <2>1. PICK k \in 0 .. MaxRequest + 1 :
          /\ AcknowledgesFirst(ep[e], f, k)
          /\ ep' = [ep EXCEPT ![e] = HandleAck(@, f, k)]
    BY <1>7 DEF ReceiveAck
  <2>. DEFINE q == HandleAck(ep[e], f, k)
              o == IF IsAmnesia(ep[e], f) THEN open[e] \ {ep[e].socket} ELSE open[e]
  <2>2. k \in 0 .. Len(ep[e].pendingSends)
    BY <2>1 DEF AcknowledgesFirst
  <2>3. q \in Transport /\ Guarded(q) /\ q.socket \in {s, NoSocket}
    BY <1>4, <2>2, HandleAckType, HandleAckGuarded
  <2>4. IsAmnesia(ep[e], f) => q.socket = NoSocket
    BY <1>1 DEF HandleAck, Close, HandleTransportClose, IsOpen, Transport
  <2>5. /\ ep' = [ep EXCEPT ![e] = q]
        /\ open' = [open EXCEPT ![e] = o]
        /\ UNCHANGED <<registered, sent, delivered>>
    <3>1. open' = IF IsAmnesia(ep[e], f)
                    THEN [open EXCEPT ![e] = @ \ {ep[e].socket}] ELSE open
      BY <1>7 DEF ReceiveAck
    <3>2. open' = [open EXCEPT ![e] = o]
      BY <3>1 DEF Sane, TypeOK
    <3>. QED  BY <1>7, <2>1, <3>2 DEF ReceiveAck
  <2>6. q.socket \in o \cup {NoSocket}
    <3>1. ep[e].socket \in open[e] \cup {NoSocket}
      BY DEF Sane, TypeOK
    <3>. HIDE DEF q
    <3>. QED  BY <2>3, <2>4, <3>1
  <2>. HIDE DEF q
  <2>7. /\ o \subseteq 1 .. accepted' /\ open'["client"] \cap opening' = {}
    <3>1. o \subseteq open[e]
      OBVIOUS
    <3>2. open'["client"] \subseteq open["client"]
      BY <2>5, <3>1, EndCases DEF Sane, TypeOK
    <3>. QED  BY <1>1, <3>1, <3>2, SaneParts DEF Sane, Structure
  <2>. HIDE DEF o
  <2>8. /\ accepted' \in accepted .. MaxSocket /\ opening' \subseteq 1 .. accepted'
        /\ dialing' \in 0 .. MaxDial /\ registered' \in BOOLEAN /\ up' \in BOOLEAN
        /\ retired' \in 0 .. accepted' /\ late' \in BOOLEAN /\ reconnectTimer' \in BOOLEAN
        /\ sent' \in [End -> Seq(Message)] /\ delivered' \in [End -> Seq(Message)]
        /\ ~up' => ~registered' /\ retired' = accepted' /\ restarts < MaxRestart
    BY <1>1, <2>5, SaneParts DEF Sane, TypeOK, Structure
  <2>9. e = "server" => /\ ~registered' => q = NewTransport
                        /\ q.socket = NoSocket \/ q.socket > retired'
    BY <1>1, <1>5, <2>3, <2>5 DEF Sane, Structure, server
  <2>. QED
    BY <1>1, <1>2, <1>3, <2>3, <2>5, <2>6, <2>7, <2>8, <2>9, OneEndStep
<1>. QED
  BY <1>1, <1>6, <1>7

-----------------------------------------------------------------------------
(* The server process *)

LEMMA CrashSane ==
  ASSUME Sane, Crash
  PROVE  Sane'
<1>. DEFINE q == NewTransport
            o == {}
<1>1. /\ q = NewTransport /\ q \in Transport /\ Guarded(q) /\ q.socket = NoSocket
  BY NewTransportType, NewTransportGuarded DEF NewTransport
<1>2. /\ wire \in Wires /\ accepted' = accepted /\ opening' = opening
      /\ accepted' \in accepted .. MaxSocket
      /\ o \subseteq 1 .. accepted'
      /\ opening' \subseteq 1 .. accepted' /\ open["client"] \cap opening' = {}
      /\ dialing' \in 0 .. MaxDial
      /\ ping' \in {"none", "idle", "sent"}
      /\ retired' = accepted' /\ retired' \in 0 .. accepted'
      /\ UNCHANGED <<dead, reconnectTimer, restarts, late>>
  BY SaneParts DEF Crash, clientVars, Sane, TypeOK, Structure
<1>3. /\ ep' = [ep EXCEPT !["server"] = q]
      /\ open' = [open EXCEPT !["server"] = o]
      /\ wire' = Carried(wire, ep', opening')
      /\ registered' = FALSE /\ up' = FALSE
      /\ restarts < MaxRestart
  BY DEF Crash
<1>4. /\ sent' \in [End -> Seq(Message)] /\ delivered' \in [End -> Seq(Message)]
  <2>1. <<>> \in Seq(Message)
    BY EmptySeq
  <2>. QED  BY <2>1 DEF Crash, Sane, TypeOK
<1>5. registered' \in BOOLEAN /\ up' \in BOOLEAN
  BY <1>3
<1>. HIDE DEF q, o
<1>. QED
  BY <1>1, <1>2, <1>3, <1>4, <1>5, ServerStep

LEMMA RestartSane ==
  ASSUME Sane, Restart
  PROVE  Sane'
<1>1. /\ up' = TRUE /\ restarts' = restarts + 1 /\ ~up
      /\ UNCHANGED <<ep, wire, accepted, opening, dialing, open, dead, reconnectTimer,
                     ping, registered, retired, sent, delivered, late>>
  BY DEF Restart, socketVars, clientVars, history
<1>2. restarts' \in 0 .. MaxRestart
  BY <1>1, SaneParts DEF Sane, Structure, TypeOK
<1>3. TypeOK'
  BY <1>1, <1>2 DEF Sane, TypeOK
<1>4. server' = server /\ ep' = ep
  BY <1>1 DEF server
<1>5. Structure'
  BY <1>1, <1>4 DEF Sane, Structure
<1>. QED
  BY <1>3, <1>5 DEF Sane

-----------------------------------------------------------------------------
(* Every step *)

LEMMA MessageTypes ==
  /\ Request \in Message /\ CloseMessage \in Message
  /\ \A i \in 0 .. MaxRestart : Reply(i) \in Message
  BY DEF Message

LEMMA SaneStep ==
  ASSUME Sane, [Next]_vars
  PROVE  Sane'
<1>1. CASE QuietActions \/ UNCHANGED vars
  BY <1>1, QuietSane
<1>2. CASE DialRefused \/ Accept \/ ClientCloses \/ Crash \/ Restart
  BY <1>2, DialRefusedSane, AcceptSane, ClientClosesSane, CrashSane, RestartSane
<1>3. CASE \E s \in Sockets : Opens(s) \/ OpenFails(s)
  BY <1>3, OpensSane, OpenFailsSane
<1>4. CASE LosingActions
  BY <1>4, LosingCases, LoseWebSocketSane
<1>5. CASE SendRequest
  BY <1>5, SendSane, MessageTypes, EndCases DEF SendRequest, client
<1>6. CASE SendReply
  <2>1. Reply(restarts) \in Message
    BY MessageTypes DEF Sane, TypeOK
  <2>. QED  BY <1>6, <2>1, SendSane, EndCases DEF SendReply, server
<1>7. CASE \E e \in End : AckTimeout(e) \/ Receive(e)
  BY <1>7, AckTimeoutSane, ReceiveSane
<1>. QED
  BY <1>1, <1>2, <1>3, <1>4, <1>5, <1>6, <1>7 DEF Next, QuietActions, LosingActions

\* The types of the variables, for every bound, and what they rest on.
THEOREM SaneAlways == Spec => []Sane
<1>1. Sane /\ [Next]_vars => Sane'
  BY SaneStep
<1>. QED
  BY <1>1, InitSane, PTL DEF Spec

\* TypeOK, for every bound on requests, dials, sockets and restarts.
THEOREM TypeCorrect == Spec => []TypeOK
<1>1. Sane => TypeOK
  BY DEF Sane
<1>. QED
  BY <1>1, SaneAlways, PTL

-----------------------------------------------------------------------------
(* What a step does to the transports, the wires and the histories.  Every  *)
(* action is one of these, and the invariants below are shown step by step  *)
(* for these only.                                                          *)

\* The process of the server, and what the client was handed, stay as they are.
Steady == UNCHANGED <<accepted, up, restarts, retired, delivered, late>>

\* q was closed as p.
Emptied(q, p) ==
  /\ q.isClosed /\ q.socket = NoSocket
  /\ q.pendingSends = <<>> /\ q.pendingReceives = {}
  /\ q.lastSendId = p.lastSendId /\ q.lastProcessedId = p.lastProcessedId

\* End e loses its socket or is closed, or dials fail, or nothing happens here.
Loses(e) ==
  /\ ep'[Peer(e)] = ep[Peer(e)]
  /\ \/ SameQueues(ep'[e], ep[e]) /\ ep'[e].socket \in {ep[e].socket, NoSocket}
     \/ Emptied(ep'[e], ep[e])
  /\ wire' = Carried(wire, ep', opening') /\ opening' \subseteq opening
  /\ Steady

\* The client adopts socket s.
Adopts(s) ==
  /\ IsDisconnected(client) /\ s \in opening
  /\ SameQueues(client', client) /\ client'.socket = s
  /\ server' = server
  /\ wire' = Carried(Put(wire, s, "client", ResendFrames(client)), ep', opening')
  /\ opening' = opening \ {s}
  /\ late' = (late \/ s <= retired)
  /\ UNCHANGED <<accepted, up, restarts, retired, delivered>>

\* The server accepts the next socket, and adopts it unless it is closed.
Accepts ==
  LET s == accepted + 1 IN
  /\ up /\ s \in Sockets
  /\ SameQueues(server', server)
  /\ server'.socket = IF server.isClosed THEN NoSocket ELSE s
  /\ client' = client
  /\ wire' = Carried(Put(wire, s, "server", ReconnectFrames(server)), ep', opening')
  /\ accepted' = s /\ opening' = opening \cup {s}
  /\ UNCHANGED <<up, restarts, retired, delivered, late>>

\* End e acknowledges.
Acknowledges(e) ==
  /\ IsOpen(ep[e])
  /\ SameQueues(ep'[e], ep[e]) /\ ep'[e].socket = ep[e].socket
  /\ ep'[Peer(e)] = ep[Peer(e)]
  /\ wire' = Carried(Put(wire, ep[e].socket, e, AckFrames(ep[e])), ep', opening')
  /\ opening' = opening
  /\ Steady

\* The queues of q after p sent m.
Sent(q, p, m) ==
  /\ q.lastSendId = p.lastSendId + 1
  /\ q.pendingSends = Append(p.pendingSends, NextNumbered(p, m))
  /\ q.pendingReceives = p.pendingReceives
  /\ q.lastProcessedId = p.lastProcessedId
  /\ q.isClosed = p.isClosed

\* What each end sends.
MaySend(e, m) ==
  \/ e = "client" /\ m = Request /\ client.lastSendId < MaxRequest
  \/ e = "server" /\ m = Reply(restarts) /\ registered /\ server.lastSendId < server.lastProcessedId

Sends(e, m) ==
  /\ m \in Msg /\ MaySend(e, m) /\ ~ep[e].isClosed
  /\ Sent(ep'[e], ep[e], m) /\ ep'[e].socket = ep[e].socket
  /\ ep'[Peer(e)] = ep[Peer(e)]
  /\ wire' = Carried(Put(wire, ep[e].socket, e, SendFrames(ep[e], m)), ep', opening')
  /\ opening' = opening
  /\ Steady

\* The client says that it closes, and closes.
SaysClose ==
  /\ ~client.isClosed
  /\ client'.isClosed /\ client'.socket = NoSocket
  /\ client'.pendingSends = <<>> /\ client'.pendingReceives = {}
  /\ client'.lastSendId = client.lastSendId + 1
  /\ client'.lastProcessedId = client.lastProcessedId
  /\ server' = server
  /\ wire' = Carried(Put(wire, client.socket, "client", SendFrames(client, CloseMessage)),
                     ep', opening')
  /\ opening' = opening
  /\ Steady

\* End e reads frame f.
Reads(e, f) ==
  /\ IsOpen(ep[e]) /\ wire[ep[e].socket][e] # <<>>
  /\ f = Head(wire[ep[e].socket][e])
  /\ wire' = Carried(Took(wire, ep[e].socket, e, 1), ep', opening')
  /\ opening' = opening
  /\ UNCHANGED <<accepted, up, restarts, retired, late>>

TakesContent(e, f, n) ==
  /\ Reads(e, f) /\ f \in ContentFrame /\ ProcessesUpTo(ep[e], f, n)
  /\ ep'[e].lastSendId = ep[e].lastSendId
  /\ ep'[e].pendingSends = ep[e].pendingSends
  /\ ep'[e].pendingReceives = {r \in Received(ep[e], f) : r.id > n}
  /\ ep'[e].lastProcessedId = n
  /\ ep'[e].isClosed = ep[e].isClosed
  /\ ep'[e].socket = ep[e].socket
  /\ ep'[Peer(e)] = ep[Peer(e)]
  /\ delivered' = [delivered EXCEPT ![e] = @ \o Processed(ep[e], f, n)]

\* The server reads the close message.
Forgets(e, f, n) ==
  /\ Reads(e, f) /\ f \in ContentFrame /\ ProcessesUpTo(ep[e], f, n)
  /\ \E i \in 1 .. Len(Processed(ep[e], f, n)) : Processed(ep[e], f, n)[i] = CloseMessage
  /\ server' = NewTransport /\ client' = client
  /\ delivered' = [delivered EXCEPT !["server"] = <<>>]

TakesAck(e, f, k) ==
  /\ Reads(e, f) /\ f \in AckFrame
  /\ AcknowledgesFirst(ep[e], f, k)
  /\ IF IsAmnesia(ep[e], f)
       THEN Emptied(ep'[e], ep[e])
       ELSE /\ ep'[e].pendingSends
                 = SubSeq(ep[e].pendingSends, k + 1, Len(ep[e].pendingSends))
            /\ ep'[e].pendingReceives = ep[e].pendingReceives
            /\ ep'[e].lastSendId = ep[e].lastSendId
            /\ ep'[e].lastProcessedId = ep[e].lastProcessedId
            /\ ep'[e].isClosed = ep[e].isClosed
            /\ ep'[e].socket = ep[e].socket
  /\ ep'[Peer(e)] = ep[Peer(e)]
  /\ delivered' = delivered

Dies ==
  /\ server' = NewTransport /\ client' = client
  /\ wire' = Carried(wire, ep', opening') /\ opening' = opening
  /\ up' = FALSE /\ retired' = accepted
  /\ delivered' = [delivered EXCEPT !["server"] = <<>>]
  /\ UNCHANGED <<accepted, restarts, late>>

Returns ==
  /\ ~up /\ up' = TRUE /\ restarts' = restarts + 1
  /\ UNCHANGED <<ep, wire, accepted, opening, retired, delivered, late>>

Effect ==
  \/ \E e \in End : Loses(e)
  \/ \E s \in Sockets : Adopts(s)
  \/ Accepts
  \/ \E e \in End : Acknowledges(e)
  \/ \E e \in End, m \in Msg : Sends(e, m)
  \/ SaysClose
  \/ \E e \in End, f \in Frame, n \in Nat : TakesContent(e, f, n) \/ Forgets(e, f, n)
  \/ \E e \in End, f \in Frame, k \in Nat : TakesAck(e, f, k)
  \/ Dies
  \/ Returns

LEMMA EndValues ==
  ASSUME Sane, NEW e \in End, NEW q, ep' = [ep EXCEPT ![e] = q]
  PROVE  ep'[e] = q /\ ep'[Peer(e)] = ep[Peer(e)]
  BY PeerType, EndCases DEF Sane, TypeOK

LEMMA WireSettled ==
  ASSUME Sane
  PROVE  wire = Carried(wire, ep, opening)
<1>1. /\ wire \in [Sockets -> [End -> Seq(Frame)]]
      /\ \A s \in Sockets, e \in End : wire[s][e] # <<>> => Reaches(s, e, ep, opening)
  BY DEF Sane, TypeOK, Structure
<1>2. \A s \in Sockets, e \in End :
        (IF Reaches(s, e, ep, opening) THEN wire[s][e] ELSE <<>>) = wire[s][e]
  BY <1>1
<1>3. Carried(wire, ep, opening) = [s \in Sockets |-> [e \in End |-> wire[s][e]]]
  BY <1>2, Zenon DEF Carried
<1>. QED
  BY <1>1, <1>3

LEMMA QuietEffect ==
  ASSUME Sane, QuietActions \/ UNCHANGED vars
  PROVE  Loses("client")
<1>1. UNCHANGED <<ep, wire, opening, accepted, up, restarts, retired, delivered, late>>
  BY DEF QuietActions, ReconnectTimerFires, HeartbeatRestored, DialFails, BreakSocket,
         UnusedWebSocketFails, PingTimerFires, PongArrives, vars, socketVars, serverVars,
         history
<1>2. wire' = Carried(wire, ep', opening')
  BY <1>1, WireSettled
<1>. QED
  BY <1>1, <1>2 DEF Loses, Steady, SameQueues

LEMMA CloseReliableSocketEffect ==
  ASSUME Sane, CloseReliableSocket(client, <<>>),
         UNCHANGED <<accepted, opening, up, restarts, retired, delivered, late>>
  PROVE  Loses("client")
<1>1. /\ wire \in Wires /\ client \in Transport /\ "client" \in End
      /\ client.isClosed => client.socket = NoSocket
  BY SaneParts, EndCases DEF client
<1>2. ep'["client"] = Close(client) /\ ep'["server"] = ep["server"]
  BY EndValues, EndCases DEF CloseReliableSocket
<1>3. Put(wire, client.socket, "client", <<>>) = wire
  BY <1>1, PutNothing
<1>4. wire' = Carried(wire, ep', opening')
  BY <1>3 DEF CloseReliableSocket
<1>5. CASE client.isClosed
  BY <1>1, <1>2, <1>4, <1>5, EndCases DEF Loses, Steady, SameQueues, Close, client
<1>6. CASE ~client.isClosed
  <2>1. Emptied(Close(client), client)
    BY <1>1, <1>6, CloseEmptiesQueues DEF Emptied, Close, HandleTransportClose, Transport
  <2>. QED
    BY <1>2, <1>4, <2>1, EndCases DEF Loses, Steady, client
<1>. QED
  BY <1>5, <1>6

LEMMA OpensEffect ==
  ASSUME Sane, NEW s \in Sockets, Opens(s)
  PROVE  Effect
<1>1. /\ wire \in Wires /\ client \in Transport /\ "client" \in End /\ s \in Nat
  BY SaneParts, EndCases DEF client, Sockets
<1>2. CASE IsDisconnected(client)
  <2>1. ep'["client"] = Reconnect(client, s) /\ ep'["server"] = ep["server"]
    BY <1>2, EndValues, EndCases DEF Opens, client
  <2>2. /\ SameQueues(Reconnect(client, s), client)
        /\ Reconnect(client, s).socket = s
        /\ ReconnectFrames(client) = ResendFrames(client)
    BY <1>1, <1>2, SocketsKeepQueues, ReconnectSocket DEF IsDisconnected, ReconnectFrames
  <2>3. late' = (late \/ s <= retired)
    BY <1>2, Zenon DEF Opens
  <2>4. Adopts(s)
    BY <1>2, <2>1, <2>2, <2>3 DEF Opens, Adopts, client, server, serverVars
  <2>. QED  BY <2>4 DEF Effect
<1>3. CASE ~IsDisconnected(client)
  <2>1. Put(wire, s, "client", <<>>) = wire
    BY <1>1, PutNothing
  <2>2. late' = late
    <3>1. late' = (late \/ FALSE)
      BY <1>3 DEF Opens
    <3>. QED  BY <3>1 DEF Sane, TypeOK
  <2>3. ep' = ep /\ wire' = Carried(wire, ep', opening') /\ opening' \subseteq opening
    BY <1>3, <2>1 DEF Opens
  <2>4. Loses("client")
    BY <2>2, <2>3 DEF Opens, Loses, Steady, SameQueues, serverVars
  <2>. QED  BY <1>1, <2>4 DEF Effect
<1>. QED
  BY <1>2, <1>3

LEMMA OpenFailsEffect ==
  ASSUME Sane, NEW s \in Sockets, OpenFails(s)
  PROVE  Loses("client")
  BY DEF OpenFails, Loses, Steady, SameQueues, serverVars, history

LEMMA LoseWebSocketEffect ==
  ASSUME Sane, NEW e \in End, NEW s, LoseWebSocket(e, s)
  PROVE  Loses(e)
<1>1. ep[e] \in Transport
  BY SaneParts
<1>2. /\ SameQueues(HandleTransportClose(ep[e]), ep[e])
      /\ HandleTransportClose(ep[e]).socket = NoSocket
  BY <1>1, SocketsKeepQueues, LoseSocketType
<1>3. /\ wire' = Carried(wire, ep', opening') /\ opening' \subseteq opening /\ Steady
  BY DEF LoseWebSocket, serverVars, history, Steady
<1>4. CASE ep[e].socket = s
  <2>1. ep'[e] = HandleTransportClose(ep[e]) /\ ep'[Peer(e)] = ep[Peer(e)]
    BY <1>4, EndValues DEF LoseWebSocket
  <2>. QED  BY <1>2, <1>3, <2>1 DEF Loses
<1>5. CASE ep[e].socket # s
  <2>1. ep' = ep
    BY <1>5 DEF LoseWebSocket
  <2>. QED  BY <1>3, <2>1 DEF Loses, SameQueues
<1>. QED
  BY <1>4, <1>5

LEMMA AcceptEffect ==
  ASSUME Sane, Accept
  PROVE  Accepts
<1>. DEFINE s == accepted + 1
<1>1. /\ server \in Transport /\ "server" \in End /\ s \in Nat
      /\ server.isClosed => server.socket = NoSocket
  BY SaneParts, EndCases DEF server
<1>2. server = IF registered THEN server ELSE NewTransport
  BY DEF Sane, Structure
<1>3. ep'["server"] = Reconnect(server, s) /\ ep'["client"] = ep["client"]
  BY <1>2, EndValues, EndCases DEF Accept
<1>4. SameQueues(Reconnect(server, s), server)
  BY <1>1, SocketsKeepQueues
<1>5. Reconnect(server, s).socket = IF server.isClosed THEN NoSocket ELSE s
  <2>1. ~server.isClosed => Reconnect(server, s).socket = s
    BY <1>1, ReconnectSocket
  <2>2. server.isClosed => Reconnect(server, s) = server
    BY DEF Reconnect
  <2>. QED  BY <1>1, <2>1, <2>2
<1>6. /\ up /\ s \in Sockets
      /\ wire' = Carried(Put(wire, s, "server", ReconnectFrames(server)), ep', opening')
      /\ accepted' = s /\ opening' = opening \cup {s}
      /\ UNCHANGED <<up, restarts, retired, delivered, late>>
  BY <1>2 DEF Accept, history
<1>. QED
  BY <1>3, <1>4, <1>5, <1>6 DEF Accepts, server, client

LEMMA AckTimeoutEffect ==
  ASSUME Sane, NEW e \in End, AckTimeout(e)
  PROVE  Acknowledges(e)
<1>1. ep[e] \in Transport /\ Guarded(ep[e]) /\ ep[e].isClosed => ep[e].socket = NoSocket
  BY SaneParts
<1>2. IsOpen(ep[e])
  BY SaneParts DEF AckTimeout, Guarded, CheckLeaks, IsOpen
<1>3. ep'[e] = HandleAckTimer(ep[e]) /\ ep'[Peer(e)] = ep[Peer(e)]
  BY EndValues DEF AckTimeout
<1>4. /\ SameQueues(HandleAckTimer(ep[e]), ep[e])
      /\ HandleAckTimer(ep[e]).socket = ep[e].socket
  BY <1>1, SaneParts, TimersKeepQueues, HandleAckTimerGuarded
<1>. QED
  BY <1>2, <1>3, <1>4 DEF AckTimeout, Acknowledges, Steady, serverVars, history

LEMMA SendEffect ==
  ASSUME Sane, NEW e \in End, NEW m \in Msg, ~ep[e].isClosed, MaySend(e, m), Send(e, m)
  PROVE  Sends(e, m)
<1>1. ep[e] \in Transport
  BY SaneParts
<1>2. ep'[e] = Enqueue(ep[e], m) /\ ep'[Peer(e)] = ep[Peer(e)]
  BY EndValues DEF Send
<1>3. Sent(Enqueue(ep[e], m), ep[e], m) /\ Enqueue(ep[e], m).socket = ep[e].socket
  BY <1>1, EnqueueFields, EnqueueType DEF Sent
<1>. QED
  BY <1>2, <1>3 DEF Send, Sends, Steady, serverVars

LEMMA ClientClosesEffect ==
  ASSUME Sane, ClientCloses
  PROVE  SaysClose
<1>. DEFINE q == Enqueue(client, CloseMessage)
<1>1. client \in Transport /\ ~client.isClosed /\ CloseMessage \in Msg /\ "client" \in End
  BY SaneParts, EndCases, MsgAssumption, MessageTypes DEF client, ClientCloses
<1>2. q \in Transport /\ ~q.isClosed /\ q.lastSendId = client.lastSendId + 1
      /\ q.lastProcessedId = client.lastProcessedId
  BY <1>1, EnqueueType, EnqueueFields
<1>3. ep'["client"] = Close(q) /\ ep'["server"] = ep["server"]
  BY EndValues, EndCases DEF ClientCloses, CloseReliableSocket
<1>. HIDE DEF q
<1>4. Emptied(Close(q), q)
  BY <1>2, CloseEmptiesQueues DEF Emptied, Close, HandleTransportClose, Transport
<1>. QED
  BY <1>1, <1>2, <1>3, <1>4
     DEF ClientCloses, CloseReliableSocket, SaysClose, Emptied, Steady, serverVars, client, server

LEMMA ReceiveReads ==
  ASSUME Sane, NEW e \in End, Receive(e)
  PROVE  \/ \E f \in Frame, n \in Nat : TakesContent(e, f, n) \/ Forgets(e, f, n)
         \/ \E f \in Frame, k \in Nat : TakesAck(e, f, k)
<1>. DEFINE s == ep[e].socket
            f == Head(wire[s][e])
<1>1. /\ Reads(e, f)
      /\ \/ f.type = "CONTENT" /\ ReceiveContent(e, f)
         \/ f.type = "ACK" /\ ReceiveAck(e, f)
  BY DEF Receive, Reads
<1>2. /\ f \in Frame
      /\ f.type = "CONTENT" => f \in ContentFrame
      /\ f.type = "ACK" => f \in AckFrame
  BY NextFrame DEF Receive
<1>3. ep[e] \in Transport /\ MaxRequest \in Nat /\ 0 .. MaxRequest + 1 \subseteq Nat
  BY SaneParts
<1>. HIDE DEF f
<1>4. CASE f.type = "CONTENT" /\ ReceiveContent(e, f)
  <2>1. PICK n \in 0 .. MaxRequest + 1 :
          /\ ProcessesUpTo(ep[e], f, n)
          /\ \/ /\ \E i \in 1 .. Len(Processed(ep[e], f, n)) :
                     Processed(ep[e], f, n)[i] = CloseMessage
                /\ ForgetClient
             \/ /\ ep' = [ep EXCEPT ![e] = HandleContent(@, f, n)]
                /\ delivered' = [delivered EXCEPT ![e] = @ \o Processed(ep[e], f, n)]
    BY <1>4 DEF ReceiveContent
  <2>2. n \in Nat
    BY <1>3
  <2>3. CASE /\ \E i \in 1 .. Len(Processed(ep[e], f, n)) :
                  Processed(ep[e], f, n)[i] = CloseMessage
             /\ ForgetClient
    <3>1. ep'["server"] = NewTransport /\ ep'["client"] = ep["client"]
      BY <2>3, EndValues, EndCases DEF ForgetClient
    <3>2. Forgets(e, f, n)
      BY <1>1, <1>2, <1>4, <2>1, <2>3, <3>1 DEF Forgets, ForgetClient, client, server
    <3>. QED  BY <1>2, <2>2, <3>2
  <2>4. CASE /\ ep' = [ep EXCEPT ![e] = HandleContent(@, f, n)]
             /\ delivered' = [delivered EXCEPT ![e] = @ \o Processed(ep[e], f, n)]
    <3>1. ep'[e] = HandleContent(ep[e], f, n) /\ ep'[Peer(e)] = ep[Peer(e)]
      BY <2>4, EndValues
    <3>2. f \in ContentFrame
      BY <1>2, <1>4
    <3>3. TakesContent(e, f, n)
      BY <1>1, <1>3, <2>1, <2>2, <2>4, <3>1, <3>2, HandleContentFields, HandleContentType
         DEF TakesContent
    <3>. QED  BY <1>2, <2>2, <3>3
  <2>. QED  BY <2>1, <2>3, <2>4
<1>5. CASE f.type = "ACK" /\ ReceiveAck(e, f)
  <2>1. PICK k \in 0 .. MaxRequest + 1 :
          /\ AcknowledgesFirst(ep[e], f, k)
          /\ ep' = [ep EXCEPT ![e] = HandleAck(@, f, k)]
    BY <1>5 DEF ReceiveAck
  <2>2. k \in Nat /\ k \in 0 .. Len(ep[e].pendingSends) /\ f \in AckFrame
    BY <1>2, <1>3, <1>5, <2>1 DEF AcknowledgesFirst
  <2>3. ep'[e] = HandleAck(ep[e], f, k) /\ ep'[Peer(e)] = ep[Peer(e)]
    BY <2>1, EndValues
  <2>4. delivered' = delivered
    BY <1>5 DEF ReceiveAck
  <2>5. CASE IsAmnesia(ep[e], f)
    <3>1. ~ep[e].isClosed
      BY <1>1 DEF Reads, IsOpen
    <3>2. Emptied(Close(ep[e]), ep[e])
      BY <1>3, <3>1, CloseEmptiesQueues DEF Emptied, Close, HandleTransportClose, Transport
    <3>3. ep'[e] = Close(ep[e])
      BY <2>3, <2>5 DEF HandleAck
    <3>4. TakesAck(e, f, k)
      BY <1>1, <2>1, <2>2, <2>3, <2>4, <2>5, <3>2, <3>3 DEF TakesAck
    <3>. QED  BY <1>2, <2>2, <3>4
  <2>6. CASE ~IsAmnesia(ep[e], f)
    <3>1. HandleAck(ep[e], f, k).socket = ep[e].socket
      BY <1>3, <2>2, <2>6, HandleAckSocket
    <3>2. TakesAck(e, f, k)
      BY <1>1, <1>3, <2>1, <2>2, <2>3, <2>4, <2>6, <3>1, HandleAckFields DEF TakesAck
    <3>. QED  BY <1>2, <2>2, <3>2
  <2>. QED  BY <2>5, <2>6
<1>. QED
  BY <1>1, <1>4, <1>5

LEMMA StepEffect ==
  ASSUME Sane, [Next]_vars
  PROVE  Effect
<1>1. CASE QuietActions \/ UNCHANGED vars
  BY <1>1, QuietEffect, EndCases DEF Effect
<1>2. CASE DialRefused
  <2>1. CASE CloseReliableSocket(client, <<>>)
    BY <1>2, <2>1, CloseReliableSocketEffect, EndCases DEF DialRefused, Effect, serverVars, history
  <2>2. CASE UNCHANGED <<ep, wire, open, ping>>
    <3>1. wire' = Carried(wire, ep', opening')
      BY <1>2, <2>2, WireSettled DEF DialRefused
    <3>2. Loses("client")
      BY <1>2, <2>2, <3>1 DEF DialRefused, Loses, Steady, SameQueues, serverVars, history
    <3>. QED  BY <3>2, EndCases DEF Effect
  <2>. QED  BY <1>2, <2>1, <2>2 DEF DialRefused
<1>3. CASE Accept
  BY <1>3, AcceptEffect DEF Effect
<1>4. CASE ClientCloses
  BY <1>4, ClientClosesEffect DEF Effect
<1>5. CASE Crash
  <2>1. ep'["server"] = NewTransport /\ ep'["client"] = ep["client"]
    BY <1>5, EndValues, EndCases DEF Crash
  <2>2. Dies
    BY <1>5, <2>1 DEF Crash, Dies, client, server
  <2>. QED  BY <2>2 DEF Effect
<1>6. CASE Restart
  BY <1>6 DEF Restart, Returns, Effect, socketVars, history
<1>7. CASE \E s \in Sockets : Opens(s) \/ OpenFails(s)
  BY <1>7, OpensEffect, OpenFailsEffect, EndCases DEF Effect
<1>8. CASE LosingActions
  BY <1>8, LosingCases, LoseWebSocketEffect DEF Effect
<1>9. CASE SendRequest
  <2>1. Request \in Msg /\ MaySend("client", Request)
    BY <1>9, MessageTypes, MsgAssumption DEF MaySend, SendRequest
  <2>2. Sends("client", Request)
    BY <1>9, <2>1, SendEffect, EndCases DEF SendRequest, client
  <2>. QED  BY <2>1, <2>2, EndCases DEF Effect
<1>10. CASE SendReply
  <2>1. Reply(restarts) \in Msg /\ MaySend("server", Reply(restarts))
    BY <1>10, MessageTypes, MsgAssumption DEF MaySend, SendReply, Sane, TypeOK
  <2>2. Sends("server", Reply(restarts))
    BY <1>10, <2>1, SendEffect, EndCases DEF SendReply, server
  <2>. QED  BY <2>1, <2>2, EndCases DEF Effect
<1>11. CASE \E e \in End : AckTimeout(e) \/ Receive(e)
  BY <1>11, AckTimeoutEffect, ReceiveReads DEF Effect
<1>. QED
  BY <1>1, <1>2, <1>3, <1>4, <1>5, <1>6, <1>7, <1>8, <1>9, <1>10, <1>11
     DEF Next, QuietActions, LosingActions

-----------------------------------------------------------------------------
(* Where the frames on a wire come from. *)

\* What end e may put on its socket in a step.
FreshAck(e, g) == g = AckOf(ep[e].lastProcessedId) /\ ep[e].lastProcessedId > 0

FreshResend(e, g) ==
  \E j \in 1 .. Len(ep[e].pendingSends) : g = ContentOf(ep[e].pendingSends[j])

FreshMessage(e, g) ==
  /\ g.type = "CONTENT" /\ g.id = ep[e].lastSendId + 1
  /\ ep'[e].lastSendId = ep[e].lastSendId + 1
  /\ \/ MaySend(e, g.msg)
     \/ e = "client" /\ g.msg = CloseMessage /\ client'.isClosed

Fresh(e, g) == FreshAck(e, g) \/ FreshResend(e, g) \/ FreshMessage(e, g)

LEMMA AckFramesFresh ==
  ASSUME NEW e \in End, ep[e] \in Transport, NEW k \in 1 .. Len(AckFrames(ep[e]))
  PROVE  FreshAck(e, AckFrames(ep[e])[k])
<1>1. CASE ep[e].lastProcessedId > 0
  <2>1. AckFrames(ep[e]) = <<AckOf(ep[e].lastProcessedId)>>
    BY <1>1 DEF AckFrames
  <2>2. k = 1
    BY <2>1
  <2>. QED  BY <1>1, <2>1, <2>2 DEF FreshAck
<1>2. CASE ~(ep[e].lastProcessedId > 0)
  <2>1. AckFrames(ep[e]) = <<>>
    BY <1>2 DEF AckFrames
  <2>. QED  BY <2>1
<1>. QED
  BY <1>1, <1>2

LEMMA ReconnectFramesFresh ==
  ASSUME NEW e \in End, ep[e] \in Transport, NEW k \in 1 .. Len(ReconnectFrames(ep[e]))
  PROVE  Fresh(e, ReconnectFrames(ep[e])[k])
<1>. DEFINE acks == AckFrames(ep[e])
            N == Len(ep[e].pendingSends)
            resent == [i \in 1 .. N |-> ContentOf(ep[e].pendingSends[i])]
<1>1. acks \in Seq(Frame) /\ Len(acks) \in Nat
  BY FramesType, LenProperties
<1>2. N \in Nat /\ resent \in Seq(Frame) /\ Len(resent) = N
  <2>1. N \in Nat /\ \A i \in 1 .. N : ep[e].pendingSends[i] \in Numbered
    BY LenProperties, ElementOfSeq DEF Transport
  <2>2. resent \in [1 .. N -> Frame]
    BY <2>1, FrameType
  <2>. HIDE DEF resent, N
  <2>3. resent \in UNION {[1 .. n -> Frame] : n \in Nat}
    BY <2>1, <2>2
  <2>4. resent \in Seq(Frame)
    BY <2>3, SeqDef, Zenon
  <2>5. DOMAIN resent = 1 .. N
    BY <2>2
  <2>. QED  BY <2>1, <2>4, <2>5, LenProperties
<1>3. CASE ep[e].isClosed
  BY <1>3 DEF ReconnectFrames
<1>4. CASE ~ep[e].isClosed
  <2>1. ReconnectFrames(ep[e]) = acks \o resent
    BY <1>4 DEF ReconnectFrames, ResendFrames
  <2>2. \A j \in 1 .. N : resent[j] = ContentOf(ep[e].pendingSends[j])
    OBVIOUS
  <2>. HIDE DEF acks, resent, N
  <2>3. /\ Len(acks \o resent) = Len(acks) + N
        /\ \A j \in 1 .. Len(acks) + N :
             (acks \o resent)[j] = IF j <= Len(acks) THEN acks[j] ELSE resent[j - Len(acks)]
    BY <1>1, <1>2, ConcatProperties
  <2>4. CASE k <= Len(acks)
    <3>1. k \in 1 .. Len(acks) /\ ReconnectFrames(ep[e])[k] = acks[k]
      BY <1>1, <1>2, <2>1, <2>3, <2>4
    <3>. QED  BY <3>1, AckFramesFresh DEF acks, Fresh
  <2>5. CASE ~(k <= Len(acks))
    <3>1. /\ k - Len(acks) \in 1 .. N
          /\ ReconnectFrames(ep[e])[k] = resent[k - Len(acks)]
      BY <1>1, <1>2, <2>1, <2>3, <2>5
    <3>. QED  BY <2>2, <3>1 DEF Fresh, FreshResend, N
  <2>. QED  BY <2>4, <2>5
<1>. QED
  BY <1>3, <1>4

\* A frame of a wire onto which end e may have put frames.
PutOn(s, e, frames) ==
  \A t \in Sockets, d \in End : \A i \in 1 .. Len(wire'[t][d]) :
    \/ \E k \in 1 .. Len(wire[t][d]) : wire'[t][d][i] = wire[t][d][k]
    \/ /\ t = s /\ e = Peer(d)
       /\ \E k \in 1 .. Len(frames) : wire'[t][d][i] = frames[k]

LEMMA PutOrigin ==
  ASSUME Sane, NEW s, NEW e \in End, NEW frames \in Seq(Frame),
         wire' = Carried(Put(wire, s, e, frames), ep', opening')
  PROVE  PutOn(s, e, frames)
<1>. SUFFICES ASSUME NEW t \in Sockets, NEW d \in End, NEW i \in 1 .. Len(wire'[t][d])
              PROVE  \/ \E k \in 1 .. Len(wire[t][d]) : wire'[t][d][i] = wire[t][d][k]
                     \/ /\ t = s /\ e = Peer(d)
                        /\ \E k \in 1 .. Len(frames) : wire'[t][d][i] = frames[k]
  BY DEF PutOn
<1>1. wire \in Wires
  BY SaneParts
<1>2. i \in 1 .. Len(Carried(Put(wire, s, e, frames), ep', opening')[t][d])
  OBVIOUS
<1>3. LET f == Carried(Put(wire, s, e, frames), ep', opening')[t][d][i] IN
        \/ \E k \in 1 .. Len(wire[t][d]) : f = wire[t][d][k]
        \/ t = s /\ d = Peer(e) /\ \E k \in 1 .. Len(frames) : f = frames[k]
  BY <1>1, <1>2, PutFrames, SMTT(60)
<1>4. d = Peer(e) => e = Peer(d)
  BY PeerType
<1>. QED
  BY <1>3, <1>4

LEMMA ReadsOrigin ==
  ASSUME Sane, NEW e \in End, NEW f, Reads(e, f),
         NEW t \in Sockets, NEW d \in End, NEW i \in 1 .. Len(wire'[t][d])
  PROVE  \E k \in 1 .. Len(wire[t][d]) : wire'[t][d][i] = wire[t][d][k]
<1>. DEFINE s == ep[e].socket
            w == Took(wire, s, e, 1)
<1>1. wire \in Wires /\ s \in Sockets /\ 1 \in 1 .. Len(wire[s][e])
  BY SaneParts, NextFrame DEF Reads
<1>. HIDE DEF s
<1>2. /\ w \in Wires
      /\ \A j \in 1 .. Len(w[t][d]) : \E k \in 1 .. Len(wire[t][d]) : w[t][d][j] = wire[t][d][k]
  BY <1>1, TookFrames
<1>3. wire' = Carried(w, ep', opening')
  BY DEF Reads, s
<1>. HIDE DEF w
<1>4. PICK j \in 1 .. Len(w[t][d]) : wire'[t][d][i] = w[t][d][j]
  BY <1>2, <1>3, CarriedType
<1>. QED
  BY <1>2, <1>4

LEMMA CarriedOrigin ==
  ASSUME Sane, wire' = Carried(wire, ep', opening'),
         NEW t \in Sockets, NEW d \in End, NEW i \in 1 .. Len(wire'[t][d])
  PROVE  \E k \in 1 .. Len(wire[t][d]) : wire'[t][d][i] = wire[t][d][k]
  BY SMTT(30), SaneParts, CarriedType

\* Every frame was there before the step, or was put by the end it comes from,
\* which is not closed, on the socket it uses.
LEMMA FrameOrigin ==
  ASSUME Sane, Effect, NEW t \in Sockets, NEW d \in End, NEW i \in 1 .. Len(wire'[t][d])
  PROVE  \/ \E k \in 1 .. Len(wire[t][d]) : wire'[t][d][i] = wire[t][d][k]
         \/ /\ Fresh(Peer(d), wire'[t][d][i]) /\ ~ep[Peer(d)].isClosed
            /\ d = "client" => t = server'.socket
            /\ d = "server" => t \in {client.socket, client'.socket}
<1>. DEFINE g == wire'[t][d][i]
            Old == \E k \in 1 .. Len(wire[t][d]) : g = wire[t][d][k]
            New == /\ Fresh(Peer(d), g) /\ ~ep[Peer(d)].isClosed
                   /\ d = "client" => t = server'.socket
                   /\ d = "server" => t \in {client.socket, client'.socket}
<1>. SUFFICES Old \/ New
  OBVIOUS
<1>1. /\ client = ep["client"] /\ server = ep["server"]
      /\ client' = ep'["client"] /\ server' = ep'["server"]
      /\ client \in Transport /\ server \in Transport
      /\ \A e \in End : ep[e] \in Transport
      /\ d = "client" => Peer(d) = "server"
      /\ d = "server" => Peer(d) = "client"
  BY SaneParts, EndCases DEF client, server
<1>2. CASE (\E e \in End : Loses(e)) \/ Dies
  BY <1>2, CarriedOrigin DEF Loses, Dies
<1>3. CASE Returns
  BY <1>3 DEF Returns
<1>4. ASSUME NEW s \in Sockets, Adopts(s)
      PROVE  Old \/ New
  <2>1. ReconnectFrames(client) = ResendFrames(client) /\ ReconnectFrames(client) \in Seq(Frame)
    BY <1>1, <1>4, FramesType DEF Adopts, IsDisconnected, ReconnectFrames
  <2>2. wire' = Carried(Put(wire, s, "client", ReconnectFrames(client)), ep', opening')
    BY <1>4, <2>1 DEF Adopts
  <2>3. PutOn(s, "client", ReconnectFrames(client))
    BY <2>1, <2>2, PutOrigin, EndCases
  <2>4. ~client.isClosed /\ client'.socket = s
    BY <1>4 DEF Adopts, IsDisconnected
  <2>. QED  BY <1>1, <2>3, <2>4, ReconnectFramesFresh, EndCases DEF PutOn
<1>5. CASE Accepts
  <2>1. ReconnectFrames(server) \in Seq(Frame)
    BY <1>1, FramesType
  <2>2. PutOn(accepted + 1, "server", ReconnectFrames(server))
    BY <1>5, <2>1, PutOrigin, EndCases DEF Accepts
  <2>3. ASSUME NEW k \in 1 .. Len(ReconnectFrames(server))
        PROVE  ~server.isClosed /\ server'.socket = accepted + 1
    <3>1. ~server.isClosed
      BY <2>3, EmptySeq DEF ReconnectFrames
    <3>. QED  BY <1>5, <3>1 DEF Accepts
  <2>. QED  BY <1>1, <2>2, <2>3, ReconnectFramesFresh, EndCases DEF PutOn
<1>6. ASSUME NEW e \in End, Acknowledges(e)
      PROVE  Old \/ New
  <2>1. AckFrames(ep[e]) \in Seq(Frame)
    BY <1>1, FramesType
  <2>2. PutOn(ep[e].socket, e, AckFrames(ep[e]))
    BY <1>6, <2>1, PutOrigin DEF Acknowledges
  <2>3. ep'[e].socket = ep[e].socket /\ ~ep[e].isClosed
    BY <1>6 DEF Acknowledges, IsOpen
  <2>. QED  BY <1>1, <2>2, <2>3, AckFramesFresh DEF Fresh, PutOn
<1>7. ASSUME NEW e \in End, NEW m \in Msg, Sends(e, m)
      PROVE  Old \/ New
  <2>. DEFINE frames == SendFrames(ep[e], m)
  <2>1. frames \in Seq(Frame)
    BY <1>1, FramesType
  <2>2. ASSUME NEW k \in 1 .. Len(frames)
        PROVE  FreshMessage(e, frames[k])
    <3>1. frames[k] = ContentOf(NextNumbered(ep[e], m))
      BY <2>2 DEF SendFrames
    <3>. QED  BY <1>7, <3>1 DEF FreshMessage, ContentOf, NextNumbered, Sends, Sent
  <2>3. /\ ep'[e].socket = ep[e].socket /\ ~ep[e].isClosed
        /\ wire' = Carried(Put(wire, ep[e].socket, e, frames), ep', opening')
    BY <1>7 DEF Sends
  <2>. HIDE DEF frames
  <2>4. PutOn(ep[e].socket, e, frames)
    BY <2>1, <2>3, PutOrigin
  <2>. QED  BY <1>1, <2>2, <2>3, <2>4 DEF Fresh, PutOn
<1>8. CASE SaysClose
  <2>. DEFINE frames == SendFrames(client, CloseMessage)
  <2>1. CloseMessage \in Msg
    BY MessageTypes, MsgAssumption
  <2>2. frames \in Seq(Frame)
    BY <1>1, <2>1, FramesType
  <2>3. ASSUME NEW k \in 1 .. Len(frames)
        PROVE  FreshMessage("client", frames[k])
    <3>1. frames[k] = ContentOf(NextNumbered(client, CloseMessage))
      BY <2>3 DEF SendFrames
    <3>2. /\ frames[k].type = "CONTENT" /\ frames[k].id = client.lastSendId + 1
          /\ frames[k].msg = CloseMessage
      BY <3>1 DEF ContentOf, NextNumbered
    <3>3. client'.lastSendId = client.lastSendId + 1 /\ client'.isClosed
      BY <1>8 DEF SaysClose
    <3>. HIDE DEF frames
    <3>. QED  BY <1>1, <3>2, <3>3 DEF FreshMessage
  <2>4. /\ wire' = Carried(Put(wire, client.socket, "client", frames), ep', opening')
        /\ ~client.isClosed
    BY <1>8 DEF SaysClose
  <2>. HIDE DEF frames
  <2>5. PutOn(client.socket, "client", frames)
    BY <2>2, <2>4, PutOrigin, EndCases
  <2>6. Old \/ (t = client.socket /\ d = "server" /\ \E k \in 1 .. Len(frames) : g = frames[k])
    <3>1. "client" = Peer(d) => d = "server"
      BY EndCases
    <3>. QED  BY <2>5, <3>1 DEF PutOn
  <2>7. d = "server" => Peer(d) = "client" /\ d # "client" /\ ~ep[Peer(d)].isClosed
    BY <1>1, <2>4, EndCases
  <2>. QED  BY <2>3, <2>6, <2>7 DEF Fresh
<1>9. CASE \/ \E e \in End, f \in Frame, n \in Nat : TakesContent(e, f, n) \/ Forgets(e, f, n)
           \/ \E e \in End, f \in Frame, k \in Nat : TakesAck(e, f, k)
  BY ZenonT(40), <1>9, ReadsOrigin DEF TakesContent, Forgets, TakesAck
<1>. QED
  BY <1>2, <1>3, <1>4, <1>5, <1>6, <1>7, <1>8, <1>9 DEF Effect

-----------------------------------------------------------------------------
(* What becomes of the two queues of a transport. *)

\* The queue of messages to send: kept, lost, grown by a message, or shortened
\* by an ack.
SendsChange(e) ==
  \/ /\ ep'[e].lastSendId = ep[e].lastSendId
     /\ \/ ep'[e].pendingSends = ep[e].pendingSends /\ ep'[e].isClosed = ep[e].isClosed
        \/ ep'[e].pendingSends = <<>> /\ ep'[e].isClosed
  \/ /\ e = "server" /\ ep'[e] = NewTransport
     /\ Dies \/ \E d \in End, f \in Frame, n \in Nat : Forgets(d, f, n)
  \/ /\ e = "client" /\ ep'[e].isClosed
     /\ ep'[e].lastSendId = ep[e].lastSendId + 1 /\ ep'[e].pendingSends = <<>>
  \/ \E m \in Msg : MaySend(e, m) /\ ~ep[e].isClosed /\ Sent(ep'[e], ep[e], m)
  \/ /\ ep'[e].lastSendId = ep[e].lastSendId /\ ep'[e].isClosed = ep[e].isClosed
     /\ \E f \in Frame : \E k \in 0 .. Len(ep[e].pendingSends) :
          /\ Reads(e, f) /\ f.type = "ACK" /\ AcknowledgesFirst(ep[e], f, k)
          /\ ep'[e].pendingSends = SubSeq(ep[e].pendingSends, k + 1, Len(ep[e].pendingSends))

\* What was received: kept or dropped, or a frame was read.
ReceivesChange(e) ==
  \/ /\ ep'[e].lastProcessedId = ep[e].lastProcessedId
     /\ ep'[e].pendingReceives \in {ep[e].pendingReceives, {}}
  \/ e = "server" /\ ep'[e] = NewTransport
  \/ \E f \in Frame, n \in Nat : TakesContent(e, f, n)

LEMMA QueuesChange ==
  ASSUME Sane, Effect, NEW e \in End
  PROVE  SendsChange(e) /\ ReceivesChange(e)
<1>1. /\ client = ep["client"] /\ server = ep["server"]
      /\ client' = ep'["client"] /\ server' = ep'["server"]
      /\ \A d \in End : ep[d] \in Transport
      /\ \A d \in End : e # d => e = Peer(d)
  BY SaneParts, EndCases DEF client, server
<1>2. ASSUME ep'[e] = ep[e]
      PROVE  SendsChange(e) /\ ReceivesChange(e)
  BY <1>2 DEF SendsChange, ReceivesChange
<1>3. ASSUME SameQueues(ep'[e], ep[e])
      PROVE  SendsChange(e) /\ ReceivesChange(e)
  BY <1>3 DEF SendsChange, ReceivesChange, SameQueues
<1>4. ASSUME Emptied(ep'[e], ep[e])
      PROVE  SendsChange(e) /\ ReceivesChange(e)
  BY <1>4 DEF SendsChange, ReceivesChange, Emptied
<1>5. ASSUME NEW d \in End, Loses(d)
      PROVE  SendsChange(e) /\ ReceivesChange(e)
  BY <1>1, <1>2, <1>3, <1>4, <1>5 DEF Loses
<1>6. CASE (\E s \in Sockets : Adopts(s)) \/ Accepts \/ Returns
  BY <1>1, <1>2, <1>3, <1>6, EndCases DEF Adopts, Accepts, Returns
<1>7. ASSUME NEW d \in End, Acknowledges(d)
      PROVE  SendsChange(e) /\ ReceivesChange(e)
  BY <1>1, <1>2, <1>3, <1>7 DEF Acknowledges
<1>8. ASSUME NEW d \in End, NEW m \in Msg, Sends(d, m)
      PROVE  SendsChange(e) /\ ReceivesChange(e)
  <2>1. CASE e = d
    BY <1>8, <2>1 DEF Sends, SendsChange, ReceivesChange, Sent
  <2>2. CASE e # d
    BY <1>1, <1>2, <1>8, <2>2 DEF Sends
  <2>. QED  BY <2>1, <2>2
<1>9. CASE SaysClose
  <2>1. CASE e = "client"
    BY <1>1, <1>9, <2>1 DEF SaysClose, SendsChange, ReceivesChange
  <2>2. CASE e # "client"
    BY <1>1, <1>2, <1>9, <2>2, EndCases DEF SaysClose
  <2>. QED  BY <2>1, <2>2
<1>10. ASSUME NEW d \in End, NEW f \in Frame, NEW n \in Nat, TakesContent(d, f, n)
       PROVE  SendsChange(e) /\ ReceivesChange(e)
  <2>1. CASE e = d
    BY <1>10, <2>1 DEF TakesContent, SendsChange, ReceivesChange
  <2>2. CASE e # d
    BY <1>1, <1>2, <1>10, <2>2 DEF TakesContent
  <2>. QED  BY <2>1, <2>2
<1>11. ASSUME Dies \/ \E d \in End, f \in Frame, n \in Nat : Forgets(d, f, n)
       PROVE  SendsChange(e) /\ ReceivesChange(e)
  <2>1. server' = NewTransport /\ client' = client
    BY <1>11 DEF Dies, Forgets
  <2>. QED  BY <1>1, <1>2, <1>11, <2>1, EndCases DEF SendsChange, ReceivesChange
<1>12. ASSUME NEW d \in End, NEW f \in Frame, NEW k \in Nat, TakesAck(d, f, k)
       PROVE  SendsChange(e) /\ ReceivesChange(e)
  <2>1. CASE e = d /\ ~IsAmnesia(ep[d], f)
    BY <1>12, <2>1 DEF TakesAck, SendsChange, ReceivesChange, AcknowledgesFirst, AckFrame
  <2>2. CASE e # d
    BY <1>1, <1>2, <1>12, <2>2 DEF TakesAck
  <2>3. CASE e = d /\ IsAmnesia(ep[d], f)
    BY <1>4, <1>12, <2>3 DEF TakesAck
  <2>. QED  BY <2>1, <2>2, <2>3
<1>. QED
  BY <1>5, <1>6, <1>7, <1>8, <1>9, <1>10, <1>11, <1>12 DEF Effect

-----------------------------------------------------------------------------
(* Numbers: the client is never acknowledged more than it sent.  Only the   *)
(* server can be, by a client that knew an earlier incarnation of it.       *)

\* Frame g, travelling to d, names one of the first n messages of the client.
Known(n, d, g) ==
  /\ d = "server" /\ g.type = "CONTENT" => g.id <= n
  /\ d = "client" /\ g.type = "ACK" => g.id <= n

Numbers ==
  /\ \A e \in End : QueueNumbered(ep[e])
  /\ server.lastProcessedId <= client.lastSendId
  /\ \A r \in server.pendingReceives : r.id <= client.lastSendId
  /\ \A s \in Sockets, d \in End : \A i \in 1 .. Len(wire[s][d]) :
       Known(client.lastSendId, d, wire[s][d][i])

LEMMA SentNumbered ==
  ASSUME NEW q \in Transport, NEW p, NEW m \in Msg, Sent(p, q, m), QueueNumbered(q)
  PROVE  QueueNumbered(p)
<1>. DEFINE x == q.pendingSends
            y == NextNumbered(q, m)
            z == Append(x, y)
<1>1. x \in Seq(Numbered) /\ Len(x) \in Nat /\ q.lastSendId \in Nat /\ y.id = q.lastSendId + 1
  BY LenProperties DEF Transport, NextNumbered
<1>2. y \in Numbered
  BY DEF NextNumbered, Numbered, Transport
<1>3. p.pendingSends = z /\ p.lastSendId = q.lastSendId + 1
  BY DEF Sent
<1>4. /\ Len(x) <= q.lastSendId
      /\ \A i \in 1 .. Len(x) : x[i].id = q.lastSendId - Len(x) + i
  BY DEF QueueNumbered
<1>. HIDE DEF x, y
<1>5. /\ Len(z) = Len(x) + 1
      /\ \A i \in 1 .. Len(x) : z[i] = x[i]
      /\ z[Len(x) + 1] = y
  BY <1>1, <1>2, AppendProperties
<1>. HIDE DEF z
<1>6. \A i \in 1 .. Len(z) : z[i].id = p.lastSendId - Len(z) + i
  <2>. SUFFICES ASSUME NEW i \in 1 .. Len(z) PROVE z[i].id = p.lastSendId - Len(z) + i
    OBVIOUS
  <2>1. CASE i \in 1 .. Len(x)
    <3>1. z[i].id = q.lastSendId - Len(x) + i
      BY <1>4, <1>5, <2>1
    <3>. QED  BY <1>1, <1>3, <1>5, <3>1
  <2>2. CASE i = Len(x) + 1
    BY <1>1, <1>3, <1>5, <2>2
  <2>. QED  BY <1>1, <1>5, <2>1, <2>2
<1>. QED
  BY <1>1, <1>3, <1>4, <1>5, <1>6 DEF QueueNumbered

LEMMA TailNumbered ==
  ASSUME NEW q \in Transport, NEW p, NEW k \in 0 .. Len(q.pendingSends),
         p.lastSendId = q.lastSendId, QueueNumbered(q),
         p.pendingSends = SubSeq(q.pendingSends, k + 1, Len(q.pendingSends))
  PROVE  /\ QueueNumbered(p)
         /\ Len(p.pendingSends) = Len(q.pendingSends) - k
         /\ \A i \in 1 .. Len(p.pendingSends) : p.pendingSends[i] = q.pendingSends[k + i]
<1>. DEFINE x == q.pendingSends
            z == SubSeq(x, k + 1, Len(x))
<1>1. x \in Seq(Numbered) /\ Len(x) \in Nat /\ q.lastSendId \in Nat /\ k \in 0 .. Len(x)
  BY LenProperties DEF Transport
<1>2. /\ Len(x) <= q.lastSendId
      /\ \A i \in 1 .. Len(x) : x[i].id = q.lastSendId - Len(x) + i
  BY DEF QueueNumbered
<1>3. p.pendingSends = z
  OBVIOUS
<1>. HIDE DEF x
<1>4. Len(z) = Len(x) - k /\ \A i \in 1 .. Len(x) - k : z[i] = x[k + i]
  <2>1. \A j \in k + 1 .. Len(x) : x[j] \in Numbered
    BY <1>1, ElementOfSeq
  <2>2. k + 1 \in Int /\ Len(x) \in Int
    BY <1>1
  <2>. QED  BY <1>1, <2>1, <2>2, SubSeqProperties
<1>. HIDE DEF z
<1>5. ASSUME NEW i \in 1 .. Len(z)
      PROVE  z[i].id = p.lastSendId - Len(z) + i /\ z[i] = x[k + i]
  <2>1. k + i \in 1 .. Len(x) /\ i \in 1 .. Len(x) - k
    BY <1>1, <1>4
  <2>2. z[i] = x[k + i] /\ x[k + i].id = q.lastSendId - Len(x) + (k + i)
    BY <1>2, <1>4, <2>1
  <2>. QED  BY <1>1, <1>4, <2>2
<1>6. /\ Len(z) \in Nat /\ Len(z) <= p.lastSendId
      /\ \A i \in 1 .. Len(z) : z[i].id = p.lastSendId - Len(z) + i
  BY <1>1, <1>2, <1>4, <1>5
<1>7. QueueNumbered(p)
  BY <1>3, <1>6 DEF QueueNumbered
<1>. QED
  BY <1>3, <1>4, <1>5, <1>7 DEF x

LEMMA QueueNumberedStep ==
  ASSUME Sane, Effect, NEW e \in End, QueueNumbered(ep[e])
  PROVE  /\ QueueNumbered(ep'[e])
         /\ e = "client" => ep'[e].lastSendId >= ep[e].lastSendId
<1>1. ep[e] \in Transport /\ ep[e].lastSendId \in Nat /\ Len(<<>>) = 0
  BY SaneParts, EmptySeq DEF Transport
<1>2. SendsChange(e)
  BY QueuesChange
<1>3. CASE /\ ep'[e].lastSendId = ep[e].lastSendId
           /\ ep'[e].pendingSends \in {ep[e].pendingSends, <<>>}
  <2>1. CASE ep'[e].pendingSends = ep[e].pendingSends
    BY <1>1, <1>3, <2>1 DEF QueueNumbered
  <2>2. CASE ep'[e].pendingSends = <<>>
    <3>1. Len(ep'[e].pendingSends) = 0 /\ ep'[e].lastSendId \in Nat
      BY <1>1, <1>3, <2>2
    <3>2. QueueNumbered(ep'[e])
      BY <3>1 DEF QueueNumbered
    <3>. QED  BY <1>1, <1>3, <3>1, <3>2
  <2>. QED  BY <1>3, <2>1, <2>2
<1>4. CASE e = "server" /\ ep'[e] = NewTransport
  BY <1>1, <1>4 DEF QueueNumbered, NewTransport
<1>5. CASE ep'[e].lastSendId = ep[e].lastSendId + 1 /\ ep'[e].pendingSends = <<>>
  BY <1>1, <1>5 DEF QueueNumbered
<1>6. CASE \E m \in Msg : Sent(ep'[e], ep[e], m)
  <2>1. PICK m \in Msg : Sent(ep'[e], ep[e], m)
    BY <1>6
  <2>2. ep'[e].lastSendId = ep[e].lastSendId + 1
    BY <2>1 DEF Sent
  <2>. QED  BY <1>1, <2>1, <2>2, SentNumbered
<1>7. CASE /\ ep'[e].lastSendId = ep[e].lastSendId
           /\ \E k \in 0 .. Len(ep[e].pendingSends) :
                ep'[e].pendingSends = SubSeq(ep[e].pendingSends, k + 1, Len(ep[e].pendingSends))
  <2>1. PICK k \in 0 .. Len(ep[e].pendingSends) :
          ep'[e].pendingSends = SubSeq(ep[e].pendingSends, k + 1, Len(ep[e].pendingSends))
    BY <1>7
  <2>2. QueueNumbered(ep'[e])
    BY <1>1, <1>7, <2>1, TailNumbered
  <2>. QED  BY <1>1, <1>7, <2>2
<1>. QED
  <2>. HIDE DEF QueueNumbered
  <2>. QED  BY <1>2, <1>3, <1>4, <1>5, <1>6, <1>7, EndCases DEF SendsChange

LEMMA NumbersStep ==
  ASSUME Sane, Effect, Numbers
  PROVE  Numbers'
<1>1. /\ client = ep["client"] /\ server = ep["server"]
      /\ client' = ep'["client"] /\ server' = ep'["server"]
      /\ client \in Transport /\ server \in Transport
      /\ client.lastSendId \in Nat /\ server.lastProcessedId \in Nat
      /\ wire \in Wires
  BY SaneParts, EndCases DEF client, server, Transport
<1>2. \A e \in End : QueueNumbered(ep'[e])
  BY QueueNumberedStep DEF Numbers
<1>3. client'.lastSendId \in Nat /\ client'.lastSendId >= client.lastSendId
  <2>1. SendsChange("client")
    BY QueuesChange, EndCases
  <2>2. client'.lastSendId \in {client.lastSendId, client.lastSendId + 1}
    BY <1>1, <2>1, EndCases DEF SendsChange, Sent
  <2>. QED  BY <1>1, <2>2
<1>4. /\ server'.lastProcessedId <= client'.lastSendId
      /\ \A r \in server'.pendingReceives : r.id <= client'.lastSendId
  <2>1. ReceivesChange("server")
    BY QueuesChange, EndCases
  <2>2. CASE /\ server'.lastProcessedId = server.lastProcessedId
             /\ server'.pendingReceives \in {server.pendingReceives, {}}
    <3>1. \A r \in server'.pendingReceives : r \in Numbered /\ r.id <= client.lastSendId
      BY <1>1, <2>2 DEF Numbers, Transport
    <3>. QED  BY <1>1, <1>3, <2>2, <3>1 DEF Numbers, Numbered
  <2>3. CASE server' = NewTransport
    BY <1>3, <2>3 DEF NewTransport
  <2>4. ASSUME NEW f \in Frame, NEW n \in Nat, TakesContent("server", f, n)
        PROVE  /\ server'.lastProcessedId <= client'.lastSendId
               /\ \A r \in server'.pendingReceives : r.id <= client'.lastSendId
    <3>1. /\ f \in ContentFrame /\ ProcessesUpTo(server, f, n)
          /\ server'.lastProcessedId = n
          /\ server'.pendingReceives \subseteq Received(server, f)
      BY <1>1, <2>4 DEF TakesContent
    <3>2. f.id <= client.lastSendId /\ f.id \in Nat /\ f.type = "CONTENT"
      <4>1. /\ server.socket \in Sockets /\ 1 \in 1 .. Len(wire[server.socket]["server"])
            /\ f = wire[server.socket]["server"][1]
        BY <1>1, <2>4, NextFrame, EndCases DEF TakesContent, Reads
      <4>2. Known(client.lastSendId, "server", f)
        BY <4>1, EndCases DEF Numbers
      <4>. QED  BY <3>1, <4>2 DEF Known, ContentFrame
    <3>3. \A r \in Received(server, f) : r.id \in Nat /\ r.id <= client.lastSendId
      <4>1. \A r \in server.pendingReceives : r.id \in Nat /\ r.id <= client.lastSendId
        BY <1>1 DEF Numbers, Transport, Numbered
      <4>2. \A r \in Received(server, f) : r \in server.pendingReceives \/ r.id = f.id
        BY DEF Received
      <4>. QED  BY <3>2, <4>1, <4>2
    <3>4. n <= client.lastSendId
      <4>1. n = server.lastProcessedId \/ \E r \in Received(server, f) : r.id = n
        BY <1>1, <3>1, ReadUpTo
      <4>. QED  BY <1>1, <3>3, <4>1 DEF Numbers
    <3>. QED  BY <1>1, <1>3, <3>1, <3>3, <3>4
  <2>. QED  BY <1>1, <2>1, <2>2, <2>3, <2>4 DEF ReceivesChange
<1>5. ASSUME NEW s \in Sockets, NEW d \in End, NEW i \in 1 .. Len(wire'[s][d])
      PROVE  Known(client'.lastSendId, d, wire'[s][d][i])
  <2>. DEFINE g == wire'[s][d][i]
              Fine == /\ d = "server" /\ g.type = "CONTENT" => g.id <= client'.lastSendId
                      /\ d = "client" /\ g.type = "ACK" => g.id <= client'.lastSendId
  <2>1. CASE \E k \in 1 .. Len(wire[s][d]) : g = wire[s][d][k]
    <3>1. PICK k \in 1 .. Len(wire[s][d]) : g = wire[s][d][k]
      BY <2>1
    <3>2. g \in Frame /\ Known(client.lastSendId, d, g)
      <4>1. wire[s][d] \in Seq(Frame) /\ Known(client.lastSendId, d, wire[s][d][k])
        BY <1>1 DEF Wires, Numbers
      <4>. QED  BY <3>1, <4>1, ElementOfSeq
    <3>3. g.id \in Nat
      BY <3>2 DEF Frame, ContentFrame, AckFrame
    <3>. QED  BY <1>1, <1>3, <3>2, <3>3 DEF Known
  <2>2. CASE FreshAck(Peer(d), g)
    <3>1. g.type = "ACK" /\ g.id = ep[Peer(d)].lastProcessedId
      BY <2>2 DEF FreshAck, AckOf
    <3>2. d = "client" => g.id <= client.lastSendId /\ g.id \in Nat
      BY <1>1, <3>1, EndCases DEF Numbers
    <3>3. Fine
      BY <1>1, <1>3, <3>1, <3>2
    <3>. QED  BY <3>3 DEF Known
  <2>3. CASE FreshResend(Peer(d), g)
    <3>1. PICK j \in 1 .. Len(ep[Peer(d)].pendingSends) :
            g = ContentOf(ep[Peer(d)].pendingSends[j])
      BY <2>3 DEF FreshResend
    <3>2. g.type = "CONTENT" /\ g.id = ep[Peer(d)].pendingSends[j].id
      BY <3>1 DEF ContentOf
    <3>3. d = "server" => ep[Peer(d)] = client /\ QueueNumbered(client)
      BY <1>1, EndCases DEF Numbers
    <3>4. d = "server" => g.id \in 1 .. client.lastSendId
      BY <1>1, <3>1, <3>2, <3>3, EntryNumbered
    <3>5. Fine
      BY <1>1, <1>3, <3>2, <3>4, EndCases
    <3>. QED  BY <3>5 DEF Known
  <2>4. CASE FreshMessage(Peer(d), g)
    <3>1. /\ g.type = "CONTENT"
          /\ d = "server" => g.id = client'.lastSendId
      BY <1>1, <2>4, EndCases DEF FreshMessage
    <3>2. Fine
      BY <1>3, <3>1, EndCases
    <3>. QED  BY <3>2 DEF Known
  <2>. QED  BY <2>1, <2>2, <2>3, <2>4, FrameOrigin DEF Fresh
<1>. QED
  BY <1>2, <1>4, <1>5 DEF Numbers

LEMMA InitNumbers == Init => Numbers
<1>. SUFFICES ASSUME Init PROVE Numbers
  OBVIOUS
<1>1. /\ \A e \in End : ep[e] = NewTransport
      /\ client = NewTransport /\ server = NewTransport
      /\ \A s \in Sockets, d \in End : wire[s][d] = <<>>
      /\ Len(<<>>) = 0
  BY EmptySeq, EndCases DEF Init, client, server
<1>2. QueueNumbered(NewTransport)
  BY <1>1 DEF QueueNumbered, NewTransport
<1>. QED
  BY <1>1, <1>2 DEF Numbers, NewTransport

\* The client is never told of a message it did not send.
LEMMA ClientKeepsMemory ==
  ASSUME Sane, Numbers, NEW f, NEW k, TakesAck("client", f, k)
  PROVE  ~IsAmnesia(client, f)
<1>1. /\ client = ep["client"] /\ client.socket \in Sockets
      /\ f = wire[client.socket]["client"][1] /\ f.type = "ACK" /\ f.id \in Nat
      /\ 1 \in 1 .. Len(wire[client.socket]["client"])
      /\ client.lastSendId \in Nat
  BY SaneParts, NextFrame, EndCases DEF TakesAck, Reads, client, AckFrame, Transport
<1>2. Known(client.lastSendId, "client", f)
  BY <1>1, EndCases DEF Numbers
<1>. QED
  BY <1>1, <1>2 DEF Known, IsAmnesia

\* The client is never acknowledged more than it sent, so only a server meets
\* the amnesia branch of _handleMessage.
THEOREM NumbersAlways == Spec => [](Sane /\ Numbers)
<1>1. Sane /\ Numbers /\ [Next]_vars => (Sane /\ Numbers)'
  BY SaneStep, StepEffect, NumbersStep
<1>. QED
  BY <1>1, InitSane, InitNumbers, PTL DEF Spec

-----------------------------------------------------------------------------
(* A disconnected client is on its way back. *)

\* A step that neither opens nor closes the client's transport.
LEMMA SameClient ==
  ASSUME NeverStranded,
         client'.isClosed = client.isClosed, client'.socket = client.socket,
         ping' # "none" <=> ping # "none",
         reconnectTimer' => ~client.isClosed,
         IsDisconnected(client) => reconnectTimer' \/ dialing' > 0 \/ opening' # {}
  PROVE  NeverStranded'
  BY DEF NeverStranded, IsOpen, IsDisconnected

LEMMA QuietNotStranded ==
  ASSUME Sane, NeverStranded, QuietActions \/ UNCHANGED vars
  PROVE  NeverStranded'
<1>1. UNCHANGED <<ep, opening>> /\ client' = client
  BY DEF QuietActions, ReconnectTimerFires, HeartbeatRestored, DialFails, BreakSocket,
         UnusedWebSocketFails, PingTimerFires, PongArrives, vars, socketVars, client
<1>2. dialing \in Nat /\ reconnectTimer \in BOOLEAN /\ MaxDial \in Nat
  BY SaneParts DEF Sane, TypeOK
<1>3. CASE ReconnectTimerFires
  <2>1. IsDisconnected(client) => dialing' > 0
    BY <1>2, <1>3 DEF ReconnectTimerFires
  <2>2. ~reconnectTimer' /\ ping' = ping
    BY <1>3 DEF ReconnectTimerFires
  <2>. QED  BY <1>1, <2>1, <2>2, SameClient
<1>4. CASE HeartbeatRestored
  BY <1>1, <1>4, SameClient DEF HeartbeatRestored, IsDisconnected
<1>5. CASE DialFails \/ \E s \in Sockets : UnusedWebSocketFails(s)
  <2>1. reconnectTimer' = (reconnectTimer \/ IsDisconnected(client)) /\ ping' = ping
    BY <1>5 DEF DialFails, UnusedWebSocketFails
  <2>2. /\ IsDisconnected(client) => reconnectTimer'
        /\ reconnectTimer' => reconnectTimer \/ IsDisconnected(client)
    BY <2>1, Zenon
  <2>. QED  BY <1>1, <2>1, <2>2, SameClient DEF NeverStranded, IsDisconnected
<1>6. CASE PingTimerFires \/ PongArrives
  <2>1. /\ UNCHANGED <<reconnectTimer, dialing>>
        /\ ping' # "none" /\ ping # "none"
    BY <1>6 DEF PingTimerFires, PongArrives, socketVars
  <2>. QED  BY <1>1, <2>1, SameClient DEF NeverStranded
<1>7. CASE (\E s \in Sockets : BreakSocket(s)) \/ UNCHANGED vars
  <2>1. UNCHANGED <<reconnectTimer, dialing, ping>>
    BY <1>7 DEF BreakSocket, vars, clientVars, socketVars
  <2>. QED  BY <1>1, <2>1, SameClient DEF NeverStranded
<1>. QED
  BY <1>3, <1>4, <1>5, <1>6, <1>7 DEF QuietActions

LEMMA CloseReliableSocketNotStranded ==
  ASSUME Sane, NEW q \in Transport, q.isClosed => q.socket = NoSocket,
         NEW frames, CloseReliableSocket(q, frames)
  PROVE  NeverStranded'
<1>1. client' = Close(q)
  BY EndValues, EndCases DEF CloseReliableSocket, client
<1>2. client'.isClosed /\ ~reconnectTimer' /\ ping' = "none"
  <2>1. Close(q).isClosed
    BY CloseEmptiesQueues DEF Close
  <2>. QED  BY <1>1, <2>1 DEF CloseReliableSocket
<1>. QED
  BY <1>2 DEF NeverStranded, IsOpen, IsDisconnected

LEMMA OpensNotStranded ==
  ASSUME Sane, NeverStranded, NEW s \in Sockets, Opens(s)
  PROVE  NeverStranded'
<1>1. /\ client \in Transport /\ s \in Nat /\ s # NoSocket /\ reconnectTimer' = reconnectTimer
  BY SaneParts DEF Sockets, NoSocket, Opens
<1>2. CASE IsDisconnected(client)
  <2>1. client' = Reconnect(client, s)
    BY <1>2, EndValues, EndCases DEF Opens, client
  <2>2. client'.socket = s /\ ~client'.isClosed
    BY <1>1, <1>2, <2>1, ReconnectSocket, SocketsKeepQueues DEF IsDisconnected, SameQueues
  <2>3. ping' = "idle"
    BY <1>2 DEF Opens
  <2>. QED  BY <1>1, <2>2, <2>3 DEF NeverStranded, IsOpen, IsDisconnected
<1>3. CASE ~IsDisconnected(client)
  <2>1. client' = client /\ ping' = ping
    BY <1>3 DEF Opens, client
  <2>. QED  BY <1>1, <1>3, <2>1, SameClient DEF NeverStranded
<1>. QED
  BY <1>2, <1>3

LEMMA LoseWebSocketNotStranded ==
  ASSUME Sane, NeverStranded, NEW e \in End, NEW s, LoseWebSocket(e, s),
         e = "client" /\ client.socket = s => IsOpen(client)
  PROVE  NeverStranded'
<1>1. UNCHANGED <<opening, dialing>> /\ client = ep["client"] /\ client \in Transport
  BY SaneParts DEF LoseWebSocket, client
<1>2. CASE e = "client" /\ client.socket = s
  <2>1. client' = HandleTransportClose(client)
    BY <1>1, <1>2, EndValues DEF LoseWebSocket, client
  <2>2. client'.socket = NoSocket /\ ~client'.isClosed
    BY <1>1, <1>2, <2>1, LoseSocketType, SocketsKeepQueues DEF IsOpen, SameQueues, NoSocket
  <2>3. ping' = "none" /\ reconnectTimer'
    BY <1>1, <1>2 DEF LoseWebSocket
  <2>. QED  BY <2>2, <2>3 DEF NeverStranded, IsOpen, IsDisconnected
<1>3. CASE ~(e = "client" /\ client.socket = s)
  <2>1. UNCHANGED <<ping, reconnectTimer>>
    BY <1>1, <1>3 DEF LoseWebSocket, clientVars
  <2>2. client' = client
    <3>1. CASE e = "client"
      BY <1>1, <1>3, <3>1 DEF LoseWebSocket, client
    <3>2. CASE e = "server"
      BY <1>1, <3>2, EndCases DEF LoseWebSocket, client, Sane, TypeOK
    <3>. QED  BY <3>1, <3>2, EndCases
  <2>. QED  BY <1>1, <2>1, <2>2, SameClient DEF NeverStranded
<1>. QED
  BY <1>2, <1>3

LEMMA ReceiveNotStranded ==
  ASSUME Sane, Numbers, NeverStranded, NEW e \in End, Receive(e)
  PROVE  NeverStranded'
<1>1. /\ UNCHANGED <<opening, dialing, reconnectTimer>>
      /\ client = ep["client"] /\ client' = ep'["client"]
      /\ ping' = IF e = "client" /\ IsOpen(client') THEN "idle" ELSE ping
  BY DEF Receive, client
<1>. SUFFICES ASSUME ~(client'.isClosed = client.isClosed /\ client'.socket = client.socket)
              PROVE  FALSE
  <2>1. client'.isClosed = client.isClosed /\ client'.socket = client.socket
    OBVIOUS
  <2>2. ping' # "none" <=> ping # "none"
    <3>1. CASE e = "client" /\ IsOpen(client')
      BY <1>1, <2>1, <3>1 DEF NeverStranded, IsOpen
    <3>2. CASE ~(e = "client" /\ IsOpen(client'))
      BY <1>1, <3>2
    <3>. QED  BY <3>1, <3>2
  <2>. QED  BY <1>1, <2>1, <2>2, SameClient DEF NeverStranded
<1>2. \/ \E f \in Frame, n \in Nat : TakesContent(e, f, n) \/ Forgets(e, f, n)
      \/ \E f \in Frame, k \in Nat : TakesAck(e, f, k)
  BY ReceiveReads
<1>3. CASE e = "server" \/ \E f \in Frame, n \in Nat : Forgets(e, f, n)
  <2>1. client' = client
    BY <1>1, <1>2, <1>3, EndCases DEF TakesContent, TakesAck, Forgets
  <2>. QED  BY <2>1
<1>4. CASE e = "client" /\ \E f \in Frame, n \in Nat : TakesContent(e, f, n)
  BY <1>1, <1>4 DEF TakesContent
<1>5. CASE e = "client" /\ \E f \in Frame, k \in Nat : TakesAck(e, f, k)
  BY <1>1, <1>5, ClientKeepsMemory DEF TakesAck
<1>. QED
  BY <1>2, <1>3, <1>4, <1>5, EndCases

LEMMA NeverStrandedStep ==
  ASSUME Sane, Numbers, NeverStranded, [Next]_vars
  PROVE  NeverStranded'
<1>1. CASE QuietActions \/ UNCHANGED vars
  BY <1>1, QuietNotStranded
<1>2. client \in Transport /\ (client.isClosed => client.socket = NoSocket)
  BY SaneParts, EndCases DEF client
<1>3. CASE DialRefused
  <2>1. CASE CloseReliableSocket(client, <<>>)
    BY <1>2, <2>1, CloseReliableSocketNotStranded
  <2>2. CASE /\ reconnectTimer' = (reconnectTimer \/ IsDisconnected(client))
             /\ UNCHANGED <<ep, wire, open, ping>>
    <3>1. /\ IsDisconnected(client) => reconnectTimer'
          /\ reconnectTimer' => reconnectTimer \/ IsDisconnected(client)
      BY <2>2, Zenon
    <3>2. client' = client /\ ping' = ping
      BY <2>2 DEF client
    <3>. QED  BY <3>1, <3>2, SameClient DEF NeverStranded, IsDisconnected
  <2>. QED  BY <1>3, <2>1, <2>2 DEF DialRefused
<1>4. CASE Accept
  <2>1. client' = client
    BY <1>4, AcceptEffect DEF Accepts
  <2>2. opening' # {} /\ UNCHANGED <<ping, reconnectTimer>>
    BY <1>4 DEF Accept, clientVars
  <2>. QED  BY <2>1, <2>2, SameClient DEF NeverStranded
<1>5. CASE ClientCloses
  <2>. DEFINE q == Enqueue(client, CloseMessage)
              frames == SendFrames(client, CloseMessage)
  <2>1. ~client.isClosed /\ CloseMessage \in Msg /\ CloseReliableSocket(q, frames)
    BY <1>5, MessageTypes, MsgAssumption DEF ClientCloses
  <2>2. q \in Transport /\ ~q.isClosed
    BY <1>2, <2>1, EnqueueType, EnqueueFields
  <2>. HIDE DEF q, frames
  <2>. QED  BY <2>1, <2>2, CloseReliableSocketNotStranded
<1>6. CASE Crash \/ Restart
  <2>1. client' = client
    BY <1>6, EndValues, EndCases DEF Crash, Restart, client
  <2>2. UNCHANGED <<ping, reconnectTimer, dialing, opening>>
    BY <1>6 DEF Crash, Restart, clientVars, socketVars
  <2>. QED  BY <2>1, <2>2, SameClient DEF NeverStranded
<1>7. CASE \E s \in Sockets : Opens(s)
  BY <1>7, OpensNotStranded
<1>8. ASSUME NEW s \in Sockets, OpenFails(s)
      PROVE  NeverStranded'
  <2>1. reconnectTimer' = (reconnectTimer \/ IsDisconnected(client))
    BY <1>8 DEF OpenFails
  <2>2. /\ IsDisconnected(client) => reconnectTimer'
        /\ reconnectTimer' => reconnectTimer \/ IsDisconnected(client)
    BY <2>1, Zenon
  <2>3. client' = client /\ ping' = ping
    BY <1>8 DEF OpenFails, client
  <2>. QED  BY <2>2, <2>3, SameClient DEF NeverStranded, IsDisconnected
<1>9. CASE LosingActions
  <2>1. ASSUME NEW s \in Sockets, NEW e \in End, WebSocketCloses(e, s)
        PROVE  NeverStranded'
    <3>1. e = "client" /\ client.socket = s => IsOpen(client)
      BY <1>2 DEF IsOpen, Sockets, NoSocket
    <3>. QED  BY <2>1, <3>1, LoseWebSocketNotStranded DEF WebSocketCloses
  <2>2. CASE PingTimeout
    <3>1. IsOpen(client) /\ LoseWebSocket("client", client.socket)
      BY <2>2 DEF PingTimeout, NeverStranded
    <3>. QED  BY <3>1, LoseWebSocketNotStranded, EndCases
  <2>3. ASSUME NEW e \in End, PendingMessageTimeout(e)
        PROVE  NeverStranded'
    <3>1. LoseWebSocket(e, ep[e].socket) /\ ep[e].socket # NoSocket
      BY <2>3, SaneParts DEF PendingMessageTimeout
    <3>2. e = "client" => IsOpen(client)
      BY <1>2, <3>1 DEF client, IsOpen
    <3>. QED  BY <3>1, <3>2, LoseWebSocketNotStranded
  <2>. QED  BY <1>9, <2>1, <2>2, <2>3 DEF LosingActions
<1>10. CASE SendRequest \/ SendReply
  <2>1. /\ UNCHANGED <<ping, reconnectTimer, dialing, opening>>
        /\ client'.isClosed = client.isClosed /\ client'.socket = client.socket
    <3>1. CASE SendRequest
      <4>1. client' = Enqueue(client, Request)
        BY <3>1, EndValues, EndCases DEF SendRequest, Send, client
      <4>2. Request \in Msg /\ ~client.isClosed
        BY <3>1, MessageTypes, MsgAssumption DEF SendRequest
      <4>. QED
        BY <1>2, <3>1, <4>1, <4>2, EnqueueType, EnqueueFields DEF SendRequest, Send, clientVars
    <3>2. CASE SendReply
      <4>1. client' = client
        BY <3>2, EndValues, EndCases DEF SendReply, Send, client
      <4>. QED  BY <3>2, <4>1 DEF SendReply, Send, clientVars
    <3>. QED  BY <1>10, <3>1, <3>2
  <2>. QED  BY <2>1, SameClient DEF NeverStranded
<1>11. ASSUME NEW e \in End, AckTimeout(e)
       PROVE  NeverStranded'
  <2>1. Acknowledges(e) /\ UNCHANGED <<ping, reconnectTimer, dialing, opening>>
    BY <1>11, AckTimeoutEffect DEF AckTimeout, clientVars
  <2>2. client'.isClosed = client.isClosed /\ client'.socket = client.socket
    BY <2>1, EndCases DEF Acknowledges, SameQueues, client
  <2>. QED  BY <2>1, <2>2, SameClient DEF NeverStranded
<1>12. CASE \E e \in End : Receive(e)
  BY <1>12, ReceiveNotStranded
<1>. QED
  BY <1>1, <1>3, <1>4, <1>5, <1>6, <1>7, <1>8, <1>9, <1>10, <1>11, <1>12
     DEF Next, QuietActions, LosingActions

\* A disconnected client has a reconnect scheduled, a dial in flight or a
\* socket about to open; a closed one schedules nothing; and pings guard
\* exactly the socket in use.
THEOREM NotStranded == Spec => []NeverStranded
<1>1. Init => NeverStranded
  BY EndCases DEF Init, NeverStranded, client, NewTransport, IsDisconnected, IsOpen, NoSocket
<1>2. Sane /\ Numbers /\ NeverStranded /\ [Next]_vars => NeverStranded'
  BY NeverStrandedStep
<1>. QED
  BY <1>1, <1>2, NumbersAlways, PTL DEF Spec

-----------------------------------------------------------------------------
(* Voices: who says what.  The client is answered by incarnations of the    *)
(* server, each on the sockets it accepted; only a client that is closed    *)
(* has said so.                                                             *)

Replies(b) == {Reply(i) : i \in 0 .. b}

\* On socket s, frame g to the client comes from an incarnation up to b, and
\* from b itself exactly if s is not one of the retired ones.
VoiceOf(s, g, old, b, running) ==
  g.type = "CONTENT" =>
    /\ g.msg \in Replies(b)
    /\ s > old => g.msg = Reply(b)
    /\ running /\ s <= old => g.msg # Reply(b)

Voices ==
  /\ \A s \in Sockets : \A i \in 1 .. Len(wire[s]["client"]) :
       VoiceOf(s, wire[s]["client"][i], retired, restarts, up)
  /\ \A s \in Sockets : \A i \in 1 .. Len(wire[s]["server"]) :
       wire[s]["server"][i].type = "CONTENT" /\ wire[s]["server"][i].msg = CloseMessage
         => client.isClosed
  /\ \A r \in server.pendingReceives : r.msg = CloseMessage => client.isClosed
  /\ \A i \in 1 .. Len(client.pendingSends) : client.pendingSends[i].msg = Request
  /\ \A i \in 1 .. Len(server.pendingSends) : server.pendingSends[i].msg = Reply(restarts)

LEMMA VoicesDiffer ==
  /\ Request # CloseMessage
  /\ \A b : Reply(b) # CloseMessage /\ Reply(b) # Request
  /\ \A a, b : Reply(a) = Reply(b) => a = b
  BY DEF Request, CloseMessage, Reply

\* A frame travels on a socket that was accepted.
LEMMA WiresAccepted ==
  ASSUME Sane, NEW s \in Sockets, NEW e \in End, NEW i \in 1 .. Len(wire[s][e])
  PROVE  s \in 1 .. accepted /\ s <= accepted /\ wire[s][e] # <<>>
<1>1. wire[s][e] # <<>>
  BY EmptySeq
<1>2. Reaches(s, e, ep, opening)
  BY <1>1 DEF Sane, Structure
<1>3. ep[e].socket \in 0 .. accepted /\ opening \subseteq 1 .. accepted
  BY SaneParts DEF Sane, TypeOK
<1>. QED
  BY <1>1, <1>2, <1>3, SaneParts DEF Reaches, Sockets

LEMMA StaysClosed ==
  ASSUME Sane, Effect, client.isClosed
  PROVE  client'.isClosed
<1>1. client = ep["client"] /\ client' = ep'["client"]
  BY DEF client
<1>2. ASSUME NEW e \in End, Loses(e) \/ Acknowledges(e)
      PROVE  client'.isClosed
  BY <1>1, <1>2, EndCases DEF Loses, Acknowledges, SameQueues, Emptied
<1>3. CASE (\E s \in Sockets : Adopts(s)) \/ Accepts \/ SaysClose \/ Dies \/ Returns
  BY <1>1, <1>3 DEF Adopts, Accepts, SaysClose, Dies, Returns, SameQueues
<1>4. ASSUME NEW e \in End, NEW m \in Msg, Sends(e, m)
      PROVE  client'.isClosed
  BY <1>1, <1>4, EndCases DEF Sends, Sent
<1>5. ASSUME NEW e \in End, NEW f \in Frame, NEW n \in Nat,
             TakesContent(e, f, n) \/ Forgets(e, f, n) \/ TakesAck(e, f, n)
      PROVE  client'.isClosed
  BY <1>1, <1>5, EndCases DEF TakesContent, Forgets, TakesAck, Reads, IsOpen
<1>. QED
  BY <1>2, <1>3, <1>4, <1>5 DEF Effect

\* The process of the server is the same, unless it dies or returns.
LEMMA ProcessKept ==
  ASSUME Effect, ~Dies, ~Returns
  PROVE  UNCHANGED <<up, restarts, retired>>
<1>1. ASSUME NEW e \in End, Loses(e) \/ Acknowledges(e)
      PROVE  UNCHANGED <<up, restarts, retired>>
  BY <1>1 DEF Loses, Acknowledges, Steady
<1>2. CASE (\E s \in Sockets : Adopts(s)) \/ Accepts \/ SaysClose
  BY <1>2 DEF Adopts, Accepts, SaysClose, Steady
<1>3. ASSUME NEW e \in End, NEW m \in Msg, Sends(e, m)
      PROVE  UNCHANGED <<up, restarts, retired>>
  BY <1>3 DEF Sends, Steady
<1>4. ASSUME NEW e \in End, NEW f \in Frame, NEW n \in Nat,
             TakesContent(e, f, n) \/ Forgets(e, f, n) \/ TakesAck(e, f, n)
      PROVE  UNCHANGED <<up, restarts, retired>>
  BY <1>4 DEF TakesContent, Forgets, TakesAck, Reads
<1>. QED
  BY <1>1, <1>2, <1>3, <1>4 DEF Effect

\* The messages of a queue, after a step.
LEMMA QueueMessages ==
  ASSUME Sane, Effect, \A e \in End : QueueNumbered(ep[e]), NEW e \in End, NEW m,
         \A i \in 1 .. Len(ep[e].pendingSends) : ep[e].pendingSends[i].msg = m,
         \A x \in Msg : MaySend(e, x) => x = m
  PROVE  \A i \in 1 .. Len(ep'[e].pendingSends) : ep'[e].pendingSends[i].msg = m
<1>1. ep[e] \in Transport /\ ep[e].pendingSends \in Seq(Numbered) /\ Len(<<>>) = 0
  BY SaneParts, EmptySeq DEF Transport
<1>2. SendsChange(e)
  BY QueuesChange
<1>3. CASE ep'[e].pendingSends = ep[e].pendingSends
  BY <1>3
<1>4. CASE ep'[e].pendingSends = <<>> \/ ep'[e] = NewTransport
  BY <1>1, <1>4 DEF NewTransport
<1>5. ASSUME NEW x \in Msg, MaySend(e, x), Sent(ep'[e], ep[e], x)
      PROVE  \A i \in 1 .. Len(ep'[e].pendingSends) : ep'[e].pendingSends[i].msg = m
  <2>. DEFINE q == ep[e].pendingSends
              y == NextNumbered(ep[e], x)
  <2>1. y \in Numbered /\ y.msg = m
    BY <1>1, <1>5 DEF NextNumbered, Numbered, Transport
  <2>2. ep'[e].pendingSends = Append(q, y)
    BY <1>5 DEF Sent
  <2>. HIDE DEF q, y
  <2>3. /\ Len(Append(q, y)) = Len(q) + 1 /\ Len(q) \in Nat
        /\ \A i \in 1 .. Len(q) : Append(q, y)[i] = q[i]
        /\ Append(q, y)[Len(q) + 1] = y
    BY <1>1, <2>1, AppendProperties, LenProperties DEF q
  <2>4. \A i \in 1 .. Len(q) : q[i].msg = m
    BY DEF q
  <2>5. \A i \in 1 .. Len(Append(q, y)) : i \in 1 .. Len(q) \/ i = Len(q) + 1
    BY <2>3
  <2>. QED  BY <2>1, <2>2, <2>3, <2>4, <2>5
<1>6. ASSUME NEW k \in 0 .. Len(ep[e].pendingSends),
             ep'[e].lastSendId = ep[e].lastSendId,
             ep'[e].pendingSends = SubSeq(ep[e].pendingSends, k + 1, Len(ep[e].pendingSends))
      PROVE  \A i \in 1 .. Len(ep'[e].pendingSends) : ep'[e].pendingSends[i].msg = m
  <2>1. /\ Len(ep'[e].pendingSends) = Len(ep[e].pendingSends) - k
        /\ \A i \in 1 .. Len(ep'[e].pendingSends) :
             ep'[e].pendingSends[i] = ep[e].pendingSends[k + i]
    BY <1>1, <1>6, TailNumbered
  <2>2. \A i \in 1 .. Len(ep'[e].pendingSends) : k + i \in 1 .. Len(ep[e].pendingSends)
    BY <1>1, <2>1, LenProperties
  <2>. QED  BY <2>1, <2>2
<1>. QED
  BY <1>2, <1>3, <1>4, <1>5, <1>6 DEF SendsChange

\* What a dead or restarted server leaves behind.
LEMMA ServerGone ==
  ASSUME Sane, Dies \/ Returns
  PROVE  /\ server' = NewTransport /\ client' = client /\ late' = late
         /\ retired' = accepted /\ accepted' = accepted
         /\ delivered'["client"] = delivered["client"]
         /\ \A s \in Sockets, d \in End : \A i \in 1 .. Len(wire'[s][d]) :
              /\ s <= retired' /\ d = "client"
              /\ \E k \in 1 .. Len(wire[s][d]) : wire'[s][d][i] = wire[s][d][k]
<1>1. server' = NewTransport /\ client' = client /\ late' = late
  BY DEF Dies, Returns, Sane, Structure, client, server
<1>2. retired' = accepted /\ accepted' = accepted
  BY DEF Dies, Returns, Sane, Structure
<1>3. delivered'["client"] = delivered["client"]
  BY EndCases DEF Dies, Returns, Sane, TypeOK
<1>4. wire' = Carried(wire, ep', opening') /\ opening' = opening
  BY WireSettled DEF Dies, Returns
<1>5. ASSUME NEW s \in Sockets, NEW d \in End, NEW i \in 1 .. Len(wire'[s][d])
      PROVE  /\ s <= retired' /\ d = "client"
             /\ \E k \in 1 .. Len(wire[s][d]) : wire'[s][d][i] = wire[s][d][k]
  <2>1. PICK k \in 1 .. Len(wire[s][d]) : wire'[s][d][i] = wire[s][d][k]
    BY <1>4, CarriedOrigin
  <2>2. s <= accepted
    BY <2>1, WiresAccepted
  <2>3. wire'[s][d] # <<>>
    BY EmptySeq
  <2>4. Reaches(s, d, ep', opening')
    BY <1>4, <2>3 DEF Carried
  <2>5. d # "server"
    BY <1>1, <2>4, EndCases DEF Reaches, server, NewTransport, NoSocket, Sockets
  <2>. QED  BY <1>2, <2>1, <2>2, <2>5, EndCases
<1>. QED
  BY <1>1, <1>2, <1>3, <1>5

LEMMA VoicesWhenGone ==
  ASSUME Sane, Effect, Voices, Dies \/ Returns
  PROVE  Voices'
<1>1. /\ server' = NewTransport /\ client' = client
      /\ \A s \in Sockets, d \in End : \A i \in 1 .. Len(wire'[s][d]) :
           /\ s <= retired' /\ d = "client"
           /\ \E k \in 1 .. Len(wire[s][d]) : wire'[s][d][i] = wire[s][d][k]
  BY ServerGone
<1>2. /\ server'.pendingReceives = {} /\ Len(server'.pendingSends) = 0
      /\ client'.pendingSends = client.pendingSends /\ client'.isClosed = client.isClosed
  BY <1>1, EmptySeq DEF NewTransport
<1>3. ASSUME NEW s \in Sockets, NEW i \in 1 .. Len(wire'[s]["client"])
      PROVE  VoiceOf(s, wire'[s]["client"][i], retired', restarts', up')
  <2>1. PICK k \in 1 .. Len(wire[s]["client"]) : wire'[s]["client"][i] = wire[s]["client"][k]
    BY <1>1, EndCases
  <2>2. VoiceOf(s, wire'[s]["client"][i], retired, restarts, up)
    BY <2>1 DEF Voices
  <2>3. s <= retired' /\ restarts \in Nat /\ retired' \in Nat
    BY SMTT(30), <1>1, EndCases, ServerGone DEF Sane, TypeOK
  <2>4. CASE Dies
    <3>1. ~up' /\ restarts' = restarts
      BY <2>4 DEF Dies
    <3>. QED  BY <2>2, <2>3, <3>1 DEF VoiceOf, Sockets
  <2>5. CASE Returns
    <3>1. restarts' = restarts + 1
      BY <2>5 DEF Returns
    <3>2. \A x \in Replies(restarts) : x \in Replies(restarts') /\ x # Reply(restarts')
      BY <2>3, <3>1, VoicesDiffer DEF Replies
    <3>. QED  BY <2>2, <2>3, <3>2 DEF VoiceOf, Sockets
  <2>. QED  BY <2>4, <2>5
<1>4. \A s \in Sockets : \A i \in 1 .. Len(wire'[s]["server"]) : FALSE
  BY <1>1, EndCases
<1>. QED
  BY <1>2, <1>3, <1>4 DEF Voices

LEMMA VoicesStep ==
  ASSUME Sane, Effect, Sane', Numbers, Voices
  PROVE  Voices'
<1>1. CASE Dies \/ Returns
  BY <1>1, VoicesWhenGone
<1>2. CASE ~Dies /\ ~Returns
  <2>1. UNCHANGED <<up, restarts, retired>> /\ restarts \in 0 .. MaxRestart
    BY <1>2, ProcessKept DEF Sane, TypeOK
  <2>2. /\ client = ep["client"] /\ server = ep["server"]
        /\ client' = ep'["client"] /\ server' = ep'["server"]
        /\ client \in Transport /\ server \in Transport /\ wire \in Wires
        /\ client.isClosed => client'.isClosed
        /\ \A e \in End : QueueNumbered(ep[e])
    BY SaneParts, StaysClosed, EndCases DEF client, server, Numbers
  <2>3. \A i \in 1 .. Len(client'.pendingSends) : client'.pendingSends[i].msg = Request
    <3>1. \A x \in Msg : MaySend("client", x) => x = Request
      BY EndCases DEF MaySend
    <3>. QED  BY <2>2, <3>1, QueueMessages, EndCases DEF Voices
  <2>4. \A i \in 1 .. Len(server'.pendingSends) : server'.pendingSends[i].msg = Reply(restarts)
    <3>1. \A x \in Msg : MaySend("server", x) => x = Reply(restarts)
      BY EndCases DEF MaySend
    <3>. QED  BY <2>2, <3>1, QueueMessages, EndCases DEF Voices
  <2>5. \A r \in server'.pendingReceives : r.msg = CloseMessage => client'.isClosed
    <3>1. ReceivesChange("server")
      BY QueuesChange, EndCases
    <3>2. CASE server'.pendingReceives \in {server.pendingReceives, {}} \/ server' = NewTransport
      BY <2>2, <3>2 DEF Voices, NewTransport
    <3>3. ASSUME NEW f \in Frame, NEW n \in Nat, TakesContent("server", f, n)
          PROVE  \A r \in server'.pendingReceives : r.msg = CloseMessage => client'.isClosed
      <4>1. /\ server.socket \in Sockets /\ 1 \in 1 .. Len(wire[server.socket]["server"])
            /\ f = wire[server.socket]["server"][1] /\ f.type = "CONTENT" /\ f \in ContentFrame
            /\ server'.pendingReceives \subseteq Received(server, f)
        BY <2>2, <3>3, NextFrame, EndCases DEF TakesContent, Reads, ContentFrame
      <4>2. f.msg = CloseMessage => client.isClosed
        BY <4>1 DEF Voices
      <4>3. \A r \in Received(server, f) : r \in server.pendingReceives \/ r.msg = f.msg
        BY DEF Received
      <4>. QED  BY <2>2, <4>1, <4>2, <4>3 DEF Voices
    <3>. QED  BY <2>2, <3>1, <3>2, <3>3 DEF ReceivesChange
  <2>6. ASSUME NEW s \in Sockets, NEW i \in 1 .. Len(wire'[s]["server"]),
               wire'[s]["server"][i].type = "CONTENT", wire'[s]["server"][i].msg = CloseMessage
        PROVE  client'.isClosed
    <3>. DEFINE g == wire'[s]["server"][i]
    <3>1. (\E k \in 1 .. Len(wire[s]["server"]) : g = wire[s]["server"][k]) \/ Fresh("client", g)
      BY FrameOrigin, EndCases
    <3>. HIDE DEF g
    <3>2. g.type = "CONTENT" /\ g.msg = CloseMessage
      BY <2>6 DEF g
    <3>3. CASE \E k \in 1 .. Len(wire[s]["server"]) : g = wire[s]["server"][k]
      BY <2>2, <3>2, <3>3 DEF Voices
    <3>4. CASE FreshAck("client", g)
      BY <3>2, <3>4 DEF FreshAck, AckOf
    <3>5. CASE FreshResend("client", g)
      BY <2>2, <3>2, <3>5, VoicesDiffer DEF FreshResend, ContentOf, Voices
    <3>6. CASE FreshMessage("client", g)
      BY <2>2, <3>2, <3>6, VoicesDiffer, EndCases DEF FreshMessage, MaySend
    <3>. QED  BY <3>1, <3>3, <3>4, <3>5, <3>6 DEF Fresh
  <2>7. ASSUME NEW s \in Sockets, NEW i \in 1 .. Len(wire'[s]["client"])
        PROVE  VoiceOf(s, wire'[s]["client"][i], retired, restarts, up)
    <3>. DEFINE g == wire'[s]["client"][i]
    <3>1. \/ \E k \in 1 .. Len(wire[s]["client"]) : g = wire[s]["client"][k]
          \/ Fresh("server", g) /\ s = server'.socket
      BY FrameOrigin, EndCases
    <3>. HIDE DEF g
    <3>2. CASE \E k \in 1 .. Len(wire[s]["client"]) : g = wire[s]["client"][k]
      BY <3>2 DEF Voices, g
    <3>3. ASSUME Fresh("server", g), s = server'.socket, g.type = "CONTENT"
          PROVE  g.msg = Reply(restarts) /\ s > retired
      <4>1. s > retired
        BY <2>1, <2>2, <3>3 DEF Sane, Structure, Sockets, NoSocket
      <4>2. CASE FreshAck("server", g)
        BY <3>3, <4>2 DEF FreshAck, AckOf
      <4>3. CASE FreshResend("server", g)
        BY <2>2, <4>1, <4>3 DEF FreshResend, ContentOf, Voices
      <4>4. CASE FreshMessage("server", g)
        BY <4>1, <4>4, EndCases DEF FreshMessage, MaySend
      <4>. QED  BY <3>3, <4>1, <4>2, <4>3, <4>4 DEF Fresh
    <3>4. Reply(restarts) \in Replies(restarts) /\ (s > retired => ~(s <= retired))
      BY <2>1 DEF Replies, Sockets, Sane, TypeOK
    <3>5. CASE Fresh("server", g) /\ s = server'.socket
      BY <3>3, <3>4, <3>5 DEF VoiceOf, g
    <3>. QED  BY <3>1, <3>2, <3>5
  <2>. QED  BY <2>1, <2>3, <2>4, <2>5, <2>6, <2>7 DEF Voices
<1>. QED
  BY <1>1, <1>2

LEMMA InitVoices == Init => Voices
<1>. SUFFICES ASSUME Init PROVE Voices
  OBVIOUS
<1>1. /\ client = NewTransport /\ server = NewTransport
      /\ \A s \in Sockets, d \in End : wire[s][d] = <<>>
      /\ Len(<<>>) = 0
  BY EmptySeq, EndCases DEF Init, client, server
<1>. QED
  BY <1>1, EndCases DEF Voices, NewTransport

-----------------------------------------------------------------------------
(* Order: as sockets keep the order of what they carry, the client never    *)
(* parks a message.  It is handed one reply for each it counts.             *)

\* The last message of the server was processed, or is on its way on the socket
\* the client uses or may still adopt.
Topped ==
  server.socket \in Sockets /\ server.socket \in opening \cup {client.socket} =>
    \/ server.lastSendId <= client.lastProcessedId
    \/ Contains(wire[server.socket]["client"], server.lastSendId)

\* Frame g to the server acknowledges at most the first n messages.
AcksUpTo(n, g) == g.type = "ACK" => g.id <= n

Ordered ==
  /\ client.pendingReceives = {}
  /\ Len(delivered["client"]) = client.lastProcessedId
  /\ ~server.isClosed =>
       server.lastSendId - Len(server.pendingSends) <= client.lastProcessedId
  /\ \A s \in Sockets : \A i \in 1 .. Len(wire[s]["server"]) :
       AcksUpTo(client.lastProcessedId, wire[s]["server"][i])
  /\ \A s \in Sockets : Chained(wire[s]["client"], client.lastProcessedId)
  /\ Topped

\* What the client reads, it was to read next, or has read before.
LEMMA ClientReads ==
  ASSUME Sane, Ordered, NEW f \in ContentFrame, Reads("client", f),
         NEW n \in Nat, ProcessesUpTo(client, f, n)
  PROVE  /\ {r \in Received(client, f) : r.id > n} = {}
         /\ n \in {client.lastProcessedId, client.lastProcessedId + 1} /\ n >= f.id
         /\ n = client.lastProcessedId => Processed(client, f, n) = <<>>
         /\ n = client.lastProcessedId + 1 =>
              /\ f.id = n
              /\ Len(Processed(client, f, n)) = 1 /\ Processed(client, f, n)[1] = f.msg
<1>1. /\ client = ep["client"] /\ client \in Transport /\ client.socket \in Sockets
      /\ 1 \in 1 .. Len(wire[client.socket]["client"])
      /\ f = wire[client.socket]["client"][1] /\ f.type = "CONTENT"
  BY SaneParts, NextFrame, EndCases DEF Reads, client, ContentFrame
<1>2. f.id <= client.lastProcessedId + 1
  <2>1. Chained(wire[client.socket]["client"], client.lastProcessedId)
    BY <1>1 DEF Ordered
  <2>2. \A j : j \notin 1 .. 1 - 1
    OBVIOUS
  <2>. QED  BY <1>1, <2>1, <2>2 DEF Chained
<1>3. client.pendingReceives = {}
  BY DEF Ordered
<1>4. client \in Transport
  BY <1>1
<1>. HIDE DEF Ordered
<1>. QED
  BY <1>2, <1>3, <1>4, InOrderContent

\* No reply is the close message.
LEMMA ClientNotForgotten ==
  ASSUME Sane, Voices, Ordered, NEW f, NEW n \in Nat
  PROVE  ~Forgets("client", f, n)
<1>. SUFFICES ASSUME Forgets("client", f, n)
              PROVE  FALSE
  OBVIOUS
<1>1. /\ client = ep["client"] /\ Reads("client", f) /\ f \in ContentFrame
      /\ ProcessesUpTo(client, f, n)
      /\ \E i \in 1 .. Len(Processed(client, f, n)) : Processed(client, f, n)[i] = CloseMessage
  BY DEF Forgets, client
<1>2. /\ client.socket \in Sockets /\ 1 \in 1 .. Len(wire[client.socket]["client"])
      /\ f = wire[client.socket]["client"][1] /\ f.type = "CONTENT"
  BY <1>1, SaneParts, NextFrame, EndCases DEF Reads, client, ContentFrame
<1>3. f.msg \in Replies(restarts)
  <2>1. VoiceOf(client.socket, wire[client.socket]["client"][1], retired, restarts, up)
    BY <1>2 DEF Voices
  <2>. QED  BY <1>2, <2>1 DEF VoiceOf
<1>4. f.msg # CloseMessage
  BY <1>3, VoicesDiffer DEF Replies
<1>5. PICK i \in 1 .. Len(Processed(client, f, n)) : Processed(client, f, n)[i] = CloseMessage
  BY <1>1
<1>6. /\ n \in {client.lastProcessedId, client.lastProcessedId + 1}
      /\ n = client.lastProcessedId => Processed(client, f, n) = <<>>
      /\ n = client.lastProcessedId + 1 =>
           Len(Processed(client, f, n)) = 1 /\ Processed(client, f, n)[1] = f.msg
  BY <1>1, ClientReads
<1>. HIDE DEF Voices, Ordered, Sane
<1>. QED
  BY <1>4, <1>5, <1>6, EmptySeq

\* What the client counts: it is handed a reply, or nothing.
HandedReply(f) ==
  /\ f \in ContentFrame /\ TakesContent("client", f, client'.lastProcessedId)
  /\ f.id = client'.lastProcessedId
  /\ client'.lastProcessedId = client.lastProcessedId + 1
  /\ delivered'["client"] = Append(delivered["client"], f.msg)

HandedNothing ==
  /\ client'.lastProcessedId = client.lastProcessedId
  /\ delivered'["client"] = delivered["client"]

LEMMA ClientHanded ==
  ASSUME Sane, Effect, Voices, Ordered
  PROVE  /\ client'.pendingReceives = {}
         /\ HandedNothing \/ \E f : HandedReply(f)
<1>1. /\ client = ep["client"] /\ client' = ep'["client"] /\ client \in Transport
      /\ client.pendingReceives = {} /\ client.lastProcessedId \in Nat
      /\ delivered \in [End -> Seq(Message)]
      /\ delivered["client"] \in Seq(Message)
  BY SaneParts, EndCases DEF client, Ordered, Transport, Sane, TypeOK
<1>2. ASSUME client'.lastProcessedId = client.lastProcessedId,
             client'.pendingReceives \in {client.pendingReceives, {}},
             delivered' = delivered \/ (\E x : delivered' = [delivered EXCEPT !["server"] = x])
      PROVE  client'.pendingReceives = {} /\ HandedNothing
  BY <1>1, <1>2, EndCases DEF HandedNothing
<1>3. ASSUME NEW e \in End, Loses(e) \/ Acknowledges(e)
      PROVE  client'.pendingReceives = {} /\ HandedNothing
  BY <1>1, <1>2, <1>3, EndCases DEF Loses, Acknowledges, SameQueues, Emptied, Steady
<1>4. CASE (\E s \in Sockets : Adopts(s)) \/ Accepts \/ SaysClose
  BY <1>1, <1>2, <1>4 DEF Adopts, Accepts, SaysClose, SameQueues, Steady
<1>5. CASE Dies \/ Returns
  BY <1>1, <1>2, <1>5 DEF Dies, Returns
<1>6. ASSUME NEW e \in End, NEW m \in Msg, Sends(e, m)
      PROVE  client'.pendingReceives = {} /\ HandedNothing
  BY <1>1, <1>2, <1>6, EndCases DEF Sends, Sent, Steady
<1>7. ASSUME NEW f \in Frame, NEW n \in Nat, TakesContent("server", f, n) \/ Forgets("server", f, n)
      PROVE  client'.pendingReceives = {} /\ HandedNothing
  BY <1>1, <1>2, <1>7, EndCases DEF TakesContent, Forgets
<1>8. ASSUME NEW e \in End, NEW f \in Frame, NEW k \in Nat, TakesAck(e, f, k)
      PROVE  client'.pendingReceives = {} /\ HandedNothing
  BY <1>1, <1>2, <1>8, EndCases DEF TakesAck, Emptied
<1>9. ASSUME NEW f \in Frame, NEW n \in Nat, TakesContent("client", f, n)
      PROVE  client'.pendingReceives = {} /\ (HandedNothing \/ HandedReply(f))
  <2>1. /\ Reads("client", f) /\ f \in ContentFrame /\ ProcessesUpTo(client, f, n)
        /\ client'.lastProcessedId = n
        /\ client'.pendingReceives = {r \in Received(client, f) : r.id > n}
        /\ delivered'["client"] = delivered["client"] \o Processed(client, f, n)
    BY <1>1, <1>9, EndCases DEF TakesContent
  <2>2. client'.pendingReceives = {}
    BY <2>1, ClientReads
  <2>3. CASE n = client.lastProcessedId
    <3>1. Processed(client, f, n) = <<>>
      BY <2>1, <2>3, ClientReads
    <3>2. delivered["client"] \o <<>> = delivered["client"]
      BY <1>1, ConcatProperties, EmptySeq
    <3>. QED  BY <2>1, <2>2, <2>3, <3>1, <3>2 DEF HandedNothing
  <2>4. CASE n = client.lastProcessedId + 1
    <3>. DEFINE P == Processed(client, f, n)
                D == delivered["client"]
    <3>1. f.id = n /\ Len(P) = 1 /\ P[1] = f.msg /\ P \in Seq(Msg)
      BY <1>1, <2>1, <2>4, ClientReads, ProcessedType
    <3>2. P = <<f.msg>>
      <4>. HIDE DEF P
      <4>. QED  BY <3>1
    <3>. HIDE DEF P, D
    <3>3. D \o <<f.msg>> = Append(D, f.msg)
      BY <1>1 DEF D
    <3>. QED  BY <1>9, <2>1, <2>2, <2>4, <3>1, <3>2, <3>3 DEF HandedReply, P, D
  <2>. QED  BY <2>1, <2>2, <2>3, <2>4, ClientReads
<1>10. ASSUME NEW f \in Frame, NEW n \in Nat, Forgets("client", f, n)
       PROVE  FALSE
  BY <1>10, ClientNotForgotten
<1>11. CASE \E e \in End, f \in Frame, n \in Nat : TakesContent(e, f, n) \/ Forgets(e, f, n)
  BY <1>7, <1>9, <1>10, <1>11, EndCases
<1>. QED
  BY <1>3, <1>4, <1>5, <1>6, <1>8, <1>11 DEF Effect

LEMMA CountsKept ==
  ASSUME Sane, Effect, Voices, Ordered
  PROVE  /\ client.lastProcessedId \in Nat /\ client'.lastProcessedId \in Nat
         /\ client.lastProcessedId <= client'.lastProcessedId
         /\ Len(delivered'["client"]) = client'.lastProcessedId
<1>1. /\ client.lastProcessedId \in Nat /\ delivered["client"] \in Seq(Message)
      /\ Len(delivered["client"]) = client.lastProcessedId
  BY SaneParts, EndCases DEF client, Ordered, Transport, Sane, TypeOK
<1>2. ASSUME NEW f, HandedReply(f)
      PROVE  Len(delivered'["client"]) = client.lastProcessedId + 1
  <2>1. f.msg \in Message
    BY <1>2, MsgAssumption DEF HandedReply, ContentFrame
  <2>. QED  BY <1>1, <1>2, <2>1, AppendProperties DEF HandedReply
<1>. QED
  BY <1>1, <1>2, ClientHanded DEF HandedReply, HandedNothing

\* What the server was acknowledged, the client processed.
LEMMA ServerAcknowledged ==
  ASSUME Sane, Effect, Numbers, Voices, Ordered, ~server'.isClosed
  PROVE  server'.lastSendId - Len(server'.pendingSends) <= client'.lastProcessedId
<1>. DEFINE q == server.pendingSends
            N == Len(q)
<1>1. /\ server = ep["server"] /\ server' = ep'["server"] /\ server \in Transport
      /\ q \in Seq(Numbered) /\ N \in Nat /\ server.lastSendId \in Nat
      /\ client.lastProcessedId \in Nat /\ client'.lastProcessedId \in Nat
      /\ client.lastProcessedId <= client'.lastProcessedId
      /\ QueueNumbered(server)
      /\ Len(<<>>) = 0
  BY SaneParts, CountsKept, LenProperties, EmptySeq, EndCases DEF server, Transport, Numbers
<1>2. SendsChange("server")
  BY QueuesChange, EndCases
<1>3. ~server.isClosed => server.lastSendId - N <= client.lastProcessedId
  BY DEF Ordered
<1>4. CASE /\ server'.lastSendId = server.lastSendId
           /\ \/ server'.pendingSends = q /\ server'.isClosed = server.isClosed
              \/ server'.pendingSends = <<>> /\ server'.isClosed
  <2>. HIDE DEF q
  <2>. QED  BY <1>1, <1>3, <1>4
<1>5. CASE server' = NewTransport
  BY <1>1, <1>5 DEF NewTransport
<1>6. ASSUME NEW m \in Msg, Sent(server', server, m)
      PROVE  server'.lastSendId - Len(server'.pendingSends) <= client'.lastProcessedId
  <2>1. /\ server'.lastSendId = server.lastSendId + 1 /\ server'.isClosed = server.isClosed
        /\ server'.pendingSends = Append(q, NextNumbered(server, m))
    BY <1>6 DEF Sent
  <2>2. NextNumbered(server, m) \in Numbered
    BY <1>1 DEF NextNumbered, Numbered
  <2>3. Len(server'.pendingSends) = N + 1
    BY <1>1, <2>1, <2>2, AppendProperties
  <2>. HIDE DEF N
  <2>. QED  BY <1>1, <1>3, <2>1, <2>3
<1>7. ASSUME NEW f \in Frame, NEW k \in 0 .. N,
             server'.lastSendId = server.lastSendId, server'.isClosed = server.isClosed,
             Reads("server", f), f.type = "ACK", AcknowledgesFirst(server, f, k),
             server'.pendingSends = SubSeq(q, k + 1, Len(q))
      PROVE  server'.lastSendId - Len(server'.pendingSends) <= client'.lastProcessedId
  <2>1. Len(server'.pendingSends) = N - k
    BY <1>1, <1>7, TailNumbered
  <2>2. f.id <= client.lastProcessedId /\ f.id \in Nat
    <3>1. /\ server.socket \in Sockets /\ 1 \in 1 .. Len(wire[server.socket]["server"])
          /\ f = wire[server.socket]["server"][1]
      BY <1>1, <1>7, NextFrame, EndCases DEF Reads
    <3>2. AcksUpTo(client.lastProcessedId, f)
      BY <3>1 DEF Ordered
    <3>. QED  BY <1>7, <3>2, FrameId DEF AcksUpTo
  <2>3. k # 0 => server.lastSendId - N + k <= f.id
    <3>1. k # 0 => k \in 1 .. k /\ k \in 1 .. N
      BY <1>1
    <3>2. k # 0 => q[k].id <= f.id /\ q[k].id = server.lastSendId - N + k
      BY <1>1, <1>7, <3>1 DEF AcknowledgesFirst, QueueNumbered
    <3>. QED  BY <3>2
  <2>. HIDE DEF N, q
  <2>4. k \in 0 .. N /\ N \in Nat /\ server.lastSendId \in Nat
    BY <1>1, <1>7
  <2>5. CASE k = 0
    BY <1>1, <1>3, <1>7, <2>1, <2>4, <2>5
  <2>6. CASE k # 0
    <3>1. server.lastSendId - N + k <= client.lastProcessedId
      BY <1>1, <2>2, <2>3, <2>4, <2>6
    <3>2. server.lastSendId - (N - k) <= client'.lastProcessedId
      BY <1>1, <2>4, <3>1
    <3>. QED  BY <1>7, <2>1, <3>2
  <2>. QED  BY <2>5, <2>6
<1>. QED
  BY <1>1, <1>2, <1>4, <1>5, <1>6, <1>7, EndCases DEF SendsChange

\* The client acknowledges only what it processed.
LEMMA AcksOrdered ==
  ASSUME Sane, Effect, Voices, Ordered,
         NEW s \in Sockets, NEW i \in 1 .. Len(wire'[s]["server"])
  PROVE  AcksUpTo(client'.lastProcessedId, wire'[s]["server"][i])
<1>. DEFINE g == wire'[s]["server"][i]
<1>1. /\ client = ep["client"] /\ wire \in Wires /\ client \in Transport
      /\ client.lastProcessedId \in Nat /\ client'.lastProcessedId \in Nat
      /\ client.lastProcessedId <= client'.lastProcessedId
  BY SaneParts, CountsKept DEF client
<1>2. (\E k \in 1 .. Len(wire[s]["server"]) : g = wire[s]["server"][k]) \/ Fresh("client", g)
  BY FrameOrigin, EndCases
<1>3. ASSUME NEW k \in 1 .. Len(wire[s]["server"]), g = wire[s]["server"][k]
      PROVE  AcksUpTo(client'.lastProcessedId, g)
  <2>1. g \in Frame /\ AcksUpTo(client.lastProcessedId, g)
    <3>1. wire[s]["server"] \in Seq(Frame)
      BY <1>1, EndCases DEF Wires
    <3>2. AcksUpTo(client.lastProcessedId, wire[s]["server"][k])
      BY DEF Ordered
    <3>. QED  BY <1>3, <3>1, <3>2, ElementOfSeq
  <2>2. g.id \in Nat
    BY <2>1, FrameId
  <2>. HIDE DEF g
  <2>. QED  BY <1>1, <2>1, <2>2 DEF AcksUpTo
<1>. HIDE DEF g
<1>4. FreshAck("client", g) => AcksUpTo(client'.lastProcessedId, g)
  BY <1>1 DEF FreshAck, AckOf, AcksUpTo
<1>5. FreshResend("client", g) \/ FreshMessage("client", g) => AcksUpTo(client'.lastProcessedId, g)
  BY DEF FreshResend, FreshMessage, ContentOf, AcksUpTo
<1>. QED
  BY <1>2, <1>3, <1>4, <1>5 DEF Fresh, g

\* The wires after a step, from what the sockets then carry.
LEMMA CarriedOrdered ==
  ASSUME NEW w, wire' = Carried(w, ep', opening'),
         \A s \in Sockets : Chained(w[s]["client"], client'.lastProcessedId),
         server'.socket \in Sockets /\ server'.socket \in opening' \cup {client'.socket} =>
           \/ server'.lastSendId <= client'.lastProcessedId
           \/ Contains(w[server'.socket]["client"], server'.lastSendId)
  PROVE  /\ \A s \in Sockets : Chained(wire'[s]["client"], client'.lastProcessedId)
         /\ Topped'
<1>1. \A s \in Sockets : wire'[s]["client"] =
        IF Reaches(s, "client", ep', opening') THEN w[s]["client"] ELSE <<>>
  BY EndCases DEF Carried
<1>2. Chained(<<>>, client'.lastProcessedId)
  BY EmptySeq DEF Chained
<1>3. \A s \in opening' \cup {client'.socket} : Reaches(s, "client", ep', opening')
  BY DEF Reaches, client
<1>4. \A s \in Sockets : Chained(wire'[s]["client"], client'.lastProcessedId)
  BY <1>1, <1>2
<1>5. Topped'
  BY <1>1, <1>3 DEF Topped
<1>. QED
  BY <1>4, <1>5

LEMMA LosesOrdered ==
  ASSUME Sane, Effect, Voices, Ordered, NEW e \in End, Loses(e)
  PROVE  /\ \A s \in Sockets : Chained(wire'[s]["client"], client'.lastProcessedId)
         /\ Topped'
<1>. DEFINE n == client'.lastProcessedId
<1>1. /\ client = ep["client"] /\ server = ep["server"]
      /\ client' = ep'["client"] /\ server' = ep'["server"]
  BY DEF client, server
<1>2. /\ client'.socket \in {client.socket, NoSocket} /\ server'.socket \in {server.socket, NoSocket}
      /\ server'.lastSendId = server.lastSendId /\ n = client.lastProcessedId
  BY <1>1, EndCases DEF Loses, SameQueues, Emptied
<1>3. wire' = Carried(wire, ep', opening') /\ opening' \subseteq opening
  BY DEF Loses
<1>4. \A s \in Sockets : Chained(wire[s]["client"], n)
  BY <1>2 DEF Ordered
<1>5. server'.socket \in Sockets /\ server'.socket \in opening' \cup {client'.socket} =>
        server'.lastSendId <= n \/ Contains(wire[server'.socket]["client"], server'.lastSendId)
  BY <1>2, <1>3 DEF Ordered, Topped, NoSocket, Sockets
<1>. HIDE DEF n
<1>. QED
  BY <1>3, <1>4, <1>5, CarriedOrdered DEF n

\* The client puts nothing on the wires that lead to it.
LEMMA ClientPutsOrdered ==
  ASSUME Sane, Effect, Voices, Ordered, NEW s, NEW frames,
         wire' = Carried(Put(wire, s, "client", frames), ep', opening'),
         client'.lastProcessedId = client.lastProcessedId,
         server'.lastSendId = server.lastSendId, server'.socket = server.socket,
         opening' \cup {client'.socket} \subseteq opening \cup {client.socket, NoSocket}
  PROVE  /\ \A t \in Sockets : Chained(wire'[t]["client"], client'.lastProcessedId)
         /\ Topped'
<1>. DEFINE n == client'.lastProcessedId
            w == Put(wire, s, "client", frames)
<1>1. \A t \in Sockets : w[t]["client"] = wire[t]["client"]
  BY EndCases DEF Put
<1>2. wire' = Carried(w, ep', opening')
  OBVIOUS
<1>. HIDE DEF w
<1>3. \A t \in Sockets : Chained(w[t]["client"], n)
  BY <1>1 DEF Ordered
<1>4. server'.socket \in Sockets /\ server'.socket \in opening' \cup {client'.socket} =>
        server'.lastSendId <= n \/ Contains(w[server'.socket]["client"], server'.lastSendId)
  BY <1>1 DEF Ordered, Topped, NoSocket, Sockets
<1>. HIDE DEF n
<1>. QED
  BY <1>2, <1>3, <1>4, CarriedOrdered DEF n

\* The server puts frames that continue what is on its socket.
LEMMA ServerPutsOrdered ==
  ASSUME Sane, Effect, Voices, Ordered, NEW s \in Sockets \cup {NoSocket}, NEW frames \in Seq(Frame),
         wire' = Carried(Put(wire, s, "server", frames), ep', opening'),
         client'.lastProcessedId = client.lastProcessedId,
         client'.socket = client.socket,
         s \in Sockets /\ s \in opening' \cup {client'.socket} =>
           \/ Len(frames) = 0
           \/ /\ Chained(wire[s]["client"] \o frames, client.lastProcessedId)
              /\ s = server'.socket =>
                   \/ server'.lastSendId <= client.lastProcessedId
                   \/ Contains(wire[s]["client"] \o frames, server'.lastSendId),
         server'.socket \in Sockets /\ server'.socket \in opening' \cup {client'.socket}
           /\ ~(server'.socket = s /\ Len(frames) # 0) =>
           \/ server'.lastSendId <= client.lastProcessedId
           \/ Contains(wire[server'.socket]["client"], server'.lastSendId)
  PROVE  /\ \A t \in Sockets : Chained(wire'[t]["client"], client'.lastProcessedId)
         /\ Topped'
<1>. DEFINE n == client.lastProcessedId
            u == Put(wire, s, "server", frames)
<1>1. \A t \in Sockets : u[t]["client"] = IF t = s THEN wire[t]["client"] \o frames ELSE wire[t]["client"]
  BY EndCases DEF Put
<1>2. \A t \in Sockets, d \in End :
        wire'[t][d] = IF Reaches(t, d, ep', opening') THEN u[t][d] ELSE <<>>
  BY DEF Carried
<1>3. \A t \in Sockets : Reaches(t, "client", ep', opening') <=> t \in opening' \cup {client'.socket}
  BY DEF Reaches, client
<1>4. wire \in Wires
  BY SaneParts
<1>5. \A t \in Sockets : Len(frames) = 0 => wire[t]["client"] \o frames = wire[t]["client"]
  BY <1>4, ConcatProperties, EmptySeq, EndCases DEF Wires
<1>. HIDE DEF u
<1>6. ASSUME NEW t \in Sockets
      PROVE  Chained(wire'[t]["client"], n)
  <2>1. CASE t \notin opening' \cup {client'.socket}
    <3>1. wire'[t]["client"] = <<>>
      BY <1>2, <1>3, <2>1, EndCases
    <3>. QED  BY <3>1, EmptySeq DEF Chained
  <2>2. CASE t \in opening' \cup {client'.socket}
    <3>1. wire'[t]["client"] = u[t]["client"]
      BY <1>2, <1>3, <2>2, EndCases
    <3>. QED  BY <1>1, <1>5, <2>2, <3>1 DEF Ordered
  <2>. QED  BY <2>1, <2>2
<1>7. Topped'
  <2>. SUFFICES ASSUME server'.socket \in Sockets, server'.socket \in opening' \cup {client'.socket}
                PROVE  \/ server'.lastSendId <= n
                       \/ Contains(wire'[server'.socket]["client"], server'.lastSendId)
    BY DEF Topped
  <2>1. wire'[server'.socket]["client"] = u[server'.socket]["client"]
    BY <1>2, <1>3, EndCases
  <2>. QED  BY <1>1, <1>5, <2>1
<1>. QED
  BY <1>6, <1>7

LEMMA AcceptsOrdered ==
  ASSUME Sane, Effect, Numbers, Voices, Ordered, Accepts
  PROVE  /\ \A t \in Sockets : Chained(wire'[t]["client"], client'.lastProcessedId)
         /\ Topped'
<1>. DEFINE s == accepted + 1
            frames == ReconnectFrames(server)
            n == client.lastProcessedId
<1>1. /\ client' = client /\ server \in Transport /\ QueueNumbered(server)
      /\ s \in Sockets /\ n \in Nat /\ server'.lastSendId = server.lastSendId
      /\ wire' = Carried(Put(wire, s, "server", frames), ep', opening')
      /\ server'.socket = IF server.isClosed THEN NoSocket ELSE s
      /\ server = ep["server"] /\ accepted \in Nat
  BY SaneParts, CountsKept, EndCases DEF Accepts, SameQueues, server, Numbers
<1>2. frames \in Seq(Frame)
  BY <1>1, FramesType
<1>3. wire[s]["client"] = <<>>
  <2>1. Len(wire[s]["client"]) = 0
    <3>1. wire[s]["client"] \in Seq(Frame)
      BY <1>1, SaneParts, EndCases DEF Wires
    <3>2. \A i \in 1 .. Len(wire[s]["client"]) : s <= accepted
      BY <1>1, WiresAccepted, EndCases
    <3>3. Len(wire[s]["client"]) \in Nat
      BY <3>1, LenProperties
    <3>4. Len(wire[s]["client"]) # 0 => 1 \in 1 .. Len(wire[s]["client"])
      BY <3>3
    <3>. QED  BY <1>1, <3>2, <3>4
  <2>. QED  BY <1>1, <2>1, SaneParts, EmptySeq, EndCases DEF Wires
<1>4. <<>> \o frames = frames
  BY <1>2, ConcatProperties, EmptySeq
<1>5. CASE server.isClosed
  <2>1. frames = <<>> /\ server'.socket = NoSocket
    BY <1>1, <1>5 DEF ReconnectFrames
  <2>2. Len(frames) = 0 /\ NoSocket \notin Sockets
    BY <2>1, EmptySeq DEF NoSocket, Sockets
  <2>. HIDE DEF frames, s
  <2>. QED  BY <1>1, <1>2, <2>1, <2>2, ServerPutsOrdered
<1>6. CASE ~server.isClosed
  <2>1. frames = ResendFrames(server) /\ server'.socket = s
    BY <1>1, <1>6 DEF ReconnectFrames
  <2>2. server.lastSendId - Len(server.pendingSends) <= n
    BY <1>6 DEF Ordered
  <2>3. Chained(frames, n) /\ (server.lastSendId <= n \/ Contains(frames, server.lastSendId))
    BY <1>1, <2>1, <2>2, ResendChained
  <2>4. server'.socket = s /\ Len(frames) = 0 => server'.lastSendId <= n
    <3>1. Len(frames) = 0 => ~Contains(frames, server.lastSendId)
      BY DEF Contains
    <3>. QED  BY <1>1, <2>3, <3>1
  <2>. HIDE DEF frames, s, n
  <2>. QED  BY <1>1, <1>2, <1>3, <1>4, <2>1, <2>3, <2>4, ServerPutsOrdered DEF n
<1>. QED
  BY <1>5, <1>6

LEMMA ServerAcksOrdered ==
  ASSUME Sane, Effect, Voices, Ordered, Acknowledges("server")
  PROVE  /\ \A t \in Sockets : Chained(wire'[t]["client"], client'.lastProcessedId)
         /\ Topped'
<1>. DEFINE s == server.socket
            frames == AckFrames(server)
            n == client.lastProcessedId
<1>1. /\ client' = client /\ server \in Transport /\ server = ep["server"]
      /\ s \in Sockets /\ n \in Nat /\ server'.lastSendId = server.lastSendId
      /\ wire' = Carried(Put(wire, s, "server", frames), ep', opening')
      /\ server'.socket = s /\ opening' = opening
  BY SaneParts, CountsKept, EndCases DEF Acknowledges, SameQueues, server, client
<1>2. frames \in Seq(Frame) /\ wire[s]["client"] \in Seq(Frame)
  BY <1>1, FramesType, SaneParts, EndCases DEF Wires
<1>3. \A i \in 1 .. Len(frames) : frames[i].type = "ACK"
  <2>1. frames = AckFrames(ep["server"]) /\ ep["server"] \in Transport
    BY <1>1
  <2>. HIDE DEF frames
  <2>2. \A i \in 1 .. Len(frames) : FreshAck("server", frames[i])
    BY <2>1, AckFramesFresh, EndCases
  <2>. QED  BY <2>2 DEF FreshAck, AckOf
<1>. HIDE DEF frames
<1>4. /\ Chained(wire[s]["client"] \o frames, n)
      /\ \A id : Contains(wire[s]["client"], id) => Contains(wire[s]["client"] \o frames, id)
  <2>1. Chained(wire[s]["client"], n) /\ \A i \in 1 .. Len(frames) : frames[i].type # "CONTENT"
    BY <1>1, <1>3 DEF Ordered
  <2>. QED  BY <1>1, <1>2, <2>1, ChainedConcat
<1>5. s \in opening \cup {client.socket} =>
        server.lastSendId <= n \/ Contains(wire[s]["client"], server.lastSendId)
  BY <1>1 DEF Ordered, Topped
<1>. HIDE DEF s, n
<1>. QED
  BY <1>1, <1>2, <1>4, <1>5, ServerPutsOrdered DEF n

LEMMA ServerSendsOrdered ==
  ASSUME Sane, Effect, Voices, Ordered, NEW m \in Msg, Sends("server", m)
  PROVE  /\ \A t \in Sockets : Chained(wire'[t]["client"], client'.lastProcessedId)
         /\ Topped'
<1>. DEFINE s == server.socket
            frames == SendFrames(server, m)
            g == ContentOf(NextNumbered(server, m))
            n == client.lastProcessedId
<1>1. /\ client' = client /\ server \in Transport /\ server = ep["server"]
      /\ s \in Sockets \cup {NoSocket} /\ n \in Nat
      /\ server'.lastSendId = server.lastSendId + 1 /\ server.lastSendId \in Nat
      /\ wire' = Carried(Put(wire, s, "server", frames), ep', opening')
      /\ server'.socket = s /\ opening' = opening /\ ~server.isClosed
      /\ NoSocket \notin Sockets
  <2>1. client' = client /\ server = ep["server"] /\ server' = ep'["server"]
    BY EndCases DEF Sends, client, server
  <2>2. /\ server'.lastSendId = server.lastSendId + 1 /\ ~server.isClosed /\ opening' = opening
        /\ wire' = Carried(Put(wire, s, "server", frames), ep', opening')
        /\ server'.socket = s
    BY <2>1, EndCases DEF Sends, Sent
  <2>3. server \in Transport /\ server.lastSendId \in Nat /\ n \in Nat
    BY SaneParts, CountsKept DEF Transport
  <2>4. s \in Sockets \cup {NoSocket} /\ NoSocket \notin Sockets
    BY SaneParts, EndCases DEF server, Sockets, NoSocket
  <2>. QED  BY <2>1, <2>2, <2>3, <2>4
<1>2. frames \in Seq(Frame)
  BY <1>1, FramesType
<1>3. CASE s = NoSocket
  <2>1. Len(frames) = 0
    BY <1>3, EmptySeq DEF SendFrames, IsOpen
  <2>. HIDE DEF s, n, frames
  <2>. QED  BY <1>1, <1>2, <1>3, <2>1, ServerPutsOrdered
<1>4. CASE s # NoSocket
  <2>1. frames = <<g>> /\ Len(<<g>>) = 1 /\ <<g>>[1] = g /\ s \in Sockets
    BY <1>1, <1>4 DEF SendFrames, IsOpen
  <2>2. g.type = "CONTENT" /\ g.id = server.lastSendId + 1
    BY DEF ContentOf, NextNumbered
  <2>3. wire[s]["client"] \in Seq(Frame)
    BY <2>1, SaneParts, EndCases DEF Wires
  <2>4. s \in opening \cup {client.socket} =>
          server.lastSendId <= n \/ Contains(wire[s]["client"], server.lastSendId)
    BY <2>1 DEF Ordered, Topped
  <2>5. Chained(wire[s]["client"], n)
    BY <2>1 DEF Ordered
  <2>. HIDE DEF g
  <2>6. \A i \in 1 .. Len(frames) : i = 1 /\ frames[i] = g
    BY <2>1
  <2>7. Contains(frames, server.lastSendId + 1)
    BY <2>1, <2>2 DEF Contains
  <2>. HIDE DEF frames, s, n
  <2>8. ASSUME s \in opening \cup {client.socket}
        PROVE  /\ Chained(wire[s]["client"] \o frames, n)
               /\ Contains(wire[s]["client"] \o frames, server.lastSendId + 1)
    <3>1. \A i \in 1 .. Len(frames) : frames[i].type = "CONTENT" =>
            frames[i].id <= n + 1 \/ Contains(wire[s]["client"], frames[i].id - 1)
      <4>1. g.id <= n + 1 \/ Contains(wire[s]["client"], g.id - 1)
        <5>1. g.id - 1 = server.lastSendId /\ (server.lastSendId <= n => g.id <= n + 1)
          BY <1>1, <2>2
        <5>. QED  BY <2>4, <2>8, <5>1
      <4>. QED  BY <2>6, <4>1
    <3>2. /\ Chained(wire[s]["client"] \o frames, n)
          /\ \A id : Contains(wire[s]["client"], id) \/ Contains(frames, id)
                       => Contains(wire[s]["client"] \o frames, id)
      BY <1>1, <1>2, <2>3, <2>5, <3>1, ChainedConcat
    <3>. QED  BY <2>7, <3>2
  <2>9. Len(frames) # 0
    BY <2>1
  <2>. QED  BY <1>1, <1>2, <2>1, <2>8, <2>9, ServerPutsOrdered DEF n
<1>. QED
  BY <1>3, <1>4

\* A step in which the server neither sends nor changes its socket, unless it
\* is left without one, and the client reads the next frame or nothing.
LEMMA ReadsOrdered ==
  ASSUME Sane, Effect, Voices, Ordered, NEW e \in End, NEW f, Reads(e, f),
         e = "client" /\ f.type = "CONTENT" => f.id <= client'.lastProcessedId,
         \/ server'.socket = NoSocket
         \/ server'.socket = server.socket /\ server'.lastSendId = server.lastSendId,
         client'.socket \in {client.socket, NoSocket}
  PROVE  /\ \A t \in Sockets : Chained(wire'[t]["client"], client'.lastProcessedId)
         /\ Topped'
<1>. DEFINE s == ep[e].socket
            w == Took(wire, s, e, 1)
            n == client.lastProcessedId
            m == client'.lastProcessedId
<1>1. /\ s \in Sockets /\ 1 \in 1 .. Len(wire[s][e]) /\ f = wire[s][e][1]
      /\ wire \in Wires
      /\ wire' = Carried(w, ep', opening') /\ opening' = opening
  BY SaneParts, NextFrame DEF Reads
<1>2. n \in Nat /\ m \in Nat /\ n <= m
  BY CountsKept
<1>. HIDE DEF s
<1>3. /\ \A t \in Sockets, d \in End : ~(t = s /\ d = e) => w[t][d] = wire[t][d]
      /\ Len(w[s][e]) = Len(wire[s][e]) - 1
      /\ \A i \in 1 .. Len(wire[s][e]) - 1 : w[s][e][i] = wire[s][e][i + 1]
  BY <1>1, TookFirst
<1>. HIDE DEF w
<1>4. \A t \in Sockets : wire[t]["client"] \in Seq(Frame) /\ Chained(wire[t]["client"], n)
  BY <1>1, EndCases DEF Ordered, Wires
<1>5. ASSUME NEW t \in Sockets
      PROVE  /\ Chained(w[t]["client"], m)
             /\ \A id \in Nat : Contains(wire[t]["client"], id) => id <= m \/ Contains(w[t]["client"], id)
  <2>. HIDE DEF m, n
  <2>1. CASE t = s /\ e = "client"
    <3>1. wire[s]["client"][1].type = "CONTENT" => wire[s]["client"][1].id <= m
      BY <1>1, <2>1 DEF m
    <3>. QED  BY <1>1, <1>2, <1>3, <1>4, <2>1, <3>1, ChainedTail
  <2>2. CASE ~(t = s /\ e = "client")
    <3>1. w[t]["client"] = wire[t]["client"]
      BY <1>3, <2>2, EndCases
    <3>. QED  BY <1>2, <1>4, <3>1, ChainedMore
  <2>. QED  BY <2>1, <2>2
<1>6. server'.socket \in Sockets /\ server'.socket \in opening' \cup {client'.socket} =>
        server'.lastSendId <= m \/ Contains(w[server'.socket]["client"], server'.lastSendId)
  <2>. SUFFICES ASSUME server'.socket \in Sockets, server'.socket \in opening' \cup {client'.socket}
                PROVE  server'.lastSendId <= m \/ Contains(w[server'.socket]["client"], server'.lastSendId)
    OBVIOUS
  <2>1. /\ server'.socket = server.socket /\ server'.lastSendId = server.lastSendId
        /\ server.socket \in opening \cup {client.socket}
        /\ server.lastSendId \in Nat
    BY SMTT(30), <1>1, SaneParts DEF NoSocket, Sockets, Transport
  <2>2. server.lastSendId <= n \/ Contains(wire[server.socket]["client"], server.lastSendId)
    BY <2>1 DEF Ordered, Topped
  <2>. HIDE DEF m, n
  <2>. QED  BY <1>2, <1>5, <2>1, <2>2
<1>7. \A t \in Sockets : Chained(w[t]["client"], m)
  BY <1>5
<1>. HIDE DEF m
<1>. QED
  BY <1>1, <1>6, <1>7, CarriedOrdered DEF m

LEMMA OrderedStep ==
  ASSUME Sane, Effect, Numbers, Voices, Ordered
  PROVE  Ordered'
<1>1. /\ client = ep["client"] /\ server = ep["server"]
      /\ client' = ep'["client"] /\ server' = ep'["server"]
      /\ client \in Transport /\ server \in Transport /\ NoSocket \notin Sockets
  BY SaneParts, EndCases DEF client, server, NoSocket, Sockets
<1>. DEFINE Fine == /\ \A t \in Sockets : Chained(wire'[t]["client"], client'.lastProcessedId)
                    /\ Topped'
<1>. SUFFICES Fine
  <2>1. client'.pendingReceives = {}
    BY ClientHanded
  <2>. QED  BY <2>1, CountsKept, ServerAcknowledged, AcksOrdered DEF Ordered
<1>2. CASE (\E e \in End : Loses(e)) \/ Accepts
  BY <1>2, LosesOrdered, AcceptsOrdered
<1>3. ASSUME NEW s \in Sockets, Adopts(s)
      PROVE  Fine
  <2>1. /\ wire' = Carried(Put(wire, s, "client", ResendFrames(client)), ep', opening')
        /\ client'.lastProcessedId = client.lastProcessedId
        /\ server'.lastSendId = server.lastSendId /\ server'.socket = server.socket
        /\ opening' \cup {client'.socket} \subseteq opening \cup {client.socket, NoSocket}
    BY <1>3 DEF Adopts, SameQueues
  <2>. QED  BY <2>1, ClientPutsOrdered
<1>4. CASE SaysClose
  <2>1. /\ wire' = Carried(Put(wire, client.socket, "client", SendFrames(client, CloseMessage)),
                           ep', opening')
        /\ client'.lastProcessedId = client.lastProcessedId
        /\ server'.lastSendId = server.lastSendId /\ server'.socket = server.socket
        /\ opening' \cup {client'.socket} \subseteq opening \cup {client.socket, NoSocket}
    BY <1>4 DEF SaysClose
  <2>. QED  BY <2>1, ClientPutsOrdered
<1>5. CASE \E e \in End : Acknowledges(e)
  <2>1. CASE Acknowledges("client")
    <3>1. /\ wire' = Carried(Put(wire, client.socket, "client", AckFrames(client)), ep', opening')
          /\ client'.lastProcessedId = client.lastProcessedId
          /\ server'.lastSendId = server.lastSendId /\ server'.socket = server.socket
          /\ opening' \cup {client'.socket} \subseteq opening \cup {client.socket, NoSocket}
      BY <1>1, <2>1, EndCases DEF Acknowledges, SameQueues
    <3>. QED  BY <3>1, ClientPutsOrdered
  <2>. QED  BY <1>5, <2>1, ServerAcksOrdered, EndCases
<1>6. CASE \E e \in End, m \in Msg : Sends(e, m)
  <2>1. ASSUME NEW m \in Msg, Sends("client", m)
        PROVE  Fine
    <3>1. /\ wire' = Carried(Put(wire, client.socket, "client", SendFrames(client, m)), ep', opening')
          /\ client'.lastProcessedId = client.lastProcessedId
          /\ server'.lastSendId = server.lastSendId /\ server'.socket = server.socket
          /\ opening' \cup {client'.socket} \subseteq opening \cup {client.socket, NoSocket}
      BY <1>1, <2>1, EndCases DEF Sends, Sent
    <3>. QED  BY <3>1, ClientPutsOrdered
  <2>. QED  BY <1>6, <2>1, ServerSendsOrdered, EndCases
<1>7. ASSUME NEW e \in End, NEW f \in Frame, NEW n \in Nat, TakesContent(e, f, n)
      PROVE  Fine
  <2>1. Reads(e, f) /\ f \in ContentFrame /\ ProcessesUpTo(ep[e], f, n)
    BY <1>7 DEF TakesContent
  <2>2. e = "client" => f.id <= client'.lastProcessedId
    <3>1. e = "client" => client'.lastProcessedId = n /\ ProcessesUpTo(client, f, n)
      BY <1>1, <1>7 DEF TakesContent
    <3>2. e = "client" => n >= f.id
      BY <2>1, <3>1, ClientReads
    <3>3. f.id \in Nat
      BY <2>1 DEF ContentFrame
    <3>. QED  BY <3>1, <3>2, <3>3
  <2>3. /\ server'.socket = server.socket /\ server'.lastSendId = server.lastSendId
        /\ client'.socket = client.socket
    BY <1>1, <1>7, EndCases DEF TakesContent
  <2>. QED  BY <2>1, <2>2, <2>3, ReadsOrdered
<1>8. ASSUME NEW e \in End, NEW f \in Frame, NEW n \in Nat, Forgets(e, f, n)
      PROVE  Fine
  <2>1. e = "server"
    BY <1>8, ClientNotForgotten, EndCases
  <2>2. Reads(e, f) /\ server'.socket = NoSocket /\ client'.socket = client.socket /\ e # "client"
    BY <1>8, <2>1, EndCases DEF Forgets, NewTransport
  <2>. QED  BY <2>2, ReadsOrdered
<1>9. ASSUME NEW e \in End, NEW f \in Frame, NEW k \in Nat, TakesAck(e, f, k)
      PROVE  Fine
  <2>1. Reads(e, f) /\ f.type # "CONTENT"
    BY <1>9 DEF TakesAck, AckFrame
  <2>2. /\ \/ ep'[e].socket = NoSocket
           \/ ep'[e].socket = ep[e].socket /\ ep'[e].lastSendId = ep[e].lastSendId
        /\ ep'[Peer(e)] = ep[Peer(e)]
    BY <1>9 DEF TakesAck, Emptied
  <2>3. /\ \/ server'.socket = NoSocket
           \/ server'.socket = server.socket /\ server'.lastSendId = server.lastSendId
        /\ client'.socket \in {client.socket, NoSocket}
    BY <1>1, <2>2, EndCases
  <2>. QED  BY <2>1, <2>3, ReadsOrdered
<1>10. CASE Dies \/ Returns
  <2>1. server' = NewTransport /\ client' = client
    BY <1>10, ServerGone
  <2>2. wire' = Carried(wire, ep', opening')
    BY <1>10, WireSettled DEF Dies, Returns
  <2>3. \A s \in Sockets : Chained(wire[s]["client"], client'.lastProcessedId)
    BY <2>1 DEF Ordered
  <2>4. server'.socket \notin Sockets
    BY <1>1, <2>1 DEF NewTransport
  <2>. QED  BY <2>2, <2>3, <2>4, CarriedOrdered
<1>. HIDE DEF Fine
<1>. QED
  BY <1>2, <1>3, <1>4, <1>5, <1>6, <1>7, <1>8, <1>9, <1>10 DEF Effect

LEMMA InitOrdered == Init => Ordered
<1>. SUFFICES ASSUME Init PROVE Ordered
  OBVIOUS
<1>1. /\ client = NewTransport /\ server = NewTransport
      /\ \A s \in Sockets, d \in End : wire[s][d] = <<>>
      /\ delivered["client"] = <<>>
      /\ Len(<<>>) = 0 /\ NoSocket \notin Sockets
  BY EmptySeq, EndCases DEF Init, client, server, NoSocket, Sockets
<1>. QED
  BY <1>1, EndCases DEF Ordered, Topped, Chained, NewTransport

-----------------------------------------------------------------------------
(* Incarnations.  A client that was handed replies of an earlier            *)
(* incarnation tells the present one so before it asks anything, and is     *)
(* given up.                                                                *)

\* The client was handed a reply of an earlier incarnation.
Remembers == \E i \in 1 .. Len(delivered["client"]) : delivered["client"][i] # Reply(restarts)

\* The transport of the server neither sent nor read a message.
Virgin == server.lastSendId = 0 /\ server.lastProcessedId = 0

NoContent(w) == \A i \in 1 .. Len(w) : w[i].type # "CONTENT"

OnlyReply(w, b) == \A i \in 1 .. Len(w) : w[i].type = "CONTENT" => w[i].msg = Reply(b)

ContentsUpTo(n, w) == \A i \in 1 .. Len(w) : w[i].type = "CONTENT" => w[i].id <= n

\* No message is on its way from the present incarnation.
Silent == \A s \in Sockets : s > retired => NoContent(wire[s]["client"])

\* The client was handed, and will read on its socket, what one incarnation
\* wrote.
OneVoice ==
  \E b \in 0 .. restarts :
    /\ \A i \in 1 .. Len(delivered["client"]) : delivered["client"][i] = Reply(b)
    /\ client.socket \in Sockets => OnlyReply(wire[client.socket]["client"], b)

\* Nothing reaches the present incarnation.
Unheard ==
  /\ Virgin /\ Silent
  /\ server.socket \in Sockets => wire[server.socket]["server"] = <<>>

\* The first frame that the server reads is an ack of a message it never sent.
Warned ==
  /\ Virgin
  /\ server.socket \in Sockets =>
       LET w == wire[server.socket]["server"] IN
       /\ w # <<>> => w[1].type = "ACK" /\ w[1].id > 0
       /\ server.socket = client.socket => w # <<>>

\* A client that still uses a socket of a crashed server says nothing to the
\* present one.
Lagging == client.socket \in 1 .. retired => Unheard

\* A client that remembers an earlier incarnation is given up or will be.
Remembering == Remembers => Silent /\ (server.isClosed \/ Warned)

\* A client that remembers only the present incarnation agrees with it on what
\* was sent.
Agreeing ==
  up /\ ~Remembers =>
    /\ \A s \in Sockets : \A i \in 1 .. Len(wire[s]["server"]) :
         AcksUpTo(server.lastSendId, wire[s]["server"][i])
    /\ ~client.isClosed =>
         /\ client.lastProcessedId <= server.lastSendId
         /\ \A s \in Sockets : s > retired => ContentsUpTo(server.lastSendId, wire[s]["client"])

Parted == ~late => OneVoice /\ Lagging /\ Remembering /\ Agreeing

\* A server that sent and read nothing, or is closed, says nothing.
LEMMA StaysSilent ==
  ASSUME Sane, Effect, Numbers, Virgin \/ server.isClosed, Silent, retired' = retired
  PROVE  Silent'
<1>. SUFFICES ASSUME NEW s \in Sockets, s > retired, NEW i \in 1 .. Len(wire'[s]["client"])
              PROVE  wire'[s]["client"][i].type # "CONTENT"
  BY DEF Silent, NoContent
<1>. DEFINE g == wire'[s]["client"][i]
<1>1. /\ server = ep["server"] /\ server \in Transport /\ QueueNumbered(server)
      /\ Len(server.pendingSends) \in Nat
  BY SaneParts, LenProperties, EndCases DEF server, Numbers, Transport
<1>2. \/ \E k \in 1 .. Len(wire[s]["client"]) : g = wire[s]["client"][k]
      \/ Fresh("server", g) /\ ~server.isClosed
  BY <1>1, FrameOrigin, EndCases
<1>3. ASSUME NEW k \in 1 .. Len(wire[s]["client"]), g = wire[s]["client"][k]
      PROVE  g.type # "CONTENT"
  BY <1>3 DEF Silent, NoContent
<1>. HIDE DEF g
<1>4. ASSUME Virgin, Fresh("server", g)
      PROVE  g.type # "CONTENT"
  <2>1. FreshAck("server", g) => g.type # "CONTENT"
    BY DEF FreshAck, AckOf
  <2>2. ~FreshResend("server", g)
    BY <1>1, <1>4 DEF FreshResend, QueueNumbered, Virgin
  <2>3. ~FreshMessage("server", g)
    BY <1>1, <1>4, EndCases DEF FreshMessage, MaySend, Virgin
  <2>. QED  BY <1>4, <2>1, <2>2, <2>3 DEF Fresh
<1>5. g.type # "CONTENT"
  BY <1>2, <1>3, <1>4
<1>. QED
  BY <1>5 DEF g

\* A server that sent and read nothing starts by reading a message.
LEMMA StaysVirgin ==
  ASSUME Sane, Effect, Virgin, \A f, n : ~TakesContent("server", f, n)
  PROVE  Virgin'
<1>1. server = ep["server"] /\ server' = ep'["server"] /\ "server" # "client" /\ "server" \in End
  BY EndCases DEF server
<1>2. SendsChange("server") /\ ReceivesChange("server")
  BY <1>1, QueuesChange
<1>3. \A m : ~MaySend("server", m)
  BY <1>1 DEF MaySend, Virgin
<1>4. server'.lastSendId = 0
  BY <1>1, <1>2, <1>3 DEF SendsChange, Virgin, NewTransport
<1>5. server'.lastProcessedId = 0
  BY <1>1, <1>2 DEF ReceivesChange, Virgin, NewTransport
<1>. QED
  BY <1>4, <1>5 DEF Virgin

\* The client keeps its socket, loses it, or adopts another.
LEMMA ClientSocketKept ==
  ASSUME Sane, Effect
  PROVE  \/ client'.socket \in {client.socket, NoSocket}
         \/ \E s \in Sockets : Adopts(s) /\ client'.socket = s
<1>1. client = ep["client"] /\ client' = ep'["client"]
  BY DEF client
<1>2. ASSUME NEW e \in End, Loses(e) \/ Acknowledges(e)
      PROVE  client'.socket \in {client.socket, NoSocket}
  BY <1>1, <1>2, EndCases DEF Loses, Acknowledges, Emptied
<1>3. CASE Accepts \/ SaysClose \/ Dies \/ Returns
  BY <1>1, <1>3 DEF Accepts, SaysClose, Dies, Returns
<1>4. ASSUME NEW s \in Sockets, Adopts(s)
      PROVE  client'.socket = s
  BY <1>4 DEF Adopts
<1>5. ASSUME NEW e \in End, NEW m \in Msg, Sends(e, m)
      PROVE  client'.socket \in {client.socket, NoSocket}
  BY <1>1, <1>5, EndCases DEF Sends
<1>6. ASSUME NEW e \in End, NEW f \in Frame, NEW n \in Nat,
             TakesContent(e, f, n) \/ Forgets(e, f, n) \/ TakesAck(e, f, n)
      PROVE  client'.socket \in {client.socket, NoSocket}
  BY <1>1, <1>6, EndCases DEF TakesContent, Forgets, TakesAck, Emptied
<1>. QED
  BY <1>2, <1>3, <1>4, <1>5, <1>6 DEF Effect

\* A client that adopts a socket of a crashed server is late from then on.
LEMMA NotLate ==
  ASSUME Sane, Effect, ~late'
  PROVE  ~late /\ \A s \in Sockets : Adopts(s) => ~(s <= retired)
<1>1. ASSUME NEW e \in End, Loses(e) \/ Acknowledges(e)
      PROVE  ~late
  BY <1>1 DEF Loses, Acknowledges, Steady
<1>2. ASSUME (\E s \in Sockets : Adopts(s)) \/ Accepts \/ SaysClose \/ Dies \/ Returns
      PROVE  ~late
  BY <1>2 DEF Adopts, Accepts, SaysClose, Dies, Returns, Steady
<1>3. ASSUME NEW e \in End, NEW m \in Msg, Sends(e, m)
      PROVE  ~late
  BY <1>3 DEF Sends, Steady
<1>4. ASSUME NEW e \in End, NEW f \in Frame, NEW n \in Nat,
             TakesContent(e, f, n) \/ Forgets(e, f, n) \/ TakesAck(e, f, n)
      PROVE  ~late
  BY <1>4 DEF TakesContent, Forgets, TakesAck, Reads
<1>5. ~late
  BY <1>1, <1>2, <1>3, <1>4 DEF Effect
<1>6. \A s \in Sockets : Adopts(s) => ~(s <= retired)
  BY DEF Adopts
<1>. QED
  BY <1>5, <1>6

\* What the client was handed, after a step, is what it was handed before, and
\* perhaps the first message of its socket.
LEMMA HandedFrom ==
  ASSUME Sane, Effect, Voices, Ordered, NEW f, HandedReply(f)
  PROVE  /\ client.socket \in Sockets /\ client'.socket = client.socket
         /\ 1 \in 1 .. Len(wire[client.socket]["client"])
         /\ f = wire[client.socket]["client"][1] /\ f.type = "CONTENT"
         /\ server' = server
         /\ Len(delivered'["client"]) = Len(delivered["client"]) + 1
         /\ Len(delivered["client"]) \in Nat
         /\ \A i \in 1 .. Len(delivered["client"]) : delivered'["client"][i] = delivered["client"][i]
         /\ delivered'["client"][Len(delivered["client"]) + 1] = f.msg
<1>1. /\ client = ep["client"] /\ client' = ep'["client"]
      /\ server = ep["server"] /\ server' = ep'["server"]
      /\ delivered["client"] \in Seq(Message)
  BY EndCases DEF client, server, Sane, TypeOK
<1>2. /\ f \in ContentFrame /\ Reads("client", f) /\ client'.socket = client.socket
      /\ server' = server /\ delivered'["client"] = Append(delivered["client"], f.msg)
  BY <1>1, EndCases DEF HandedReply, TakesContent
<1>3. f.msg \in Message /\ f.type = "CONTENT"
  BY <1>2, MsgAssumption DEF ContentFrame
<1>4. /\ client.socket \in Sockets /\ 1 \in 1 .. Len(wire[client.socket]["client"])
      /\ f = wire[client.socket]["client"][1]
  BY <1>1, <1>2, NextFrame, EndCases DEF Reads
<1>5. /\ Len(delivered["client"]) \in Nat
      /\ Len(delivered'["client"]) = Len(delivered["client"]) + 1
      /\ \A i \in 1 .. Len(delivered["client"]) : delivered'["client"][i] = delivered["client"][i]
      /\ delivered'["client"][Len(delivered["client"]) + 1] = f.msg
  <2>. DEFINE d == delivered["client"]
  <2>1. d \in Seq(Message) /\ delivered'["client"] = Append(d, f.msg)
    BY <1>1, <1>2
  <2>. HIDE DEF d
  <2>2. /\ Len(d) \in Nat /\ Len(Append(d, f.msg)) = Len(d) + 1
        /\ \A i \in 1 .. Len(d) : Append(d, f.msg)[i] = d[i]
        /\ Append(d, f.msg)[Len(d) + 1] = f.msg
    BY <1>3, <2>1, AppendProperties, LenProperties
  <2>. QED  BY <2>1, <2>2 DEF d
<1>. QED
  BY <1>2, <1>3, <1>4, <1>5

\* A client that remembered an earlier incarnation still does.
LEMMA RemembersOn ==
  ASSUME Sane, Effect, Voices, Ordered, restarts' = restarts, Remembers
  PROVE  Remembers'
<1>1. CASE HandedNothing
  BY <1>1 DEF HandedNothing, Remembers
<1>2. ASSUME NEW f, HandedReply(f)
      PROVE  Remembers'
  <2>1. PICK i \in 1 .. Len(delivered["client"]) : delivered["client"][i] # Reply(restarts)
    BY DEF Remembers
  <2>2. /\ i \in 1 .. Len(delivered'["client"])
        /\ delivered'["client"][i] = delivered["client"][i]
    BY <1>2, <2>1, HandedFrom
  <2>. QED  BY <2>1, <2>2 DEF Remembers
<1>. QED
  BY <1>1, <1>2, ClientHanded

\* The parts of Parted when the server dies or returns.
LEMMA PartedWhenGone ==
  ASSUME Sane, Effect, Sane', Voices, Ordered, OneVoice, Dies \/ Returns
  PROVE  OneVoice' /\ Lagging' /\ Remembering' /\ Agreeing'
<1>1. /\ server' = NewTransport /\ client' = client
      /\ delivered'["client"] = delivered["client"]
      /\ \A s \in Sockets, d \in End : \A i \in 1 .. Len(wire'[s][d]) :
           /\ s <= retired' /\ d = "client"
           /\ \E k \in 1 .. Len(wire[s][d]) : wire'[s][d][i] = wire[s][d][k]
  BY ServerGone
<1>2. /\ server'.lastSendId = 0 /\ server'.lastProcessedId = 0
      /\ server'.socket = NoSocket /\ NoSocket \notin Sockets
  BY <1>1 DEF NewTransport, NoSocket, Sockets
<1>3. /\ restarts \in Nat /\ restarts' \in Nat /\ restarts <= restarts' /\ retired' \in Nat
      /\ restarts' = restarts + 1 \/ ~up'
  BY DEF Dies, Returns, Sane, TypeOK
<1>4. Unheard' /\ Warned'
  <2>1. Virgin'
    BY <1>2 DEF Virgin
  <2>2. Silent'
    <3>1. ASSUME NEW s \in Sockets, s > retired', NEW i \in 1 .. Len(wire'[s]["client"])
          PROVE  FALSE
      <4>1. s <= retired'
        BY <1>1, <3>1, EndCases
      <4>. QED  BY <1>3, <3>1, <4>1 DEF Sockets
    <3>. QED  BY <3>1 DEF Silent, NoContent
  <2>. QED  BY <1>2, <2>1, <2>2 DEF Unheard, Warned
<1>5. OneVoice'
  <2>1. PICK b \in 0 .. restarts :
          /\ \A i \in 1 .. Len(delivered["client"]) : delivered["client"][i] = Reply(b)
          /\ client.socket \in Sockets => OnlyReply(wire[client.socket]["client"], b)
    BY DEF OneVoice
  <2>2. b \in 0 .. restarts'
    BY <1>3
  <2>3. ASSUME client.socket \in Sockets, NEW i \in 1 .. Len(wire'[client.socket]["client"]),
               wire'[client.socket]["client"][i].type = "CONTENT"
        PROVE  wire'[client.socket]["client"][i].msg = Reply(b)
    <3>1. PICK k \in 1 .. Len(wire[client.socket]["client"]) :
            wire'[client.socket]["client"][i] = wire[client.socket]["client"][k]
      BY SMTT(30), <1>1, <2>3, EndCases
    <3>. QED  BY <2>1, <2>3, <3>1 DEF OnlyReply
  <2>4. client.socket \in Sockets => OnlyReply(wire'[client.socket]["client"], b)
    BY <2>3 DEF OnlyReply
  <2>. QED  BY <1>1, <2>1, <2>2, <2>4 DEF OneVoice
<1>6. Agreeing'
  <2>. SUFFICES ASSUME up', ~Remembers'
                PROVE  /\ \A s \in Sockets : \A i \in 1 .. Len(wire'[s]["server"]) :
                            AcksUpTo(server'.lastSendId, wire'[s]["server"][i])
                       /\ client'.lastProcessedId <= server'.lastSendId
                       /\ \A s \in Sockets : s > retired' =>
                            ContentsUpTo(server'.lastSendId, wire'[s]["client"])
    BY DEF Agreeing
  <2>1. \A s \in Sockets : \A i \in 1 .. Len(wire'[s]["server"]) : FALSE
    BY <1>1, EndCases
  <2>2. \A s \in Sockets : s > retired' => ContentsUpTo(server'.lastSendId, wire'[s]["client"])
    BY <1>4 DEF Unheard, Silent, NoContent, ContentsUpTo
  <2>3. client'.lastProcessedId = 0
    <3>1. PICK b \in 0 .. restarts :
            \A i \in 1 .. Len(delivered["client"]) : delivered["client"][i] = Reply(b)
      BY DEF OneVoice
    <3>2. Reply(b) # Reply(restarts')
      BY <1>3, VoicesDiffer
    <3>3. \A i \in 1 .. Len(delivered["client"]) : FALSE
      BY <1>1, <3>1, <3>2 DEF Remembers
    <3>4. Len(delivered["client"]) \in Nat
      BY EndCases, LenProperties DEF Sane, TypeOK
    <3>5. Len(delivered["client"]) = 0
      BY <3>3, <3>4
    <3>. QED  BY <1>1, <3>5 DEF Ordered
  <2>. QED  BY <1>2, <2>1, <2>2, <2>3
<1>. QED
  BY <1>4, <1>5, <1>6 DEF Lagging, Remembering, Unheard

LEMMA OneVoiceStep ==
  ASSUME Sane, Effect, Sane', Numbers, Voices, Voices', Ordered, ~late',
         OneVoice, Remembering, UNCHANGED <<up, restarts, retired>>
  PROVE  OneVoice'
<1>1. /\ \A s \in Sockets : Adopts(s) => ~(s <= retired)
      /\ server = ep["server"] /\ NoSocket \notin Sockets /\ retired \in Nat
  BY NotLate DEF server, NoSocket, Sockets, Sane, TypeOK
<1>2. PICK b \in 0 .. restarts :
        /\ \A i \in 1 .. Len(delivered["client"]) : delivered["client"][i] = Reply(b)
        /\ client.socket \in Sockets => OnlyReply(wire[client.socket]["client"], b)
  BY DEF OneVoice
<1>3. \A i \in 1 .. Len(delivered'["client"]) : delivered'["client"][i] = Reply(b)
  <2>1. ASSUME NEW f, HandedReply(f)
        PROVE  \A i \in 1 .. Len(delivered'["client"]) : delivered'["client"][i] = Reply(b)
    <3>1. f.msg = Reply(b)
      BY <1>2, <2>1, HandedFrom DEF OnlyReply
    <3>2. \A i \in 1 .. Len(delivered'["client"]) :
            i \in 1 .. Len(delivered["client"]) \/ i = Len(delivered["client"]) + 1
      BY <2>1, HandedFrom
    <3>. QED  BY <1>2, <2>1, <3>1, <3>2, HandedFrom
  <2>. QED  BY <1>2, <2>1, ClientHanded DEF HandedNothing
<1>. DEFINE c == client'.socket
<1>4. CASE c \notin Sockets
  BY <1>2, <1>3, <1>4 DEF OneVoice
<1>5. CASE c \in Sockets /\ c <= retired
  <2>1. c = client.socket
    BY <1>1, <1>5, ClientSocketKept
  <2>2. ASSUME NEW i \in 1 .. Len(wire'[c]["client"]), wire'[c]["client"][i].type = "CONTENT"
        PROVE  wire'[c]["client"][i].msg = Reply(b)
    <3>1. \/ \E k \in 1 .. Len(wire[c]["client"]) : wire'[c]["client"][i] = wire[c]["client"][k]
          \/ c = server'.socket
      BY <1>5, FrameOrigin, EndCases
    <3>2. c # server'.socket
      BY <1>1, <1>5 DEF Sane, Structure, Sockets
    <3>. QED  BY <1>2, <1>5, <2>1, <2>2, <3>1, <3>2 DEF OnlyReply
  <2>. QED  BY <1>2, <1>3, <2>2 DEF OneVoice, OnlyReply
<1>6. CASE c \in Sockets /\ ~(c <= retired) /\ Remembers
  <2>1. Silent'
    BY <1>6, StaysSilent DEF Remembering, Warned
  <2>2. OnlyReply(wire'[c]["client"], b)
    BY <1>1, <1>6, <2>1 DEF Silent, NoContent, OnlyReply, Sockets
  <2>. QED  BY <1>2, <1>3, <2>2 DEF OneVoice
<1>7. CASE c \in Sockets /\ ~(c <= retired) /\ ~Remembers
  <2>1. OnlyReply(wire'[c]["client"], restarts)
    <3>1. \A i \in 1 .. Len(wire'[c]["client"]) :
            VoiceOf(c, wire'[c]["client"][i], retired', restarts', up')
      BY <1>7 DEF Voices
    <3>2. c > retired
      BY <1>1, <1>7 DEF Sockets
    <3>. QED  BY <3>1, <3>2 DEF VoiceOf, OnlyReply
  <2>2. \A i \in 1 .. Len(delivered'["client"]) : delivered'["client"][i] = Reply(restarts)
    <3>1. \A i \in 1 .. Len(delivered["client"]) : delivered["client"][i] = Reply(restarts)
      BY <1>7 DEF Remembers
    <3>2. ASSUME NEW f, HandedReply(f)
          PROVE  \A i \in 1 .. Len(delivered'["client"]) : delivered'["client"][i] = Reply(restarts)
      <4>1. c = client.socket /\ f = wire[c]["client"][1] /\ 1 \in 1 .. Len(wire[c]["client"])
            /\ f.type = "CONTENT"
        BY <3>2, HandedFrom
      <4>2. VoiceOf(c, f, retired, restarts, up)
        BY <1>7, <4>1 DEF Voices
      <4>3. f.msg = Reply(restarts)
        BY <1>1, <1>7, <4>1, <4>2 DEF VoiceOf, Sockets
      <4>4. \A i \in 1 .. Len(delivered'["client"]) :
              i \in 1 .. Len(delivered["client"]) \/ i = Len(delivered["client"]) + 1
        BY <3>2, HandedFrom
      <4>. QED  BY <3>1, <3>2, <4>3, <4>4, HandedFrom
    <3>. QED  BY <3>1, <3>2, ClientHanded DEF HandedNothing
  <2>3. restarts' = restarts /\ restarts \in 0 .. restarts
    BY DEF Sane, TypeOK
  <2>. QED  BY <2>1, <2>2, <2>3 DEF OneVoice
<1>. QED
  BY <1>4, <1>5, <1>6, <1>7

\* The server is handed the close message only of a client that is closed.
LEMMA ClosesOnlyClosed ==
  ASSUME Sane, Voices, NEW f \in ContentFrame, Reads("server", f), NEW n \in Nat,
         ProcessesUpTo(server, f, n),
         \E i \in 1 .. Len(Processed(server, f, n)) : Processed(server, f, n)[i] = CloseMessage
  PROVE  client.isClosed
<1>1. /\ server = ep["server"] /\ server \in Transport /\ server.socket \in Sockets
      /\ 1 \in 1 .. Len(wire[server.socket]["server"])
      /\ f = wire[server.socket]["server"][1] /\ f.type = "CONTENT"
  BY SaneParts, NextFrame, EndCases DEF Reads, server, ContentFrame
<1>2. PICK r \in Received(server, f) : r.msg = CloseMessage
  BY <1>1, ProcessedType
<1>3. r \in server.pendingReceives \/ f.msg = CloseMessage
  BY <1>2 DEF Received
<1>. QED
  BY <1>1, <1>2, <1>3 DEF Voices

LEMMA LaggingStep ==
  ASSUME Sane, Effect, Sane', Numbers, Voices, Ordered, ~late',
         Lagging, UNCHANGED <<up, restarts, retired>>
  PROVE  Lagging'
<1>. SUFFICES ASSUME client'.socket \in 1 .. retired
              PROVE  Unheard'
  BY DEF Lagging
<1>1. /\ \A s \in Sockets : Adopts(s) => ~(s <= retired)
      /\ server = ep["server"] /\ server' = ep'["server"]
      /\ retired \in Nat /\ wire \in Wires /\ wire' \in Wires
  <2>1. retired \in Nat
    BY DEF Sane, TypeOK
  <2>2. wire \in Wires /\ wire' \in Wires
    BY DEF Sane, TypeOK, Wires
  <2>. QED  BY <2>1, <2>2, NotLate DEF server
<1>2. client'.socket = client.socket /\ client.socket \in 1 .. retired
  BY <1>1, ClientSocketKept DEF NoSocket
<1>3. Virgin /\ Silent /\ (server.socket \in Sockets => wire[server.socket]["server"] = <<>>)
  BY <1>2 DEF Lagging, Unheard
<1>4. Virgin'
  <2>1. ASSUME NEW f, NEW n, TakesContent("server", f, n)
        PROVE  FALSE
    <3>1. server.socket \in Sockets /\ wire[server.socket]["server"] # <<>>
      BY <1>1, <2>1, NextFrame, EndCases DEF TakesContent, Reads
    <3>. QED  BY <1>3, <3>1
  <2>. QED  BY <1>3, <2>1, StaysVirgin
<1>5. Silent'
  BY <1>3, StaysSilent
<1>6. ASSUME server'.socket \in Sockets
      PROVE  wire'[server'.socket]["server"] = <<>>
  <2>. DEFINE t == server'.socket
  <2>1. t > retired
    BY <1>1, <1>6 DEF Sane, Structure, NoSocket, Sockets
  <2>2. t \notin {client.socket, client'.socket}
    BY <1>1, <1>2, <1>6, <2>1 DEF Sockets
  <2>3. wire[t]["server"] = <<>>
    <3>1. wire[t]["server"] # <<>> => t = server.socket
      BY <1>1, <1>6, EndCases DEF Sane, Structure, Reaches
    <3>. QED  BY <1>3, <1>6, <3>1
  <2>4. ASSUME NEW i \in 1 .. Len(wire'[t]["server"])
        PROVE  FALSE
    <3>1. \E k \in 1 .. Len(wire[t]["server"]) : wire'[t]["server"][i] = wire[t]["server"][k]
      BY <1>6, <2>2, FrameOrigin, EndCases
    <3>. QED  BY <2>3, <3>1, EmptySeq
  <2>5. wire'[t]["server"] \in Seq(Frame)
    BY <1>1, <1>6, EndCases DEF Wires
  <2>. HIDE DEF t
  <2>6. Len(wire'[t]["server"]) = 0
    BY <2>4, <2>5, LenProperties
  <2>. QED  BY <2>5, <2>6, EmptySeq DEF t
<1>. QED
  BY <1>4, <1>5, <1>6 DEF Unheard

LEMMA AgreeingStep ==
  ASSUME Sane, Effect, Sane', Numbers, Voices, Ordered, Agreeing,
         UNCHANGED <<up, restarts, retired>>
  PROVE  Agreeing'
<1>. SUFFICES ASSUME up, ~Remembers'
              PROVE  /\ \A s \in Sockets : \A i \in 1 .. Len(wire'[s]["server"]) :
                          AcksUpTo(server'.lastSendId, wire'[s]["server"][i])
                     /\ ~client'.isClosed =>
                          /\ client'.lastProcessedId <= server'.lastSendId
                          /\ \A s \in Sockets : s > retired =>
                               ContentsUpTo(server'.lastSendId, wire'[s]["client"])
  BY DEF Agreeing
<1>1. ~Remembers
  BY RemembersOn
<1>2. /\ \A s \in Sockets : \A i \in 1 .. Len(wire[s]["server"]) :
           AcksUpTo(server.lastSendId, wire[s]["server"][i])
      /\ ~client.isClosed =>
           /\ client.lastProcessedId <= server.lastSendId
           /\ \A s \in Sockets : s > retired =>
                ContentsUpTo(server.lastSendId, wire[s]["client"])
  BY <1>1 DEF Agreeing
<1>3. /\ client = ep["client"] /\ server = ep["server"]
      /\ client' = ep'["client"] /\ server' = ep'["server"]
      /\ client \in Transport /\ server \in Transport /\ wire \in Wires /\ wire' \in Wires
      /\ server.lastSendId \in Nat /\ server'.lastSendId \in Nat
      /\ client.lastProcessedId \in Nat /\ QueueNumbered(server)
      /\ retired \in Nat
  <2>1. client \in Transport /\ server \in Transport /\ server' \in Transport
    BY EndCases DEF client, server, Sane, TypeOK
  <2>2. /\ server.lastSendId \in Nat /\ server'.lastSendId \in Nat
        /\ client.lastProcessedId \in Nat
    BY <2>1 DEF Transport
  <2>3. wire \in Wires /\ wire' \in Wires /\ retired \in Nat
    <3>1. accepted \in Nat
      BY DEF Sane, TypeOK
    <3>. QED  BY <3>1 DEF Sane, TypeOK, Wires
  <2>4. QueueNumbered(server)
    BY EndCases DEF server, Numbers
  <2>. QED
    BY <2>1, <2>2, <2>3, <2>4 DEF client, server
<1>4. client.isClosed => client'.isClosed
  BY StaysClosed
<1>5. CASE server' = NewTransport /\ client'.isClosed
  <2>1. server'.socket \notin Sockets
    BY <1>5 DEF NewTransport, NoSocket, Sockets
  <2>2. \A s \in Sockets : wire'[s]["server"] = <<>>
    BY <1>3, <2>1, EndCases DEF Sane, Structure, Reaches
  <2>3. \A s \in Sockets : \A i \in 1 .. Len(wire'[s]["server"]) : FALSE
    BY <2>2, EmptySeq
  <2>. QED  BY <1>5, <2>3
<1>6. CASE server'.lastSendId >= server.lastSendId
  <2>1. ASSUME NEW s \in Sockets, NEW i \in 1 .. Len(wire'[s]["server"])
        PROVE  AcksUpTo(server'.lastSendId, wire'[s]["server"][i])
    <3>. DEFINE g == wire'[s]["server"][i]
    <3>1. \/ \E k \in 1 .. Len(wire[s]["server"]) : g = wire[s]["server"][k]
          \/ Fresh("client", g) /\ ~client.isClosed
      BY <1>3, FrameOrigin, EndCases
    <3>2. g \in Frame
      <4>1. wire'[s]["server"] \in Seq(Frame)
        BY <1>3, EndCases DEF Wires
      <4>. QED  BY <4>1, ElementOfSeq
    <3>3. g.id \in Nat
      BY <3>2, FrameId
    <3>. HIDE DEF g
    <3>4. ASSUME NEW k \in 1 .. Len(wire[s]["server"]), g = wire[s]["server"][k]
          PROVE  AcksUpTo(server'.lastSendId, g)
      <4>1. AcksUpTo(server.lastSendId, g)
        BY <1>2, <3>4
      <4>. QED  BY <1>3, <1>6, <3>3, <4>1 DEF AcksUpTo
    <3>5. FreshAck("client", g) /\ ~client.isClosed => AcksUpTo(server'.lastSendId, g)
      BY <1>2, <1>3, <1>6 DEF FreshAck, AckOf, AcksUpTo
    <3>6. FreshResend("client", g) \/ FreshMessage("client", g) => AcksUpTo(server'.lastSendId, g)
      BY DEF FreshResend, FreshMessage, ContentOf, AcksUpTo
    <3>7. AcksUpTo(server'.lastSendId, g)
      BY <3>1, <3>4, <3>5, <3>6 DEF Fresh
    <3>. QED  BY <3>7 DEF g
  <2>2. ASSUME ~client.isClosed
        PROVE  client'.lastProcessedId <= server'.lastSendId
    <3>1. ASSUME NEW f, HandedReply(f)
          PROVE  client'.lastProcessedId <= server.lastSendId
      <4>1. /\ client.socket \in Sockets /\ 1 \in 1 .. Len(wire[client.socket]["client"])
            /\ f = wire[client.socket]["client"][1] /\ f.type = "CONTENT"
            /\ Len(delivered["client"]) + 1 \in 1 .. Len(delivered'["client"])
            /\ delivered'["client"][Len(delivered["client"]) + 1] = f.msg
        BY <3>1, HandedFrom
      <4>2. f.msg = Reply(restarts)
        BY <4>1 DEF Remembers
      <4>3. client.socket > retired
        <5>1. VoiceOf(client.socket, f, retired, restarts, up)
          BY <4>1 DEF Voices
        <5>. QED  BY <1>3, <4>1, <4>2, <5>1 DEF VoiceOf, Sockets
      <4>4. f.id <= server.lastSendId
        BY <1>2, <2>2, <4>1, <4>3 DEF ContentsUpTo
      <4>. QED  BY <3>1, <4>4 DEF HandedReply
    <3>2. HandedNothing => client'.lastProcessedId <= server.lastSendId
      BY <1>2, <2>2 DEF HandedNothing
    <3>. QED  BY <1>3, <1>6, <3>1, <3>2, ClientHanded, CountsKept
  <2>3. ASSUME ~client.isClosed, NEW s \in Sockets, s > retired,
               NEW i \in 1 .. Len(wire'[s]["client"]), wire'[s]["client"][i].type = "CONTENT"
        PROVE  wire'[s]["client"][i].id <= server'.lastSendId
    <3>. DEFINE g == wire'[s]["client"][i]
    <3>1. (\E k \in 1 .. Len(wire[s]["client"]) : g = wire[s]["client"][k]) \/ Fresh("server", g)
      BY FrameOrigin, EndCases
    <3>2. g \in Frame
      <4>1. wire'[s]["client"] \in Seq(Frame)
        BY <1>3, EndCases DEF Wires
      <4>. QED  BY <4>1, ElementOfSeq
    <3>3. g.id \in Nat /\ g.type = "CONTENT"
      BY <2>3, <3>2, FrameId
    <3>. HIDE DEF g
    <3>4. ASSUME NEW k \in 1 .. Len(wire[s]["client"]), g = wire[s]["client"][k]
          PROVE  g.id <= server.lastSendId
      BY <1>2, <2>3, <3>3, <3>4 DEF ContentsUpTo
    <3>5. ~FreshAck("server", g)
      BY <3>3 DEF FreshAck, AckOf
    <3>6. FreshResend("server", g) => g.id <= server.lastSendId
      <4>. SUFFICES ASSUME FreshResend("server", g) PROVE g.id <= server.lastSendId
        OBVIOUS
      <4>1. PICK j \in 1 .. Len(server.pendingSends) : g.id = server.pendingSends[j].id
        BY <1>3 DEF FreshResend, ContentOf
      <4>. QED  BY <1>3, <4>1, EntryNumbered
    <3>7. FreshMessage("server", g) => g.id = server'.lastSendId
      BY <1>3 DEF FreshMessage
    <3>8. g.id <= server'.lastSendId
      BY <1>3, <1>6, <3>1, <3>3, <3>4, <3>5, <3>6, <3>7 DEF Fresh
    <3>. QED  BY <3>8 DEF g
  <2>. QED  BY <1>4, <2>1, <2>2, <2>3 DEF ContentsUpTo
<1>7. server'.lastSendId >= server.lastSendId \/ (server' = NewTransport /\ client'.isClosed)
  <2>1. SendsChange("server")
    BY QueuesChange, EndCases
  <2>2. ASSUME NEW e \in End, NEW f \in Frame, NEW n \in Nat, Forgets(e, f, n)
        PROVE  client'.isClosed
    <3>1. e = "server"
      BY <2>2, ClientNotForgotten, EndCases
    <3>2. /\ Reads("server", f) /\ f \in ContentFrame /\ ProcessesUpTo(server, f, n)
          /\ \E i \in 1 .. Len(Processed(server, f, n)) : Processed(server, f, n)[i] = CloseMessage
      BY <1>3, <2>2, <3>1 DEF Forgets
    <3>. QED  BY <1>4, <3>2, ClosesOnlyClosed
  <2>3. ~Dies
    BY DEF Dies
  <2>4. CASE server' = NewTransport /\ \E e \in End, f \in Frame, n \in Nat : Forgets(e, f, n)
    BY <2>2, <2>4
  <2>5. CASE server'.lastSendId \in {server.lastSendId, server.lastSendId + 1}
    BY <1>3, <2>5
  <2>. QED  BY <1>3, <2>1, <2>3, <2>4, <2>5, EndCases DEF SendsChange, Sent
<1>. QED
  BY <1>5, <1>6, <1>7

\* The first frame of w, if any, acknowledges a message.
Front(w) == w # <<>> => w[1].type = "ACK" /\ w[1].id > 0

LEMMA FrontConcat ==
  ASSUME NEW w \in Seq(Frame), NEW frames \in Seq(Frame), Front(w),
         w = <<>> => frames # <<>> /\ Front(frames)
  PROVE  w \o frames # <<>> /\ Front(w \o frames)
<1>1. Len(w) \in Nat /\ Len(frames) \in Nat /\ (Len(w) = 0 <=> w = <<>>)
      /\ (Len(frames) = 0 <=> frames = <<>>)
  BY LenProperties, EmptySeq
<1>2. /\ Len(w \o frames) = Len(w) + Len(frames)
      /\ \A i \in 1 .. Len(w) + Len(frames) :
           (w \o frames)[i] = IF i <= Len(w) THEN w[i] ELSE frames[i - Len(w)]
  BY ConcatProperties
<1>3. Len(w) + Len(frames) >= 1
  BY <1>1
<1>4. w \o frames # <<>>
  BY <1>1, <1>2, <1>3, EmptySeq
<1>5. CASE w # <<>>
  <2>1. (w \o frames)[1] = w[1]
    BY <1>1, <1>2, <1>3, <1>5
  <2>. QED  BY <1>4, <1>5, <2>1 DEF Front
<1>6. CASE w = <<>>
  <2>1. (w \o frames)[1] = frames[1 - Len(w)] /\ 1 - Len(w) = 1
    BY <1>1, <1>2, <1>3, <1>6
  <2>. QED  BY <1>4, <1>6, <2>1 DEF Front
<1>. QED
  BY <1>5, <1>6

\* A client that processed a message starts a new socket with an ack.
LEMMA ResendFront ==
  ASSUME Sane, client.lastProcessedId > 0
  PROVE  /\ ResendFrames(client) \in Seq(Frame)
         /\ ResendFrames(client) # <<>> /\ Front(ResendFrames(client))
<1>. DEFINE acks == AckFrames(client)
            N == Len(client.pendingSends)
            resent == [i \in 1 .. N |-> ContentOf(client.pendingSends[i])]
<1>1. client \in Transport
  BY SaneParts
<1>2. acks \in Seq(Frame) /\ acks = <<AckOf(client.lastProcessedId)>>
  BY <1>1, FramesType DEF AckFrames
<1>3. resent \in Seq(Frame)
  <2>1. N \in Nat /\ \A i \in 1 .. N : client.pendingSends[i] \in Numbered
    BY <1>1, LenProperties, ElementOfSeq DEF Transport
  <2>2. resent \in [1 .. N -> Frame]
    BY <2>1, FrameType
  <2>. HIDE DEF resent, N
  <2>3. resent \in UNION {[1 .. n -> Frame] : n \in Nat}
    BY <2>1, <2>2
  <2>. QED  BY <2>3, SeqDef, Zenon
<1>4. acks # <<>> /\ Front(acks)
  BY <1>2 DEF Front, AckOf
<1>5. ResendFrames(client) = acks \o resent
  BY DEF ResendFrames
<1>. HIDE DEF acks, resent
<1>6. acks \o resent # <<>> /\ Front(acks \o resent)
  BY <1>2, <1>3, <1>4, FrontConcat
<1>7. acks \o resent \in Seq(Frame)
  BY <1>2, <1>3, ConcatProperties
<1>. QED
  BY <1>5, <1>6, <1>7

\* What the server is to read, after a step in which an end put frames.
LEMMA ServerWirePut ==
  ASSUME Sane, NEW s, NEW e \in End, NEW frames \in Seq(Frame),
         wire' = Carried(Put(wire, s, e, frames), ep', opening'),
         server'.socket \in Sockets
  PROVE  wire'[server'.socket]["server"]
           = IF server'.socket = s /\ e = "client"
               THEN wire[server'.socket]["server"] \o frames
               ELSE wire[server'.socket]["server"]
<1>1. Reaches(server'.socket, "server", ep', opening')
  BY DEF Reaches, server
<1>2. "server" = Peer(e) <=> e = "client"
  BY EndCases
<1>. QED
  BY <1>1, <1>2, EndCases DEF Carried, Put

LEMMA ServerWireKept ==
  ASSUME Sane, wire' = Carried(wire, ep', opening'), server'.socket \in Sockets
  PROVE  wire'[server'.socket]["server"] = wire[server'.socket]["server"]
<1>1. Reaches(server'.socket, "server", ep', opening')
  BY DEF Reaches, server
<1>. QED
  BY <1>1, EndCases DEF Carried

\* A server that is warned closes or stays so.
LEMMA WarnedStep ==
  ASSUME Sane, Effect, Sane', Numbers, Voices, Ordered, Warned,
         client.lastProcessedId > 0, UNCHANGED <<up, restarts, retired>>
  PROVE  server'.isClosed \/ Warned'
<1>. SUFFICES ASSUME ~server'.isClosed
              PROVE  Warned'
  OBVIOUS
<1>1. /\ client = ep["client"] /\ server = ep["server"]
      /\ client' = ep'["client"] /\ server' = ep'["server"]
      /\ client \in Transport /\ wire \in Wires /\ NoSocket \notin Sockets
      /\ Virgin
  BY SaneParts, EndCases DEF client, server, NoSocket, Sockets, Warned
<1>2. ASSUME NEW f, Reads("server", f)
      PROVE  f.type = "ACK" /\ f.id > 0
  <2>1. /\ server.socket \in Sockets /\ wire[server.socket]["server"] # <<>>
        /\ f = wire[server.socket]["server"][1]
    BY <1>1, <1>2, NextFrame, EndCases DEF Reads
  <2>. QED  BY <2>1 DEF Warned
<1>3. /\ \A f, n : ~TakesContent("server", f, n)
      /\ \A f, n : ~Forgets("server", f, n)
  <2>1. \A f \in ContentFrame : f.type # "ACK"
    BY DEF ContentFrame
  <2>. QED  BY <1>2, <2>1 DEF TakesContent, Forgets
<1>4. \A f \in Frame, n \in Nat : ~TakesAck("server", f, n)
  BY <1>1, <1>2 DEF TakesAck, IsAmnesia, Virgin, Emptied
<1>5. Virgin'
  BY <1>1, <1>3, StaysVirgin
<1>. DEFINE t == server'.socket
            u == wire[t]["server"]
            v == wire'[t]["server"]
            Fine == t \in Sockets => Front(v) /\ (t = client'.socket => v # <<>>)
<1>. SUFFICES Fine
  BY <1>5 DEF Warned, Front
<1>6. t \in Sockets => u \in Seq(Frame)
  BY <1>1, EndCases DEF Wires
<1>7. ASSUME t = server.socket, t \in Sockets
      PROVE  Front(u) /\ (t = client.socket => u # <<>>)
  BY <1>7 DEF Warned, Front
<1>8. ASSUME t = server.socket, t \in Sockets => v = u, client'.socket \in {client.socket, NoSocket}
      PROVE  Fine
  <2>. SUFFICES ASSUME t \in Sockets PROVE Front(v) /\ (t = client'.socket => v # <<>>)
    OBVIOUS
  <2>1. Front(u) /\ (t = client.socket => u # <<>>)
    BY <1>7, <1>8
  <2>. QED  BY <1>1, <1>8, <2>1
<1>9. ASSUME NEW e \in End, Loses(e)
      PROVE  Fine
  <2>1. /\ t \in {server.socket, NoSocket}
        /\ client'.socket \in {client.socket, NoSocket}
        /\ wire' = Carried(wire, ep', opening')
    BY <1>1, <1>9, EndCases DEF Loses, Emptied
  <2>2. t \in Sockets => v = u
    BY <2>1, ServerWireKept
  <2>. QED  BY <1>1, <1>8, <2>1, <2>2
<1>10. ASSUME NEW s \in Sockets, Adopts(s)
       PROVE  Fine
  <2>. SUFFICES ASSUME t \in Sockets PROVE Front(v) /\ (t = client'.socket => v # <<>>)
    OBVIOUS
  <2>1. /\ t = server.socket /\ client'.socket = s
        /\ wire' = Carried(Put(wire, s, "client", ResendFrames(client)), ep', opening')
    BY <1>10 DEF Adopts
  <2>2. /\ ResendFrames(client) \in Seq(Frame)
        /\ ResendFrames(client) # <<>> /\ Front(ResendFrames(client))
    BY ResendFront
  <2>3. v = IF t = s THEN u \o ResendFrames(client) ELSE u
    BY <2>1, <2>2, ServerWirePut, EndCases
  <2>4. Front(u)
    BY <1>7, <2>1
  <2>. HIDE DEF v, u, t
  <2>5. u \o ResendFrames(client) # <<>> /\ Front(u \o ResendFrames(client))
    <3>. DEFINE r == ResendFrames(client)
    <3>1. u \in Seq(Frame)
      BY <1>6 DEF u
    <3>. QED  BY <2>2, <2>4, <3>1, FrontConcat
  <2>. QED  BY <2>1, <2>3, <2>4, <2>5
<1>11. CASE Accepts
  <2>. SUFFICES ASSUME t \in Sockets PROVE Front(v) /\ (t = client'.socket => v # <<>>)
    OBVIOUS
  <2>1. /\ t = accepted + 1 /\ client' = client
        /\ wire' = Carried(Put(wire, accepted + 1, "server", ReconnectFrames(server)), ep', opening')
    BY <1>1, <1>11 DEF Accepts
  <2>2. ReconnectFrames(server) \in Seq(Frame)
    BY SaneParts, FramesType
  <2>3. v = u
    BY <2>1, <2>2, ServerWirePut, EndCases
  <2>4. t \notin {client.socket, server.socket}
    BY <1>1, <2>1, SaneParts, EndCases
  <2>5. u = <<>>
    BY <1>1, <2>4, EndCases DEF Sane, Structure, Reaches
  <2>. QED  BY <2>1, <2>3, <2>4, <2>5 DEF Front
<1>12. ASSUME NEW e \in End, NEW frames \in Seq(Frame),
              wire' = Carried(Put(wire, ep[e].socket, e, frames), ep', opening'),
              server'.socket = server.socket, client'.socket \in {client.socket, NoSocket}
       PROVE  Fine
  <2>. SUFFICES ASSUME t \in Sockets PROVE Front(v) /\ (t = client'.socket => v # <<>>)
    OBVIOUS
  <2>1. v = IF t = ep[e].socket /\ e = "client" THEN u \o frames ELSE u
    BY <1>12, ServerWirePut
  <2>2. Front(u) /\ (t = client.socket => u # <<>>) /\ u \in Seq(Frame)
    BY <1>6, <1>7, <1>12
  <2>. HIDE DEF v, u
  <2>3. t = client.socket => u \o frames # <<>> /\ Front(u \o frames)
    BY <1>12, <2>2, FrontConcat
  <2>4. Front(v) /\ (t = client.socket => v # <<>>)
    BY <1>1, <2>1, <2>2, <2>3
  <2>. QED  BY <1>1, <1>12, <2>4
<1>13. ASSUME NEW e \in End, Acknowledges(e)
       PROVE  Fine
  <2>1. AckFrames(ep[e]) \in Seq(Frame)
    BY SaneParts, FramesType
  <2>2. server'.socket = server.socket /\ client'.socket = client.socket
    BY <1>1, <1>13, EndCases DEF Acknowledges
  <2>. HIDE DEF Fine
  <2>. QED  BY <1>12, <1>13, <2>1, <2>2 DEF Acknowledges
<1>14. ASSUME NEW e \in End, NEW m \in Msg, Sends(e, m)
       PROVE  Fine
  <2>1. SendFrames(ep[e], m) \in Seq(Frame)
    BY SaneParts, FramesType
  <2>2. server'.socket = server.socket /\ client'.socket = client.socket
    BY <1>1, <1>14, EndCases DEF Sends
  <2>. HIDE DEF Fine
  <2>. QED  BY <1>12, <1>14, <2>1, <2>2 DEF Sends
<1>15. CASE SaysClose
  <2>1. SendFrames(client, CloseMessage) \in Seq(Frame)
    BY <1>1, FramesType, MessageTypes, MsgAssumption
  <2>2. server'.socket = server.socket /\ client'.socket = NoSocket
    BY <1>15 DEF SaysClose
  <2>. HIDE DEF Fine
  <2>. QED  BY <1>1, <1>12, <1>15, <2>1, <2>2, EndCases DEF SaysClose
<1>16. ASSUME NEW e \in End, NEW f \in Frame, NEW n \in Nat,
              TakesContent(e, f, n) \/ Forgets(e, f, n) \/ TakesAck(e, f, n)
       PROVE  Fine
  <2>1. e = "client" /\ ~Forgets(e, f, n)
    BY <1>3, <1>4, <1>16, ClientNotForgotten, EndCases
  <2>2. /\ wire' = Carried(Took(wire, client.socket, "client", 1), ep', opening')
        /\ server' = server /\ client'.socket \in {client.socket, NoSocket}
    BY <1>1, <1>16, <2>1, EndCases DEF TakesContent, TakesAck, Reads, Emptied
  <2>3. t \in Sockets => v = u
    <3>1. Reaches(server'.socket, "server", ep', opening')
      BY <1>1 DEF Reaches
    <3>. QED  BY <2>2, <3>1, EndCases DEF Carried, Took
  <2>. QED  BY <1>8, <2>2, <2>3
<1>17. CASE Dies
  BY <1>1, <1>17 DEF Dies, NewTransport
<1>18. ~Returns
  BY DEF Returns, Sane, TypeOK
<1>. HIDE DEF Fine
<1>. QED
  BY <1>9, <1>10, <1>11, <1>13, <1>14, <1>15, <1>16, <1>17, <1>18 DEF Effect

\* A server that is closed is joined by no other, unless the process dies.
LEMMA ServerStaysClosed ==
  ASSUME Sane, Effect, Voices, Ordered, server.isClosed
  PROVE  server'.isClosed \/ Warned'
<1>1. SendsChange("server") /\ server = ep["server"] /\ server' = ep'["server"]
  BY QueuesChange, EndCases DEF server
<1>2. ASSUME NEW d \in End, NEW f \in Frame, NEW n \in Nat
      PROVE  ~Forgets(d, f, n)
  BY <1>1, ClientNotForgotten, EndCases DEF Forgets, Reads, IsOpen
<1>3. ASSUME server' = NewTransport
      PROVE  Warned'
  BY <1>3 DEF Warned, Virgin, NewTransport, NoSocket, Sockets
<1>. HIDE DEF Warned
<1>. QED
  BY <1>1, <1>2, <1>3, EndCases DEF SendsChange

LEMMA RememberingStep ==
  ASSUME Sane, Effect, Sane', Numbers, Voices, Ordered, Lagging', Remembering,
         UNCHANGED <<up, restarts, retired>>
  PROVE  Remembering'
<1>. SUFFICES ASSUME Remembers'
              PROVE  Silent' /\ (server'.isClosed \/ Warned')
  BY DEF Remembering
<1>1. CASE Remembers
  <2>1. Silent /\ (server.isClosed \/ Warned)
    BY <1>1 DEF Remembering
  <2>2. Silent'
    BY <2>1, StaysSilent DEF Warned
  <2>3. client.lastProcessedId > 0
    <3>1. PICK i \in 1 .. Len(delivered["client"]) : TRUE
      BY <1>1 DEF Remembers
    <3>2. Len(delivered["client"]) \in Nat /\ Len(delivered["client"]) = client.lastProcessedId
      BY LenProperties, EndCases DEF Sane, TypeOK, Ordered
    <3>. QED  BY <3>1, <3>2
  <2>. QED
    BY <2>1, <2>2, <2>3, ServerStaysClosed, WarnedStep
<1>2. CASE ~Remembers
  <2>1. PICK i \in 1 .. Len(delivered'["client"]) : delivered'["client"][i] # Reply(restarts)
    BY DEF Remembers
  <2>2. ~HandedNothing
    BY <1>2, <2>1 DEF HandedNothing, Remembers
  <2>3. PICK f : HandedReply(f)
    BY <2>2, ClientHanded
  <2>4. /\ client.socket \in Sockets /\ client'.socket = client.socket
        /\ 1 \in 1 .. Len(wire[client.socket]["client"])
        /\ f = wire[client.socket]["client"][1] /\ f.type = "CONTENT"
        /\ f.msg # Reply(restarts)
    <3>1. /\ i \in 1 .. Len(delivered["client"]) =>
               delivered'["client"][i] = delivered["client"][i]
          /\ i \in 1 .. Len(delivered["client"]) \/ i = Len(delivered["client"]) + 1
          /\ delivered'["client"][Len(delivered["client"]) + 1] = f.msg
      BY <2>1, <2>3, HandedFrom
    <3>2. i = Len(delivered["client"]) + 1
      BY <1>2, <2>1, <3>1 DEF Remembers
    <3>. QED  BY <2>1, <2>3, <3>1, <3>2, HandedFrom
  <2>5. VoiceOf(client.socket, f, retired, restarts, up)
    BY <2>4 DEF Voices
  <2>6. retired \in Nat /\ NoSocket \notin Sockets
    BY DEF Sane, TypeOK, NoSocket, Sockets
  <2>7. client'.socket \in 1 .. retired'
    BY <2>4, <2>5, <2>6 DEF VoiceOf, Sockets
  <2>8. Unheard'
    BY <2>7 DEF Lagging
  <2>9. server'.socket # client'.socket
    BY <2>6, <2>7 DEF Sane, Structure, NoSocket, Sockets
  <2>. QED
    BY <2>8, <2>9 DEF Unheard, Warned
<1>. QED
  BY <1>1, <1>2

LEMMA PartedStep ==
  ASSUME Sane, Effect, Sane', Numbers, Voices, Voices', Ordered, Parted
  PROVE  Parted'
<1>. SUFFICES ASSUME ~late'
              PROVE  OneVoice' /\ Lagging' /\ Remembering' /\ Agreeing'
  BY DEF Parted
<1>1. OneVoice /\ Lagging /\ Remembering /\ Agreeing
  BY NotLate DEF Parted
<1>2. CASE Dies \/ Returns
  BY <1>1, <1>2, PartedWhenGone
<1>3. CASE ~Dies /\ ~Returns
  <2>1. UNCHANGED <<up, restarts, retired>>
    BY <1>3, ProcessKept
  <2>2. OneVoice' /\ Lagging' /\ Agreeing'
    BY <1>1, <2>1, OneVoiceStep, LaggingStep, AgreeingStep
  <2>. QED  BY <1>1, <2>1, <2>2, RememberingStep
<1>. QED
  BY <1>2, <1>3

LEMMA InitParted == Init => Parted
<1>. SUFFICES ASSUME Init PROVE Parted
  OBVIOUS
<1>1. /\ client = NewTransport /\ server = NewTransport
      /\ \A s \in Sockets, d \in End : wire[s][d] = <<>>
      /\ delivered["client"] = <<>> /\ restarts = 0 /\ retired = 0
      /\ Len(<<>>) = 0 /\ NoSocket \notin Sockets
  BY EmptySeq, EndCases DEF Init, client, server, NoSocket, Sockets
<1>2. OneVoice
  BY <1>1 DEF OneVoice, NewTransport
<1>3. Lagging
  BY <1>1 DEF Lagging, NewTransport, NoSocket
<1>4. Remembering
  BY <1>1 DEF Remembering, Remembers
<1>5. Agreeing
  BY <1>1, EndCases DEF Agreeing, ContentsUpTo, NewTransport
<1>. QED
  BY <1>2, <1>3, <1>4, <1>5 DEF Parted

-----------------------------------------------------------------------------
(* What the session promises about the incarnations of the server. *)

SessionInv == Sane /\ Numbers /\ Voices /\ Ordered /\ Parted

LEMMA SessionInvStep ==
  ASSUME SessionInv, [Next]_vars
  PROVE  SessionInv'
<1>1. Sane /\ Numbers /\ Voices /\ Ordered /\ Parted
  BY DEF SessionInv
<1>2. Effect /\ Sane'
  BY <1>1, StepEffect, SaneStep
<1>3. Numbers' /\ Voices' /\ Ordered'
  BY <1>1, <1>2, NumbersStep, VoicesStep, OrderedStep
<1>4. Parted'
  BY <1>1, <1>2, <1>3, PartedStep
<1>. QED
  BY <1>2, <1>3, <1>4 DEF SessionInv

\* The invariant on which the two theorems below rest.
THEOREM SessionInvariant == Spec => []SessionInv
<1>1. Init => SessionInv
  BY InitSane, InitNumbers, InitVoices, InitOrdered, InitParted DEF SessionInv
<1>2. SessionInv /\ [Next]_vars => SessionInv'
  BY SessionInvStep
<1>. QED
  BY <1>1, <1>2, PTL DEF Spec

\* Unless the client ever adopted a socket that a crashed server had accepted,
\* all the replies it is handed were written by one incarnation of the server,
\* however often the server crashes and whichever sockets and dials are lost.
THEOREM RepliesNeverSpliced == Spec => []NoSplice
<1>1. SessionInv => NoSplice
  <2>. SUFFICES ASSUME SessionInv, ~late, NEW i \in 1 .. Len(delivered["client"]),
                       NEW j \in 1 .. Len(delivered["client"])
                PROVE  delivered["client"][i] = delivered["client"][j]
    BY DEF NoSplice, Unspliced
  <2>1. PICK b \in 0 .. restarts :
          \A k \in 1 .. Len(delivered["client"]) : delivered["client"][k] = Reply(b)
    BY DEF SessionInv, Parted, OneVoice
  <2>. QED  BY <2>1
<1>. QED
  BY <1>1, SessionInvariant, PTL

\* The assertion in the amnesia branch of _handleMessage holds under the same
\* condition: a transport reads an ack of a message it never sent only before
\* it sent or processed anything.
THEOREM AmnesiaOnlyInOrder == Spec => []AmnesiaInOrder
<1>1. SessionInv => AmnesiaInOrder
  <2>. SUFFICES ASSUME SessionInv, ~late, NEW e \in End, IsOpen(ep[e]),
                       wire[ep[e].socket][e] # <<>>,
                       NEW f, f = Head(wire[ep[e].socket][e]),
                       f.type = "ACK", IsAmnesia(ep[e], f)
                PROVE  ep[e].lastSendId = 0 /\ ep[e].lastProcessedId = 0
    BY DEF AmnesiaInOrder, AmnesiaOnlyWhenNew
  <2>1. /\ Sane /\ Numbers /\ Remembering /\ Agreeing
        /\ client = ep["client"] /\ server = ep["server"]
    BY DEF SessionInv, Parted, client, server
  <2>2. /\ ep[e].socket \in Sockets /\ 1 \in 1 .. Len(wire[ep[e].socket][e])
        /\ f = wire[ep[e].socket][e][1] /\ f \in Frame
    BY <2>1, NextFrame
  <2>3. f.id \in Nat /\ ep[e].lastSendId \in Nat /\ f.id > ep[e].lastSendId
    BY <2>1, <2>2, FrameId, SaneParts DEF IsAmnesia, Transport
  <2>4. e = "server"
    <3>1. ASSUME e = "client" PROVE FALSE
      <4>1. Known(client.lastSendId, e, f)
        BY <2>1, <2>2 DEF Numbers
      <4>. QED  BY <2>1, <2>3, <3>1, <4>1 DEF Known
    <3>. QED  BY <3>1, EndCases
  <2>5. up
    BY <2>1, <2>4 DEF Sane, Structure, IsOpen, NewTransport
  <2>6. Remembers
    <3>1. ASSUME ~Remembers PROVE FALSE
      <4>1. AcksUpTo(server.lastSendId, f)
        BY <2>1, <2>2, <2>4, <2>5, <3>1 DEF Agreeing
      <4>. QED  BY <2>1, <2>3, <2>4, <4>1 DEF AcksUpTo
    <3>. QED  BY <3>1
  <2>7. ~server.isClosed
    BY <2>1, <2>4 DEF IsOpen
  <2>8. Virgin
    BY <2>1, <2>6, <2>7 DEF Remembering, Warned
  <2>. QED  BY <2>1, <2>4, <2>8 DEF Virgin
<1>. QED
  BY <1>1, SessionInvariant, PTL

-----------------------------------------------------------------------------
(* The session implements AckChannel until the server crashes or the client *)
(* is closed.  AckChannel lets every socket but the last one fail at will,   *)
(* and ends give up the last one only when the other is not on it; it bounds *)
(* the messages of each end.  So the session needs to know three things more:*)
(* the last socket, once the server uses it, stays open at or on its way to  *)
(* the client; no socket belongs to a crashed server before the first crash; *)
(* and the server never says more than it was asked.                         *)

(* The operators of AckChannel are those of this module. *)
LEMMA SameOperators ==
  /\ AckChan!End = End /\ AckChan!Sockets = Sockets /\ AckChan!NewTransport = NewTransport
  /\ \A e : AckChan!Peer(e) = Peer(e)
  /\ \A s : AckChan!Spare(s) = Spare(s)
  /\ \A q : /\ AckChan!IsOpen(q) = IsOpen(q)
            /\ AckChan!IsDisconnected(q) = IsDisconnected(q)
            /\ AckChan!HandleTransportClose(q) = HandleTransportClose(q)
            /\ AckChan!HandleAckTimer(q) = HandleAckTimer(q)
            /\ AckChan!AckFrames(q) = AckFrames(q)
            /\ AckChan!ReconnectFrames(q) = ReconnectFrames(q)
  /\ \A q, s : AckChan!Reconnect(q, s) = Reconnect(q, s)
  /\ \A q, m : /\ AckChan!Enqueue(q, m) = Enqueue(q, m)
               /\ AckChan!SendFrames(q, m) = SendFrames(q, m)
  /\ \A q, f, n : /\ AckChan!ProcessesUpTo(q, f, n) = ProcessesUpTo(q, f, n)
                  /\ AckChan!Processed(q, f, n) = Processed(q, f, n)
                  /\ AckChan!HandleContent(q, f, n) = HandleContent(q, f, n)
                  /\ AckChan!AcknowledgesFirst(q, f, n) = AcknowledgesFirst(q, f, n)
                  /\ AckChan!HandleAck(q, f, n) = HandleAck(q, f, n)
  /\ \A w, p, o : AckChan!Carried(w, p, o) = Carried(w, p, o)
  /\ \A w, s, e, x : /\ AckChan!Put(w, s, e, x) = Put(w, s, e, x)
                     /\ AckChan!Took(w, s, e, x) = Took(w, s, e, x)
<1>1. /\ AckChan!End = End /\ AckChan!Sockets = Sockets /\ AckChan!NewTransport = NewTransport
      /\ \A e : AckChan!Peer(e) = Peer(e)
      /\ \A s : AckChan!Spare(s) = Spare(s)
  BY DEF AckChan!End, End, AckChan!Sockets, Sockets, AckChan!NewTransport, NewTransport, AckChan!Peer, Peer, AckChan!Spare, Spare, AckChan!NoSocket, NoSocket
<1>2. \A q : /\ AckChan!IsOpen(q) = IsOpen(q)
            /\ AckChan!IsDisconnected(q) = IsDisconnected(q)
            /\ AckChan!HandleTransportClose(q) = HandleTransportClose(q)
            /\ AckChan!HandleAckTimer(q) = HandleAckTimer(q)
            /\ AckChan!AckFrames(q) = AckFrames(q)
            /\ AckChan!ReconnectFrames(q) = ReconnectFrames(q)
  BY DEF AckChan!IsOpen, IsOpen, AckChan!IsDisconnected, IsDisconnected,
         AckChan!HandleTransportClose, HandleTransportClose, AckChan!HandleAckTimer, HandleAckTimer,
         AckChan!AckFrames, AckFrames, AckChan!AckOf, AckOf, AckChan!ReconnectFrames, ReconnectFrames,
         AckChan!ResendFrames, ResendFrames, AckChan!ContentOf, ContentOf, AckChan!NoSocket, NoSocket
<1>3. /\ \A q, s : AckChan!Reconnect(q, s) = Reconnect(q, s)
      /\ \A q, m : /\ AckChan!Enqueue(q, m) = Enqueue(q, m)
                   /\ AckChan!SendFrames(q, m) = SendFrames(q, m)
  BY DEF AckChan!Reconnect, Reconnect, AckChan!Enqueue, Enqueue, AckChan!SendFrames, SendFrames,
         AckChan!MaybeStartPendingMessageTimer, MaybeStartPendingMessageTimer,
         AckChan!WantsPendingMessageTimer, WantsPendingMessageTimer,
         AckChan!HasPendingMessage, HasPendingMessage, AckChan!NextNumbered, NextNumbered,
         AckChan!HandleTransportClose, HandleTransportClose,
         AckChan!IsOpen, IsOpen, AckChan!ContentOf, ContentOf, AckChan!NoSocket, NoSocket
<1>4. \A q, f, n : /\ AckChan!ProcessesUpTo(q, f, n) = ProcessesUpTo(q, f, n)
                  /\ AckChan!Processed(q, f, n) = Processed(q, f, n)
  BY DEF AckChan!ProcessesUpTo, ProcessesUpTo, AckChan!Processed, Processed,
         AckChan!Received, Received
<1>5. \A q, b : AckChan!RestartPendingMessageTimer(q, b) = RestartPendingMessageTimer(q, b)
  BY DEF AckChan!RestartPendingMessageTimer, RestartPendingMessageTimer,
         AckChan!MaybeStartPendingMessageTimer, MaybeStartPendingMessageTimer,
         AckChan!WantsPendingMessageTimer, WantsPendingMessageTimer,
         AckChan!HasPendingMessage, HasPendingMessage,
         AckChan!IsOpen, IsOpen, AckChan!NoSocket, NoSocket
<1>6. \A q, f, n : AckChan!HandleContent(q, f, n) = HandleContent(q, f, n)
  BY <1>5 DEF AckChan!HandleContent, HandleContent, AckChan!Received, Received,
       AckChan!IsOpen, IsOpen, AckChan!NoSocket, NoSocket
<1>7. \A q, f, n : /\ AckChan!AcknowledgesFirst(q, f, n) = AcknowledgesFirst(q, f, n)
                  /\ AckChan!HandleAck(q, f, n) = HandleAck(q, f, n)
  <2>1. \A q : AckChan!Close(q) = Close(q)
    BY DEF AckChan!Close, Close, AckChan!HandleTransportClose, HandleTransportClose,
           AckChan!NoSocket, NoSocket
  <2>2. \A q, f, n : AckChan!AcknowledgesFirst(q, f, n) = AcknowledgesFirst(q, f, n)
    BY DEF AckChan!AcknowledgesFirst, AcknowledgesFirst
  <2>3. \A q, f, n : AckChan!HandleAck(q, f, n) = HandleAck(q, f, n)
    BY <1>5, <2>1 DEF AckChan!HandleAck, HandleAck, AckChan!IsAmnesia, IsAmnesia
  <2> QED BY <2>2, <2>3
<1>8. /\ \A w, p, o : AckChan!Carried(w, p, o) = Carried(w, p, o)
      /\ \A w, s, e, x : /\ AckChan!Put(w, s, e, x) = Put(w, s, e, x)
                         /\ AckChan!Took(w, s, e, x) = Took(w, s, e, x)
  BY <1>1 DEF AckChan!Carried, Carried, AckChan!Reaches, Reaches, AckChan!Put, Put,
       AckChan!Took, Took
<1> QED BY <1>1, <1>2, <1>3, <1>4, <1>6, <1>7, <1>8

-----------------------------------------------------------------------------
\* The last socket does not break, and both ends hold on to it.
LastSocketHolds ==
  /\ \A s \in dead : Spare(s)
  /\ Undisturbed /\ MaxSocket \in open["server"]
       => MaxSocket \in open["client"] \cup opening

\* No socket has been retired before the first crash.
FirstServer == up /\ restarts = 0 => retired = 0 /\ ~late

\* The server never says more than it was asked.
Answering ==
  /\ server.lastSendId <= server.lastProcessedId
  /\ server.lastProcessedId > 0 => accepted > 0
  /\ ~client.isClosed => client.lastSendId <= MaxRequest

Joined == LastSocketHolds /\ FirstServer /\ Answering

LEMMA InitJoined == Init => Joined
<1>. SUFFICES ASSUME Init PROVE Joined
  OBVIOUS
<1>1. client = NewTransport /\ server = NewTransport /\ open["server"] = {} /\ dead = {}
  BY EndCases DEF Init, client, server
<1>2. LastSocketHolds
  BY <1>1 DEF LastSocketHolds
<1>3. FirstServer
  BY DEF Init, FirstServer
<1>4. Answering
  BY <1>1, BoundsAssumption DEF Answering, NewTransport
<1>. QED
  BY <1>2, <1>3, <1>4 DEF Joined

\* What disturbed the session stays so.
LEMMA UndisturbedBefore ==
  ASSUME Sane, Effect, Undisturbed'
  PROVE  Undisturbed /\ ~Dies /\ ~Returns /\ UNCHANGED <<up, restarts, retired>>
<1>1. ~client.isClosed
  BY StaysClosed DEF Undisturbed
<1>2. ~Dies
  BY DEF Undisturbed, Dies
<1>3. ~Returns
  <2>1. restarts \in Nat
    BY BoundsAssumption DEF Sane, TypeOK
  <2>. QED  BY <2>1 DEF Undisturbed, Returns
<1>4. UNCHANGED <<up, restarts, retired>>
  BY <1>2, <1>3, ProcessKept
<1>. QED
  BY <1>1, <1>2, <1>3, <1>4 DEF Undisturbed

LEMMA FirstServerStep ==
  ASSUME Sane, Effect, FirstServer
  PROVE  FirstServer'
<1>. SUFFICES ASSUME up', restarts' = 0
              PROVE  retired' = 0 /\ ~late'
  BY DEF FirstServer
<1>1. ~Dies /\ ~Returns
  <2>1. restarts \in Nat
    BY BoundsAssumption DEF Sane, TypeOK
  <2>. QED  BY <2>1 DEF Dies, Returns
<1>2. UNCHANGED <<up, restarts, retired>>
  BY <1>1, ProcessKept
<1>3. retired = 0 /\ ~late
  BY <1>2 DEF FirstServer
<1>4. ASSUME NEW e \in End, Loses(e) \/ Acknowledges(e)
      PROVE  ~late'
  BY <1>3, <1>4 DEF Loses, Acknowledges, Steady
<1>5. ASSUME NEW s \in Sockets, Adopts(s)
      PROVE  ~late'
  <2>1. ~(s <= 0)
    BY DEF Sockets
  <2>. QED  BY <1>3, <1>5, <2>1 DEF Adopts
<1>6. ASSUME Accepts \/ SaysClose
      PROVE  ~late'
  <2>1. late' = late
    BY <1>6 DEF Accepts, SaysClose, Steady
  <2>. QED  BY <1>3, <2>1
<1>7. ASSUME NEW e \in End, NEW m \in Msg, Sends(e, m)
      PROVE  ~late'
  BY <1>3, <1>7 DEF Sends, Steady
<1>8. ASSUME NEW e \in End, NEW f \in Frame, NEW n \in Nat,
             TakesContent(e, f, n) \/ Forgets(e, f, n) \/ TakesAck(e, f, n)
      PROVE  ~late'
  BY <1>3, <1>8 DEF TakesContent, Forgets, TakesAck, Reads
<1>. QED
  BY <1>1, <1>2, <1>3, <1>4, <1>5, <1>6, <1>7, <1>8 DEF Effect

LEMMA AnsweringStep ==
  ASSUME Sane, Effect, Answering
  PROVE  Answering'
<1>1. /\ client = ep["client"] /\ server = ep["server"]
      /\ client' = ep'["client"] /\ server' = ep'["server"]
      /\ client \in Transport /\ server \in Transport
      /\ "client" \in End /\ "server" \in End /\ "client" # "server"
      /\ accepted \in Nat /\ MaxRequest \in Nat
  BY SaneParts, EndCases DEF client, server
<1>2. /\ client.lastSendId \in Nat
      /\ server.lastSendId \in Nat /\ server.lastProcessedId \in Nat
  BY <1>1 DEF Transport
<1>3. /\ SendsChange("client") /\ ReceivesChange("client")
      /\ SendsChange("server") /\ ReceivesChange("server")
  BY <1>1, QueuesChange
<1>4. accepted' \in Nat /\ accepted' >= accepted
  <2>1. ASSUME NEW e \in End, Loses(e) \/ Acknowledges(e)
        PROVE  accepted' = accepted
    BY <2>1 DEF Loses, Acknowledges, Steady
  <2>2. ASSUME (\E s \in Sockets : Adopts(s)) \/ SaysClose \/ Dies \/ Returns
        PROVE  accepted' = accepted
    BY <2>2 DEF Adopts, SaysClose, Dies, Returns, Steady
  <2>3. ASSUME NEW e \in End, NEW m \in Msg, Sends(e, m)
        PROVE  accepted' = accepted
    BY <2>3 DEF Sends, Steady
  <2>4. ASSUME NEW e \in End, NEW f \in Frame, NEW n \in Nat,
               TakesContent(e, f, n) \/ Forgets(e, f, n) \/ TakesAck(e, f, n)
        PROVE  accepted' = accepted
    BY <2>4 DEF TakesContent, Forgets, TakesAck, Reads
  <2>5. ASSUME Accepts
        PROVE  accepted' = accepted + 1
    BY <2>5 DEF Accepts
  <2>6. accepted' = accepted \/ accepted' = accepted + 1
    BY <2>1, <2>2, <2>3, <2>4, <2>5 DEF Effect
  <2>. QED  BY <1>1, <2>6
<1>5. \/ server' = NewTransport
      \/ /\ server'.lastProcessedId \in Nat /\ server'.lastProcessedId >= server.lastProcessedId
         /\ server'.lastProcessedId > 0 => accepted' > 0
  <2>1. CASE server'.lastProcessedId = server.lastProcessedId
    BY <1>1, <1>2, <1>4, <2>1 DEF Answering
  <2>2. ASSUME NEW f \in Frame, NEW n \in Nat, TakesContent("server", f, n)
        PROVE  /\ server'.lastProcessedId \in Nat
               /\ server'.lastProcessedId >= server.lastProcessedId
               /\ accepted' > 0
    <3>1. server'.lastProcessedId = n /\ n >= server.lastProcessedId /\ IsOpen(server)
      BY <1>1, <2>2 DEF TakesContent, ProcessesUpTo, Reads
    <3>2. server.socket \in Sockets /\ server.socket \in 0 .. accepted
      BY <1>1, <3>1, SaneParts
    <3>. QED  BY <1>1, <1>4, <3>1, <3>2 DEF Sockets
  <2>. QED  BY <1>1, <1>3, <2>1, <2>2 DEF ReceivesChange
<1>6. \/ server' = NewTransport
      \/ server'.lastSendId = server.lastSendId
      \/ server'.lastSendId = server.lastSendId + 1 /\ server.lastSendId < server.lastProcessedId
  BY <1>1, <1>3 DEF SendsChange, MaySend, Sent
<1>7. \/ client'.lastSendId = client.lastSendId /\ (client.isClosed => client'.isClosed)
      \/ client'.isClosed
      \/ client'.lastSendId = client.lastSendId + 1 /\ client.lastSendId < MaxRequest
  <2>1. client.isClosed => client'.isClosed
    BY StaysClosed
  <2>. QED  BY <1>1, <1>3, <2>1 DEF SendsChange, MaySend, Sent
<1>8. ~client'.isClosed => client'.lastSendId <= MaxRequest
  BY <1>1, <1>2, <1>7 DEF Answering
<1>9. CASE server' = NewTransport
  <2>1. server'.lastSendId = 0 /\ server'.lastProcessedId = 0
    BY <1>9 DEF NewTransport
  <2>. QED  BY <1>8, <2>1 DEF Answering
<1>10. CASE server' # NewTransport
  <2>1. server.lastSendId <= server.lastProcessedId
    BY DEF Answering
  <2>2. server'.lastSendId <= server'.lastProcessedId
    BY <1>2, <1>5, <1>6, <1>10, <2>1
  <2>. QED  BY <1>5, <1>8, <1>10, <2>2 DEF Answering
<1>. QED
  BY <1>9, <1>10

\* Whoever gives up a socket that is not the last one.
LEMMA NotTheLast ==
  ASSUME LastSocketHolds, NEW s, NEW e \in End, Gone(s, e) \/ Spare(s),
         Undisturbed, MaxSocket \in open["server"]
  PROVE  s # MaxSocket
<1>1. ~Spare(MaxSocket)
  BY MaxSocketAssumption DEF Spare
<1>2. MaxSocket \notin dead
  BY <1>1 DEF LastSocketHolds
<1>3. ~Gone(MaxSocket, "client")
  BY <1>2, EndCases DEF Gone
<1>4. ~Gone(MaxSocket, "server")
  BY <1>2, EndCases DEF Gone, LastSocketHolds
<1>. QED
  BY <1>1, <1>3, <1>4, EndCases

LEMMA LastSocketLost ==
  ASSUME Sane, LastSocketHolds, NEW e \in End, NEW s, Gone(s, e) \/ Spare(s),
         open' = [open EXCEPT ![e] = @ \ {s}], opening' = opening, dead' = dead,
         Undisturbed' => Undisturbed
  PROVE  LastSocketHolds'
<1>1. open \in [End -> SUBSET (1 .. accepted)]
  BY DEF Sane, TypeOK
<1>2. ASSUME Undisturbed, MaxSocket \in open'["server"]
      PROVE  MaxSocket \in open'["client"] \cup opening'
  <2>1. MaxSocket \in open["server"]
    BY <1>1, <1>2, EndCases
  <2>2. s # MaxSocket
    BY <1>2, <2>1, NotTheLast
  <2>3. MaxSocket \in open["client"] \cup opening
    BY <1>2, <2>1 DEF LastSocketHolds
  <2>. QED  BY <1>1, <2>2, <2>3, EndCases
<1>. QED
  BY <1>2 DEF LastSocketHolds, Spare

LEMMA LastSocketKept ==
  ASSUME Sane, LastSocketHolds, open'["server"] \subseteq open["server"] \cup (opening' \ opening),
         open["client"] \cup opening \subseteq open'["client"] \cup opening',
         \A s \in dead' \ dead : Spare(s), Undisturbed' => Undisturbed
  PROVE  LastSocketHolds'
  BY DEF LastSocketHolds, Spare

LEMMA LastSocketStep ==
  ASSUME Sane, Numbers, Voices, Ordered, LastSocketHolds, [Next]_vars
  PROVE  LastSocketHolds'
<1>1. /\ Effect
      /\ open \in [End -> SUBSET (1 .. accepted)]
      /\ "client" \in End /\ "server" \in End /\ "client" # "server"
  BY StepEffect, EndCases DEF Sane, TypeOK
<1>2. Undisturbed' => Undisturbed
  BY <1>1, UndisturbedBefore
<1>3. ASSUME UNCHANGED <<open, opening, dead>>
      PROVE  LastSocketHolds'
  BY <1>2, <1>3, LastSocketKept
<1>4. CASE ReconnectTimerFires \/ HeartbeatRestored \/ DialFails \/ UNCHANGED vars
  BY <1>3, <1>4 DEF ReconnectTimerFires, HeartbeatRestored, DialFails, vars, socketVars
<1>5. CASE PingTimerFires \/ PongArrives \/ Restart
  BY <1>3, <1>5 DEF PingTimerFires, PongArrives, Restart, socketVars
<1>6. CASE SendRequest \/ SendReply \/ \E e \in End : AckTimeout(e)
  BY <1>3, <1>6 DEF SendRequest, SendReply, Send, AckTimeout
<1>7. ASSUME DialRefused \/ ClientCloses \/ Crash
      PROVE  LastSocketHolds'
  <2>1. ~Undisturbed'
    <3>1. CASE DialRefused
      BY <3>1 DEF DialRefused, serverVars, Undisturbed
    <3>2. CASE ClientCloses
      BY <3>2, ClientClosesEffect DEF SaysClose, Undisturbed
    <3>3. CASE Crash
      BY <3>3 DEF Crash, Undisturbed
    <3>. QED  BY <1>7, <3>1, <3>2, <3>3
  <2>2. dead' = dead
    BY <1>7 DEF DialRefused, ClientCloses, Crash
  <2>. QED  BY <2>1, <2>2 DEF LastSocketHolds, Spare
<1>8. ASSUME Accept
      PROVE  LastSocketHolds'
  <2>1. accepted + 1 \notin opening
    <3>1. opening \subseteq 1 .. accepted /\ accepted \in Nat
      BY SaneParts DEF Sane, TypeOK
    <3>2. accepted + 1 \notin 1 .. accepted
      BY <3>1
    <3>. QED  BY <3>1, <3>2
  <2>2. PICK r : open' = [open EXCEPT !["server"] = (@ \ r) \cup {accepted + 1}]
    BY <1>8 DEF Accept
  <2>3. opening' = opening \cup {accepted + 1} /\ dead' = dead
    BY <1>8 DEF Accept
  <2>4. open'["client"] = open["client"]
    BY <1>1, <2>2
  <2>5. open'["server"] \subseteq open["server"] \cup (opening' \ opening)
    BY <1>1, <2>1, <2>2, <2>3
  <2>. QED  BY <1>2, <2>3, <2>4, <2>5, LastSocketKept
<1>9. ASSUME NEW s \in Sockets, Opens(s)
      PROVE  LastSocketHolds'
  BY <1>1, <1>2, <1>9, LastSocketKept DEF Opens
<1>10. ASSUME NEW s \in Sockets, OpenFails(s)
       PROVE  LastSocketHolds'
  <2>1. s # MaxSocket
    BY <1>10, MaxSocketAssumption DEF OpenFails, Spare
  <2>. QED  BY <1>2, <1>10, <2>1 DEF OpenFails, LastSocketHolds, Spare
<1>11. ASSUME NEW s \in Sockets, BreakSocket(s)
       PROVE  LastSocketHolds'
  BY <1>2, <1>11, LastSocketKept DEF BreakSocket
<1>12. ASSUME NEW s \in Sockets, UnusedWebSocketFails(s)
       PROVE  LastSocketHolds'
  BY <1>1, <1>2, <1>12, LastSocketLost DEF UnusedWebSocketFails
<1>13. ASSUME NEW e \in End, NEW s, Gone(s, e) \/ Spare(s), LoseWebSocket(e, s)
       PROVE  LastSocketHolds'
  BY <1>2, <1>13, LastSocketLost DEF LoseWebSocket
<1>14. CASE LosingActions
  BY <1>1, <1>13, <1>14
     DEF LosingActions, WebSocketCloses, PingTimeout, PendingMessageTimeout
<1>15. ASSUME NEW e \in End, Receive(e)
       PROVE  LastSocketHolds'
  <2>1. opening' = opening /\ dead' = dead
    BY <1>15 DEF Receive
  <2>2. PICK f : f = Head(wire[ep[e].socket][e])
    OBVIOUS
  <2>3. /\ IsOpen(ep[e])
        /\ \/ f.type = "CONTENT" /\ ReceiveContent(e, f)
           \/ f.type = "ACK" /\ ReceiveAck(e, f)
    BY <1>15, <2>2 DEF Receive
  <2>4. CASE open' = open
    BY <1>3, <2>1, <2>4
  <2>5. CASE ForgetClient
    BY <1>1, <1>2, <2>1, <2>5, LastSocketKept DEF ForgetClient
  <2>6. CASE ReceiveContent(e, f)
    BY <2>4, <2>5, <2>6 DEF ReceiveContent
  <2>7. CASE ReceiveAck(e, f) /\ IsAmnesia(ep[e], f) /\ e = "server"
    BY <1>1, <1>2, <2>1, <2>7, LastSocketKept DEF ReceiveAck
  <2>8. CASE ReceiveAck(e, f) /\ IsAmnesia(ep[e], f) /\ e = "client"
    <3>1. PICK k : ep' = [ep EXCEPT !["client"] = HandleAck(@, f, k)]
      BY <2>8 DEF ReceiveAck
    <3>2. client' = HandleAck(client, f, k)
      BY <3>1, EndValues, EndCases DEF client
    <3>3. client'.isClosed
      BY <2>3, <2>8, <3>2 DEF HandleAck, Close, IsOpen, client
    <3>. QED  BY <2>1, <3>3 DEF Undisturbed, LastSocketHolds, Spare
  <2>9. CASE ReceiveAck(e, f) /\ ~IsAmnesia(ep[e], f)
    BY <2>4, <2>9 DEF ReceiveAck
  <2>. QED  BY <2>3, <2>6, <2>7, <2>8, <2>9, EndCases
<1>. QED
  BY <1>4, <1>5, <1>6, <1>7, <1>8, <1>9, <1>10, <1>11, <1>12, <1>14, <1>15
     DEF Next, LosingActions

\* Until the server crashes or the client closes, a transport counts no message
\* that the bounds do not allow.
LEMMA CountsBounded ==
  ASSUME Sane', Numbers', Parted', FirstServer', Answering', Undisturbed'
  PROVE  /\ client'.lastSendId <= MaxRequest
         /\ server'.lastSendId <= MaxRequest
         /\ server'.lastProcessedId <= MaxRequest
         /\ client'.lastProcessedId <= MaxRequest
<1>1. client' \in Transport /\ server' \in Transport /\ MaxRequest \in Nat
  <2>1. ep' \in [End -> Transport]
    BY DEF Sane, TypeOK
  <2>. QED  BY <2>1, BoundsAssumption, EndCases DEF client, server
<1>2. /\ client'.lastSendId \in Nat /\ client'.lastProcessedId \in Nat
      /\ server'.lastSendId \in Nat /\ server'.lastProcessedId \in Nat
  BY <1>1 DEF Transport
<1>3. ~late' /\ up' /\ restarts' = 0 /\ ~client'.isClosed
  BY DEF Undisturbed, FirstServer
<1>4. ~Remembers'
  <2>1. PICK b \in 0 .. restarts' :
          \A i \in 1 .. Len(delivered'["client"]) : delivered'["client"][i] = Reply(b)
    BY <1>3 DEF Parted, OneVoice
  <2>2. b = restarts'
    BY <1>3, <2>1
  <2>. QED  BY <2>1, <2>2 DEF Remembers
<1>5. client'.lastProcessedId <= server'.lastSendId
  BY <1>3, <1>4 DEF Parted, Agreeing
<1>6. server'.lastSendId <= server'.lastProcessedId /\ client'.lastSendId <= MaxRequest
  BY <1>3 DEF Answering
<1>7. server'.lastProcessedId <= client'.lastSendId
  BY DEF Numbers
<1>. QED
  BY <1>1, <1>2, <1>5, <1>6, <1>7

LEMMA QueueBounded ==
  ASSUME NEW q \in Transport, QueueNumbered(q)
  PROVE  Len(q.pendingSends) <= q.lastSendId
  BY DEF QueueNumbered

-----------------------------------------------------------------------------
\* What AckChannel sees of a step.
Seen == <<ep, wire, accepted, opening, sent, delivered>>

LEMMA AcceptRefines ==
  ASSUME Sane, Accept
  PROVE  AckChan!Next
<1>1. (IF registered THEN server ELSE NewTransport) = ep["server"]
  BY DEF Sane, Structure, server
<1>2. /\ accepted + 1 \in Sockets
      /\ Spare(accepted + 1) \/ (IsDisconnected(ep["client"]) /\ opening = {})
      /\ ep' = [ep EXCEPT !["server"] = Reconnect(ep["server"], accepted + 1)]
      /\ accepted' = accepted + 1 /\ opening' = opening \cup {accepted + 1}
      /\ wire' = Carried(Put(wire, accepted + 1, "server", ReconnectFrames(ep["server"])),
                         ep', opening')
      /\ UNCHANGED <<sent, delivered>>
  BY <1>1 DEF Accept, client, history
<1>3. AckChan!Accept
  BY <1>2, SameOperators DEF AckChan!Accept
<1>. QED
  BY <1>3 DEF AckChan!Next

LEMMA OpensRefines ==
  ASSUME Sane, NEW s \in Sockets, Opens(s) \/ OpenFails(s)
  PROVE  AckChan!Next
<1>1. CASE Opens(s)
  <2>1. AckChan!ClientOpens(s)
    BY <1>1, SameOperators DEF Opens, AckChan!ClientOpens, client
  <2>. QED  BY <2>1, SameOperators DEF AckChan!Next
<1>2. CASE OpenFails(s)
  <2>1. AckChan!OpenFails(s)
    BY <1>2, SameOperators DEF OpenFails, AckChan!OpenFails, history
  <2>. QED  BY <2>1, SameOperators DEF AckChan!Next
<1>. QED
  BY <1>1, <1>2

LEMMA AckTimeoutRefines ==
  ASSUME Sane, NEW e \in End, AckTimeout(e)
  PROVE  AckChan!Next
<1>1. AckChan!AckTimeout(e)
  BY SameOperators DEF AckTimeout, AckChan!AckTimeout, history
<1>. QED
  BY <1>1, SameOperators DEF AckChan!Next

LEMMA SendRefines ==
  ASSUME Sane, Numbers, Answering, Undisturbed, SendRequest \/ SendReply
  PROVE  AckChan!Next
<1>1. ASSUME NEW e \in End, NEW m \in Msg, Send(e, m), e = "client" \/ accepted > 0,
             ~ep[e].isClosed, ep[e].lastSendId < MaxRequest
      PROVE  AckChan!Next
  <2>1. [d \in End |-> MaxRequest][e] = MaxRequest
    OBVIOUS
  <2>2. AckChan!Send(e, m)
    BY <1>1, <2>1, SameOperators DEF Send, AckChan!Send, AckChan!Constructed
  <2>. QED  BY <1>1, <2>2, SameOperators DEF AckChan!Next
<1>2. CASE SendRequest
  BY <1>1, <1>2, EndCases, MessageTypes, MsgAssumption DEF SendRequest, client
<1>3. CASE SendReply
  <2>1. /\ server \in Transport /\ client \in Transport /\ MaxRequest \in Nat
        /\ accepted \in Nat
    BY SaneParts
  <2>2. /\ server.lastSendId \in Nat /\ server.lastProcessedId \in Nat
        /\ client.lastSendId \in Nat
    BY <2>1 DEF Transport
  <2>3. /\ server.lastSendId < server.lastProcessedId
        /\ server.lastProcessedId <= client.lastSendId
        /\ client.lastSendId <= MaxRequest
        /\ server.lastProcessedId > 0 => accepted > 0
    BY <1>3 DEF SendReply, Numbers, Answering, Undisturbed
  <2>4. server.lastSendId < MaxRequest /\ accepted > 0
    BY <2>1, <2>2, <2>3
  <2>5. Reply(restarts) \in Msg /\ Send("server", Reply(restarts)) /\ ~server.isClosed
    BY <1>3, MessageTypes, MsgAssumption DEF SendReply, Sane, TypeOK
  <2>. QED  BY <1>1, <2>4, <2>5, EndCases DEF server
<1>. QED
  BY <1>2, <1>3

\* An end that loses its socket: only the client is left on a dead last one.
LEMMA LoseRefines ==
  ASSUME Sane, LastSocketHolds, Undisturbed, NEW e \in End, NEW s \in open[e],
         Gone(s, e) \/ Spare(s), LoseWebSocket(e, s)
  PROVE  AckChan!Next \/ UNCHANGED Seen
<1>1. CASE ep[e].socket # s
  <2>1. ep' = ep /\ wire' = Carried(wire, ep, opening)
    BY <1>1 DEF LoseWebSocket
  <2>2. wire' = wire
    BY <2>1, WireSettled
  <2>. QED  BY <2>1, <2>2 DEF LoseWebSocket, Seen, history
<1>2. CASE ep[e].socket = s
  <2>1. s \in Nat /\ s # NoSocket /\ s <= MaxSocket /\ MaxSocket \in Nat
    <3>1. open[e] \subseteq 1 .. accepted /\ accepted \in 0 .. MaxSocket /\ MaxSocket \in Nat
      BY SaneParts
    <3>2. s \in 1 .. accepted
      BY <3>1
    <3>. QED  BY <3>1, <3>2 DEF NoSocket
  <2>2. IsOpen(ep[e])
    BY <1>2, <2>1, SaneParts DEF IsOpen
  <2>3. AckChan!Disconnect(e)
    BY <1>2, <2>2, SameOperators DEF LoseWebSocket, AckChan!Disconnect, history
  <2>4. CASE Spare(s)
    <3>1. AckChan!SocketCloses(e)
      BY <1>2, <2>3, <2>4, SameOperators DEF AckChan!SocketCloses
    <3>. QED  BY <3>1, SameOperators DEF AckChan!Next
  <2>5. CASE ~Spare(s)
    <3>1. s = MaxSocket /\ s \notin dead /\ Gone(s, e)
      BY <2>1, <2>5 DEF Spare, LastSocketHolds
    <3>2. e = "client" /\ s \notin open["server"]
      BY <3>1, EndCases DEF Gone, LastSocketHolds
    <3>3. ep["server"].socket # s
      BY <2>1, <3>2, EndCases DEF Sane, TypeOK
    <3>4. AckChan!ClientNoticesDeadSocket
      BY <1>2, <2>2, <2>3, <3>2, <3>3, SameOperators
         DEF AckChan!ClientNoticesDeadSocket, AckChan!HalfOpen
    <3>. QED  BY <3>4 DEF AckChan!Next
  <2>. QED  BY <2>4, <2>5
<1>. QED
  BY <1>1, <1>2

LEMMA LosingRefines ==
  ASSUME Sane, NeverStranded, LastSocketHolds, Undisturbed, LosingActions
  PROVE  AckChan!Next \/ UNCHANGED Seen
<1>1. CASE \E s \in Sockets, e \in End : WebSocketCloses(e, s)
  BY <1>1, LoseRefines DEF WebSocketCloses
<1>2. CASE PingTimeout
  <2>1. IsOpen(client)
    BY <1>2 DEF PingTimeout, NeverStranded
  <2>2. client.socket \in open["client"]
    BY <2>1, EndCases DEF IsOpen, client, Sane, TypeOK
  <2>. QED  BY <1>2, <2>2, LoseRefines, EndCases DEF PingTimeout
<1>3. ASSUME NEW e \in End, PendingMessageTimeout(e)
      PROVE  AckChan!Next \/ UNCHANGED Seen
  <2>1. ep[e].socket \in open[e]
    BY <1>3, SaneParts DEF PendingMessageTimeout, Sane, TypeOK
  <2>. QED  BY <1>3, <2>1, LoseRefines DEF PendingMessageTimeout
<1>. QED
  BY <1>1, <1>2, <1>3 DEF LosingActions

LEMMA ReceiveRefines ==
  ASSUME Sane, Numbers, Voices, Ordered, Answering, Undisturbed, NEW e \in End, Receive(e),
         server'.lastProcessedId <= MaxRequest, client'.lastProcessedId <= MaxRequest
  PROVE  AckChan!Next
<1>. DEFINE s == ep[e].socket
            f == Head(wire[s][e])
<1>1. /\ IsOpen(ep[e]) /\ Reads(e, f)
      /\ \/ f.type = "CONTENT" /\ ReceiveContent(e, f)
         \/ f.type = "ACK" /\ ReceiveAck(e, f)
  BY DEF Receive, Reads
<1>2. /\ f = wire[s][e][1] /\ 1 \in 1 .. Len(wire[s][e])
      /\ f.type = "CONTENT" => f \in ContentFrame
      /\ f.type = "ACK" => f \in AckFrame
  BY NextFrame DEF Receive
<1>3. /\ ep[e] \in Transport /\ MaxRequest \in Nat /\ 0 .. MaxRequest + 1 \subseteq Nat
      /\ client = ep["client"] /\ server = ep["server"]
      /\ client' = ep'["client"] /\ server' = ep'["server"]
  BY SaneParts DEF client, server
<1>4. /\ wire' = Carried(Took(wire, s, e, 1), ep', opening)
      /\ UNCHANGED <<accepted, opening>>
  BY DEF Receive
<1>5. \A d \in End : [c \in End |-> MaxRequest][d] = MaxRequest
  OBVIOUS
<1>6. Peer(e) \in End
  BY PeerType
<1>7. ASSUME sent' = sent,
             \/ f.type = "CONTENT" /\ AckChan!ReceiveContent(e, f)
             \/ f.type = "ACK" /\ AckChan!ReceiveAck(e, f)
      PROVE  AckChan!Next
  <2>1. AckChan!Receive(e)
    <3>. HIDE DEF f
    <3>. QED  BY <1>1, <1>2, <1>4, <1>7, SameOperators DEF AckChan!Receive
  <2>. QED  BY <2>1, SameOperators DEF AckChan!Next
<1>8. CASE f.type = "CONTENT" /\ ReceiveContent(e, f)
  <2>. HIDE DEF f
  <2>1. PICK n \in 0 .. MaxRequest + 1 :
          /\ ProcessesUpTo(ep[e], f, n)
          /\ \/ /\ \E i \in 1 .. Len(Processed(ep[e], f, n)) :
                     Processed(ep[e], f, n)[i] = CloseMessage
                /\ ForgetClient
             \/ /\ ep' = [ep EXCEPT ![e] = HandleContent(@, f, n)]
                /\ delivered' = [delivered EXCEPT ![e] = @ \o Processed(ep[e], f, n)]
                /\ sent' = sent
    BY <1>8 DEF ReceiveContent
  <2>2. n \in Nat /\ f \in ContentFrame
    BY <1>2, <1>3, <1>8
  <2>3. CASE /\ \E i \in 1 .. Len(Processed(ep[e], f, n)) :
                  Processed(ep[e], f, n)[i] = CloseMessage
             /\ ForgetClient
    <3>1. CASE e = "server"
      <4>1. client.isClosed
        BY <1>1, <1>3, <2>1, <2>2, <2>3, <3>1, ClosesOnlyClosed
      <4>. QED  BY <4>1 DEF Undisturbed
    <3>2. CASE e = "client"
      <4>1. ep'["server"] = NewTransport /\ ep'["client"] = ep["client"]
        BY <2>3, EndValues, EndCases DEF ForgetClient
      <4>2. Forgets("client", f, n)
        BY <1>1, <1>3, <2>1, <2>2, <2>3, <3>2, <4>1 DEF Forgets, ForgetClient
      <4>. QED  BY <2>2, <4>2, ClientNotForgotten
    <3>. QED  BY <3>1, <3>2, EndCases
  <2>4. CASE /\ ep' = [ep EXCEPT ![e] = HandleContent(@, f, n)]
             /\ delivered' = [delivered EXCEPT ![e] = @ \o Processed(ep[e], f, n)]
             /\ sent' = sent
    <3>1. ep'[e] = HandleContent(ep[e], f, n)
      BY <2>4, EndValues
    <3>2. ep'[e].lastProcessedId = n
      BY <1>3, <2>1, <2>2, <3>1, HandleContentFields
    <3>3. n \in 0 .. MaxRequest
      BY <1>3, <2>2, <3>2, EndCases
    <3>4. AckChan!ReceiveContent(e, f)
      BY <1>5, <1>6, <2>1, <2>4, <3>3, SameOperators DEF AckChan!ReceiveContent
    <3>. QED  BY <1>7, <1>8, <2>4, <3>4
  <2>. QED  BY <2>1, <2>3, <2>4
<1>9. CASE f.type = "ACK" /\ ReceiveAck(e, f)
  <2>. HIDE DEF f
  <2>1. PICK k \in 0 .. MaxRequest + 1 :
          /\ AcknowledgesFirst(ep[e], f, k)
          /\ ep' = [ep EXCEPT ![e] = HandleAck(@, f, k)]
    BY <1>9 DEF ReceiveAck
  <2>2. k \in 0 .. Len(ep[e].pendingSends) /\ UNCHANGED <<sent, delivered>>
    BY <1>9, <2>1 DEF AcknowledgesFirst, ReceiveAck
  <2>3. Len(ep[e].pendingSends) \in Nat /\ Len(ep[e].pendingSends) <= ep[e].lastSendId
    BY <1>3, QueueBounded, LenProperties DEF Numbers, Transport
  <2>4. ep[e].lastSendId <= MaxRequest /\ ep[e].lastSendId \in Nat
    <3>1. client \in Transport /\ server \in Transport
      BY SaneParts
    <3>2. /\ server.lastSendId \in Nat /\ server.lastProcessedId \in Nat
          /\ client.lastSendId \in Nat
      BY <3>1 DEF Transport
    <3>3. /\ server.lastSendId <= server.lastProcessedId
          /\ server.lastProcessedId <= client.lastSendId
          /\ client.lastSendId <= MaxRequest
      BY DEF Numbers, Answering, Undisturbed
    <3>4. server.lastSendId <= MaxRequest
      BY <1>3, <3>2, <3>3
    <3>. QED  BY <1>3, <3>2, <3>3, <3>4, EndCases
  <2>5. k \in 0 .. MaxRequest
    BY <1>3, <2>2, <2>3, <2>4
  <2>6. AckChan!ReceiveAck(e, f)
    BY <1>5, <2>1, <2>2, <2>5, SameOperators DEF AckChan!ReceiveAck
  <2>. QED  BY <1>7, <1>9, <2>2, <2>6
<1>. QED
  BY <1>1, <1>8, <1>9

\* What disturbs the session, and what AckChannel does not see.
LEMMA DisturbingSteps ==
  ASSUME Sane, DialRefused \/ ClientCloses \/ Crash \/ Restart
  PROVE  ~Undisturbed'
<1>1. CASE DialRefused
  BY <1>1 DEF DialRefused, serverVars, Undisturbed
<1>2. CASE ClientCloses
  BY <1>2, ClientClosesEffect DEF SaysClose, Undisturbed
<1>3. CASE Crash
  BY <1>3 DEF Crash, Undisturbed
<1>4. CASE Restart
  <2>1. restarts \in Nat
    BY BoundsAssumption DEF Sane, TypeOK
  <2>. QED  BY <1>4, <2>1 DEF Restart, Undisturbed
<1>. QED
  BY <1>1, <1>2, <1>3, <1>4

LEMMA QuietUnseen ==
  ASSUME QuietActions \/ UNCHANGED vars
  PROVE  UNCHANGED Seen
  BY DEF QuietActions, ReconnectTimerFires, HeartbeatRestored, DialFails, BreakSocket,
         UnusedWebSocketFails, PingTimerFires, PongArrives, vars, socketVars, history, Seen

LEMMA StepRefines ==
  ASSUME SessionInv, SessionInv', NeverStranded, Joined, Joined', [Next]_vars, Undisturbed'
  PROVE  AckChan!Next \/ UNCHANGED Seen
<1>1. /\ Sane /\ Numbers /\ Voices /\ Ordered
      /\ LastSocketHolds /\ Answering
  BY DEF SessionInv, Joined
<1>2. Undisturbed
  BY <1>1, StepEffect, UndisturbedBefore
<1>3. server'.lastProcessedId <= MaxRequest /\ client'.lastProcessedId <= MaxRequest
  BY CountsBounded DEF SessionInv, Joined
<1>4. CASE QuietActions \/ UNCHANGED vars
  BY <1>4, QuietUnseen
<1>5. CASE Accept \/ \E s \in Sockets : Opens(s) \/ OpenFails(s)
  BY <1>1, <1>5, AcceptRefines, OpensRefines
<1>6. CASE LosingActions
  BY <1>1, <1>2, <1>6, LosingRefines
<1>7. CASE SendRequest \/ SendReply
  BY <1>1, <1>2, <1>7, SendRefines
<1>8. CASE \E e \in End : AckTimeout(e) \/ Receive(e)
  BY <1>1, <1>2, <1>3, <1>8, AckTimeoutRefines, ReceiveRefines
<1>9. ~(DialRefused \/ ClientCloses \/ Crash \/ Restart)
  BY <1>1, DisturbingSteps
<1>. QED
  BY <1>4, <1>5, <1>6, <1>7, <1>8, <1>9 DEF Next, QuietActions, LosingActions

LEMMA JoinedStep ==
  ASSUME SessionInv, Joined, [Next]_vars
  PROVE  Joined'
<1>1. Sane /\ Numbers /\ Voices /\ Ordered
  BY DEF SessionInv
<1>2. Effect
  BY <1>1, StepEffect
<1>3. LastSocketHolds' /\ FirstServer' /\ Answering'
  BY <1>1, <1>2, LastSocketStep, FirstServerStep, AnsweringStep DEF Joined
<1>. QED
  BY <1>3 DEF Joined

\* Until the server crashes or the client is closed, every step of a session is
\* a step of two transports joined by successive sockets, as AckChannel takes
\* them, or leaves them alone: the pings, timers and several dials in flight of
\* ReliableSocket, and the table and replaced sockets of BigDigServer, do
\* nothing to the transports that AckChannel does not foresee.
THEOREM ImplementsChannelUntilDisturbed == Spec => ImplementsAckChannel
<1>1. Init => AckChan!Init
  BY SameOperators DEF Init, AckChan!Init
<1>2. Spec => []Joined
  <2>1. SessionInv /\ Joined /\ [Next]_vars => Joined'
    BY JoinedStep
  <2>. QED  BY <2>1, InitJoined, SessionInvariant, PTL DEF Spec
<1>3. /\ SessionInv /\ SessionInv' /\ NeverStranded /\ Joined /\ Joined' /\ [Next]_vars
      => [Undisturbed' => AckChan!Next]_(AckChan!vars)
  <2>. SUFFICES ASSUME SessionInv, SessionInv', NeverStranded, Joined, Joined',
                       [Next]_vars, Undisturbed'
                PROVE  AckChan!Next \/ UNCHANGED AckChan!vars
    OBVIOUS
  <2>1. AckChan!Next \/ UNCHANGED Seen
    BY StepRefines
  <2>2. UNCHANGED Seen => UNCHANGED AckChan!vars
    BY DEF Seen, AckChan!vars
  <2>. QED  BY <2>1, <2>2
<1>. QED
  BY <1>1, <1>2, <1>3, SessionInvariant, NotStranded, PTL DEF Spec, ImplementsAckChannel

=============================================================================
