------------------------------- MODULE Tunnels -------------------------------
(***************************************************************************)
(* The tunnels of big-dig: a TunnelManager in the client, where tunnels    *)
(* are created and closed, and one on the server.  A tunnel has a Proxy,   *)
(* which listens on a port, at one end and a SocketManager, which connects *)
(* to a port, at the other; a reverse tunnel has its Proxy on the server.  *)
(* The two managers talk over a reliable channel (ReliableChannel).        *)
(*                                                                         *)
(* A tunnel is named after the call that created it.  The connections that *)
(* run through a tunnel are left out.                                      *)
(***************************************************************************)
EXTENDS Integers, Sequences, FiniteSets

CONSTANTS
  Call,      \* the calls of createTunnel and createReverseTunnel
  Requests,  \* what each call may ask for
  Taken      \* the ports another program may be listening on

ASSUME CallAssumption == IsFiniteSet(Call)
ASSUME RequestsAssumption ==
  \A r \in Requests :
    \A k \in Call : DOMAIN r[k] = {"local", "remote", "reverse"} /\ r[k].reverse \in BOOLEAN

VARIABLES
  request,     \* request[k]: what call k asks for, which never changes
  taken,       \* the ports another program listens on, which never change
  stage,       \* stage[k]: how far call k is
  tunnelOf,    \* tunnelOf[k]: the tunnel call k was given
  inClient,    \* inClient[t]: the entry of tunnel t in the client's _idToTunnel
  refCount,    \* refCount[t]: _refCount of tunnel t
  inServer,    \* inServer[t]: the entry of tunnel t in the server's _idToTunnel
  proxy,       \* proxy[t]: the listening socket of the Proxy of tunnel t
  isClosed,    \* whether BigDigClient.close() was called
  toServer,    \* the messages on their way to the server
  toClient     \* the messages on their way to the client

callVars == <<request, taken, stage, tunnelOf>>
vars == <<callVars, inClient, refCount, inServer, proxy, isClosed, toServer, toClient>>

\* "listening" awaits Proxy.createProxy and "creating" the microtask after
\* Tunnel.createReverseTunnel; "asking" waits for a proxyMessage.  A call that
\* is "lost" never settles.
Stage == {"idle", "listening", "creating", "asking", "open", "closed", "failed", "lost"}

\* A proxy that was asked to listen is bound or refused at once, and says so
\* later.
ProxyState == {"none", "bound", "refused", "open", "closed"}

Event == {"createProxy", "closeProxy", "proxyCreated", "proxyError", "proxyClosed"}

Init ==
  /\ request \in Requests
  /\ taken \in SUBSET Taken
  /\ stage = [k \in Call |-> "idle"]
  /\ tunnelOf = [k \in Call |-> k]
  /\ inClient = [t \in Call |-> "none"]
  /\ refCount = [t \in Call |-> 0]
  /\ inServer = [t \in Call |-> "none"]
  /\ proxy = [t \in Call |-> "none"]
  /\ isClosed = FALSE
  /\ toServer = <<>> /\ toClient = <<>>

IsReverse(t) == request[t].reverse

\* Where the proxy of tunnel t listens.
Port(t) == IF IsReverse(t) THEN <<"server", request[t].remote>>
                           ELSE <<"client", request[t].local>>

IsBound(port) ==
  port \in taken \/ \E t \in Call : Port(t) = port /\ proxy[t] \in {"bound", "open"}

\* Proxy.startListening, to its await.
StartListening(t) ==
  proxy' = [proxy EXCEPT ![t] = IF IsBound(Port(t)) THEN "refused" ELSE "bound"]

Message(event, t) == [event |-> event, tunnel |-> t]

\* The transport of a closed client drops what it is given.
ToServer(event, t) ==
  toServer' = IF isClosed THEN toServer ELSE Append(toServer, Message(event, t))

ToClient(event, t) ==
  toClient' = IF isClosed THEN toClient ELSE Append(toClient, Message(event, t))

-----------------------------------------------------------------------------
(* TunnelManager at the client, Tunnel and ReverseTunnel *)

\* The tunnels of the client; whatever else its map holds is skipped.
Tunnel == {t \in Call : inClient[t] = "tunnel"}

SameConfig(j, k) ==
  request[j].local = request[k].local /\ request[j].remote = request[k].remote

Overlaps(j, k) ==
  request[j].local = request[k].local \/ request[j].remote = request[k].remote

\* _createTunnel when _checkForExistingTunnel finds none.
CreateNew(k) ==
  IF IsReverse(k)
    THEN /\ stage' = [stage EXCEPT ![k] = "creating"]
         /\ ToServer("createProxy", k)
         /\ UNCHANGED proxy
    ELSE /\ stage' = [stage EXCEPT ![k] = "listening"]
         /\ StartListening(k)
         /\ UNCHANGED toServer

\* Mutant of ShareTunnel: the new user is not counted.
ShareTunnelUncounted(t) == refCount' = refCount

\* _createTunnel with a tunnel of the same configuration.
ShareTunnel(t) == refCount' = [refCount EXCEPT ![t] = @ + 1]

\* createTunnel and createReverseTunnel.  What the promise callback of
\* createReverseTunnel throws rejects nothing.
Create(k) ==
  /\ stage[k] = "idle" /\ ~isClosed
  /\ \/ /\ \A t \in Tunnel : ~Overlaps(t, k)
        /\ CreateNew(k)
        /\ UNCHANGED <<tunnelOf, refCount>>
     \/ \E t \in Tunnel :
          /\ SameConfig(t, k)
          /\ IsReverse(t) = IsReverse(k)
          /\ ShareTunnel(t)
          /\ tunnelOf' = [tunnelOf EXCEPT ![k] = t]
          /\ stage' = [stage EXCEPT ![k] = IF IsReverse(k) THEN "asking" ELSE "open"]
          /\ UNCHANGED <<proxy, toServer>>
     \/ /\ \E t \in Tunnel :
             Overlaps(t, k) /\ ~(SameConfig(t, k) /\ IsReverse(t) = IsReverse(k))
        /\ stage' = [stage EXCEPT ![k] = IF IsReverse(k) THEN "lost" ELSE "failed"]
        /\ UNCHANGED <<tunnelOf, refCount, proxy, toServer>>
  /\ UNCHANGED <<request, taken, inClient, inServer, isClosed, toClient>>

\* What _createTunnel does when its await is over.
Register(t) ==
  /\ inClient' = [inClient EXCEPT ![t] = "tunnel"]
  /\ refCount' = [refCount EXCEPT ![t] = 1]

RegisterReverse(k) ==
  /\ stage[k] = "creating"
  /\ Register(k)
  /\ stage' = [stage EXCEPT ![k] = "asking"]
  /\ UNCHANGED <<request, taken, tunnelOf, inServer, proxy, isClosed, toServer, toClient>>

\* Microtasks run before the next event.
NoMicrotask == \A k \in Call : stage[k] # "creating"

\* startListening at the client goes on, and createTunnel with it.
Listens(k) ==
  /\ stage[k] = "listening" /\ NoMicrotask
  /\ \/ /\ proxy[k] = "bound"
        /\ proxy' = [proxy EXCEPT ![k] = "open"]
        /\ stage' = [stage EXCEPT ![k] = "open"]
        /\ Register(k)
        /\ ToServer("proxyCreated", k)
     \/ /\ proxy[k] = "refused"
        /\ stage' = [stage EXCEPT ![k] = "failed"]
        /\ ToServer("proxyError", k)
        /\ UNCHANGED <<proxy, inClient, refCount>>
  /\ UNCHANGED <<request, taken, tunnelOf, inServer, isClosed, toClient>>

\* close() of tunnel t for n of its users.
Drop(t, n) ==
  /\ refCount' = [refCount EXCEPT ![t] = @ - n]
  /\ IF refCount[t] - n > 0
       THEN UNCHANGED <<inClient, proxy, toServer>>
       ELSE /\ inClient' = [inClient EXCEPT ![t] = "none"]
            /\ IF IsReverse(t)
                 THEN UNCHANGED proxy /\ ToServer("closeProxy", t)
                 ELSE proxy' = [proxy EXCEPT ![t] = "closed"] /\ ToServer("proxyClosed", t)

\* A caller closes its tunnel.
CloseTunnel(k) ==
  /\ stage[k] = "open"
  /\ stage' = [stage EXCEPT ![k] = "closed"]
  /\ Drop(tunnelOf[k], 1)
  /\ UNCHANGED <<request, taken, tunnelOf, inServer, isClosed, toClient>>

Asking(t) == {k \in Call : stage[k] = "asking" /\ tunnelOf[k] = t}

\* _handleMessage at the client.
ClientHandles ==
  /\ toClient # <<>> /\ NoMicrotask
  /\ LET m == Head(toClient) IN
       \/ /\ m.event = "proxyCreated"
          /\ inClient' = [inClient EXCEPT ![m.tunnel] =
               IF @ = "none" THEN "socketManager" ELSE @]
          /\ stage' = [k \in Call |-> IF k \in Asking(m.tunnel) THEN "open" ELSE stage[k]]
          /\ UNCHANGED <<refCount, proxy, toServer>>
       \/ /\ m.event = "proxyError"
          /\ stage' = [k \in Call |-> IF k \in Asking(m.tunnel) THEN "failed" ELSE stage[k]]
          /\ Drop(m.tunnel, Cardinality(Asking(m.tunnel)))
       \/ /\ m.event = "proxyClosed"
          /\ IF inClient[m.tunnel] = "tunnel"
               THEN Drop(m.tunnel, 1)
               ELSE UNCHANGED <<refCount, inClient, proxy, toServer>>
          /\ UNCHANGED stage
  /\ toClient' = Tail(toClient)
  /\ UNCHANGED <<request, taken, tunnelOf, inServer, isClosed>>

\* BigDigClient.close: every tunnel is closed, and the transport, whose last
\* messages may not arrive.
Close ==
  /\ ~isClosed
  /\ isClosed' = TRUE
  /\ inClient' = [t \in Call |-> "none"]
  /\ refCount' = [t \in Call |-> IF t \in Tunnel THEN -1 ELSE refCount[t]]
  /\ proxy' = [t \in Call |->
       IF t \in Tunnel /\ ~IsReverse(t) THEN "closed" ELSE proxy[t]]
  /\ \E n \in 0 .. Len(toServer) : toServer' = SubSeq(toServer, 1, n)
  /\ toClient' = <<>>
  /\ UNCHANGED <<callVars, inServer>>

-----------------------------------------------------------------------------
(* TunnelManager on the server, which is never closed *)

\* Mutant of ServerCloses: the SocketManager stays.
ServerClosesProxy(m) ==
  /\ IF inServer[m.tunnel] = "proxy"
       THEN proxy' = [proxy EXCEPT ![m.tunnel] = "closed"] /\ ToClient("proxyClosed", m.tunnel)
       ELSE UNCHANGED <<proxy, toClient>>
  /\ UNCHANGED inServer

\* closeProxy and proxyClosed: only the latter removes the entry.
ServerCloses(m) ==
  /\ IF inServer[m.tunnel] = "proxy"
       THEN proxy' = [proxy EXCEPT ![m.tunnel] = "closed"] /\ ToClient("proxyClosed", m.tunnel)
       ELSE UNCHANGED <<proxy, toClient>>
  /\ inServer' = IF m.event = "proxyClosed" THEN [inServer EXCEPT ![m.tunnel] = "none"]
                                            ELSE inServer

\* _handleMessage, to its await on Proxy.createProxy.
ServerHandles ==
  /\ toServer # <<>> /\ NoMicrotask
  /\ LET m == Head(toServer) IN
       \/ /\ m.event = "createProxy"
          /\ StartListening(m.tunnel)
          /\ UNCHANGED <<inServer, toClient>>
       \/ /\ m.event \in {"closeProxy", "proxyClosed"}
          /\ ServerCloses(m)
       \/ /\ m.event = "proxyCreated"
          /\ inServer' = [inServer EXCEPT ![m.tunnel] =
               IF @ = "none" THEN "socketManager" ELSE @]
          /\ UNCHANGED <<proxy, toClient>>
       \/ /\ m.event = "proxyError"
          /\ UNCHANGED <<inServer, proxy, toClient>>
  /\ toServer' = Tail(toServer)
  /\ UNCHANGED <<callVars, inClient, refCount, isClosed>>

\* Mutant of ServerListens: the failure is only logged.
ServerListensQuietly(t) ==
  /\ IsReverse(t) /\ proxy[t] = "bound"
  /\ proxy' = [proxy EXCEPT ![t] = "open"]
  /\ inServer' = [inServer EXCEPT ![t] = "proxy"]
  /\ ToClient("proxyCreated", t)
  /\ UNCHANGED <<callVars, inClient, refCount, isClosed, toServer>>

\* startListening on the server goes on, and _handleMessage with it.
ServerListens(t) ==
  /\ IsReverse(t)
  /\ \/ /\ proxy[t] = "bound"
        /\ proxy' = [proxy EXCEPT ![t] = "open"]
        /\ inServer' = [inServer EXCEPT ![t] = "proxy"]
        /\ ToClient("proxyCreated", t)
     \/ /\ proxy[t] = "refused"
        /\ proxy' = [proxy EXCEPT ![t] = "closed"]
        /\ ToClient("proxyError", t)
        /\ UNCHANGED inServer
  /\ UNCHANGED <<callVars, inClient, refCount, isClosed, toServer>>

-----------------------------------------------------------------------------
Next ==
  \/ \E k \in Call : \/ Create(k)
                     \/ RegisterReverse(k)
                     \/ Listens(k)
                     \/ CloseTunnel(k)
                     \/ ServerListens(k)
  \/ ClientHandles
  \/ ServerHandles
  \/ Close

Spec == Init /\ [][Next]_vars

\* Messages arrive, and a proxy that was told to listen does or fails.
Fairness ==
  /\ WF_vars(ClientHandles)
  /\ WF_vars(ServerHandles)
  /\ \A k \in Call : /\ WF_vars(RegisterReverse(k))
                     /\ WF_vars(Listens(k))
                     /\ WF_vars(ServerListens(k))

FairSpec == Spec /\ Fairness

-----------------------------------------------------------------------------
(* Properties *)

\* The types of the variables.
TypeOK ==
  /\ stage \in [Call -> Stage]
  /\ tunnelOf \in [Call -> Call]
  /\ inClient \in [Call -> {"none", "tunnel", "socketManager"}]
  /\ refCount \in [Call -> -1 - Cardinality(Call) .. Cardinality(Call)]
  /\ inServer \in [Call -> {"none", "socketManager", "proxy"}]
  /\ proxy \in [Call -> ProxyState]
  /\ isClosed \in BOOLEAN
  /\ toServer \in Seq([event : Event, tunnel : Call])
  /\ toClient \in Seq([event : Event, tunnel : Call])

Users(t) == {k \in Call : tunnelOf[k] = t /\ stage[k] \in {"asking", "open"}}

\* The count of a tunnel is the number of the callers who have it or wait for
\* it, whatever calls overlapped or failed, and "until all references are
\* removed" it is not closed.
CountsExact ==
  ~isClosed =>
    \A t \in Call :
      /\ t \in Tunnel => refCount[t] = Cardinality(Users(t))
      /\ t \notin Tunnel => Users(t) = {}

\* When nothing is in flight the two ends agree: a tunnel of the client has its
\* proxy listening and its SocketManager; a tunnel that is gone, or that was not
\* to be because an overlapping call was faster, has neither, at either end.
AtRest ==
  /\ toServer = <<>> /\ toClient = <<>>
  /\ \A k \in Call : stage[k] \notin {"listening", "creating"}
                     /\ (IsReverse(k) => proxy[k] \notin {"bound", "refused"})

PairedAtRest ==
  AtRest /\ ~isClosed =>
    \A t \in Call :
      /\ t \in Tunnel <=> proxy[t] = "open"
      /\ t \in Tunnel /\ ~IsReverse(t) <=> inServer[t] = "socketManager"
      /\ inClient[t] # "socketManager"

\* A call settles that creates its tunnel, unless the client is closed; one that
\* joins a reverse tunnel, or meets an overlapping tunnel, may not.
Settles ==
  \A k \in Call :
    stage[k] \in {"listening", "creating", "asking"} /\ tunnelOf[k] = k
      ~> stage[k] \in {"open", "closed", "failed"} \/ isClosed

=============================================================================
