--------------------------- MODULE ThriftServices ---------------------------
(***************************************************************************)
(* The Thrift services of big-dig.  ThriftClientManager gives out clients  *)
(* of remote Thrift services: the first client of a service asks the       *)
(* server to start it and opens a tunnel to it, later ones share both, and *)
(* the last one to go closes the tunnel and asks the server to stop it.    *)
(* ThriftServerManager starts and stops the processes, with counts of its  *)
(* own.  The two talk over a reliable channel (ReliableChannel): a queue   *)
(* in each direction.                                                      *)
(*                                                                         *)
(* A function that awaits is cut into one action per stretch of code       *)
(* between awaits; what follows an await that is resolved already runs     *)
(* before the next event and belongs to the same action.  The answer to    *)
(* stop-server changes nothing and is left out, with its timer.            *)
(***************************************************************************)
EXTENDS Integers, Sequences, FiniteSets, SequencesExt

CONSTANTS
  Service,     \* the service configurations, told apart by genConfigId
  Call,        \* the calls of createThriftClient
  MaxPending,  \* MaxPending[s]: bound on the pending calls for service s
  Faults       \* Faults[s]: what may go wrong with service s

ASSUME CallAssumption == IsFiniteSet(Call)
ASSUME MaxPendingAssumption == MaxPending \in [Service -> Nat \ {0}]
ASSUME FaultsAssumption ==
  Faults \in [Service -> SUBSET {"timeout", "tunnel", "exit"}]

VARIABLES
  call,      \* call[k]: how far call k is, and the client it returned
  tunnelTo,  \* _tunnelByServiceConfigId
  tunnels,   \* the open tunnels, each named after the call that created it
  isClosed,  \* whether BigDigClient.close() was called
  toServer,  \* requests on their way to the server
  toClient,  \* answers to start-server on their way to the client
  servers,   \* _configIdToServer
  creating,  \* creating[s]: start requests that await createThriftServer
  holders,   \* holders[s]: the servers subscribed to the process of s
  ready      \* ready[s]: whether that process accepts connections

clientVars == <<call, tunnelTo, tunnels, isClosed>>
serverVars == <<servers, creating, holders, ready>>
vars == <<clientVars, toServer, toClient, serverVars>>

\* The entry of a map that has none.
None == [refCount |-> 0]

\* "starting" awaits the answer to start-server, "tunnelling" the tunnel;
\* "closing" is a client whose close() was called and whose connection has
\* not closed yet.
Stage ==
  {"idle", "starting", "tunnelling", "connected", "closing", "gone", "failed"}

Pending(k) == call[k].stage \in {"starting", "tunnelling"}

\* The client call k returned counts as a user of the tunnel.
Live(k) == call[k].stage \in {"connected", "closing"}

CallsOf(s) == {k \in Call : call[k].stage # "idle" /\ call[k].service = s}

Init ==
  /\ \E asked \in [Call -> Service] :
       call = [k \in Call |-> [stage |-> "idle", service |-> asked[k], tunnel |-> k]]
  /\ tunnelTo = [s \in Service |-> None]
  /\ tunnels = {}
  /\ isClosed = FALSE
  /\ toServer = <<>>
  /\ toClient = <<>>
  /\ servers = [s \in Service |-> None]
  /\ creating = [s \in Service |-> <<>>]
  /\ holders = [s \in Service |-> {}]
  /\ ready = [s \in Service |-> FALSE]

Request(command, k) == [command |-> command, call |-> k, service |-> call[k].service]

Answer(k, success) == [call |-> k, success |-> success]

SetStage(k, stage) == call' = [call EXCEPT ![k].stage = stage]

\* Messages to the transport of a closed BigDigClient are dropped.
Post(messages) == toServer' = IF isClosed THEN toServer ELSE toServer \o messages

-----------------------------------------------------------------------------
(* ThriftClientManager *)

\* Mutant of UseTunnel: the new client is not counted.
UseTunnelUncounted(s) == tunnelTo' = tunnelTo

\* _getOrCreateTunnel, with an entry in the map.
UseTunnel(s) == tunnelTo' = [tunnelTo EXCEPT ![s].refCount = @ + 1]

\* createThriftClient, to its first await on a message.
CreateThriftClient(k) ==
  LET s == call[k].service IN
  /\ call[k].stage = "idle"
  /\ ~isClosed
  /\ Cardinality({j \in CallsOf(s) : Pending(j)}) < MaxPending[s]
  /\ \/ /\ tunnelTo[s] # None
        /\ UseTunnel(s)
        /\ call' = [call EXCEPT ![k].stage = "connected",
                                ![k].tunnel = tunnelTo[s].tunnel]
        /\ UNCHANGED toServer
     \/ /\ tunnelTo[s] = None
        /\ SetStage(k, "starting")
        /\ Post(<<Request("start", k)>>)
        /\ UNCHANGED tunnelTo
  /\ UNCHANGED <<tunnels, isClosed, toClient, serverVars>>

\* onResponse: an answer nobody listens for any more is ignored, because the
\* call timed out or close() removed all listeners.
OnResponse ==
  /\ toClient # <<>>
  /\ LET answer == Head(toClient) IN
       IF call[answer.call].stage = "starting" /\ ~isClosed
         THEN SetStage(answer.call, IF answer.success THEN "tunnelling" ELSE "failed")
         ELSE UNCHANGED call
  /\ toClient' = Tail(toClient)
  /\ UNCHANGED <<tunnelTo, tunnels, isClosed, toServer, serverVars>>

\* Mutant of MayTimeOut: close() clears the timers with the listeners.
MayTimeOutWhileOpen(k) ==
  /\ call[k].stage = "starting"
  /\ "timeout" \in Faults[call[k].service]
  /\ ~isClosed

\* The timer of a command; a call that is no longer answered relies on it.
MayTimeOut(k) ==
  /\ call[k].stage = "starting"
  /\ "timeout" \in Faults[call[k].service] \/ isClosed

TimesOut(k) ==
  /\ MayTimeOut(k)
  /\ SetStage(k, "failed")
  /\ UNCHANGED <<tunnelTo, tunnels, isClosed, toServer, toClient, serverVars>>

\* _getOrCreateTunnel after createTunnel, and createThriftClient to its end.
TunnelOpens(k) ==
  /\ call[k].stage = "tunnelling"
  /\ SetStage(k, "connected")
  /\ tunnels' = tunnels \cup {k}
  /\ tunnelTo' = [tunnelTo EXCEPT ![call[k].service] = [refCount |-> 1, tunnel |-> k]]
  /\ UNCHANGED <<isClosed, toServer, toClient, serverVars>>

\* getAvailableServerPort or createTunnel throws; a closed TunnelManager does.
TunnelFails(k) ==
  /\ call[k].stage = "tunnelling"
  /\ "tunnel" \in Faults[call[k].service] \/ isClosed
  /\ SetStage(k, "failed")
  /\ UNCHANGED <<tunnelTo, tunnels, isClosed, toServer, toClient, serverVars>>

\* WrappedThriftClient.close
CloseClient(k) ==
  /\ call[k].stage = "connected"
  /\ SetStage(k, "closing")
  /\ UNCHANGED <<tunnelTo, tunnels, isClosed, toServer, toClient, serverVars>>

\* Mutant of CloseTunnel: the server is not told.
CloseTunnelOnly(k, s) ==
  \/ /\ tunnelTo[s] = None
     /\ UNCHANGED <<tunnelTo, tunnels, toServer>>
  \/ /\ tunnelTo[s].refCount = 1
     /\ tunnelTo' = [tunnelTo EXCEPT ![s] = None]
     /\ tunnels' = tunnels \ {tunnelTo[s].tunnel}
     /\ UNCHANGED toServer
  \/ /\ tunnelTo[s].refCount > 1
     /\ tunnelTo' = [tunnelTo EXCEPT ![s].refCount = @ - 1]
     /\ UNCHANGED <<tunnels, toServer>>

\* _closeTunnel, for the client of call k: it closes the tunnel it finds in
\* the map, and throws when it finds none.
CloseTunnel(k, s) ==
  \/ /\ tunnelTo[s] = None
     /\ UNCHANGED <<tunnelTo, tunnels, toServer>>
  \/ /\ tunnelTo[s].refCount = 1
     /\ tunnelTo' = [tunnelTo EXCEPT ![s] = None]
     /\ tunnels' = tunnels \ {tunnelTo[s].tunnel}
     /\ Post(<<Request("stop", k)>>)
  \/ /\ tunnelTo[s].refCount > 1
     /\ tunnelTo' = [tunnelTo EXCEPT ![s].refCount = @ - 1]
     /\ UNCHANGED <<tunnels, toServer>>

\* The `close` event of the connection of a client, which close() asked for
\* or which comes unexpectedly: clientDispose.
ConnectionCloses(k) ==
  /\ Live(k)
  /\ SetStage(k, "gone")
  /\ CloseTunnel(k, call[k].service)
  /\ UNCHANGED <<isClosed, toClient, serverVars>>

\* BigDigClient.close: all tunnels, all clients, all listeners, and the
\* transport, whose last messages may not arrive.
Close ==
  /\ ~isClosed
  /\ isClosed' = TRUE
  /\ tunnels' = {}
  /\ call' = [k \in Call |->
       IF call[k].stage = "connected" THEN [call[k] EXCEPT !.stage = "closing"]
                                      ELSE call[k]]
  /\ \E n \in 0 .. Len(toServer) : toServer' = SubSeq(toServer, 1, n)
  /\ UNCHANGED <<tunnelTo, toClient, serverVars>>

-----------------------------------------------------------------------------
(* ThriftServerManager, createThriftServer and startThriftServer *)

Running(s) == ready[s] /\ holders[s] # {}

\* The map refers to the server object of call k.
Install(k, s) == [servers EXCEPT ![s] = [refCount |-> 1, server |-> k]]

\* _startServer, to its await on createThriftServer if the map has no entry.
\* A process that is starting or running already is in the cache of
\* startThriftServer, and the new server object subscribes to it.
StartServer(k, s) ==
  /\ \/ /\ servers[s] # None
        /\ servers' = [servers EXCEPT ![s].refCount = @ + 1]
        /\ toClient' = Append(toClient, Answer(k, TRUE))
        /\ UNCHANGED <<creating, holders>>
     \/ /\ servers[s] = None
        /\ creating' = [creating EXCEPT ![s] = Append(@, k)]
        /\ holders' = [holders EXCEPT ![s] = @ \cup {k}]
        /\ UNCHANGED <<servers, toClient>>
  /\ UNCHANGED ready

\* Mutant of StopServer: the count is not looked at.
StopServerAtOnce(k, s) ==
  /\ IF servers[s] = None
       THEN UNCHANGED <<servers, holders, ready>>
       ELSE /\ holders' = [holders EXCEPT ![s] = @ \ {servers[s].server}]
            /\ servers' = [servers EXCEPT ![s] = None]
            /\ ready' = [ready EXCEPT ![s] = @ /\ holders'[s] # {}]
  /\ UNCHANGED <<toClient, creating>>

\* _stopServer.  The process ends with its last subscriber.
StopServer(k, s) ==
  /\ \/ /\ servers[s] = None
        /\ UNCHANGED <<servers, holders, ready>>
     \/ /\ servers[s].refCount > 1
        /\ servers' = [servers EXCEPT ![s].refCount = @ - 1]
        /\ UNCHANGED <<holders, ready>>
     \/ /\ servers[s].refCount = 1
        /\ holders' = [holders EXCEPT ![s] = @ \ {servers[s].server}]
        /\ servers' = [servers EXCEPT ![s] = None]
        /\ ready' = [ready EXCEPT ![s] = @ /\ holders'[s] # {}]
  /\ UNCHANGED <<toClient, creating>>

\* _handleMessage
HandleMessage ==
  /\ toServer # <<>>
  /\ LET m == Head(toServer) IN
       \/ m.command = "start" /\ StartServer(m.call, m.service)
       \/ m.command = "stop" /\ StopServer(m.call, m.service)
  /\ toServer' = Tail(toServer)
  /\ UNCHANGED clientVars

\* The process accepts connections, or did already (its connection options
\* are replayed): every start that awaited it goes on, and each puts its own
\* server in the map.  Messages that arrive together are all handled before.
ServerReady(s) ==
  /\ creating[s] # <<>>
  /\ ready' = [ready EXCEPT ![s] = TRUE]
  /\ servers' = Install(Last(creating[s]), s)
  /\ toClient' = toClient \o [i \in 1 .. Len(creating[s]) |-> Answer(creating[s][i], TRUE)]
  /\ creating' = [creating EXCEPT ![s] = <<>>]
  /\ UNCHANGED <<clientVars, toServer, holders>>

\* The process cannot be started, or ends before it accepts connections.
ServerFails(s) ==
  /\ creating[s] # <<>>
  /\ ~ready[s]
  /\ toClient' = toClient \o [i \in 1 .. Len(creating[s]) |-> Answer(creating[s][i], FALSE)]
  /\ creating' = [creating EXCEPT ![s] = <<>>]
  /\ holders' = [holders EXCEPT ![s] = {}]
  /\ UNCHANGED <<clientVars, toServer, servers, ready>>

\* The process ends by itself; the map is not told.
ServerExits(s) ==
  /\ "exit" \in Faults[s]
  /\ Running(s) /\ creating[s] = <<>>
  /\ ready' = [ready EXCEPT ![s] = FALSE]
  /\ holders' = [holders EXCEPT ![s] = {}]
  /\ UNCHANGED <<clientVars, toServer, toClient, servers, creating>>

-----------------------------------------------------------------------------
Next ==
  \/ \E k \in Call : \/ CreateThriftClient(k)
                     \/ TimesOut(k)
                     \/ TunnelOpens(k)
                     \/ TunnelFails(k)
                     \/ CloseClient(k)
                     \/ ConnectionCloses(k)
  \/ OnResponse
  \/ Close
  \/ HandleMessage
  \/ \E s \in Service : ServerReady(s) \/ ServerFails(s) \/ ServerExits(s)

Spec == Init /\ [][Next]_vars

(***************************************************************************)
(* Fairness.  Messages arrive, timers fire, a process that is started      *)
(* comes up or fails (startThriftServer gives up after ten attempts), a    *)
(* tunnel is created or not, and a connection that was closed, at this end *)
(* or with its tunnel, reports it.  Nothing makes an application ask for a *)
(* client or close one.                                                    *)
(***************************************************************************)
ClosedConnectionReports(k) ==
  /\ call[k].stage = "closing" \/ call[k].tunnel \notin tunnels
  /\ ConnectionCloses(k)

Fairness ==
  /\ WF_vars(OnResponse)
  /\ WF_vars(HandleMessage)
  /\ \A k \in Call : /\ WF_vars(TimesOut(k))
                     /\ WF_vars(TunnelOpens(k) \/ TunnelFails(k))
                     /\ WF_vars(ClosedConnectionReports(k))
  /\ \A s \in Service : WF_vars(ServerReady(s) \/ ServerFails(s))

FairSpec == Spec /\ Fairness

-----------------------------------------------------------------------------
(* Properties *)

\* The types of the variables.
TypeOK ==
  /\ call \in [Call -> [stage : Stage, service : Service, tunnel : Call]]
  /\ \A s \in Service :
       /\ \/ tunnelTo[s] = None
          \/ tunnelTo[s] \in [refCount : Nat \ {0}, tunnel : Call]
       /\ \/ servers[s] = None
          \/ servers[s] \in [refCount : Nat \ {0}, server : Call]
       /\ creating[s] \in Seq(Call)
       /\ holders[s] \subseteq Call
       /\ ready[s] \in BOOLEAN
  /\ tunnels \subseteq Call
  /\ isClosed \in BOOLEAN
  /\ toServer \in Seq([command : {"start", "stop"}, call : Call, service : Service])
  /\ toClient \in Seq([call : Call, success : BOOLEAN])

\* A tunnel never outlives a process that does not end by itself, whatever
\* starts and stops were in flight together, timed out or overtaken: a stop is
\* sent only for a start that succeeded, after the tunnel was closed.
TunnelsLeadToServers ==
  \A k \in tunnels :
    "exit" \notin Faults[call[k].service] => Running(call[k].service)

\* The services whose callers wait for each other.
Serial == {s \in Service : MaxPending[s] = 1}

\* The variables have their types; and when calls for a service do not overlap,
\* the count of the shared tunnel is the number of its clients, they all use it,
\* and no tunnel is forgotten.
CountsExact == TypeOK /\ (
  ~isClosed =>
    \A s \in Serial :
      LET users == {k \in CallsOf(s) : Live(k)} IN
      /\ tunnelTo[s].refCount = Cardinality(users)
      /\ \A k \in users : call[k].tunnel = tunnelTo[s].tunnel
      /\ {k \in tunnels : call[k].service = s}
           = (IF users = {} THEN {} ELSE {tunnelTo[s].tunnel}))

\* Every call for a client returns one or throws.
Settles == \A k \in Call : Pending(k) ~> ~Pending(k)

\* When no client of such a service is left and none is asked for, its process
\* stops, unless the connection was closed, or a call failed: it may have
\* timed out after it made the server count it, and nobody takes that back.
Released ==
  \A s \in Serial :
    LET Idle == \A k \in CallsOf(s) : call[k].stage = "gone" IN
    Idle ~> ~Running(s) \/ isClosed \/ ~Idle

=============================================================================
