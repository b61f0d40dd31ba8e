-------------------------- MODULE RemoteConnections --------------------------
(***************************************************************************)
(* The connections of the editor to one host.  RemoteConnection stands for *)
(* a remote directory; those of a host share a ServerConnection, which the *)
(* first one creates and the last one closes, and which is registered      *)
(* under its host while it is in use.  A ConnectionCache keeps something   *)
(* for every ServerConnection it is told of.                               *)
(*                                                                         *)
(* A ServerConnection is named after the call of findOrCreate that created *)
(* it, and so is the RemoteConnection the call makes; a project of several *)
(* directories, which makes one for each, is left out.                     *)
(***************************************************************************)
EXTENDS Naturals, FiniteSets

CONSTANTS
  Call,    \* the calls of RemoteConnection.findOrCreate
  Faults   \* what may fail in a behaviour: sets of steps

Step == {"initializing", "saving", "resolving", "describing"}

ASSUME FaultsAssumption == Faults \subseteq SUBSET Step

\* No ServerConnection.
None == "none"

ASSUME NoneAssumption == None \notin Call

VARIABLES
  stage,       \* stage[k]: how far call k and its RemoteConnection are
  server,      \* server[k]: the ServerConnection of call k
  state,       \* state[s]: the state of ServerConnection s
  members,     \* members[s]: the RemoteConnections in its _connections
  removals,    \* the RemoteConnections whose removeConnection is awaiting
  registered,  \* the entry of the host in _hostToConnection
  cached,      \* the ServerConnections a ConnectionCache has a value for
  faults       \* the steps that may fail, which never change

vars == <<stage, server, state, members, removals, registered, cached, faults>>

\* "initializing" awaits the RPC and version checks of a new connection,
\* "saving" setConnectionConfig, "resolving" resolveRealPath and "describing"
\* _setHgRepoInfo.
Stage == {"idle", "open", "closed", "failed"} \cup Step

Init ==
  /\ stage = [k \in Call |-> "idle"]
  /\ server = [k \in Call |-> None]
  /\ state = [s \in Call |-> "none"]
  /\ members = [s \in Call |-> {}]
  /\ removals = {}
  /\ registered = None
  /\ cached = {}
  /\ faults \in Faults

Stays(k, next) == stage' = [stage EXCEPT ![k] = next]

\* Mutant of CloseServer: the map keeps the connection.
CloseServerRegistered(s) ==
  /\ state' = [state EXCEPT ![s] = "closed"]
  /\ UNCHANGED <<registered, cached>>

\* ServerConnection.close: the entry of the host goes, whichever connection it
\* is, and if there was one the caches hear of it.
CloseServer(s) ==
  /\ state' = [state EXCEPT ![s] = "closed"]
  /\ IF state[s] # "closed" /\ registered # None
       THEN registered' = None /\ cached' = cached \ {s}
       ELSE UNCHANGED <<registered, cached>>

\* findOrCreate, and in it getOrCreate, to its first await.
FindOrCreate(k) ==
  /\ stage[k] = "idle"
  /\ \/ /\ registered # None
        /\ server' = [server EXCEPT ![k] = registered]
        /\ Stays(k, "resolving")
        /\ UNCHANGED state
     \/ /\ registered = None
        /\ server' = [server EXCEPT ![k] = k]
        /\ state' = [state EXCEPT ![k] = "starting"]
        /\ Stays(k, "initializing")
  /\ UNCHANGED <<members, removals, registered, cached, faults>>

MayFail(k, step) == stage[k] = step /\ step \in faults

\* initialize, to its last await.
Initializes(k) ==
  /\ stage[k] = "initializing"
  /\ state' = [state EXCEPT ![k] = "ready"]
  /\ registered' = k
  /\ Stays(k, "saving")
  /\ UNCHANGED <<server, members, removals, cached, faults>>

\* The catch block of getOrCreate.
GetOrCreateFails(k) ==
  /\ MayFail(k, "initializing") \/ MayFail(k, "saving")
  /\ CloseServer(k)
  /\ Stays(k, "failed")
  /\ UNCHANGED <<server, members, removals, faults>>

\* The end of initialize and of getOrCreate: every cache fetches a value, also
\* for a connection that was closed meanwhile.
Saves(k) ==
  /\ stage[k] = "saving"
  /\ cached' = cached \cup {k}
  /\ Stays(k, IF state[k] = "closed" THEN "failed" ELSE "resolving")
  /\ UNCHANGED <<server, state, members, removals, registered, faults>>

\* findOrCreate from the path to the await in _initialize.
Resolves(k) ==
  /\ stage[k] = "resolving" /\ state[server[k]] # "closed"
  /\ members' = [members EXCEPT ![server[k]] = @ \cup {k}]
  /\ Stays(k, "describing")
  /\ UNCHANGED <<server, state, removals, registered, cached, faults>>

\* The calls over a connection that is closed are rejected, too.
Rejected(k, step) ==
  stage[k] = step /\ (step \in faults \/ state[server[k]] = "closed")

\* Mutant of ResolveFails: the connection is left as it is.
ResolveFailsQuietly(k) ==
  /\ Rejected(k, "resolving")
  /\ Stays(k, "failed")
  /\ UNCHANGED <<server, state, members, removals, registered, cached, faults>>

\* The catch block of findOrCreate.
ResolveFails(k) ==
  /\ Rejected(k, "resolving")
  /\ Stays(k, "failed")
  /\ IF members[server[k]] = {} THEN CloseServer(server[k])
                                ELSE UNCHANGED <<state, registered, cached>>
  /\ UNCHANGED <<server, members, removals, faults>>

Describes(k) ==
  /\ stage[k] = "describing" /\ state[server[k]] # "closed"
  /\ Stays(k, "open")
  /\ UNCHANGED <<server, state, members, removals, registered, cached, faults>>

\* RemoteConnection.close and removeConnection, to its await if this is the
\* last one of its server.
RemoveConnection(k) ==
  /\ members' = [members EXCEPT ![server[k]] = @ \ {k}]
  /\ removals' = IF members[server[k]] = {k} THEN removals \cup {k} ELSE removals
  /\ UNCHANGED <<server, state, registered, cached, faults>>

\* The catch block of _initialize.
DescribeFails(k) ==
  /\ Rejected(k, "describing")
  /\ Stays(k, "failed")
  /\ RemoveConnection(k)

CloseConnection(k) ==
  /\ stage[k] = "open"
  /\ Stays(k, "closed")
  /\ RemoveConnection(k)

\* _closeServerConnection was answered, or took too long: the server connection
\* is closed, whoever uses it by now.
Removed(k) ==
  /\ k \in removals
  /\ removals' = removals \ {k}
  /\ CloseServer(server[k])
  /\ UNCHANGED <<stage, server, members, faults>>

-----------------------------------------------------------------------------
Next ==
  \E k \in Call : \/ FindOrCreate(k)
                  \/ Initializes(k)
                  \/ GetOrCreateFails(k)
                  \/ Saves(k)
                  \/ Resolves(k)
                  \/ ResolveFails(k)
                  \/ Describes(k)
                  \/ DescribeFails(k)
                  \/ CloseConnection(k)
                  \/ Removed(k)

Spec == Init /\ [][Next]_vars

\* Every await ends: a call is answered, rejected or times out.
Goes(k) ==
  \/ Initializes(k) \/ GetOrCreateFails(k)
  \/ Saves(k)
  \/ Resolves(k) \/ ResolveFails(k)
  \/ Describes(k) \/ DescribeFails(k)

Fairness == \A k \in Call : WF_vars(Goes(k)) /\ WF_vars(Removed(k))

FairSpec == Spec /\ Fairness

-----------------------------------------------------------------------------
(* Properties *)

\* The types of the variables.  A RemoteConnection is a member of the
\* ServerConnection it was given, and the connection that is registered is never
\* a closed one, whatever calls overlapped, failed or closed each other's.
TypeOK ==
  /\ stage \in [Call -> Stage]
  /\ server \in [Call -> Call \cup {None}]
  /\ state \in [Call -> {"none", "starting", "ready", "closed"}]
  /\ \A s \in Call : members[s] \subseteq {k \in Call : server[k] = s}
  /\ removals \subseteq Call
  /\ registered \in {s \in Call : state[s] = "ready"} \cup {None}
  /\ cached \subseteq Call

\* "Don't leave server connections hanging" (RemoteConnection.findOrCreate):
\* when every call has settled and every removal ended, an open ServerConnection
\* is in use.
InProgress(k) == stage[k] \in Step

NoneHanging ==
  (\A k \in Call : ~InProgress(k)) /\ removals = {} =>
    \A s \in Call : state[s] # "closed" => state[s] = "none" \/ members[s] # {}

\* Every call of findOrCreate returns or throws.
Settles == \A k \in Call : InProgress(k) ~> ~InProgress(k)

=============================================================================
