---------------------------- MODULE NuclideProofs ----------------------------
(***************************************************************************)
(* Theorems about RemoteConnections, LanguageServices and Watchman, for    *)
(* any number of calls, projects and subscriptions and whatever fails.     *)
(*   RemoteConnections: the connection registered under the host is not a  *)
(*     closed one, and no server connection is left hanging.               *)
(*   LanguageServices: no language server outlives its connection, and a   *)
(*     click on Restart never makes a second one.                          *)
(*   Watchman: the subscriptions of the map are Watchman's when nothing is *)
(*     under way, but for refused ones; the only one, asked for once,      *)
(*     misses nothing while Watchman runs; and what is counted of them is  *)
(*     bounded by the calls.                                               *)
(***************************************************************************)
EXTENDS MCNuclide, Sequences, SequenceTheorems, FiniteSetTheorems, TLAPS

-----------------------------------------------------------------------------
(* RemoteConnections *)

\* A call that has not begun has no connection, and no removal.
Begun ==
  \A k \in Call : stage[k] = "idle" => server[k] = None /\ k \notin removals

\* A call that makes a connection uses its own.
Own ==
  \A k \in Call : stage[k] \in {"initializing", "saving"} => server[k] = k

Starting ==
  \A s \in Call : state[s] = "starting" => stage[s] = "initializing"

\* Call k will use connection s, or close it.
Bound(k, s) ==
  server[k] = s /\ (stage[k] \in {"saving", "resolving"} \/ k \in removals)

\* A connection nobody uses is about to be used or closed.
Attended ==
  \A s \in Call : state[s] = "ready" /\ members[s] = {} => \E k \in Call : Bound(k, s)

Typed ==
  /\ TypeOK
  /\ members \in [Call -> SUBSET Call]

ConnectionsInv == Typed /\ Begun /\ Own /\ Starting /\ Attended

LEMMA StepsAreStages ==
  /\ Step \subseteq Stage /\ {"idle", "open", "closed", "failed"} \subseteq Stage
  /\ \A x : x \in Step <=> x \in {"initializing", "saving", "resolving", "describing"}
  /\ {"idle", "open", "closed", "failed"} \cap Step = {}
  BY DEF Stage, Step

LEMMA InitConnections == Init => ConnectionsInv
  BY NoneAssumption, StepsAreStages
     DEF Init, ConnectionsInv, Typed, TypeOK, Begun, Own, Starting, Attended

-----------------------------------------------------------------------------
(* Types *)

LEMMA CloseServerTyped ==
  ASSUME Typed, NEW s \in Call, CloseServer(s)
  PROVE  /\ state' \in [Call -> {"none", "starting", "ready", "closed"}]
         /\ state'[s] = "closed" /\ \A x \in Call : x # s => state'[x] = state[x]
         /\ registered' \in {x \in Call : state'[x] = "ready"} \cup {None}
         /\ cached' \subseteq Call
  BY NoneAssumption DEF Typed, TypeOK, CloseServer

\* What a step that moves call k does to the stages.
LEMMA StaysTyped ==
  ASSUME Typed, NEW k \in Call, NEW next \in Stage, Stays(k, next)
  PROVE  /\ stage' \in [Call -> Stage]
         /\ stage'[k] = next /\ \A j \in Call : j # k => stage'[j] = stage[j]
  BY DEF Typed, TypeOK, Stays

\* A removal takes k from its connection.
LEMMA RemoveTyped ==
  ASSUME Typed, NEW k \in Call, server[k] \in Call, RemoveConnection(k)
  PROVE  /\ members' \in [Call -> SUBSET Call]
         /\ \A s \in Call : members'[s] = IF s = server[k] THEN members[s] \ {k} ELSE members[s]
         /\ removals' \subseteq Call /\ removals \subseteq removals'
         /\ removals' \subseteq removals \cup {k}
         /\ members[server[k]] = {k} => k \in removals'
  BY DEF Typed, TypeOK, RemoveConnection

-----------------------------------------------------------------------------
(* Steps *)

LEMMA FindOrCreateKeeps ==
  ASSUME ConnectionsInv, NEW k \in Call, FindOrCreate(k)
  PROVE  ConnectionsInv'
<1>1. /\ Typed /\ Begun /\ Own /\ Starting /\ Attended
      /\ stage[k] = "idle" /\ server[k] = None /\ k \notin removals
      /\ UNCHANGED <<members, removals, registered, cached, faults>>
  BY DEF ConnectionsInv, FindOrCreate, Begun
<1>2. PICK s \in Call :
        /\ server' = [server EXCEPT ![k] = s]
        /\ \/ s = registered /\ Stays(k, "resolving") /\ state' = state
           \/ /\ s = k /\ registered = None /\ Stays(k, "initializing")
              /\ state' = [state EXCEPT ![k] = "starting"]
  BY <1>1 DEF FindOrCreate, Typed, TypeOK
<1>3. PICK next \in {"resolving", "initializing"} :
        /\ Stays(k, next)
        /\ next = "resolving" => s = registered /\ state' = state
        /\ next = "initializing" => /\ s = k /\ registered = None
                                    /\ state' = [state EXCEPT ![k] = "starting"]
  BY <1>2
<1>4. /\ stage' \in [Call -> Stage]
      /\ stage'[k] = next /\ \A j \in Call : j # k => stage'[j] = stage[j]
  BY <1>1, <1>3, StaysTyped, StepsAreStages
<1>5. /\ server' \in [Call -> Call \cup {None}]
      /\ server'[k] = s /\ \A j \in Call : j # k => server'[j] = server[j]
  BY <1>1, <1>2 DEF Typed, TypeOK
<1>6. /\ state' \in [Call -> {"none", "starting", "ready", "closed"}]
      /\ \A x \in Call : state'[x] = state[x] \/ (x = k /\ state'[x] = "starting" /\ next = "initializing")
      /\ registered \in {x \in Call : state'[x] = "ready"} \cup {None}
  BY <1>1, <1>3 DEF Typed, TypeOK
<1>7. Typed'
  <2>1. \A x \in Call : members[x] \subseteq {j \in Call : server'[j] = x}
    BY <1>1, <1>5, NoneAssumption DEF Typed, TypeOK
  <2>. QED  BY <1>1, <1>4, <1>5, <1>6, <2>1 DEF Typed, TypeOK
<1>8. Begun' /\ Own'
  BY <1>1, <1>3, <1>4, <1>5 DEF Begun, Own
<1>9. Starting'
  BY <1>1, <1>4, <1>6 DEF Starting
<1>10. Attended'
  <2>. SUFFICES ASSUME NEW x \in Call, state'[x] = "ready", members'[x] = {}
                PROVE  \E j \in Call : Bound(j, x)'
    BY DEF Attended
  <2>1. PICK j \in Call : Bound(j, x)
    BY <1>1, <1>6 DEF Attended
  <2>2. j # k
    BY <1>1, <2>1 DEF Bound
  <2>. QED  BY <1>1, <1>4, <1>5, <2>1, <2>2 DEF Bound
<1>. QED
  BY <1>7, <1>8, <1>9, <1>10 DEF ConnectionsInv

\* A step that moves call k from an await, and may close its connection or have
\* it make its own one ready.
LEMMA MovesKeeps ==
  ASSUME ConnectionsInv, NEW k \in Call, NEW next \in Stage, Stays(k, next),
         stage[k] # "idle", next \notin {"idle", "initializing"},
         next = "saving" => stage[k] = "initializing",
         UNCHANGED server,
         state' \in [Call -> {"none", "starting", "ready", "closed"}],
         registered' \in {x \in Call : state'[x] = "ready"} \cup {None},
         cached' \subseteq Call,
         members' \in [Call -> SUBSET Call], removals' \subseteq Call,
         \A s \in Call : members'[s] \subseteq {j \in Call : server[j] = s},
         removals \subseteq removals' /\ removals' \subseteq removals \cup {k},
         \A s \in Call : state'[s] = "starting" => state[s] = "starting" /\ s # k,
         \A s \in Call : state'[s] = "ready" /\ members'[s] = {} =>
           \/ state[s] = "ready" /\ members[s] = {} /\ s # server[k]
           \/ Bound(k, s)'
           \/ /\ state[s] = "ready" /\ members[s] = {}
              /\ stage[k] \notin {"saving", "resolving"}
  PROVE  ConnectionsInv'
<1>1. /\ Typed /\ Begun /\ Own /\ Starting /\ Attended
      /\ stage' \in [Call -> Stage]
      /\ stage'[k] = next /\ \A j \in Call : j # k => stage'[j] = stage[j]
  BY StaysTyped DEF ConnectionsInv
<1>2. Typed'
  BY <1>1 DEF Typed, TypeOK
<1>3. Begun' /\ Own'
  BY <1>1 DEF Begun, Own
<1>4. Starting'
  BY <1>1 DEF Starting
<1>5. Attended'
  <2>. SUFFICES ASSUME NEW s \in Call, state'[s] = "ready", members'[s] = {}
                PROVE  \E j \in Call : Bound(j, s)'
    BY DEF Attended
  <2>1. CASE state[s] = "ready" /\ members[s] = {} /\ s # server[k]
    <3>1. PICK j \in Call : Bound(j, s)
      BY <1>1, <2>1 DEF Attended
    <3>. QED  BY <1>1, <2>1, <3>1 DEF Bound
  <2>2. CASE /\ state[s] = "ready" /\ members[s] = {}
             /\ stage[k] \notin {"saving", "resolving"}
    <3>1. PICK j \in Call : Bound(j, s)
      BY <1>1, <2>2 DEF Attended
    <3>. QED  BY <1>1, <2>2, <3>1 DEF Bound
  <2>. QED  BY <2>1, <2>2
<1>. QED
  BY <1>2, <1>3, <1>4, <1>5 DEF ConnectionsInv

LEMMA InitializesKeeps ==
  ASSUME ConnectionsInv, NEW k \in Call, Initializes(k)
  PROVE  ConnectionsInv'
<1>1. /\ Typed /\ stage[k] = "initializing" /\ server[k] = k
      /\ Stays(k, "saving") /\ "saving" \in Stage
      /\ state' = [state EXCEPT ![k] = "ready"] /\ registered' = k
      /\ UNCHANGED <<server, members, removals, cached, faults>>
  BY StepsAreStages DEF ConnectionsInv, Own, Initializes
<1>2. /\ state' \in [Call -> {"none", "starting", "ready", "closed"}]
      /\ state'[k] = "ready" /\ \A x \in Call : x # k => state'[x] = state[x]
  BY <1>1 DEF Typed, TypeOK
<1>3. stage'[k] = "saving"
  BY <1>1, StaysTyped
<1>4. /\ members' \in [Call -> SUBSET Call] /\ removals' \subseteq Call /\ cached' \subseteq Call
      /\ \A s \in Call : members'[s] \subseteq {j \in Call : server[j] = s}
  BY <1>1 DEF Typed, TypeOK
<1>5. Bound(k, k)'
  BY <1>1, <1>3 DEF Bound
<1>. QED
  BY <1>1, <1>2, <1>4, <1>5, MovesKeeps

LEMMA GetOrCreateFailsKeeps ==
  ASSUME ConnectionsInv, NEW k \in Call, GetOrCreateFails(k)
  PROVE  ConnectionsInv'
<1>1. /\ Typed /\ stage[k] \in {"initializing", "saving"} /\ server[k] = k
      /\ Stays(k, "failed") /\ "failed" \in Stage /\ CloseServer(k)
      /\ UNCHANGED <<server, members, removals, faults>>
  BY StepsAreStages DEF ConnectionsInv, Own, GetOrCreateFails, MayFail
<1>2. /\ state' \in [Call -> {"none", "starting", "ready", "closed"}]
      /\ state'[k] = "closed" /\ \A x \in Call : x # k => state'[x] = state[x]
      /\ registered' \in {x \in Call : state'[x] = "ready"} \cup {None}
      /\ cached' \subseteq Call
  BY <1>1, CloseServerTyped
<1>3. /\ members' \in [Call -> SUBSET Call] /\ removals' \subseteq Call
      /\ \A s \in Call : members'[s] \subseteq {j \in Call : server[j] = s}
  BY <1>1 DEF Typed, TypeOK
<1>. QED
  BY <1>1, <1>2, <1>3, MovesKeeps

LEMMA SavesKeeps ==
  ASSUME ConnectionsInv, NEW k \in Call, Saves(k)
  PROVE  ConnectionsInv'
<1>. DEFINE next == IF state[k] = "closed" THEN "failed" ELSE "resolving"
<1>1. /\ Typed /\ stage[k] = "saving" /\ server[k] = k
      /\ Stays(k, next) /\ next \in Stage
      /\ UNCHANGED <<server, state, members, removals, registered, faults>>
  BY StepsAreStages DEF ConnectionsInv, Own, Saves
<1>2. next = "failed" \/ next = "resolving"
  OBVIOUS
<1>3. next = "failed" => state[k] = "closed"
  OBVIOUS
<1>. HIDE DEF next
<1>4. stage'[k] = next
  BY <1>1, StaysTyped
<1>5. /\ members' \in [Call -> SUBSET Call] /\ removals' \subseteq Call /\ cached' \subseteq Call
      /\ \A s \in Call : members'[s] \subseteq {j \in Call : server[j] = s}
      /\ state' \in [Call -> {"none", "starting", "ready", "closed"}]
      /\ registered' \in {x \in Call : state'[x] = "ready"} \cup {None}
  BY <1>1 DEF Typed, TypeOK, Saves
<1>6. \A s \in Call : state'[s] = "starting" => state[s] = "starting" /\ s # k
  BY <1>1 DEF ConnectionsInv, Starting
<1>7. state'[k] = "ready" => Bound(k, k)'
  BY <1>1, <1>2, <1>3, <1>4 DEF Bound
<1>. QED
  BY <1>1, <1>2, <1>5, <1>6, <1>7, MovesKeeps

LEMMA ResolvesKeeps ==
  ASSUME ConnectionsInv, NEW k \in Call, Resolves(k)
  PROVE  ConnectionsInv'
<1>1. /\ Typed /\ stage[k] = "resolving" /\ Stays(k, "describing") /\ "describing" \in Stage
      /\ members' = [members EXCEPT ![server[k]] = @ \cup {k}]
      /\ UNCHANGED <<server, state, removals, registered, cached, faults>>
  BY StepsAreStages DEF ConnectionsInv, Resolves
<1>2. /\ members' \in [Call -> SUBSET Call]
      /\ \A s \in Call : members'[s] = IF s = server[k] THEN members[s] \cup {k} ELSE members[s]
  BY ZenonT(40), <1>1 DEF Typed, TypeOK
<1>3. /\ \A s \in Call : members'[s] \subseteq {j \in Call : server[j] = s}
      /\ removals' \subseteq Call /\ cached' \subseteq Call
      /\ state' \in [Call -> {"none", "starting", "ready", "closed"}]
      /\ registered' \in {x \in Call : state'[x] = "ready"} \cup {None}
  BY <1>1, <1>2 DEF Typed, TypeOK
<1>4. \A s \in Call : state'[s] = "starting" => state[s] = "starting" /\ s # k
  BY <1>1 DEF ConnectionsInv, Starting
<1>. QED
  BY <1>1, <1>2, <1>3, <1>4, MovesKeeps

LEMMA ResolveFailsKeeps ==
  ASSUME ConnectionsInv, NEW k \in Call, ResolveFails(k)
  PROVE  ConnectionsInv'
<1>1. /\ Typed /\ stage[k] = "resolving" /\ Stays(k, "failed") /\ "failed" \in Stage
      /\ IF members[server[k]] = {} THEN CloseServer(server[k])
                                    ELSE UNCHANGED <<state, registered, cached>>
      /\ UNCHANGED <<server, members, removals, faults>>
  BY StepsAreStages DEF ConnectionsInv, ResolveFails, Rejected
<1>2. /\ members' \in [Call -> SUBSET Call] /\ removals' \subseteq Call
      /\ \A s \in Call : members'[s] \subseteq {j \in Call : server[j] = s}
  BY <1>1 DEF Typed, TypeOK
<1>3. /\ state' \in [Call -> {"none", "starting", "ready", "closed"}]
      /\ registered' \in {x \in Call : state'[x] = "ready"} \cup {None}
      /\ cached' \subseteq Call
      /\ \A s \in Call : state'[s] = state[s] \/ state'[s] = "closed"
      /\ server[k] \in Call /\ members[server[k]] = {} => state'[server[k]] = "closed"
  BY <1>1, CloseServerTyped DEF Typed, TypeOK, CloseServer
<1>4. \A s \in Call : state'[s] = "starting" => state[s] = "starting" /\ s # k
  BY <1>1, <1>3 DEF ConnectionsInv, Starting
<1>5. \A s \in Call : state'[s] = "ready" /\ members'[s] = {} =>
        state[s] = "ready" /\ members[s] = {} /\ s # server[k]
  BY <1>1, <1>3
<1>. QED
  BY <1>1, <1>2, <1>3, <1>4, <1>5, MovesKeeps

LEMMA DescribesKeeps ==
  ASSUME ConnectionsInv, NEW k \in Call, Describes(k)
  PROVE  ConnectionsInv'
<1>1. /\ Typed /\ stage[k] = "describing" /\ Stays(k, "open") /\ "open" \in Stage
      /\ UNCHANGED <<server, state, members, removals, registered, cached, faults>>
  BY StepsAreStages DEF ConnectionsInv, Describes
<1>2. /\ members' \in [Call -> SUBSET Call] /\ removals' \subseteq Call /\ cached' \subseteq Call
      /\ \A s \in Call : members'[s] \subseteq {j \in Call : server[j] = s}
      /\ state' \in [Call -> {"none", "starting", "ready", "closed"}]
      /\ registered' \in {x \in Call : state'[x] = "ready"} \cup {None}
  BY <1>1 DEF Typed, TypeOK
<1>3. \A s \in Call : state'[s] = "starting" => state[s] = "starting" /\ s # k
  BY <1>1 DEF ConnectionsInv, Starting
<1>. QED
  BY <1>1, <1>2, <1>3, MovesKeeps

LEMMA RemoveKeeps ==
  ASSUME ConnectionsInv, NEW k \in Call, NEW next \in {"failed", "closed"},
         stage[k] \in {"describing", "open"}, Stays(k, next), RemoveConnection(k)
  PROVE  ConnectionsInv'
<1>1. /\ Typed /\ next \in Stage
      /\ UNCHANGED <<server, state, registered, cached, faults>>
  BY StepsAreStages DEF ConnectionsInv, RemoveConnection
<1>2. /\ members' \in [Call -> SUBSET Call]
      /\ \A s \in Call : members'[s] = IF s = server[k] THEN members[s] \ {k} ELSE members[s]
      /\ removals' \subseteq Call /\ removals \subseteq removals'
      /\ removals' \subseteq removals \cup {k}
      /\ server[k] \in Call /\ members[server[k]] = {k} => k \in removals'
  BY <1>1 DEF Typed, TypeOK, RemoveConnection
<1>3. /\ \A s \in Call : members'[s] \subseteq {j \in Call : server[j] = s}
      /\ cached' \subseteq Call
      /\ state' \in [Call -> {"none", "starting", "ready", "closed"}]
      /\ registered' \in {x \in Call : state'[x] = "ready"} \cup {None}
  BY <1>1, <1>2 DEF Typed, TypeOK
<1>4. \A s \in Call : state'[s] = "starting" => state[s] = "starting" /\ s # k
  BY <1>1 DEF ConnectionsInv, Starting
<1>5. ASSUME NEW s \in Call, state'[s] = "ready", members'[s] = {}
      PROVE  \/ state[s] = "ready" /\ members[s] = {} /\ stage[k] \notin {"saving", "resolving"}
             \/ Bound(k, s)'
  <2>1. CASE s = server[k] /\ members[s] = {k}
    BY <1>1, <1>2, <2>1 DEF Bound
  <2>2. CASE ~(s = server[k] /\ members[s] = {k})
    BY <1>1, <1>2, <1>5, <2>2
  <2>. QED  BY <2>1, <2>2
<1>. QED
  BY <1>1, <1>2, <1>3, <1>4, <1>5, MovesKeeps

LEMMA RemovedKeeps ==
  ASSUME ConnectionsInv, NEW k \in Call, Removed(k)
  PROVE  ConnectionsInv'
<1>1. /\ Typed /\ Begun /\ Own /\ Starting /\ Attended
      /\ k \in removals /\ removals' = removals \ {k} /\ CloseServer(server[k])
      /\ UNCHANGED <<stage, server, members, faults>>
  BY DEF ConnectionsInv, Removed
<1>2. /\ state' \in [Call -> {"none", "starting", "ready", "closed"}]
      /\ registered' \in {x \in Call : state'[x] = "ready"} \cup {None}
      /\ cached' \subseteq Call
      /\ \A s \in Call : state'[s] = state[s] \/ state'[s] = "closed"
      /\ server[k] \in Call => state'[server[k]] = "closed"
  <2>1. CASE server[k] \in Call
    BY <1>1, <2>1, CloseServerTyped
  <2>2. CASE server[k] \notin Call
    <3>1. state' = state
      BY <1>1, <2>2 DEF CloseServer, Typed, TypeOK
    <3>2. /\ registered \in {x \in Call : state[x] = "ready"} \cup {None}
          /\ cached \subseteq Call
      BY <1>1 DEF Typed, TypeOK
    <3>3. registered' \in {registered, None} /\ cached' \subseteq cached
      BY <1>1 DEF CloseServer
    <3>4. state \in [Call -> {"none", "starting", "ready", "closed"}]
      BY <1>1 DEF Typed, TypeOK
    <3>. QED  BY <2>2, <3>1, <3>2, <3>3, <3>4
  <2>. QED  BY <2>1, <2>2
<1>3. Typed'
  BY <1>1, <1>2 DEF Typed, TypeOK
<1>4. Begun' /\ Own' /\ Starting'
  BY <1>1, <1>2 DEF Begun, Own, Starting
<1>5. Attended'
  <2>. SUFFICES ASSUME NEW s \in Call, state'[s] = "ready", members'[s] = {}
                PROVE  \E j \in Call : Bound(j, s)'
    BY DEF Attended
  <2>1. PICK j \in Call : Bound(j, s)
    BY <1>1, <1>2 DEF Attended
  <2>2. s # server[k]
    BY <1>2
  <2>. QED  BY <1>1, <2>1, <2>2 DEF Bound
<1>. QED
  BY <1>3, <1>4, <1>5 DEF ConnectionsInv

LEMMA ConnectionsStep ==
  ASSUME ConnectionsInv, [Next]_vars
  PROVE  ConnectionsInv'
<1>1. ASSUME NEW k \in Call, DescribeFails(k) \/ CloseConnection(k)
      PROVE  ConnectionsInv'
  BY <1>1, RemoveKeeps DEF DescribeFails, CloseConnection, Rejected
<1>2. ASSUME UNCHANGED vars
      PROVE  ConnectionsInv'
  <2>1. UNCHANGED <<stage, server, state, members, removals, registered, cached>>
    BY <1>2 DEF vars
  <2>2. Typed' /\ Begun' /\ Own' /\ Starting'
    BY <2>1 DEF ConnectionsInv, Typed, TypeOK, Begun, Own, Starting
  <2>3. Attended'
    BY <2>1 DEF ConnectionsInv, Attended, Bound
  <2>. QED  BY <2>2, <2>3 DEF ConnectionsInv
<1>. QED
  BY <1>1, <1>2, FindOrCreateKeeps, InitializesKeeps, GetOrCreateFailsKeeps, SavesKeeps,
     ResolvesKeeps, ResolveFailsKeeps, DescribesKeeps, RemovedKeeps DEF Next

\* A connection that nobody uses and that is open is being made, or a call or a
\* removal that will use or close it is on its way.
THEOREM ConnectionsAttended == Spec => []ConnectionsInv
<1>1. ConnectionsInv /\ [Next]_vars => ConnectionsInv'
  BY ConnectionsStep
<1>. QED
  BY <1>1, InitConnections, PTL DEF Spec

\* The types; and the connection registered under the host is never a closed
\* one, whatever calls overlapped, failed or closed each other's (CloseServer).
THEOREM ConnectionsTypeCorrect == Spec => []TypeOK
<1>1. ConnectionsInv => TypeOK
  BY DEF ConnectionsInv, Typed
<1>. QED
  BY <1>1, ConnectionsAttended, PTL

\* "Don't leave server connections hanging": when every call of findOrCreate has
\* settled and every removal ended, an open ServerConnection is in use.
THEOREM NothingHangs == Spec => []NoneHanging
<1>1. ConnectionsInv => NoneHanging
  <2>. SUFFICES ASSUME ConnectionsInv, \A k \in Call : ~InProgress(k), removals = {},
                       NEW s \in Call, state[s] # "closed"
                PROVE  state[s] = "none" \/ members[s] # {}
    BY DEF NoneHanging
  <2>1. state[s] # "starting"
    BY StepsAreStages DEF ConnectionsInv, Starting, InProgress
  <2>2. ~ \E k \in Call : Bound(k, s)
    BY StepsAreStages DEF Bound, InProgress
  <2>3. state[s] \in {"none", "starting", "ready", "closed"}
    BY DEF ConnectionsInv, Typed, TypeOK
  <2>. QED  BY <2>1, <2>2, <2>3 DEF ConnectionsInv, Attended
<1>. QED
  BY <1>1, ConnectionsAttended, PTL

-----------------------------------------------------------------------------
(* LanguageServices *)

ServiceType ==
  [state : L!State, start : L!Start, connection : BOOLEAN,
   server : {"none", "alive", "exited"}, fileEvents : BOOLEAN,
   recent : 0 .. RestartLimit, disposed : BOOLEAN]

\* How the state of a service, what its start() awaits and its connection belong
\* together.  A service that was disposed while it started goes on to start.
Consistent(l) ==
  /\ l.server # "none" => l.connection
  /\ l.start \in {"hosting", "spawning"} => ~l.connection
  /\ l.start \in {"initializing", "asking"} => l.connection
  /\ l.start # "none" => l.state = "Starting" \/ (l.state = "Stopped" /\ l.disposed)
  /\ l.state \in {"Running", "Stopping"} => l.connection
  /\ l.connection /\ l.start = "none" => l.state \in {"Running", "Stopping"}
  /\ l.fileEvents => l.state \in {"Running", "Stopping"}

Fits(l) == l \in ServiceType /\ Consistent(l)

LanguageTyped ==
  /\ factory \in [Project -> {"none", "waiting", "returned"}]
  /\ latest \in Project \cup {L!NoProject}
  /\ observing \in BOOLEAN /\ cleared \in BOOLEAN
  /\ observed \subseteq Project /\ doomed \subseteq Project

\* A service that was not returned yet does nothing.
ServicesFit ==
  /\ lsp \in [Project -> ServiceType]
  /\ \A p \in Project : /\ Fits(lsp[p])
                        /\ factory[p] # "returned" => lsp[p] = L!NewService

LanguageInv == LanguageTyped /\ ServicesFit

LEMMA NewServiceFits == Fits(L!NewService) /\ ~L!NewService.connection
  BY LanguageAssumptions
     DEF L!LimitAssumption, Fits, Consistent, ServiceType, L!NewService, L!State, L!Start

LEMMA InitLanguages == L!Init => LanguageInv
  BY NewServiceFits DEF L!Init, LanguageInv, LanguageTyped, ServicesFit, Fits

-----------------------------------------------------------------------------
(* What the operators do to a service *)

LEMMA StartingFits ==
  ASSUME NEW l, Fits(l), ~l.connection
  PROVE  Fits(L!Starting(l))
  BY DEF Fits, Consistent, ServiceType, L!Starting, L!State, L!Start

LEMMA DisconnectedFits ==
  ASSUME NEW l, Fits(l), NEW next \in {"Stopped", "StartFailed"}
  PROVE  /\ Fits(L!Disconnected(l, next))
         /\ ~L!Disconnected(l, next).connection
         /\ L!Disconnected(l, next).start = "none"
         /\ L!Disconnected(l, next).disposed = l.disposed
  BY DEF Fits, Consistent, ServiceType, L!Disconnected, L!TornDown, L!State, L!Start

LEMMA StartFailedFits ==
  ASSUME NEW l, Fits(l), l.start \in {"hosting", "spawning"}
  PROVE  Fits(L!StartFailed(l))
  BY DEF Fits, Consistent, ServiceType, L!StartFailed, L!State, L!Start

\* _stop() of a service that has a connection.
LEMMA StoppedFits ==
  ASSUME NEW l, Fits(l), l.connection
  PROVE  Fits(L!Stopped(l))
<1>1. CASE L!IsStopped(l)
  BY <1>1 DEF L!Stopped
<1>2. CASE ~L!IsStopped(l) /\ l.state = "Running"
  BY <1>2 DEF L!Stopped, Fits, Consistent, ServiceType, L!State, L!Start
<1>3. CASE ~L!IsStopped(l) /\ l.state # "Running"
  BY <1>3, DisconnectedFits DEF L!Stopped
<1> QED BY <1>1, <1>2, <1>3

\* _stop() of a service that is disposed.
LEMMA DisposedFits ==
  ASSUME NEW l, Fits(l)
  PROVE  Fits([L!Stopped(l) EXCEPT !.disposed = TRUE])
<1>1. ASSUME NEW m, Fits(m) PROVE Fits([m EXCEPT !.disposed = TRUE])
  BY <1>1 DEF Fits, Consistent, ServiceType
<1>2. CASE l.connection
  BY <1>1, <1>2, StoppedFits
<1>3. CASE ~l.connection
  BY <1>3 DEF L!Stopped, L!IsStopped, Fits, Consistent, ServiceType, L!State
<1> QED BY <1>2, <1>3

LEMMA RecentTyped ==
  ASSUME NEW l, NEW k \in 0 .. RestartLimit
  PROVE  L!Recent(l, k) \in 0 .. RestartLimit
  BY LanguageAssumptions DEF L!LimitAssumption, L!Recent

-----------------------------------------------------------------------------
(* The steps of a service *)

\* A service that goes on was returned.
LEMMA BecomesFits ==
  ASSUME LanguageInv, NEW p \in Project, NEW m, Fits(m), L!Becomes(p, m),
         lsp[p] # L!NewService
  PROVE  LanguageInv'
<1>1. lsp' = [lsp EXCEPT ![p] = m]
      /\ UNCHANGED <<factory, latest, observing, observed, cleared, doomed>>
  BY DEF L!Becomes, L!multiVars
<1>2. LanguageTyped'
  BY <1>1 DEF LanguageInv, LanguageTyped
<1>3. ServicesFit'
  BY <1>1 DEF LanguageInv, ServicesFit, Fits
<1> QED BY <1>2, <1>3 DEF LanguageInv

LEMMA StartGoesOn ==
  ASSUME LanguageInv, NEW p \in Project,
         L!Hosts(p) \/ L!Spawns(p) \/ L!Initializes(p) \/ L!InitializeFails(p)
         \/ L!OffersRetry(p) \/ L!AnswersDialog(p)
  PROVE  LanguageInv'
<1> DEFINE l == lsp[p]
<1>1. Fits(l)
  BY DEF LanguageInv, ServicesFit
<1>2. l.start # "none"
  BY DEF L!Hosts, L!Spawns, L!Initializes, L!InitializeFails, L!OffersRetry,
     L!AnswersDialog, L!At
<1>3. l # L!NewService
  BY <1>2 DEF L!NewService
<1>4. ASSUME NEW m, L!Becomes(p, m), Fits(m) PROVE LanguageInv'
  BY <1>3, <1>4, BecomesFits
<1> HIDE DEF l
<1> DEFINE disconnected == L!Disconnected(l, "StartFailed")
<1>5. Fits(disconnected) /\ (l.start \in {"hosting", "spawning"} => Fits(L!StartFailed(l)))
  BY <1>1, DisconnectedFits, StartFailedFits
<1>6. l.start = "hosting" => Fits([l EXCEPT !.start = "spawning"])
  BY <1>1 DEF Fits, Consistent, ServiceType, L!Start
<1>7. l.start = "spawning" =>
        Fits([l EXCEPT !.start = "initializing", !.connection = TRUE, !.server = "alive"])
  BY <1>1 DEF Fits, Consistent, ServiceType, L!Start
<1>8. l.start = "initializing" =>
        /\ Fits([l EXCEPT !.state = "Running", !.start = "none", !.fileEvents = TRUE])
        /\ Fits([l EXCEPT !.start = "asking"])
  BY <1>1 DEF Fits, Consistent, ServiceType, L!Start, L!State
<1>9. l.start = "asking" => Fits([l EXCEPT !.start = "initializing"])
  BY <1>1 DEF Fits, Consistent, ServiceType, L!Start
<1>10. CASE L!Hosts(p)
  BY <1>4, <1>5, <1>6, <1>10 DEF L!Hosts, L!At, l
<1>11. CASE L!Spawns(p)
  BY <1>4, <1>5, <1>7, <1>11 DEF L!Spawns, L!At, l
<1>12. CASE L!Initializes(p)
  BY <1>4, <1>8, <1>12 DEF L!Initializes, L!At, l
<1>13. CASE L!InitializeFails(p)
  BY <1>4, <1>5, <1>13 DEF L!InitializeFails, l
<1>14. CASE L!OffersRetry(p)
  BY <1>4, <1>5, <1>8, <1>14 DEF L!OffersRetry, L!At, l
<1>15. CASE L!AnswersDialog(p)
  BY <1>4, <1>5, <1>9, <1>15 DEF L!AnswersDialog, L!At, l
<1> QED BY <1>10, <1>11, <1>12, <1>13, <1>14, <1>15

\* A service that crashed starts again, unless it did so too often.
LEMMA HandleCloseKeeps ==
  ASSUME LanguageInv, NEW p \in Project, L!HandleClose(p)
  PROVE  LanguageInv'
<1> DEFINE l == lsp[p] gone == L!Disconnected(l, "Stopped")
<1>1. Fits(l) /\ l.connection
  BY DEF LanguageInv, ServicesFit, L!HandleClose
<1>2. l # L!NewService
  BY <1>1, NewServiceFits
<1>3. Fits(gone) /\ ~gone.connection
  BY <1>1, DisconnectedFits
<1>4. CASE L!Becomes(p, gone)
  BY <1>2, <1>3, <1>4, BecomesFits
<1>5. ASSUME NEW k \in 0 .. l.recent,
             L!Becomes(p, IF [gone EXCEPT !.recent = L!Recent(l, k)].recent >= RestartLimit
                            THEN [gone EXCEPT !.recent = L!Recent(l, k)]
                            ELSE L!Starting([gone EXCEPT !.recent = L!Recent(l, k)]))
      PROVE  LanguageInv'
  <2> DEFINE crashed == [gone EXCEPT !.recent = L!Recent(l, k)]
  <2>1. k \in 0 .. RestartLimit
    BY <1>1, LanguageAssumptions DEF Fits, ServiceType, L!LimitAssumption
  <2>2. L!Recent(l, k) \in 0 .. RestartLimit
    BY <2>1, RecentTyped
  <2>3. Fits(crashed) /\ ~crashed.connection
    <3> HIDE DEF gone
    <3> QED BY <1>3, <2>2 DEF Fits, Consistent, ServiceType
  <2>4. Fits(L!Starting(crashed))
    BY <2>3, StartingFits
  <2> QED BY <1>2, <1>5, <2>3, <2>4, BecomesFits
<1> QED BY <1>4, <1>5 DEF L!HandleClose

\* The other steps of a service.
LEMMA ServiceGoesOn ==
  ASSUME LanguageInv, NEW p \in Project,
         L!ClickRestart(p) \/ L!Exits(p) \/ L!HandleError(p) \/ L!StopEnds(p)
  PROVE  LanguageInv'
<1> DEFINE l == lsp[p]
<1>1. Fits(l)
  BY DEF LanguageInv, ServicesFit
<1>2. ASSUME NEW m, L!Becomes(p, m), Fits(m), l # L!NewService PROVE LanguageInv'
  BY <1>2, BecomesFits
<1> HIDE DEF l
<1>3. CASE L!ClickRestart(p)
  <2>1. l.state \in {"StartFailed", "Stopped"} /\ ~l.disposed /\ L!Becomes(p, L!Starting(l))
    BY <1>3 DEF L!ClickRestart, l
  <2>2. ~l.connection /\ l # L!NewService
    BY <1>1, <2>1 DEF Fits, Consistent, ServiceType, L!Start, L!NewService
  <2> QED BY <1>1, <1>2, <2>1, <2>2, StartingFits
<1>4. CASE L!Exits(p)
  <2>1. l.server = "alive" /\ L!Becomes(p, [l EXCEPT !.server = "exited"])
    BY <1>4 DEF L!Exits, l
  <2>2. Fits([l EXCEPT !.server = "exited"]) /\ l # L!NewService
    BY <1>1, <2>1 DEF Fits, Consistent, ServiceType, L!NewService
  <2> QED BY <1>2, <2>1, <2>2
<1>5. CASE L!HandleError(p)
  <2>1. l.connection /\ L!Becomes(p, L!Stopped(l))
    BY <1>5 DEF L!HandleError, l
  <2>2. Fits(L!Stopped(l)) /\ l # L!NewService
    BY <1>1, <2>1, StoppedFits, NewServiceFits
  <2> QED BY <1>2, <2>1, <2>2
<1>6. CASE L!StopEnds(p)
  <2>1. l.state = "Stopping" /\ L!Becomes(p, L!Disconnected(l, "Stopped"))
    BY <1>6 DEF L!StopEnds, l
  <2>2. Fits(L!Disconnected(l, "Stopped")) /\ l # L!NewService
    BY <1>1, <2>1, DisconnectedFits DEF L!NewService
  <2> QED BY <1>2, <2>1, <2>2
<1> QED BY <1>3, <1>4, <1>5, <1>6

-----------------------------------------------------------------------------
(* The steps of MultiProjectLanguageService *)

LEMMA MultiKeeps ==
  ASSUME LanguageInv, NEW p \in Project, L!Request(p) \/ L!Emits(p)
  PROVE  LanguageInv'
<1>1. LanguageTyped'
  BY DEF LanguageInv, LanguageTyped, L!Request, L!Emits
<1>2. UNCHANGED lsp /\ \A q \in Project : factory'[q] # "returned" => factory[q] # "returned"
  BY DEF LanguageInv, LanguageTyped, L!Request, L!Emits
<1>3. ServicesFit'
  BY <1>2 DEF LanguageInv, ServicesFit
<1> QED BY <1>1, <1>3 DEF LanguageInv

LEMMA ReturnsKeeps ==
  ASSUME LanguageInv, NEW p \in Project, L!Returns(p)
  PROVE  LanguageInv'
<1>1. lsp[p] = L!NewService
  BY DEF LanguageInv, ServicesFit, L!Returns
<1>2. Fits(L!Starting(lsp[p]))
  BY <1>1, NewServiceFits, StartingFits
<1>3. LanguageTyped'
  BY DEF LanguageInv, LanguageTyped, L!Returns
<1>4. PICK m : m = L!Starting(lsp[p])
  OBVIOUS
<1>5. lsp' = [lsp EXCEPT ![p] = m] /\ Fits(m) /\ factory' = [factory EXCEPT ![p] = "returned"]
  BY <1>2, <1>4 DEF L!Returns
<1>6. ServicesFit'
  BY <1>5 DEF LanguageInv, LanguageTyped, ServicesFit, Fits
<1> QED BY <1>3, <1>6 DEF LanguageInv

LEMMA DisposeKeeps ==
  ASSUME LanguageInv, NEW p \in Project, L!Dispose(p)
  PROVE  LanguageInv'
<1>1. LanguageTyped' /\ UNCHANGED factory /\ factory[p] = "returned"
  BY DEF LanguageInv, LanguageTyped, L!Dispose
<1>2. PICK m : m = [L!Stopped(lsp[p]) EXCEPT !.disposed = TRUE]
  OBVIOUS
<1>3. Fits(m)
  BY <1>2, DisposedFits DEF LanguageInv, ServicesFit
<1>4. lsp' = [lsp EXCEPT ![p] = m]
  BY <1>2 DEF L!Dispose
<1>5. ServicesFit'
  BY <1>1, <1>3, <1>4 DEF LanguageInv, ServicesFit, Fits
<1> QED BY <1>1, <1>5 DEF LanguageInv

LEMMA LanguagesStep ==
  ASSUME LanguageInv, [L!Next]_(L!vars)
  PROVE  LanguageInv'
<1>1. CASE L!ObserveDiagnostics \/ L!CloseProcesses
  <2>1. LanguageTyped'
    BY <1>1 DEF LanguageInv, LanguageTyped, L!ObserveDiagnostics, L!CloseProcesses
  <2>2. ServicesFit'
    BY <1>1 DEF LanguageInv, ServicesFit, L!ObserveDiagnostics, L!CloseProcesses
  <2> QED BY <2>1, <2>2 DEF LanguageInv
<1>2. CASE UNCHANGED L!vars
  BY <1>2 DEF L!vars, L!multiVars, LanguageInv, LanguageTyped, ServicesFit
<1> QED
  BY <1>1, <1>2, MultiKeeps, ReturnsKeeps, DisposeKeeps, StartGoesOn, HandleCloseKeeps,
     ServiceGoesOn DEF L!Next

\* The inductive invariant of the language services: how the state of each, what
\* its start() awaits and its connection belong together.
THEOREM LanguagesInvariant == L!Spec => []LanguageInv
<1>1. LanguageInv /\ [L!Next]_(L!vars) => LanguageInv'
  BY LanguagesStep
<1> QED BY <1>1, InitLanguages, PTL DEF L!Spec

\* However crashes, errors, failed starts, retries and disposals follow each other,
\* no server outlives its connection, and a click on Retry or Restart never makes a
\* second one (LspLanguageService._handleClose, _stop, start).
THEOREM ServersMatch == L!Spec => []ServersMatchStates
<1>1. LanguageInv => ServersMatchStates
  BY DEF LanguageInv, ServicesFit, Fits, Consistent, ServersMatchStates, L!ServersMatchStates
<1> QED BY <1>1, LanguagesInvariant, PTL
-----------------------------------------------------------------------------
(* Watchman *)

CommandType ==
  [by : WatchCall \cup W!Attempt, sub : W!Sub, since : 0 .. MaxClock, verb : W!Awaiting]

\* The types, but for the bounds of the counts.
WatchTyped ==
  /\ IsFiniteSet(W!Sub) /\ name \in [WatchCall -> W!Sub]
  /\ watch \in [WatchCall -> W!Stage]
  /\ entry \in [W!Sub -> WatchCall \cup {W!None}]
  /\ count \in [WatchCall -> Int]
  /\ clock \in 1 .. MaxClock /\ born \in 1 .. clock
  /\ lastKnown \in [{root[s] : s \in W!Sub} -> 0 .. clock]
  /\ client \in {"creating", "live", "dead"}
  /\ commands \in Seq(CommandType)
  /\ phase \in {"idle", "creating", "restoring", "waiting"}
  /\ scheduled \in BOOLEAN
  /\ restoring \subseteq W!Sub
  /\ settling \subseteq [by : W!Attempt, sub : W!Sub]
  /\ feed \in [W!Sub -> 0 .. clock]
  /\ seen \in [WatchCall -> 0 .. clock]
  /\ refused \subseteq WatchCall

\* Watchman is asked for changes since a time that has been.
Timely(c) == c.since <= clock /\ (c.verb = "subscribe" => c.since # 0)

CommandsTimely == \A i \in 1 .. Len(commands) : Timely(commands[i])

\* A dead client will be replaced, and an attempt that creates one waits for it.
Replaced ==
  /\ client = "dead" => phase = "waiting" \/ (phase = "restoring" /\ scheduled)
  /\ phase = "creating" => client = "creating"

\* Watchman will be asked to subscribe to s: the call that made the entry did, or
\* a reconnect will.
Subscribes(q, s, k) ==
  \E i \in 1 .. Len(q) : q[i].verb = "subscribe" /\ q[i].sub = s /\ q[i].by = k

WillSubscribe(s) ==
  \/ Subscribes(commands, s, entry[s])
  \/ phase \in {"creating", "waiting"}
  \/ phase = "restoring" /\ (scheduled \/ s \in restoring)

EntriesPending ==
  \A s \in W!Sub :
    entry[s] \notin refused \cup {W!None} /\ feed[s] = W!Off => WillSubscribe(s)

\* A call awaits the answer to its command, and no other.
Awaited(c) == c.by \in WatchCall => watch[c.by] = c.verb

AllAwaited == \A i \in 1 .. Len(commands) : Awaited(commands[i])

OneEach(q) ==
  \A i, j \in 1 .. Len(q) : q[i].by \in WatchCall /\ q[i].by = q[j].by => i = j

\* A count is at most the number of calls that began, and at least that of those
\* that left, negated.
BegunCalls == {k \in WatchCall : watch[k] # "idle"}
LeftCalls == {k \in WatchCall : watch[k] \in {"left", "unsubscribe", "failed"}}

Counted ==
  \A k \in WatchCall : -Cardinality(LeftCalls) <= count[k] /\ count[k] <= Cardinality(BegunCalls)

\* A command that leads to a subscription.
Leads(c) == c.verb # "unsubscribe"

\* At most one is on its way.
Lone(q) == \A i, j \in 1 .. Len(q) : Leads(q[i]) /\ Leads(q[j]) => i = j

\* Command c, when s is the only subscription, asked for once.  Watchman has not
\* the subscription that is on its way; the attempt under way restores it, or the
\* call asks for it, before any change was seen; and it starts where the last
\* one ended.
Proper(c, s) ==
  /\ Leads(c) => settling = {} /\ feed[s] = W!Off
  /\ c.by \notin WatchCall => Leads(c) /\ c.by = "this attempt" /\ phase = "restoring"
  /\ client = "creating" => c.verb \in {"watch-project", "unsubscribe"}
  /\ c.by \in WatchCall /\ Leads(c) => lastKnown[root[s]] = 0
  /\ c.by \in WatchCall /\ c.verb \in {"watch-project", "clock"} => entry[s] = W!None
  /\ c.verb = "clock" => lastKnown[root[s]] = 0
  /\ c.verb = "subscribe" => lastKnown[root[s]] \in {0, c.since}

\* At most one restore sleeps, that of the attempt under way.
Sleeping(s) ==
  /\ \A t, u \in settling : t = u
  /\ settling # {} => phase = "restoring" /\ feed[s] = W!Off
  /\ \A t \in settling : t.by = "this attempt"

\* A new client, and one that failed, have no subscription.
NewClient(s) ==
  /\ client \in {"creating", "dead"} => feed[s] = W!Off
  /\ client = "creating" => phase \in {"idle", "creating"}

\* The call was told of the changes up to the last clock, if a Watchman that runs
\* told it; the first subscription comes before any.
Told(s) ==
  /\ \A k \in WatchCall :
       IF watch[k] = "idle" THEN seen[k] = 0
       ELSE seen[k] = lastKnown[root[s]] \/ seen[k] < born
  /\ entry[s] # W!None => watch[entry[s]] # "idle"
  /\ (\A k \in WatchCall : watch[k] = "idle") =>
       lastKnown[root[s]] = 0 /\ feed[s] = W!Off /\ commands = <<>> /\ settling = {}
  /\ entry[s] # W!None /\ feed[s] # W!Off /\ lastKnown[root[s]] # 0 =>
       feed[s] = lastKnown[root[s]]

AllProper(s) == \A i \in 1 .. Len(commands) : Proper(commands[i], s)

Single(s) ==
  /\ Lone(commands) /\ AllProper(s)
  /\ Sleeping(s) /\ NewClient(s) /\ Told(s)

AloneInv == \A s \in W!Sub : W!Alone(s) => Single(s)

-----------------------------------------------------------------------------
(* Sequences of commands *)

LEMMA AppendTyped ==
  ASSUME NEW S, NEW q \in Seq(S), NEW c \in S
  PROVE  /\ Append(q, c) \in Seq(S) /\ Len(Append(q, c)) = Len(q) + 1 /\ Len(q) \in Nat
         /\ \A i \in 1 .. Len(q) : Append(q, c)[i] = q[i]
         /\ Append(q, c)[Len(q) + 1] = c
  OBVIOUS

LEMMA TailTyped ==
  ASSUME NEW S, NEW q \in Seq(S), q # <<>>
  PROVE  /\ Head(q) \in S /\ Head(q) = q[1] /\ Len(q) \in Nat \ {0}
         /\ Tail(q) \in Seq(S) /\ Len(Tail(q)) = Len(q) - 1
         /\ \A i \in 1 .. Len(q) - 1 : Tail(q)[i] = q[i + 1]
  OBVIOUS

LEMMA ConcatTyped ==
  ASSUME NEW S, NEW q \in Seq(S), NEW r \in Seq(S)
  PROVE  /\ q \o r \in Seq(S) /\ Len(q) \in Nat /\ Len(r) \in Nat
         /\ \A i \in 1 .. Len(q \o r) :
              \/ i \in 1 .. Len(q) /\ (q \o r)[i] = q[i]
              \/ i - Len(q) \in 1 .. Len(r) /\ (q \o r)[i] = r[i - Len(q)]
  OBVIOUS

LEMMA ConcatShort ==
  ASSUME NEW S, NEW q \in Seq(S), NEW r \in Seq(S)
  PROVE  /\ Len(r) = 0 => q \o r = q
         /\ Len(r) = 1 => r[1] \in S /\ q \o r = Append(q, r[1])
<1>1. ASSUME Len(r) = 0 PROVE q \o r = q
  BY <1>1
<1>2. ASSUME Len(r) = 1 PROVE r[1] \in S /\ q \o r = Append(q, r[1])
  <2>1. r[1] \in S
    BY <1>2
  <2>2. <<r[1]>> \in Seq(S) /\ Len(<<r[1]>>) = 1 /\ <<r[1]>>[1] = r[1]
    BY <2>1
  <2>3. r = <<r[1]>>
    BY <1>2, <2>2, SeqEqual
  <2>4. Append(q, r[1]) = q \o <<r[1]>>
    BY <2>1, AppendIsConcat
  <2> QED BY <2>1, <2>3, <2>4
<1> QED BY <1>1, <1>2

\* An instance has operators of its own.
LEMMA SameOperators ==
  /\ \A S : W!Cardinality(S) = Cardinality(S) /\ (W!IsFiniteSet(S) <=> IsFiniteSet(S))
  /\ \A f : W!IsInjective(f) <=> IsInjective(f)
<1>1. ASSUME NEW S PROVE W!Cardinality(S) = Cardinality(S)
  BY DEF W!Cardinality, Cardinality
<1>2. ASSUME NEW S PROVE W!IsFiniteSet(S) <=> IsFiniteSet(S)
  BY DEF W!IsFiniteSet, IsFiniteSet
<1>3. ASSUME NEW f PROVE W!IsInjective(f) <=> IsInjective(f)
  BY DEF W!IsInjective, IsInjective
<1> QED BY <1>1, <1>2, <1>3

\* The sequence of the members of a finite set.
LEMMA SetToSeqTyped ==
  ASSUME NEW S, IsFiniteSet(S)
  PROVE  W!SetToSeq(S) \in Seq(S) /\ Len(W!SetToSeq(S)) = Cardinality(S)
<1> DEFINE n == Cardinality(S)
<1>1. n \in Nat /\ ExistsBijection(1 .. n, S)
  BY FS_CardinalityType
<1>2. \E f \in [1 .. n -> S] : IsInjective(f)
  BY <1>1 DEF ExistsBijection, Bijection, Injection
<1>3. \E f \in [1 .. W!Cardinality(S) -> S] : W!IsInjective(f)
  BY <1>2, SameOperators
<1>4. W!SetToSeq(S) \in [1 .. W!Cardinality(S) -> S]
  BY <1>3 DEF W!SetToSeq
<1>5. W!SetToSeq(S) \in [1 .. n -> S]
  BY <1>4, SameOperators
<1> SUFFICES W!SetToSeq(S) \in Seq(S) /\ Len(W!SetToSeq(S)) = n
  OBVIOUS
<1> HIDE DEF n
<1> QED BY <1>1, <1>5

-----------------------------------------------------------------------------
(* Watchman: types *)

LEMMA CommandTyped ==
  ASSUME NEW b \in WatchCall \cup W!Attempt, NEW s \in W!Sub, NEW v \in W!Awaiting,
         NEW n \in 0 .. MaxClock
  PROVE  /\ W!Command(b, s, v, n) \in CommandType
         /\ W!Command(b, s, v, n).by = b /\ W!Command(b, s, v, n).sub = s
         /\ W!Command(b, s, v, n).verb = v /\ W!Command(b, s, v, n).since = n
  BY DEF W!Command, CommandType

LEMMA CommandFields ==
  ASSUME NEW c \in CommandType
  PROVE  /\ c.by \in WatchCall \cup W!Attempt /\ c.sub \in W!Sub
         /\ c.verb \in W!Awaiting /\ c.since \in 0 .. MaxClock
  BY DEF CommandType

\* The commands that restore subscriptions.
Restores(subs) == {W!Command("this attempt", s, "watch-project", 0) : s \in subs}

LEMMA RestoresTyped ==
  ASSUME WatchTyped, NEW subs \in SUBSET W!Sub
  PROVE  /\ W!SetToSeq(Restores(subs)) \in Seq(CommandType)
         /\ W!SetToSeq(Restores(subs)) \in Seq(Restores(subs))
         /\ \A c \in Restores(subs) :
              c.verb = "watch-project" /\ c.since = 0 /\ c.by = "this attempt" /\ c.sub \in subs
         /\ Cardinality(subs) \in Nat
         /\ Len(W!SetToSeq(Restores(subs))) = Cardinality(subs)
<1> DEFINE T == Restores(subs)
<1>1. 0 \in 0 .. MaxClock /\ "watch-project" \in W!Awaiting /\ "this attempt" \in W!Attempt
  BY WatchmanAssumptions DEF W!BoundAssumption, W!Awaiting, W!Attempt
<1>2. PICK f : f = [s \in subs |-> W!Command("this attempt", s, "watch-project", 0)]
  OBVIOUS
<1>3. DOMAIN f = subs /\ T = {f[s] : s \in subs} /\ f \in [subs -> T]
  BY <1>2 DEF Restores
<1>4. ASSUME NEW s \in subs
      PROVE  /\ f[s] \in CommandType /\ f[s].sub = s /\ f[s].verb = "watch-project"
             /\ f[s].since = 0 /\ f[s].by = "this attempt"
  <2>1. PICK c : c = W!Command("this attempt", s, "watch-project", 0)
    OBVIOUS
  <2>2. s \in W!Sub
    OBVIOUS
  <2>3. /\ c \in CommandType
        /\ c.sub = s
        /\ c.verb = "watch-project"
        /\ c.since = 0
        /\ c.by = "this attempt"
    <3>1. c \in CommandType
      BY <1>1, <2>1, <2>2, CommandTyped
    <3>2. c.sub = s
      BY <2>1 DEF W!Command
    <3>3. c.verb = "watch-project"
      BY <2>1 DEF W!Command
    <3>4. c.since = 0
      BY <2>1 DEF W!Command
    <3>5. c.by = "this attempt"
      BY <2>1 DEF W!Command
    <3> QED BY <3>1, <3>2, <3>3, <3>4, <3>5
  <2>4. f[s] = c
    BY <1>2, <2>1
  <2> QED BY <2>3, <2>4
<1> HIDE DEF T
<1>5. \A c \in T : /\ c \in CommandType /\ c.verb = "watch-project" /\ c.since = 0
                   /\ c.by = "this attempt" /\ c.sub \in subs
  <2> SUFFICES ASSUME NEW c \in T
               PROVE  /\ c \in CommandType /\ c.verb = "watch-project" /\ c.since = 0
                      /\ c.by = "this attempt" /\ c.sub \in subs
    OBVIOUS
  <2>1. PICK s \in subs : c = f[s]
    BY <1>3
  <2> QED BY <1>4, <2>1
<1>6. f \in Bijection(subs, T)
  <2>1. ASSUME NEW x \in subs, NEW y \in subs, f[x] = f[y] PROVE x = y
    <3>1. f[x].sub = x /\ f[y].sub = y
      BY <1>4
    <3> QED BY <2>1, <3>1
  <2> QED BY <1>3, <2>1 DEF Bijection, Injection, Surjection, IsInjective
<1>7. IsFiniteSet(subs) /\ Cardinality(subs) \in Nat
  BY FS_Subset, FS_CardinalityType DEF WatchTyped
<1>8. IsFiniteSet(T) /\ Cardinality(T) = Cardinality(subs)
  BY <1>6, <1>7, FS_Bijection DEF ExistsBijection
<1>9. W!SetToSeq(T) \in Seq(T) /\ Len(W!SetToSeq(T)) = Cardinality(subs)
  BY <1>8, SetToSeqTyped
<1>10. W!SetToSeq(T) \in Seq(CommandType)
  <2>1. T \subseteq CommandType
    BY <1>5
  <2> QED BY <1>9, <2>1
<1> QED BY <1>5, <1>7, <1>9, <1>10 DEF T

-----------------------------------------------------------------------------
(* Watchman: the types are kept *)

\* What a step leaves alone, or does to the queue: it holds commands of the type.
LEMMA QueueAsked ==
  ASSUME WatchTyped, NEW q \in Seq(CommandType), \A i \in 1 .. Len(q) : Timely(q[i]),
         NEW b \in WatchCall \cup W!Attempt, NEW s \in W!Sub, NEW v \in W!Awaiting,
         NEW n \in 0 .. clock, v = "subscribe" => n # 0
  PROVE  /\ Append(q, W!Command(b, s, v, n)) \in Seq(CommandType)
         /\ \A i \in 1 .. Len(Append(q, W!Command(b, s, v, n))) :
              Timely(Append(q, W!Command(b, s, v, n))[i])
<1>1. n \in 0 .. MaxClock /\ clock \in Int
  BY WatchmanAssumptions DEF WatchTyped, W!BoundAssumption
<1>2. PICK c : c = W!Command(b, s, v, n)
  OBVIOUS
<1>3. c \in CommandType
  BY <1>1, <1>2, CommandTyped
<1>4. c.verb = v
  BY <1>2 DEF W!Command
<1>5. c.since = n
  BY <1>2 DEF W!Command
<1>6. Timely(c)
  BY <1>1, <1>4, <1>5 DEF Timely
<1>7. Append(q, c) \in Seq(CommandType) /\ \A i \in 1 .. Len(Append(q, c)) : Timely(Append(q, c)[i])
  <2> SUFFICES ASSUME NEW i \in 1 .. Len(Append(q, c)) PROVE Timely(Append(q, c)[i])
    BY <1>3, AppendTyped
  <2>1. CASE i = Len(q) + 1
    BY <1>3, <1>6, <2>1, AppendTyped
  <2>2. CASE i \in 1 .. Len(q)
    BY <1>3, <2>2, AppendTyped
  <2> QED BY <1>3, <2>1, <2>2, AppendTyped
<1> QED BY <1>2, <1>7

LEMMA QueuePopped ==
  ASSUME WatchTyped, CommandsTimely, commands # <<>>
  PROVE  /\ Tail(commands) \in Seq(CommandType)
         /\ \A i \in 1 .. Len(Tail(commands)) : Timely(Tail(commands)[i])
         /\ Head(commands) \in CommandType /\ Timely(Head(commands))
<1>1. commands \in Seq(CommandType)
  BY DEF WatchTyped
<1>2. /\ Head(commands) = commands[1] /\ Len(commands) \in Nat \ {0}
      /\ Len(Tail(commands)) = Len(commands) - 1
      /\ \A i \in 1 .. Len(commands) - 1 : Tail(commands)[i] = commands[i + 1]
  BY <1>1, TailTyped
<1>3. \A i \in 1 .. Len(Tail(commands)) : Timely(Tail(commands)[i])
  <2> TAKE i \in 1 .. Len(Tail(commands))
  <2>1. i + 1 \in 1 .. Len(commands) /\ Tail(commands)[i] = commands[i + 1]
    BY <1>2
  <2> QED BY <2>1 DEF CommandsTimely
<1>4. Timely(Head(commands))
  BY <1>2 DEF CommandsTimely
<1> QED BY <1>1, <1>3, <1>4, TailTyped

\* A queue of timely commands is typed after a step that moves no root.
LEMMA QueueKept ==
  ASSUME root' = root, clock' = clock, commands' \in Seq(CommandType),
         \A i \in 1 .. Len(commands') : Timely(commands'[i])
  PROVE  W!Sub' = W!Sub /\ commands' \in Seq(CommandType)' /\ CommandsTimely'
<1>1. W!Sub' = W!Sub
  BY DEF W!Sub
<1>2. CommandType' = CommandType
  BY <1>1 DEF CommandType
<1>3. CommandsTimely'
  BY DEF CommandsTimely, Timely
<1> QED BY <1>1, <1>2, <1>3

LEMMA WatchTypes ==
  ASSUME WatchTyped, CommandsTimely, NEW k \in WatchCall, W!Watch(k)
  PROVE  WatchTyped' /\ CommandsTimely'
<1>1. /\ UNCHANGED <<root, name, entry, lastKnown, client, phase, scheduled, restoring, settling,
                     refused, clock, born, feed, seen>>
  BY DEF W!Watch, W!reconnectVars, W!eventVars
<1>2. name[k] \in W!Sub /\ entry[name[k]] \in WatchCall \cup {W!None} /\ 0 \in 0 .. clock
  BY DEF WatchTyped
<1>3. watch' \in [WatchCall -> W!Stage] /\ count' \in [WatchCall -> Int]
  <2>1. \E w \in W!Stage : watch' = [watch EXCEPT ![k] = w]
    BY DEF W!Watch, W!Stage, W!Awaiting
  <2>2. \/ count' = count
        \/ \E o \in WatchCall : count' = [count EXCEPT ![o] = @ + 1]
    BY <1>2 DEF W!Watch
  <2> QED BY <2>1, <2>2 DEF WatchTyped
<1>4. commands' = commands \/ commands' = Append(commands, W!Command(k, name[k], "watch-project", 0))
  BY DEF W!Watch, W!Ask
<1>5. commands' \in Seq(CommandType) /\ \A i \in 1 .. Len(commands') : Timely(commands'[i])
  <2>1. commands \in Seq(CommandType) /\ \A i \in 1 .. Len(commands) : Timely(commands[i])
    BY DEF WatchTyped, CommandsTimely
  <2> QED BY <1>2, <1>4, <2>1, QueueAsked DEF W!Awaiting
<1>6. W!Sub' = W!Sub /\ commands' \in Seq(CommandType)' /\ CommandsTimely'
  BY <1>1, <1>5, QueueKept
<1> QED BY <1>1, <1>3, <1>6 DEF WatchTyped

LEMMA UnwatchTypes ==
  ASSUME WatchTyped, CommandsTimely, NEW k \in WatchCall, W!Unwatch(k)
  PROVE  WatchTyped' /\ CommandsTimely'
<1>1. /\ UNCHANGED <<root, name, entry, lastKnown, client, phase, scheduled, restoring, settling,
                     refused, clock, born, feed, seen>>
  BY DEF W!Unwatch, W!reconnectVars, W!eventVars
<1>2. name[k] \in W!Sub /\ entry[name[k]] \in WatchCall \cup {W!None} /\ 0 \in 0 .. clock
  BY DEF WatchTyped
<1>3. watch' \in [WatchCall -> W!Stage] /\ count' \in [WatchCall -> Int]
  <2>1. \E w \in W!Stage : watch' = [watch EXCEPT ![k] = w]
    BY DEF W!Unwatch, W!Stage, W!Awaiting
  <2>2. \/ count' = count
        \/ \E o \in WatchCall : count' = [count EXCEPT ![o] = @ - 1]
    BY <1>2 DEF W!Unwatch
  <2> QED BY <2>1, <2>2 DEF WatchTyped
<1>4. commands' = commands \/ commands' = Append(commands, W!Command(k, name[k], "unsubscribe", 0))
  BY DEF W!Unwatch, W!Ask
<1>5. commands' \in Seq(CommandType) /\ \A i \in 1 .. Len(commands') : Timely(commands'[i])
  <2>1. commands \in Seq(CommandType) /\ \A i \in 1 .. Len(commands) : Timely(commands[i])
    BY DEF WatchTyped, CommandsTimely
  <2> QED BY <1>2, <1>4, <2>1, QueueAsked DEF W!Awaiting
<1>6. W!Sub' = W!Sub /\ commands' \in Seq(CommandType)' /\ CommandsTimely'
  BY <1>1, <1>5, QueueKept
<1> QED BY <1>1, <1>3, <1>6 DEF WatchTyped

LEMMA AnswerCallTypes ==
  ASSUME WatchTyped, CommandsTimely, W!Answer, Head(commands).by \in WatchCall
  PROVE  WatchTyped' /\ CommandsTimely'
<1>1. PICK c : c = Head(commands)
  OBVIOUS
<1>2. /\ commands # <<>> /\ W!AnswerCall(c)
      /\ UNCHANGED <<root, name, lastKnown, client, phase, scheduled, restoring, settling,
                     refused, clock, born, seen>>
  BY <1>1 DEF W!Answer, W!AnswerCall, W!reconnectVars
<1>3. /\ Tail(commands) \in Seq(CommandType)
      /\ \A i \in 1 .. Len(Tail(commands)) : Timely(Tail(commands)[i])
      /\ c \in CommandType /\ Timely(c)
  BY <1>1, <1>2, QueuePopped
<1>4. /\ c.by \in WatchCall /\ c.sub \in W!Sub /\ c.verb \in W!Awaiting
      /\ c.since \in 0 .. MaxClock /\ c.since <= clock
  BY <1>1, <1>3, CommandFields DEF Timely
<1>5. clock \in 1 .. MaxClock /\ MaxClock \in Nat
  BY WatchmanAssumptions DEF WatchTyped, W!BoundAssumption
<1>6. /\ watch' \in [WatchCall -> W!Stage] /\ count' \in [WatchCall -> Int]
      /\ entry' \in [W!Sub -> WatchCall \cup {W!None}]
  <2>1. \E w \in W!Stage : watch' = [watch EXCEPT ![c.by] = w]
    BY <1>2 DEF W!AnswerCall, W!Stage, W!Awaiting
  <2>2. count' = count \/ count' = [count EXCEPT ![c.by] = 1]
    BY <1>2 DEF W!AnswerCall
  <2>3. \/ entry' = entry
        \/ entry' = [entry EXCEPT ![c.sub] = c.by]
        \/ entry' = [entry EXCEPT ![c.sub] = W!None]
    BY <1>2 DEF W!AnswerCall, W!DeleteSubscription
  <2>4. watch' \in [WatchCall -> W!Stage]
    BY <1>4, <2>1 DEF WatchTyped
  <2>5. count' \in [WatchCall -> Int]
    BY <1>4, <2>2 DEF WatchTyped
  <2>6. entry' \in [W!Sub -> WatchCall \cup {W!None}]
    BY <1>4, <2>3 DEF WatchTyped
  <2> QED BY <2>4, <2>5, <2>6
<1>7. feed' \in [W!Sub -> 0 .. clock]
  <2>1. \/ feed' = feed
        \/ \E n \in 0 .. clock : feed' = [feed EXCEPT ![c.sub] = n]
    BY <1>2, <1>4, <1>5 DEF W!AnswerCall, W!Feeds, W!Off
  <2> QED BY <1>4, <2>1 DEF WatchTyped
<1>8. \/ commands' = Tail(commands)
      \/ commands' = Append(Tail(commands), W!Command(c.by, c.sub, "clock", 0))
      \/ commands' = Append(Tail(commands), W!Command(c.by, c.sub, "subscribe", clock))
  BY <1>2 DEF W!AnswerCall
<1>9. commands' \in Seq(CommandType) /\ \A i \in 1 .. Len(commands') : Timely(commands'[i])
  <2>1. 0 \in 0 .. clock /\ clock \in 0 .. clock /\ clock # 0
    BY <1>5
  <2> QED BY <1>3, <1>4, <1>8, <2>1, QueueAsked DEF W!Awaiting
<1>10. W!Sub' = W!Sub /\ commands' \in Seq(CommandType)' /\ CommandsTimely'
  BY <1>2, <1>9, QueueKept
<1> QED BY <1>2, <1>6, <1>7, <1>10 DEF WatchTyped

LEMMA AnswerRestoreTypes ==
  ASSUME WatchTyped, CommandsTimely, W!Answer, Head(commands).by \notin WatchCall
  PROVE  WatchTyped' /\ CommandsTimely'
<1>1. PICK c : c = Head(commands)
  OBVIOUS
<1>2. /\ commands # <<>> /\ W!AnswerRestore(c)
      /\ UNCHANGED <<root, name, lastKnown, client, refused, clock, born, seen, watch, entry,
                     count>>
  BY <1>1 DEF W!Answer, W!AnswerRestore
<1>3. /\ Tail(commands) \in Seq(CommandType)
      /\ \A i \in 1 .. Len(Tail(commands)) : Timely(Tail(commands)[i])
      /\ c \in CommandType /\ Timely(c)
  BY <1>1, <1>2, QueuePopped
<1>4. /\ c.by \in W!Attempt /\ c.sub \in W!Sub /\ c.since \in 0 .. MaxClock /\ c.since <= clock
  BY <1>1, <1>3, CommandFields DEF Timely
<1>5. clock \in 1 .. MaxClock /\ MaxClock \in Nat
  BY WatchmanAssumptions DEF WatchTyped, W!BoundAssumption
<1>6. feed' \in [W!Sub -> 0 .. clock]
  <2>1. c.since \in 0 .. clock /\ 0 \in 0 .. clock
    BY <1>4, <1>5
  <2>2. feed' = feed \/ feed' = [feed EXCEPT ![c.sub] = IF client = "live" THEN c.since ELSE 0]
    BY <1>2 DEF W!AnswerRestore, W!Feeds, W!Off, W!reconnectVars
  <2>3. \E n \in 0 .. clock : feed' = feed \/ feed' = [feed EXCEPT ![c.sub] = n]
    BY <2>1, <2>2
  <2> QED BY <1>4, <2>3 DEF WatchTyped
<1>7. \/ commands' = Tail(commands)
      \/ commands' = Append(Tail(commands), W!Command(c.by, c.sub, "subscribe", clock))
  BY <1>2 DEF W!AnswerRestore
<1>8. commands' \in Seq(CommandType) /\ \A i \in 1 .. Len(commands') : Timely(commands'[i])
  <2>1. clock \in 0 .. clock /\ clock # 0
    BY <1>5
  <2> QED BY <1>3, <1>4, <1>7, <2>1, QueueAsked DEF W!Awaiting
<1>9. /\ phase' \in {"idle", "creating", "restoring", "waiting"}
      /\ scheduled' \in BOOLEAN /\ restoring' \subseteq W!Sub
  BY <1>2 DEF W!AnswerRestore, W!Restored, W!reconnectVars, WatchTyped
<1>10. settling' \subseteq [by : W!Attempt, sub : W!Sub]
  <2>1. settling' = settling \/ settling' = settling \cup {[by |-> c.by, sub |-> c.sub]}
    BY <1>2 DEF W!AnswerRestore, W!reconnectVars
  <2>2. [by |-> c.by, sub |-> c.sub] \in [by : W!Attempt, sub : W!Sub]
    BY <1>4
  <2> QED BY <2>1, <2>2 DEF WatchTyped
<1>11. W!Sub' = W!Sub /\ commands' \in Seq(CommandType)' /\ CommandsTimely'
  BY <1>2, <1>8, QueueKept
<1> QED BY <1>2, <1>6, <1>9, <1>10, <1>11 DEF WatchTyped

LEMMA RefuseTypes ==
  ASSUME WatchTyped, CommandsTimely, W!Refuse
  PROVE  WatchTyped' /\ CommandsTimely'
<1>1. /\ commands # <<>> /\ commands' = Tail(commands)
      /\ UNCHANGED <<root, name, entry, count, lastKnown, client, scheduled, restoring, settling,
                     clock, born, feed, seen>>
  BY DEF W!Refuse, W!mapVars, W!eventVars
<1>2. watch' \in [WatchCall -> W!Stage] /\ refused' \subseteq WatchCall
  BY DEF W!Refuse, WatchTyped, W!Stage
<1>3. phase' \in {"idle", "creating", "restoring", "waiting"}
  BY DEF W!Refuse, WatchTyped
<1>4. W!Sub' = W!Sub /\ commands' \in Seq(CommandType)' /\ CommandsTimely'
  BY <1>1, QueuePopped, QueueKept
<1> QED BY <1>1, <1>2, <1>3, <1>4 DEF WatchTyped

LEMMA ClientCreatedTypes ==
  ASSUME WatchTyped, CommandsTimely, W!ClientCreated
  PROVE  WatchTyped' /\ CommandsTimely'
<1>1. /\ client' = "live"
      /\ UNCHANGED <<root, name, watch, entry, count, lastKnown, settling, refused, clock, born,
                     feed, seen>>
  BY DEF W!ClientCreated, W!callVars, W!mapVars, W!eventVars
<1>2. PICK subs : subs = {s \in W!Sub : entry[s] # W!None}
  OBVIOUS
<1>3. subs \in SUBSET W!Sub
  BY <1>2
<1>4. CASE phase = "creating"
  <2>1. /\ restoring' = subs
        /\ phase' = IF subs # {} THEN "restoring" ELSE IF scheduled THEN "waiting" ELSE "idle"
        /\ scheduled' = (scheduled /\ subs # {})
        /\ commands' = commands \o W!SetToSeq(Restores(subs))
    BY <1>2, <1>4 DEF W!ClientCreated, Restores
  <2>2. PICK r : r = W!SetToSeq(Restores(subs))
    OBVIOUS
  <2>3. /\ r \in Seq(CommandType) /\ r \in Seq(Restores(subs))
        /\ \A c \in Restores(subs) : c.verb = "watch-project" /\ c.since = 0
    BY <1>3, <2>2, RestoresTyped
  <2>4. /\ commands \o r \in Seq(CommandType) /\ Len(commands) \in Nat /\ Len(r) \in Nat
        /\ \A i \in 1 .. Len(commands \o r) :
             \/ i \in 1 .. Len(commands) /\ (commands \o r)[i] = commands[i]
             \/ i - Len(commands) \in 1 .. Len(r) /\ (commands \o r)[i] = r[i - Len(commands)]
    BY <2>3, ConcatTyped DEF WatchTyped
  <2>5. \A j \in 1 .. Len(r) : Timely(r[j])
    <3> TAKE j \in 1 .. Len(r)
    <3>1. r[j] \in Restores(subs)
      BY <2>3
    <3>2. r[j].verb = "watch-project" /\ r[j].since = 0 /\ clock \in Nat
      BY <2>3, <3>1 DEF WatchTyped
    <3> QED BY <3>2 DEF Timely
  <2>6. commands' \in Seq(CommandType) /\ \A i \in 1 .. Len(commands') : Timely(commands'[i])
    BY <2>1, <2>2, <2>4, <2>5 DEF CommandsTimely
  <2>7. W!Sub' = W!Sub /\ commands' \in Seq(CommandType)' /\ CommandsTimely'
    BY <1>1, <2>6, QueueKept
  <2>8. phase' \in {"idle", "creating", "restoring", "waiting"}
        /\ scheduled' \in BOOLEAN /\ restoring' \subseteq W!Sub
    BY <1>3, <2>1 DEF WatchTyped
  <2> QED BY <1>1, <2>7, <2>8 DEF WatchTyped
<1>5. CASE phase # "creating"
  <2>1. UNCHANGED <<restoring, phase, scheduled, commands>>
    BY <1>5 DEF W!ClientCreated
  <2>2. W!Sub' = W!Sub /\ commands' \in Seq(CommandType)' /\ CommandsTimely'
    BY <1>1, <2>1, QueueKept DEF WatchTyped, CommandsTimely
  <2> QED BY <1>1, <2>1, <2>2 DEF WatchTyped
<1> QED BY <1>4, <1>5

\* The end of a client, whatever follows.
LEMMA EmptyQueue ==
  ASSUME root' = root, clock' = clock, commands' = <<>>
  PROVE  W!Sub' = W!Sub /\ commands' \in Seq(CommandType)' /\ CommandsTimely'
<1>1. commands' \in Seq(CommandType) /\ Len(commands') = 0
  OBVIOUS
<1> QED BY <1>1, QueueKept

LEMMA EndClientTypes ==
  ASSUME WatchTyped, W!EndClient
  PROVE  watch' \in [WatchCall -> W!Stage] /\ feed' \in [W!Sub -> 0 .. clock]
BY DEF WatchTyped, W!EndClient, W!Cancelled, W!Stage, W!Off

LEMMA BeginReconnectTypes ==
  ASSUME WatchTyped, CommandsTimely, W!BeginReconnect,
         UNCHANGED <<root, name, entry, count, lastKnown, scheduled, clock, born, seen>>
  PROVE  WatchTyped' /\ CommandsTimely'
<1>1. /\ client' = "creating" /\ phase' = "creating" /\ restoring' = {} /\ commands' = <<>>
      /\ refused' = {} /\ W!EndClient
  BY DEF W!BeginReconnect
<1>2. settling' \subseteq [by : W!Attempt, sub : W!Sub]
  <2> SUFFICES ASSUME NEW u \in settling' PROVE u \in [by : W!Attempt, sub : W!Sub]
    OBVIOUS
  <2>1. PICK t \in settling : u = [by |-> "an earlier one", sub |-> t.sub]
    BY DEF W!BeginReconnect
  <2>2. t.sub \in W!Sub /\ "an earlier one" \in W!Attempt
    BY DEF WatchTyped, W!Attempt
  <2> QED BY <2>1, <2>2
<1>3. W!Sub' = W!Sub /\ commands' \in Seq(CommandType)' /\ CommandsTimely'
  BY <1>1, EmptyQueue
<1>4. watch' \in [WatchCall -> W!Stage] /\ feed' \in [W!Sub -> 0 .. clock]
  BY <1>1, EndClientTypes
<1> QED BY <1>1, <1>2, <1>3, <1>4 DEF WatchTyped

LEMMA DropClientTypes ==
  ASSUME WatchTyped, CommandsTimely, W!DropClient, scheduled' = TRUE,
         UNCHANGED <<root, name, entry, count, lastKnown, restoring, settling, refused, clock, born,
                     seen>>
  PROVE  WatchTyped' /\ CommandsTimely'
<1>1. client' = "dead" /\ commands' = <<>> /\ W!EndClient
  BY DEF W!DropClient
<1>2. phase' \in {"idle", "creating", "restoring", "waiting"}
  BY DEF W!DropClient, WatchTyped
<1>3. W!Sub' = W!Sub /\ commands' \in Seq(CommandType)' /\ CommandsTimely'
  BY <1>1, EmptyQueue
<1>4. watch' \in [WatchCall -> W!Stage] /\ feed' \in [W!Sub -> 0 .. clock]
  BY <1>1, EndClientTypes
<1> QED BY <1>1, <1>2, <1>3, <1>4 DEF WatchTyped

LEMMA ClientFailsTypes ==
  ASSUME WatchTyped, CommandsTimely, W!ClientFails
  PROVE  WatchTyped' /\ CommandsTimely'
<1>1. UNCHANGED <<root, name, entry, count, lastKnown, clock, born, seen>>
  BY DEF W!ClientFails, W!mapVars
<1>2. CASE W!BeginReconnect /\ UNCHANGED scheduled
  BY <1>1, <1>2, BeginReconnectTypes
<1>3. CASE W!DropClient /\ scheduled' = TRUE /\ UNCHANGED <<restoring, settling, refused>>
  BY <1>1, <1>3, DropClientTypes
<1> QED BY <1>2, <1>3 DEF W!ClientFails

LEMMA RetryTypes ==
  ASSUME WatchTyped, CommandsTimely, W!Retry
  PROVE  WatchTyped' /\ CommandsTimely'
<1>1. /\ UNCHANGED <<root, name, entry, count, lastKnown, scheduled, clock, born, seen>>
      /\ W!BeginReconnect
  BY DEF W!Retry, W!mapVars
<1> QED BY <1>1, BeginReconnectTypes

LEMMA SettledTypes ==
  ASSUME WatchTyped, CommandsTimely, NEW t \in settling, W!Settled(t)
  PROVE  WatchTyped' /\ CommandsTimely'
<1>1. /\ settling' = settling \ {t}
      /\ UNCHANGED <<root, name, watch, entry, count, lastKnown, client, phase, scheduled, restoring,
                     refused, clock, born, feed, seen>>
  BY DEF W!Settled, W!callVars, W!mapVars, W!eventVars
<1>2. t.by \in W!Attempt /\ t.sub \in W!Sub
  BY DEF WatchTyped
<1>3. PICK n : n = lastKnown[root[t.sub]]
  OBVIOUS
<1>4. n \in 0 .. clock /\ n = W!Since(t.sub)
  BY <1>2, <1>3 DEF WatchTyped, W!Since
<1>5. PICK v : v = IF n = 0 THEN "clock" ELSE "subscribe"
  OBVIOUS
<1>6. v \in W!Awaiting /\ (v = "subscribe" => n # 0)
  BY <1>5 DEF W!Awaiting
<1>7. commands' = Append(commands, W!Command(t.by, t.sub, v, n))
  BY <1>4, <1>5 DEF W!Settled, W!Ask
<1>8. commands \in Seq(CommandType) /\ \A i \in 1 .. Len(commands) : Timely(commands[i])
  BY DEF WatchTyped, CommandsTimely
<1>9. commands' \in Seq(CommandType) /\ \A i \in 1 .. Len(commands') : Timely(commands'[i])
  BY <1>2, <1>4, <1>6, <1>7, <1>8, QueueAsked
<1>10. W!Sub' = W!Sub /\ commands' \in Seq(CommandType)' /\ CommandsTimely'
  BY <1>1, <1>9, QueueKept
<1> QED BY <1>1, <1>10 DEF WatchTyped

LEMMA ChangeTypes ==
  ASSUME WatchTyped, CommandsTimely, W!Change \/ W!WatchmanRestarts
  PROVE  WatchTyped' /\ CommandsTimely'
<1>1. /\ clock < MaxClock /\ clock' = clock + 1 /\ born' \in {born, clock'}
      /\ UNCHANGED <<root, name, watch, entry, count, lastKnown, client, commands, phase, scheduled,
                     restoring, settling, refused, feed, seen>>
  BY DEF W!Change, W!WatchmanRestarts, W!callVars, W!mapVars, W!clientVars, W!reconnectVars
<1>2. W!Sub' = W!Sub
  BY <1>1 DEF W!Sub
<1>3. CommandType' = CommandType
  BY <1>2 DEF CommandType
<1>4. clock \in 1 .. MaxClock /\ MaxClock \in Nat
  BY WatchmanAssumptions DEF WatchTyped, W!BoundAssumption
<1>5. /\ clock' \in 1 .. MaxClock /\ born' \in 1 .. clock'
      /\ \A n \in 0 .. clock : n \in 0 .. clock'
  BY <1>1, <1>4 DEF WatchTyped
<1>6. /\ lastKnown \in [{root[s] : s \in W!Sub} -> 0 .. clock']
      /\ feed \in [W!Sub -> 0 .. clock'] /\ seen \in [WatchCall -> 0 .. clock']
  BY <1>5 DEF WatchTyped
<1>7. CommandsTimely'
  <2>1. ASSUME NEW i \in 1 .. Len(commands) PROVE Timely(commands[i])'
    <3>1. Timely(commands[i])
      BY DEF CommandsTimely
    <3>2. commands[i] \in CommandType
      BY DEF WatchTyped
    <3>3. commands[i].since \in 0 .. MaxClock
      BY <3>2, CommandFields
    <3>4. commands[i].since <= clock + 1
      BY <1>4, <3>1, <3>3 DEF Timely
    <3> QED BY <1>1, <3>1, <3>4 DEF Timely
  <2> QED BY <1>1, <2>1 DEF CommandsTimely
<1>8. lastKnown' \in [{root'[s] : s \in W!Sub'} -> 0 .. clock']
  BY <1>1, <1>2, <1>6
<1> QED BY <1>1, <1>2, <1>3, <1>5, <1>6, <1>7, <1>8 DEF WatchTyped

LEMMA EventTypes ==
  ASSUME WatchTyped, CommandsTimely, NEW s \in W!Sub, W!Event(s)
  PROVE  WatchTyped' /\ CommandsTimely'
<1>1. UNCHANGED <<root, name, watch, entry, count, client, commands, phase, scheduled, restoring,
                  settling, refused, clock, born>>
  BY DEF W!Event, W!callVars, W!clientVars, W!reconnectVars
<1>2. W!Sub' = W!Sub /\ commands' \in Seq(CommandType)' /\ CommandsTimely'
  BY <1>1, QueueKept DEF WatchTyped, CommandsTimely
<1>3. clock \in 0 .. clock /\ entry[s] \in WatchCall \cup {W!None}
  BY DEF WatchTyped
<1>4. feed' \in [W!Sub -> 0 .. clock]
  BY <1>3 DEF W!Event, WatchTyped
<1>5. seen' \in [WatchCall -> 0 .. clock]
  BY <1>3 DEF W!Event, WatchTyped
<1>6. lastKnown' \in [{root[x] : x \in W!Sub} -> 0 .. clock]
  BY <1>3 DEF W!Event, WatchTyped
<1>7. lastKnown' \in [{root'[x] : x \in W!Sub'} -> 0 .. clock']
  BY <1>1, <1>2, <1>6
<1> QED BY <1>1, <1>2, <1>4, <1>5, <1>7 DEF WatchTyped

LEMMA WatchmanTypesKept ==
  WatchTyped /\ CommandsTimely /\ [W!Next]_(W!vars) => WatchTyped' /\ CommandsTimely'
<1> SUFFICES ASSUME WatchTyped, CommandsTimely, [W!Next]_(W!vars)
             PROVE  WatchTyped' /\ CommandsTimely'
  OBVIOUS
<1>1. CASE UNCHANGED W!vars
  <2>1. UNCHANGED <<root, name, watch, entry, count, lastKnown, client, commands, phase, scheduled,
                    restoring, settling, refused, clock, born, feed, seen>>
    BY <1>1 DEF W!vars, W!callVars, W!mapVars, W!clientVars, W!reconnectVars, W!eventVars
  <2>2. W!Sub' = W!Sub /\ commands' \in Seq(CommandType)' /\ CommandsTimely'
    BY <2>1, QueueKept DEF WatchTyped, CommandsTimely
  <2> QED BY <2>1, <2>2 DEF WatchTyped
<1>2. CASE \E k \in WatchCall : W!Watch(k) \/ W!Unwatch(k)
  BY <1>2, WatchTypes, UnwatchTypes
<1>3. CASE W!Answer
  BY <1>3, AnswerCallTypes, AnswerRestoreTypes
<1>4. CASE \E t \in settling : W!Settled(t)
  BY <1>4, SettledTypes
<1>5. CASE \E s \in W!Sub : W!Event(s)
  BY <1>5, EventTypes
<1>6. CASE W!Refuse
  BY <1>6, RefuseTypes
<1>7. CASE W!ClientCreated
  BY <1>7, ClientCreatedTypes
<1>8. CASE W!ClientFails
  BY <1>8, ClientFailsTypes
<1>9. CASE W!Retry
  BY <1>9, RetryTypes
<1>10. CASE W!Change \/ W!WatchmanRestarts
  BY <1>10, ChangeTypes
<1> QED BY <1>1, <1>2, <1>3, <1>4, <1>5, <1>6, <1>7, <1>8, <1>9, <1>10 DEF W!Next

-----------------------------------------------------------------------------
(* Watchman: EntriesSubscribed *)

LEMMA AppendSubscribes ==
  ASSUME NEW q \in Seq(CommandType), NEW c \in CommandType, NEW s, NEW k
  PROVE  /\ Subscribes(q, s, k) => Subscribes(Append(q, c), s, k)
         /\ c.verb = "subscribe" /\ c.sub = s /\ c.by = k => Subscribes(Append(q, c), s, k)
<1>1. /\ Append(q, c) \in Seq(CommandType) /\ Len(Append(q, c)) = Len(q) + 1 /\ Len(q) \in Nat
      /\ \A i \in 1 .. Len(q) : Append(q, c)[i] = q[i]
      /\ Append(q, c)[Len(q) + 1] = c
  BY AppendTyped
<1>2. ASSUME Subscribes(q, s, k) PROVE Subscribes(Append(q, c), s, k)
  <2>1. PICK i \in 1 .. Len(q) : q[i].verb = "subscribe" /\ q[i].sub = s /\ q[i].by = k
    BY <1>2 DEF Subscribes
  <2>2. i \in 1 .. Len(Append(q, c)) /\ Append(q, c)[i] = q[i]
    BY <1>1
  <2> QED BY <2>1, <2>2 DEF Subscribes
<1>3. ASSUME c.verb = "subscribe", c.sub = s, c.by = k PROVE Subscribes(Append(q, c), s, k)
  <2>1. Len(q) + 1 \in 1 .. Len(Append(q, c))
    BY <1>1
  <2> QED BY <1>1, <1>3, <2>1 DEF Subscribes
<1> QED BY <1>2, <1>3

LEMMA TailSubscribes ==
  ASSUME NEW q \in Seq(CommandType), q # <<>>, NEW s, NEW k, Subscribes(q, s, k)
  PROVE  \/ Subscribes(Tail(q), s, k)
         \/ Head(q).verb = "subscribe" /\ Head(q).sub = s /\ Head(q).by = k
<1>1. /\ Head(q) = q[1] /\ Len(q) \in Nat \ {0} /\ Len(Tail(q)) = Len(q) - 1
      /\ \A i \in 1 .. Len(q) - 1 : Tail(q)[i] = q[i + 1]
  BY TailTyped
<1>2. PICK i \in 1 .. Len(q) : q[i].verb = "subscribe" /\ q[i].sub = s /\ q[i].by = k
  BY DEF Subscribes
<1>3. CASE i # 1
  <2>1. i - 1 \in 1 .. Len(Tail(q)) /\ Tail(q)[i - 1] = q[i]
    BY <1>1, <1>3
  <2> QED BY <1>2, <2>1 DEF Subscribes
<1>4. CASE i = 1
  BY <1>1, <1>2, <1>4
<1> QED BY <1>3, <1>4

\* What a step does to the subscriptions that Watchman has not: each of them is
\* asked for as before, or will be.
LEMMA PendingKept ==
  ASSUME EntriesPending, root' = root,
         \A s \in W!Sub : entry'[s] \notin refused' \cup {W!None} /\ feed'[s] = W!Off =>
           \/ WillSubscribe(s)'
           \/ /\ entry'[s] = entry[s] /\ entry[s] \notin refused \cup {W!None}
              /\ feed[s] = W!Off
              /\ Subscribes(commands, s, entry[s]) => Subscribes(commands', s, entry[s])
              /\ UNCHANGED <<phase, scheduled, restoring>>
  PROVE  EntriesPending'
<1> SUFFICES ASSUME NEW s \in W!Sub, entry'[s] \notin refused' \cup {W!None}, feed'[s] = W!Off
             PROVE  WillSubscribe(s)'
  BY DEF EntriesPending, W!Sub, W!None, W!Off
<1>1. CASE /\ entry'[s] = entry[s] /\ entry[s] \notin refused \cup {W!None}
           /\ feed[s] = W!Off
           /\ Subscribes(commands, s, entry[s]) => Subscribes(commands', s, entry[s])
           /\ UNCHANGED <<phase, scheduled, restoring>>
  <2>1. WillSubscribe(s)
    BY <1>1 DEF EntriesPending
  <2> QED BY <1>1, <2>1 DEF WillSubscribe
<1> QED BY <1>1

\* A call asks.
LEMMA CallPending ==
  ASSUME WatchTyped, Replaced, EntriesPending, NEW k \in WatchCall, W!Watch(k) \/ W!Unwatch(k)
  PROVE  Replaced' /\ EntriesPending'
<1>1. UNCHANGED <<root, entry, client, phase, scheduled, restoring, refused, feed>>
  BY DEF W!Watch, W!Unwatch, W!reconnectVars, W!eventVars
<1>2. name[k] \in W!Sub /\ 0 \in 0 .. MaxClock
  BY WatchmanAssumptions DEF WatchTyped, W!BoundAssumption
<1>3. \/ commands' = commands
      \/ \E v \in W!Awaiting : commands' = Append(commands, W!Command(k, name[k], v, 0))
  BY DEF W!Watch, W!Unwatch, W!Ask, W!Awaiting
<1>4. ASSUME NEW s, NEW j, Subscribes(commands, s, j) PROVE Subscribes(commands', s, j)
  <2>1. CASE commands' = commands
    BY <1>4, <2>1 DEF Subscribes
  <2>2. ASSUME NEW v \in W!Awaiting, commands' = Append(commands, W!Command(k, name[k], v, 0))
        PROVE  Subscribes(commands', s, j)
    <3>1. W!Command(k, name[k], v, 0) \in CommandType
      BY <1>2, CommandTyped
    <3>2. Subscribes(Append(commands, W!Command(k, name[k], v, 0)), s, j)
      BY <1>4, <3>1, AppendSubscribes DEF WatchTyped
    <3> QED BY <2>2, <3>2 DEF Subscribes
  <2> QED BY <1>3, <2>1, <2>2
<1>5. EntriesPending'
  BY <1>1, <1>4, PendingKept
<1> QED BY <1>1, <1>5 DEF Replaced

\* What an answer does to a subscription: Watchman has it, or the client is dead
\* and will be replaced.
LEMMA FedOrReplaced ==
  ASSUME WatchTyped, Replaced, NEW c \in CommandType, Timely(c), c.verb = "subscribe",
         client \in {"live", "dead"}, W!Feeds(c.sub, c.since), feed'[c.sub] = W!Off
  PROVE  phase = "waiting" \/ (phase = "restoring" /\ scheduled)
<1>1. c.sub \in W!Sub /\ c.since # 0
  BY CommandFields DEF Timely
<1>2. feed'[c.sub] = IF client = "live" THEN c.since ELSE W!Off
  BY <1>1 DEF W!Feeds, WatchTyped
<1>3. client = "dead"
  BY <1>1, <1>2 DEF W!Off
<1> QED BY <1>3 DEF Replaced

LEMMA AnswerCallPending ==
  ASSUME WatchTyped, CommandsTimely, Replaced, EntriesPending, W!Answer,
         Head(commands).by \in WatchCall
  PROVE  Replaced' /\ EntriesPending'
<1>1. PICK c : c = Head(commands)
  OBVIOUS
<1>2. PICK rest : rest = Tail(commands)
  OBVIOUS
<1>3. /\ commands # <<>> /\ W!AnswerCall(c) /\ client \in {"live", "dead"}
      /\ UNCHANGED <<root, client, phase, scheduled, restoring, refused>>
  BY <1>1 DEF W!Answer, W!AnswerCall, W!reconnectVars
<1>4. /\ rest \in Seq(CommandType) /\ c \in CommandType /\ Timely(c)
      /\ c.by \in WatchCall /\ c.sub \in W!Sub
  BY <1>1, <1>2, <1>3, QueuePopped, CommandFields
<1>5. ASSUME NEW s, NEW j, Subscribes(commands, s, j), ~(c.verb = "subscribe" /\ c.sub = s)
      PROVE  Subscribes(rest, s, j)
  BY <1>1, <1>2, <1>3, <1>5, TailSubscribes DEF WatchTyped
<1>6. 0 \in 0 .. MaxClock /\ clock \in 0 .. MaxClock
  BY WatchmanAssumptions DEF WatchTyped, W!BoundAssumption
<1>7. EntriesPending'
  <2>1. CASE c.verb = "watch-project"
    <3>1. entry' = entry /\ feed' = feed
          /\ commands' = Append(rest, W!Command(c.by, c.sub, "clock", 0))
      BY <1>2, <1>3, <2>1 DEF W!AnswerCall
    <3>2. W!Command(c.by, c.sub, "clock", 0) \in CommandType
      BY <1>4, <1>6, CommandTyped DEF W!Awaiting
    <3>3. ASSUME NEW s, NEW j, Subscribes(commands, s, j) PROVE Subscribes(commands', s, j)
      <4>1. Subscribes(Append(rest, W!Command(c.by, c.sub, "clock", 0)), s, j)
        BY <1>4, <1>5, <2>1, <3>2, <3>3, AppendSubscribes
      <4> QED BY <3>1, <4>1 DEF Subscribes
    <3> QED BY <1>3, <3>1, <3>3, PendingKept
  <2>2. CASE c.verb = "clock"
    <3>1. PICK d : d = W!Command(c.by, c.sub, "subscribe", clock)
      OBVIOUS
    <3>2. d \in CommandType
      BY <1>4, <1>6, <3>1, CommandTyped DEF W!Awaiting
    <3>3. d.verb = "subscribe"
      BY <3>1 DEF W!Command
    <3>4. d.sub = c.sub
      BY <3>1 DEF W!Command
    <3>10. d.by = c.by
      BY <3>1 DEF W!Command
    <3>5. /\ entry' = [entry EXCEPT ![c.sub] = c.by] /\ feed' = feed
          /\ commands' = Append(rest, d)
      BY <1>2, <1>3, <2>2, <3>1 DEF W!AnswerCall
    <3>6. Subscribes(commands', c.sub, c.by)
      <4>1. Subscribes(Append(rest, d), c.sub, c.by)
        BY <1>4, <3>2, <3>3, <3>4, <3>10, AppendSubscribes
      <4> QED BY <3>5, <4>1
    <3>7. ASSUME NEW s, NEW j, Subscribes(commands, s, j) PROVE Subscribes(commands', s, j)
      <4>1. Subscribes(Append(rest, d), s, j)
        BY <1>4, <1>5, <2>2, <3>2, <3>7, AppendSubscribes
      <4> QED BY <3>5, <4>1 DEF Subscribes
    <3>8. ASSUME NEW s \in W!Sub, s # c.sub PROVE entry'[s] = entry[s]
      BY <1>4, <3>5, <3>8 DEF WatchTyped
    <3>9. WillSubscribe(c.sub)'
      <4>1. entry'[c.sub] = c.by
        BY <1>4, <3>5 DEF WatchTyped
      <4> QED BY <3>6, <4>1 DEF WillSubscribe
    <3> QED BY <1>3, <3>5, <3>7, <3>8, <3>9, PendingKept
  <2>3. CASE c.verb = "subscribe"
    <3>1. entry' = entry /\ commands' = rest /\ W!Feeds(c.sub, c.since)
      BY <1>2, <1>3, <2>3 DEF W!AnswerCall
    <3>2. ASSUME NEW s \in W!Sub, s # c.sub
          PROVE  /\ feed'[s] = feed[s]
                 /\ \A j : Subscribes(commands, s, j) => Subscribes(commands', s, j)
      <4>1. feed'[s] = feed[s]
        BY <1>4, <3>1, <3>2 DEF WatchTyped, W!Feeds
      <4>2. \A j : Subscribes(commands, s, j) => Subscribes(commands', s, j)
        BY <1>5, <3>1, <3>2
      <4> QED BY <4>1, <4>2
    <3>3. ASSUME feed'[c.sub] = W!Off PROVE WillSubscribe(c.sub)'
      <4>1. phase = "waiting" \/ (phase = "restoring" /\ scheduled)
        BY <1>3, <1>4, <2>3, <3>1, <3>3, FedOrReplaced
      <4> QED BY <1>3, <4>1 DEF WillSubscribe
    <3> QED BY <1>3, <3>1, <3>2, <3>3, PendingKept
  <2>4. CASE c.verb = "unsubscribe"
    <3>1. /\ entry' = [entry EXCEPT ![c.sub] = W!None] /\ commands' = rest
          /\ feed' = [feed EXCEPT ![c.sub] = W!Off]
      BY <1>2, <1>3, <2>4 DEF W!AnswerCall, W!DeleteSubscription
    <3>2. entry'[c.sub] = W!None
      BY <1>4, <3>1 DEF WatchTyped
    <3>3. ASSUME NEW s \in W!Sub, s # c.sub PROVE entry'[s] = entry[s] /\ feed'[s] = feed[s]
      BY <1>4, <3>1, <3>3 DEF WatchTyped
    <3>4. ASSUME NEW s, NEW j, Subscribes(commands, s, j) PROVE Subscribes(commands', s, j)
      BY <1>5, <2>4, <3>1, <3>4 DEF Subscribes
    <3> QED BY <1>3, <3>2, <3>3, <3>4, PendingKept
  <2>5. c.verb \in W!Awaiting
    BY <1>4, CommandFields
  <2> QED BY <2>1, <2>2, <2>3, <2>4, <2>5 DEF W!Awaiting
<1> QED BY <1>3, <1>7 DEF Replaced

\* A restore is over.
LEMMA RestoredPending ==
  ASSUME WatchTyped, phase = "restoring", NEW s \in W!Sub, W!Restored(s)
  PROVE  /\ scheduled => phase' = "waiting" \/ (phase' = "restoring" /\ scheduled')
         /\ \A x \in restoring \ {s} : phase' = "restoring" /\ x \in restoring'
         /\ phase' \in {"restoring", "waiting", "idle"}
BY DEF W!Restored, WatchTyped

LEMMA AnswerRestorePending ==
  ASSUME WatchTyped, CommandsTimely, Replaced, EntriesPending, W!Answer,
         Head(commands).by \notin WatchCall
  PROVE  Replaced' /\ EntriesPending'
<1>1. PICK c : c = Head(commands)
  OBVIOUS
<1>2. PICK rest : rest = Tail(commands)
  OBVIOUS
<1>3. /\ commands # <<>> /\ W!AnswerRestore(c) /\ client \in {"live", "dead"}
      /\ UNCHANGED <<root, client, entry, refused>>
  BY <1>1 DEF W!Answer, W!AnswerRestore
<1>4. /\ rest \in Seq(CommandType) /\ c \in CommandType /\ Timely(c)
      /\ c.by \in WatchCall \cup W!Attempt /\ c.sub \in W!Sub
  BY <1>1, <1>2, <1>3, QueuePopped, CommandFields
<1>5. ASSUME NEW s, NEW j, Subscribes(commands, s, j), ~(c.verb = "subscribe" /\ c.sub = s)
      PROVE  Subscribes(rest, s, j)
  BY <1>1, <1>2, <1>3, <1>5, TailSubscribes DEF WatchTyped
<1>6. CASE c.verb = "watch-project"
  <2>1. feed' = feed /\ commands' = rest /\ UNCHANGED <<phase, scheduled, restoring>>
    BY <1>2, <1>3, <1>6 DEF W!AnswerRestore
  <2>2. ASSUME NEW s, NEW j, Subscribes(commands, s, j) PROVE Subscribes(commands', s, j)
    BY <1>5, <1>6, <2>1, <2>2 DEF Subscribes
  <2>3. EntriesPending'
    BY <1>3, <2>1, <2>2, PendingKept
  <2> QED BY <1>3, <2>1, <2>3 DEF Replaced
<1>7. CASE c.verb = "clock"
  <2>1. PICK d : d = W!Command(c.by, c.sub, "subscribe", clock)
    OBVIOUS
  <2>2. d \in CommandType
    <3>1. clock \in 0 .. MaxClock
      BY WatchmanAssumptions DEF WatchTyped, W!BoundAssumption
    <3> QED BY <1>4, <2>1, <3>1, CommandTyped DEF W!Awaiting
  <2>3. feed' = feed /\ commands' = Append(rest, d) /\ UNCHANGED <<phase, scheduled, restoring>>
    BY <1>2, <1>3, <1>7, <2>1 DEF W!AnswerRestore, W!reconnectVars
  <2>4. ASSUME NEW s, NEW j, Subscribes(commands, s, j) PROVE Subscribes(commands', s, j)
    <3>1. Subscribes(Append(rest, d), s, j)
      BY <1>4, <1>5, <1>7, <2>2, <2>4, AppendSubscribes
    <3> QED BY <2>3, <3>1 DEF Subscribes
  <2>5. EntriesPending'
    BY <1>3, <2>3, <2>4, PendingKept
  <2> QED BY <1>3, <2>3, <2>5 DEF Replaced
<1>8. CASE c.verb = "subscribe"
  <2>1. /\ commands' = rest /\ W!Feeds(c.sub, c.since)
        /\ \/ phase = "restoring" /\ W!Restored(c.sub)
           \/ UNCHANGED <<phase, scheduled, restoring>>
    BY <1>2, <1>3, <1>8 DEF W!AnswerRestore
  <2>2. \* a reconnect that is to come still is
        /\ phase \in {"creating", "waiting"} => phase' = phase
        /\ phase = "restoring" /\ scheduled =>
             phase' = "waiting" \/ (phase' = "restoring" /\ scheduled')
        /\ \A x \in restoring \ {c.sub} :
             phase = "restoring" => phase' = "restoring" /\ x \in restoring'
        /\ phase' = "creating" => phase = "creating"
    BY <1>4, <2>1, RestoredPending
  <2>3. ASSUME NEW s \in W!Sub, s # c.sub, entry'[s] \notin refused' \cup {W!None},
               feed'[s] = W!Off
        PROVE  WillSubscribe(s)'
    <3>1. feed'[s] = feed[s]
      BY <1>4, <2>1, <2>3 DEF WatchTyped, W!Feeds
    <3>2. WillSubscribe(s)
      BY <1>3, <2>3, <3>1 DEF EntriesPending
    <3>3. CASE Subscribes(commands, s, entry[s])
      <4>1. Subscribes(commands', s, entry[s])
        BY <1>5, <2>1, <2>3, <3>3
      <4> QED BY <1>3, <4>1 DEF WillSubscribe
    <3>4. CASE phase \in {"creating", "waiting"}
      BY <2>2, <3>4 DEF WillSubscribe
    <3>5. CASE phase = "restoring" /\ (scheduled \/ s \in restoring)
      BY <2>2, <2>3, <3>5 DEF WillSubscribe
    <3> QED BY <3>2, <3>3, <3>4, <3>5 DEF WillSubscribe
  <2>4. ASSUME feed'[c.sub] = W!Off PROVE WillSubscribe(c.sub)'
    <3>1. phase = "waiting" \/ (phase = "restoring" /\ scheduled)
      BY <1>3, <1>4, <1>8, <2>1, <2>4, FedOrReplaced
    <3> QED BY <2>2, <3>1 DEF WillSubscribe
  <2>5. EntriesPending'
    BY <1>3, <2>3, <2>4, PendingKept
  <2>6. Replaced'
    BY <1>3, <2>2 DEF Replaced
  <2> QED BY <2>5, <2>6
<1> QED BY <1>3, <1>6, <1>7, <1>8 DEF W!AnswerRestore

LEMMA RefusePending ==
  ASSUME WatchTyped, Replaced, EntriesPending, W!Refuse
  PROVE  Replaced' /\ EntriesPending'
<1>1. PICK c : c = Head(commands)
  OBVIOUS
<1>2. PICK rest : rest = Tail(commands)
  OBVIOUS
<1>3. /\ commands # <<>> /\ commands' = rest
      /\ refused' = refused \cup {k \in WatchCall : k = c.by /\ c.verb = "subscribe"}
      /\ phase' = phase \/ phase' = "waiting"
      /\ client \in {"live", "dead"}
      /\ UNCHANGED <<root, entry, client, scheduled, restoring, feed>>
  BY <1>1, <1>2 DEF W!Refuse, W!mapVars, W!eventVars
<1>4. ASSUME NEW s, NEW j \in WatchCall, j \notin refused', Subscribes(commands, s, j)
      PROVE  Subscribes(commands', s, j)
  <2>1. ~(c.verb = "subscribe" /\ c.by = j)
    BY <1>3, <1>4
  <2>2. Subscribes(rest, s, j)
    BY <1>1, <1>2, <1>3, <1>4, <2>1, TailSubscribes DEF WatchTyped
  <2> QED BY <1>3, <2>2
<1>5. ASSUME NEW s, phase' = "waiting" PROVE WillSubscribe(s)'
  BY <1>5 DEF WillSubscribe
<1>6. \A s \in W!Sub : entry[s] \in WatchCall \cup {W!None}
  BY DEF WatchTyped
<1>7. EntriesPending'
  BY <1>3, <1>4, <1>5, <1>6, PendingKept
<1> QED BY <1>3, <1>7 DEF Replaced

LEMMA ClientCreatedPending ==
  ASSUME WatchTyped, Replaced, EntriesPending, W!ClientCreated
  PROVE  Replaced' /\ EntriesPending'
<1>1. client' = "live" /\ UNCHANGED <<root, entry, feed, refused>>
  BY DEF W!ClientCreated, W!callVars, W!mapVars, W!eventVars
<1>2. CASE phase = "creating"
  <2>1. PICK subs : subs = {s \in W!Sub : entry[s] # W!None}
    OBVIOUS
  <2>2. /\ restoring' = subs
        /\ phase' = IF subs # {} THEN "restoring" ELSE IF scheduled THEN "waiting" ELSE "idle"
    BY <1>2, <2>1 DEF W!ClientCreated
  <2>3. ASSUME NEW s \in W!Sub, entry'[s] # W!None PROVE WillSubscribe(s)'
    BY <1>1, <2>1, <2>2, <2>3 DEF WillSubscribe
  <2>4. EntriesPending'
    BY <1>1, <2>3, PendingKept
  <2> QED BY <1>1, <2>2, <2>4 DEF Replaced
<1>3. CASE phase # "creating"
  <2>1. UNCHANGED <<restoring, phase, scheduled, commands>>
    BY <1>3 DEF W!ClientCreated
  <2>2. EntriesPending'
    BY <1>1, <2>1, PendingKept
  <2> QED BY <1>1, <1>3, <2>1, <2>2 DEF Replaced
<1> QED BY <1>2, <1>3

LEMMA BeginReconnectPending ==
  ASSUME EntriesPending, W!BeginReconnect, root' = root
  PROVE  Replaced' /\ EntriesPending'
<1>1. client' = "creating" /\ phase' = "creating"
  BY DEF W!BeginReconnect
<1>2. \A s \in W!Sub : WillSubscribe(s)'
  BY <1>1 DEF WillSubscribe
<1> QED BY <1>1, <1>2, PendingKept DEF Replaced

LEMMA DropClientPending ==
  ASSUME WatchTyped, Replaced, EntriesPending, W!DropClient, scheduled' = TRUE,
         client = "live", phase # "idle", UNCHANGED <<root, restoring>>
  PROVE  Replaced' /\ EntriesPending'
<1>1. client' = "dead" /\ (phase' = phase \/ phase' = "waiting")
  BY DEF W!DropClient
<1>2. phase \in {"restoring", "waiting"}
  BY DEF WatchTyped, Replaced
<1>3. phase' = "waiting" \/ (phase' = "restoring" /\ scheduled')
  BY <1>1, <1>2
<1>4. \A s \in W!Sub : WillSubscribe(s)'
  BY <1>3 DEF WillSubscribe
<1> QED BY <1>1, <1>3, <1>4, PendingKept DEF Replaced

LEMMA ClientFailsPending ==
  ASSUME WatchTyped, Replaced, EntriesPending, W!ClientFails
  PROVE  Replaced' /\ EntriesPending'
<1>1. root' = root /\ client = "live"
  BY DEF W!ClientFails
<1>2. CASE W!BeginReconnect
  BY <1>1, <1>2, BeginReconnectPending
<1>3. CASE /\ phase # "idle" /\ W!DropClient /\ scheduled' = TRUE
           /\ UNCHANGED <<restoring, settling, refused>>
  BY <1>1, <1>3, DropClientPending
<1> QED BY <1>2, <1>3 DEF W!ClientFails

LEMMA SettledPending ==
  ASSUME WatchTyped, Replaced, EntriesPending, NEW t \in settling, W!Settled(t)
  PROVE  Replaced' /\ EntriesPending'
<1>1. UNCHANGED <<root, entry, client, phase, scheduled, restoring, refused, feed>>
  BY DEF W!Settled, W!callVars, W!mapVars, W!eventVars
<1>2. t.by \in W!Attempt /\ t.sub \in W!Sub
  BY DEF WatchTyped
<1>3. PICK d : d = W!Command(t.by, t.sub, IF W!Since(t.sub) = 0 THEN "clock" ELSE "subscribe",
                             W!Since(t.sub))
  OBVIOUS
<1>4. W!Since(t.sub) \in 0 .. MaxClock
  <2>1. lastKnown[root[t.sub]] \in 0 .. clock
    BY <1>2 DEF WatchTyped
  <2>2. clock \in 1 .. MaxClock /\ MaxClock \in Nat
    BY WatchmanAssumptions DEF WatchTyped, W!BoundAssumption
  <2>3. lastKnown[root[t.sub]] \in 0 .. MaxClock
    BY <2>1, <2>2
  <2> QED BY <2>3 DEF W!Since
<1>5. d \in CommandType
  BY <1>2, <1>3, <1>4, CommandTyped DEF W!Awaiting
<1>6. commands' = Append(commands, d)
  BY <1>3 DEF W!Settled, W!Ask
<1>7. ASSUME NEW s, NEW j, Subscribes(commands, s, j) PROVE Subscribes(commands', s, j)
  <2>1. Subscribes(Append(commands, d), s, j)
    BY <1>5, <1>7, AppendSubscribes DEF WatchTyped
  <2> QED BY <1>6, <2>1 DEF Subscribes
<1>8. EntriesPending'
  BY <1>1, <1>7, PendingKept
<1> QED BY <1>1, <1>8 DEF Replaced

LEMMA EventPending ==
  ASSUME WatchTyped, Replaced, EntriesPending, NEW s \in W!Sub, W!Event(s)
  PROVE  Replaced' /\ EntriesPending'
<1>1. UNCHANGED <<root, entry, client, commands, phase, scheduled, restoring, refused>>
  BY DEF W!Event, W!callVars, W!clientVars, W!reconnectVars
<1>2. feed' = [feed EXCEPT ![s] = clock] /\ clock # W!Off
  BY DEF W!Event, W!Off, WatchTyped
<1>3. ASSUME NEW x \in W!Sub, feed'[x] = W!Off PROVE feed[x] = W!Off
  BY <1>2, <1>3 DEF WatchTyped
<1>4. EntriesPending'
  BY <1>1, <1>3, PendingKept
<1> QED BY <1>1, <1>4 DEF Replaced

LEMMA EntriesKept ==
  WatchTyped /\ CommandsTimely /\ Replaced /\ EntriesPending /\ [W!Next]_(W!vars) =>
    Replaced' /\ EntriesPending'
<1> SUFFICES ASSUME WatchTyped, CommandsTimely, Replaced, EntriesPending, [W!Next]_(W!vars)
             PROVE  Replaced' /\ EntriesPending'
  OBVIOUS
<1>1. CASE UNCHANGED W!vars \/ W!Change \/ W!WatchmanRestarts
  <2>1. UNCHANGED <<root, entry, client, commands, phase, scheduled, restoring, refused, feed>>
    BY <1>1 DEF W!Change, W!WatchmanRestarts, W!vars, W!callVars, W!mapVars, W!clientVars,
                W!reconnectVars, W!eventVars
  <2>2. EntriesPending'
    BY <2>1, PendingKept
  <2> QED BY <2>1, <2>2 DEF Replaced
<1>2. CASE \E k \in WatchCall : W!Watch(k) \/ W!Unwatch(k)
  BY <1>2, CallPending
<1>3. CASE W!Answer
  BY <1>3, AnswerCallPending, AnswerRestorePending
<1>4. CASE \E t \in settling : W!Settled(t)
  BY <1>4, SettledPending
<1>5. CASE \E s \in W!Sub : W!Event(s)
  BY <1>5, EventPending
<1>6. CASE W!Refuse
  BY <1>6, RefusePending
<1>7. CASE W!ClientCreated
  BY <1>7, ClientCreatedPending
<1>8. CASE W!ClientFails
  BY <1>8, ClientFailsPending
<1>9. CASE W!Retry
  <2>1. W!BeginReconnect /\ root' = root
    BY <1>9 DEF W!Retry
  <2> QED BY <2>1, BeginReconnectPending
<1> QED BY <1>1, <1>2, <1>3, <1>4, <1>5, <1>6, <1>7, <1>8, <1>9 DEF W!Next

LEMMA WatchmanTypesAtFirst ==
  W!Init => WatchTyped /\ CommandsTimely
<1> SUFFICES ASSUME W!Init PROVE WatchTyped /\ CommandsTimely
  OBVIOUS
<1>1. PICK c \in Cases : root = c.root /\ name = c.name /\ clock = c.clock
  BY DEF W!Init
<1>2. IsFiniteSet(W!Sub) /\ name \in [WatchCall -> W!Sub] /\ clock \in 1 .. MaxClock
  BY <1>1, WatchmanAssumptions, SameOperators DEF W!CasesAssumption, W!Sub
<1>3. MaxClock \in Nat /\ 0 \in 0 .. clock /\ 1 \in 1 .. clock
  BY <1>2, WatchmanAssumptions DEF W!BoundAssumption
<1>4. commands = <<>> /\ commands \in Seq(CommandType) /\ Len(commands) = 0
  BY DEF W!Init
<1>5. /\ watch \in [WatchCall -> W!Stage] /\ entry \in [W!Sub -> WatchCall \cup {W!None}]
      /\ count \in [WatchCall -> Int]
  BY DEF W!Init, W!Stage
<1>6. /\ lastKnown \in [{root[s] : s \in W!Sub} -> 0 .. clock]
      /\ feed \in [W!Sub -> 0 .. clock] /\ seen \in [WatchCall -> 0 .. clock]
  BY <1>3 DEF W!Init, W!Off
<1>7. /\ client \in {"creating", "live", "dead"}
      /\ phase \in {"idle", "creating", "restoring", "waiting"}
      /\ scheduled \in BOOLEAN /\ restoring = {} /\ settling = {} /\ refused = {} /\ born = 1
  BY DEF W!Init
<1>8. CommandsTimely
  BY <1>4 DEF CommandsTimely
<1> QED BY <1>2, <1>3, <1>4, <1>5, <1>6, <1>7, <1>8 DEF WatchTyped

\* At any time, a subscription of the map that Watchman has not is about to be
\* asked for, unless the call that made its entry was refused it and no reconnect
\* began since, and a client that failed is about to be replaced
\* (WatchmanClient._restoreSubscriptions and _serializedReconnect).
WatchmanInv == WatchTyped /\ CommandsTimely /\ Replaced /\ EntriesPending

THEOREM WatchmanInvariant == W!Spec => []WatchmanInv
<1>1. WatchmanInv /\ [W!Next]_(W!vars) => WatchmanInv'
  BY WatchmanTypesKept, EntriesKept DEF WatchmanInv
<1>2. W!Init => WatchmanInv
  <2> SUFFICES ASSUME W!Init PROVE WatchmanInv
    OBVIOUS
  <2>1. client = "creating" /\ phase = "idle"
    BY DEF W!Init
  <2>2. \A s \in W!Sub : entry[s] = W!None
    BY DEF W!Init
  <2> QED BY <2>1, <2>2, WatchmanTypesAtFirst DEF WatchmanInv, Replaced, EntriesPending
<1> QED BY <1>1, <1>2, PTL DEF W!Spec

\* When nothing is under way, Watchman knows every subscription of the map, except
\* those of calls whose own subscribe it refused since the last reconnect began,
\* whatever was cut off, refused, retried or overlapped, for any number of calls,
\* subscriptions and failures (WatchmanClient._restoreSubscriptions).
THEOREM EntriesAlwaysSubscribed == W!Spec => []EntriesSubscribed
<1>1. WatchmanInv => EntriesSubscribed
  <2> SUFFICES ASSUME WatchmanInv, W!AtRest, NEW s \in W!Sub,
                      entry[s] \notin refused \cup {W!None}, feed[s] = W!Off
               PROVE  FALSE
    BY DEF EntriesSubscribed, W!EntriesSubscribed
  <2>1. WillSubscribe(s)
    BY DEF WatchmanInv, EntriesPending
  <2>2. Len(commands) = 0 /\ phase = "idle"
    BY DEF W!AtRest
  <2>3. ~Subscribes(commands, s, entry[s])
    BY <2>2 DEF Subscribes
  <2> QED BY <2>1, <2>2, <2>3 DEF WillSubscribe
<1> QED BY <1>1, WatchmanInvariant, PTL

-----------------------------------------------------------------------------
(* Watchman: AloneMissesNothing *)

ProperCommands(s) == {c \in CommandType : Proper(c, s)}

\* A command of a call that takes the subscription away is proper in any state.
Quiet == {c \in CommandType : c.by \in WatchCall /\ c.verb = "unsubscribe"}

OnlyOne == \A j, k \in WatchCall : watch[j] # "idle" /\ watch[k] # "idle" => j = k

\* What the cases of a step start from.
LEMMA QuietIsProper ==
  ASSUME NEW s, NEW c \in Quiet
  PROVE  ~Leads(c) /\ Proper(c, s) /\ Proper(c, s)'
BY DEF Quiet, Leads, Proper

LEMMA SeqOf ==
  ASSUME NEW T, NEW S, NEW q \in Seq(T), \A i \in 1 .. Len(q) : q[i] \in S
  PROVE  q \in Seq(S)
OBVIOUS

LEMMA ProperQueue ==
  ASSUME WatchTyped, NEW s, AllProper(s)
  PROVE  /\ commands \in Seq(ProperCommands(s))
         /\ (\A i \in 1 .. Len(commands) : ~Leads(commands[i])) => commands \in Seq(Quiet)
<1>1. commands \in Seq(CommandType)
  BY DEF WatchTyped
<1>2. ASSUME NEW i \in 1 .. Len(commands)
      PROVE  commands[i] \in ProperCommands(s) /\ (~Leads(commands[i]) => commands[i] \in Quiet)
  <2>1. PICK c \in CommandType : c = commands[i]
    BY <1>1
  <2>2. Proper(c, s)
    BY <2>1 DEF AllProper
  <2>3. ~Leads(c) => c \in Quiet
    BY <2>2 DEF Proper, Leads, Quiet
  <2> QED BY <2>1, <2>2, <2>3 DEF ProperCommands
<1>3. commands \in Seq(ProperCommands(s))
  BY <1>1, <1>2, SeqOf
<1>4. ASSUME \A i \in 1 .. Len(commands) : ~Leads(commands[i]) PROVE commands \in Seq(Quiet)
  <2>1. \A i \in 1 .. Len(commands) : commands[i] \in Quiet
    BY <1>2, <1>4
  <2> QED BY <1>1, <2>1, SeqOf
<1> QED BY <1>3, <1>4

\* A queue of commands that are proper after the step.
LEMMA ProperAfter ==
  ASSUME NEW s, NEW S, commands' \in Seq(S), \A c \in S : Proper(c, s)'
  PROVE  AllProper(s)'
<1>1. ASSUME NEW i \in 1 .. Len(commands'), NEW c, c = commands'[i], Proper(c, s)'
      PROVE  Proper(commands[i], s)'
  BY <1>1 DEF Proper, Leads
<1>2. \A i \in 1 .. Len(commands') : commands'[i] \in S
  OBVIOUS
<1>3. \A i \in 1 .. Len(commands') : Proper(commands[i], s)'
  BY <1>1, <1>2
<1> QED BY <1>3 DEF AllProper

LEMMA QuietQueue ==
  ASSUME NEW s, commands' \in Seq(Quiet)
  PROVE  Lone(commands)' /\ AllProper(s)'
<1>1. AllProper(s)'
  BY QuietIsProper, ProperAfter
<1>2. \A i \in 1 .. Len(commands') : commands'[i] \in Quiet
  OBVIOUS
<1>3. \A i \in 1 .. Len(commands') : ~Leads(commands'[i])
  BY <1>2, QuietIsProper
<1> QED BY <1>1, <1>3 DEF Lone, Leads

LEMMA QuietThenOne ==
  ASSUME NEW s, NEW q \in Seq(Quiet), NEW d \in CommandType, commands' = Append(q, d),
         Proper(d, s)'
  PROVE  Lone(commands)' /\ AllProper(s)'
<1>1. q \in Seq(Quiet \cup {d}) /\ d \in Quiet \cup {d}
  OBVIOUS
<1>2. commands' \in Seq(Quiet \cup {d})
  BY <1>1, AppendTyped
<1>3. \A c \in Quiet \cup {d} : Proper(c, s)'
  <2> SUFFICES ASSUME NEW c \in Quiet \cup {d} PROVE Proper(c, s)'
    OBVIOUS
  <2>1. CASE c \in Quiet
    BY <2>1, QuietIsProper
  <2>2. CASE c = d
    BY <2>2
  <2> QED BY <2>1, <2>2
<1>4. AllProper(s)'
  BY <1>2, <1>3, ProperAfter
<1>5. /\ Len(commands') = Len(q) + 1 /\ Len(q) \in Nat
      /\ \A i \in 1 .. Len(q) : commands'[i] = q[i]
  BY <1>1, AppendTyped
<1>6. \A i \in 1 .. Len(q) : q[i] \in Quiet
  OBVIOUS
<1>7. \A i \in 1 .. Len(commands') : Leads(commands'[i]) => i = Len(q) + 1
  BY <1>5, <1>6, QuietIsProper
<1>8. Lone(commands)'
  BY <1>7 DEF Lone, Leads
<1> QED BY <1>4, <1>8

LEMMA OneThenQuiet ==
  ASSUME WatchTyped, NEW s, Single(s), NEW d \in Quiet, commands' = Append(commands, d),
         \A c \in ProperCommands(s) : Proper(c, s)'
  PROVE  Lone(commands)' /\ AllProper(s)'
<1>1. commands \in Seq(ProperCommands(s))
  BY ProperQueue DEF Single
<1>2. commands \in Seq(ProperCommands(s) \cup Quiet) /\ d \in ProperCommands(s) \cup Quiet
  BY <1>1
<1>3. commands' \in Seq(ProperCommands(s) \cup Quiet)
  BY <1>2, AppendTyped
<1>4. \A c \in ProperCommands(s) \cup Quiet : Proper(c, s)'
  BY QuietIsProper
<1>5. AllProper(s)'
  BY <1>3, <1>4, ProperAfter
<1>6. /\ Len(commands') = Len(commands) + 1 /\ Len(commands) \in Nat
      /\ commands'[Len(commands) + 1] = d
      /\ \A i \in 1 .. Len(commands) : commands'[i] = commands[i]
  BY <1>2, AppendTyped
<1>7. ~Leads(d)
  BY QuietIsProper
<1>8. \A i \in 1 .. Len(commands') :
        Leads(commands'[i]) => i \in 1 .. Len(commands) /\ Leads(commands[i])
  BY <1>6, <1>7
<1>9. Lone(commands)'
  BY <1>8 DEF Single, Lone, Leads
<1> QED BY <1>5, <1>9

\* The queue stays.
LEMMA SameQueue ==
  ASSUME WatchTyped, NEW s, Single(s), commands' = commands,
         \A c \in ProperCommands(s) : Proper(c, s)'
  PROVE  Lone(commands)' /\ AllProper(s)'
<1>1. AllProper(s)'
  BY ProperQueue, ProperAfter DEF Single
<1> QED BY <1>1 DEF Single, Lone, Leads

\* The command that is answered, and the ones behind it.
LEMMA HeadOfSingle ==
  ASSUME WatchTyped, CommandsTimely, NEW s \in W!Sub, W!Sub = {s}, Single(s), commands # <<>>
  PROVE  /\ Head(commands) \in CommandType /\ Proper(Head(commands), s)
         /\ Head(commands).sub = s /\ Timely(Head(commands))
         /\ Tail(commands) \in Seq(ProperCommands(s)) /\ Lone(Tail(commands))
         /\ Leads(Head(commands)) => Tail(commands) \in Seq(Quiet)
         /\ \E k \in WatchCall : watch[k] # "idle"
<1>1. commands \in Seq(CommandType) /\ commands \in Seq(ProperCommands(s))
  BY ProperQueue DEF WatchTyped, Single
<1>2. /\ Head(commands) = commands[1] /\ Len(commands) \in Nat \ {0}
      /\ Len(Tail(commands)) = Len(commands) - 1
      /\ \A i \in 1 .. Len(commands) - 1 : Tail(commands)[i] = commands[i + 1]
      /\ Tail(commands) \in Seq(ProperCommands(s))
  BY <1>1, TailTyped
<1>3. Head(commands) \in CommandType /\ Timely(Head(commands)) /\ Proper(Head(commands), s)
  BY <1>1, <1>2, QueuePopped DEF Single, AllProper
<1>4. Head(commands).sub = s
  BY <1>3, CommandFields
<1>5. Lone(commands)
  BY DEF Single
<1>6. Lone(Tail(commands))
  <2> SUFFICES ASSUME NEW i \in 1 .. Len(Tail(commands)), NEW j \in 1 .. Len(Tail(commands)),
                      Leads(Tail(commands)[i]), Leads(Tail(commands)[j])
               PROVE  i = j
    BY DEF Lone
  <2>1. i + 1 \in 1 .. Len(commands) /\ j + 1 \in 1 .. Len(commands) /\ i \in Int /\ j \in Int
    BY <1>2
  <2>2. Leads(commands[i + 1]) /\ Leads(commands[j + 1])
    BY <1>2
  <2>3. i + 1 = j + 1
    BY <1>5, <2>1, <2>2 DEF Lone
  <2> QED BY <2>1, <2>3
<1>7. ASSUME Leads(Head(commands)) PROVE Tail(commands) \in Seq(Quiet)
  <2>1. ASSUME NEW i \in 1 .. Len(Tail(commands)) PROVE Tail(commands)[i] \in Quiet
    <3>1. i + 1 \in 1 .. Len(commands) /\ i + 1 # 1 /\ 1 \in 1 .. Len(commands)
      BY <1>2
    <3>2. Tail(commands)[i] = commands[i + 1]
      BY <1>2
    <3>3. ~Leads(commands[i + 1])
      BY <1>2, <1>5, <1>7, <3>1 DEF Lone
    <3>4. PICK c \in CommandType : c = commands[i + 1]
      BY <1>1, <3>1
    <3>5. Proper(c, s)
      BY <3>1, <3>4 DEF Single, AllProper
    <3>6. c \in Quiet
      BY <3>3, <3>4, <3>5 DEF Quiet, Proper, Leads
    <3> QED BY <3>2, <3>4, <3>6
  <2>2. Tail(commands) \in Seq(CommandType)
    BY <1>1, <1>2, TailTyped
  <2> QED BY <2>1, <2>2, SeqOf
<1>8. \E k \in WatchCall : watch[k] # "idle"
  BY DEF Single, Told
<1> QED BY <1>2, <1>3, <1>4, <1>6, <1>7, <1>8

\* Nothing is on its way.
LEMMA NothingOnItsWay ==
  ASSUME WatchTyped, NEW s, Single(s), settling # {} \/ feed[s] # W!Off
  PROVE  commands \in Seq(Quiet)
<1>1. ASSUME NEW i \in 1 .. Len(commands) PROVE ~Leads(commands[i])
  <2>1. Proper(commands[i], s)
    BY DEF Single, AllProper
  <2> QED BY <2>1 DEF Proper
<1> QED BY <1>1, ProperQueue DEF Single

\* A call that began stays so.
LEMMA StaysBegun ==
  ASSUME WatchTyped, [W!Next]_(W!vars), NEW k \in WatchCall, watch[k] # "idle"
  PROVE  watch'[k] # "idle"
<1>1. watch \in [WatchCall -> W!Stage]
  BY DEF WatchTyped
<1>2. ASSUME NEW j \in WatchCall, NEW w, w # "idle", watch' = [watch EXCEPT ![j] = w]
      PROVE  watch'[k] # "idle"
  BY <1>1, <1>2
<1>3. CASE \E j \in WatchCall : W!Watch(j)
  <2>1. PICK j \in WatchCall : W!Watch(j)
    BY <1>3
  <2>2. \E w \in {"open", "watch-project"} : watch' = [watch EXCEPT ![j] = w]
    BY <2>1 DEF W!Watch
  <2> QED BY <1>2, <2>2
<1>4. CASE \E j \in WatchCall : W!Unwatch(j)
  <2>1. PICK j \in WatchCall : W!Unwatch(j)
    BY <1>4
  <2>2. \E w \in {"left", "unsubscribe"} : watch' = [watch EXCEPT ![j] = w]
    BY <2>1 DEF W!Unwatch
  <2> QED BY <1>2, <2>2
<1>5. CASE W!Answer
  <2>1. PICK c : c = Head(commands)
    OBVIOUS
  <2>2. CASE c.by \in WatchCall
    <3>1. W!AnswerCall(c)
      BY <1>5, <2>1, <2>2 DEF W!Answer
    <3>2. \E w \in {"clock", "subscribe", "open", "left"} : watch' = [watch EXCEPT ![c.by] = w]
      BY <3>1 DEF W!AnswerCall
    <3> QED BY <1>2, <2>2, <3>2
  <2>3. CASE c.by \notin WatchCall
    <3>1. watch' = watch
      BY <1>5, <2>1, <2>3 DEF W!Answer, W!AnswerRestore
    <3> QED BY <3>1
  <2> QED BY <2>2, <2>3
<1>6. CASE W!Refuse
  BY <1>6 DEF W!Refuse
<1>7. CASE W!ClientFails \/ W!Retry
  <2>1. W!EndClient
    BY <1>7 DEF W!ClientFails, W!Retry, W!BeginReconnect, W!DropClient
  <2> QED BY <2>1 DEF W!EndClient, W!Cancelled
<1>8. CASE W!ClientCreated \/ W!Change \/ W!WatchmanRestarts \/ UNCHANGED W!vars
  <2>1. watch' = watch
    BY <1>8 DEF W!ClientCreated, W!Change, W!WatchmanRestarts, W!callVars, W!vars
  <2> QED BY <2>1
<1>9. CASE \E t \in settling : W!Settled(t)
  <2>1. watch' = watch
    BY <1>9 DEF W!Settled, W!callVars
  <2> QED BY <2>1
<1>10. CASE \E x \in W!Sub : W!Event(x)
  <2>1. watch' = watch
    BY <1>10 DEF W!Event, W!callVars
  <2> QED BY <2>1
<1> QED BY <1>3, <1>4, <1>5, <1>6, <1>7, <1>8, <1>9, <1>10 DEF W!Next

\* A call asks first.
LEMMA WatchSingle ==
  ASSUME WatchTyped, NEW s \in W!Sub, W!Sub = {s}, Single(s), OnlyOne',
         NEW k \in WatchCall, W!Watch(k),
         \A j \in WatchCall : watch[j] # "idle" => watch'[j] # "idle"
  PROVE  Single(s)'
<1>1. /\ watch[k] = "idle"
      /\ UNCHANGED <<root, entry, lastKnown, client, phase, settling, born, feed, seen>>
  BY DEF W!Watch, W!reconnectVars, W!eventVars
<1>2. watch'[k] # "idle"
  <2>1. \E w \in {"open", "watch-project"} : watch' = [watch EXCEPT ![k] = w]
    BY DEF W!Watch
  <2> QED BY <2>1 DEF WatchTyped
<1>3. \A j \in WatchCall : watch[j] = "idle"
  BY <1>1, <1>2 DEF OnlyOne
<1>4. /\ lastKnown[root[s]] = 0 /\ feed[s] = W!Off /\ commands = <<>> /\ settling = {}
      /\ \A j \in WatchCall : seen[j] = 0
  BY <1>3 DEF Single, Told
<1>5. entry[s] = W!None
  BY <1>3 DEF Single, Told, WatchTyped
<1>6. name[k] = s
  BY DEF WatchTyped
<1>7. PICK d : d = W!Command(k, s, "watch-project", 0)
  OBVIOUS
<1>8. commands' = Append(commands, d)
  BY <1>5, <1>6, <1>7 DEF W!Watch, W!Ask
<1>9. d \in CommandType
  <2>1. 0 \in 0 .. MaxClock
    BY WatchmanAssumptions DEF W!BoundAssumption
  <2> QED BY <1>7, <2>1, CommandTyped DEF W!Awaiting
<1>10. d.by = k
  BY <1>7 DEF W!Command
<1>11. d.verb = "watch-project"
  BY <1>7 DEF W!Command
<1>12. Proper(d, s)'
  BY <1>1, <1>4, <1>5, <1>10, <1>11 DEF Proper, Leads
<1>13. commands \in Seq(Quiet)
  BY <1>4
<1>14. Lone(commands)' /\ AllProper(s)'
  BY <1>8, <1>9, <1>12, <1>13, QuietThenOne
<1>15. Sleeping(s)' /\ NewClient(s)'
  BY <1>1 DEF Single, Sleeping, NewClient
<1>16. Told(s)'
  <2>1. 0 < born
    BY DEF WatchTyped
  <2> QED BY <1>1, <1>2, <1>4, <1>5, <2>1 DEF Told
<1> QED BY <1>14, <1>15, <1>16 DEF Single

\* A call leaves.
LEMMA UnwatchSingle ==
  ASSUME WatchTyped, NEW s \in W!Sub, W!Sub = {s}, Single(s), NEW k \in WatchCall, W!Unwatch(k),
         \A j \in WatchCall : watch[j] # "idle" => watch'[j] # "idle"
  PROVE  Single(s)'
<1>1. /\ watch[k] = "open"
      /\ UNCHANGED <<root, entry, lastKnown, client, phase, settling, born, feed, seen>>
  BY DEF W!Unwatch, W!reconnectVars, W!eventVars
<1>2. PICK d : d = W!Command(k, name[k], "unsubscribe", 0)
  OBVIOUS
<1>3. commands' = commands \/ commands' = Append(commands, d)
  BY <1>2 DEF W!Unwatch, W!Ask
<1>4. d \in Quiet
  <2>1. 0 \in 0 .. MaxClock /\ name[k] \in W!Sub
    BY WatchmanAssumptions DEF W!BoundAssumption, WatchTyped
  <2>2. d \in CommandType
    BY <1>2, <2>1, CommandTyped DEF W!Awaiting
  <2>3. d.by = k
    BY <1>2 DEF W!Command
  <2>4. d.verb = "unsubscribe"
    BY <1>2 DEF W!Command
  <2> QED BY <2>2, <2>3, <2>4 DEF Quiet
<1>5. Lone(commands)' /\ AllProper(s)'
  <2>1. \A c \in ProperCommands(s) : Proper(c, s)'
    BY <1>1 DEF ProperCommands, Proper
  <2>2. CASE commands' = commands
    BY <2>1, <2>2, SameQueue
  <2>3. CASE commands' = Append(commands, d)
    BY <1>4, <2>1, <2>3, OneThenQuiet
  <2> QED BY <1>3, <2>2, <2>3
<1>6. Sleeping(s)' /\ NewClient(s)'
  BY <1>1 DEF Single, Sleeping, NewClient
<1>7. /\ watch'[k] # "idle"
      /\ \A j \in WatchCall : watch'[j] = "idle" <=> watch[j] = "idle"
  <2>1. \E w \in {"left", "unsubscribe"} : watch' = [watch EXCEPT ![k] = w]
    BY DEF W!Unwatch
  <2> QED BY <1>1, <2>1 DEF WatchTyped
<1>8. entry[s] \in WatchCall \cup {W!None}
  BY DEF WatchTyped
<1>9. Told(s)'
  BY <1>1, <1>7, <1>8 DEF Single, Told
<1> QED BY <1>5, <1>6, <1>9 DEF Single

\* Watchman answers a call.
LEMMA AnswerCallSingle ==
  ASSUME WatchTyped, CommandsTimely, NEW s \in W!Sub, W!Sub = {s}, Single(s), OnlyOne',
         W!Answer, Head(commands).by \in WatchCall,
         \A j \in WatchCall : watch[j] # "idle" => watch'[j] # "idle"
  PROVE  Single(s)'
<1>1. PICK c : c = Head(commands)
  OBVIOUS
<1>2. PICK rest : rest = Tail(commands)
  OBVIOUS
<1>3. PICK k : k = c.by
  OBVIOUS
<1>4. /\ commands # <<>> /\ W!AnswerCall(c) /\ client \in {"live", "dead"} /\ k \in WatchCall
      /\ UNCHANGED <<root, client, phase, settling, lastKnown, born, seen>>
  BY <1>1, <1>3 DEF W!Answer, W!AnswerCall, W!reconnectVars
<1>5. /\ c \in CommandType /\ Proper(c, s) /\ c.sub = s /\ Timely(c)
      /\ rest \in Seq(ProperCommands(s)) /\ Lone(rest)
      /\ Leads(c) => rest \in Seq(Quiet)
      /\ \E j \in WatchCall : watch[j] # "idle"
  BY <1>1, <1>2, <1>4, HeadOfSingle
<1>6. PICK K : K = lastKnown[root[s]] /\ K = lastKnown'[root'[s]]
  BY <1>4
<1>7. \* the call has begun before, or nothing else has
      /\ watch'[k] # "idle" /\ watch[k] # "idle"
      /\ \A j \in WatchCall : watch'[j] = "idle" <=> watch[j] = "idle"
  <2>1. PICK w \in {"clock", "subscribe", "open", "left"} : watch' = [watch EXCEPT ![k] = w]
    BY <1>3, <1>4 DEF W!AnswerCall
  <2>2. w # "idle"
    OBVIOUS
  <2>3. watch'[k] # "idle" /\ \A j \in WatchCall : j # k => watch'[j] = watch[j]
    BY <1>4, <2>1, <2>2 DEF WatchTyped
  <2>4. watch[k] # "idle"
    BY <1>4, <1>5, <2>3 DEF OnlyOne
  <2> QED BY <2>3, <2>4
<1>8. Leads(c) => settling = {} /\ feed[s] = W!Off /\ K = 0
  BY <1>3, <1>4, <1>5, <1>6 DEF Proper
<1>9. \A j \in WatchCall :
        IF watch'[j] = "idle" THEN seen'[j] = 0 ELSE seen'[j] = K \/ seen'[j] < born'
  BY <1>4, <1>6, <1>7 DEF Single, Told
<1>10. entry[s] # W!None => watch[entry[s]] # "idle" /\ entry[s] \in WatchCall
  BY DEF WatchTyped, Single, Told
<1>11. Sleeping(s) /\ NewClient(s)
  BY DEF Single
<1>12. CASE c.verb = "watch-project"
  <2>1. PICK d : d = W!Command(k, s, "clock", 0)
    OBVIOUS
  <2>2. d \in CommandType
    <3>1. 0 \in 0 .. MaxClock
      BY WatchmanAssumptions DEF W!BoundAssumption
    <3> QED BY <1>4, <2>1, <3>1, CommandTyped DEF W!Awaiting
  <2>3. d.by = k
    BY <2>1 DEF W!Command
  <2>4. d.verb = "clock"
    BY <2>1 DEF W!Command
  <2>5. entry' = entry /\ feed' = feed /\ commands' = Append(rest, d)
    BY <1>2, <1>3, <1>4, <1>5, <1>12, <2>1 DEF W!AnswerCall
  <2>6. Leads(c)
    BY <1>12 DEF Leads
  <2>7. entry[s] = W!None
    BY <1>3, <1>4, <1>5, <1>12 DEF Proper
  <2>8. Proper(d, s)'
    BY <1>4, <1>6, <1>8, <2>3, <2>4, <2>5, <2>6, <2>7 DEF Proper, Leads
  <2>9. Lone(commands)' /\ AllProper(s)'
    BY <1>5, <2>2, <2>5, <2>6, <2>8, QuietThenOne
  <2>10. Sleeping(s)' /\ NewClient(s)'
    BY <1>4, <1>11, <2>5 DEF Sleeping, NewClient
  <2>11. Told(s)'
    BY <1>4, <1>6, <1>7, <1>9, <2>5, <2>7 DEF Told
  <2> QED BY <2>9, <2>10, <2>11 DEF Single
<1>13. CASE c.verb = "clock"
  <2>1. PICK d : d = W!Command(k, s, "subscribe", clock)
    OBVIOUS
  <2>2. d \in CommandType
    <3>1. clock \in 0 .. MaxClock
      BY WatchmanAssumptions DEF W!BoundAssumption, WatchTyped
    <3> QED BY <1>4, <2>1, <3>1, CommandTyped DEF W!Awaiting
  <2>3. d.by = k
    BY <2>1 DEF W!Command
  <2>4. d.verb = "subscribe"
    BY <2>1 DEF W!Command
  <2>5. entry' = [entry EXCEPT ![s] = k] /\ feed' = feed /\ commands' = Append(rest, d)
    BY <1>2, <1>3, <1>4, <1>5, <1>13, <2>1 DEF W!AnswerCall
  <2>6. Leads(c)
    BY <1>13 DEF Leads
  <2>7. entry'[s] = k
    BY <2>5 DEF WatchTyped
  <2>8. Proper(d, s)'
    BY <1>4, <1>6, <1>8, <2>3, <2>4, <2>5, <2>6 DEF Proper, Leads
  <2>9. Lone(commands)' /\ AllProper(s)'
    BY <1>5, <2>2, <2>5, <2>6, <2>8, QuietThenOne
  <2>10. Sleeping(s)' /\ NewClient(s)'
    BY <1>4, <1>11, <2>5 DEF Sleeping, NewClient
  <2>11. Told(s)'
    BY <1>4, <1>6, <1>7, <1>8, <1>9, <2>6, <2>7 DEF Told
  <2> QED BY <2>9, <2>10, <2>11 DEF Single
<1>14. CASE c.verb = "subscribe"
  <2>1. entry' = entry /\ W!Feeds(s, c.since) /\ commands' = rest
    BY <1>2, <1>4, <1>5, <1>14 DEF W!AnswerCall
  <2>2. Leads(c)
    BY <1>14 DEF Leads
  <2>3. feed'[s] = IF client = "live" THEN c.since ELSE W!Off
    BY <2>1 DEF W!Feeds, WatchTyped
  <2>4. Lone(commands)' /\ AllProper(s)'
    BY <1>5, <2>1, <2>2, QuietQueue
  <2>5. Sleeping(s)' /\ NewClient(s)'
    BY <1>4, <1>8, <2>2, <2>3 DEF Sleeping, NewClient
  <2>6. Told(s)'
    BY <1>4, <1>6, <1>7, <1>8, <1>9, <1>10, <2>1, <2>2 DEF Told
  <2> QED BY <2>4, <2>5, <2>6 DEF Single
<1>15. CASE c.verb = "unsubscribe"
  <2>1. /\ entry' = [entry EXCEPT ![s] = W!None] /\ feed' = [feed EXCEPT ![s] = W!Off]
        /\ commands' = rest
    BY <1>2, <1>4, <1>5, <1>15 DEF W!AnswerCall, W!DeleteSubscription
  <2>2. entry'[s] = W!None /\ feed'[s] = W!Off
    BY <2>1 DEF WatchTyped
  <2>3. \A x \in ProperCommands(s) : Proper(x, s)'
    BY <1>4, <2>2 DEF ProperCommands, Proper
  <2>4. AllProper(s)'
    BY <1>5, <2>1, <2>3, ProperAfter
  <2>5. Lone(commands)'
    BY <1>5, <2>1 DEF Lone, Leads
  <2>6. Sleeping(s)' /\ NewClient(s)'
    BY <1>4, <1>11, <2>2 DEF Sleeping, NewClient
  <2>7. Told(s)'
    BY <1>4, <1>6, <1>7, <1>9, <2>2 DEF Told
  <2> QED BY <2>4, <2>5, <2>6, <2>7 DEF Single
<1>16. c.verb \in W!Awaiting
  BY <1>5, CommandFields
<1> QED BY <1>12, <1>13, <1>14, <1>15, <1>16 DEF W!Awaiting

\* Watchman answers a restore.
LEMMA AnswerRestoreSingle ==
  ASSUME WatchTyped, CommandsTimely, NEW s \in W!Sub, W!Sub = {s}, Single(s),
         W!Answer, Head(commands).by \notin WatchCall
  PROVE  Single(s)'
<1>1. PICK c : c = Head(commands)
  OBVIOUS
<1>2. PICK rest : rest = Tail(commands)
  OBVIOUS
<1>3. /\ commands # <<>> /\ W!AnswerRestore(c) /\ client \in {"live", "dead"}
      /\ UNCHANGED <<root, client, watch, entry, lastKnown, born, seen>>
  BY <1>1 DEF W!Answer, W!AnswerRestore
<1>4. /\ c \in CommandType /\ Proper(c, s) /\ c.sub = s /\ Timely(c)
      /\ Leads(c) => rest \in Seq(Quiet)
      /\ \E j \in WatchCall : watch[j] # "idle"
  BY <1>1, <1>2, <1>3, HeadOfSingle
<1>5. PICK K : K = lastKnown[root[s]] /\ K = lastKnown'[root'[s]]
  BY <1>3
<1>6. /\ Leads(c) /\ c.by = "this attempt" /\ phase = "restoring"
      /\ settling = {} /\ feed[s] = W!Off /\ rest \in Seq(Quiet)
  BY <1>1, <1>4 DEF Proper
<1>7. \A j \in WatchCall :
        IF watch'[j] = "idle" THEN seen'[j] = 0 ELSE seen'[j] = K \/ seen'[j] < born'
  BY <1>3, <1>5 DEF Single, Told
<1>8. entry[s] # W!None => watch[entry[s]] # "idle"
  BY DEF Single, Told
<1>9. NewClient(s)
  BY DEF Single
<1>10. CASE c.verb = "watch-project"
  <2>1. PICK t : t = [by |-> "this attempt", sub |-> s]
    OBVIOUS
  <2>2. t.by = "this attempt"
    BY <2>1
  <2>3. settling' = {t} /\ commands' = rest /\ UNCHANGED <<feed, phase>>
    BY <1>2, <1>3, <1>4, <1>6, <1>10, <2>1 DEF W!AnswerRestore
  <2>4. Lone(commands)' /\ AllProper(s)'
    BY <1>6, <2>3, QuietQueue
  <2>5. Sleeping(s)'
    BY <1>6, <2>2, <2>3 DEF Sleeping
  <2>6. NewClient(s)'
    BY <1>3, <1>9, <2>3 DEF NewClient
  <2>7. Told(s)'
    BY <1>3, <1>4, <1>5, <1>6, <1>7, <1>8, <2>3 DEF Told
  <2> QED BY <2>4, <2>5, <2>6, <2>7 DEF Single
<1>11. CASE c.verb = "clock"
  <2>1. PICK d : d = W!Command("this attempt", s, "subscribe", clock)
    OBVIOUS
  <2>2. d \in CommandType
    <3>1. clock \in 0 .. MaxClock
      BY WatchmanAssumptions DEF W!BoundAssumption, WatchTyped
    <3> QED BY <2>1, <3>1, CommandTyped DEF W!Awaiting, W!Attempt
  <2>3. d.by = "this attempt"
    BY <2>1 DEF W!Command
  <2>4. d.verb = "subscribe"
    BY <2>1 DEF W!Command
  <2>5. commands' = Append(rest, d) /\ UNCHANGED <<feed, phase, settling>>
    BY <1>2, <1>3, <1>4, <1>6, <1>11, <2>1 DEF W!AnswerRestore, W!reconnectVars
  <2>6. K = 0
    BY <1>4, <1>5, <1>11 DEF Proper
  <2>7. "this attempt" \notin WatchCall
    BY WatchmanAssumptions DEF W!CallsAssumption, W!Attempt
  <2>8. Proper(d, s)'
    BY <1>3, <1>5, <1>6, <2>3, <2>4, <2>5, <2>6, <2>7 DEF Proper, Leads
  <2>9. Lone(commands)' /\ AllProper(s)'
    BY <1>6, <2>2, <2>5, <2>8, QuietThenOne
  <2>10. Sleeping(s)' /\ NewClient(s)'
    BY <1>3, <1>6, <1>9, <2>5 DEF Sleeping, NewClient
  <2>11. Told(s)'
    BY <1>3, <1>4, <1>5, <1>6, <1>7, <1>8, <2>5 DEF Told
  <2> QED BY <2>9, <2>10, <2>11 DEF Single
<1>12. CASE c.verb = "subscribe"
  <2>1. commands' = rest /\ W!Feeds(s, c.since) /\ settling' = settling
    BY <1>2, <1>3, <1>4, <1>12 DEF W!AnswerRestore
  <2>2. feed'[s] = IF client = "live" THEN c.since ELSE W!Off
    BY <2>1 DEF W!Feeds, WatchTyped
  <2>3. K \in {0, c.since} /\ c.since \in Int
    <3>1. K \in {0, c.since}
      BY <1>4, <1>5, <1>12 DEF Proper
    <3>2. c.since \in 0 .. MaxClock
      BY <1>4, CommandFields
    <3> QED BY <3>1, <3>2
  <2>4. Lone(commands)' /\ AllProper(s)'
    BY <1>6, <2>1, QuietQueue
  <2>5. Sleeping(s)' /\ NewClient(s)'
    BY <1>3, <1>6, <2>1, <2>2 DEF Sleeping, NewClient
  <2>6. feed'[s] # W!Off /\ K # 0 => feed'[s] = K
    BY <2>2, <2>3
  <2>7. Told(s)'
    BY <1>3, <1>4, <1>5, <1>7, <1>8, <2>6 DEF Told
  <2> QED BY <2>4, <2>5, <2>7 DEF Single
<1> QED BY <1>3, <1>10, <1>11, <1>12 DEF W!AnswerRestore

LEMMA RefuseSingle ==
  ASSUME WatchTyped, CommandsTimely, NEW s \in W!Sub, W!Sub = {s}, Single(s), OnlyOne',
         W!Refuse, \A j \in WatchCall : watch[j] # "idle" => watch'[j] # "idle"
  PROVE  Single(s)'
<1>1. PICK c : c = Head(commands)
  OBVIOUS
<1>2. PICK rest : rest = Tail(commands)
  OBVIOUS
<1>3. /\ commands # <<>> /\ commands' = rest /\ client \in {"live", "dead"}
      /\ watch' = [k \in WatchCall |-> IF k = c.by THEN "failed" ELSE watch[k]]
      /\ phase' = IF c.by = "this attempt" /\ phase = "restoring" THEN "waiting" ELSE phase
      /\ UNCHANGED <<root, entry, lastKnown, client, settling, born, feed, seen>>
  BY <1>1, <1>2 DEF W!Refuse, W!mapVars, W!eventVars
<1>4. /\ c \in CommandType /\ Proper(c, s)
      /\ rest \in Seq(ProperCommands(s)) /\ Lone(rest)
      /\ Leads(c) => rest \in Seq(Quiet)
      /\ \E j \in WatchCall : watch[j] # "idle"
  BY <1>1, <1>2, <1>3, HeadOfSingle
<1>5. \A j \in WatchCall : watch'[j] = "idle" <=> watch[j] = "idle"
  BY <1>3, <1>4 DEF OnlyOne
<1>6. entry[s] \in WatchCall \cup {W!None}
  BY DEF WatchTyped
<1>7. Told(s)'
  BY <1>3, <1>4, <1>5, <1>6 DEF Single, Told
<1>8. CASE Leads(c)
  <2>1. settling = {} /\ feed[s] = W!Off
    BY <1>4, <1>8 DEF Proper
  <2>2. Lone(commands)' /\ AllProper(s)'
    BY <1>3, <1>4, <1>8, QuietQueue
  <2>3. Sleeping(s)' /\ NewClient(s)'
    BY <1>3, <2>1 DEF Sleeping, NewClient
  <2> QED BY <1>7, <2>2, <2>3 DEF Single
<1>9. CASE ~Leads(c)
  <2>1. phase' = phase
    <3>1. c.by \in WatchCall
      BY <1>4, <1>9 DEF Proper
    <3>2. "this attempt" \notin WatchCall
      BY WatchmanAssumptions DEF W!CallsAssumption, W!Attempt
    <3> QED BY <1>3, <3>1, <3>2
  <2>2. \A x \in ProperCommands(s) : Proper(x, s)'
    BY <1>3, <2>1 DEF ProperCommands, Proper
  <2>3. AllProper(s)'
    BY <1>3, <1>4, <2>2, ProperAfter
  <2>4. Lone(commands)'
    BY <1>3, <1>4 DEF Lone, Leads
  <2>5. Sleeping(s)' /\ NewClient(s)'
    BY <1>3, <2>1 DEF Single, Sleeping, NewClient
  <2> QED BY <1>7, <2>3, <2>4, <2>5 DEF Single
<1> QED BY <1>8, <1>9

LEMMA ClientCreatedSingle ==
  ASSUME WatchTyped, Replaced, NEW s \in W!Sub, W!Sub = {s}, Single(s), W!ClientCreated
  PROVE  Single(s)'
<1>1. /\ client = "creating" /\ client' = "live"
      /\ UNCHANGED <<root, watch, entry, lastKnown, settling, born, feed, seen>>
  BY DEF W!ClientCreated, W!callVars, W!mapVars, W!eventVars
<1>2. phase \in {"idle", "creating"} /\ feed[s] = W!Off /\ settling = {}
  BY <1>1 DEF Single, Sleeping, NewClient
<1>3. Sleeping(s)' /\ NewClient(s)'
  BY <1>1, <1>2 DEF Sleeping, NewClient
<1>4. commands' = commands \/ ~ \A k \in WatchCall : watch[k] = "idle"
  <2>1. CASE phase = "creating"
    <3>1. ASSUME \A k \in WatchCall : watch[k] = "idle"
          PROVE  commands' = commands
      <4>1. entry[s] = W!None
        BY <3>1 DEF Single, Told, WatchTyped
      <4>2. PICK subs : subs = {x \in W!Sub : entry[x] # W!None}
        OBVIOUS
      <4>3. subs = {} /\ IsFiniteSet(subs)
        BY <4>1, <4>2, FS_EmptySet
      <4>4. commands' = commands \o W!SetToSeq(Restores(subs))
        BY <2>1, <4>2 DEF W!ClientCreated, Restores
      <4>5. Len(W!SetToSeq(Restores(subs))) = 0 /\ W!SetToSeq(Restores(subs)) \in Seq(CommandType)
        BY <4>3, RestoresTyped, FS_EmptySet
      <4>6. commands \in Seq(CommandType)
        BY DEF WatchTyped
      <4> QED BY <4>4, <4>5, <4>6, ConcatShort
    <3> QED BY <3>1
  <2>2. CASE phase # "creating"
    BY <2>2 DEF W!ClientCreated
  <2> QED BY <2>1, <2>2
<1>5. Told(s)'
  BY <1>1, <1>4 DEF Single, Told
<1>6. CASE phase # "creating"
  <2>1. commands' = commands /\ phase' = phase
    BY <1>6 DEF W!ClientCreated
  <2>2. \A c \in ProperCommands(s) : Proper(c, s)'
    BY <1>1, <2>1 DEF ProperCommands, Proper
  <2>3. Lone(commands)' /\ AllProper(s)'
    BY <2>1, <2>2, SameQueue
  <2> QED BY <1>3, <1>5, <2>3 DEF Single
<1>7. CASE phase = "creating"
  <2>1. PICK subs : subs = {x \in W!Sub : entry[x] # W!None}
    OBVIOUS
  <2>2. PICK r : r = W!SetToSeq(Restores(subs))
    OBVIOUS
  <2>3. /\ phase' = IF subs # {} THEN "restoring" ELSE IF scheduled THEN "waiting" ELSE "idle"
        /\ commands' = commands \o r
    BY <1>7, <2>1, <2>2 DEF W!ClientCreated, Restores
  <2>4. /\ r \in Seq(CommandType) /\ r \in Seq(Restores(subs)) /\ Len(r) = Cardinality(subs)
        /\ \A c \in Restores(subs) : c.verb = "watch-project" /\ c.by = "this attempt"
    BY <2>1, <2>2, RestoresTyped
  <2>5. commands \in Seq(CommandType)
    BY DEF WatchTyped
  <2>6. CASE entry[s] = W!None
    <3>1. subs = {} /\ Len(r) = 0
      <4>1. subs = {}
        BY <2>1, <2>6
      <4> QED BY <2>4, <4>1, FS_EmptySet
    <3>2. commands' = commands
      BY <2>3, <2>4, <2>5, <3>1, ConcatShort
    <3>3. \A c \in ProperCommands(s) : Proper(c, s)'
      BY <1>1, <1>2, <1>7 DEF ProperCommands, Proper
    <3>4. Lone(commands)' /\ AllProper(s)'
      BY <3>2, <3>3, SameQueue
    <3> QED BY <1>3, <1>5, <3>4 DEF Single
  <2>7. CASE entry[s] # W!None
    <3>1. subs = {s} /\ Len(r) = 1
      <4>1. subs = {s}
        BY <2>1, <2>7
      <4>2. Cardinality({s}) = 1
        BY FS_Singleton
      <4>3. Len(r) = Cardinality(subs)
        BY <2>4
      <4> QED BY <4>1, <4>2, <4>3
    <3>2. PICK d : d = r[1]
      OBVIOUS
    <3>3. d \in CommandType /\ d \in Restores(subs)
      BY <2>4, <3>1, <3>2, ConcatShort
    <3>4. d.verb = "watch-project" /\ d.by = "this attempt"
      BY <2>4, <3>3
    <3>5. commands' = Append(commands, d)
      BY <2>3, <2>4, <2>5, <3>1, <3>2, ConcatShort
    <3>6. commands \in Seq(Quiet)
      <4>1. ASSUME NEW i \in 1 .. Len(commands) PROVE ~Leads(commands[i])
        <5>1. PICK c \in CommandType : c = commands[i]
          BY <2>5
        <5>2. Proper(c, s)
          BY <5>1 DEF Single, AllProper
        <5>3. c.verb \in {"watch-project", "unsubscribe"} /\ c.by \in WatchCall
          BY <1>1, <1>7, <5>2 DEF Proper
        <5> QED BY <2>7, <5>1, <5>2, <5>3 DEF Proper, Leads
      <4> QED BY <4>1, ProperQueue DEF Single
    <3>7. "this attempt" \notin WatchCall
      BY WatchmanAssumptions DEF W!CallsAssumption, W!Attempt
    <3>8. Proper(d, s)'
      BY <1>1, <1>2, <2>3, <3>1, <3>4, <3>7 DEF Proper, Leads
    <3>9. Lone(commands)' /\ AllProper(s)'
      BY <3>3, <3>5, <3>6, <3>8, QuietThenOne
    <3> QED BY <1>3, <1>5, <3>9 DEF Single
  <2> QED BY <2>6, <2>7
<1> QED BY <1>6, <1>7

\* The end of a client takes away what was on its way.
LEMMA EndClientSingle ==
  ASSUME WatchTyped, NEW s \in W!Sub, W!Sub = {s}, Single(s), W!EndClient, commands' = <<>>,
         settling' = settling, settling # {} => phase' = "restoring",
         client' = "creating" => phase' \in {"idle", "creating"},
         UNCHANGED <<root, entry, lastKnown, born, seen>>,
         \A j \in WatchCall : watch[j] # "idle" => watch'[j] # "idle"
  PROVE  Single(s)'
<1>1. feed'[s] = W!Off
  BY DEF W!EndClient
<1>2. \A j \in WatchCall : watch'[j] = "idle" <=> watch[j] = "idle"
  BY DEF W!EndClient, W!Cancelled, W!Awaiting
<1>3. commands' \in Seq(Quiet)
  OBVIOUS
<1>4. Lone(commands)' /\ AllProper(s)'
  BY <1>3, QuietQueue
<1>5. Sleeping(s)' /\ NewClient(s)'
  BY <1>1 DEF Single, Sleeping, NewClient
<1>6. entry[s] \in WatchCall \cup {W!None}
  BY DEF WatchTyped
<1>7. Told(s)'
  BY <1>1, <1>2, <1>6 DEF Single, Told
<1> QED BY <1>4, <1>5, <1>7 DEF Single

LEMMA BeginReconnectSingle ==
  ASSUME WatchTyped, NEW s \in W!Sub, W!Sub = {s}, Single(s), W!BeginReconnect,
         phase # "restoring", UNCHANGED <<root, entry, lastKnown, born, seen>>,
         \A j \in WatchCall : watch[j] # "idle" => watch'[j] # "idle"
  PROVE  Single(s)'
<1>1. settling = {}
  BY DEF Single, Sleeping
<1>2. /\ W!EndClient /\ commands' = <<>> /\ settling' = {}
      /\ client' = "creating" /\ phase' = "creating"
  BY <1>1 DEF W!BeginReconnect
<1> QED BY <1>1, <1>2, EndClientSingle

LEMMA DropClientSingle ==
  ASSUME WatchTyped, NEW s \in W!Sub, W!Sub = {s}, Single(s), W!DropClient,
         UNCHANGED <<root, entry, lastKnown, born, seen, settling>>,
         \A j \in WatchCall : watch[j] # "idle" => watch'[j] # "idle"
  PROVE  Single(s)'
<1>1. /\ W!EndClient /\ commands' = <<>> /\ client' = "dead"
      /\ phase' = IF W!AttemptFails THEN "waiting" ELSE phase
  BY DEF W!DropClient
<1>2. ASSUME settling # {} PROVE phase' = "restoring"
  <2>1. commands \in Seq(Quiet)
    BY <1>2, NothingOnItsWay
  <2>2. "this attempt" \notin WatchCall
    BY WatchmanAssumptions DEF W!CallsAssumption, W!Attempt
  <2>3. \A i \in DOMAIN commands : commands[i].by # "this attempt"
    <3> SUFFICES ASSUME NEW i \in DOMAIN commands PROVE commands[i].by # "this attempt"
      OBVIOUS
    <3>1. PICK c \in Quiet : c = commands[i]
      BY <2>1
    <3> QED BY <2>2, <3>1 DEF Quiet
  <2>4. ~W!AttemptFails
    BY <2>3 DEF W!AttemptFails
  <2>5. phase = "restoring"
    BY <1>2 DEF Single, Sleeping
  <2> QED BY <1>1, <2>4, <2>5
<1>3. client' # "creating"
  BY <1>1
<1> QED BY <1>1, <1>2, <1>3, EndClientSingle

LEMMA ClientFailsSingle ==
  ASSUME WatchTyped, NEW s \in W!Sub, W!Sub = {s}, Single(s), W!ClientFails,
         \A j \in WatchCall : watch[j] # "idle" => watch'[j] # "idle"
  PROVE  Single(s)'
<1>1. UNCHANGED <<root, entry, lastKnown, born, seen>>
  BY DEF W!ClientFails, W!mapVars
<1>2. CASE phase = "idle" /\ W!BeginReconnect
  BY <1>1, <1>2, BeginReconnectSingle
<1>3. CASE W!DropClient /\ UNCHANGED <<restoring, settling>>
  BY <1>1, <1>3, DropClientSingle
<1> QED BY <1>2, <1>3 DEF W!ClientFails

LEMMA RetrySingle ==
  ASSUME WatchTyped, NEW s \in W!Sub, W!Sub = {s}, Single(s), W!Retry,
         \A j \in WatchCall : watch[j] # "idle" => watch'[j] # "idle"
  PROVE  Single(s)'
<1>1. phase = "waiting" /\ W!BeginReconnect /\ UNCHANGED <<root, entry, lastKnown, born, seen>>
  BY DEF W!Retry, W!mapVars
<1> QED BY <1>1, BeginReconnectSingle

\* A restore wakes up.
LEMMA SettledSingle ==
  ASSUME WatchTyped, NEW s \in W!Sub, W!Sub = {s}, Single(s), NEW t \in settling, W!Settled(t)
  PROVE  Single(s)'
<1>1. /\ settling' = settling \ {t}
      /\ UNCHANGED <<root, watch, entry, lastKnown, client, phase, born, feed, seen>>
  BY DEF W!Settled, W!callVars, W!mapVars, W!eventVars
<1>2. /\ t.by = "this attempt" /\ t.sub = s /\ settling' = {}
      /\ phase = "restoring" /\ feed[s] = W!Off
  BY <1>1 DEF Single, Sleeping, WatchTyped
<1>3. client # "creating"
  BY <1>2 DEF Single, NewClient
<1>4. commands \in Seq(Quiet)
  BY NothingOnItsWay
<1>5. PICK K : K = lastKnown[root[s]]
  OBVIOUS
<1>6. PICK v : v = IF K = 0 THEN "clock" ELSE "subscribe"
  OBVIOUS
<1>7. PICK d : d = W!Command("this attempt", s, v, K)
  OBVIOUS
<1>8. commands' = Append(commands, d)
  BY <1>2, <1>5, <1>6, <1>7 DEF W!Settled, W!Ask, W!Since
<1>9. d \in CommandType
  <2>1. K \in 0 .. clock
    BY <1>5 DEF WatchTyped
  <2>2. clock \in 1 .. MaxClock /\ MaxClock \in Nat
    BY WatchmanAssumptions DEF WatchTyped, W!BoundAssumption
  <2>3. K \in 0 .. MaxClock
    BY <2>1, <2>2
  <2> QED BY <1>6, <1>7, <2>3, CommandTyped DEF W!Awaiting, W!Attempt
<1>10. d.by = "this attempt"
  BY <1>7 DEF W!Command
<1>11. d.verb = v
  BY <1>7 DEF W!Command
<1>12. d.since = K
  BY <1>7 DEF W!Command
<1>13. "this attempt" \notin WatchCall
  BY WatchmanAssumptions DEF W!CallsAssumption, W!Attempt
<1>14. Proper(d, s)'
  BY <1>1, <1>2, <1>3, <1>5, <1>6, <1>10, <1>11, <1>12, <1>13 DEF Proper, Leads
<1>15. Lone(commands)' /\ AllProper(s)'
  BY <1>4, <1>8, <1>9, <1>14, QuietThenOne
<1>16. Sleeping(s)' /\ NewClient(s)'
  BY <1>1, <1>2 DEF Single, Sleeping, NewClient
<1>17. ~ \A k \in WatchCall : watch[k] = "idle"
  BY DEF Single, Told
<1>18. Told(s)'
  BY <1>1, <1>17 DEF Single, Told
<1> QED BY <1>15, <1>16, <1>18 DEF Single

\* Watchman tells of changes.
LEMMA EventSingle ==
  ASSUME WatchTyped, NEW s \in W!Sub, W!Sub = {s}, Single(s), W!Event(s), OnlyOne
  PROVE  Single(s)'
<1>1. /\ client = "live" /\ feed[s] # W!Off /\ feed' = [feed EXCEPT ![s] = clock]
      /\ UNCHANGED <<root, watch, entry, client, commands, phase, settling, born>>
  BY DEF W!Event, W!callVars, W!clientVars, W!reconnectVars
<1>2. feed'[s] = clock /\ clock \in Nat
  BY <1>1 DEF WatchTyped
<1>3. commands \in Seq(Quiet)
  BY <1>1, NothingOnItsWay
<1>4. settling = {}
  BY <1>1 DEF Single, Sleeping
<1>5. Lone(commands)' /\ AllProper(s)'
  BY <1>1, <1>3, QuietQueue
<1>6. Sleeping(s)' /\ NewClient(s)'
  BY <1>1, <1>4 DEF Sleeping, NewClient
<1>7. ~ \A k \in WatchCall : watch[k] = "idle"
  BY <1>1 DEF Single, Told
<1>8. CASE entry[s] = W!None
  <2>1. UNCHANGED <<lastKnown, seen>>
    BY <1>8 DEF W!Event
  <2>2. Told(s)'
    BY <1>1, <1>7, <1>8, <2>1 DEF Single, Told
  <2> QED BY <1>5, <1>6, <2>2 DEF Single
<1>9. CASE entry[s] # W!None
  <2>1. PICK o : o = entry[s]
    OBVIOUS
  <2>2. o \in WatchCall /\ watch[o] # "idle"
    BY <1>9, <2>1 DEF WatchTyped, Single, Told
  <2>3. /\ lastKnown' = [lastKnown EXCEPT ![root[s]] = clock]
        /\ seen' = IF feed[s] < born THEN seen ELSE [seen EXCEPT ![o] = clock]
    BY <1>9, <2>1 DEF W!Event, W!Fresh
  <2>4. lastKnown'[root[s]] = clock
    BY <2>3 DEF WatchTyped
  <2>5. ASSUME NEW k \in WatchCall
        PROVE  IF watch[k] = "idle" THEN seen'[k] = 0 ELSE seen'[k] = clock \/ seen'[k] < born
    <3>1. CASE k = o /\ feed[s] < born
      <4>1. PICK K : K = lastKnown[root[s]]
        OBVIOUS
      <4>2. K = 0 \/ K = feed[s]
        BY <1>1, <1>9, <4>1 DEF Single, Told
      <4>3. seen[o] = K \/ seen[o] < born
        BY <2>2, <4>1 DEF Single, Told
      <4>4. 0 < born
        BY DEF WatchTyped
      <4>5. seen[o] < born
        BY <3>1, <4>2, <4>3, <4>4
      <4> QED BY <2>2, <2>3, <3>1, <4>5
    <3>2. CASE k = o /\ ~(feed[s] < born)
      <4>1. seen'[o] = clock
        BY <2>2, <2>3, <3>2 DEF WatchTyped
      <4> QED BY <2>2, <3>2, <4>1
    <3>3. CASE k # o
      <4>1. watch[k] = "idle" /\ seen[k] = 0
        BY <2>2, <3>3 DEF OnlyOne, Single, Told
      <4>2. seen'[k] = seen[k]
        BY <2>3, <3>3 DEF WatchTyped
      <4> QED BY <4>1, <4>2
    <3> QED BY <3>1, <3>2, <3>3
  <2>6. feed'[s] = lastKnown'[root[s]]
    BY <1>2, <2>4
  <2>7. Told(s)'
    BY <1>1, <1>7, <2>1, <2>2, <2>4, <2>5, <2>6 DEF Told
  <2> QED BY <1>5, <1>6, <2>7 DEF Single
<1> QED BY <1>8, <1>9

LEMMA SameSingle ==
  ASSUME WatchTyped, NEW s \in W!Sub, Single(s),
         UNCHANGED <<root, watch, entry, lastKnown, client, commands, phase, settling, born, feed,
                     seen>>
  PROVE  Single(s)'
<1>1. \A c \in ProperCommands(s) : Proper(c, s)'
  BY DEF ProperCommands, Proper
<1>2. Lone(commands)' /\ AllProper(s)'
  BY <1>1, SameQueue
<1>3. Sleeping(s)' /\ NewClient(s)' /\ Told(s)'
  BY DEF Single, Sleeping, NewClient, Told
<1> QED BY <1>2, <1>3 DEF Single

\* No clock that was seen is one of a Watchman that is started now.
LEMMA RestartSingle ==
  ASSUME WatchTyped, NEW s \in W!Sub, Single(s), W!WatchmanRestarts
  PROVE  Single(s)'
<1>1. /\ client = "creating" /\ born' = clock + 1
      /\ UNCHANGED <<root, watch, entry, lastKnown, client, commands, phase, settling, feed, seen>>
  BY DEF W!WatchmanRestarts, W!callVars, W!mapVars, W!clientVars, W!reconnectVars
<1>2. \A c \in ProperCommands(s) : Proper(c, s)'
  BY <1>1 DEF ProperCommands, Proper
<1>3. Lone(commands)' /\ AllProper(s)'
  BY <1>1, <1>2, SameQueue
<1>4. Sleeping(s)' /\ NewClient(s)'
  BY <1>1 DEF Single, Sleeping, NewClient
<1>5. feed[s] = W!Off
  BY <1>1 DEF Single, NewClient
<1>6. ASSUME NEW k \in WatchCall PROVE seen'[k] < born'
  <2>1. seen[k] \in 0 .. clock /\ clock \in Nat
    BY DEF WatchTyped
  <2> QED BY <1>1, <2>1
<1>7. \A k \in WatchCall : watch[k] = "idle" => seen[k] = 0
  BY DEF Single, Told
<1>8. Told(s)'
  BY <1>1, <1>5, <1>6, <1>7 DEF Single, Told
<1> QED BY <1>3, <1>4, <1>8 DEF Single

LEMMA SingleKept ==
  ASSUME WatchmanInv, [W!Next]_(W!vars), NEW s \in W!Sub, W!Sub = {s}, Single(s), OnlyOne'
  PROVE  Single(s)'
<1> USE DEF WatchmanInv
<1>1. \A j \in WatchCall : watch[j] # "idle" => watch'[j] # "idle"
  BY StaysBegun
<1>2. OnlyOne
  BY <1>1 DEF OnlyOne
<1>3. CASE UNCHANGED W!vars \/ W!Change
  <2>1. UNCHANGED <<root, watch, entry, lastKnown, client, commands, phase, settling, born, feed,
                    seen>>
    BY <1>3 DEF W!Change, W!vars, W!callVars, W!mapVars, W!clientVars, W!reconnectVars, W!eventVars
  <2> QED BY <2>1, SameSingle
<1>4. CASE \E k \in WatchCall : W!Watch(k) \/ W!Unwatch(k)
  BY <1>1, <1>4, WatchSingle, UnwatchSingle
<1>5. CASE W!Answer
  BY <1>1, <1>5, AnswerCallSingle, AnswerRestoreSingle
<1>6. CASE \E t \in settling : W!Settled(t)
  BY <1>6, SettledSingle
<1>7. CASE \E x \in W!Sub : W!Event(x)
  BY <1>2, <1>7, EventSingle
<1>8. CASE W!Refuse
  BY <1>1, <1>8, RefuseSingle
<1>9. CASE W!ClientCreated
  BY <1>9, ClientCreatedSingle
<1>10. CASE W!ClientFails
  BY <1>1, <1>10, ClientFailsSingle
<1>11. CASE W!Retry
  BY <1>1, <1>11, RetrySingle
<1>12. CASE W!WatchmanRestarts
  BY <1>12, RestartSingle
<1> QED BY <1>3, <1>4, <1>5, <1>6, <1>7, <1>8, <1>9, <1>10, <1>11, <1>12 DEF W!Next

LEMMA AloneMeans ==
  ASSUME WatchTyped, NEW s \in W!Sub
  PROVE  W!Alone(s) <=> W!Sub = {s} /\ OnlyOne
<1>1. ASSUME W!Sub = {s} PROVE \A k \in WatchCall : name[k] = s
  BY <1>1 DEF WatchTyped
<1> QED BY <1>1 DEF W!Alone, OnlyOne

LEMMA AloneKept ==
  ASSUME WatchmanInv, AloneInv, [W!Next]_(W!vars)
  PROVE  AloneInv'
<1>1. WatchTyped /\ WatchmanInv'
  BY WatchmanTypesKept, EntriesKept DEF WatchmanInv
<1>2. root' = root
  BY DEF W!Next, W!vars, W!callVars, W!Watch, W!Unwatch, W!Answer, W!Refuse, W!ClientCreated,
         W!ClientFails, W!Retry, W!Settled, W!Change, W!WatchmanRestarts, W!Event
<1>3. W!Sub' = W!Sub
  BY <1>2 DEF W!Sub
<1> SUFFICES ASSUME NEW s \in W!Sub, W!Alone(s)' PROVE Single(s)'
  BY <1>3 DEF AloneInv
<1>4. W!Sub = {s} /\ OnlyOne'
  <2>1. \A k \in WatchCall : name'[k] \in W!Sub'
    BY <1>1 DEF WatchmanInv, WatchTyped
  <2>2. W!Sub' = {s}
    BY DEF W!Alone
  <2>3. \A k \in WatchCall : name'[k] = s
    BY <2>1, <2>2
  <2> QED BY <1>3, <2>2, <2>3 DEF W!Alone, OnlyOne
<1>5. \A j \in WatchCall : watch[j] # "idle" => watch'[j] # "idle"
  BY <1>1, StaysBegun
<1>6. OnlyOne
  BY <1>4, <1>5 DEF OnlyOne
<1>7. Single(s)
  BY <1>1, <1>4, <1>6, AloneMeans DEF AloneInv
<1> QED BY <1>4, <1>7, SingleKept

LEMMA AloneAtFirst == W!Init => AloneInv
<1> SUFFICES ASSUME W!Init, NEW s \in W!Sub PROVE Single(s)
  BY DEF AloneInv
<1>1. /\ commands = <<>> /\ settling = {} /\ client = "creating" /\ phase = "idle"
      /\ feed[s] = W!Off /\ entry[s] = W!None /\ lastKnown[root[s]] = 0
      /\ \A k \in WatchCall : watch[k] = "idle" /\ seen[k] = 0
  BY DEF W!Init
<1>2. Len(commands) = 0
  BY <1>1
<1>3. Lone(commands) /\ AllProper(s)
  BY <1>2 DEF Lone, AllProper
<1>4. Sleeping(s) /\ NewClient(s) /\ Told(s)
  BY <1>1 DEF Sleeping, NewClient, Told
<1> QED BY <1>3, <1>4 DEF Single

\* The only subscription of a client, if it was asked for once, misses nothing
\* after its first event while the Watchman that sent its last changes runs,
\* however often the connection to it fails
\* ("reconnect `since` that time", WatchmanClient._restoreSubscriptions).
THEOREM AloneNeverMisses == W!Spec => []AloneMissesNothing
<1>1. WatchmanInv /\ AloneInv /\ [W!Next]_(W!vars) => AloneInv'
  BY AloneKept
<1>2. WatchmanInv /\ AloneInv => AloneMissesNothing
  <2> SUFFICES ASSUME WatchmanInv, AloneInv, NEW s \in W!Sub, W!Alone(s), W!Misses(s)
               PROVE  FALSE
    BY DEF AloneMissesNothing, W!AloneMissesNothing
  <2>1. Told(s)
    BY DEF AloneInv, Single
  <2>2. PICK o : o = entry[s]
    OBVIOUS
  <2>3. /\ o # W!None /\ feed[s] # W!Off /\ seen[o] >= born /\ feed[s] > seen[o]
    BY <2>2 DEF W!Misses
  <2>4. o \in WatchCall
    BY <2>2, <2>3 DEF WatchmanInv, WatchTyped
  <2>5. PICK K : K = lastKnown[root[s]]
    OBVIOUS
  <2>6. K \in Int /\ feed[s] \in Int /\ seen[o] \in Int /\ born \in Int /\ born >= 1
    BY <2>4, <2>5 DEF WatchmanInv, WatchTyped
  <2>7. seen[o] = 0 \/ seen[o] = K \/ seen[o] < born
    BY <2>1, <2>4, <2>5 DEF Told
  <2>8. seen[o] = K /\ K # 0
    BY <2>3, <2>6, <2>7
  <2>9. feed[s] = K
    BY <2>1, <2>2, <2>3, <2>5, <2>8 DEF Told
  <2> QED BY <2>3, <2>6, <2>8, <2>9
<1> QED BY <1>1, <1>2, AloneAtFirst, WatchmanInvariant, PTL DEF W!Spec

-----------------------------------------------------------------------------
(* Watchman: the counts, and with them the types *)

Calm(c) == c.by \notin WatchCall

\* Commands of other calls than k.
Others(k) == {c \in CommandType : Awaited(c) /\ c.by # k}

LEMMA AwaitedAfter ==
  ASSUME NEW S, commands' \in Seq(S), \A c \in S : Awaited(c)'
  PROVE  AllAwaited'
<1>1. ASSUME NEW i \in 1 .. Len(commands'), NEW c, c = commands'[i], Awaited(c)'
      PROVE  Awaited(commands[i])'
  BY <1>1 DEF Awaited
<1>2. \A i \in 1 .. Len(commands') : commands'[i] \in S
  OBVIOUS
<1>3. \A i \in 1 .. Len(commands') : Awaited(commands[i])'
  BY <1>1, <1>2
<1> QED BY <1>3 DEF AllAwaited

LEMMA AppendOneEach ==
  ASSUME NEW S, NEW q \in Seq(S), NEW d \in S, OneEach(q),
         d.by \in WatchCall => \A i \in 1 .. Len(q) : q[i].by # d.by
  PROVE  OneEach(Append(q, d))
<1>1. /\ Len(Append(q, d)) = Len(q) + 1 /\ Len(q) \in Nat
      /\ \A i \in 1 .. Len(q) : Append(q, d)[i] = q[i]
      /\ Append(q, d)[Len(q) + 1] = d
  BY AppendTyped
<1>2. ASSUME NEW i \in 1 .. Len(Append(q, d)) PROVE i \in 1 .. Len(q) \/ i = Len(q) + 1
  BY <1>1
<1> SUFFICES ASSUME NEW i \in 1 .. Len(Append(q, d)), NEW j \in 1 .. Len(Append(q, d)),
                    Append(q, d)[i].by \in WatchCall,
                    Append(q, d)[i].by = Append(q, d)[j].by
             PROVE  i = j
  BY DEF OneEach
<1>3. CASE i \in 1 .. Len(q) /\ j \in 1 .. Len(q)
  BY <1>1, <1>3 DEF OneEach
<1>4. CASE i = Len(q) + 1 /\ j \in 1 .. Len(q)
  BY <1>1, <1>4
<1>5. CASE i \in 1 .. Len(q) /\ j = Len(q) + 1
  BY <1>1, <1>5
<1> QED BY <1>2, <1>3, <1>4, <1>5

LEMMA TailOneEach ==
  ASSUME NEW S, NEW q \in Seq(S), q # <<>>, OneEach(q)
  PROVE  /\ OneEach(Tail(q))
         /\ Head(q).by \in WatchCall =>
              \A i \in 1 .. Len(Tail(q)) : Tail(q)[i].by # Head(q).by
<1>1. /\ Head(q) = q[1] /\ Len(q) \in Nat \ {0} /\ Len(Tail(q)) = Len(q) - 1
      /\ \A i \in 1 .. Len(q) - 1 : Tail(q)[i] = q[i + 1]
  BY TailTyped
<1>2. ASSUME NEW i \in 1 .. Len(Tail(q))
      PROVE  i \in Int /\ i + 1 \in 1 .. Len(q) /\ i + 1 # 1 /\ Tail(q)[i] = q[i + 1]
  BY <1>1
<1>3. OneEach(Tail(q))
  <2> SUFFICES ASSUME NEW i \in 1 .. Len(Tail(q)), NEW j \in 1 .. Len(Tail(q)),
                      Tail(q)[i].by \in WatchCall, Tail(q)[i].by = Tail(q)[j].by
               PROVE  i = j
    BY DEF OneEach
  <2>1. i + 1 = j + 1
    BY <1>2 DEF OneEach
  <2> QED BY <1>2, <2>1
<1>4. ASSUME Head(q).by \in WatchCall, NEW i \in 1 .. Len(Tail(q)), Tail(q)[i].by = Head(q).by
      PROVE  FALSE
  <2>1. 1 \in 1 .. Len(q)
    BY <1>1
  <2>2. i + 1 = 1
    BY <1>1, <1>2, <1>4, <2>1 DEF OneEach
  <2> QED BY <1>2, <2>2
<1> QED BY <1>3, <1>4

LEMMA ConcatOneEach ==
  ASSUME NEW S, NEW q \in Seq(S), NEW r \in Seq(S), OneEach(q),
         \A i \in 1 .. Len(r) : Calm(r[i])
  PROVE  OneEach(q \o r)
<1>1. \A i \in 1 .. Len(q \o r) :
        \/ i \in 1 .. Len(q) /\ (q \o r)[i] = q[i]
        \/ Calm((q \o r)[i])
  BY ConcatTyped
<1> QED BY <1>1 DEF OneEach, Calm

LEMMA AwaitedQueue ==
  ASSUME WatchTyped, AllAwaited
  PROVE  commands \in Seq({c \in CommandType : Awaited(c)})
<1>1. commands \in Seq(CommandType)
  BY DEF WatchTyped
<1>2. ASSUME NEW i \in 1 .. Len(commands)
      PROVE  commands[i] \in {c \in CommandType : Awaited(c)}
  <2>1. PICK c \in CommandType : c = commands[i]
    BY <1>1
  <2>2. Awaited(c)
    BY <2>1 DEF AllAwaited
  <2> QED BY <2>1, <2>2
<1> QED BY <1>1, <1>2, SeqOf

\* The counts are bounded after a step of call k, or of none.
LEMMA FinitelyManyCalls ==
  ASSUME NEW S \in SUBSET WatchCall
  PROVE  IsFiniteSet(S) /\ Cardinality(S) \in Nat
<1>1. IsFiniteSet(WatchCall)
  BY WatchmanAssumptions, SameOperators DEF W!CallsAssumption
<1> QED BY <1>1, FS_Subset, FS_CardinalityType

LEMMA CountedAfter ==
  ASSUME Counted, WatchTyped, WatchTyped', LeftCalls \subseteq LeftCalls',
         BegunCalls \subseteq BegunCalls',
         NEW k \in WatchCall,
         NEW o \in WatchCall,
         \/ count' = count
         \/ count' = [count EXCEPT ![o] = 1] /\ k \in BegunCalls'
         \/ count' = [count EXCEPT ![o] = @ + 1] /\ k \in BegunCalls' \ BegunCalls
         \/ count' = [count EXCEPT ![o] = @ - 1] /\ k \in LeftCalls' \ LeftCalls
  PROVE  Counted'
<1>1. PICK B : B = BegunCalls
  OBVIOUS
<1>2. PICK C : C = BegunCalls'
  OBVIOUS
<1>3. PICK L1 : L1 = LeftCalls
  OBVIOUS
<1>4. PICK L2 : L2 = LeftCalls'
  OBVIOUS
<1>5. B \in SUBSET WatchCall /\ C \in SUBSET WatchCall /\ L1 \in SUBSET WatchCall
      /\ L2 \in SUBSET WatchCall
  BY <1>1, <1>2, <1>3, <1>4 DEF BegunCalls, LeftCalls
<1>6. /\ Cardinality(B) \in Nat /\ Cardinality(C) \in Nat
      /\ Cardinality(L1) \in Nat /\ Cardinality(L2) \in Nat
      /\ IsFiniteSet(B) /\ IsFiniteSet(C) /\ IsFiniteSet(L1) /\ IsFiniteSet(L2)
  BY <1>5, FinitelyManyCalls
<1>7. Cardinality(B) <= Cardinality(C) /\ Cardinality(L1) <= Cardinality(L2)
  BY <1>1, <1>2, <1>3, <1>4, <1>6, FS_Subset
<1>8. ASSUME NEW X \in SUBSET WatchCall, NEW Y \in SUBSET WatchCall, X \subseteq Y, k \in Y \ X
      PROVE  Cardinality(X) + 1 <= Cardinality(Y)
  <2>1. IsFiniteSet(X) /\ IsFiniteSet(Y) /\ Cardinality(X) \in Nat /\ Cardinality(Y) \in Nat
    BY FinitelyManyCalls
  <2>2. X \cup {k} \in SUBSET Y
    BY <1>8
  <2>3. Cardinality(X \cup {k}) <= Cardinality(Y)
    BY <2>1, <2>2, FS_Subset
  <2>4. Cardinality(X \cup {k}) = Cardinality(X) + 1
    BY <1>8, <2>1, FS_AddElement
  <2> QED BY <2>3, <2>4
<1>9. /\ count \in [WatchCall -> Int] /\ count' \in [WatchCall -> Int]
      /\ \A x \in WatchCall : -Cardinality(L1) <= count[x] /\ count[x] <= Cardinality(B)
  BY <1>1, <1>3 DEF Counted, WatchTyped
<1> SUFFICES \A x \in WatchCall : -Cardinality(L2) <= count'[x] /\ count'[x] <= Cardinality(C)
  BY <1>2, <1>4 DEF Counted
<1>10. ASSUME NEW x \in WatchCall, count'[x] = count[x]
       PROVE  -Cardinality(L2) <= count'[x] /\ count'[x] <= Cardinality(C)
  BY <1>6, <1>7, <1>9, <1>10
<1>11. \A x \in WatchCall : x # o => count'[x] = count[x]
  BY <1>9
<1>12. -Cardinality(L2) <= count'[o] /\ count'[o] <= Cardinality(C)
  <2>1. CASE count' = count
    BY <1>10, <2>1
  <2>2. CASE count' = [count EXCEPT ![o] = 1] /\ k \in BegunCalls'
    <3>1. {} \in SUBSET WatchCall /\ {} \subseteq C /\ k \in C \ {}
      BY <1>2, <2>2
    <3>2. Cardinality({}) + 1 <= Cardinality(C) /\ Cardinality({}) = 0
      BY <1>5, <1>8, <3>1, FS_EmptySet
    <3>3. count'[o] = 1
      BY <1>9, <2>2
    <3> QED BY <1>6, <3>2, <3>3
  <2>3. CASE count' = [count EXCEPT ![o] = @ + 1] /\ k \in BegunCalls' \ BegunCalls
    <3>1. Cardinality(B) + 1 <= Cardinality(C)
      BY <1>1, <1>2, <1>5, <1>8, <2>3
    <3>2. count'[o] = count[o] + 1
      BY <1>9, <2>3
    <3> QED BY <1>6, <1>7, <1>9, <3>1, <3>2
  <2>4. CASE count' = [count EXCEPT ![o] = @ - 1] /\ k \in LeftCalls' \ LeftCalls
    <3>1. Cardinality(L1) + 1 <= Cardinality(L2)
      BY <1>3, <1>4, <1>5, <1>8, <2>4
    <3>2. count'[o] = count[o] - 1
      BY <1>9, <2>4
    <3> QED BY <1>6, <1>7, <1>9, <3>1, <3>2
  <2> QED BY <2>1, <2>2, <2>3, <2>4
<1> QED BY <1>10, <1>11, <1>12

CallsInv == AllAwaited /\ OneEach(commands) /\ Counted

\* A step that counts nothing and moves no call out of those that left.
LEMMA SameCounts ==
  ASSUME Counted, WatchTyped, WatchTyped', count' = count,
         \A k \in WatchCall : watch[k] # "idle" => watch'[k] # "idle",
         LeftCalls \subseteq LeftCalls'
  PROVE  Counted'
<1>1. BegunCalls \subseteq BegunCalls'
  BY DEF BegunCalls
<1>2. CASE WatchCall = {}
  BY <1>2 DEF Counted
<1>3. CASE WatchCall # {}
  <2>1. PICK k \in WatchCall : TRUE
    BY <1>3
  <2> QED BY <1>1, <2>1, CountedAfter
<1> QED BY <1>2, <1>3

\* A call asks, or leaves.
LEMMA CallAwaits ==
  ASSUME WatchTyped, WatchTyped', CallsInv, NEW k \in WatchCall, W!Watch(k) \/ W!Unwatch(k)
  PROVE  CallsInv'
<1>1. watch[k] \in {"idle", "open"} /\ name[k] \in W!Sub
  BY DEF W!Watch, W!Unwatch, WatchTyped
<1>2. PICK w \in {"open", "watch-project", "left", "unsubscribe"} :
        /\ watch' = [watch EXCEPT ![k] = w]
        /\ \/ commands' = commands
           \/ w \in W!Awaiting /\ commands' = Append(commands, W!Command(k, name[k], w, 0))
  BY DEF W!Watch, W!Unwatch, W!Ask, W!Awaiting
<1>3. watch'[k] = w /\ \A j \in WatchCall : j # k => watch'[j] = watch[j]
  BY <1>2 DEF WatchTyped
<1>4. ASSUME NEW c \in CommandType, Awaited(c) PROVE c.by # k
  <2>1. c.verb \in W!Awaiting
    BY CommandFields
  <2> QED BY <1>1, <1>4, <2>1 DEF Awaited, W!Awaiting
<1>5. commands \in Seq(Others(k))
  <2>1. commands \in Seq({c \in CommandType : Awaited(c)})
    BY AwaitedQueue DEF CallsInv
  <2>2. \A i \in 1 .. Len(commands) : commands[i] \in Others(k)
    <3> TAKE i \in 1 .. Len(commands)
    <3>1. PICK c : c = commands[i] /\ c \in CommandType /\ Awaited(c)
      BY <2>1
    <3> QED BY <1>4, <3>1 DEF Others
  <2> QED BY <2>1, <2>2, SeqOf
<1>6. \A c \in Others(k) : Awaited(c)'
  BY <1>3 DEF Others, Awaited
<1>7. AllAwaited' /\ OneEach(commands')
  <2>1. CASE commands' = commands
    BY <1>5, <1>6, <2>1, AwaitedAfter DEF CallsInv
  <2>2. CASE w \in W!Awaiting /\ commands' = Append(commands, W!Command(k, name[k], w, 0))
    <3>1. PICK d : d = W!Command(k, name[k], w, 0)
      OBVIOUS
    <3>2. d.by = k
      BY <3>1 DEF W!Command
    <3>3. d.verb = w
      BY <3>1 DEF W!Command
    <3>4. Awaited(d)'
      BY <1>3, <3>2, <3>3 DEF Awaited
    <3>5. commands \in Seq(Others(k) \cup {d}) /\ d \in Others(k) \cup {d}
      BY <1>5
    <3>6. commands' \in Seq(Others(k) \cup {d})
      BY <2>2, <3>1, <3>5, AppendTyped
    <3>7. AllAwaited'
      BY <1>6, <3>4, <3>6, AwaitedAfter
    <3>8. \A i \in 1 .. Len(commands) : commands[i].by # k
      <4> TAKE i \in 1 .. Len(commands)
      <4>1. commands[i] \in Others(k)
        BY <1>5
      <4> QED BY <4>1 DEF Others
    <3>9. OneEach(Append(commands, d))
      BY <3>2, <3>5, <3>8, AppendOneEach DEF CallsInv
    <3> QED BY <2>2, <3>1, <3>7, <3>9
  <2> QED BY <1>2, <2>1, <2>2
<1>8. Counted'
  <2>1. BegunCalls \subseteq BegunCalls' /\ LeftCalls \subseteq LeftCalls'
    BY <1>1, <1>2, <1>3 DEF BegunCalls, LeftCalls
  <2>2. CASE W!Watch(k)
    <3>1. watch[k] = "idle" /\ w # "idle"
      BY <1>2, <2>2 DEF W!Watch
    <3>2. k \in BegunCalls' \ BegunCalls
      BY <1>3, <3>1 DEF BegunCalls
    <3>3. \/ count' = count
          \/ \E o \in WatchCall : count' = [count EXCEPT ![o] = @ + 1]
      BY <2>2 DEF W!Watch, WatchTyped
    <3> QED BY <2>1, <3>2, <3>3, CountedAfter DEF CallsInv
  <2>3. CASE W!Unwatch(k)
    <3>1. watch[k] = "open" /\ watch'[k] \in {"left", "unsubscribe"}
      BY <2>3 DEF W!Unwatch, WatchTyped
    <3>2. k \in LeftCalls' \ LeftCalls
      BY <3>1 DEF LeftCalls
    <3>3. \/ count' = count
          \/ \E o \in WatchCall : count' = [count EXCEPT ![o] = @ - 1]
      BY <2>3 DEF W!Unwatch, WatchTyped
    <3> QED BY <2>1, <3>2, <3>3, CountedAfter DEF CallsInv
  <2> QED BY <2>2, <2>3
<1> QED BY <1>7, <1>8 DEF CallsInv

\* A call gets its answer.
LEMMA AnswerCallAwaits ==
  ASSUME WatchTyped, WatchTyped', CommandsTimely, CallsInv, W!Answer,
         Head(commands).by \in WatchCall
  PROVE  CallsInv'
<1>1. PICK c : c = Head(commands)
  OBVIOUS
<1>2. PICK rest : rest = Tail(commands)
  OBVIOUS
<1>3. PICK k : k = c.by
  OBVIOUS
<1>4. commands # <<>> /\ W!AnswerCall(c) /\ k \in WatchCall
  BY <1>1, <1>3 DEF W!Answer
<1>5. c \in CommandType /\ c.sub \in W!Sub /\ c.verb \in W!Awaiting
  BY <1>1, <1>4, QueuePopped, CommandFields
<1>6. commands \in Seq({x \in CommandType : Awaited(x)})
  BY AwaitedQueue DEF CallsInv
<1>7. Head(commands) \in {x \in CommandType : Awaited(x)}
      /\ rest \in Seq({x \in CommandType : Awaited(x)})
  BY <1>2, <1>4, <1>6, TailTyped
<1>8. watch[k] = c.verb
  BY <1>1, <1>3, <1>4, <1>7 DEF Awaited
<1>9. OneEach(rest) /\ \A i \in 1 .. Len(rest) : rest[i].by # k
  BY <1>1, <1>2, <1>3, <1>4, <1>6, TailOneEach DEF CallsInv
<1>10. rest \in Seq(Others(k))
  <2>1. \A i \in 1 .. Len(rest) : rest[i] \in Others(k)
    <3> TAKE i \in 1 .. Len(rest)
    <3>1. PICK x : x = rest[i] /\ x \in CommandType /\ Awaited(x)
      BY <1>7
    <3> QED BY <1>9, <3>1 DEF Others
  <2> QED BY <1>7, <2>1, SeqOf
<1>11. PICK w \in {"clock", "subscribe", "open", "left"} :
         /\ watch' = [watch EXCEPT ![k] = w]
         /\ \/ commands' = rest
            \/ /\ w \in W!Awaiting
               /\ \E n \in {0, clock} : commands' = Append(rest, W!Command(k, c.sub, w, n))
         /\ c.verb = "unsubscribe" => w = "left"
         /\ \/ count' = count
            \/ count' = [count EXCEPT ![k] = 1]
  BY <1>2, <1>3, <1>4 DEF W!AnswerCall, W!Awaiting
<1>12. watch'[k] = w /\ \A j \in WatchCall : j # k => watch'[j] = watch[j]
  BY <1>4, <1>11 DEF WatchTyped
<1>13. \A x \in Others(k) : Awaited(x)'
  BY <1>12 DEF Others, Awaited
<1>14. AllAwaited' /\ OneEach(commands')
  <2>1. CASE commands' = rest
    BY <1>9, <1>10, <1>13, <2>1, AwaitedAfter
  <2>2. ASSUME NEW n, commands' = Append(rest, W!Command(k, c.sub, w, n))
        PROVE  AllAwaited' /\ OneEach(commands')
    <3>1. PICK d : d = W!Command(k, c.sub, w, n)
      OBVIOUS
    <3>2. d.by = k
      BY <3>1 DEF W!Command
    <3>3. d.verb = w
      BY <3>1 DEF W!Command
    <3>4. Awaited(d)'
      BY <1>12, <3>2, <3>3 DEF Awaited
    <3>5. rest \in Seq(Others(k) \cup {d}) /\ d \in Others(k) \cup {d}
      BY <1>10
    <3>6. commands' \in Seq(Others(k) \cup {d})
      BY <2>2, <3>1, <3>5, AppendTyped
    <3>7. AllAwaited'
      BY <1>13, <3>4, <3>6, AwaitedAfter
    <3>8. OneEach(Append(rest, d))
      BY <1>9, <3>2, <3>5, AppendOneEach
    <3> QED BY <2>2, <3>1, <3>7, <3>8
  <2> QED BY <1>11, <2>1, <2>2
<1>15. Counted'
  <2>1. BegunCalls \subseteq BegunCalls' /\ k \in BegunCalls'
    BY <1>4, <1>11, <1>12 DEF BegunCalls
  <2>2. LeftCalls \subseteq LeftCalls'
    BY <1>5, <1>8, <1>11, <1>12 DEF LeftCalls, W!Awaiting
  <2> QED BY <1>4, <1>11, <2>1, <2>2, CountedAfter DEF CallsInv
<1> QED BY <1>14, <1>15 DEF CallsInv

LEMMA AnswerRestoreAwaits ==
  ASSUME WatchTyped, WatchTyped', CommandsTimely, CallsInv, W!Answer,
         Head(commands).by \notin WatchCall
  PROVE  CallsInv'
<1>1. PICK c : c = Head(commands)
  OBVIOUS
<1>2. PICK rest : rest = Tail(commands)
  OBVIOUS
<1>3. commands # <<>> /\ W!AnswerRestore(c) /\ watch' = watch /\ count' = count
  BY <1>1 DEF W!Answer, W!AnswerRestore
<1>4. PICK S : S = {x \in CommandType : Awaited(x)}
  OBVIOUS
<1>5. \A x \in S : Awaited(x)'
  BY <1>3, <1>4 DEF Awaited
<1>6. commands \in Seq(S)
  BY <1>4, AwaitedQueue DEF CallsInv
<1>7. rest \in Seq(S) /\ OneEach(rest)
  BY <1>2, <1>3, <1>6, TailTyped, TailOneEach DEF CallsInv
<1>8. \/ commands' = rest
      \/ commands' = Append(rest, W!Command(c.by, c.sub, "subscribe", clock))
  BY <1>2, <1>3 DEF W!AnswerRestore
<1>9. AllAwaited' /\ OneEach(commands')
  <2>1. CASE commands' = rest
    BY <1>5, <1>7, <2>1, AwaitedAfter
  <2>2. CASE commands' = Append(rest, W!Command(c.by, c.sub, "subscribe", clock))
    <3>1. PICK d : d = W!Command(c.by, c.sub, "subscribe", clock)
      OBVIOUS
    <3>2. d.by = c.by
      BY <3>1 DEF W!Command
    <3>3. d.by \notin WatchCall
      BY <1>1, <3>2
    <3>4. Awaited(d)'
      BY <3>3 DEF Awaited
    <3>5. rest \in Seq(S \cup {d}) /\ d \in S \cup {d}
      BY <1>7
    <3>6. commands' \in Seq(S \cup {d})
      BY <2>2, <3>1, <3>5, AppendTyped
    <3>7. AllAwaited'
      BY <1>5, <3>4, <3>6, AwaitedAfter
    <3>8. OneEach(Append(rest, d))
      BY <1>7, <3>3, <3>5, AppendOneEach
    <3> QED BY <2>2, <3>1, <3>7, <3>8
  <2> QED BY <1>8, <2>1, <2>2
<1>10. Counted'
  BY <1>3, SameCounts DEF CallsInv, LeftCalls
<1> QED BY <1>9, <1>10 DEF CallsInv

LEMMA RefuseAwaits ==
  ASSUME WatchTyped, WatchTyped', CallsInv, W!Refuse,
         \A k \in WatchCall : watch[k] # "idle" => watch'[k] # "idle"
  PROVE  CallsInv'
<1>1. PICK k : k = Head(commands).by
  OBVIOUS
<1>2. PICK rest : rest = Tail(commands)
  OBVIOUS
<1>3. /\ commands # <<>> /\ commands' = rest /\ count' = count
      /\ watch' = [j \in WatchCall |-> IF j = k THEN "failed" ELSE watch[j]]
  BY <1>1, <1>2 DEF W!Refuse, W!mapVars
<1>4. PICK S : S = {x \in CommandType : Awaited(x)}
  OBVIOUS
<1>5. commands \in Seq(S)
  BY <1>4, AwaitedQueue DEF CallsInv
<1>6. /\ rest \in Seq(S) /\ OneEach(rest)
      /\ k \in WatchCall => \A i \in 1 .. Len(rest) : rest[i].by # k
  BY <1>1, <1>2, <1>3, <1>5, TailTyped, TailOneEach DEF CallsInv
<1>7. rest \in Seq({x \in S : k \in WatchCall => x.by # k})
  <2>1. \A i \in 1 .. Len(rest) : rest[i] \in {x \in S : k \in WatchCall => x.by # k}
    <3> TAKE i \in 1 .. Len(rest)
    <3>1. PICK x \in S : x = rest[i]
      BY <1>6
    <3> QED BY <1>6, <3>1
  <2> QED BY <1>6, <2>1, SeqOf
<1>8. \A x \in {x \in S : k \in WatchCall => x.by # k} : Awaited(x)'
  BY <1>3, <1>4 DEF Awaited
<1>9. AllAwaited'
  BY <1>3, <1>7, <1>8, AwaitedAfter
<1>10. LeftCalls \subseteq LeftCalls'
  BY <1>3 DEF LeftCalls
<1>11. Counted'
  BY <1>3, <1>10, SameCounts DEF CallsInv
<1> QED BY <1>3, <1>6, <1>9, <1>11 DEF CallsInv

LEMMA ClientCreatedAwaits ==
  ASSUME WatchTyped, WatchTyped', CallsInv, W!ClientCreated
  PROVE  CallsInv'
<1>1. watch' = watch /\ count' = count
  BY DEF W!ClientCreated, W!callVars, W!mapVars
<1>2. PICK S : S = {x \in CommandType : Awaited(x)}
  OBVIOUS
<1>3. \A x \in S : Awaited(x)'
  BY <1>1, <1>2 DEF Awaited
<1>4. commands \in Seq(S)
  BY <1>2, AwaitedQueue DEF CallsInv
<1>5. AllAwaited' /\ OneEach(commands')
  <2>1. CASE phase # "creating"
    <3>1. commands' = commands
      BY <2>1 DEF W!ClientCreated
    <3> QED BY <1>3, <1>4, <3>1, AwaitedAfter DEF CallsInv
  <2>2. CASE phase = "creating"
    <3>1. PICK subs : subs = {s \in W!Sub : entry[s] # W!None}
      OBVIOUS
    <3>2. PICK r : r = W!SetToSeq(Restores(subs))
      OBVIOUS
    <3>3. commands' = commands \o r
      BY <2>2, <3>1, <3>2 DEF W!ClientCreated, Restores
    <3>4. /\ r \in Seq(Restores(subs))
          /\ \A c \in Restores(subs) : c.by = "this attempt"
      BY <3>1, <3>2, RestoresTyped
    <3>5. "this attempt" \notin WatchCall
      BY WatchmanAssumptions DEF W!CallsAssumption, W!Attempt
    <3>6. PICK R : R = {c \in Restores(subs) : Calm(c)}
      OBVIOUS
    <3>7. r \in Seq(R)
      <4>1. ASSUME NEW i \in 1 .. Len(r) PROVE r[i] \in R
        <5>1. r \in Seq(Restores(subs))
          BY <3>4
        <5>2. PICK c : c = r[i]
          OBVIOUS
        <5>3. c \in Restores(subs)
          BY <5>1, <5>2
        <5>4. c.by = "this attempt"
          BY <3>4, <5>3
        <5> QED BY <3>5, <3>6, <5>2, <5>3, <5>4 DEF Calm
      <4> QED BY <3>4, <4>1, SeqOf
    <3>8. r \in Seq(S \cup R) /\ commands \in Seq(S \cup R)
      BY <1>4, <3>7
    <3>9. \A c \in R : Awaited(c)' /\ Calm(c)
      BY <3>6 DEF Calm, Awaited
    <3>10. commands' \in Seq(S \cup R)
      BY <3>3, <3>8, ConcatTyped
    <3>11. AllAwaited'
      BY <1>3, <3>9, <3>10, AwaitedAfter
    <3>12. \A i \in 1 .. Len(r) : Calm(r[i])
      <4> TAKE i \in 1 .. Len(r)
      <4>1. r[i] \in R
        BY <3>7
      <4> QED BY <3>9, <4>1
    <3>13. OneEach(commands \o r)
      BY <3>8, <3>12, ConcatOneEach DEF CallsInv
    <3> QED BY <3>3, <3>11, <3>13
  <2> QED BY <2>1, <2>2
<1>6. Counted'
  BY <1>1, SameCounts DEF CallsInv, LeftCalls
<1> QED BY <1>5, <1>6 DEF CallsInv

LEMMA EndClientAwaits ==
  ASSUME WatchTyped, WatchTyped', CallsInv, W!EndClient, commands' = <<>>, count' = count,
         \A k \in WatchCall : watch[k] # "idle" => watch'[k] # "idle"
  PROVE  CallsInv'
<1>1. commands' \in Seq({}) /\ Len(commands') = 0
  OBVIOUS
<1>2. AllAwaited' /\ OneEach(commands')
  BY <1>1 DEF AllAwaited, OneEach
<1>3. LeftCalls \subseteq LeftCalls'
  BY DEF LeftCalls, W!EndClient, W!Cancelled, W!Awaiting
<1>4. Counted'
  BY <1>3, SameCounts DEF CallsInv
<1> QED BY <1>2, <1>4 DEF CallsInv

LEMMA SettledAwaits ==
  ASSUME WatchTyped, WatchTyped', CallsInv, NEW t \in settling, W!Settled(t)
  PROVE  CallsInv'
<1>1. watch' = watch /\ count' = count
  BY DEF W!Settled, W!callVars, W!mapVars
<1>2. t.by \in W!Attempt
  BY DEF WatchTyped
<1>3. PICK d : d = W!Command(t.by, t.sub, IF W!Since(t.sub) = 0 THEN "clock" ELSE "subscribe",
                             W!Since(t.sub))
  OBVIOUS
<1>4. commands' = Append(commands, d)
  BY <1>3 DEF W!Settled, W!Ask
<1>5. d.by = t.by
  BY <1>3 DEF W!Command
<1>6. d.by \notin WatchCall
  BY <1>2, <1>5, WatchmanAssumptions DEF W!CallsAssumption
<1>7. PICK S : S = {x \in CommandType : Awaited(x)}
  OBVIOUS
<1>8. \A x \in S \cup {d} : Awaited(x)'
  BY <1>1, <1>6, <1>7 DEF Awaited
<1>9. commands \in Seq(S)
  BY <1>7, AwaitedQueue DEF CallsInv
<1>10. commands \in Seq(S \cup {d}) /\ d \in S \cup {d}
  BY <1>9
<1>11. commands' \in Seq(S \cup {d}) /\ OneEach(commands')
  BY <1>4, <1>6, <1>10, AppendTyped, AppendOneEach DEF CallsInv
<1>12. AllAwaited'
  BY <1>8, <1>11, AwaitedAfter
<1>13. Counted'
  BY <1>1, SameCounts DEF CallsInv, LeftCalls
<1> QED BY <1>11, <1>12, <1>13 DEF CallsInv

LEMMA CallsKept ==
  ASSUME WatchmanInv, CallsInv, [W!Next]_(W!vars)
  PROVE  CallsInv'
<1>1. WatchTyped /\ CommandsTimely /\ WatchTyped'
  BY WatchmanTypesKept DEF WatchmanInv
<1>2. \A k \in WatchCall : watch[k] # "idle" => watch'[k] # "idle"
  BY <1>1, StaysBegun
<1>3. ASSUME UNCHANGED <<watch, count, commands>> PROVE CallsInv'
  BY <1>3 DEF CallsInv, AllAwaited, Awaited, OneEach, Counted, LeftCalls, BegunCalls
<1>4. CASE UNCHANGED W!vars \/ W!Change \/ W!WatchmanRestarts
  <2>1. UNCHANGED <<watch, count, commands>>
    BY <1>4 DEF W!Change, W!WatchmanRestarts, W!vars, W!callVars, W!mapVars, W!clientVars
  <2> QED BY <1>3, <2>1
<1>5. CASE \E k \in WatchCall : W!Watch(k) \/ W!Unwatch(k)
  BY <1>1, <1>5, CallAwaits
<1>6. CASE W!Answer
  BY <1>1, <1>6, AnswerCallAwaits, AnswerRestoreAwaits
<1>7. CASE \E t \in settling : W!Settled(t)
  BY <1>1, <1>7, SettledAwaits
<1>8. CASE \E x \in W!Sub : W!Event(x)
  <2>1. UNCHANGED <<watch, count, commands>>
    BY <1>8 DEF W!Event, W!callVars, W!clientVars
  <2> QED BY <1>3, <2>1
<1>9. CASE W!Refuse
  BY <1>1, <1>2, <1>9, RefuseAwaits
<1>10. CASE W!ClientCreated
  BY <1>1, <1>10, ClientCreatedAwaits
<1>11. CASE W!ClientFails \/ W!Retry
  <2>1. W!EndClient /\ commands' = <<>> /\ count' = count
    BY <1>11 DEF W!ClientFails, W!Retry, W!BeginReconnect, W!DropClient, W!mapVars
  <2> QED BY <1>1, <1>2, <2>1, EndClientAwaits
<1> QED BY <1>4, <1>5, <1>6, <1>7, <1>8, <1>9, <1>10, <1>11 DEF W!Next

\* The types; and subscriptionCount is at most the number of the calls, and at
\* least that number negated (watchDirectoryRecursive and unwatch).
THEOREM WatchmanTypeCorrect == W!Spec => []W!TypeOK
<1>1. WatchmanInv /\ CallsInv /\ [W!Next]_(W!vars) => CallsInv'
  BY CallsKept
<1>2. W!Init => CallsInv
  <2> SUFFICES ASSUME W!Init PROVE CallsInv
    OBVIOUS
  <2>1. commands = <<>> /\ Len(commands) = 0 /\ \A k \in WatchCall : count[k] = 0
    BY DEF W!Init
  <2>2. AllAwaited /\ OneEach(commands)
    BY <2>1 DEF AllAwaited, OneEach
  <2>3. LeftCalls \in SUBSET WatchCall /\ BegunCalls \in SUBSET WatchCall
    BY DEF LeftCalls, BegunCalls
  <2>4. Cardinality(LeftCalls) \in Nat /\ Cardinality(BegunCalls) \in Nat
    BY <2>3, FinitelyManyCalls
  <2>5. Counted
    BY <2>1, <2>4 DEF Counted
  <2> QED BY <2>2, <2>5 DEF CallsInv
<1>3. WatchmanInv /\ CallsInv => W!TypeOK
  <2> SUFFICES ASSUME WatchmanInv, CallsInv PROVE W!TypeOK
    OBVIOUS
  <2>1. PICK n : n = Cardinality(WatchCall)
    OBVIOUS
  <2>2. IsFiniteSet(WatchCall) /\ n \in Nat /\ W!Cardinality(WatchCall) = n
    BY <2>1, FinitelyManyCalls, SameOperators
  <2>3. LeftCalls \in SUBSET WatchCall /\ BegunCalls \in SUBSET WatchCall
    BY DEF LeftCalls, BegunCalls
  <2>4. /\ Cardinality(LeftCalls) \in Nat /\ Cardinality(BegunCalls) \in Nat
        /\ Cardinality(LeftCalls) <= n /\ Cardinality(BegunCalls) <= n
    BY <2>1, <2>2, <2>3, FinitelyManyCalls, FS_Subset
  <2>5. ASSUME NEW k \in WatchCall PROVE count[k] \in -n .. n
    <3>1. count[k] \in Int
      BY DEF WatchmanInv, WatchTyped
    <3>2. -Cardinality(LeftCalls) <= count[k] /\ count[k] <= Cardinality(BegunCalls)
      BY DEF CallsInv, Counted
    <3> QED BY <2>2, <2>4, <3>1, <3>2
  <2>6. count \in [WatchCall -> -n .. n]
    BY <2>5 DEF WatchmanInv, WatchTyped
  <2>7. count \in [WatchCall -> -W!Cardinality(WatchCall) .. W!Cardinality(WatchCall)]
    BY <2>2, <2>6
  <2> QED BY <2>7 DEF W!TypeOK, WatchmanInv, WatchTyped, CommandType
<1> QED BY <1>1, <1>2, <1>3, WatchmanInvariant, PTL DEF W!Spec

-----------------------------------------------------------------------------
(* All three parts *)

\* A behaviour of the three together is one of each: the others' steps leave its
\* variables as they are.
THEOREM PartsOfNuclide == NuclideSpec => Spec /\ W!Spec /\ L!Spec
<1>1. NuclideSpec => Spec
  <2>1. NuclideInit => Init
    BY DEF NuclideInit
  <2>2. [NuclideNext]_<<running, vars, watchmanVars, languageVars>> => [Next]_vars
    BY DEF NuclideNext
  <2> QED BY <2>1, <2>2, PTL DEF NuclideSpec, Spec
<1>2. NuclideSpec => W!Spec
  <2>1. NuclideInit => W!Init
    BY DEF NuclideInit
  <2>2. watchmanVars' = watchmanVars => UNCHANGED W!vars
    BY DEF watchmanVars, W!vars, W!callVars, W!mapVars, W!clientVars, W!reconnectVars, W!eventVars
  <2>3. [NuclideNext]_<<running, vars, watchmanVars, languageVars>> => [W!Next]_(W!vars)
    BY <2>2 DEF NuclideNext
  <2> QED BY <2>1, <2>3, PTL DEF NuclideSpec, W!Spec
<1>3. NuclideSpec => L!Spec
  <2>1. NuclideInit => L!Init
    BY DEF NuclideInit
  <2>2. languageVars' = languageVars => UNCHANGED L!vars
    BY DEF languageVars, L!vars, L!multiVars
  <2>3. [NuclideNext]_<<running, vars, watchmanVars, languageVars>> => [L!Next]_(L!vars)
    BY <2>2 DEF NuclideNext
  <2> QED BY <2>1, <2>3, PTL DEF NuclideSpec, L!Spec
<1> QED BY <1>1, <1>2, <1>3

\* In the behaviours of the three together all variables keep their types, and the
\* connection registered under the host is not a closed one (CloseServer).
THEOREM NuclideTypeCorrect == NuclideSpec => []NuclideTypeOK
<1>1. LanguageInv => L!TypeOK
  BY DEF LanguageInv, LanguageTyped, ServicesFit, ServiceType, L!TypeOK
<1> QED
  BY <1>1, PartsOfNuclide, ConnectionsTypeCorrect, WatchmanTypeCorrect, LanguagesInvariant, PTL
     DEF NuclideTypeOK

=============================================================================
