------------------------ MODULE ThriftServicesProofs ------------------------
(***************************************************************************)
(* Theorems about ThriftServices, for any services, calls and bounds: that *)
(* a tunnel leads to a process that runs, and that the count of a tunnel   *)
(* whose callers wait for each other is the number of its clients.         *)
(***************************************************************************)
EXTENDS ThriftServices, FiniteSetTheorems, TLAPS

CallRecord == [stage : Stage, service : Service, tunnel : Call]
ClientEntry == [refCount : Nat \ {0}, tunnel : Call]
ServerEntry == [refCount : Nat \ {0}, server : Call]
RequestType == [command : {"start", "stop"}, call : Call, service : Service]
AnswerType == [call : Call, success : BOOLEAN]

Typed ==
  /\ call \in [Call -> CallRecord]
  /\ tunnelTo \in [Service -> {None} \cup ClientEntry]
  /\ tunnels \in SUBSET Call
  /\ isClosed \in BOOLEAN
  /\ toServer \in Seq(RequestType)
  /\ toClient \in Seq(AnswerType)
  /\ servers \in [Service -> {None} \cup ServerEntry]
  /\ creating \in [Service -> Seq(Call)]
  /\ holders \in [Service -> SUBSET Call]
  /\ ready \in [Service -> BOOLEAN]

\* A request or an answer is in one place at most, and a call that waits for its
\* answer has not gone on.
Requested ==
  /\ IsInjective(toServer)
  /\ \A m \in ToSet(toServer) :
       /\ m.service = call[m.call].service
       /\ m.command = "stop" => call[m.call].stage = "gone"
       /\ m.command = "start" =>
            /\ call[m.call].stage \in {"starting", "failed"}
            /\ \A a \in ToSet(toClient) : a.call # m.call
            /\ \A s \in Service : m.call \notin holders[s]

Created ==
  \A s \in Service :
    /\ IsInjective(creating[s])
    /\ servers[s] # None => creating[s] = <<>>
    /\ \A k \in ToSet(creating[s]) :
         /\ call[k].service = s /\ k \in holders[s]
         /\ call[k].stage \in {"starting", "failed"}
         /\ \A a \in ToSet(toClient) : a.call # k

Replied ==
  /\ IsInjective(toClient)
  /\ \A a \in ToSet(toClient) :
       /\ call[a.call].stage \in {"starting", "failed"}
       /\ \A b \in ToSet(toClient) : b.call = a.call => b = a

Held == \A s \in Service : \A k \in holders[s] : call[k].stage # "idle"

Opened == \A k \in tunnels : call[k].stage \in {"connected", "closing", "gone"}

\* A call that found no tunnel to share is named after itself.
Own ==
  \A k \in Call : call[k].stage \in {"idle", "starting", "tunnelling"} => call[k].tunnel = k

Once == Requested /\ Created /\ Replied /\ Held /\ Opened /\ Own

\* The calls whose start was granted and, if a tunnel came of it, whose tunnel
\* is still open.
Granted(k) == Answer(k, TRUE) \in ToSet(toClient)

Backed(s) ==
  {k \in Call : /\ call[k].service = s
                /\ Granted(k) \/ call[k].stage = "tunnelling" \/ k \in tunnels}

\* The clients whose requests to stop s are on their way.
Stops(s) ==
  {k \in Call : [command |-> "stop", call |-> k, service |-> s] \in ToSet(toServer)}

Starting(s) == ToSet(creating[s])

\* What the count of the server in the map adds to its one subscription.
Extra(s) == IF servers[s] = None THEN 0 ELSE servers[s].refCount - 1

\* The server will not stop a process more often than it was asked to start it.
CoveredFor(s) ==
  /\ Cardinality(Backed(s)) + Cardinality(Stops(s)) + Cardinality(Starting(s))
       <= Cardinality(holders[s]) + Extra(s)
  /\ Backed(s) \cup Stops(s) # {} => ready[s]
  /\ servers[s] # None => ready[s] /\ servers[s].server \in holders[s]

Covered == \A s \in Service : "exit" \notin Faults[s] => CoveredFor(s)

\* The tunnel the map has for a service is open, and leads to it.
Linked ==
  ~isClosed => \A s \in Service : tunnelTo[s] # None =>
    tunnelTo[s].tunnel \in tunnels /\ call[tunnelTo[s].tunnel].service = s

\* While a call for a serial service is pending it is the only one, and the
\* service has no tunnel.
OneAtATime ==
  \A s \in Serial : \A k \in Call : Pending(k) /\ call[k].service = s =>
    /\ tunnelTo[s] = None
    /\ \A j \in Call : Pending(j) /\ call[j].service = s => j = k

UsersOf(s) == {k \in Call : call[k].service = s /\ Live(k)}

TunnelsOf(s) == {k \in tunnels : call[k].service = s}

Exact ==
  ~isClosed => \A s \in Serial :
    /\ tunnelTo[s].refCount = Cardinality(UsersOf(s))
    /\ \A k \in UsersOf(s) : call[k].tunnel = tunnelTo[s].tunnel
    /\ TunnelsOf(s) = IF UsersOf(s) = {} THEN {} ELSE {tunnelTo[s].tunnel}

ThriftInv == Typed /\ Once /\ Covered /\ Linked /\ OneAtATime /\ Exact

-----------------------------------------------------------------------------
(* Sequences as sets *)

LEMMA SetOfSeq ==
  ASSUME NEW S, NEW s \in Seq(S)
  PROVE  /\ ToSet(s) \subseteq S
         /\ \A x : x \in ToSet(s) <=> \E i \in DOMAIN s : s[i] = x
  BY DEF ToSet

LEMMA SetOfTail ==
  ASSUME NEW S, NEW s \in Seq(S), s # <<>>
  PROVE  /\ Tail(s) \in Seq(S) /\ Head(s) \in S /\ Head(s) \in ToSet(s)
         /\ ToSet(Tail(s)) \subseteq ToSet(s)
         /\ ToSet(s) = ToSet(Tail(s)) \cup {Head(s)}
         /\ IsInjective(s) => /\ IsInjective(Tail(s))
                              /\ ToSet(Tail(s)) = ToSet(s) \ {Head(s)}
<1>1. /\ Tail(s) \in Seq(S) /\ Len(s) \in Nat /\ Len(s) >= 1 /\ DOMAIN s = 1 .. Len(s)
      /\ DOMAIN Tail(s) = 1 .. Len(s) - 1
      /\ \A i \in DOMAIN Tail(s) : Tail(s)[i] = s[i + 1]
      /\ Head(s) = s[1] /\ Head(s) \in S
  OBVIOUS
<1>2. \A i \in DOMAIN s : i = 1 \/ (i - 1 \in DOMAIN Tail(s) /\ Tail(s)[i - 1] = s[i])
  BY <1>1
<1>3. \A i \in DOMAIN Tail(s) : i + 1 \in DOMAIN s /\ i + 1 # 1 /\ Tail(s)[i] = s[i + 1]
  BY <1>1
<1>4. 1 \in DOMAIN s
  BY <1>1
<1>5. ToSet(s) = ToSet(Tail(s)) \cup {Head(s)}
  BY <1>1, <1>2, <1>3, <1>4 DEF ToSet
<1>6. ASSUME IsInjective(s)
      PROVE  IsInjective(Tail(s)) /\ Head(s) \notin ToSet(Tail(s))
  BY <1>1, <1>3, <1>4, <1>6 DEF IsInjective, ToSet
<1> QED BY <1>1, <1>4, <1>5, <1>6 DEF ToSet

LEMMA SetOfConcat ==
  ASSUME NEW S, NEW s \in Seq(S), NEW t \in Seq(S)
  PROVE  /\ s \o t \in Seq(S)
         /\ ToSet(s \o t) = ToSet(s) \cup ToSet(t)
         /\ IsInjective(s) /\ IsInjective(t) /\ ToSet(s) \cap ToSet(t) = {}
              => IsInjective(s \o t)
<1>1. /\ s \o t \in Seq(S) /\ Len(s) \in Nat /\ Len(t) \in Nat
      /\ DOMAIN s = 1 .. Len(s) /\ DOMAIN t = 1 .. Len(t)
      /\ DOMAIN (s \o t) = 1 .. Len(s) + Len(t)
      /\ \A i \in 1 .. Len(s) + Len(t) :
           (s \o t)[i] = IF i <= Len(s) THEN s[i] ELSE t[i - Len(s)]
  OBVIOUS
<1>2. \A i \in DOMAIN s : i \in DOMAIN (s \o t) /\ (s \o t)[i] = s[i]
  BY <1>1
<1>3. \A i \in DOMAIN t : i + Len(s) \in DOMAIN (s \o t) /\ (s \o t)[i + Len(s)] = t[i]
  BY <1>1
<1>4. \A i \in DOMAIN (s \o t) :
        \/ i \in DOMAIN s /\ (s \o t)[i] = s[i]
        \/ i - Len(s) \in DOMAIN t /\ (s \o t)[i] = t[i - Len(s)]
  BY <1>1
<1>5. ToSet(s \o t) = ToSet(s) \cup ToSet(t)
  <2>1. ASSUME NEW x, x \in ToSet(s) PROVE x \in ToSet(s \o t)
    BY <1>2, <2>1 DEF ToSet
  <2>2. ASSUME NEW x, x \in ToSet(t) PROVE x \in ToSet(s \o t)
    BY <1>3, <2>2 DEF ToSet
  <2>3. ASSUME NEW x, x \in ToSet(s \o t) PROVE x \in ToSet(s) \cup ToSet(t)
    BY <1>4, <2>3 DEF ToSet
  <2> QED BY <2>1, <2>2, <2>3
<1>6. ASSUME IsInjective(s), IsInjective(t), ToSet(s) \cap ToSet(t) = {}
      PROVE  IsInjective(s \o t)
  <2>1. \A i \in DOMAIN s : s[i] \in ToSet(s)
    BY DEF ToSet
  <2>2. \A i \in DOMAIN t : t[i] \in ToSet(t)
    BY DEF ToSet
  <2> SUFFICES ASSUME NEW i \in DOMAIN (s \o t), NEW j \in DOMAIN (s \o t),
                      (s \o t)[i] = (s \o t)[j]
               PROVE  i = j
    BY DEF IsInjective
  <2>3. CASE i \in DOMAIN s /\ j \in DOMAIN s
    BY <1>2, <1>6, <2>3 DEF IsInjective
  <2>4. CASE i \notin DOMAIN s /\ j \notin DOMAIN s
    <3>1. i - Len(s) \in DOMAIN t /\ j - Len(s) \in DOMAIN t
          /\ t[i - Len(s)] = t[j - Len(s)]
      BY <1>4, <2>4
    <3>2. i - Len(s) = j - Len(s)
      BY <1>6, <3>1 DEF IsInjective
    <3> QED BY <1>1, <3>2
  <2>5. CASE i \in DOMAIN s /\ j \notin DOMAIN s
    BY <1>2, <1>4, <1>6, <2>1, <2>2, <2>5
  <2>6. CASE i \notin DOMAIN s /\ j \in DOMAIN s
    BY <1>2, <1>4, <1>6, <2>1, <2>2, <2>6
  <2> QED BY <2>3, <2>4, <2>5, <2>6
<1> QED BY <1>1, <1>5, <1>6

LEMMA SetOfOne ==
  ASSUME NEW S, NEW m \in S
  PROVE  <<m>> \in Seq(S) /\ ToSet(<<m>>) = {m} /\ IsInjective(<<m>>)
<1>1. DOMAIN <<m>> = {1} /\ <<m>>[1] = m
  OBVIOUS
<1> QED BY <1>1 DEF ToSet, IsInjective

LEMMA SetOfAppend ==
  ASSUME NEW S, NEW s \in Seq(S), NEW m \in S
  PROVE  /\ Append(s, m) \in Seq(S)
         /\ ToSet(Append(s, m)) = ToSet(s) \cup {m}
         /\ IsInjective(s) /\ m \notin ToSet(s) => IsInjective(Append(s, m))
<1>1. Append(s, m) = s \o <<m>>
  OBVIOUS
<1>2. <<m>> \in Seq(S) /\ ToSet(<<m>>) = {m} /\ IsInjective(<<m>>)
  BY SetOfOne
<1>3. /\ s \o <<m>> \in Seq(S)
      /\ ToSet(s \o <<m>>) = ToSet(s) \cup ToSet(<<m>>)
      /\ IsInjective(s) /\ IsInjective(<<m>>) /\ ToSet(s) \cap ToSet(<<m>>) = {}
           => IsInjective(s \o <<m>>)
  BY <1>2, SetOfConcat
<1> QED BY <1>1, <1>2, <1>3

LEMMA SetOfPrefix ==
  ASSUME NEW S, NEW s \in Seq(S), NEW n \in 0 .. Len(s)
  PROVE  /\ SubSeq(s, 1, n) \in Seq(S) /\ ToSet(SubSeq(s, 1, n)) \subseteq ToSet(s)
         /\ IsInjective(s) => IsInjective(SubSeq(s, 1, n))
<1>1. /\ SubSeq(s, 1, n) \in Seq(S)
      /\ \A i \in DOMAIN SubSeq(s, 1, n) : i \in DOMAIN s /\ SubSeq(s, 1, n)[i] = s[i]
  OBVIOUS
<1> QED BY <1>1 DEF ToSet, IsInjective

LEMMA SetOfEmpty == ToSet(<<>>) = {} /\ IsInjective(<<>>)
  BY DEF ToSet, IsInjective

-----------------------------------------------------------------------------
(* Steps that add nothing *)

\* What may become of a call, but for the answer it waits for.
Moves(a, b) ==
  \/ a = b
  \/ a = "idle" /\ b \in {"starting", "connected"}
  \/ a \in {"starting", "tunnelling"} /\ b = "failed"
  \/ a = "tunnelling" /\ b = "connected"
  \/ a = "connected" /\ b \in {"closing", "gone"}
  \/ a = "closing" /\ b = "gone"

SameServices == \A k \in Call : call'[k].service = call[k].service

LEMMA ElementTypes ==
  ASSUME Typed
  PROVE  /\ \A m \in ToSet(toServer) : /\ m \in RequestType /\ m.call \in Call
                                       /\ m.service \in Service
                                       /\ m.command \in {"start", "stop"}
         /\ \A a \in ToSet(toClient) : a \in AnswerType /\ a.call \in Call
         /\ \A s \in Service : ToSet(creating[s]) \subseteq Call /\ creating[s] \in Seq(Call)
<1>1. /\ toServer \in Seq(RequestType) /\ toClient \in Seq(AnswerType)
      /\ \A s \in Service : creating[s] \in Seq(Call)
  BY DEF Typed
<1>2. ToSet(toServer) \subseteq RequestType /\ ToSet(toClient) \subseteq AnswerType
  BY <1>1, SetOfSeq
<1>3. \A s \in Service : ToSet(creating[s]) \subseteq Call
  BY <1>1, SetOfSeq
<1> QED BY <1>1, <1>2, <1>3 DEF RequestType, AnswerType

\* The answer to the start of k is gone, and with it the last word of the server.
Answered(k) ==
  /\ call[k].stage = "starting" /\ call'[k].stage = "tunnelling"
  /\ \A m \in ToSet(toServer) : m.call # k
  /\ \A s \in Service : k \notin ToSet(creating[s])
  /\ \A a \in ToSet(toClient') : a.call # k

LEMMA OnceShrinks ==
  ASSUME Typed, Once, SameServices, IsInjective(toClient'),
         \A k \in Call : Moves(call[k].stage, call'[k].stage) \/ Answered(k),
         \A k \in Call : call'[k].tunnel = call[k].tunnel \/ call'[k].stage = "connected",
         ToSet(toClient') \subseteq ToSet(toClient),
         \A s \in Service : /\ creating'[s] = creating[s] \/ creating'[s] = <<>>
                            /\ holders'[s] \subseteq holders[s]
                            /\ \A k \in ToSet(creating'[s]) : k \in holders'[s]
                            /\ servers'[s] # None => servers[s] # None,
         \A k \in tunnels' : k \in tunnels \/ (k \in Call /\ call'[k].stage = "connected")
  PROVE  /\ Created' /\ Replied' /\ Held' /\ Opened' /\ Own'
         /\ IsInjective(toServer') /\ ToSet(toServer') \subseteq ToSet(toServer)
              => Requested' /\ Once'
<1>1. \A s \in Service : /\ IsInjective(creating'[s])
                         /\ ToSet(creating'[s]) \subseteq ToSet(creating[s])
                         /\ servers'[s] # None => creating'[s] = <<>>
  BY SetOfEmpty DEF Once, Created
<1>2. ASSUME IsInjective(toServer'), ToSet(toServer') \subseteq ToSet(toServer)
      PROVE  Requested'
  <2> SUFFICES ASSUME NEW m \in ToSet(toServer')
               PROVE  /\ m.service = call'[m.call].service
                      /\ m.command = "stop" => call'[m.call].stage = "gone"
                      /\ m.command = "start" =>
                           /\ call'[m.call].stage \in {"starting", "failed"}
                           /\ \A a \in ToSet(toClient') : a.call # m.call
                           /\ \A s \in Service : m.call \notin holders'[s]
    BY <1>2 DEF Requested
  <2>1. m \in ToSet(toServer) /\ m.call \in Call
    BY <1>2, ElementTypes
  <2>2. /\ m.service = call[m.call].service
        /\ m.command = "stop" => call[m.call].stage = "gone"
        /\ m.command = "start" =>
             /\ call[m.call].stage \in {"starting", "failed"}
             /\ \A a \in ToSet(toClient) : a.call # m.call
             /\ \A s \in Service : m.call \notin holders[s]
    BY <2>1 DEF Once, Requested
  <2> QED BY <2>1, <2>2 DEF Moves, Answered, SameServices
<1>3. Created'
  <2> SUFFICES ASSUME NEW s \in Service, NEW k \in ToSet(creating'[s])
               PROVE  /\ call'[k].service = s /\ k \in holders'[s]
                      /\ call'[k].stage \in {"starting", "failed"}
                      /\ \A a \in ToSet(toClient') : a.call # k
    BY <1>1 DEF Created
  <2>1. k \in ToSet(creating[s]) /\ k \in Call
    BY <1>1, ElementTypes
  <2>2. /\ call[k].service = s /\ call[k].stage \in {"starting", "failed"}
        /\ \A a \in ToSet(toClient) : a.call # k
    BY <2>1 DEF Once, Created
  <2> QED BY <2>1, <2>2 DEF Moves, Answered, SameServices
<1>4. Replied'
  <2> SUFFICES ASSUME NEW a \in ToSet(toClient')
               PROVE  /\ call'[a.call].stage \in {"starting", "failed"}
                      /\ \A b \in ToSet(toClient') : b.call = a.call => b = a
    BY DEF Replied
  <2>1. a \in ToSet(toClient) /\ a.call \in Call
    BY ElementTypes
  <2>2. /\ call[a.call].stage \in {"starting", "failed"}
        /\ \A b \in ToSet(toClient) : b.call = a.call => b = a
    BY <2>1 DEF Once, Replied
  <2> QED BY <2>1, <2>2 DEF Moves, Answered
<1>5. Held'
  <2>1. \A s \in Service : \A k \in holders'[s] :
          k \in holders[s] /\ k \in Call /\ call[k].stage # "idle"
    BY DEF Once, Held, Typed
  <2>2. \A k \in Call : call[k].stage # "idle" => call'[k].stage # "idle"
    BY DEF Moves, Answered
  <2> QED BY <2>1, <2>2 DEF Held
<1>6. Opened'
  BY DEF Once, Opened, Moves, Answered, Typed
<1>7. Own'
  BY DEF Once, Own, Moves, Answered
<1> QED BY <1>2, <1>3, <1>4, <1>5, <1>6, <1>7 DEF Once

LEMMA FiniteCalls ==
  \A S : S \subseteq Call => IsFiniteSet(S) /\ Cardinality(S) \in Nat
  BY CallAssumption, FS_Subset, FS_CardinalityType

LEMMA SmallerCalls ==
  \A S, T : S \subseteq T /\ T \subseteq Call => Cardinality(S) <= Cardinality(T)
  BY FiniteCalls, FS_Subset

LEMMA BackedCalls ==
  ASSUME Typed
  PROVE  \A s \in Service : /\ Backed(s) \subseteq Call /\ Stops(s) \subseteq Call
                            /\ Starting(s) \subseteq Call /\ holders[s] \subseteq Call
                            /\ Extra(s) \in Nat
                            /\ servers[s] = None \/ servers[s] \in ServerEntry
                            /\ tunnelTo[s] = None \/ tunnelTo[s] \in ClientEntry
<1>1. \A s \in Service : /\ servers[s] = None \/ servers[s] \in ServerEntry
                         /\ tunnelTo[s] = None \/ tunnelTo[s] \in ClientEntry
                         /\ holders[s] \subseteq Call
  BY DEF Typed
<1>2. \A s \in Service : Extra(s) \in Nat
  BY <1>1 DEF Extra, ServerEntry
<1> QED BY <1>1, <1>2, ElementTypes DEF Backed, Stops, Starting

LEMMA CoverShrinks ==
  ASSUME Typed, Typed', NEW s \in Service, CoveredFor(s),
         Backed(s)' \subseteq Backed(s), Stops(s)' \subseteq Stops(s),
         creating'[s] = creating[s], holders'[s] = holders[s],
         servers'[s] = servers[s], ready'[s] = ready[s]
  PROVE  CoveredFor(s)'
<1>1. /\ Cardinality(Backed(s)') <= Cardinality(Backed(s)) /\ Cardinality(Backed(s)') \in Nat
      /\ Cardinality(Stops(s)') <= Cardinality(Stops(s)) /\ Cardinality(Stops(s)') \in Nat
      /\ Cardinality(Backed(s)) \in Nat /\ Cardinality(Stops(s)) \in Nat
  BY BackedCalls, SmallerCalls, FiniteCalls
<1>2. Starting(s)' = Starting(s) /\ Extra(s)' = Extra(s)
  BY DEF Starting, Extra
<1>3. Cardinality(Starting(s)) \in Nat /\ Cardinality(holders[s]) \in Nat /\ Extra(s) \in Nat
  BY BackedCalls, FiniteCalls
<1>4. Cardinality(Backed(s)') + Cardinality(Stops(s)') + Cardinality(Starting(s)')
        <= Cardinality(holders'[s]) + Extra(s)'
  BY <1>1, <1>2, <1>3 DEF CoveredFor
<1> QED BY <1>4 DEF CoveredFor

\* A step of the client that grants nothing and sends no stop.
LEMMA ClientShrinks ==
  ASSUME Typed, Typed', Covered, SameServices, UNCHANGED serverVars,
         ToSet(toClient') \subseteq ToSet(toClient),
         \A m \in ToSet(toServer') : m.command = "stop" => m \in ToSet(toServer),
         \A k \in Call : call'[k].stage = "tunnelling" => call[k].stage = "tunnelling" \/ Granted(k),
         \A k \in tunnels' : k \in tunnels \/ call[k].stage = "tunnelling"
  PROVE  Covered'
<1> SUFFICES ASSUME NEW s \in Service, "exit" \notin Faults[s]
             PROVE  CoveredFor(s)'
  BY DEF Covered
<1>1. Backed(s)' \subseteq Backed(s)
  BY DEF Backed, Granted, SameServices, Typed
<1>2. Stops(s)' \subseteq Stops(s)
  BY DEF Stops
<1>3. CoveredFor(s)
  BY DEF Covered
<1> QED BY <1>1, <1>2, <1>3, CoverShrinks DEF serverVars

-----------------------------------------------------------------------------
(* What the operators of the actions do *)

LEMMA StageSet ==
  ASSUME Typed, NEW k \in Call, NEW st \in Stage, SetStage(k, st)
  PROVE  /\ call' \in [Call -> CallRecord] /\ call'[k].stage = st /\ SameServices
         /\ \A j \in Call : call'[j].tunnel = call[j].tunnel
         /\ \A j \in Call : j # k => call'[j] = call[j]
<1>1. call \in [Call -> CallRecord] /\ call' = [call EXCEPT ![k].stage = st]
  BY DEF Typed, SetStage
<1>2. \A j \in Call : j # k => call'[j] = call[j]
  BY <1>1
<1>3. call'[k] = [call[k] EXCEPT !.stage = st] /\ call[k] \in CallRecord
  BY <1>1
<1>4. call'[k] \in CallRecord /\ call'[k].stage = st
      /\ call'[k].service = call[k].service /\ call'[k].tunnel = call[k].tunnel
  BY <1>3 DEF CallRecord
<1> QED BY <1>1, <1>2, <1>4 DEF SameServices

LEMMA RequestPosted ==
  ASSUME Typed, NEW m \in RequestType, Post(<<m>>)
  PROVE  /\ toServer' \in Seq(RequestType)
         /\ isClosed => toServer' = toServer
         /\ ~isClosed => /\ ToSet(toServer') = ToSet(toServer) \cup {m}
                         /\ IsInjective(toServer) /\ m \notin ToSet(toServer)
                              => IsInjective(toServer')
<1>1. toServer \in Seq(RequestType) /\ isClosed \in BOOLEAN
  BY DEF Typed
<1>2. CASE isClosed
  BY <1>1, <1>2 DEF Post
<1>3. CASE ~isClosed
  <2>1. toServer' = Append(toServer, m)
    BY <1>1, <1>3 DEF Post
  <2> QED BY <1>1, <1>3, <2>1, SetOfAppend
<1> QED BY <1>1, <1>2, <1>3

LEMMA RequestIsTyped ==
  ASSUME Typed, NEW k \in Call, NEW command \in {"start", "stop"}
  PROVE  /\ Request(command, k) \in RequestType
         /\ Request(command, k).call = k /\ Request(command, k).command = command
         /\ Request(command, k).service = call[k].service
         /\ call[k].service \in Service /\ call[k] \in CallRecord
  BY DEF Request, RequestType, Typed, CallRecord

\* The answers to the starts that awaited one process.
Answers(c, b) == [i \in 1 .. Len(c) |-> Answer(c[i], b)]

LEMMA AnswersGiven ==
  ASSUME NEW c \in Seq(Call), NEW b \in BOOLEAN
  PROVE  /\ Answers(c, b) \in Seq(AnswerType)
         /\ \A a \in ToSet(Answers(c, b)) :
              a.call \in ToSet(c) /\ a.success = b /\ a = Answer(a.call, b)
         /\ IsInjective(c) => IsInjective(Answers(c, b))
<1>1. Len(c) \in Nat /\ DOMAIN c = 1 .. Len(c) /\ \A i \in 1 .. Len(c) : c[i] \in Call
  OBVIOUS
<1>2. \A k \in Call : Answer(k, b) \in AnswerType /\ Answer(k, b).call = k
                      /\ Answer(k, b).success = b
  BY DEF Answer, AnswerType
<1>3. DOMAIN Answers(c, b) = 1 .. Len(c) /\ \A i \in 1 .. Len(c) : Answers(c, b)[i] = Answer(c[i], b)
  BY DEF Answers
<1>4. Answers(c, b) \in Seq(AnswerType)
  BY <1>1, <1>2 DEF Answers
<1>5. \A a \in ToSet(Answers(c, b)) :
        a.call \in ToSet(c) /\ a.success = b /\ a = Answer(a.call, b)
  BY <1>1, <1>2, <1>3 DEF ToSet
<1>6. IsInjective(c) => IsInjective(Answers(c, b))
  BY <1>1, <1>2, <1>3 DEF IsInjective
<1> QED BY <1>4, <1>5, <1>6

-----------------------------------------------------------------------------
(* The counts of the client, in a step that disturbs none of them *)

LEMMA LinkedStays ==
  ASSUME Typed, Linked, SameServices, UNCHANGED <<tunnelTo, tunnels, isClosed>>
  PROVE  Linked'
  BY DEF Linked, SameServices, Typed

LEMMA OneAtATimeStays ==
  ASSUME Typed, OneAtATime, SameServices,
         \A k \in Call : Pending(k)' => Pending(k),
         \A s \in Service : tunnelTo[s] = None => tunnelTo'[s] = None \/
           \A k \in Call : ~(Pending(k)' /\ call[k].service = s)
  PROVE  OneAtATime'
  BY DEF OneAtATime, SameServices, Serial

LEMMA UsersStay ==
  ASSUME SameServices, NEW s, \A k \in Call : call[k].service = s => (Live(k)' <=> Live(k))
  PROVE  UsersOf(s)' = UsersOf(s)
  BY DEF UsersOf, SameServices

LEMMA ExactStays ==
  ASSUME Typed, Exact, SameServices, UNCHANGED <<tunnelTo, tunnels, isClosed>>,
         \A k \in Call : (Live(k)' <=> Live(k)) /\ call'[k].tunnel = call[k].tunnel
  PROVE  Exact'
<1>1. \A s \in Service : UsersOf(s)' = UsersOf(s)
  BY UsersStay
<1>2. \A s \in Service : TunnelsOf(s)' = TunnelsOf(s)
  BY DEF TunnelsOf, SameServices, Typed
<1>3. \A s \in Service : \A k \in UsersOf(s) : k \in Call
  BY DEF UsersOf
<1>4. Serial \subseteq Service
  BY DEF Serial
<1> SUFFICES ASSUME ~isClosed, NEW s \in Serial
             PROVE  /\ tunnelTo'[s].refCount = Cardinality(UsersOf(s)')
                    /\ \A k \in UsersOf(s)' : call'[k].tunnel = tunnelTo'[s].tunnel
                    /\ TunnelsOf(s)' = IF UsersOf(s)' = {} THEN {} ELSE {tunnelTo'[s].tunnel}
  BY DEF Exact
<1>5. /\ tunnelTo[s].refCount = Cardinality(UsersOf(s))
      /\ \A k \in UsersOf(s) : call[k].tunnel = tunnelTo[s].tunnel
      /\ TunnelsOf(s) = IF UsersOf(s) = {} THEN {} ELSE {tunnelTo[s].tunnel}
  BY DEF Exact
<1> QED BY <1>1, <1>2, <1>3, <1>4, <1>5

-----------------------------------------------------------------------------
(* The steps of the client *)

\* A call that fails, or a client that is told to close.
LEMMA StageKeeps ==
  ASSUME ThriftInv, NEW k \in Call, NEW st \in Stage, SetStage(k, st),
         \/ call[k].stage \in {"starting", "tunnelling"} /\ st = "failed"
         \/ call[k].stage = "connected" /\ st = "closing",
         UNCHANGED <<tunnelTo, tunnels, isClosed, toServer, toClient, serverVars>>
  PROVE  ThriftInv'
<1>1. /\ call' \in [Call -> CallRecord] /\ call'[k].stage = st /\ SameServices
      /\ \A j \in Call : call'[j].tunnel = call[j].tunnel
      /\ \A j \in Call : j # k => call'[j] = call[j]
  BY StageSet DEF ThriftInv
<1>2. Typed'
  BY <1>1 DEF ThriftInv, Typed, serverVars
<1>3. \A j \in Call : Moves(call[j].stage, call'[j].stage)
  BY <1>1 DEF Moves
<1>4. Once'
  BY <1>1, <1>3, OnceShrinks DEF ThriftInv, serverVars, Once, Requested, Replied, Created
<1>5. Covered'
  <2>1. \A j \in Call : call'[j].stage = "tunnelling" => call[j].stage = "tunnelling"
    BY <1>1
  <2> QED BY <1>1, <1>2, <2>1, ClientShrinks DEF ThriftInv
<1>6. Linked'
  BY <1>1, LinkedStays DEF ThriftInv
<1>7. OneAtATime'
  <2>1. \A j \in Call : Pending(j)' => Pending(j)
    BY <1>1 DEF Pending
  <2> QED BY <1>1, <2>1, OneAtATimeStays DEF ThriftInv
<1>8. Exact'
  <2>1. \A j \in Call : Live(j)' <=> Live(j)
    BY <1>1 DEF Live
  <2> QED BY <1>1, <2>1, ExactStays DEF ThriftInv
<1> QED BY <1>2, <1>4, <1>5, <1>6, <1>7, <1>8 DEF ThriftInv

LEMMA TimesOutKeeps ==
  ASSUME ThriftInv, NEW k \in Call, TimesOut(k) PROVE ThriftInv'
  BY StageKeeps DEF TimesOut, MayTimeOut, Stage

LEMMA TunnelFailsKeeps ==
  ASSUME ThriftInv, NEW k \in Call, TunnelFails(k) PROVE ThriftInv'
  BY StageKeeps DEF TunnelFails, Stage

LEMMA CloseClientKeeps ==
  ASSUME ThriftInv, NEW k \in Call, CloseClient(k) PROVE ThriftInv'
  BY StageKeeps DEF CloseClient, Stage

LEMMA OnResponseKeeps ==
  ASSUME ThriftInv, OnResponse PROVE ThriftInv'
<1> DEFINE answer == Head(toClient)
<1>1. /\ toClient # <<>> /\ toClient' = Tail(toClient)
      /\ UNCHANGED <<tunnelTo, tunnels, isClosed, toServer, serverVars>>
      /\ IF call[answer.call].stage = "starting" /\ ~isClosed
           THEN SetStage(answer.call, IF answer.success THEN "tunnelling" ELSE "failed")
           ELSE UNCHANGED call
  BY DEF OnResponse
<1>2. /\ toClient \in Seq(AnswerType) /\ toClient' \in Seq(AnswerType)
      /\ answer \in ToSet(toClient) /\ answer \in AnswerType /\ answer.call \in Call
      /\ ToSet(toClient') \subseteq ToSet(toClient) /\ IsInjective(toClient')
      /\ answer \notin ToSet(toClient')
  <2>1. toClient \in Seq(AnswerType) /\ IsInjective(toClient)
    BY DEF ThriftInv, Typed, Once, Replied
  <2>2. toClient # <<>> /\ toClient' = Tail(toClient)
    BY <1>1
  <2>3. /\ toClient' \in Seq(AnswerType) /\ answer \in AnswerType /\ answer \in ToSet(toClient)
        /\ IsInjective(toClient') /\ ToSet(toClient') = ToSet(toClient) \ {answer}
    BY <2>1, <2>2, SetOfTail
  <2>4. answer.call \in Call
    BY <2>3 DEF AnswerType
  <2> HIDE DEF answer
  <2> QED BY <2>1, <2>3, <2>4
<1> HIDE DEF answer
<1>3. \/ UNCHANGED call
      \/ call[answer.call].stage = "starting" /\ ~answer.success
         /\ SetStage(answer.call, "failed")
      \/ call[answer.call].stage = "starting" /\ answer.success
         /\ SetStage(answer.call, "tunnelling")
  BY <1>1, <1>2 DEF AnswerType
<1>4. /\ call' \in [Call -> CallRecord] /\ SameServices
      /\ \A j \in Call : call'[j].tunnel = call[j].tunnel
      /\ \A j \in Call : \/ call'[j].stage = call[j].stage
                         \/ j = answer.call /\ call[j].stage = "starting"
                            /\ call'[j].stage = "failed"
                         \/ j = answer.call /\ call[j].stage = "starting"
                            /\ call'[j].stage = "tunnelling" /\ answer.success
  <2>1. CASE UNCHANGED call
    BY <2>1 DEF ThriftInv, Typed, SameServices
  <2>2. CASE /\ call[answer.call].stage = "starting"
             /\ SetStage(answer.call, "failed")
    BY <1>2, <2>2, StageSet DEF ThriftInv, Stage
  <2>3. CASE /\ call[answer.call].stage = "starting" /\ answer.success
             /\ SetStage(answer.call, "tunnelling")
    BY <1>2, <2>3, StageSet DEF ThriftInv, Stage
  <2> QED BY <1>3, <2>1, <2>2, <2>3
<1>5. Typed'
  BY <1>1, <1>2, <1>4 DEF ThriftInv, Typed, serverVars
<1>6. /\ \A a \in ToSet(toClient') : a.call # answer.call
      /\ \A m \in ToSet(toServer) : call[answer.call].stage = "starting" => m.call # answer.call
      /\ \A s \in Service : answer.call \notin ToSet(creating[s])
  <2>1. \A b \in ToSet(toClient) : b.call = answer.call => b = answer
    BY <1>2 DEF ThriftInv, Once, Replied
  <2>2. \A m \in ToSet(toServer) : m.call = answer.call => call[answer.call].stage = "gone"
    BY <1>2, ElementTypes DEF ThriftInv, Once, Requested
  <2>3. \A s \in Service : answer.call \notin ToSet(creating[s])
    <3>1. \A s \in Service : \A k \in ToSet(creating[s]) : \A a \in ToSet(toClient) : a.call # k
      BY DEF ThriftInv, Once, Created
    <3> QED BY <1>2, <3>1
  <2> QED BY <1>2, <2>1, <2>2, <2>3
<1>7. \A j \in Call : Moves(call[j].stage, call'[j].stage) \/ Answered(j)
  BY <1>4, <1>6 DEF Moves, Answered
<1>8. Once'
  BY <1>1, <1>2, <1>4, <1>7, OnceShrinks
     DEF ThriftInv, serverVars, Once, Requested, Created
<1>9. Covered'
  <2>1. ASSUME NEW j \in Call, call'[j].stage = "tunnelling"
        PROVE  call[j].stage = "tunnelling" \/ Granted(j)
    <3>1. CASE call'[j].stage = call[j].stage
      BY <2>1, <3>1
    <3>2. CASE j = answer.call /\ answer.success
      <4>1. answer = Answer(j, TRUE)
        BY <1>2, <3>2 DEF AnswerType, Answer
      <4> QED BY <1>2, <4>1 DEF Granted
    <3> QED BY <1>4, <2>1, <3>1, <3>2
  <2> QED BY <1>1, <1>2, <1>4, <1>5, <2>1, ClientShrinks DEF ThriftInv
<1>10. Linked'
  BY <1>1, <1>4, LinkedStays DEF ThriftInv
<1>11. OneAtATime'
  <2>1. \A j \in Call : Pending(j)' => Pending(j)
    BY <1>4 DEF Pending
  <2> QED BY <1>1, <1>4, <2>1, OneAtATimeStays DEF ThriftInv
<1>12. Exact'
  <2>1. \A j \in Call : Live(j)' <=> Live(j)
    BY <1>4 DEF Live
  <2> QED BY <1>1, <1>4, <2>1, ExactStays DEF ThriftInv
<1> QED BY <1>5, <1>8, <1>9, <1>10, <1>11, <1>12 DEF ThriftInv

LEMMA CloseKeeps ==
  ASSUME ThriftInv, Close PROVE ThriftInv'
<1>1. /\ isClosed' = TRUE /\ tunnels' = {}
      /\ UNCHANGED <<tunnelTo, toClient, serverVars>>
      /\ call' = [k \in Call |->
           IF call[k].stage = "connected" THEN [call[k] EXCEPT !.stage = "closing"]
                                          ELSE call[k]]
  BY DEF Close
<1>2. PICK n \in 0 .. Len(toServer) : toServer' = SubSeq(toServer, 1, n)
  BY DEF Close
<1>3. /\ toServer' \in Seq(RequestType) /\ IsInjective(toServer')
      /\ ToSet(toServer') \subseteq ToSet(toServer)
  <2>1. toServer \in Seq(RequestType) /\ IsInjective(toServer)
    BY DEF ThriftInv, Typed, Once, Requested
  <2> QED BY <1>2, <2>1, SetOfPrefix
<1>4. \A j \in Call :
        /\ call'[j] \in CallRecord /\ call'[j].service = call[j].service
        /\ call'[j].tunnel = call[j].tunnel
        /\ \/ call'[j].stage = call[j].stage
           \/ call[j].stage = "connected" /\ call'[j].stage = "closing"
  <2> SUFFICES ASSUME NEW j \in Call
               PROVE  /\ call'[j] \in CallRecord /\ call'[j].service = call[j].service
                      /\ call'[j].tunnel = call[j].tunnel
                      /\ \/ call'[j].stage = call[j].stage
                         \/ call[j].stage = "connected" /\ call'[j].stage = "closing"
    OBVIOUS
  <2>1. call[j] \in CallRecord
    BY DEF ThriftInv, Typed
  <2>2. CASE call[j].stage = "connected"
    <3>1. call'[j] = [call[j] EXCEPT !.stage = "closing"]
      BY <1>1, <2>2
    <3> QED BY <2>1, <2>2, <3>1 DEF CallRecord, Stage
  <2>3. CASE call[j].stage # "connected"
    BY <1>1, <2>1, <2>3
  <2> QED BY <2>2, <2>3
<1>5. call' \in [Call -> CallRecord] /\ SameServices
  BY <1>1, <1>4 DEF SameServices
<1>6. Typed'
  BY <1>1, <1>3, <1>5 DEF ThriftInv, Typed, serverVars
<1>7. \A j \in Call : Moves(call[j].stage, call'[j].stage)
  BY <1>4 DEF Moves
<1>8. Once'
  BY <1>1, <1>3, <1>4, <1>5, <1>7, OnceShrinks DEF ThriftInv, serverVars, Once, Replied, Created
<1>9. Covered'
  <2>1. \A j \in Call : call'[j].stage = "tunnelling" => call[j].stage = "tunnelling"
    BY <1>4
  <2> QED BY <1>1, <1>3, <1>5, <1>6, <2>1, ClientShrinks DEF ThriftInv
<1>10. Linked' /\ Exact'
  BY <1>1 DEF Linked, Exact
<1>11. OneAtATime'
  <2>1. \A j \in Call : Pending(j)' => Pending(j)
    BY <1>4 DEF Pending
  <2> QED BY <1>1, <1>5, <2>1, OneAtATimeStays DEF ThriftInv
<1> QED BY <1>6, <1>8, <1>9, <1>10, <1>11 DEF ThriftInv

LEMMA TunnelOpensKeeps ==
  ASSUME ThriftInv, NEW k \in Call, TunnelOpens(k) PROVE ThriftInv'
<1> DEFINE s == call[k].service
           entry == [refCount |-> 1, tunnel |-> k]
<1>1. /\ call[k].stage = "tunnelling" /\ SetStage(k, "connected")
      /\ tunnels' = tunnels \cup {k} /\ tunnelTo' = [tunnelTo EXCEPT ![s] = entry]
      /\ UNCHANGED <<isClosed, toServer, toClient, serverVars>>
  BY DEF TunnelOpens
<1>2. /\ s \in Service /\ entry \in ClientEntry /\ entry # None
      /\ entry.refCount = 1 /\ entry.tunnel = k
  BY DEF ThriftInv, Typed, CallRecord, ClientEntry, None
<1>3. /\ call' \in [Call -> CallRecord] /\ call'[k].stage = "connected" /\ SameServices
      /\ \A j \in Call : call'[j].tunnel = call[j].tunnel
      /\ \A j \in Call : j # k => call'[j] = call[j]
  BY <1>1, StageSet DEF ThriftInv, Stage
<1>4. /\ tunnelTo' \in [Service -> {None} \cup ClientEntry] /\ tunnelTo'[s] = entry
      /\ \A z \in Service : z # s => tunnelTo'[z] = tunnelTo[z]
  BY <1>1, <1>2 DEF ThriftInv, Typed
<1>5. Typed'
  BY <1>1, <1>3, <1>4 DEF ThriftInv, Typed, serverVars
<1>6. \A j \in Call : Moves(call[j].stage, call'[j].stage)
  BY <1>1, <1>3 DEF Moves
<1>7. Once'
  BY <1>1, <1>3, <1>6, OnceShrinks
     DEF ThriftInv, serverVars, Once, Requested, Replied, Created
<1>8. Covered'
  <2>1. \A j \in Call : call'[j].stage = "tunnelling" => call[j].stage = "tunnelling"
    BY <1>1, <1>3
  <2>2. \A j \in tunnels' : j \in tunnels \/ call[j].stage = "tunnelling"
    BY <1>1
  <2> QED BY <1>1, <1>3, <1>5, <2>1, <2>2, ClientShrinks DEF ThriftInv
<1>9. Linked'
  <2> SUFFICES ASSUME ~isClosed, NEW z \in Service, tunnelTo'[z] # None
               PROVE  tunnelTo'[z].tunnel \in tunnels' /\ call'[tunnelTo'[z].tunnel].service = z
    BY <1>1 DEF Linked
  <2>1. CASE z = s
    BY <1>1, <1>2, <1>3, <1>4, <2>1 DEF SameServices
  <2>2. CASE z # s
    <3>1. tunnelTo[z].tunnel \in tunnels /\ call[tunnelTo[z].tunnel].service = z
      BY <1>4, <2>2 DEF ThriftInv, Linked
    <3>2. tunnelTo[z].tunnel \in Call
      BY <3>1 DEF ThriftInv, Typed
    <3> QED BY <1>1, <1>3, <1>4, <2>2, <3>1, <3>2 DEF SameServices
  <2> QED BY <2>1, <2>2
<1>10. \A z \in Serial : \A j \in Call : call[j].service = z /\ Pending(j) =>
         tunnelTo[z] = None /\ (z = s => j = k)
  BY <1>1 DEF ThriftInv, OneAtATime, Pending
<1>11. OneAtATime'
  <2> SUFFICES ASSUME NEW z \in Serial, NEW j \in Call, Pending(j)', call'[j].service = z
               PROVE  /\ tunnelTo'[z] = None
                      /\ \A i \in Call : Pending(i)' /\ call'[i].service = z => i = j
    BY DEF OneAtATime
  <2>1. \A i \in Call : Pending(i)' => Pending(i) /\ i # k
    BY <1>1, <1>3 DEF Pending
  <2>2. call[j].service = z /\ Pending(j) /\ z # s /\ z \in Service
    BY <1>3, <1>10, <2>1 DEF SameServices, Serial
  <2> QED BY <1>3, <1>4, <1>10, <2>1, <2>2 DEF SameServices, ThriftInv, OneAtATime
<1>12. Exact'
  <2> SUFFICES ASSUME ~isClosed, NEW z \in Serial
               PROVE  /\ tunnelTo'[z].refCount = Cardinality(UsersOf(z)')
                      /\ \A j \in UsersOf(z)' : call'[j].tunnel = tunnelTo'[z].tunnel
                      /\ TunnelsOf(z)' = IF UsersOf(z)' = {} THEN {} ELSE {tunnelTo'[z].tunnel}
    BY <1>1 DEF Exact
  <2>1. /\ tunnelTo[z].refCount = Cardinality(UsersOf(z))
        /\ \A j \in UsersOf(z) : call[j].tunnel = tunnelTo[z].tunnel
        /\ TunnelsOf(z) = IF UsersOf(z) = {} THEN {} ELSE {tunnelTo[z].tunnel}
        /\ z \in Service
    BY DEF ThriftInv, Exact, Serial
  <2>2. CASE z # s
    <3>1. UsersOf(z)' = UsersOf(z)
      <4>1. \A j \in Call : call[j].service = z => j # k
        BY <2>2
      <4>2. \A j \in Call : call[j].service = z => (Live(j)' <=> Live(j))
        BY <1>3, <4>1 DEF Live
      <4> QED BY <1>3, <4>2, UsersStay
    <3>2. TunnelsOf(z)' = TunnelsOf(z)
      <4>1. tunnels \subseteq Call
        BY DEF ThriftInv, Typed
      <4> QED BY <1>1, <1>3, <2>2, <4>1 DEF TunnelsOf, SameServices
    <3>3. \A j \in UsersOf(z) : j \in Call
      BY DEF UsersOf
    <3> QED BY <1>3, <1>4, <2>1, <2>2, <3>1, <3>2, <3>3
  <2>3. CASE z = s
    <3>1. tunnelTo[z] = None
      BY <1>1, <1>10, <2>3 DEF Pending
    <3>2. UsersOf(z) = {}
      <4>1. UsersOf(z) \subseteq Call
        BY DEF UsersOf
      <4>2. IsFiniteSet(UsersOf(z)) /\ Cardinality(UsersOf(z)) = 0
        BY <2>1, <3>1, <4>1, FiniteCalls DEF None
      <4> QED BY <4>2, FS_EmptySet
    <3>3. UsersOf(z)' = {k}
      <4>1. \A j \in Call : j \in UsersOf(z)' <=> j = k
        BY <1>3, <2>3, <3>2 DEF UsersOf, SameServices, Live
      <4> QED BY <4>1 DEF UsersOf
    <3>4. TunnelsOf(z)' = {k}
      <4>1. TunnelsOf(z) = {} /\ tunnels \subseteq Call
        BY <2>1, <3>2 DEF ThriftInv, Typed
      <4> QED BY <1>1, <1>3, <2>3, <4>1 DEF TunnelsOf, SameServices
    <3>5. call'[k].tunnel = k
      BY <1>1, <1>3 DEF ThriftInv, Once, Own
    <3> QED BY <1>2, <1>4, <2>3, <3>3, <3>4, <3>5, FS_Singleton
  <2> QED BY <2>2, <2>3
<1> QED BY <1>5, <1>7, <1>8, <1>9, <1>11, <1>12 DEF ThriftInv

LEMMA TwoFieldsSet ==
  ASSUME NEW r \in CallRecord, NEW st \in Stage, NEW c \in Call
  PROVE  /\ [r EXCEPT !.stage = st, !.tunnel = c]
              = [stage |-> st, service |-> r.service, tunnel |-> c]
         /\ [stage |-> st, service |-> r.service, tunnel |-> c] \in CallRecord
<1>1. [r EXCEPT !.stage = st] = [stage |-> st, service |-> r.service, tunnel |-> r.tunnel]
  BY DEF CallRecord
<1>2. [[stage |-> st, service |-> r.service, tunnel |-> r.tunnel] EXCEPT !.tunnel = c]
        = [stage |-> st, service |-> r.service, tunnel |-> c]
  OBVIOUS
<1>3. [r EXCEPT !.stage = st, !.tunnel = c] = [[r EXCEPT !.stage = st] EXCEPT !.tunnel = c]
  OBVIOUS
<1>4. [stage |-> st, service |-> r.service, tunnel |-> c] \in CallRecord
  BY DEF CallRecord
<1> QED BY <1>1, <1>2, <1>3, <1>4, Zenon

\* A client that shares the tunnel of the service.
LEMMA SharesKeeps ==
  ASSUME ThriftInv, NEW k \in Call, call[k].stage = "idle", ~isClosed,
         NEW s \in Service, s = call[k].service, tunnelTo[s] # None, UseTunnel(s),
         call' = [call EXCEPT ![k].stage = "connected", ![k].tunnel = tunnelTo[s].tunnel],
         UNCHANGED <<tunnels, isClosed, toServer, toClient, serverVars>>
  PROVE  ThriftInv'
<1>1. /\ tunnelTo[s] \in ClientEntry /\ tunnelTo[s].refCount \in Nat
      /\ tunnelTo[s].tunnel \in Call /\ tunnelTo[s].refCount > 0
  BY BackedCalls DEF ThriftInv, ClientEntry
<1>2. /\ tunnelTo' \in [Service -> {None} \cup ClientEntry] /\ tunnelTo'[s] # None
      /\ tunnelTo'[s].refCount = tunnelTo[s].refCount + 1
      /\ tunnelTo'[s].tunnel = tunnelTo[s].tunnel
      /\ \A z \in Service : z # s => tunnelTo'[z] = tunnelTo[z]
  <2>1. tunnelTo \in [Service -> {None} \cup ClientEntry]
    BY DEF ThriftInv, Typed
  <2>2. tunnelTo' = [tunnelTo EXCEPT ![s] = [tunnelTo[s] EXCEPT !.refCount = @ + 1]]
    BY <2>1 DEF UseTunnel
  <2>3. /\ [tunnelTo[s] EXCEPT !.refCount = @ + 1] \in ClientEntry
        /\ [tunnelTo[s] EXCEPT !.refCount = @ + 1].refCount = tunnelTo[s].refCount + 1
        /\ [tunnelTo[s] EXCEPT !.refCount = @ + 1].tunnel = tunnelTo[s].tunnel
    BY <1>1 DEF ClientEntry
  <2>4. \A e \in ClientEntry : e # None
    BY DEF ClientEntry, None
  <2> QED BY <2>1, <2>2, <2>3, <2>4
<1>3. /\ call' \in [Call -> CallRecord] /\ SameServices
      /\ call'[k].stage = "connected" /\ call'[k].tunnel = tunnelTo[s].tunnel
      /\ \A j \in Call : j # k => call'[j] = call[j]
  <2>1. call \in [Call -> CallRecord]
    BY DEF ThriftInv, Typed
  <2>2. /\ call'[k] = [call[k] EXCEPT !.stage = "connected", !.tunnel = tunnelTo[s].tunnel]
        /\ \A j \in Call : j # k => call'[j] = call[j]
        /\ call[k] \in CallRecord
    BY <2>1
  <2>3. /\ call'[k] \in CallRecord /\ call'[k].service = call[k].service
        /\ call'[k].stage = "connected" /\ call'[k].tunnel = tunnelTo[s].tunnel
    <3>1. "connected" \in Stage
      BY DEF Stage
    <3>2. PICK c \in Call : c = tunnelTo[s].tunnel
      BY <1>1
    <3>3. PICK r \in CallRecord : r = call[k]
      BY <2>2
    <3>4. call'[k] = [r EXCEPT !.stage = "connected", !.tunnel = c]
      BY <2>2, <3>2, <3>3
    <3>5. /\ call'[k] = [stage |-> "connected", service |-> r.service, tunnel |-> c]
          /\ [stage |-> "connected", service |-> r.service, tunnel |-> c] \in CallRecord
      BY <3>1, <3>4, TwoFieldsSet
    <3> QED BY <3>2, <3>3, <3>5
  <2> QED BY <2>1, <2>2, <2>3 DEF SameServices
<1>4. Typed'
  BY <1>2, <1>3 DEF ThriftInv, Typed, serverVars
<1>5. \A j \in Call : Moves(call[j].stage, call'[j].stage)
  BY <1>3 DEF Moves
<1>6. Once'
  BY <1>3, <1>5, OnceShrinks DEF ThriftInv, serverVars, Once, Requested, Replied, Created
<1>7. Covered'
  <2>1. \A j \in Call : call'[j].stage = "tunnelling" => call[j].stage = "tunnelling"
    BY <1>3
  <2> QED BY <1>3, <1>4, <2>1, ClientShrinks DEF ThriftInv
<1>8. Linked'
  <2> SUFFICES ASSUME NEW z \in Service, tunnelTo'[z] # None
               PROVE  tunnelTo'[z].tunnel \in tunnels /\ call'[tunnelTo'[z].tunnel].service = z
    BY DEF Linked
  <2>1. tunnelTo[z] # None /\ tunnelTo'[z].tunnel = tunnelTo[z].tunnel
    BY <1>2
  <2>2. tunnelTo[z].tunnel \in tunnels /\ call[tunnelTo[z].tunnel].service = z
    BY <2>1 DEF ThriftInv, Linked
  <2>3. tunnels \subseteq Call
    BY DEF ThriftInv, Typed
  <2> QED BY <1>3, <2>1, <2>2, <2>3 DEF SameServices
<1>9. OneAtATime'
  <2>1. \A j \in Call : Pending(j)' => Pending(j)
    BY <1>3 DEF Pending
  <2>2. \A z \in Service : tunnelTo[z] = None => tunnelTo'[z] = None
    BY <1>2
  <2> QED BY <1>3, <2>1, <2>2, OneAtATimeStays DEF ThriftInv
<1>10. Exact'
  <2> SUFFICES ASSUME NEW z \in Serial
               PROVE  /\ tunnelTo'[z].refCount = Cardinality(UsersOf(z)')
                      /\ \A j \in UsersOf(z)' : call'[j].tunnel = tunnelTo'[z].tunnel
                      /\ TunnelsOf(z)' = IF UsersOf(z)' = {} THEN {} ELSE {tunnelTo'[z].tunnel}
    BY DEF Exact
  <2>1. /\ tunnelTo[z].refCount = Cardinality(UsersOf(z))
        /\ \A j \in UsersOf(z) : call[j].tunnel = tunnelTo[z].tunnel
        /\ TunnelsOf(z) = IF UsersOf(z) = {} THEN {} ELSE {tunnelTo[z].tunnel}
        /\ z \in Service
    BY DEF ThriftInv, Exact, Serial
  <2>2. TunnelsOf(z)' = TunnelsOf(z)
    <3>1. tunnels \subseteq Call
      BY DEF ThriftInv, Typed
    <3> QED BY <1>3, <3>1 DEF TunnelsOf, SameServices
  <2>3. UsersOf(z) \subseteq Call
    BY DEF UsersOf
  <2>4. CASE z # s
    <3>1. UsersOf(z)' = UsersOf(z)
      <4>1. \A j \in Call : call[j].service = z => j # k
        BY <2>4
      <4>2. \A j \in Call : call[j].service = z => (Live(j)' <=> Live(j))
        BY <1>3, <4>1 DEF Live
      <4> QED BY <1>3, <4>2, UsersStay
    <3>2. \A j \in UsersOf(z) : call'[j].tunnel = call[j].tunnel
      BY <1>3, <2>4 DEF UsersOf
    <3>3. tunnelTo'[z] = tunnelTo[z]
      BY <1>2, <2>1, <2>4
    <3> QED BY <2>1, <2>2, <3>1, <3>2, <3>3
  <2>5. CASE z = s
    <3>1. k \notin UsersOf(z) /\ UsersOf(z)' = UsersOf(z) \cup {k}
      <4>1. k \notin UsersOf(z)
        BY DEF UsersOf, Live
      <4>2. \A j \in Call : j \in UsersOf(z)' <=> j \in UsersOf(z) \/ j = k
        BY <1>3, <2>5 DEF UsersOf, SameServices, Live
      <4> QED BY <2>3, <4>1, <4>2 DEF UsersOf
    <3>2. IsFiniteSet(UsersOf(z)) /\ Cardinality(UsersOf(z)) \in Nat
      BY <2>3, FiniteCalls
    <3>3. Cardinality(UsersOf(z)') = Cardinality(UsersOf(z)) + 1
      BY <3>1, <3>2, FS_AddElement
    <3>4. UsersOf(z) # {} /\ UsersOf(z)' # {}
      <4>1. Cardinality(UsersOf(z)) # 0
        BY <1>1, <2>1, <2>5
      <4>2. UsersOf(z) = {} => Cardinality(UsersOf(z)) = 0
        BY FS_EmptySet
      <4> QED BY <3>1, <4>1, <4>2
    <3> QED BY <1>2, <1>3, <2>1, <2>2, <2>3, <2>5, <3>1, <3>3, <3>4
  <2> QED BY <2>4, <2>5
<1> QED BY <1>4, <1>6, <1>7, <1>8, <1>9, <1>10 DEF ThriftInv

\* A client that finds no tunnel asks the server to start the service.
LEMMA StartsKeeps ==
  ASSUME ThriftInv, NEW k \in Call, call[k].stage = "idle", ~isClosed,
         NEW s \in Service, s = call[k].service, tunnelTo[s] = None,
         Cardinality({j \in CallsOf(s) : Pending(j)}) < MaxPending[s],
         SetStage(k, "starting"), Post(<<Request("start", k)>>),
         UNCHANGED <<tunnelTo, tunnels, isClosed, toClient, serverVars>>
  PROVE  ThriftInv'
<1> DEFINE m == Request("start", k)
<1>1. /\ call' \in [Call -> CallRecord] /\ call'[k].stage = "starting" /\ SameServices
      /\ \A j \in Call : call'[j].tunnel = call[j].tunnel
      /\ \A j \in Call : j # k => call'[j] = call[j]
  BY StageSet DEF ThriftInv, Stage
<1>2. /\ m \in RequestType /\ m.call = k /\ m.command = "start" /\ m.service = s
  BY RequestIsTyped DEF ThriftInv
<1>3. \A x \in ToSet(toServer) : x.call # k
  BY ElementTypes DEF ThriftInv, Once, Requested
<1>4. /\ toServer' \in Seq(RequestType) /\ ToSet(toServer') = ToSet(toServer) \cup {m}
      /\ IsInjective(toServer')
  <2>1. IsInjective(toServer)
    BY DEF ThriftInv, Once, Requested
  <2> QED BY <1>2, <1>3, <2>1, RequestPosted DEF ThriftInv
<1> HIDE DEF m
<1>5. Typed'
  BY <1>1, <1>4 DEF ThriftInv, Typed, serverVars
<1>6. \A j \in Call : Moves(call[j].stage, call'[j].stage)
  BY <1>1 DEF Moves
<1>7. Created' /\ Replied' /\ Held' /\ Opened' /\ Own'
  BY <1>1, <1>6, OnceShrinks DEF ThriftInv, serverVars, Once, Replied, Created
<1>8. Requested'
  <2>1. ASSUME NEW x \in ToSet(toServer)
        PROVE  /\ x.service = call'[x.call].service
               /\ x.command = "stop" => call'[x.call].stage = "gone"
               /\ x.command = "start" =>
                    /\ call'[x.call].stage \in {"starting", "failed"}
                    /\ \A a \in ToSet(toClient') : a.call # x.call
                    /\ \A z \in Service : x.call \notin holders'[z]
    <3>1. x.call \in Call /\ x.call # k
      BY <1>3, ElementTypes DEF ThriftInv
    <3>2. /\ x.service = call[x.call].service
          /\ x.command = "stop" => call[x.call].stage = "gone"
          /\ x.command = "start" =>
               /\ call[x.call].stage \in {"starting", "failed"}
               /\ \A a \in ToSet(toClient) : a.call # x.call
               /\ \A z \in Service : x.call \notin holders[z]
      BY DEF ThriftInv, Once, Requested
    <3> QED BY <1>1, <3>1, <3>2 DEF serverVars
  <2>2. /\ m.service = call'[m.call].service
        /\ m.command # "stop" /\ call'[m.call].stage = "starting"
    BY <1>1, <1>2 DEF SameServices
  <2>3. \A a \in ToSet(toClient') : a.call # m.call
    BY <1>2 DEF ThriftInv, Once, Replied
  <2>4. \A z \in Service : m.call \notin holders'[z]
    BY <1>2 DEF ThriftInv, Once, Held, serverVars
  <2> QED BY <1>4, <2>1, <2>2, <2>3, <2>4 DEF Requested
<1>9. Covered'
  <2>1. \A j \in Call : call'[j].stage = "tunnelling" => call[j].stage = "tunnelling"
    BY <1>1
  <2> QED BY <1>1, <1>2, <1>4, <1>5, <2>1, ClientShrinks DEF ThriftInv
<1>10. Linked'
  BY <1>1, LinkedStays DEF ThriftInv
<1>11. OneAtATime'
  <2> SUFFICES ASSUME NEW z \in Serial, NEW j \in Call, Pending(j)', call'[j].service = z
               PROVE  /\ tunnelTo[z] = None
                      /\ \A i \in Call : Pending(i)' /\ call'[i].service = z => i = j
    BY DEF OneAtATime
  <2>1. \A i \in Call : Pending(i)' => i = k \/ Pending(i)
    BY <1>1 DEF Pending
  <2>2. CASE z = s
    <3>1. {i \in CallsOf(s) : Pending(i)} = {}
      <4>1. {i \in CallsOf(s) : Pending(i)} \subseteq Call
        BY DEF CallsOf
      <4>2. MaxPending[s] = 1
        BY <2>2 DEF Serial
      <4>3. IsFiniteSet({i \in CallsOf(s) : Pending(i)})
            /\ Cardinality({i \in CallsOf(s) : Pending(i)}) = 0
        BY <4>1, <4>2, FiniteCalls
      <4> QED BY <4>3, FS_EmptySet
    <3>2. \A i \in Call : ~(Pending(i) /\ call[i].service = s)
      BY <3>1 DEF CallsOf, Pending
    <3> QED BY <1>1, <2>1, <2>2, <3>2 DEF SameServices
  <2>3. CASE z # s
    <3>1. Pending(j) /\ call[j].service = z
          /\ \A i \in Call : Pending(i)' /\ call'[i].service = z => Pending(i) /\ call[i].service = z
      BY <1>1, <2>1, <2>3 DEF SameServices
    <3> QED BY <3>1 DEF ThriftInv, OneAtATime
  <2> QED BY <2>2, <2>3
<1>12. Exact'
  <2>1. \A j \in Call : Live(j)' <=> Live(j)
    BY <1>1 DEF Live
  <2> QED BY <1>1, <2>1, ExactStays DEF ThriftInv
<1> QED BY <1>5, <1>7, <1>8, <1>9, <1>10, <1>11, <1>12 DEF ThriftInv, Once

LEMMA CreateKeeps ==
  ASSUME ThriftInv, NEW k \in Call, CreateThriftClient(k) PROVE ThriftInv'
<1>1. PICK s \in Service : s = call[k].service
  BY DEF ThriftInv, Typed, CallRecord
<1>2. CASE tunnelTo[s] # None
  BY <1>1, <1>2, SharesKeeps DEF CreateThriftClient
<1>3. CASE tunnelTo[s] = None
  BY <1>1, <1>3, StartsKeeps DEF CreateThriftClient
<1> QED BY <1>2, <1>3

\* A client of the service s, which was live, is gone.
LEMMA GoneCall ==
  ASSUME ThriftInv, NEW k \in Call, Live(k), SetStage(k, "gone"),
         NEW s \in Service, s = call[k].service
  PROVE  /\ call' \in [Call -> CallRecord] /\ call'[k].stage = "gone" /\ SameServices
         /\ \A j \in Call : call'[j].tunnel = call[j].tunnel
         /\ \A j \in Call : j # k => call'[j] = call[j]
         /\ \A j \in Call : Moves(call[j].stage, call'[j].stage)
         /\ \A j \in Call : call'[j].stage = "tunnelling" => call[j].stage = "tunnelling"
         /\ \A j \in Call : Pending(j)' => Pending(j)
         /\ \A z \in Service : UsersOf(z)' = IF z = s THEN UsersOf(z) \ {k} ELSE UsersOf(z)
         /\ k \in UsersOf(s)
         /\ \A x \in ToSet(toServer) : x.call # k
<1>1. /\ call' \in [Call -> CallRecord] /\ call'[k].stage = "gone" /\ SameServices
      /\ \A j \in Call : call'[j].tunnel = call[j].tunnel
      /\ \A j \in Call : j # k => call'[j] = call[j]
  BY StageSet DEF ThriftInv, Stage
<1>2. \A j \in Call : Moves(call[j].stage, call'[j].stage)
  BY <1>1 DEF Moves, Live
<1>3. \A j \in Call : Pending(j)' => Pending(j)
  BY <1>1 DEF Pending
<1>4. ASSUME NEW z \in Service
      PROVE  UsersOf(z)' = IF z = s THEN UsersOf(z) \ {k} ELSE UsersOf(z)
  <2>1. \A j \in Call : j \in UsersOf(z)' <=> j \in UsersOf(z) /\ j # k
    BY <1>1 DEF UsersOf, SameServices, Live
  <2>2. UsersOf(z)' \subseteq Call /\ UsersOf(z) \subseteq Call
    BY DEF UsersOf
  <2>3. z # s => k \notin UsersOf(z)
    BY DEF UsersOf
  <2>4. UsersOf(z)' = UsersOf(z) \ {k}
    BY <2>1, <2>2
  <2> QED BY <2>3, <2>4
<1>5. k \in UsersOf(s)
  BY DEF UsersOf
<1>6. \A x \in ToSet(toServer) : x.call # k
  BY ElementTypes DEF ThriftInv, Once, Requested, Live
<1>7. \A j \in Call : call'[j].stage = "tunnelling" => call[j].stage = "tunnelling"
  BY <1>1
<1> QED BY <1>1, <1>2, <1>3, <1>4, <1>5, <1>6, <1>7

\* Its connection finds no tunnel in the map.
LEMMA FindsNoneKeeps ==
  ASSUME ThriftInv, NEW k \in Call, Live(k), SetStage(k, "gone"),
         NEW s \in Service, s = call[k].service, tunnelTo[s] = None,
         UNCHANGED <<tunnelTo, tunnels, toServer, isClosed, toClient, serverVars>>
  PROVE  ThriftInv'
<1>1. Typed'
  BY GoneCall DEF ThriftInv, Typed, serverVars
<1>2. Once'
  BY GoneCall, OnceShrinks DEF ThriftInv, serverVars, Once, Requested, Replied, Created
<1>3. Covered'
  BY <1>1, GoneCall, ClientShrinks DEF ThriftInv
<1>4. Linked'
  BY GoneCall, LinkedStays DEF ThriftInv
<1>5. OneAtATime'
  BY GoneCall, OneAtATimeStays DEF ThriftInv
<1>6. Exact'
  <2> SUFFICES ASSUME ~isClosed, NEW z \in Serial
               PROVE  /\ tunnelTo[z].refCount = Cardinality(UsersOf(z)')
                      /\ \A j \in UsersOf(z)' : call'[j].tunnel = tunnelTo[z].tunnel
                      /\ TunnelsOf(z)' = IF UsersOf(z)' = {} THEN {} ELSE {tunnelTo[z].tunnel}
    BY DEF Exact
  <2>1. /\ tunnelTo[z].refCount = Cardinality(UsersOf(z))
        /\ \A j \in UsersOf(z) : call[j].tunnel = tunnelTo[z].tunnel
        /\ TunnelsOf(z) = IF UsersOf(z) = {} THEN {} ELSE {tunnelTo[z].tunnel}
        /\ z \in Service /\ UsersOf(z) \subseteq Call
    BY DEF ThriftInv, Exact, Serial, UsersOf
  <2>2. z # s
    <3> SUFFICES ASSUME z = s PROVE FALSE
      OBVIOUS
    <3>1. IsFiniteSet(UsersOf(z)) /\ Cardinality(UsersOf(z)) = 0
      BY <2>1, FiniteCalls DEF None
    <3>2. UsersOf(z) = {}
      BY <3>1, FS_EmptySet
    <3> QED BY <3>2, GoneCall
  <2>3. UsersOf(z)' = UsersOf(z)
    BY <2>1, <2>2, GoneCall
  <2>4. TunnelsOf(z)' = TunnelsOf(z)
    <3>1. tunnels \subseteq Call
      BY DEF ThriftInv, Typed
    <3> QED BY <3>1, GoneCall DEF TunnelsOf, SameServices
  <2>5. \A j \in UsersOf(z) : call'[j].tunnel = call[j].tunnel
    BY <2>1, GoneCall
  <2> QED BY <2>1, <2>3, <2>4, <2>5
<1> QED BY <1>1, <1>2, <1>3, <1>4, <1>5, <1>6 DEF ThriftInv

\* It is not the last client of the tunnel.
LEMMA LeavesKeeps ==
  ASSUME ThriftInv, NEW k \in Call, Live(k), SetStage(k, "gone"),
         NEW s \in Service, s = call[k].service, tunnelTo[s].refCount > 1,
         tunnelTo' = [tunnelTo EXCEPT ![s].refCount = @ - 1],
         UNCHANGED <<tunnels, toServer, isClosed, toClient, serverVars>>
  PROVE  ThriftInv'
<1>1. tunnelTo[s] \in ClientEntry /\ tunnelTo[s].refCount \in Nat
  BY BackedCalls DEF ThriftInv, ClientEntry, None
<1>2. /\ tunnelTo' \in [Service -> {None} \cup ClientEntry] /\ tunnelTo'[s] # None
      /\ tunnelTo'[s].refCount = tunnelTo[s].refCount - 1
      /\ tunnelTo'[s].tunnel = tunnelTo[s].tunnel
      /\ \A z \in Service : z # s => tunnelTo'[z] = tunnelTo[z]
      /\ tunnelTo[s] # None
  <2>1. tunnelTo \in [Service -> {None} \cup ClientEntry]
    BY DEF ThriftInv, Typed
  <2>2. tunnelTo' = [tunnelTo EXCEPT ![s] = [tunnelTo[s] EXCEPT !.refCount = @ - 1]]
    BY <2>1
  <2>3. /\ [tunnelTo[s] EXCEPT !.refCount = @ - 1] \in ClientEntry
        /\ [tunnelTo[s] EXCEPT !.refCount = @ - 1].refCount = tunnelTo[s].refCount - 1
        /\ [tunnelTo[s] EXCEPT !.refCount = @ - 1].tunnel = tunnelTo[s].tunnel
    BY <1>1 DEF ClientEntry
  <2>4. \A e \in ClientEntry : e # None
    BY DEF ClientEntry, None
  <2> QED BY <1>1, <2>1, <2>2, <2>3, <2>4
<1>3. Typed'
  BY <1>2, GoneCall DEF ThriftInv, Typed, serverVars
<1>4. Once'
  BY GoneCall, OnceShrinks DEF ThriftInv, serverVars, Once, Requested, Replied, Created
<1>5. Covered'
  BY <1>3, GoneCall, ClientShrinks DEF ThriftInv
<1>6. Linked'
  <2> SUFFICES ASSUME ~isClosed, NEW z \in Service, tunnelTo'[z] # None
               PROVE  tunnelTo'[z].tunnel \in tunnels /\ call'[tunnelTo'[z].tunnel].service = z
    BY DEF Linked
  <2>1. tunnelTo[z] # None /\ tunnelTo'[z].tunnel = tunnelTo[z].tunnel
    BY <1>2
  <2>2. tunnelTo[z].tunnel \in tunnels /\ call[tunnelTo[z].tunnel].service = z
    BY <2>1 DEF ThriftInv, Linked
  <2>3. tunnels \subseteq Call
    BY DEF ThriftInv, Typed
  <2> QED BY <2>1, <2>2, <2>3, GoneCall DEF SameServices
<1>7. OneAtATime'
  <2>1. \A z \in Service : tunnelTo[z] = None => tunnelTo'[z] = None
    BY <1>2
  <2> QED BY <2>1, GoneCall, OneAtATimeStays DEF ThriftInv
<1>8. Exact'
  <2> SUFFICES ASSUME ~isClosed, NEW z \in Serial
               PROVE  /\ tunnelTo'[z].refCount = Cardinality(UsersOf(z)')
                      /\ \A j \in UsersOf(z)' : call'[j].tunnel = tunnelTo'[z].tunnel
                      /\ TunnelsOf(z)' = IF UsersOf(z)' = {} THEN {} ELSE {tunnelTo'[z].tunnel}
    BY DEF Exact
  <2>1. /\ tunnelTo[z].refCount = Cardinality(UsersOf(z))
        /\ \A j \in UsersOf(z) : call[j].tunnel = tunnelTo[z].tunnel
        /\ TunnelsOf(z) = IF UsersOf(z) = {} THEN {} ELSE {tunnelTo[z].tunnel}
        /\ z \in Service /\ UsersOf(z) \subseteq Call
    BY DEF ThriftInv, Exact, Serial, UsersOf
  <2>2. TunnelsOf(z)' = TunnelsOf(z)
    <3>1. tunnels \subseteq Call
      BY DEF ThriftInv, Typed
    <3> QED BY <3>1, GoneCall DEF TunnelsOf, SameServices
  <2>3. \A j \in UsersOf(z) : call'[j].tunnel = call[j].tunnel
    BY <2>1, GoneCall
  <2>4. CASE z # s
    <3>1. UsersOf(z)' = UsersOf(z)
      BY <2>1, <2>4, GoneCall
    <3>2. tunnelTo'[z] = tunnelTo[z]
      BY <1>2, <2>1, <2>4
    <3> QED BY <2>1, <2>2, <2>3, <3>1, <3>2
  <2>5. CASE z = s
    <3>1. UsersOf(z)' = UsersOf(z) \ {k} /\ k \in UsersOf(z)
      BY <2>5, GoneCall
    <3>2. IsFiniteSet(UsersOf(z)) /\ Cardinality(UsersOf(z)) \in Nat
      BY <2>1, FiniteCalls
    <3>3. Cardinality(UsersOf(z)') = Cardinality(UsersOf(z)) - 1
      BY <3>1, <3>2, FS_RemoveElement
    <3>4. UsersOf(z)' # {} /\ UsersOf(z) # {}
      <4>1. Cardinality(UsersOf(z)') # 0
        BY <2>1, <2>5, <3>2, <3>3
      <4>2. UsersOf(z)' = {} => Cardinality(UsersOf(z)') = 0
        BY FS_EmptySet
      <4> QED BY <3>1, <4>1, <4>2
    <3>5. tunnelTo'[z].refCount = Cardinality(UsersOf(z)')
      BY <1>2, <2>1, <2>5, <3>3
    <3>6. tunnelTo'[z].tunnel = tunnelTo[z].tunnel
      BY <1>2, <2>5
    <3> QED BY <2>1, <2>2, <2>3, <3>1, <3>4, <3>5, <3>6
  <2> QED BY <2>4, <2>5
<1> QED BY <1>3, <1>4, <1>5, <1>6, <1>7, <1>8 DEF ThriftInv

LEMMA FewerByOne ==
  \A S, T, x : T \subseteq Call /\ x \in T /\ S \subseteq T \ {x}
    => Cardinality(S) <= Cardinality(T) - 1
<1> SUFFICES ASSUME NEW S, NEW T, NEW x, T \subseteq Call, x \in T, S \subseteq T \ {x}
             PROVE  Cardinality(S) <= Cardinality(T) - 1
  OBVIOUS
<1>1. IsFiniteSet(T) /\ T \ {x} \subseteq Call
  BY FiniteCalls
<1>2. Cardinality(T \ {x}) = Cardinality(T) - 1
  BY <1>1, FS_RemoveElement
<1>3. Cardinality(S) <= Cardinality(T \ {x})
  BY <1>1, SmallerCalls
<1> QED BY <1>2, <1>3

LEMMA MoreByOne ==
  \A S, T : \A x \in Call : T \subseteq Call /\ S \subseteq T \cup {x}
    => Cardinality(S) <= Cardinality(T) + 1
<1> SUFFICES ASSUME NEW S, NEW T, NEW x \in Call, T \subseteq Call, S \subseteq T \cup {x}
             PROVE  Cardinality(S) <= Cardinality(T) + 1
  OBVIOUS
<1>1. IsFiniteSet(T) /\ T \cup {x} \subseteq Call /\ Cardinality(T) \in Nat
  BY FiniteCalls
<1>2. Cardinality(T \cup {x}) = IF x \in T THEN Cardinality(T) ELSE Cardinality(T) + 1
  BY <1>1, FS_AddElement
<1>3. Cardinality(S) <= Cardinality(T \cup {x}) /\ Cardinality(S) \in Nat
      /\ Cardinality(T \cup {x}) \in Nat
  BY <1>1, SmallerCalls, FiniteCalls
<1> QED BY <1>1, <1>2, <1>3

\* The last client of the tunnel closes it and asks the server to stop.
LEMMA LastLeavesKeeps ==
  ASSUME ThriftInv, NEW k \in Call, Live(k), SetStage(k, "gone"),
         NEW s \in Service, s = call[k].service, tunnelTo[s].refCount = 1,
         tunnelTo' = [tunnelTo EXCEPT ![s] = None],
         tunnels' = tunnels \ {tunnelTo[s].tunnel},
         Post(<<Request("stop", k)>>),
         UNCHANGED <<isClosed, toClient, serverVars>>
  PROVE  ThriftInv'
<1> DEFINE m == Request("stop", k)
<1>0. tunnelTo[s] # None /\ tunnelTo[s].tunnel \in Call
  BY BackedCalls DEF ThriftInv, ClientEntry, None
<1>1. PICK t \in Call : t = tunnelTo[s].tunnel /\ tunnelTo[s] # None /\ tunnels' = tunnels \ {t}
  BY <1>0
<1>2. /\ tunnelTo' \in [Service -> {None} \cup ClientEntry] /\ tunnelTo'[s] = None
      /\ \A z \in Service : z # s => tunnelTo'[z] = tunnelTo[z]
  BY DEF ThriftInv, Typed
<1>3. /\ m \in RequestType /\ m.call = k /\ m.command = "stop" /\ m.service = s
  BY RequestIsTyped DEF ThriftInv
<1>4. /\ toServer' \in Seq(RequestType) /\ IsInjective(toServer')
      /\ ToSet(toServer') \subseteq ToSet(toServer) \cup {m}
      /\ isClosed => toServer' = toServer
  <2>1. IsInjective(toServer) /\ m \notin ToSet(toServer) /\ isClosed \in BOOLEAN
    BY <1>3, GoneCall DEF ThriftInv, Once, Requested, Typed
  <2> QED BY <1>3, <2>1, RequestPosted DEF ThriftInv, Typed
<1> HIDE DEF m
<1>5. Typed'
  BY <1>2, <1>4, GoneCall DEF ThriftInv, Typed, serverVars
<1>6. Created' /\ Replied' /\ Held' /\ Opened' /\ Own'
  BY GoneCall, OnceShrinks DEF ThriftInv, serverVars, Once, Replied, Created
<1>7. Requested'
  <2>1. ASSUME NEW x \in ToSet(toServer)
        PROVE  /\ x.service = call'[x.call].service
               /\ x.command = "stop" => call'[x.call].stage = "gone"
               /\ x.command = "start" =>
                    /\ call'[x.call].stage \in {"starting", "failed"}
                    /\ \A a \in ToSet(toClient') : a.call # x.call
                    /\ \A z \in Service : x.call \notin holders'[z]
    <3>1. x.call \in Call /\ x.call # k
      BY GoneCall, ElementTypes DEF ThriftInv
    <3>2. /\ x.service = call[x.call].service
          /\ x.command = "stop" => call[x.call].stage = "gone"
          /\ x.command = "start" =>
               /\ call[x.call].stage \in {"starting", "failed"}
               /\ \A a \in ToSet(toClient) : a.call # x.call
               /\ \A z \in Service : x.call \notin holders[z]
      BY DEF ThriftInv, Once, Requested
    <3> QED BY GoneCall, <3>1, <3>2 DEF serverVars
  <2>2. /\ m.service = call'[m.call].service
        /\ m.command # "start" /\ call'[m.call].stage = "gone"
    BY <1>3, GoneCall DEF SameServices
  <2> QED BY <1>4, <2>1, <2>2 DEF Requested
<1>8. tunnels \subseteq Call
  BY DEF ThriftInv, Typed
<1>9. Covered'
  <2>1. CASE isClosed
    BY <1>4, <1>5, <2>1, GoneCall, ClientShrinks DEF ThriftInv
  <2>2. CASE ~isClosed
    <3> SUFFICES ASSUME NEW z \in Service, "exit" \notin Faults[z] PROVE CoveredFor(z)'
      BY DEF Covered
    <3>1. CoveredFor(z)
      BY DEF ThriftInv, Covered
    <3>2. Backed(z)' \subseteq Backed(z)
      BY <1>1, <1>8, GoneCall DEF Backed, Granted, SameServices
    <3>3. CASE z # s
      <4>1. Stops(z)' \subseteq Stops(z)
        BY <1>3, <1>4, <3>3 DEF Stops
      <4> QED BY <1>5, <3>1, <3>2, <4>1, CoverShrinks DEF ThriftInv, serverVars
    <3>4. CASE z = s
      <4>1. t \in tunnels /\ call[t].service = s
        BY <1>1, <2>2 DEF ThriftInv, Linked
      <4>2. t \in Backed(z)
        BY <3>4, <4>1, <1>1 DEF Backed
      <4>3. call[t].stage \notin {"starting", "failed", "tunnelling"}
        BY <4>1 DEF ThriftInv, Once, Opened
      <4>4. ~Granted(t)
        <5>1. Answer(t, TRUE).call = t
          BY DEF Answer
        <5> QED BY <4>3, <5>1 DEF Granted, ThriftInv, Once, Replied
      <4>5. t \notin (Backed(z)')
        <5>1. ~Granted(t)' /\ call'[t].stage # "tunnelling" /\ t \notin tunnels'
          BY <1>1, <4>3, <4>4, GoneCall DEF Granted
        <5> QED BY <5>1 DEF Backed
      <4>6. Stops(z)' \subseteq Stops(z) \cup {k}
        BY <1>3, <1>4 DEF Stops
      <4>7. Backed(z) \subseteq Call /\ Stops(z) \subseteq Call /\ Starting(z) \subseteq Call
            /\ holders[z] \subseteq Call /\ Extra(z) \in Nat
            /\ Backed(z)' \subseteq Call /\ Stops(z)' \subseteq Call
        BY BackedCalls DEF ThriftInv, Backed, Stops
      <4>8. /\ Cardinality(Backed(z)') <= Cardinality(Backed(z)) - 1
            /\ Cardinality(Stops(z)') <= Cardinality(Stops(z)) + 1
        BY <3>2, <4>2, <4>5, <4>6, <4>7, FewerByOne, MoreByOne
      <4>9. /\ Cardinality(Backed(z)') \in Nat /\ Cardinality(Stops(z)') \in Nat
            /\ Cardinality(Backed(z)) \in Nat /\ Cardinality(Stops(z)) \in Nat
            /\ Cardinality(Starting(z)) \in Nat /\ Cardinality(holders[z]) \in Nat
        BY <4>7, FiniteCalls
      <4>10. Starting(z)' = Starting(z) /\ Extra(z)' = Extra(z) /\ holders'[z] = holders[z]
             /\ servers'[z] = servers[z] /\ ready'[z] = ready[z]
        BY DEF serverVars, Starting, Extra
      <4>11. Cardinality(Backed(z)') + Cardinality(Stops(z)') + Cardinality(Starting(z)')
               <= Cardinality(holders'[z]) + Extra(z)'
        BY <3>1, <4>7, <4>8, <4>9, <4>10 DEF CoveredFor
      <4>12. ready[z]
        BY <3>1, <4>2 DEF CoveredFor
      <4> QED BY <3>1, <4>10, <4>11, <4>12 DEF CoveredFor
    <3> QED BY <3>3, <3>4
  <2> QED BY <2>1, <2>2 DEF ThriftInv, Typed
<1>10. Linked'
  <2> SUFFICES ASSUME ~isClosed, NEW z \in Service, tunnelTo'[z] # None
               PROVE  tunnelTo'[z].tunnel \in tunnels' /\ call'[tunnelTo'[z].tunnel].service = z
    BY DEF Linked
  <2>1. z # s /\ tunnelTo'[z] = tunnelTo[z]
    BY <1>2
  <2>2. tunnelTo[z].tunnel \in tunnels /\ call[tunnelTo[z].tunnel].service = z
    BY <2>1 DEF ThriftInv, Linked
  <2>3. call[t].service = s
    BY <1>1 DEF ThriftInv, Linked
  <2> QED BY <1>1, <1>8, <2>1, <2>2, <2>3, GoneCall DEF SameServices
<1>11. OneAtATime'
  <2>1. \A z \in Service : tunnelTo[z] = None => tunnelTo'[z] = None
    BY <1>2
  <2> QED BY <2>1, GoneCall, OneAtATimeStays DEF ThriftInv
<1>12. Exact'
  <2> SUFFICES ASSUME ~isClosed, NEW z \in Serial
               PROVE  /\ tunnelTo'[z].refCount = Cardinality(UsersOf(z)')
                      /\ \A j \in UsersOf(z)' : call'[j].tunnel = tunnelTo'[z].tunnel
                      /\ TunnelsOf(z)' = IF UsersOf(z)' = {} THEN {} ELSE {tunnelTo'[z].tunnel}
    BY DEF Exact
  <2>1. /\ tunnelTo[z].refCount = Cardinality(UsersOf(z))
        /\ \A j \in UsersOf(z) : call[j].tunnel = tunnelTo[z].tunnel
        /\ TunnelsOf(z) = IF UsersOf(z) = {} THEN {} ELSE {tunnelTo[z].tunnel}
        /\ z \in Service /\ UsersOf(z) \subseteq Call
    BY DEF ThriftInv, Exact, Serial, UsersOf
  <2>2. \A j \in UsersOf(z) : call'[j].tunnel = call[j].tunnel
    BY <2>1, GoneCall
  <2>3. TunnelsOf(z)' = TunnelsOf(z) \ {t}
    BY <1>1, <1>8, GoneCall DEF TunnelsOf, SameServices
  <2>4. CASE z # s
    <3>1. UsersOf(z)' = UsersOf(z)
      BY <2>1, <2>4, GoneCall
    <3>2. tunnelTo'[z] = tunnelTo[z]
      BY <1>2, <2>1, <2>4
    <3>3. t \notin TunnelsOf(z)
      <4>1. call[t].service = s
        BY <1>1 DEF ThriftInv, Linked
      <4> QED BY <2>4, <4>1 DEF TunnelsOf
    <3>4. TunnelsOf(z)' = TunnelsOf(z)
      BY <2>3, <3>3
    <3> QED BY <2>1, <2>2, <3>1, <3>2, <3>4
  <2>5. CASE z = s
    <3>1. UsersOf(z)' = UsersOf(z) \ {k} /\ k \in UsersOf(z)
      BY <2>5, GoneCall
    <3>2. IsFiniteSet(UsersOf(z)) /\ Cardinality(UsersOf(z)) = 1
      BY <2>1, <2>5, FiniteCalls
    <3>3. Cardinality(UsersOf(z)') = 0 /\ IsFiniteSet(UsersOf(z)')
      <4>1. /\ IsFiniteSet(UsersOf(z) \ {k})
            /\ Cardinality(UsersOf(z) \ {k}) = Cardinality(UsersOf(z)) - 1
        BY <3>1, <3>2, FS_RemoveElement
      <4> QED BY <3>1, <3>2, <4>1
    <3>4. UsersOf(z)' = {}
      BY <3>3, FS_EmptySet
    <3>5. TunnelsOf(z) \subseteq {t}
      BY <1>1, <2>1, <2>5
    <3>6. TunnelsOf(z)' = {}
      BY <2>3, <3>5
    <3>7. tunnelTo'[z].refCount = 0
      BY <1>2, <2>5 DEF None
    <3> QED BY <3>3, <3>4, <3>6, <3>7
  <2> QED BY <2>4, <2>5
<1> QED BY <1>5, <1>6, <1>7, <1>9, <1>10, <1>11, <1>12 DEF ThriftInv, Once

LEMMA ConnectionClosesKeeps ==
  ASSUME ThriftInv, NEW k \in Call, ConnectionCloses(k) PROVE ThriftInv'
<1>1. PICK s \in Service : s = call[k].service
  BY DEF ThriftInv, Typed, CallRecord
<1>2. /\ Live(k) /\ SetStage(k, "gone") /\ CloseTunnel(k, s)
      /\ UNCHANGED <<isClosed, toClient, serverVars>>
  BY <1>1 DEF ConnectionCloses
<1>3. CASE tunnelTo[s] = None /\ UNCHANGED <<tunnelTo, tunnels, toServer>>
  BY <1>1, <1>2, <1>3, FindsNoneKeeps
<1>4. CASE /\ tunnelTo[s].refCount = 1
           /\ tunnelTo' = [tunnelTo EXCEPT ![s] = None]
           /\ tunnels' = tunnels \ {tunnelTo[s].tunnel}
           /\ Post(<<Request("stop", k)>>)
  BY <1>1, <1>2, <1>4, LastLeavesKeeps
<1>5. CASE /\ tunnelTo[s].refCount > 1
           /\ tunnelTo' = [tunnelTo EXCEPT ![s].refCount = @ - 1]
           /\ UNCHANGED <<tunnels, toServer>>
  BY <1>1, <1>2, <1>5, LeavesKeeps
<1> QED BY <1>2, <1>3, <1>4, <1>5 DEF CloseTunnel

-----------------------------------------------------------------------------
(* The steps of the server *)

LEMMA ClientStays ==
  ASSUME ThriftInv, UNCHANGED clientVars
  PROVE  /\ SameServices /\ Linked' /\ OneAtATime' /\ Exact' /\ Opened' /\ Own'
         /\ \A k \in Call : Moves(call[k].stage, call'[k].stage)
<1>1. SameServices /\ \A k \in Call : Moves(call[k].stage, call'[k].stage)
  BY DEF clientVars, SameServices, Moves
<1>2. Linked'
  BY <1>1, LinkedStays DEF ThriftInv, clientVars
<1>3. OneAtATime'
  <2>1. \A k \in Call : Pending(k)' => Pending(k)
    BY DEF clientVars, Pending
  <2> QED BY <1>1, <2>1, OneAtATimeStays DEF ThriftInv, clientVars
<1>4. Exact'
  <2>1. \A k \in Call : (Live(k)' <=> Live(k)) /\ call'[k].tunnel = call[k].tunnel
    BY DEF clientVars, Live
  <2> QED BY <1>1, <2>1, ExactStays DEF ThriftInv, clientVars
<1>5. Opened' /\ Own'
  BY DEF ThriftInv, Once, Opened, Own, clientVars
<1> QED BY <1>1, <1>2, <1>3, <1>4, <1>5

\* The service that a step of the server leaves alone.
LEMMA OtherCovered ==
  ASSUME Typed, Typed', Covered, UNCHANGED clientVars, NEW z \in Service, "exit" \notin Faults[z],
         creating'[z] = creating[z], holders'[z] = holders[z],
         servers'[z] = servers[z], ready'[z] = ready[z],
         \A x \in ToSet(toServer') : x.service = z => x \in ToSet(toServer),
         \A k \in Call : call[k].service = z /\ Granted(k)' => Granted(k)
  PROVE  CoveredFor(z)'
<1>1. Backed(z)' \subseteq Backed(z)
  BY DEF Backed, clientVars
<1>2. Stops(z)' \subseteq Stops(z)
  BY DEF Stops
<1> QED BY <1>1, <1>2, CoverShrinks DEF Covered

\* What is left in the queue when the first request was taken from it.
LEMMA HandledRequest ==
  ASSUME ThriftInv, toServer # <<>>, toServer' = Tail(toServer), UNCHANGED clientVars
  PROVE  LET m == Head(toServer) IN
         /\ toServer' \in Seq(RequestType) /\ IsInjective(toServer')
         /\ ToSet(toServer') = ToSet(toServer) \ {m}
         /\ m \in ToSet(toServer) /\ m \in RequestType
         /\ m.call \in Call /\ m.service \in Service /\ m.service = call[m.call].service
<1> DEFINE m == Head(toServer)
<1>1. toServer \in Seq(RequestType) /\ IsInjective(toServer)
  BY DEF ThriftInv, Typed, Once, Requested
<1>2. /\ toServer' \in Seq(RequestType) /\ IsInjective(toServer')
      /\ ToSet(toServer') = ToSet(toServer) \ {m}
      /\ m \in ToSet(toServer) /\ m \in RequestType
  BY <1>1, SetOfTail
<1> HIDE DEF m
<1>3. m.call \in Call /\ m.service \in Service
  BY <1>2 DEF RequestType
<1>4. m.service = call[m.call].service
  BY <1>2 DEF ThriftInv, Once, Requested
<1> QED BY <1>2, <1>3, <1>4 DEF m

\* The requests that are left, when only the one for k was answered or accepted.
LEMMA RequestedStays ==
  ASSUME ThriftInv, UNCHANGED clientVars, IsInjective(toServer'),
         ToSet(toServer') \subseteq ToSet(toServer),
         \A x \in ToSet(toServer') : x.command = "start" =>
           /\ \A a \in ToSet(toClient') : a.call # x.call
           /\ \A z \in Service : x.call \notin holders'[z]
  PROVE  Requested'
  BY DEF ThriftInv, Once, Requested, clientVars

LEMMA SameRequest ==
  \A x, y \in RequestType :
    x.command = y.command /\ x.call = y.call /\ x.service = y.service => x = y
  BY DEF RequestType

\* Answers to calls that had none.
LEMMA RepliedGrows ==
  ASSUME ThriftInv, UNCHANGED clientVars, NEW New, IsInjective(toClient'),
         ToSet(toClient') = ToSet(toClient) \cup New,
         \A a \in New : /\ call[a.call].stage \in {"starting", "failed"}
                        /\ \A b \in ToSet(toClient) : b.call # a.call
                        /\ \A b \in New : b.call = a.call => b = a
  PROVE  Replied'
<1> SUFFICES ASSUME NEW a \in ToSet(toClient')
             PROVE  /\ call[a.call].stage \in {"starting", "failed"}
                    /\ \A b \in ToSet(toClient') : b.call = a.call => b = a
  BY DEF Replied, clientVars
<1>1. \A b \in ToSet(toClient) :
        /\ call[b.call].stage \in {"starting", "failed"}
        /\ \A c \in ToSet(toClient) : c.call = b.call => c = b
  BY DEF ThriftInv, Once, Replied
<1>2. CASE a \in ToSet(toClient)
  BY <1>1, <1>2
<1>3. CASE a \in New
  BY <1>3
<1> QED BY <1>2, <1>3

LEMMA AnswerAppended ==
  ASSUME ThriftInv, NEW answer \in AnswerType, answer \notin ToSet(toClient),
         toClient' = Append(toClient, answer)
  PROVE  /\ toClient' \in Seq(AnswerType) /\ IsInjective(toClient')
         /\ ToSet(toClient') = ToSet(toClient) \cup {answer}
<1>1. toClient \in Seq(AnswerType) /\ IsInjective(toClient)
  BY DEF ThriftInv, Typed, Once, Replied
<1>2. \A S : \A c \in Seq(S), a \in S :
        /\ Append(c, a) \in Seq(S) /\ ToSet(Append(c, a)) = ToSet(c) \cup {a}
        /\ IsInjective(c) /\ a \notin ToSet(c) => IsInjective(Append(c, a))
  BY SetOfAppend
<1> QED BY <1>1, <1>2, ZenonT(40)

\* A start for a server in the map is counted and answered.
LEMMA CountedKeeps ==
  ASSUME ThriftInv, UNCHANGED clientVars, NEW m, m = Head(toServer),
         toServer # <<>>, toServer' = Tail(toServer), m.command = "start",
         NEW s \in Service, s = m.service, NEW k \in Call, k = m.call,
         servers[s] # None, servers' = [servers EXCEPT ![s].refCount = @ + 1],
         NEW answer \in AnswerType, answer = Answer(k, TRUE), answer.call = k,
         toClient' = Append(toClient, answer),
         UNCHANGED <<creating, holders, ready>>
  PROVE  ThriftInv'
<1>1. /\ toServer' \in Seq(RequestType) /\ IsInjective(toServer')
      /\ ToSet(toServer') = ToSet(toServer) \ {m}
      /\ m \in ToSet(toServer) /\ m \in RequestType /\ s = call[k].service
  BY HandledRequest
<1>2. /\ \A a \in ToSet(toClient) : a.call # k
      /\ \A z \in Service : k \notin holders[z]
      /\ call[k].stage \in {"starting", "failed"}
  BY <1>1 DEF ThriftInv, Once, Requested
<1>3. \A x \in ToSet(toServer') : x.command = "start" => x.call # k
  <2> SUFFICES ASSUME NEW x \in ToSet(toServer'), x.command = "start", x.call = k PROVE FALSE
    OBVIOUS
  <2>1. x \in RequestType /\ x \in ToSet(toServer)
    BY <1>1, ElementTypes DEF ThriftInv
  <2>2. x.service = s
    BY <1>1, <2>1 DEF ThriftInv, Once, Requested
  <2>3. x = m
    BY <1>1, <2>1, <2>2, SameRequest
  <2> QED BY <1>1, <2>3
<1>4. \A a \in ToSet(toClient) : a.call # answer.call
  BY <1>2
<1>5. /\ toClient' \in Seq(AnswerType) /\ IsInjective(toClient')
      /\ ToSet(toClient') = ToSet(toClient) \cup {answer}
  <2>1. answer \notin ToSet(toClient)
    BY <1>4
  <2> QED BY <2>1, AnswerAppended
<1>6. servers[s] \in ServerEntry /\ servers[s].refCount \in Nat
  BY BackedCalls DEF ThriftInv, ServerEntry
<1>7. /\ servers' \in [Service -> {None} \cup ServerEntry] /\ servers'[s] # None
      /\ servers'[s].refCount = servers[s].refCount + 1
      /\ servers'[s].server = servers[s].server
      /\ \A z \in Service : z # s => servers'[z] = servers[z]
  <2>1. servers \in [Service -> {None} \cup ServerEntry]
    BY DEF ThriftInv, Typed
  <2>2. servers' = [servers EXCEPT ![s] = [servers[s] EXCEPT !.refCount = @ + 1]]
    BY <2>1
  <2>3. /\ [servers[s] EXCEPT !.refCount = @ + 1] \in ServerEntry
        /\ [servers[s] EXCEPT !.refCount = @ + 1].refCount = servers[s].refCount + 1
        /\ [servers[s] EXCEPT !.refCount = @ + 1].server = servers[s].server
    BY <1>6 DEF ServerEntry
  <2>4. \A e \in ServerEntry : e # None
    BY DEF ServerEntry, None
  <2> QED BY <2>1, <2>2, <2>3, <2>4
<1>8. Typed'
  BY <1>1, <1>5, <1>7 DEF ThriftInv, Typed, clientVars
<1>9. Requested'
  <2>1. \A x \in ToSet(toServer') : x.command = "start" =>
          /\ \A a \in ToSet(toClient) : a.call # x.call
          /\ \A z \in Service : x.call \notin holders[z]
    BY <1>1 DEF ThriftInv, Once, Requested
  <2>2. \A x \in ToSet(toServer') : x.command = "start" =>
          \A a \in ToSet(toClient') : a.call # x.call
    BY <1>3, <1>4, <1>5, <2>1
  <2> QED BY <1>1, <2>1, <2>2, RequestedStays
<1>10. Created'
  <2> SUFFICES ASSUME NEW z \in Service
               PROVE  /\ IsInjective(creating[z])
                      /\ servers'[z] # None => creating[z] = <<>>
                      /\ \A j \in ToSet(creating[z]) :
                           /\ call[j].service = z /\ j \in holders[z]
                           /\ call[j].stage \in {"starting", "failed"}
                           /\ \A a \in ToSet(toClient') : a.call # j
    BY ZenonT(40) DEF Created, clientVars
  <2>1. /\ IsInjective(creating[z])
        /\ servers[z] # None => creating[z] = <<>>
        /\ \A j \in ToSet(creating[z]) :
             /\ call[j].service = z /\ j \in holders[z]
             /\ call[j].stage \in {"starting", "failed"}
             /\ \A a \in ToSet(toClient) : a.call # j
    BY DEF ThriftInv, Once, Created
  <2>2. servers'[z] # None => creating[z] = <<>>
    BY <1>7, <2>1
  <2>3. \A j \in ToSet(creating[z]) : \A a \in ToSet(toClient') : a.call # j
    <3> SUFFICES ASSUME NEW j \in ToSet(creating[z]), NEW a \in ToSet(toClient') PROVE a.call # j
      OBVIOUS
    <3>1. a \in ToSet(toClient) \/ a = answer
      BY <1>5
    <3>2. j # k
      BY <1>2, <2>1
    <3> QED BY <2>1, <3>1, <3>2
  <2> QED BY <2>1, <2>2, <2>3
<1>11. Replied'
  <2> DEFINE New == {answer}
  <2>1. ToSet(toClient') = ToSet(toClient) \cup New
    BY <1>5
  <2>2. \A a \in New : /\ call[a.call].stage \in {"starting", "failed"}
                       /\ \A b \in ToSet(toClient) : b.call # a.call
                       /\ \A b \in New : b.call = a.call => b = a
    BY <1>2
  <2> HIDE DEF New
  <2> QED BY <1>5, <2>1, <2>2, RepliedGrows
<1>12. Held'
  BY DEF ThriftInv, Once, Held, clientVars
<1>13. Covered'
  <2> SUFFICES ASSUME NEW z \in Service, "exit" \notin Faults[z] PROVE CoveredFor(z)'
    BY DEF Covered
  <2>1. \A j \in Call : Granted(j)' => Granted(j) \/ j = k
    <3>1. \A j \in Call : Answer(j, TRUE).call = j
      BY DEF Answer
    <3> QED BY <1>4, <1>5, <3>1 DEF Granted
  <2>2. CASE z # s
    BY <1>1, <1>7, <1>8, <2>1, <2>2, OtherCovered DEF ThriftInv
  <2>3. CASE z = s
    <3>1. CoveredFor(z)
      BY DEF ThriftInv, Covered
    <3>2. Backed(z)' \subseteq Backed(z) \cup {k} /\ Stops(z)' \subseteq Stops(z)
      BY <1>1, <2>1 DEF Backed, Stops, clientVars
    <3>3. Starting(z)' = Starting(z) /\ Extra(z)' = Extra(z) + 1
      BY <1>6, <1>7, <2>3 DEF Starting, Extra
    <3>4. /\ Backed(z) \subseteq Call /\ Stops(z) \subseteq Call /\ Starting(z) \subseteq Call
          /\ holders[z] \subseteq Call /\ Extra(z) \in Nat
          /\ Backed(z)' \subseteq Call /\ Stops(z)' \subseteq Call
      BY BackedCalls DEF ThriftInv, Backed, Stops
    <3>5. /\ Cardinality(Backed(z)') <= Cardinality(Backed(z)) + 1
          /\ Cardinality(Stops(z)') <= Cardinality(Stops(z))
      BY <3>2, <3>4, MoreByOne, SmallerCalls
    <3>6. /\ Cardinality(Backed(z)') \in Nat /\ Cardinality(Stops(z)') \in Nat
          /\ Cardinality(Backed(z)) \in Nat /\ Cardinality(Stops(z)) \in Nat
          /\ Cardinality(Starting(z)) \in Nat /\ Cardinality(holders[z]) \in Nat
      BY <3>4, FiniteCalls
    <3>7. Cardinality(Backed(z)') + Cardinality(Stops(z)') + Cardinality(Starting(z)')
            <= Cardinality(holders[z]) + Extra(z)'
      BY SMTT(30), <3>1, <3>3, <3>4, <3>5, <3>6 DEF CoveredFor
    <3>8. ready[z] /\ servers'[z].server \in holders[z]
      BY <1>7, <2>3, <3>1 DEF CoveredFor
    <3> QED BY <3>7, <3>8 DEF CoveredFor
  <2> QED BY <2>2, <2>3
<1> QED BY <1>8, <1>9, <1>10, <1>11, <1>12, <1>13, ClientStays DEF ThriftInv, Once

\* A start for a server that is not in the map awaits its process.
LEMMA AwaitedKeeps ==
  ASSUME ThriftInv, UNCHANGED clientVars, NEW m, m = Head(toServer),
         toServer # <<>>, toServer' = Tail(toServer), m.command = "start",
         NEW s \in Service, s = m.service, NEW k \in Call, k = m.call,
         servers[s] = None,
         creating' = [creating EXCEPT ![s] = Append(@, k)],
         holders' = [holders EXCEPT ![s] = @ \cup {k}],
         UNCHANGED <<servers, toClient, ready>>
  PROVE  ThriftInv'
<1>1. /\ toServer' \in Seq(RequestType) /\ IsInjective(toServer')
      /\ ToSet(toServer') = ToSet(toServer) \ {m}
      /\ m \in ToSet(toServer) /\ m \in RequestType /\ s = call[k].service
  BY HandledRequest
<1>2. /\ \A a \in ToSet(toClient) : a.call # k
      /\ \A z \in Service : k \notin holders[z]
      /\ call[k].stage \in {"starting", "failed"}
  BY <1>1 DEF ThriftInv, Once, Requested
<1>3. \A x \in ToSet(toServer') : x.command = "start" => x.call # k
  <2> SUFFICES ASSUME NEW x \in ToSet(toServer'), x.command = "start", x.call = k PROVE FALSE
    OBVIOUS
  <2>1. x \in RequestType /\ x \in ToSet(toServer)
    BY <1>1, ElementTypes DEF ThriftInv
  <2>2. x.service = s
    BY <1>1, <2>1 DEF ThriftInv, Once, Requested
  <2>3. x = m
    BY <1>1, <2>1, <2>2, SameRequest
  <2> QED BY <1>1, <2>3
<1>4. k \notin ToSet(creating[s]) /\ creating[s] \in Seq(Call) /\ IsInjective(creating[s])
  BY <1>2 DEF ThriftInv, Typed, Once, Created
<1>5. /\ creating' \in [Service -> Seq(Call)] /\ creating'[s] = Append(creating[s], k)
      /\ ToSet(creating'[s]) = ToSet(creating[s]) \cup {k} /\ IsInjective(creating'[s])
      /\ \A z \in Service : z # s => creating'[z] = creating[z]
  <2>1. /\ Append(creating[s], k) \in Seq(Call)
        /\ ToSet(Append(creating[s], k)) = ToSet(creating[s]) \cup {k}
        /\ IsInjective(Append(creating[s], k))
    BY <1>4, SetOfAppend
  <2>2. creating \in [Service -> Seq(Call)]
    BY DEF ThriftInv, Typed
  <2> QED BY <2>1, <2>2
<1>6. /\ holders' \in [Service -> SUBSET Call] /\ holders'[s] = holders[s] \cup {k}
      /\ \A z \in Service : z # s => holders'[z] = holders[z]
  BY DEF ThriftInv, Typed
<1>7. Typed'
  BY <1>1, <1>5, <1>6 DEF ThriftInv, Typed, clientVars
<1>8. Requested'
  <2>1. \A x \in ToSet(toServer') : x.command = "start" =>
          /\ \A a \in ToSet(toClient) : a.call # x.call
          /\ \A z \in Service : x.call \notin holders[z]
    BY <1>1 DEF ThriftInv, Once, Requested
  <2>2. \A x \in ToSet(toServer') : x.command = "start" =>
          \A z \in Service : x.call \notin holders'[z]
    BY <1>3, <1>6, <2>1
  <2>3. ToSet(toServer') \subseteq ToSet(toServer)
    BY <1>1
  <2> QED BY <1>1, <2>1, <2>2, <2>3, RequestedStays
<1>9. Created'
  <2> SUFFICES ASSUME NEW z \in Service
               PROVE  /\ IsInjective(creating'[z])
                      /\ servers[z] # None => creating'[z] = <<>>
                      /\ \A j \in ToSet(creating'[z]) :
                           /\ call[j].service = z /\ j \in holders'[z]
                           /\ call[j].stage \in {"starting", "failed"}
                           /\ \A a \in ToSet(toClient) : a.call # j
    BY ZenonT(40) DEF Created, clientVars
  <2>1. /\ IsInjective(creating[z])
        /\ servers[z] # None => creating[z] = <<>>
        /\ \A j \in ToSet(creating[z]) :
             /\ call[j].service = z /\ j \in holders[z]
             /\ call[j].stage \in {"starting", "failed"}
             /\ \A a \in ToSet(toClient) : a.call # j
    BY DEF ThriftInv, Once, Created
  <2>2. CASE z # s
    BY <1>5, <1>6, <2>1, <2>2
  <2>3. CASE z = s
    <3>1. \A j \in ToSet(creating'[z]) :
            /\ call[j].service = z /\ j \in holders'[z]
            /\ call[j].stage \in {"starting", "failed"}
            /\ \A a \in ToSet(toClient) : a.call # j
      <4>1. \A j \in ToSet(creating[s]) :
              /\ call[j].service = s /\ j \in holders'[s]
              /\ call[j].stage \in {"starting", "failed"}
              /\ \A a \in ToSet(toClient) : a.call # j
        BY <1>6, <2>1, <2>3
      <4>2. /\ call[k].service = s /\ k \in holders'[s]
            /\ call[k].stage \in {"starting", "failed"}
            /\ \A a \in ToSet(toClient) : a.call # k
        BY <1>1, <1>2, <1>6
      <4>3. ToSet(creating'[s]) = ToSet(creating[s]) \cup {k}
        BY <1>5
      <4> QED BY <2>3, <4>1, <4>2, <4>3
    <3> QED BY <1>5, <2>3, <3>1
  <2> QED BY <2>2, <2>3
<1>10. Replied'
  BY DEF ThriftInv, Once, Replied, clientVars
<1>11. Held'
  <2>1. \A z \in Service : \A j \in holders[z] : call[j].stage # "idle"
    BY DEF ThriftInv, Once, Held
  <2>2. \A z \in Service : \A j \in holders'[z] : call[j].stage # "idle"
    BY <1>2, <1>6, <2>1
  <2> QED BY <2>2 DEF Held, clientVars
<1>12. Covered'
  <2> SUFFICES ASSUME NEW z \in Service, "exit" \notin Faults[z] PROVE CoveredFor(z)'
    BY DEF Covered
  <2>1. \A j \in Call : Granted(j)' => Granted(j)
    BY DEF Granted
  <2>2. CASE z # s
    BY <1>1, <1>5, <1>6, <1>7, <2>1, <2>2, OtherCovered DEF ThriftInv
  <2>3. CASE z = s
    <3>1. CoveredFor(z)
      BY DEF ThriftInv, Covered
    <3>2. Backed(z)' \subseteq Backed(z) /\ Stops(z)' \subseteq Stops(z)
      BY <1>1, <2>1 DEF Backed, Stops, clientVars
    <3>3. Starting(z)' \subseteq Starting(z) \cup {k} /\ Extra(z)' = Extra(z)
      BY <1>5, <2>3 DEF Starting, Extra
    <3>4. /\ Backed(z) \subseteq Call /\ Stops(z) \subseteq Call /\ Starting(z) \subseteq Call
          /\ holders[z] \subseteq Call /\ Extra(z) \in Nat
          /\ Backed(z)' \subseteq Call /\ Stops(z)' \subseteq Call
      BY BackedCalls DEF ThriftInv, Backed, Stops
    <3>5. Starting(z)' \subseteq Call
      BY <3>3, <3>4
    <3>6. /\ Cardinality(Backed(z)') <= Cardinality(Backed(z))
          /\ Cardinality(Stops(z)') <= Cardinality(Stops(z))
          /\ Cardinality(Starting(z)') <= Cardinality(Starting(z)) + 1
      BY <3>2, <3>3, <3>4, MoreByOne, SmallerCalls
    <3>7. Cardinality(holders'[z]) = Cardinality(holders[z]) + 1
      BY ZenonT(40), <1>2, <1>6, <2>3, <3>4, FiniteCalls, FS_AddElement
    <3>8. /\ Cardinality(Backed(z)') \in Nat /\ Cardinality(Stops(z)') \in Nat
          /\ Cardinality(Backed(z)) \in Nat /\ Cardinality(Stops(z)) \in Nat
          /\ Cardinality(Starting(z)) \in Nat /\ Cardinality(holders[z]) \in Nat
          /\ Cardinality(Starting(z)') \in Nat
      BY <3>4, <3>5, FiniteCalls
    <3>9. Cardinality(Backed(z)') + Cardinality(Stops(z)') + Cardinality(Starting(z)')
            <= Cardinality(holders'[z]) + Extra(z)'
      BY SMTT(30), <3>1, <3>3, <3>4, <3>6, <3>7, <3>8 DEF CoveredFor
    <3>10. Backed(z)' \cup Stops(z)' # {} => ready[z]
      BY <3>1, <3>2 DEF CoveredFor
    <3> QED BY <2>3, <3>9, <3>10 DEF CoveredFor
  <2> QED BY <2>2, <2>3
<1> QED BY <1>7, <1>8, <1>9, <1>10, <1>11, <1>12, ClientStays DEF ThriftInv, Once

\* What is left of the requests and the subscriptions when a stop was handled.
LEMMA StopsOnce ==
  ASSUME ThriftInv, UNCHANGED clientVars, NEW m, m = Head(toServer),
         toServer # <<>>, toServer' = Tail(toServer), m.command = "stop",
         NEW s \in Service, s = m.service, NEW k \in Call, k = m.call,
         UNCHANGED <<creating, toClient>>,
         \A z \in Service : /\ holders'[z] \subseteq holders[z]
                            /\ creating[z] # <<>> => holders'[z] = holders[z]
                            /\ servers'[z] # None => servers[z] # None
  PROVE  /\ toServer' \in Seq(RequestType) /\ Once'
         /\ \A z \in Service : z # s => Stops(z)' = Stops(z)
         /\ k \in Stops(s) /\ Stops(s)' \subseteq Stops(s) \ {k}
         /\ \A z \in Service : Backed(z)' = Backed(z) /\ Starting(z)' = Starting(z)
<1>1. /\ toServer' \in Seq(RequestType) /\ IsInjective(toServer')
      /\ ToSet(toServer') = ToSet(toServer) \ {m}
      /\ m \in ToSet(toServer) /\ m \in RequestType /\ s = call[k].service
  BY HandledRequest
<1>2. m = [command |-> "stop", call |-> k, service |-> s]
  BY <1>1 DEF RequestType
<1>3. Once'
  <2>1. \A z \in Service : \A j \in ToSet(creating[z]) : j \in holders'[z]
    <3> SUFFICES ASSUME NEW z \in Service, NEW j \in ToSet(creating[z]) PROVE j \in holders'[z]
      OBVIOUS
    <3>1. creating[z] # <<>>
      BY SetOfEmpty
    <3> QED BY <3>1 DEF ThriftInv, Once, Created
  <2>2. IsInjective(toClient) /\ ToSet(toServer') \subseteq ToSet(toServer)
    BY <1>1 DEF ThriftInv, Once, Replied
  <2> QED BY <1>1, <2>1, <2>2, ClientStays, OnceShrinks DEF ThriftInv, clientVars
<1>4. k \in Stops(s)
  BY <1>1, <1>2 DEF Stops
<1>5. ASSUME NEW z \in Service, z # s PROVE Stops(z)' = Stops(z)
  <2>1. \A j \in Call : [command |-> "stop", call |-> j, service |-> z] # m
    BY <1>2, <1>5
  <2> QED BY <1>1, <2>1 DEF Stops
<1>6. Stops(s)' \subseteq Stops(s) \ {k}
  BY <1>1, <1>2 DEF Stops
<1>7. \A z \in Service : Backed(z)' = Backed(z) /\ Starting(z)' = Starting(z)
  BY DEF Backed, Starting, Granted, clientVars
<1> QED BY <1>1, <1>3, <1>4, <1>5, <1>6, <1>7

\* A stop of a server that is not in the map, or that others use.
LEMMA CountedOffKeeps ==
  ASSUME ThriftInv, UNCHANGED clientVars, NEW m, m = Head(toServer),
         toServer # <<>>, toServer' = Tail(toServer), m.command = "stop",
         NEW s \in Service, s = m.service, NEW k \in Call, k = m.call,
         \/ servers[s] = None /\ servers' = servers
         \/ servers[s].refCount > 1 /\ servers' = [servers EXCEPT ![s].refCount = @ - 1],
         UNCHANGED <<creating, toClient, holders, ready>>
  PROVE  ThriftInv'
<1>1. /\ servers' \in [Service -> {None} \cup ServerEntry]
      /\ \A z \in Service : z # s => servers'[z] = servers[z]
      /\ \A z \in Service : servers'[z] = None <=> servers[z] = None
      /\ servers[s] # None => servers'[s].server = servers[s].server
      /\ Extra(s)' <= Extra(s) /\ Extra(s)' \in Nat /\ Extra(s) \in Nat
      /\ Extra(s) = 0 \/ Extra(s)' = Extra(s) - 1
      /\ Extra(s) = 0 => servers[s] = None
  <2>1. servers \in [Service -> {None} \cup ServerEntry]
    BY DEF ThriftInv, Typed
  <2>2. CASE servers[s] = None /\ servers' = servers
    BY <2>1, <2>2 DEF Extra
  <2>3. CASE servers[s].refCount > 1 /\ servers' = [servers EXCEPT ![s].refCount = @ - 1]
    <3>1. servers[s] \in ServerEntry /\ servers[s].refCount \in Nat
      BY <2>1, <2>3 DEF ServerEntry, None
    <3>2. servers' = [servers EXCEPT ![s] = [servers[s] EXCEPT !.refCount = @ - 1]]
      BY <2>1, <2>3
    <3>3. /\ [servers[s] EXCEPT !.refCount = @ - 1] \in ServerEntry
          /\ [servers[s] EXCEPT !.refCount = @ - 1].refCount = servers[s].refCount - 1
          /\ [servers[s] EXCEPT !.refCount = @ - 1].server = servers[s].server
      BY <2>3, <3>1 DEF ServerEntry
    <3>4. \A e \in ServerEntry : e # None
      BY DEF ServerEntry, None
    <3>5. /\ servers' \in [Service -> {None} \cup ServerEntry]
          /\ \A z \in Service : z # s => servers'[z] = servers[z]
          /\ servers'[s].refCount = servers[s].refCount - 1
          /\ servers'[s].server = servers[s].server
          /\ servers'[s] # None /\ servers[s] # None
      BY <2>1, <3>1, <3>2, <3>3, <3>4
    <3>6. Extra(s) = servers[s].refCount - 1 /\ Extra(s)' = servers[s].refCount - 2
      BY <3>1, <3>5 DEF Extra
    <3>7. /\ Extra(s)' <= Extra(s) /\ Extra(s)' \in Nat /\ Extra(s) \in Nat
          /\ Extra(s)' = Extra(s) - 1 /\ Extra(s) # 0
      <4>1. servers[s].refCount \in Nat /\ servers[s].refCount > 1
        BY <2>3, <3>1
      <4> QED BY <3>6, <4>1
    <3>8. \A z \in Service : servers'[z] = None <=> servers[z] = None
      BY <3>5
    <3> QED BY <3>5, <3>7, <3>8
  <2> QED BY <2>2, <2>3
<1>2. /\ toServer' \in Seq(RequestType) /\ Once'
      /\ \A z \in Service : z # s => Stops(z)' = Stops(z)
      /\ k \in Stops(s) /\ Stops(s)' \subseteq Stops(s) \ {k}
      /\ \A z \in Service : Backed(z)' = Backed(z) /\ Starting(z)' = Starting(z)
  BY <1>1, StopsOnce
<1>3. Typed'
  BY <1>1, <1>2 DEF ThriftInv, Typed, clientVars
<1>4. Covered'
  <2> SUFFICES ASSUME NEW z \in Service, "exit" \notin Faults[z] PROVE CoveredFor(z)'
    BY DEF Covered
  <2>1. CoveredFor(z)
    BY DEF ThriftInv, Covered
  <2>2. CASE z # s
    BY <1>1, <1>2, <1>3, <2>1, <2>2, CoverShrinks DEF ThriftInv
  <2>3. CASE z = s
    <3>1. /\ Backed(z) \subseteq Call /\ Stops(z) \subseteq Call /\ Starting(z) \subseteq Call
          /\ holders[z] \subseteq Call /\ Extra(z) \in Nat /\ Stops(z)' \subseteq Call
      BY BackedCalls DEF ThriftInv, Stops
    <3>2. Cardinality(Stops(z)') <= Cardinality(Stops(z)) - 1
      BY <1>2, <2>3, <3>1, FewerByOne
    <3>3. /\ Cardinality(Backed(z)) \in Nat /\ Cardinality(Stops(z)) \in Nat
          /\ Cardinality(Starting(z)) \in Nat /\ Cardinality(holders[z]) \in Nat
          /\ Cardinality(Stops(z)') \in Nat
      BY <3>1, FiniteCalls
    <3>4. Cardinality(Backed(z)') + Cardinality(Stops(z)') + Cardinality(Starting(z)')
            <= Cardinality(holders'[z]) + Extra(z)'
      <4>1. Cardinality(Backed(z)) + Cardinality(Stops(z)) + Cardinality(Starting(z))
              <= Cardinality(holders[z]) + Extra(z)
        BY <2>1 DEF CoveredFor
      <4>2. Backed(z)' = Backed(z) /\ Starting(z)' = Starting(z) /\ Extra(z)' >= Extra(z) - 1
            /\ Extra(z)' \in Nat
        BY <1>1, <1>2, <2>3
      <4> QED BY SMTT(30), <3>1, <3>2, <3>3, <4>1, <4>2
    <3>5. ready[z]
      BY <1>2, <2>1, <2>3 DEF CoveredFor
    <3>6. servers'[z] # None => servers'[z].server \in holders[z]
      BY <1>1, <2>1, <2>3 DEF CoveredFor
    <3> QED BY <3>4, <3>5, <3>6 DEF CoveredFor
  <2> QED BY <2>2, <2>3
<1> QED BY <1>2, <1>3, <1>4, ClientStays DEF ThriftInv

\* The last stop of a server takes its subscription with it.
LEMMA StoppedKeeps ==
  ASSUME ThriftInv, UNCHANGED clientVars, NEW m, m = Head(toServer),
         toServer # <<>>, toServer' = Tail(toServer), m.command = "stop",
         NEW s \in Service, s = m.service, NEW k \in Call, k = m.call,
         servers[s].refCount = 1,
         holders' = [holders EXCEPT ![s] = @ \ {servers[s].server}],
         servers' = [servers EXCEPT ![s] = None],
         ready' = [ready EXCEPT ![s] = @ /\ holders'[s] # {}],
         UNCHANGED <<creating, toClient>>
  PROVE  ThriftInv'
<1>1. /\ servers' \in [Service -> {None} \cup ServerEntry] /\ servers'[s] = None
      /\ \A z \in Service : z # s => servers'[z] = servers[z]
      /\ servers[s] # None /\ Extra(s) = 0 /\ Extra(s)' = 0
  BY DEF ThriftInv, Typed, Extra, None
<1>2. /\ holders' \in [Service -> SUBSET Call]
      /\ holders'[s] = holders[s] \ {servers[s].server}
      /\ \A z \in Service : z # s => holders'[z] = holders[z]
  BY DEF ThriftInv, Typed
<1>3. /\ ready' \in [Service -> BOOLEAN] /\ ready'[s] = (ready[s] /\ holders'[s] # {})
      /\ \A z \in Service : z # s => ready'[z] = ready[z]
  BY DEF ThriftInv, Typed
<1>4. creating[s] = <<>>
  BY <1>1 DEF ThriftInv, Once, Created
<1>5. /\ toServer' \in Seq(RequestType) /\ Once'
      /\ \A z \in Service : z # s => Stops(z)' = Stops(z)
      /\ k \in Stops(s) /\ Stops(s)' \subseteq Stops(s) \ {k}
      /\ \A z \in Service : Backed(z)' = Backed(z) /\ Starting(z)' = Starting(z)
  <2>1. \A z \in Service : /\ holders'[z] \subseteq holders[z]
                           /\ creating[z] # <<>> => holders'[z] = holders[z]
                           /\ servers'[z] # None => servers[z] # None
    BY <1>1, <1>2, <1>4
  <2> QED BY ZenonT(40), <2>1, StopsOnce
<1>6. Typed'
  BY <1>1, <1>2, <1>3, <1>5 DEF ThriftInv, Typed, clientVars
<1>7. Covered'
  <2> SUFFICES ASSUME NEW z \in Service, "exit" \notin Faults[z] PROVE CoveredFor(z)'
    BY DEF Covered
  <2>1. CoveredFor(z)
    BY DEF ThriftInv, Covered
  <2>2. CASE z # s
    <3>1. /\ Backed(z)' \subseteq Backed(z) /\ Stops(z)' \subseteq Stops(z)
          /\ creating'[z] = creating[z] /\ holders'[z] = holders[z]
          /\ servers'[z] = servers[z] /\ ready'[z] = ready[z]
      BY <1>1, <1>2, <1>3, <1>5, <2>2
    <3>2. Typed
      BY DEF ThriftInv
    <3> QED BY <1>6, <2>1, <3>1, <3>2, CoverShrinks
  <2>3. CASE z = s
    <3>1. /\ Backed(z) \subseteq Call /\ Stops(z) \subseteq Call /\ Starting(z) \subseteq Call
          /\ holders[z] \subseteq Call /\ Extra(z) = 0 /\ Stops(z)' \subseteq Call
      BY <1>1, <2>3, BackedCalls DEF ThriftInv, Stops
    <3>2. Cardinality(Stops(z)') <= Cardinality(Stops(z)) - 1
      BY <1>5, <2>3, <3>1, FewerByOne
    <3>3. ready[z] /\ servers[z].server \in holders[z]
      BY <1>1, <2>1, <2>3 DEF CoveredFor
    <3>4. Cardinality(holders'[z]) = Cardinality(holders[z]) - 1
      BY <1>2, <2>3, <3>1, <3>3, FiniteCalls, FS_RemoveElement
    <3>5. holders'[z] \subseteq Call
      BY <1>2
    <3>6. /\ Cardinality(Backed(z)) \in Nat /\ Cardinality(Stops(z)) \in Nat
          /\ Cardinality(Starting(z)) \in Nat /\ Cardinality(holders[z]) \in Nat
          /\ Cardinality(Stops(z)') \in Nat /\ Cardinality(holders'[z]) \in Nat
      BY <3>1, <3>5, FiniteCalls
    <3>7. Cardinality(Backed(z)) + Cardinality(Stops(z)') + Cardinality(Starting(z))
            <= Cardinality(holders'[z])
      BY <2>1, <3>1, <3>2, <3>4, <3>6 DEF CoveredFor
    <3>8. Cardinality(Backed(z)') + Cardinality(Stops(z)') + Cardinality(Starting(z)')
            <= Cardinality(holders'[z]) + Extra(z)'
      <4>1. Backed(z)' = Backed(z) /\ Starting(z)' = Starting(z) /\ Extra(z)' = 0
        BY <1>1, <1>5, <2>3
      <4> QED BY <3>6, <3>7, <4>1
    <3>9. ASSUME Backed(z)' \cup Stops(z)' # {} PROVE ready'[z]
      <4>1. Backed(z) # {} \/ Stops(z)' # {}
        BY <1>5, <3>9
      <4>2. Cardinality(Backed(z)) # 0 \/ Cardinality(Stops(z)') # 0
        BY <3>1, <4>1, FiniteCalls, FS_EmptySet
      <4>3. Cardinality(holders'[z]) # 0
        BY <3>6, <3>7, <4>2
      <4>4. holders'[z] = {} => Cardinality(holders'[z]) = 0
        BY FS_EmptySet
      <4> QED BY <1>3, <2>3, <3>3, <4>3, <4>4
    <3>10. servers'[z] = None
      BY <1>1, <2>3
    <3> QED BY <3>8, <3>9, <3>10 DEF CoveredFor
  <2> QED BY <2>2, <2>3
<1> QED BY <1>5, <1>6, <1>7, ClientStays DEF ThriftInv

LEMMA HandleMessageKeeps ==
  ASSUME ThriftInv, HandleMessage PROVE ThriftInv'
<1> DEFINE m == Head(toServer)
<1>1. toServer # <<>> /\ toServer' = Tail(toServer) /\ UNCHANGED clientVars
  BY DEF HandleMessage
<1>2. m.call \in Call /\ m.service \in Service
  BY <1>1, HandledRequest
<1>3. CASE m.command = "start" /\ StartServer(m.call, m.service)
  <2>1. Answer(m.call, TRUE) \in AnswerType /\ Answer(m.call, TRUE).call = m.call
    BY <1>2 DEF Answer, AnswerType
  <2>2. CASE servers[m.service] # None
    BY <1>1, <1>2, <1>3, <2>1, <2>2, CountedKeeps DEF StartServer
  <2>3. CASE servers[m.service] = None
    BY <1>1, <1>2, <1>3, <2>3, AwaitedKeeps DEF StartServer
  <2> QED BY <2>2, <2>3
<1>4. CASE m.command = "stop" /\ StopServer(m.call, m.service)
  <2>1. CASE servers[m.service].refCount = 1
             /\ holders' = [holders EXCEPT ![m.service] = @ \ {servers[m.service].server}]
             /\ servers' = [servers EXCEPT ![m.service] = None]
             /\ ready' = [ready EXCEPT ![m.service] = @ /\ holders'[m.service] # {}]
    BY <1>1, <1>2, <1>4, <2>1, StoppedKeeps DEF StopServer
  <2>2. CASE /\ \/ servers[m.service] = None /\ servers' = servers
                \/ /\ servers[m.service].refCount > 1
                   /\ servers' = [servers EXCEPT ![m.service].refCount = @ - 1]
             /\ UNCHANGED <<holders, ready>>
    BY <1>1, <1>2, <1>4, <2>2, CountedOffKeeps DEF StopServer
  <2> QED BY <1>4, <2>1, <2>2 DEF StopServer
<1> QED BY <1>3, <1>4 DEF HandleMessage

\* The answers to the starts that awaited the process of s.
LEMMA AnsweredStarts ==
  ASSUME ThriftInv, UNCHANGED clientVars, NEW s \in Service, NEW b \in BOOLEAN,
         creating[s] # <<>>, toClient' = toClient \o Answers(creating[s], b),
         creating' = [creating EXCEPT ![s] = <<>>],
         UNCHANGED toServer,
         \A z \in Service : /\ z # s => holders'[z] = holders[z] /\ servers'[z] = servers[z]
                            /\ holders'[z] \subseteq holders[z]
  PROVE  /\ toClient' \in Seq(AnswerType) /\ creating' \in [Service -> Seq(Call)]
         /\ Once' /\ servers[s] = None /\ creating'[s] = <<>>
         /\ \A z \in Service : z # s => creating'[z] = creating[z]
         /\ \A k \in Call : Granted(k)' => Granted(k) \/ (b = TRUE /\ k \in ToSet(creating[s]))
<1>1. /\ creating[s] \in Seq(Call) /\ IsInjective(creating[s]) /\ servers[s] = None
      /\ \A k \in ToSet(creating[s]) :
           /\ k \in Call /\ call[k].service = s /\ k \in holders[s]
           /\ call[k].stage \in {"starting", "failed"}
           /\ \A a \in ToSet(toClient) : a.call # k
  BY ElementTypes DEF ThriftInv, Typed, Once, Created
<1>2. PICK given \in Seq(AnswerType) :
        /\ toClient' = toClient \o given /\ IsInjective(given)
        /\ \A a \in ToSet(given) :
             a.call \in ToSet(creating[s]) /\ a.success = b /\ a = Answer(a.call, b)
  <2> DEFINE given == Answers(creating[s], b)
  <2>1. /\ given \in Seq(AnswerType) /\ IsInjective(given)
        /\ \A a \in ToSet(given) :
             a.call \in ToSet(creating[s]) /\ a.success = b /\ a = Answer(a.call, b)
    BY <1>1, AnswersGiven
  <2>2. toClient' = toClient \o given
    OBVIOUS
  <2> HIDE DEF given
  <2> QED BY <2>1, <2>2
<1>3. toClient \in Seq(AnswerType) /\ IsInjective(toClient)
      /\ ToSet(toClient) \cap ToSet(given) = {}
  BY <1>1, <1>2 DEF ThriftInv, Typed, Once, Replied
<1>4. /\ toClient' \in Seq(AnswerType) /\ IsInjective(toClient')
      /\ ToSet(toClient') = ToSet(toClient) \cup ToSet(given)
  BY <1>2, <1>3, SetOfConcat
<1>5. /\ creating' \in [Service -> Seq(Call)] /\ creating'[s] = <<>>
      /\ \A z \in Service : z # s => creating'[z] = creating[z]
  BY DEF ThriftInv, Typed
<1>6. Requested'
  <2>1. ASSUME NEW x \in ToSet(toServer'), x.command = "start"
        PROVE  /\ \A a \in ToSet(toClient') : a.call # x.call
               /\ \A z \in Service : x.call \notin holders'[z]
    <3>1. /\ \A a \in ToSet(toClient) : a.call # x.call
          /\ \A z \in Service : x.call \notin holders[z]
      BY <2>1 DEF ThriftInv, Once, Requested
    <3>2. x.call \notin ToSet(creating[s])
      BY <1>1, <3>1
    <3>3. \A a \in ToSet(toClient') : a.call # x.call
      BY <1>2, <1>4, <3>1, <3>2
    <3> QED BY <3>1, <3>3
  <2>2. IsInjective(toServer') /\ ToSet(toServer') \subseteq ToSet(toServer)
    BY DEF ThriftInv, Once, Requested
  <2> QED BY <2>1, <2>2, RequestedStays
<1>7. Created'
  <2> SUFFICES ASSUME NEW z \in Service
               PROVE  /\ IsInjective(creating'[z])
                      /\ servers'[z] # None => creating'[z] = <<>>
                      /\ \A j \in ToSet(creating'[z]) :
                           /\ call[j].service = z /\ j \in holders'[z]
                           /\ call[j].stage \in {"starting", "failed"}
                           /\ \A a \in ToSet(toClient') : a.call # j
    BY DEF Created, clientVars
  <2>1. CASE z = s
    BY <1>5, <2>1, SetOfEmpty
  <2>2. CASE z # s
    <3>1. /\ IsInjective(creating[z])
          /\ servers[z] # None => creating[z] = <<>>
          /\ \A j \in ToSet(creating[z]) :
               /\ call[j].service = z /\ j \in holders[z]
               /\ call[j].stage \in {"starting", "failed"}
               /\ \A a \in ToSet(toClient) : a.call # j
      BY DEF ThriftInv, Once, Created
    <3>2. \A j \in ToSet(creating[z]) : \A a \in ToSet(toClient') : a.call # j
      <4> SUFFICES ASSUME NEW j \in ToSet(creating[z]), NEW a \in ToSet(toClient')
                   PROVE  a.call # j
        OBVIOUS
      <4>1. j \notin ToSet(creating[s])
        BY <1>1, <2>2, <3>1
      <4>2. a \in ToSet(toClient) \/ a \in ToSet(given)
        BY <1>4
      <4> QED BY <1>2, <3>1, <4>1, <4>2
    <3> QED BY <1>5, <2>2, <3>1, <3>2
  <2> QED BY <2>1, <2>2
<1>8. Replied'
  <2> DEFINE New == ToSet(given)
  <2>1. \A a \in New : /\ call[a.call].stage \in {"starting", "failed"}
                       /\ \A c \in ToSet(toClient) : c.call # a.call
                       /\ \A c \in New : c.call = a.call => c = a
    <3> SUFFICES ASSUME NEW a \in New
                 PROVE  /\ call[a.call].stage \in {"starting", "failed"}
                        /\ \A c \in ToSet(toClient) : c.call # a.call
                        /\ \A c \in New : c.call = a.call => c = a
      OBVIOUS
    <3>1. a.call \in ToSet(creating[s]) /\ a = Answer(a.call, b)
      BY <1>2
    <3>2. \A c \in New : c = Answer(c.call, b)
      BY <1>2
    <3> QED BY <1>1, <3>1, <3>2
  <2>2. ToSet(toClient') = ToSet(toClient) \cup New
    BY <1>4
  <2> HIDE DEF New
  <2> QED BY <1>4, <2>1, <2>2, RepliedGrows
<1>9. Held'
  <2>1. \A z \in Service : \A j \in holders'[z] : call[j].stage # "idle"
    BY DEF ThriftInv, Once, Held
  <2> QED BY <2>1 DEF Held, clientVars
<1>10. ASSUME NEW k \in Call, Granted(k)'
       PROVE  Granted(k) \/ (b = TRUE /\ k \in ToSet(creating[s]))
  <2>0. Answer(k, TRUE).call = k /\ Answer(k, TRUE).success = TRUE
    BY DEF Answer
  <2>1. PICK a : a = Answer(k, TRUE) /\ a.call = k /\ a.success = TRUE
    BY <2>0
  <2>2. a \in ToSet(toClient) \/ a \in ToSet(given)
    BY <1>4, <1>10, <2>1 DEF Granted
  <2> QED BY <1>2, <2>1, <2>2 DEF Granted
<1> QED BY <1>1, <1>4, <1>5, <1>6, <1>7, <1>8, <1>9, <1>10, ClientStays DEF Once

LEMMA ServerReadyKeeps ==
  ASSUME ThriftInv, NEW s \in Service, ServerReady(s) PROVE ThriftInv'
<1> DEFINE last == Last(creating[s])
           entry == [refCount |-> 1, server |-> last]
<1>1. /\ creating[s] # <<>> /\ creating' = [creating EXCEPT ![s] = <<>>]
      /\ ready' = [ready EXCEPT ![s] = TRUE] /\ servers' = [servers EXCEPT ![s] = entry]
      /\ toClient' = toClient \o Answers(creating[s], TRUE)
      /\ UNCHANGED <<clientVars, toServer, holders>>
  BY DEF ServerReady, Install, Answers
<1>2. last \in ToSet(creating[s]) /\ last \in Call /\ last \in holders[s]
  <2>1. creating[s] \in Seq(Call) /\ Len(creating[s]) \in DOMAIN creating[s]
    BY <1>1 DEF ThriftInv, Typed
  <2>2. last \in ToSet(creating[s])
    BY <2>1 DEF ToSet, Last
  <2> QED BY <2>2, ElementTypes DEF ThriftInv, Once, Created
<1> HIDE DEF last
<1>3. entry \in ServerEntry /\ entry # None /\ entry.refCount = 1 /\ entry.server = last
  BY <1>2 DEF ServerEntry, None
<1>4. /\ servers' \in [Service -> {None} \cup ServerEntry] /\ servers'[s] = entry
      /\ \A z \in Service : z # s => servers'[z] = servers[z]
      /\ ready' \in [Service -> BOOLEAN] /\ ready'[s] = TRUE
      /\ \A z \in Service : z # s => ready'[z] = ready[z]
  BY <1>1, <1>3 DEF ThriftInv, Typed
<1>5. /\ toClient' \in Seq(AnswerType) /\ creating' \in [Service -> Seq(Call)]
      /\ Once' /\ servers[s] = None /\ creating'[s] = <<>>
      /\ \A z \in Service : z # s => creating'[z] = creating[z]
      /\ \A k \in Call : Granted(k)' => Granted(k) \/ k \in ToSet(creating[s])
  BY <1>1, <1>4, AnsweredStarts
<1>6. Typed'
  BY <1>1, <1>4, <1>5 DEF ThriftInv, Typed, clientVars
<1>7. Covered'
  <2> SUFFICES ASSUME NEW z \in Service, "exit" \notin Faults[z] PROVE CoveredFor(z)'
    BY DEF Covered
  <2>1. CASE z # s
    <3>1. \A k \in ToSet(creating[s]) : call[k].service = s
      BY DEF ThriftInv, Once, Created
    <3>2. \A k \in Call : call[k].service = z /\ Granted(k)' => Granted(k)
      BY <1>5, <2>1, <3>1
    <3> QED BY <1>1, <1>4, <1>5, <1>6, <2>1, <3>2, OtherCovered DEF ThriftInv
  <2>2. CASE z = s
    <3>1. CoveredFor(z)
      BY DEF ThriftInv, Covered
    <3>2. Backed(z)' \subseteq Backed(z) \cup Starting(z) /\ Stops(z)' = Stops(z)
      BY <1>1, <1>5, <2>2 DEF Backed, Stops, Starting, clientVars
    <3>3. Starting(z)' = {} /\ Extra(z)' = 0 /\ Extra(z) = 0
      BY <1>3, <1>4, <1>5, <2>2, SetOfEmpty DEF Starting, Extra
    <3>4. /\ Backed(z) \subseteq Call /\ Stops(z) \subseteq Call /\ Starting(z) \subseteq Call
          /\ holders[z] \subseteq Call
      BY BackedCalls DEF ThriftInv
    <3>5. /\ Cardinality(Backed(z)) \in Nat /\ Cardinality(Stops(z)) \in Nat
          /\ Cardinality(Starting(z)) \in Nat /\ Cardinality(holders[z]) \in Nat
          /\ IsFiniteSet(Backed(z)) /\ IsFiniteSet(Starting(z))
          /\ Cardinality(Backed(z) \cap Starting(z)) \in Nat
      BY <3>4, FiniteCalls
    <3>6. Cardinality(Backed(z) \cup Starting(z))
            = Cardinality(Backed(z)) + Cardinality(Starting(z)) - Cardinality(Backed(z) \cap Starting(z))
      BY <3>5, FS_Union
    <3>7. /\ Cardinality(Backed(z)') <= Cardinality(Backed(z) \cup Starting(z))
          /\ Cardinality(Backed(z)') \in Nat
      <4>1. Backed(z) \cup Starting(z) \subseteq Call /\ Backed(z)' \subseteq Call
        BY <3>2, <3>4
      <4> QED BY <3>2, <4>1, SmallerCalls, FiniteCalls
    <3>8. Cardinality(Starting(z)') = 0
      BY <3>3, FS_EmptySet
    <3>9. Cardinality(Backed(z)') + Cardinality(Stops(z)') + Cardinality(Starting(z)')
            <= Cardinality(holders'[z]) + Extra(z)'
      <4>1. holders'[z] = holders[z]
        BY <1>1
      <4>2. Cardinality(Backed(z)) + Cardinality(Stops(z)) + Cardinality(Starting(z))
              <= Cardinality(holders[z]) + Extra(z)
        BY <3>1 DEF CoveredFor
      <4> QED BY <3>2, <3>3, <3>5, <3>6, <3>7, <3>8, <4>1, <4>2
    <3>10. ready'[z] /\ servers'[z].server \in holders'[z]
      BY <1>1, <1>2, <1>3, <1>4, <2>2
    <3> QED BY <3>9, <3>10 DEF CoveredFor
  <2> QED BY <2>1, <2>2
<1> QED BY <1>1, <1>5, <1>6, <1>7, ClientStays DEF ThriftInv

LEMMA ServerFailsKeeps ==
  ASSUME ThriftInv, NEW s \in Service, ServerFails(s) PROVE ThriftInv'
<1>1. /\ creating[s] # <<>> /\ creating' = [creating EXCEPT ![s] = <<>>] /\ ~ready[s]
      /\ holders' = [holders EXCEPT ![s] = {}]
      /\ toClient' = toClient \o Answers(creating[s], FALSE)
      /\ UNCHANGED <<clientVars, toServer, servers, ready>>
  BY DEF ServerFails, Answers
<1>2. /\ holders' \in [Service -> SUBSET Call] /\ holders'[s] = {}
      /\ \A z \in Service : z # s => holders'[z] = holders[z]
  BY <1>1 DEF ThriftInv, Typed
<1>3. /\ toClient' \in Seq(AnswerType) /\ creating' \in [Service -> Seq(Call)]
      /\ Once' /\ servers[s] = None /\ creating'[s] = <<>>
      /\ \A z \in Service : z # s => creating'[z] = creating[z]
      /\ \A k \in Call : Granted(k)' => Granted(k)
  <2>1. \A z \in Service : /\ z # s => holders'[z] = holders[z] /\ servers'[z] = servers[z]
                           /\ holders'[z] \subseteq holders[z]
    BY <1>1, <1>2
  <2> QED BY <1>1, <2>1, AnsweredStarts
<1>4. Typed'
  BY <1>1, <1>2, <1>3 DEF ThriftInv, Typed, clientVars
<1>5. Covered'
  <2> SUFFICES ASSUME NEW z \in Service, "exit" \notin Faults[z] PROVE CoveredFor(z)'
    BY DEF Covered
  <2>1. CASE z # s
    BY <1>1, <1>2, <1>3, <1>4, <2>1, OtherCovered DEF ThriftInv
  <2>2. CASE z = s
    <3>1. CoveredFor(z)
      BY DEF ThriftInv, Covered
    <3>2. Backed(z) = {} /\ Stops(z) = {}
      BY <1>1, <2>2, <3>1 DEF CoveredFor
    <3>3. Backed(z)' = {} /\ Stops(z)' = {}
      BY <1>1, <1>3, <3>2 DEF Backed, Stops, clientVars
    <3>4. Starting(z)' = {} /\ Extra(z)' = 0 /\ holders'[z] = {} /\ servers'[z] = None
      BY <1>1, <1>2, <1>3, <2>2, SetOfEmpty DEF Starting, Extra
    <3> QED BY <3>3, <3>4, FS_EmptySet DEF CoveredFor
  <2> QED BY <2>1, <2>2
<1> QED BY <1>1, <1>3, <1>4, <1>5, ClientStays DEF ThriftInv

LEMMA ServerExitsKeeps ==
  ASSUME ThriftInv, NEW s \in Service, ServerExits(s) PROVE ThriftInv'
<1>1. /\ "exit" \in Faults[s] /\ creating[s] = <<>>
      /\ ready' = [ready EXCEPT ![s] = FALSE] /\ holders' = [holders EXCEPT ![s] = {}]
      /\ UNCHANGED <<clientVars, toServer, toClient, servers, creating>>
  BY DEF ServerExits
<1>2. /\ holders' \in [Service -> SUBSET Call] /\ holders'[s] = {}
      /\ \A z \in Service : z # s => holders'[z] = holders[z]
      /\ ready' \in [Service -> BOOLEAN]
      /\ \A z \in Service : z # s => ready'[z] = ready[z]
  BY <1>1 DEF ThriftInv, Typed
<1>3. Typed'
  BY <1>1, <1>2 DEF ThriftInv, Typed, clientVars
<1>4. Once'
  <2>1. \A z \in Service : \A j \in ToSet(creating'[z]) : j \in holders'[z]
    BY <1>1, <1>2, SetOfEmpty DEF ThriftInv, Once, Created
  <2>2. IsInjective(toClient) /\ IsInjective(toServer)
    BY DEF ThriftInv, Once, Replied, Requested
  <2>3. \A z \in Service : holders'[z] \subseteq holders[z]
    BY <1>2
  <2> QED BY <1>1, <2>1, <2>2, <2>3, ClientStays, OnceShrinks DEF ThriftInv, clientVars
<1>5. Covered'
  <2> SUFFICES ASSUME NEW z \in Service, "exit" \notin Faults[z] PROVE CoveredFor(z)'
    BY DEF Covered
  <2>1. z # s
    BY <1>1
  <2>2. \A k \in Call : Granted(k)' => Granted(k)
    BY <1>1 DEF Granted
  <2> QED BY <1>1, <1>2, <1>3, <2>1, <2>2, OtherCovered DEF ThriftInv
<1> QED BY <1>1, <1>3, <1>4, <1>5, ClientStays DEF ThriftInv

-----------------------------------------------------------------------------
(* The theorems *)

LEMMA ThriftInvInit ==
  ASSUME Init PROVE ThriftInv
<1>1. PICK asked \in [Call -> Service] :
        call = [k \in Call |-> [stage |-> "idle", service |-> asked[k], tunnel |-> k]]
  BY DEF Init
<1>2. /\ call \in [Call -> CallRecord]
      /\ \A k \in Call : call[k].stage = "idle" /\ call[k].tunnel = k
  BY <1>1 DEF CallRecord, Stage
<1>3. /\ tunnelTo = [s \in Service |-> None] /\ tunnels = {} /\ isClosed = FALSE
      /\ toServer = <<>> /\ toClient = <<>> /\ servers = [s \in Service |-> None]
      /\ creating = [s \in Service |-> <<>>] /\ holders = [s \in Service |-> {}]
      /\ ready = [s \in Service |-> FALSE]
  BY DEF Init
<1>4. Typed
  <2>1. /\ <<>> \in Seq(RequestType) /\ <<>> \in Seq(AnswerType) /\ <<>> \in Seq(Call)
    OBVIOUS
  <2>2. /\ tunnelTo \in [Service -> {None} \cup ClientEntry]
        /\ servers \in [Service -> {None} \cup ServerEntry]
    BY <1>3
  <2>3. /\ creating \in [Service -> Seq(Call)] /\ holders \in [Service -> SUBSET Call]
        /\ ready \in [Service -> BOOLEAN]
    BY <1>3, <2>1
  <2> QED BY <1>2, <1>3, <2>1, <2>2, <2>3 DEF Typed
<1>5. Once
  BY <1>2, <1>3, SetOfEmpty DEF Once, Requested, Created, Replied, Held, Opened, Own
<1>6. Covered
  <2> SUFFICES ASSUME NEW s \in Service PROVE CoveredFor(s)
    BY DEF Covered
  <2>1. Backed(s) = {} /\ Stops(s) = {} /\ Starting(s) = {} /\ holders[s] = {} /\ Extra(s) = 0
    BY <1>2, <1>3, SetOfEmpty DEF Backed, Stops, Starting, Extra, Granted
  <2> QED BY <1>3, <2>1, FS_EmptySet DEF CoveredFor
<1>7. Linked
  BY <1>3 DEF Linked
<1>8. OneAtATime
  BY <1>2 DEF OneAtATime, Pending
<1>9. Exact
  <2> SUFFICES ASSUME NEW s \in Serial
               PROVE  /\ tunnelTo[s].refCount = Cardinality(UsersOf(s))
                      /\ \A k \in UsersOf(s) : call[k].tunnel = tunnelTo[s].tunnel
                      /\ TunnelsOf(s) = IF UsersOf(s) = {} THEN {} ELSE {tunnelTo[s].tunnel}
    BY DEF Exact
  <2>1. UsersOf(s) = {} /\ TunnelsOf(s) = {}
    BY <1>2, <1>3 DEF UsersOf, TunnelsOf, Live
  <2>2. tunnelTo[s].refCount = 0
    BY <1>3 DEF None, Serial
  <2> QED BY <2>1, <2>2, FS_EmptySet
<1> QED BY <1>4, <1>5, <1>6, <1>7, <1>8, <1>9 DEF ThriftInv

\* What the start of a process, its clients and the requests about it have in
\* common in every state: nothing is asked for or answered twice, and a process
\* has a subscription or a count for everything that relies on it.
THEOREM ServicesInvariant == Spec => []ThriftInv
<1>1. ThriftInv /\ [Next]_vars => ThriftInv'
  <2> SUFFICES ASSUME ThriftInv, [Next]_vars PROVE ThriftInv'
    OBVIOUS
  <2>1. ASSUME NEW k \in Call, CreateThriftClient(k) PROVE ThriftInv'
    BY <2>1, CreateKeeps
  <2>2. ASSUME NEW k \in Call, TimesOut(k) PROVE ThriftInv'
    BY <2>2, TimesOutKeeps
  <2>3. ASSUME NEW k \in Call, TunnelOpens(k) PROVE ThriftInv'
    BY <2>3, TunnelOpensKeeps
  <2>4. ASSUME NEW k \in Call, TunnelFails(k) PROVE ThriftInv'
    BY <2>4, TunnelFailsKeeps
  <2>5. ASSUME NEW k \in Call, CloseClient(k) PROVE ThriftInv'
    BY <2>5, CloseClientKeeps
  <2>6. ASSUME NEW k \in Call, ConnectionCloses(k) PROVE ThriftInv'
    BY <2>6, ConnectionClosesKeeps
  <2>7. CASE OnResponse
    BY <2>7, OnResponseKeeps
  <2>8. CASE Close
    BY <2>8, CloseKeeps
  <2>9. CASE HandleMessage
    BY <2>9, HandleMessageKeeps
  <2>10. ASSUME NEW s \in Service, ServerReady(s) PROVE ThriftInv'
    BY <2>10, ServerReadyKeeps
  <2>11. ASSUME NEW s \in Service, ServerFails(s) PROVE ThriftInv'
    BY <2>11, ServerFailsKeeps
  <2>12. ASSUME NEW s \in Service, ServerExits(s) PROVE ThriftInv'
    BY <2>12, ServerExitsKeeps
  <2>13. CASE UNCHANGED vars
    <3>1. UNCHANGED clientVars /\ UNCHANGED serverVars /\ UNCHANGED <<toServer, toClient>>
      BY <2>13 DEF vars
    <3>2. Typed'
      BY <3>1 DEF ThriftInv, Typed, clientVars, serverVars
    <3>3. Once'
      BY <3>1 DEF ThriftInv, Once, Requested, Created, Replied, Held, Opened, Own,
                  clientVars, serverVars
    <3>4. Covered'
      <4>1. \A s \in Service : CoveredFor(s)' = CoveredFor(s)
        BY <3>1 DEF CoveredFor, Backed, Granted, Stops, Starting, Extra, clientVars, serverVars
      <4> QED BY <4>1 DEF ThriftInv, Covered
    <3> QED BY <3>1, <3>2, <3>3, <3>4, ClientStays DEF ThriftInv
  <2> QED BY <2>1, <2>2, <2>3, <2>4, <2>5, <2>6, <2>7, <2>8, <2>9, <2>10, <2>11, <2>12,
             <2>13 DEF Next
<1> QED BY <1>1, ThriftInvInit, PTL DEF Spec

\* A tunnel leads to a process that accepts connections, unless the process can
\* end by itself: the process has a subscription or a count for the start whose
\* success opened the tunnel, and loses it no sooner than the stop that is sent
\* when the tunnel closes.
THEOREM TunnelsLead == Spec => []TunnelsLeadToServers
<1>1. ThriftInv => TunnelsLeadToServers
  <2> SUFFICES ASSUME ThriftInv, NEW k \in tunnels, "exit" \notin Faults[call[k].service]
               PROVE  Running(call[k].service)
    BY DEF TunnelsLeadToServers
  <2>1. k \in Call /\ call[k].service \in Service
    BY DEF ThriftInv, Typed, CallRecord
  <2>2. PICK s \in Service : s = call[k].service
    BY <2>1
  <2>3. CoveredFor(s)
    BY <2>2 DEF ThriftInv, Covered
  <2>4. k \in Backed(s)
    BY <2>1, <2>2 DEF Backed
  <2>5. /\ Backed(s) \subseteq Call /\ Stops(s) \subseteq Call /\ Starting(s) \subseteq Call
        /\ holders[s] \subseteq Call /\ Extra(s) \in Nat
    BY BackedCalls DEF ThriftInv
  <2>6. /\ Cardinality(Backed(s)) \in Nat /\ Cardinality(Stops(s)) \in Nat
        /\ Cardinality(Starting(s)) \in Nat /\ Cardinality(holders[s]) \in Nat
        /\ Cardinality(Backed(s)) # 0
    BY <2>4, <2>5, FiniteCalls, FS_EmptySet
  <2>7. holders[s] # {}
    <3>1. CASE servers[s] = None
      <4>1. Cardinality(holders[s]) # 0
        BY <2>3, <2>6, <3>1 DEF CoveredFor, Extra
      <4>2. holders[s] = {} => Cardinality(holders[s]) = 0
        BY FS_EmptySet
      <4> QED BY <4>1, <4>2
    <3>2. CASE servers[s] # None
      BY <2>3, <3>2 DEF CoveredFor
    <3> QED BY <3>1, <3>2
  <2>8. ready[s]
    BY <2>3, <2>4 DEF CoveredFor
  <2> QED BY <2>2, <2>7, <2>8 DEF Running
<1> QED BY <1>1, ServicesInvariant, PTL

\* While calls for a service do not overlap, the count of its tunnel is the number
\* of the clients that use it, whoever closed first, and no tunnel is forgotten.
THEOREM CountsAreExact == Spec => []CountsExact
<1>1. ThriftInv => CountsExact
  <2> SUFFICES ASSUME ThriftInv PROVE CountsExact
    OBVIOUS
  <2>1. TypeOK
    BY DEF ThriftInv, Typed, TypeOK, CallRecord, ClientEntry, ServerEntry, RequestType, AnswerType
  <2>2. ASSUME ~isClosed, NEW s \in Serial
        PROVE  LET users == {k \in CallsOf(s) : Live(k)} IN
               /\ tunnelTo[s].refCount = Cardinality(users)
               /\ \A k \in users : call[k].tunnel = tunnelTo[s].tunnel
               /\ {k \in tunnels : call[k].service = s}
                    = (IF users = {} THEN {} ELSE {tunnelTo[s].tunnel})
    <3>1. {k \in CallsOf(s) : Live(k)} = UsersOf(s)
      BY DEF CallsOf, UsersOf, Live
    <3>2. {k \in tunnels : call[k].service = s} = TunnelsOf(s)
      BY DEF TunnelsOf
    <3>3. /\ tunnelTo[s].refCount = Cardinality(UsersOf(s))
          /\ \A k \in UsersOf(s) : call[k].tunnel = tunnelTo[s].tunnel
          /\ TunnelsOf(s) = IF UsersOf(s) = {} THEN {} ELSE {tunnelTo[s].tunnel}
      BY <2>2 DEF ThriftInv, Exact
    <3> QED BY <3>1, <3>2, <3>3
  <2> QED BY <2>1, <2>2 DEF CountsExact
<1> QED BY <1>1, ServicesInvariant, PTL

=============================================================================
