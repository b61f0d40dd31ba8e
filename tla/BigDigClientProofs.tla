-------------------------- MODULE BigDigClientProofs --------------------------
(***************************************************************************)
(* Theorems about two parts of a client.  About Tunnels, for any calls and *)
(* requests: that the count of a tunnel is the number of its users, and    *)
(* that the two ends agree on every tunnel when nothing is in flight.      *)
(* About Heartbeat, for any number of overlapping requests and any limits: *)
(* the types, and that a notification is shown only after a failure.       *)
(***************************************************************************)
EXTENDS MCBigDigClient, FiniteSetTheorems, TLAPS

MessageType == [event : Event, tunnel : Call]

Typed ==
  /\ request \in Requests
  /\ stage \in [Call -> Stage]
  /\ tunnelOf \in [Call -> Call]
  /\ inClient \in [Call -> {"none", "tunnel", "socketManager"}]
  /\ refCount \in [Call -> Int]
  /\ inServer \in [Call -> {"none", "socketManager", "proxy"}]
  /\ proxy \in [Call -> ProxyState]
  /\ isClosed \in BOOLEAN
  /\ toServer \in Seq(MessageType)
  /\ toClient \in Seq(MessageType)

In(q, m) == \E i \in 1 .. Len(q) : q[i] = m

Once(q, m) == \A i, j \in 1 .. Len(q) : q[i] = m /\ q[j] = m => i = j

Before(q, m, n) == \A i, j \in 1 .. Len(q) : q[i] = m /\ q[j] = n => i < j

\* A call that has not created a tunnel, and may still do so.
Early == {"idle", "listening", "creating"}

Fresh(t) ==
  stage[t] \in Early =>
    /\ tunnelOf[t] = t /\ inClient[t] = "none"
    /\ stage[t] = "listening" => ~IsReverse(t)
    /\ stage[t] = "creating" => IsReverse(t)

\* The count of tunnel t, and the users of what is not a tunnel.
Counted(t) ==
  /\ t \in Tunnel => refCount[t] = Cardinality(Users(t))
  /\ t \notin Tunnel => Users(t) = {}

\* The other end is on its way to be told that tunnel t is closed.
Closing(t) ==
  \/ In(toServer, Message("closeProxy", t))
  \/ In(toServer, Message("proxyClosed", t))
  \/ In(toClient, Message("proxyClosed", t))

\* A tunnel whose proxy is at the client.
Forward(t) ==
  /\ t \in Tunnel <=> proxy[t] = "open"
  /\ inServer[t] # "proxy"
  /\ ~In(toServer, Message("createProxy", t))
  /\ ~In(toServer, Message("closeProxy", t))
  /\ \A e \in Event : ~In(toClient, Message(e, t))
  /\ Before(toServer, Message("proxyCreated", t), Message("proxyClosed", t))
  /\ t \in Tunnel => /\ inServer[t] = "socketManager" \/ In(toServer, Message("proxyCreated", t))
                     /\ ~In(toServer, Message("proxyClosed", t))
  /\ t \notin Tunnel /\ (inServer[t] = "socketManager" \/ In(toServer, Message("proxyCreated", t)))
       => In(toServer, Message("proxyClosed", t))
  /\ stage[t] \in Early => inServer[t] = "none" /\ ~In(toServer, Message("proxyCreated", t))
                                            /\ ~In(toServer, Message("proxyClosed", t))

\* The client has not been told yet whether the server listens for tunnel t.
Unanswered(t) ==
  \/ In(toServer, Message("createProxy", t))
  \/ proxy[t] \in {"bound", "refused"}
  \/ In(toClient, Message("proxyCreated", t))
  \/ In(toClient, Message("proxyError", t))

\* A request of the client for a proxy is in one place at most.
AnsweredOnce(t) ==
  /\ Once(toServer, Message("createProxy", t))
  /\ Once(toClient, Message("proxyCreated", t))
  /\ Once(toClient, Message("proxyError", t))
  /\ In(toServer, Message("createProxy", t)) => proxy[t] = "none"
  /\ In(toClient, Message("proxyCreated", t)) => proxy[t] = "open"
  /\ In(toClient, Message("proxyError", t)) => proxy[t] = "closed"

\* A tunnel whose proxy is on the server.
Reverse(t) ==
  /\ AnsweredOnce(t)
  /\ inServer[t] # "socketManager"
  /\ ~In(toServer, Message("proxyCreated", t))
  /\ ~In(toServer, Message("proxyClosed", t))
  /\ Closing(t) => t \notin Tunnel /\ ~Unanswered(t)
  /\ Unanswered(t) => \/ stage[t] = "creating"
                      \/ t \in Tunnel /\ \A k \in Users(t) : stage[k] = "asking"
  /\ stage[t] \in Early =>
       /\ proxy[t] = "none" /\ inServer[t] = "none" /\ ~Closing(t)
       /\ \A e \in Event : ~In(toClient, Message(e, t))
       /\ stage[t] = "idle" <=> ~In(toServer, Message("createProxy", t))
  /\ t \in Tunnel => proxy[t] = "open" \/ Unanswered(t)
  /\ proxy[t] = "open" => inServer[t] = "proxy"
  /\ t \notin Tunnel /\ proxy[t] = "open" => In(toServer, Message("closeProxy", t))

Tidy(t) ==
  /\ inClient[t] # "socketManager"
  /\ Fresh(t)
  /\ Counted(t)
  /\ ~IsReverse(t) => Forward(t)
  /\ IsReverse(t) => Reverse(t)

TunnelsInv == Typed /\ (~isClosed => \A t \in Call : Tidy(t))

-----------------------------------------------------------------------------
(* Messages in a queue *)

LEMMA MessagesDiffer ==
  \A e, f, t, z : Message(e, t) = Message(f, z) <=> e = f /\ t = z
  BY DEF Message

LEMMA MessageTyped ==
  /\ \A e \in Event, t \in Call : Message(e, t) \in MessageType
  /\ \A m \in MessageType : /\ m.event \in Event /\ m.tunnel \in Call
                            /\ m = Message(m.event, m.tunnel)
  BY DEF Message, MessageType

LEMMA InAppend ==
  ASSUME NEW S, NEW q \in Seq(S), NEW m \in S
  PROVE  /\ Append(q, m) \in Seq(S)
         /\ \A x : In(Append(q, m), x) <=> In(q, x) \/ x = m
         /\ \A x : Once(q, x) /\ (x = m => ~In(q, x)) => Once(Append(q, m), x)
         /\ \A x, y : Before(q, x, y) /\ x # y /\ (x = m => ~In(q, y)) => Before(Append(q, m), x, y)
<1> DEFINE r == Append(q, m)
<1>1. /\ r \in Seq(S) /\ Len(q) \in Nat /\ Len(r) = Len(q) + 1
      /\ \A i \in 1 .. Len(q) : r[i] = q[i]
      /\ r[Len(q) + 1] = m
  OBVIOUS
<1> HIDE DEF r
<1>2. \A i \in 1 .. Len(r) : (i \in 1 .. Len(q) /\ r[i] = q[i]) \/ (i = Len(q) + 1 /\ r[i] = m)
  BY <1>1
<1>3. \A i \in 1 .. Len(q) : i \in 1 .. Len(r) /\ r[i] = q[i] /\ i < Len(q) + 1
  BY <1>1
<1>4. Len(q) + 1 \in 1 .. Len(r)
  BY <1>1
<1>5. \A x : In(r, x) <=> In(q, x) \/ x = m
  BY <1>1, <1>2, <1>3, <1>4 DEF In
<1>6. \A x : Once(q, x) /\ (x = m => ~In(q, x)) => Once(r, x)
  BY <1>1, <1>2 DEF In, Once
<1>7. \A x, y : Before(q, x, y) /\ x # y /\ (x = m => ~In(q, y)) => Before(r, x, y)
  BY <1>1, <1>2, <1>3 DEF In, Before
<1> QED BY <1>1, <1>5, <1>6, <1>7 DEF r

LEMMA InTail ==
  ASSUME NEW S, NEW q \in Seq(S), q # <<>>
  PROVE  /\ Tail(q) \in Seq(S) /\ Head(q) \in S
         /\ \A x : In(q, x) <=> In(Tail(q), x) \/ x = Head(q)
         /\ \A x : Once(q, x) => Once(Tail(q), x) /\ (x = Head(q) => ~In(Tail(q), x))
         /\ \A x, y : Before(q, x, y) =>
              Before(Tail(q), x, y) /\ (y = Head(q) => ~In(Tail(q), x))
<1> DEFINE r == Tail(q)
<1>1. /\ r \in Seq(S) /\ Len(q) \in Nat /\ Len(q) >= 1 /\ Len(r) = Len(q) - 1
      /\ \A i \in 1 .. Len(r) : r[i] = q[i + 1]
      /\ Head(q) = q[1] /\ Head(q) \in S
  OBVIOUS
<1> HIDE DEF r
<1>2. \A i \in 1 .. Len(r) : i + 1 \in 1 .. Len(q) /\ r[i] = q[i + 1] /\ i + 1 # 1 /\ 1 < i + 1
  BY <1>1
<1>3. \A i \in 1 .. Len(q) : i = 1 \/ (i - 1 \in 1 .. Len(r) /\ r[i - 1] = q[i])
  BY <1>1
<1>4. 1 \in 1 .. Len(q)
  BY <1>1
<1>5. \A x : In(q, x) <=> In(r, x) \/ x = Head(q)
  BY SMTT(30), <1>1, <1>2, <1>3, <1>4 DEF In
<1>6. ASSUME NEW x, Once(q, x)
      PROVE  Once(r, x) /\ (x = Head(q) => ~In(r, x))
  <2>1. Once(r, x)
    <3> SUFFICES ASSUME NEW i \in 1 .. Len(r), NEW j \in 1 .. Len(r), r[i] = x, r[j] = x
                 PROVE  i = j
      BY DEF Once
    <3>1. i + 1 = j + 1
      BY <1>2, <1>6 DEF Once
    <3> QED BY <3>1, <1>1
  <2>2. x = Head(q) => ~In(r, x)
    BY <1>1, <1>2, <1>4, <1>6 DEF In, Once
  <2> QED BY <2>1, <2>2
<1>7. ASSUME NEW x, NEW y, Before(q, x, y)
      PROVE  Before(r, x, y) /\ (y = Head(q) => ~In(r, x))
  <2>1. Before(r, x, y)
    <3> SUFFICES ASSUME NEW i \in 1 .. Len(r), NEW j \in 1 .. Len(r), r[i] = x, r[j] = y
                 PROVE  i < j
      BY DEF Before
    <3>1. i + 1 < j + 1
      BY <1>2, <1>7 DEF Before
    <3> QED BY <3>1, <1>1
  <2>2. ASSUME y = Head(q), In(r, x) PROVE FALSE
    <3>1. PICK i \in 1 .. Len(r) : r[i] = x
      BY <2>2 DEF In
    <3>2. i + 1 < 1
      BY <1>1, <1>2, <1>4, <1>7, <2>2, <3>1 DEF Before
    <3> QED BY <1>1, <3>2
  <2> QED BY <2>1, <2>2
<1> QED BY <1>1, <1>5, <1>6, <1>7 DEF r

\* What queue r says of tunnel z is what queue q does.
Kept(q, r, z) ==
  \A e \in Event :
    /\ In(r, Message(e, z)) <=> In(q, Message(e, z))
    /\ Once(q, Message(e, z)) => Once(r, Message(e, z))
    /\ \A f \in Event : f # e /\ Before(q, Message(e, z), Message(f, z))
                          => Before(r, Message(e, z), Message(f, z))

\* What sending a message to the server, or to the client, does to what the
\* queue holds.
Sent(q, r, e, t) ==
  /\ \A z \in Call : z # t => Kept(q, r, z)
  /\ \A f \in Event : In(r, Message(f, t)) <=> In(q, Message(f, t)) \/ f = e
  /\ \A f \in Event : Once(q, Message(f, t)) /\ (f = e => ~In(q, Message(f, t)))
                        => Once(r, Message(f, t))
  /\ \A f, g \in Event :
       f # g /\ Before(q, Message(f, t), Message(g, t)) /\ (f = e => ~In(q, Message(g, t)))
         => Before(r, Message(f, t), Message(g, t))

LEMMA KeptByAppend ==
  ASSUME NEW q \in Seq(MessageType), NEW e \in Event, NEW t \in Call,
         NEW r, r = Append(q, Message(e, t))
  PROVE  Sent(q, r, e, t)
<1>1. PICK m \in MessageType : m = Message(e, t)
  BY MessageTyped
<1>2. /\ r \in Seq(MessageType)
      /\ \A x : In(r, x) <=> In(q, x) \/ x = m
      /\ \A x : Once(q, x) /\ (x = m => ~In(q, x)) => Once(r, x)
      /\ \A x, y : Before(q, x, y) /\ x # y /\ (x = m => ~In(q, y)) => Before(r, x, y)
  BY <1>1, InAppend
<1>3. \A z \in Call : z # t => Kept(q, r, z)
  BY <1>1, <1>2, MessagesDiffer DEF Kept
<1>4. \A f \in Event : In(r, Message(f, t)) <=> In(q, Message(f, t)) \/ f = e
  BY <1>1, <1>2, MessagesDiffer
<1>5. \A f \in Event : Once(q, Message(f, t)) /\ (f = e => ~In(q, Message(f, t)))
                        => Once(r, Message(f, t))
  BY <1>1, <1>2, MessagesDiffer
<1>6. \A f, g \in Event :
        f # g /\ Before(q, Message(f, t), Message(g, t)) /\ (f = e => ~In(q, Message(g, t)))
          => Before(r, Message(f, t), Message(g, t))
  BY <1>1, <1>2, MessagesDiffer
<1> QED BY <1>3, <1>4, <1>5, <1>6 DEF Sent

\* What the queue holds when its first message, event e of tunnel t, is handled.
Handled(q, r, e, t) ==
  /\ \A z \in Call : z # t => Kept(q, r, z)
  /\ \A f \in Event : In(q, Message(f, t)) <=> In(r, Message(f, t)) \/ f = e
  /\ \A f \in Event : Once(q, Message(f, t))
       => Once(r, Message(f, t)) /\ (f = e => ~In(r, Message(f, t)))
  /\ \A f, g \in Event : Before(q, Message(f, t), Message(g, t))
       => Before(r, Message(f, t), Message(g, t)) /\ (g = e => ~In(r, Message(f, t)))

LEMMA KeptByTail ==
  ASSUME NEW q \in Seq(MessageType), q # <<>>, NEW r, r = Tail(q),
         NEW e, NEW t, Head(q) = Message(e, t)
  PROVE  Handled(q, r, e, t)
<1>1. PICK m : m = Message(e, t) /\ m = Head(q)
  OBVIOUS
<1>2. /\ r \in Seq(MessageType)
      /\ \A x : In(q, x) <=> In(r, x) \/ x = m
      /\ \A x : Once(q, x) => Once(r, x) /\ (x = m => ~In(r, x))
      /\ \A x, y : Before(q, x, y) => Before(r, x, y) /\ (y = m => ~In(r, x))
  BY <1>1, InTail
<1>3. \A f, z : Message(f, z) = m <=> f = e /\ z = t
  <2>1. \A f, z : Message(f, z) = Message(e, t) <=> f = e /\ z = t
    BY MessagesDiffer
  <2> QED BY <1>1, <2>1
<1>4. ASSUME NEW z \in Call, z # t PROVE Kept(q, r, z)
  <2>1. \A f \in Event : Message(f, z) # m
    BY <1>3, <1>4
  <2> QED BY <1>2, <2>1 DEF Kept
<1>5. \A f \in Event : In(q, Message(f, t)) <=> In(r, Message(f, t)) \/ f = e
  BY <1>2, <1>3
<1>6. \A f \in Event : Once(q, Message(f, t))
        => Once(r, Message(f, t)) /\ (f = e => ~In(r, Message(f, t)))
  BY <1>2, <1>3
<1>7. \A f, g \in Event : Before(q, Message(f, t), Message(g, t))
        => Before(r, Message(f, t), Message(g, t)) /\ (g = e => ~In(r, Message(f, t)))
  BY <1>2, <1>3
<1> QED BY <1>4, <1>5, <1>6, <1>7 DEF Handled

LEMMA KeptSame == \A q, z : Kept(q, q, z)
  BY DEF Kept

-----------------------------------------------------------------------------
(* The types of the variables *)

LEMMA SentTyped ==
  ASSUME Typed, NEW e \in Event, NEW t \in Call
  PROVE  /\ ToServer(e, t) => toServer' \in Seq(MessageType)
         /\ ToClient(e, t) => toClient' \in Seq(MessageType)
<1>1. PICK m \in MessageType : m = Message(e, t)
  BY MessageTyped
<1>2. Append(toServer, m) \in Seq(MessageType) /\ Append(toClient, m) \in Seq(MessageType)
  BY InAppend DEF Typed
<1> QED BY <1>1, <1>2 DEF Typed, ToServer, ToClient

LEMMA DropTyped ==
  ASSUME Typed, NEW t \in Call, NEW n \in Int, Drop(t, n)
  PROVE  /\ refCount' \in [Call -> Int]
         /\ inClient' \in [Call -> {"none", "tunnel", "socketManager"}]
         /\ proxy' \in [Call -> ProxyState]
         /\ toServer' \in Seq(MessageType)
<1>1. "closeProxy" \in Event /\ "proxyClosed" \in Event
  BY DEF Event
<1>2. toServer' \in Seq(MessageType)
  BY <1>1, SentTyped DEF Drop, Typed
<1>3. refCount' \in [Call -> Int]
  BY DEF Drop, Typed
<1>4. /\ inClient' \in [Call -> {"none", "tunnel", "socketManager"}]
      /\ proxy' \in [Call -> ProxyState]
  BY DEF Drop, Typed, ProxyState
<1> QED BY <1>2, <1>3, <1>4

LEMMA UsersFinite ==
  \A t : /\ IsFiniteSet(Users(t)) /\ Cardinality(Users(t)) \in Nat
         /\ IsFiniteSet(Asking(t)) /\ Cardinality(Asking(t)) \in Nat
<1> SUFFICES ASSUME NEW t
             PROVE  /\ IsFiniteSet(Users(t)) /\ Cardinality(Users(t)) \in Nat
                    /\ IsFiniteSet(Asking(t)) /\ Cardinality(Asking(t)) \in Nat
  OBVIOUS
<1>1. Users(t) \in SUBSET Call /\ Asking(t) \in SUBSET Call
  BY DEF Users, Asking
<1>2. IsFiniteSet(Users(t)) /\ IsFiniteSet(Asking(t))
  BY <1>1, CallAssumption, FS_Subset
<1> QED BY <1>2, FS_CardinalityType

LEMMA TypedInit == ASSUME Init PROVE Typed
<1>1. stage \in [Call -> Stage] /\ proxy \in [Call -> ProxyState]
  BY DEF Init, Stage, ProxyState
<1>2. toServer \in Seq(MessageType) /\ toClient \in Seq(MessageType)
  BY DEF Init
<1>3. /\ tunnelOf \in [Call -> Call] /\ refCount \in [Call -> Int]
      /\ inClient \in [Call -> {"none", "tunnel", "socketManager"}]
      /\ inServer \in [Call -> {"none", "socketManager", "proxy"}]
  BY DEF Init
<1> QED BY <1>1, <1>2, <1>3 DEF Init, Typed

LEMMA TypedStep ==
  ASSUME Typed, [Next]_vars
  PROVE  Typed'
<1> USE DEF Typed, callVars
<1>1. ASSUME NEW k \in Call, Create(k) PROVE Typed'
  <2> USE DEF Create
  <2>1. CASE CreateNew(k) /\ UNCHANGED <<tunnelOf, refCount>>
    <3>1. stage' \in [Call -> Stage]
      BY <2>1 DEF CreateNew, Stage
    <3>2. proxy' \in [Call -> ProxyState]
      BY <2>1 DEF CreateNew, StartListening, ProxyState
    <3>3. toServer' \in Seq(MessageType)
      BY <2>1, SentTyped DEF CreateNew, Event
    <3> QED BY <1>1, <2>1, <3>1, <3>2, <3>3
  <2>2. ASSUME NEW t \in Tunnel, ShareTunnel(t), tunnelOf' = [tunnelOf EXCEPT ![k] = t],
               stage' = [stage EXCEPT ![k] = IF IsReverse(k) THEN "asking" ELSE "open"],
               UNCHANGED <<proxy, toServer>>
        PROVE  Typed'
    <3>1. t \in Call /\ stage' \in [Call -> Stage]
      BY <2>2 DEF Tunnel, Stage
    <3>2. refCount' \in [Call -> Int]
      <4>1. refCount' = [refCount EXCEPT ![t] = refCount[t] + 1]
        BY <2>2 DEF ShareTunnel
      <4> QED BY <3>1, <4>1
    <3> QED BY <1>1, <2>2, <3>1, <3>2
  <2>3. CASE /\ stage' = [stage EXCEPT ![k] = IF IsReverse(k) THEN "lost" ELSE "failed"]
             /\ UNCHANGED <<tunnelOf, refCount, proxy, toServer>>
    <3>1. stage' \in [Call -> Stage]
      BY <2>3 DEF Stage
    <3> QED BY <1>1, <2>3, <3>1
  <2> QED BY <1>1, <2>1, <2>2, <2>3
<1>2. ASSUME NEW k \in Call, RegisterReverse(k) PROVE Typed'
  BY <1>2 DEF RegisterReverse, Register, Stage
<1>3. ASSUME NEW k \in Call, Listens(k) PROVE Typed'
  <2>1. stage' \in [Call -> Stage] /\ proxy' \in [Call -> ProxyState]
    BY ZenonT(40), <1>3 DEF Listens, Stage, ProxyState
  <2>2. toServer' \in Seq(MessageType)
    BY <1>3, SentTyped DEF Listens, Event
  <2>3. /\ refCount' \in [Call -> Int]
        /\ inClient' \in [Call -> {"none", "tunnel", "socketManager"}]
    <3>1. CASE Register(k)
      BY <3>1 DEF Register
    <3>2. CASE UNCHANGED <<proxy, inClient, refCount>>
      BY <3>2
    <3> QED BY <1>3, <3>1, <3>2 DEF Listens
  <2> QED BY <1>3, <2>1, <2>2, <2>3 DEF Listens
<1>4. ASSUME NEW k \in Call, CloseTunnel(k) PROVE Typed'
  <2>1. stage' \in [Call -> Stage] /\ tunnelOf[k] \in Call
    BY <1>4 DEF CloseTunnel, Stage
  <2> QED BY <1>4, <2>1, DropTyped DEF CloseTunnel
<1>5. ASSUME NEW k \in Call, ServerListens(k) PROVE Typed'
  <2>1. toClient' \in Seq(MessageType)
    BY <1>5, SentTyped DEF ServerListens, Event
  <2>2. proxy' \in [Call -> ProxyState]
    BY <1>5 DEF ServerListens, ProxyState
  <2> QED BY <1>5, <2>1, <2>2 DEF ServerListens
<1>6. ASSUME ClientHandles PROVE Typed'
  <2>1. PICK m \in MessageType : m = Head(toClient)
    BY <1>6, InTail DEF ClientHandles
  <2>2. toClient' \in Seq(MessageType)
    BY <1>6, InTail DEF ClientHandles
  <2>3. m.tunnel \in Call
    BY MessageTyped
  <2>4. stage' \in [Call -> Stage]
    BY <1>6 DEF ClientHandles, Stage
  <2>5. /\ refCount' \in [Call -> Int]
        /\ inClient' \in [Call -> {"none", "tunnel", "socketManager"}]
        /\ proxy' \in [Call -> ProxyState]
        /\ toServer' \in Seq(MessageType)
    <3>1. CASE Drop(m.tunnel, Cardinality(Asking(m.tunnel)))
      <4>1. Cardinality(Asking(m.tunnel)) \in Int
        BY UsersFinite
      <4> QED BY <2>3, <3>1, <4>1, DropTyped
    <3>2. CASE Drop(m.tunnel, 1)
      BY <2>3, <3>2, DropTyped
    <3>3. CASE /\ inClient' = [inClient EXCEPT ![m.tunnel] = IF @ = "none" THEN "socketManager" ELSE @]
               /\ UNCHANGED <<refCount, proxy, toServer>>
      BY <3>3
    <3>4. CASE UNCHANGED <<refCount, inClient, proxy, toServer>>
      BY <3>4
    <3> QED BY <1>6, <2>1, <3>1, <3>2, <3>3, <3>4 DEF ClientHandles
  <2> QED BY <1>6, <2>2, <2>4, <2>5 DEF ClientHandles
<1>7. ASSUME ServerHandles PROVE Typed'
  <2>1. PICK m \in MessageType : m = Head(toServer)
    BY <1>7, InTail DEF ServerHandles
  <2>2. toServer' \in Seq(MessageType)
    BY <1>7, InTail DEF ServerHandles
  <2>3. m.tunnel \in Call
    BY MessageTyped
  <2>4. toClient' \in Seq(MessageType)
    BY <1>7, <2>1, <2>3, SentTyped DEF ServerHandles, ServerCloses, Event
  <2>5. inServer' \in [Call -> {"none", "socketManager", "proxy"}]
    <3>1. \/ inServer' = [inServer EXCEPT ![m.tunnel] =
               IF @ = "none" THEN "socketManager" ELSE @]
          \/ inServer' = [inServer EXCEPT ![m.tunnel] = "none"]
          \/ inServer' = inServer
      BY <1>7, <2>1 DEF ServerHandles, ServerCloses
    <3> QED BY <3>1
  <2>6. proxy' \in [Call -> ProxyState]
    <3>1. \/ StartListening(m.tunnel)
          \/ proxy' = [proxy EXCEPT ![m.tunnel] = "closed"]
          \/ proxy' = proxy
      BY <1>7, <2>1 DEF ServerHandles, ServerCloses
    <3> QED BY <3>1 DEF StartListening, ProxyState
  <2> QED BY <1>7, <2>2, <2>4, <2>5, <2>6 DEF ServerHandles
<1>8. ASSUME Close PROVE Typed'
  <2>1. PICK n \in 0 .. Len(toServer) : toServer' = SubSeq(toServer, 1, n)
    BY <1>8 DEF Close
  <2>2. toServer' \in Seq(MessageType)
    BY <2>1
  <2>3. refCount' \in [Call -> Int] /\ proxy' \in [Call -> ProxyState]
    BY <1>8 DEF Close, ProxyState
  <2>4. inClient' \in [Call -> {"none", "tunnel", "socketManager"}]
        /\ toClient' \in Seq(MessageType)
    BY <1>8 DEF Close
  <2> QED BY <1>8, <2>2, <2>3, <2>4 DEF Close
<1>9. CASE UNCHANGED vars
  BY <1>9 DEF vars
<1> QED BY <1>1, <1>2, <1>3, <1>4, <1>5, <1>6, <1>7, <1>8, <1>9 DEF Next

-----------------------------------------------------------------------------
(* What an action leaves alone *)

LEMMA EventNames ==
  /\ "createProxy" \in Event /\ "closeProxy" \in Event /\ "proxyCreated" \in Event
  /\ "proxyError" \in Event /\ "proxyClosed" \in Event
  BY DEF Event

\* What the queues hold for tunnel z, one event at a time.
LEMMA KeptEvents ==
  ASSUME NEW q, NEW r, NEW z, Kept(q, r, z)
  PROVE  /\ In(r, Message("createProxy", z)) <=> In(q, Message("createProxy", z))
         /\ In(r, Message("closeProxy", z)) <=> In(q, Message("closeProxy", z))
         /\ In(r, Message("proxyCreated", z)) <=> In(q, Message("proxyCreated", z))
         /\ In(r, Message("proxyError", z)) <=> In(q, Message("proxyError", z))
         /\ In(r, Message("proxyClosed", z)) <=> In(q, Message("proxyClosed", z))
         /\ \A e \in Event : Once(q, Message(e, z)) => Once(r, Message(e, z))
         /\ Before(q, Message("proxyCreated", z), Message("proxyClosed", z))
              => Before(r, Message("proxyCreated", z), Message("proxyClosed", z))
<1>1. \A e \in Event : In(r, Message(e, z)) <=> In(q, Message(e, z))
  BY DEF Kept
<1>2. \A e \in Event : Once(q, Message(e, z)) => Once(r, Message(e, z))
  BY DEF Kept
<1>3. \A e, f \in Event : f # e /\ Before(q, Message(e, z), Message(f, z))
                            => Before(r, Message(e, z), Message(f, z))
  BY DEF Kept
<1>4. "proxyCreated" # "proxyClosed"
  OBVIOUS
<1> QED BY <1>1, <1>2, <1>3, <1>4, EventNames

\* A step that changes of tunnel z at most who uses it keeps it tidy, when it
\* counts the users and leaves those of an unanswered tunnel asking.
LEMMA TidyKept ==
  ASSUME Typed, NEW z \in Call, Tidy(z), request' = request,
         inClient'[z] = inClient[z], inServer'[z] = inServer[z], proxy'[z] = proxy[z],
         Counted(z)',
         IsReverse(z) /\ (\A k \in Users(z) : stage[k] = "asking")
           => \A k \in Users(z)' : stage'[k] = "asking",
         stage'[z] \in Early => stage'[z] = stage[z] /\ tunnelOf'[z] = tunnelOf[z],
         stage[z] = "creating" => stage'[z] = "creating",
         Kept(toServer, toServer', z), Kept(toClient, toClient', z)
  PROVE  Tidy(z)'
<1>1. IsReverse(z)' <=> IsReverse(z)
  BY DEF IsReverse
<1>2. (z \in Tunnel)' <=> z \in Tunnel
  BY DEF Tunnel
<1>3. Fresh(z)'
  BY <1>1 DEF Tidy, Fresh
<1>4. ASSUME ~IsReverse(z) PROVE Forward(z)'
  <2>1. Forward(z)
    BY <1>4 DEF Tidy
  <2>2. \A e \in Event : ~In(toClient', Message(e, z))
    BY <2>1 DEF Forward, Kept
  <2> QED BY <1>2, <2>1, <2>2, KeptEvents DEF Forward
<1>5. ASSUME IsReverse(z) PROVE Reverse(z)'
  <2>1. Reverse(z)
    BY <1>5 DEF Tidy
  <2>2. AnsweredOnce(z)'
    BY <2>1, KeptEvents, EventNames DEF Reverse, AnsweredOnce
  <2>3. (Closing(z)' <=> Closing(z)) /\ (Unanswered(z)' <=> Unanswered(z))
    BY KeptEvents DEF Closing, Unanswered
  <2>4. ASSUME Unanswered(z)
        PROVE  \/ stage'[z] = "creating"
               \/ (z \in Tunnel)' /\ \A k \in Users(z)' : stage'[k] = "asking"
    BY <1>2, <1>5, <2>1, <2>4 DEF Reverse
  <2>5. ASSUME stage'[z] \in Early
        PROVE  /\ proxy'[z] = "none" /\ inServer'[z] = "none" /\ ~Closing(z)'
               /\ \A e \in Event : ~In(toClient', Message(e, z))
               /\ stage'[z] = "idle" <=> ~In(toServer', Message("createProxy", z))
    BY <2>1, <2>3, <2>5, KeptEvents DEF Reverse, Kept
  <2> QED BY <1>2, <2>1, <2>2, <2>3, <2>4, <2>5, KeptEvents DEF Reverse
<1> QED BY <1>1, <1>3, <1>4, <1>5 DEF Tidy

LEMMA SameUsers ==
  ASSUME NEW z \in Call, Counted(z),
         Users(z)' = Users(z), \A k \in Users(z) : stage'[k] = stage[k],
         inClient'[z] = inClient[z], refCount'[z] = refCount[z]
  PROVE  /\ Counted(z)'
         /\ (\A k \in Users(z) : stage[k] = "asking") => \A k \in Users(z)' : stage'[k] = "asking"
<1>1. (z \in Tunnel)' <=> z \in Tunnel
  BY DEF Tunnel
<1> QED BY <1>1 DEF Counted

\* Where a step does nothing to tunnel z, its users or their calls.
LEMMA TidyUntouched ==
  ASSUME Typed, NEW z \in Call, Tidy(z), request' = request,
         inClient'[z] = inClient[z], inServer'[z] = inServer[z], proxy'[z] = proxy[z],
         refCount'[z] = refCount[z],
         Users(z)' = Users(z), \A k \in Users(z) : stage'[k] = stage[k],
         stage'[z] \in Early => stage'[z] = stage[z] /\ tunnelOf'[z] = tunnelOf[z],
         stage[z] = "creating" => stage'[z] = "creating",
         Kept(toServer, toServer', z), Kept(toClient, toClient', z)
  PROVE  Tidy(z)'
<1>1. Counted(z)
  BY DEF Tidy
<1>2. /\ Counted(z)'
      /\ (\A k \in Users(z) : stage[k] = "asking") => \A k \in Users(z)' : stage'[k] = "asking"
  BY <1>1, SameUsers
<1> QED BY <1>2, TidyKept

\* Where calls and counts do not change.
LEMMA TidyCalls ==
  ASSUME Typed, NEW z \in Call, Tidy(z), UNCHANGED <<request, stage, tunnelOf, inClient, refCount>>,
         inServer'[z] = inServer[z], proxy'[z] = proxy[z],
         Kept(toServer, toServer', z), Kept(toClient, toClient', z)
  PROVE  Tidy(z)'
<1>1. Users(z)' = Users(z)
  BY DEF Users
<1> QED BY <1>1, TidyUntouched

LEMMA CountsSame ==
  ASSUME UNCHANGED <<stage, tunnelOf, inClient, refCount>>
  PROVE  \A z \in Call : /\ Counted(z)' <=> Counted(z)
                         /\ Users(z)' = Users(z)
                         /\ (z \in Tunnel)' <=> z \in Tunnel
<1>1. \A z \in Call : Users(z)' = Users(z)
  BY DEF Users
<1>2. Tunnel' = Tunnel
  BY DEF Tunnel
<1> QED BY <1>1, <1>2 DEF Counted

LEMMA SentBy ==
  ASSUME Typed, ~isClosed, NEW e \in Event, NEW t \in Call
  PROVE  /\ ToServer(e, t) => Sent(toServer, toServer', e, t)
         /\ ToClient(e, t) => Sent(toClient, toClient', e, t)
<1>1. ASSUME NEW q \in Seq(MessageType), NEW r, r = Append(q, Message(e, t))
      PROVE  Sent(q, r, e, t)
  BY <1>1, KeptByAppend
<1>2. toServer \in Seq(MessageType) /\ toClient \in Seq(MessageType)
  BY DEF Typed
<1>3. ASSUME ToServer(e, t) PROVE Sent(toServer, toServer', e, t)
  <2>1. toServer' = Append(toServer, Message(e, t))
    BY <1>3 DEF ToServer
  <2> QED BY <1>1, <1>2, <2>1
<1>4. ASSUME ToClient(e, t) PROVE Sent(toClient, toClient', e, t)
  <2>1. toClient' = Append(toClient, Message(e, t))
    BY <1>4 DEF ToClient
  <2> QED BY <1>1, <1>2, <2>1
<1> QED BY <1>3, <1>4

LEMMA HandledBy ==
  ASSUME NEW q \in Seq(MessageType), q # <<>>, NEW r, r = Tail(q)
  PROVE  \E e \in Event, t \in Call :
           /\ Head(q) = Message(e, t) /\ Head(q).event = e /\ Head(q).tunnel = t
           /\ Handled(q, r, e, t)
<1>1. PICK m \in MessageType : m = Head(q)
  BY InTail
<1>2. PICK e \in Event, t \in Call : m = Message(e, t) /\ m.event = e /\ m.tunnel = t
  BY MessageTyped
<1>3. Handled(q, r, e, t)
  BY <1>1, <1>2, KeptByTail
<1> QED BY <1>1, <1>2, <1>3

-----------------------------------------------------------------------------
(* The calls *)

LEMMA CreateKeeps ==
  ASSUME Typed, \A t \in Call : Tidy(t), NEW k \in Call, Create(k), NEW z \in Call
  PROVE  Tidy(z)'
<1> USE DEF Create
<1>1. /\ request' = request /\ inClient' = inClient /\ inServer' = inServer
      /\ toClient' = toClient /\ stage[k] = "idle" /\ ~isClosed
      /\ Tidy(z) /\ Tidy(k)
  OBVIOUS
<1>2. Kept(toClient, toClient', z)
  BY <1>1, KeptSame
<1>3. /\ tunnelOf[k] = k /\ k \notin Tunnel /\ Users(k) = {}
      /\ stage[k] \in Early
  BY <1>1 DEF Tidy, Fresh, Counted, Early, Tunnel
<1>4. ASSUME CreateNew(k), UNCHANGED <<tunnelOf, refCount>>
      PROVE  Tidy(z)'
  <2>1. \A j \in Call : j # k => stage'[j] = stage[j]
    BY <1>4 DEF Typed, CreateNew
  <2>2. stage'[k] = IF IsReverse(k) THEN "creating" ELSE "listening"
    BY <1>4 DEF Typed, CreateNew
  <2>3. \A t \in Call : Users(t)' = Users(t) /\ \A j \in Users(t) : stage'[j] = stage[j]
    BY <1>1, <1>4, <2>1, <2>2 DEF Users
  <2>4. ASSUME z # k PROVE Tidy(z)'
    <3>1. proxy'[z] = proxy[z]
      BY <1>4, <2>4 DEF Typed, CreateNew, StartListening
    <3>2. Kept(toServer, toServer', z)
      <4>1. CASE toServer' = toServer
        BY <4>1, KeptSame
      <4>2. CASE ToServer("createProxy", k)
        <5>1. Sent(toServer, toServer', "createProxy", k)
          BY <1>1, <4>2, SentBy, EventNames
        <5> QED BY <2>4, <5>1 DEF Sent
      <4> QED BY <1>4, <4>1, <4>2 DEF CreateNew
    <3> QED BY <1>1, <1>2, <1>4, <2>1, <2>3, <2>4, <3>1, <3>2, TidyUntouched
  <2>5. Tidy(k)'
    <3>1. Fresh(k)' /\ inClient'[k] # "socketManager"
      BY <1>1, <1>3, <1>4, <2>2 DEF Fresh, Tidy, IsReverse, Early
    <3>2. Counted(k)'
      BY <1>1, <1>3, <2>3 DEF Counted, Tunnel
    <3>3. ASSUME ~IsReverse(k) PROVE Forward(k)'
      <4>1. Forward(k) /\ toServer' = toServer /\ k \notin Tunnel'
        BY <1>1, <1>3, <1>4, <3>3 DEF Tidy, CreateNew, Tunnel
      <4>2. proxy'[k] # "open"
        BY <1>4, <3>3 DEF Typed, CreateNew, StartListening
      <4> QED BY <1>1, <1>3, <4>1, <4>2 DEF Forward
    <3>4. ASSUME IsReverse(k) PROVE Reverse(k)'
      <4>1. Reverse(k) /\ proxy' = proxy /\ k \notin Tunnel' /\ stage'[k] = "creating"
        BY <1>1, <1>3, <1>4, <2>2, <3>4 DEF Tidy, CreateNew, Tunnel
      <4>2. Sent(toServer, toServer', "createProxy", k)
        BY <1>1, <1>4, <3>4, SentBy, EventNames DEF CreateNew
      <4>3. \A f \in Event : In(toServer', Message(f, k)) <=> In(toServer, Message(f, k)) \/ f = "createProxy"
        BY <4>2 DEF Sent
      <4>4. /\ proxy[k] = "none" /\ inServer[k] = "none" /\ ~Closing(k)
            /\ \A e \in Event : ~In(toClient, Message(e, k))
            /\ ~In(toServer, Message("createProxy", k))
        BY <1>1, <1>3, <4>1 DEF Reverse
      <4>5. Once(toServer', Message("createProxy", k))
        BY <4>1, <4>2, <4>4, EventNames DEF Sent, Reverse, AnsweredOnce
      <4>6. AnsweredOnce(k)'
        BY <1>1, <4>1, <4>4, <4>5, EventNames DEF Reverse, AnsweredOnce
      <4>7. ~Closing(k)'
        BY <1>1, <4>3, <4>4, EventNames DEF Closing
      <4> QED BY <1>1, <4>1, <4>3, <4>4, <4>6, <4>7, EventNames DEF Reverse
    <3> QED BY <1>1, <3>1, <3>2, <3>3, <3>4 DEF Tidy, IsReverse
  <2> QED BY <2>4, <2>5
<1>5. ASSUME NEW t \in Tunnel, IsReverse(t) = IsReverse(k), ShareTunnel(t),
             tunnelOf' = [tunnelOf EXCEPT ![k] = t],
             stage' = [stage EXCEPT ![k] = IF IsReverse(k) THEN "asking" ELSE "open"],
             UNCHANGED <<proxy, toServer>>
      PROVE  Tidy(z)'
  <2>1. t \in Call /\ t # k
    BY <1>3 DEF Tunnel
  <2>2. \A j \in Call : j # k => stage'[j] = stage[j] /\ tunnelOf'[j] = tunnelOf[j]
    BY <1>5 DEF Typed
  <2>3. stage'[k] = (IF IsReverse(k) THEN "asking" ELSE "open") /\ tunnelOf'[k] = t
    BY <1>5 DEF Typed
  <2>4. Kept(toServer, toServer', z)
    BY <1>5, KeptSame
  <2>5. stage'[z] \in Early => stage'[z] = stage[z] /\ tunnelOf'[z] = tunnelOf[z]
    BY <2>2, <2>3 DEF Early
  <2>6. stage[z] = "creating" => stage'[z] = "creating"
    BY <1>1, <2>2
  <2>7. ASSUME z # t PROVE Tidy(z)'
    <3>1. Users(z)' = Users(z) /\ \A j \in Users(z) : stage'[j] = stage[j]
      BY <1>1, <2>2, <2>3, <2>7 DEF Users
    <3>2. refCount'[z] = refCount[z]
      BY <1>5, <2>1, <2>7 DEF Typed, ShareTunnel
    <3> QED BY <1>1, <1>2, <1>5, <2>4, <2>5, <2>6, <3>1, <3>2, TidyUntouched
  <2>8. ASSUME z = t PROVE Tidy(z)'
    <3>1. Users(z)' = Users(z) \cup {k} /\ k \notin Users(z)
      BY <1>1, <2>2, <2>3, <2>8 DEF Users
    <3>2. refCount'[z] = refCount[z] + 1
      BY <1>5, <2>1, <2>8 DEF Typed, ShareTunnel
    <3>3. z \in Tunnel /\ z \in Tunnel' /\ refCount[z] = Cardinality(Users(z))
      BY <1>1, <2>8 DEF Tunnel, Tidy, Counted
    <3>4. Cardinality(Users(z) \cup {k}) = Cardinality(Users(z)) + 1
      BY <3>1, UsersFinite, FS_AddElement
    <3>5. Counted(z)'
      BY <3>1, <3>2, <3>3, <3>4 DEF Counted
    <3>6. ASSUME IsReverse(z), \A j \in Users(z) : stage[j] = "asking"
          PROVE  \A j \in Users(z)' : stage'[j] = "asking"
      BY <1>5, <2>2, <2>3, <2>8, <3>1, <3>6
    <3> QED BY <1>1, <1>2, <1>5, <2>4, <2>5, <2>6, <3>5, <3>6, TidyKept
  <2> QED BY <2>7, <2>8
<1>6. ASSUME stage' = [stage EXCEPT ![k] = IF IsReverse(k) THEN "lost" ELSE "failed"],
             UNCHANGED <<tunnelOf, refCount, proxy, toServer>>
      PROVE  Tidy(z)'
  <2>1. \A j \in Call : j # k => stage'[j] = stage[j]
    BY <1>6 DEF Typed
  <2>2. stage'[k] \in {"lost", "failed"}
    BY <1>6 DEF Typed
  <2>3. Users(z)' = Users(z) /\ \A j \in Users(z) : stage'[j] = stage[j]
    BY <1>1, <1>6, <2>1, <2>2 DEF Users
  <2>4. Kept(toServer, toServer', z)
    BY <1>6, KeptSame
  <2>5. stage'[z] \in Early => stage'[z] = stage[z] /\ tunnelOf'[z] = tunnelOf[z]
    BY <1>6, <2>1, <2>2 DEF Early
  <2>6. stage[z] = "creating" => stage'[z] = "creating"
    BY <1>1, <2>1
  <2> QED BY <1>1, <1>2, <1>6, <2>3, <2>4, <2>5, <2>6, TidyUntouched
<1> QED BY <1>4, <1>5, <1>6

LEMMA RegisterReverseKeeps ==
  ASSUME Typed, \A t \in Call : Tidy(t), NEW k \in Call, RegisterReverse(k), NEW z \in Call
  PROVE  Tidy(z)'
<1>1. /\ UNCHANGED <<request, tunnelOf, inServer, proxy, toServer, toClient>>
      /\ stage[k] = "creating" /\ stage[k] \in Early
      /\ stage' = [stage EXCEPT ![k] = "asking"]
      /\ inClient' = [inClient EXCEPT ![k] = "tunnel"] /\ refCount' = [refCount EXCEPT ![k] = 1]
      /\ Tidy(z) /\ Tidy(k)
  BY DEF RegisterReverse, Register, Early
<1>2. /\ stage'[k] = "asking" /\ inClient'[k] = "tunnel" /\ refCount'[k] = 1
      /\ \A j \in Call : j # k => /\ stage'[j] = stage[j] /\ inClient'[j] = inClient[j]
                                  /\ refCount'[j] = refCount[j]
  BY <1>1 DEF Typed
<1>3. IsReverse(k) /\ tunnelOf[k] = k /\ k \notin Tunnel /\ Users(k) = {}
  BY <1>1 DEF Tidy, Fresh, Counted, Tunnel
<1>4. ASSUME z # k PROVE Tidy(z)'
  <2>1. Users(z)' = Users(z) /\ \A j \in Users(z) : stage'[j] = stage[j]
    BY <1>1, <1>2, <1>3, <1>4 DEF Users
  <2>2. Kept(toServer, toServer', z) /\ Kept(toClient, toClient', z)
    BY <1>1, KeptSame
  <2> QED BY <1>1, <1>2, <1>4, <2>1, <2>2, TidyUntouched
<1>5. Tidy(k)'
  <2>1. Users(k)' = {k}
    BY <1>1, <1>2, <1>3 DEF Users
  <2>2. Counted(k)'
    BY <1>2, <2>1, FS_Singleton DEF Counted, Tunnel
  <2>3. Fresh(k)'
    BY <1>2 DEF Fresh, Early
  <2>4. Reverse(k)'
    <3>1. Reverse(k) /\ k \in Tunnel'
      BY <1>1, <1>2, <1>3 DEF Tidy, Tunnel
    <3>2. (Closing(k)' <=> Closing(k)) /\ (Unanswered(k)' <=> Unanswered(k)) /\ ~Closing(k)
      BY <1>1, <3>1 DEF Closing, Unanswered, Reverse
    <3>3. Unanswered(k)
      BY <1>1, <3>1 DEF Unanswered, Reverse
    <3>4. AnsweredOnce(k)'
      BY <1>1, <3>1 DEF Reverse, AnsweredOnce
    <3>5. stage'[k] \notin Early
      BY <1>2 DEF Early
    <3>6. \A j \in Users(k)' : stage'[j] = "asking"
      BY <1>2, <2>1
    <3> QED BY <1>1, <3>1, <3>2, <3>3, <3>4, <3>5, <3>6 DEF Reverse
  <2>5. IsReverse(k)' /\ inClient'[k] # "socketManager"
    BY <1>1, <1>2, <1>3 DEF IsReverse
  <2> QED BY <2>2, <2>3, <2>4, <2>5 DEF Tidy
<1> QED BY <1>4, <1>5

LEMMA ListensKeeps ==
  ASSUME Typed, ~isClosed, \A t \in Call : Tidy(t), NEW k \in Call, Listens(k), NEW z \in Call
  PROVE  Tidy(z)'
<1>1. /\ UNCHANGED <<request, tunnelOf, inServer, toClient>>
      /\ stage[k] = "listening" /\ stage[k] \in Early
      /\ Tidy(z) /\ Tidy(k)
  BY DEF Listens, Early
<1>2. ~IsReverse(k) /\ tunnelOf[k] = k /\ k \notin Tunnel /\ Users(k) = {} /\ Forward(k)
  BY <1>1 DEF Tidy, Fresh, Counted, Tunnel
<1>3. \A j \in Call : j # k => /\ stage'[j] = stage[j] /\ inClient'[j] = inClient[j]
                               /\ refCount'[j] = refCount[j] /\ proxy'[j] = proxy[j]
  BY DEF Typed, Listens, Register
<1>4. stage'[k] \in {"open", "failed"}
  BY DEF Typed, Listens
<1>5. ASSUME z # k PROVE Tidy(z)'
  <2>1. Users(z)' = Users(z) /\ \A j \in Users(z) : stage'[j] = stage[j]
    BY <1>1, <1>2, <1>3, <1>5 DEF Users
  <2>2. Kept(toClient, toClient', z)
    BY <1>1, KeptSame
  <2>3. Kept(toServer, toServer', z)
    <3>1. \/ Sent(toServer, toServer', "proxyCreated", k)
          \/ Sent(toServer, toServer', "proxyError", k)
      BY SentBy, EventNames DEF Listens
    <3> QED BY <1>5, <3>1 DEF Sent
  <2> QED BY <1>1, <1>3, <1>5, <2>1, <2>2, <2>3, TidyUntouched
<1>6. Fresh(k)'
  BY <1>4 DEF Fresh, Early
<1>7. ~IsReverse(k)' /\ stage'[k] \notin Early
  BY <1>1, <1>2, <1>4 DEF IsReverse, Early
<1>8. /\ inServer[k] = "none" /\ \A e \in Event : ~In(toClient, Message(e, k))
      /\ ~In(toServer, Message("createProxy", k)) /\ ~In(toServer, Message("closeProxy", k))
      /\ ~In(toServer, Message("proxyCreated", k)) /\ ~In(toServer, Message("proxyClosed", k))
      /\ Before(toServer, Message("proxyCreated", k), Message("proxyClosed", k))
  BY <1>1, <1>2 DEF Forward
<1>9. ASSUME proxy' = [proxy EXCEPT ![k] = "open"], stage' = [stage EXCEPT ![k] = "open"],
             Register(k), ToServer("proxyCreated", k)
      PROVE  Tidy(k)'
  <2>1. /\ proxy'[k] = "open" /\ stage'[k] = "open" /\ inClient'[k] = "tunnel"
        /\ refCount'[k] = 1 /\ k \in Tunnel'
    BY <1>9 DEF Typed, Register, Tunnel
  <2>2. Users(k)' = {k}
    BY <1>1, <1>2, <1>3, <2>1 DEF Users
  <2>3. Counted(k)'
    BY <2>1, <2>2, FS_Singleton DEF Counted
  <2>4. Sent(toServer, toServer', "proxyCreated", k)
    BY <1>9, SentBy, EventNames
  <2>5. /\ ~In(toServer', Message("createProxy", k)) /\ ~In(toServer', Message("closeProxy", k))
        /\ In(toServer', Message("proxyCreated", k)) /\ ~In(toServer', Message("proxyClosed", k))
    BY <1>8, <2>4, EventNames DEF Sent
  <2>6. Before(toServer', Message("proxyCreated", k), Message("proxyClosed", k))
    BY <1>8, <2>4, EventNames DEF Sent
  <2>7. Forward(k)'
    BY <1>1, <1>7, <1>8, <2>1, <2>5, <2>6 DEF Forward
  <2> QED BY <1>6, <1>7, <2>1, <2>3, <2>7 DEF Tidy
<1>10. ASSUME proxy[k] = "refused", stage' = [stage EXCEPT ![k] = "failed"],
              ToServer("proxyError", k), UNCHANGED <<proxy, inClient, refCount>>
       PROVE  Tidy(k)'
  <2>1. stage'[k] = "failed" /\ proxy'[k] = "refused" /\ k \notin Tunnel'
    BY <1>2, <1>10 DEF Typed, Tunnel
  <2>2. Users(k)' = {}
    BY <1>1, <1>2, <1>3, <2>1 DEF Users
  <2>3. Counted(k)' /\ inClient'[k] # "socketManager"
    BY <1>1, <1>10, <2>1, <2>2 DEF Counted, Tidy
  <2>4. Sent(toServer, toServer', "proxyError", k)
    BY <1>10, SentBy, EventNames
  <2>5. /\ ~In(toServer', Message("createProxy", k)) /\ ~In(toServer', Message("closeProxy", k))
        /\ ~In(toServer', Message("proxyCreated", k)) /\ ~In(toServer', Message("proxyClosed", k))
    BY <1>8, <2>4, EventNames DEF Sent
  <2>6. Before(toServer', Message("proxyCreated", k), Message("proxyClosed", k))
    BY <1>8, <2>4, EventNames DEF Sent
  <2>7. Forward(k)'
    BY <1>1, <1>7, <1>8, <2>1, <2>5, <2>6 DEF Forward
  <2> QED BY <1>6, <1>7, <2>3, <2>7 DEF Tidy
<1>11. Tidy(k)'
  BY <1>9, <1>10 DEF Listens
<1> QED BY <1>5, <1>11

\* What Drop does when other users are left, and when none is.
LEMMA DropEffect ==
  ASSUME Typed, ~isClosed, NEW t \in Call, NEW n \in Int, Drop(t, n)
  PROVE  /\ refCount'[t] = refCount[t] - n
         /\ \A z \in Call : z # t => /\ refCount'[z] = refCount[z] /\ inClient'[z] = inClient[z]
                                     /\ proxy'[z] = proxy[z] /\ Kept(toServer, toServer', z)
         /\ refCount[t] - n > 0 => UNCHANGED <<inClient, proxy, toServer>>
         /\ ~(refCount[t] - n > 0) =>
              /\ inClient'[t] = "none"
              /\ IsReverse(t) => proxy' = proxy /\ Sent(toServer, toServer', "closeProxy", t)
              /\ ~IsReverse(t) => /\ proxy'[t] = "closed"
                                  /\ Sent(toServer, toServer', "proxyClosed", t)
<1>1. /\ refCount'[t] = refCount[t] - n
      /\ \A z \in Call : z # t => refCount'[z] = refCount[z]
  BY DEF Typed, Drop
<1>2. ASSUME refCount[t] - n > 0
      PROVE  /\ UNCHANGED <<inClient, proxy, toServer>>
             /\ \A z \in Call : Kept(toServer, toServer', z)
  BY <1>2, KeptSame DEF Drop
<1>3. ASSUME ~(refCount[t] - n > 0)
      PROVE  /\ inClient'[t] = "none"
             /\ \A z \in Call : z # t => inClient'[z] = inClient[z] /\ proxy'[z] = proxy[z]
             /\ IsReverse(t) => proxy' = proxy
             /\ ~IsReverse(t) => proxy'[t] = "closed"
  BY <1>3 DEF Typed, Drop
<1>4. ASSUME ~(refCount[t] - n > 0)
      PROVE  /\ IsReverse(t) => Sent(toServer, toServer', "closeProxy", t)
             /\ ~IsReverse(t) => Sent(toServer, toServer', "proxyClosed", t)
  BY <1>4, SentBy, EventNames DEF Drop
<1>5. ASSUME ~(refCount[t] - n > 0), NEW z \in Call, z # t PROVE Kept(toServer, toServer', z)
  BY <1>4, <1>5 DEF Sent
<1>6. ASSUME NEW z \in Call, z # t
      PROVE  /\ refCount'[z] = refCount[z] /\ inClient'[z] = inClient[z]
             /\ proxy'[z] = proxy[z] /\ Kept(toServer, toServer', z)
  BY <1>1, <1>2, <1>3, <1>5, <1>6
<1> QED BY <1>1, <1>2, <1>3, <1>4, <1>6

\* Tunnel t loses its last user.
LEMMA LastUserGone ==
  ASSUME Typed, ~isClosed, NEW t \in Call, Tidy(t), t \in Tunnel,
         UNCHANGED <<request, inServer>>,
         stage'[t] \notin Early, Users(t)' = {},
         inClient'[t] = "none",
         IsReverse(t) => proxy'[t] # "open" \/ proxy'[t] = proxy[t],
         IsReverse(t) => Sent(toServer, toServer', "closeProxy", t),
         ~IsReverse(t) => proxy'[t] = "closed" /\ Sent(toServer, toServer', "proxyClosed", t),
         ~IsReverse(t) => Kept(toClient, toClient', t),
         IsReverse(t) => AnsweredOnce(t)' /\ ~Unanswered(t)'
  PROVE  Tidy(t)'
<1>1. IsReverse(t)' <=> IsReverse(t)
  BY DEF IsReverse
<1>2. t \notin Tunnel' /\ inClient'[t] # "socketManager"
  BY DEF Tunnel
<1>3. Counted(t)' /\ Fresh(t)'
  BY <1>2 DEF Counted, Fresh
<1>4. ASSUME ~IsReverse(t) PROVE Forward(t)'
  <2>1. Forward(t)
    BY <1>4 DEF Tidy
  <2>2. Sent(toServer, toServer', "proxyClosed", t) /\ Kept(toClient, toClient', t)
    BY <1>4
  <2>3. \A e \in Event : ~In(toClient', Message(e, t))
    BY <2>1, <2>2 DEF Forward, Kept
  <2>4. /\ ~In(toServer', Message("createProxy", t)) /\ ~In(toServer', Message("closeProxy", t))
        /\ In(toServer', Message("proxyClosed", t))
    BY <2>1, <2>2, EventNames DEF Forward, Sent
  <2>5. Before(toServer', Message("proxyCreated", t), Message("proxyClosed", t))
    BY <2>1, <2>2, EventNames DEF Forward, Sent
  <2> QED BY <1>2, <1>4, <2>1, <2>3, <2>4, <2>5 DEF Forward
<1>5. ASSUME IsReverse(t) PROVE Reverse(t)'
  <2>1. Reverse(t)
    BY <1>5 DEF Tidy
  <2>2. Sent(toServer, toServer', "closeProxy", t) /\ AnsweredOnce(t)' /\ ~Unanswered(t)'
    BY <1>5
  <2>3. /\ ~In(toServer', Message("proxyCreated", t)) /\ ~In(toServer', Message("proxyClosed", t))
        /\ In(toServer', Message("closeProxy", t))
    BY <2>1, <2>2, EventNames DEF Reverse, Sent
  <2>4. proxy'[t] = "open" => inServer'[t] = "proxy"
    BY <1>5, <2>1 DEF Reverse
  <2> QED BY <1>2, <1>5, <2>1, <2>2, <2>3, <2>4 DEF Reverse
<1> QED BY <1>1, <1>2, <1>3, <1>4, <1>5 DEF Tidy

LEMMA CloseTunnelKeeps ==
  ASSUME Typed, ~isClosed, \A t \in Call : Tidy(t), NEW k \in Call, CloseTunnel(k), NEW z \in Call
  PROVE  Tidy(z)'
<1>1. PICK t \in Call : t = tunnelOf[k]
  BY DEF Typed
<1>2. /\ UNCHANGED <<request, tunnelOf, inServer, toClient>>
      /\ stage[k] = "open" /\ Drop(t, 1)
      /\ stage'[k] = "closed" /\ \A j \in Call : j # k => stage'[j] = stage[j]
      /\ Tidy(z) /\ Tidy(t)
  BY <1>1 DEF CloseTunnel, Typed
<1>3. k \in Users(t) /\ t \in Tunnel
  BY <1>1, <1>2 DEF Users, Tidy, Counted
<1>4. /\ refCount[t] = Cardinality(Users(t)) /\ refCount[t] \in Nat /\ refCount[t] # 0
  <2>1. Cardinality(Users(t)) \in Nat /\ IsFiniteSet(Users(t))
    BY UsersFinite
  <2>2. Cardinality(Users(t)) # 0
    BY <1>3, <2>1, FS_EmptySet
  <2> QED BY <1>2, <1>3, <2>1, <2>2 DEF Tidy, Counted
<1>5. Users(t)' = Users(t) \ {k} /\ Cardinality(Users(t) \ {k}) = refCount[t] - 1
  <2>1. Users(t)' = Users(t) \ {k}
    BY <1>2 DEF Users
  <2> QED BY ZenonT(40), <1>3, <1>4, <2>1, UsersFinite, FS_RemoveElement
<1>6. Kept(toClient, toClient', z)
  BY <1>2, KeptSame
<1>7. /\ stage'[z] \in Early => stage'[z] = stage[z]
      /\ stage[z] = "creating" => stage'[z] = "creating"
  BY <1>2 DEF Early
<1>8. ASSUME z # t PROVE Tidy(z)'
  <2>1. Users(z)' = Users(z) /\ \A j \in Users(z) : stage'[j] = stage[j]
    BY <1>1, <1>2, <1>8 DEF Users
  <2>2. /\ refCount'[z] = refCount[z] /\ inClient'[z] = inClient[z]
        /\ proxy'[z] = proxy[z] /\ Kept(toServer, toServer', z)
    BY <1>2, <1>8, DropEffect
  <2> QED BY <1>2, <1>6, <1>7, <2>1, <2>2, TidyUntouched
<1>9. ASSUME refCount[t] - 1 > 0 PROVE Tidy(t)'
  <2>1. UNCHANGED <<inClient, proxy, toServer>> /\ refCount'[t] = refCount[t] - 1
    BY <1>2, <1>9, DropEffect
  <2>2. Counted(t)'
    BY <1>3, <1>5, <2>1 DEF Counted, Tunnel
  <2>3. ~(\A j \in Users(t) : stage[j] = "asking")
    BY <1>2, <1>3
  <2>4. Kept(toServer, toServer', t) /\ Kept(toClient, toClient', t)
    BY <1>2, <2>1, KeptSame
  <2>5. /\ stage'[t] \in Early => stage'[t] = stage[t] /\ tunnelOf'[t] = tunnelOf[t]
        /\ stage[t] = "creating" => stage'[t] = "creating"
    BY <1>2 DEF Early
  <2>6. inClient'[t] = inClient[t] /\ inServer'[t] = inServer[t] /\ proxy'[t] = proxy[t]
    BY <1>2, <2>1
  <2> QED BY <1>2, <2>2, <2>3, <2>4, <2>5, <2>6, TidyKept
<1>10. ASSUME ~(refCount[t] - 1 > 0) PROVE Tidy(t)'
  <2>1. Cardinality(Users(t) \ {k}) = 0 /\ IsFiniteSet(Users(t) \ {k})
    BY <1>4, <1>5, <1>10, UsersFinite, FS_Subset
  <2>2. Users(t)' = {}
    BY <1>5, <2>1, FS_EmptySet
  <2>3. /\ inClient'[t] = "none"
        /\ IsReverse(t) => proxy' = proxy /\ Sent(toServer, toServer', "closeProxy", t)
        /\ ~IsReverse(t) => proxy'[t] = "closed" /\ Sent(toServer, toServer', "proxyClosed", t)
    BY <1>2, <1>10, DropEffect
  <2>4. stage'[t] \notin Early
    BY <1>2, <1>3 DEF Early, Tidy, Fresh, Tunnel
  <2>5. ASSUME IsReverse(t) PROVE AnsweredOnce(t)' /\ ~Unanswered(t)'
    <3>1. Reverse(t) /\ ~Unanswered(t)
      <4>1. Reverse(t)
        BY <1>2, <2>5 DEF Tidy
      <4>2. stage[t] # "creating"
        BY <1>2, <1>3 DEF Tidy, Fresh, Tunnel, Early
      <4>3. ~(\A j \in Users(t) : stage[j] = "asking")
        BY <1>2, <1>3
      <4> QED BY <4>1, <4>2, <4>3 DEF Reverse
    <3>2. Sent(toServer, toServer', "closeProxy", t) /\ UNCHANGED <<proxy, toClient>>
      BY <1>2, <2>3, <2>5
    <3>3. ~In(toServer', Message("createProxy", t)) /\ Once(toServer', Message("createProxy", t))
      BY <3>1, <3>2, EventNames DEF Sent, Unanswered, Reverse, AnsweredOnce
    <3> QED BY <3>1, <3>2, <3>3 DEF Unanswered, Reverse, AnsweredOnce
  <2>6. Kept(toClient, toClient', t)
    BY <1>2, KeptSame
  <2>7. IsReverse(t) => proxy'[t] = proxy[t]
    BY <2>3
  <2> QED BY <1>2, <1>3, <2>2, <2>3, <2>4, <2>5, <2>6, <2>7, LastUserGone
<1> QED BY <1>8, <1>9, <1>10

-----------------------------------------------------------------------------
(* The messages *)

LEMMA ClientHandlesKeeps ==
  ASSUME Typed, ~isClosed, \A t \in Call : Tidy(t), ClientHandles, NEW z \in Call
  PROVE  Tidy(z)'
<1>1. PICK e \in Event, t \in Call :
        /\ Head(toClient).event = e /\ Head(toClient).tunnel = t
        /\ Handled(toClient, toClient', e, t)
  BY HandledBy DEF ClientHandles, Typed
<1>2. /\ UNCHANGED <<request, tunnelOf, inServer>>
      /\ \A k \in Call : stage[k] # "creating"
      /\ Tidy(z) /\ Tidy(t)
  BY DEF ClientHandles, NoMicrotask
<1>3. In(toClient, Message(e, t))
  BY <1>1 DEF Handled
<1>4. IsReverse(t) /\ Reverse(t)
  BY <1>2, <1>3 DEF Tidy, Forward
<1>5. stage[t] \notin Early
  BY <1>3, <1>4 DEF Reverse
<1>6. IsReverse(t)'
  BY <1>2, <1>4 DEF IsReverse
<1>7. z # t => Kept(toClient, toClient', z)
  BY <1>1 DEF Handled
<1>8. /\ \A f \in Event : In(toClient, Message(f, t)) <=> In(toClient', Message(f, t)) \/ f = e
      /\ \A f \in Event : Once(toClient, Message(f, t))
           => Once(toClient', Message(f, t)) /\ (f = e => ~In(toClient', Message(f, t)))
  BY <1>1 DEF Handled
<1>9. ASSUME e \in {"proxyCreated", "proxyError"}
      PROVE  /\ t \in Tunnel /\ Unanswered(t) /\ ~Closing(t)
             /\ Users(t) = Asking(t) /\ \A k \in Users(t) : stage[k] = "asking"
             /\ refCount[t] = Cardinality(Users(t))
  <2>1. Unanswered(t)
    BY <1>3, <1>9 DEF Unanswered
  <2>2. ~Closing(t) /\ t \in Tunnel /\ \A k \in Users(t) : stage[k] = "asking"
    BY <1>2, <1>4, <2>1 DEF Reverse
  <2>3. Users(t) = Asking(t)
    BY <2>2 DEF Users, Asking
  <2> QED BY <1>2, <2>1, <2>2, <2>3 DEF Tidy, Counted
<1>10. ASSUME NEW s \in {"open", "failed"},
              stage' = [k \in Call |-> IF k \in Asking(t) THEN s ELSE stage[k]]
       PROVE  /\ \A k \in Call : k \notin Asking(t) => stage'[k] = stage[k]
              /\ \A k \in Asking(t) : stage'[k] = s
              /\ z # t => Users(z)' = Users(z) /\ \A k \in Users(z) : stage'[k] = stage[k]
              /\ stage'[z] \in Early => stage'[z] = stage[z]
              /\ stage'[t] \notin Early
  <2>1. /\ \A k \in Call : k \notin Asking(t) => stage'[k] = stage[k]
        /\ \A k \in Asking(t) : stage'[k] = s
    BY <1>10 DEF Asking
  <2>2. ASSUME z # t PROVE Users(z)' = Users(z) /\ \A k \in Users(z) : stage'[k] = stage[k]
    <3>1. \A k \in Call : tunnelOf[k] = z => k \notin Asking(t)
      BY <2>2 DEF Asking
    <3> QED BY <1>2, <2>1, <3>1 DEF Users
  <2>3. stage'[z] \in Early => stage'[z] = stage[z]
    BY <1>10, <2>1 DEF Early
  <2>4. stage'[t] \notin Early
    BY <1>5, <1>10, <2>1 DEF Early
  <2> QED BY <2>1, <2>2, <2>3, <2>4
<1>11. ASSUME e = "proxyCreated" PROVE Tidy(z)'
  <2>1. /\ stage' = [k \in Call |-> IF k \in Asking(t) THEN "open" ELSE stage[k]]
        /\ inClient' = [inClient EXCEPT ![t] = IF @ = "none" THEN "socketManager" ELSE @]
        /\ UNCHANGED <<refCount, proxy, toServer>>
    BY <1>1, <1>11 DEF ClientHandles
  <2>2. t \in Tunnel /\ inClient' = inClient
    BY <1>9, <1>11, <2>1 DEF Typed, Tunnel
  <2>3. /\ z # t => Users(z)' = Users(z) /\ \A k \in Users(z) : stage'[k] = stage[k]
        /\ stage'[z] \in Early => stage'[z] = stage[z]
        /\ stage'[t] \notin Early
        /\ \A k \in Call : k \notin Asking(t) => stage'[k] = stage[k]
        /\ \A k \in Asking(t) : stage'[k] = "open"
    BY <1>10, <2>1
  <2>4. Kept(toServer, toServer', z)
    BY <2>1, KeptSame
  <2>5. ASSUME z # t PROVE Tidy(z)'
    BY <1>2, <1>7, <2>1, <2>2, <2>3, <2>4, <2>5, TidyUntouched
  <2>6. Tidy(t)'
    <3>1. Users(t)' = Users(t)
      <4>1. \A k \in Users(t)' : k \in Users(t)
        BY <1>2, <2>3 DEF Users, Asking
      <4>2. \A k \in Users(t) : k \in Users(t)'
        BY <1>2, <1>9, <1>11, <2>3 DEF Users
      <4> QED BY <4>1, <4>2
    <3>2. Counted(t)' /\ Fresh(t)' /\ t \in Tunnel' /\ inClient'[t] # "socketManager"
      BY <1>2, <2>1, <2>2, <2>3, <3>1 DEF Tidy, Counted, Fresh, Tunnel
    <3>3. /\ proxy[t] = "open"
          /\ ~In(toServer, Message("createProxy", t)) /\ ~In(toClient, Message("proxyError", t))
      BY <1>3, <1>4, <1>11 DEF Reverse, AnsweredOnce
    <3>4. /\ ~In(toClient', Message("proxyCreated", t))
          /\ Once(toClient', Message("proxyCreated", t))
          /\ Once(toClient', Message("proxyError", t))
          /\ In(toClient', Message("proxyError", t)) => In(toClient, Message("proxyError", t))
          /\ In(toClient', Message("proxyClosed", t)) => In(toClient, Message("proxyClosed", t))
      BY <1>4, <1>8, <1>11, EventNames DEF Reverse, AnsweredOnce
    <3>5. ~Unanswered(t)' /\ AnsweredOnce(t)'
      BY <1>4, <2>1, <3>3, <3>4 DEF Unanswered, AnsweredOnce, Reverse
    <3>6. ~Closing(t)'
      BY <1>9, <1>11, <2>1, <3>4 DEF Closing
    <3>7. Reverse(t)'
      BY <1>2, <1>4, <2>1, <2>3, <3>2, <3>3, <3>5, <3>6 DEF Reverse
    <3> QED BY <1>6, <3>2, <3>7 DEF Tidy
  <2> QED BY <2>5, <2>6
<1>12. ASSUME e = "proxyError" PROVE Tidy(z)'
  <2>1. PICK n \in Int : n = Cardinality(Asking(t))
    BY UsersFinite
  <2>2. /\ stage' = [k \in Call |-> IF k \in Asking(t) THEN "failed" ELSE stage[k]]
        /\ Drop(t, n)
    BY <1>1, <1>12, <2>1 DEF ClientHandles
  <2>3. /\ z # t => Users(z)' = Users(z) /\ \A k \in Users(z) : stage'[k] = stage[k]
        /\ stage'[z] \in Early => stage'[z] = stage[z]
        /\ stage'[t] \notin Early
        /\ \A k \in Call : k \notin Asking(t) => stage'[k] = stage[k]
        /\ \A k \in Asking(t) : stage'[k] = "failed"
    BY <1>10, <2>2
  <2>4. ASSUME z # t PROVE Tidy(z)'
    <3>1. /\ refCount'[z] = refCount[z] /\ inClient'[z] = inClient[z]
          /\ proxy'[z] = proxy[z] /\ Kept(toServer, toServer', z)
      BY <2>2, <2>4, DropEffect
    <3> QED BY <1>2, <1>7, <2>3, <2>4, <3>1, TidyUntouched
  <2>5. Tidy(t)'
    <3>1. ~(refCount[t] - n > 0)
      BY <1>9, <1>12, <2>1
    <3>2. /\ inClient'[t] = "none" /\ proxy' = proxy
          /\ Sent(toServer, toServer', "closeProxy", t)
      BY <1>4, <2>2, <3>1, DropEffect
    <3>3. Users(t)' = {}
      <4>1. \A k \in Call : ~(k \in Users(t)')
        BY <1>2, <1>9, <1>12, <2>3 DEF Users, Asking
      <4> QED BY <4>1 DEF Users
    <3>4. /\ proxy[t] = "closed"
          /\ ~In(toServer, Message("createProxy", t)) /\ ~In(toClient, Message("proxyCreated", t))
      BY <1>3, <1>4, <1>12 DEF Reverse, AnsweredOnce
    <3>5. /\ ~In(toClient', Message("proxyError", t))
          /\ Once(toClient', Message("proxyCreated", t))
          /\ Once(toClient', Message("proxyError", t))
          /\ ~In(toClient', Message("proxyCreated", t))
      BY <1>4, <1>8, <1>12, <3>4, EventNames DEF Reverse, AnsweredOnce
    <3>6. ~In(toServer', Message("createProxy", t)) /\ Once(toServer', Message("createProxy", t))
      BY <1>4, <3>2, <3>4, EventNames DEF Sent, Reverse, AnsweredOnce
    <3>7. ~Unanswered(t)' /\ AnsweredOnce(t)'
      BY <3>2, <3>4, <3>5, <3>6 DEF Unanswered, AnsweredOnce
    <3> QED BY <1>2, <1>4, <1>9, <1>12, <2>3, <3>2, <3>3, <3>7, LastUserGone
  <2> QED BY <2>4, <2>5
<1>13. ASSUME e = "proxyClosed" PROVE Tidy(z)'
  <2>1. Closing(t) /\ t \notin Tunnel /\ ~Unanswered(t)
    BY <1>3, <1>4, <1>13 DEF Closing, Reverse
  <2>2. UNCHANGED <<stage, refCount, inClient, proxy, toServer>>
    BY <1>1, <1>13, <2>1 DEF ClientHandles, Tunnel
  <2>3. ASSUME z # t PROVE Tidy(z)'
    <3>1. Kept(toServer, toServer', z)
      BY <2>2, KeptSame
    <3> QED BY <1>2, <1>7, <2>2, <2>3, <3>1, TidyCalls
  <2>4. Tidy(t)'
    <3>1. (Counted(t)' <=> Counted(t)) /\ t \notin Tunnel'
      BY <1>2, <2>1, <2>2, CountsSame
    <3>2. Fresh(t)' /\ inClient'[t] # "socketManager"
      BY <1>2, <1>5, <2>2 DEF Tidy, Fresh
    <3>3. /\ \A f \in Event : In(toClient', Message(f, t)) => In(toClient, Message(f, t))
          /\ \A f \in Event : Once(toClient, Message(f, t)) => Once(toClient', Message(f, t))
      BY <1>8
    <3>4. ~Unanswered(t)' /\ AnsweredOnce(t)'
      BY <1>4, <2>1, <2>2, <3>3, EventNames DEF Unanswered, AnsweredOnce, Reverse
    <3>5. Reverse(t)'
      BY <1>2, <1>4, <1>5, <2>1, <2>2, <3>1, <3>4 DEF Reverse
    <3> QED BY <1>2, <1>6, <3>1, <3>2, <3>5 DEF Tidy
  <2> QED BY <2>3, <2>4
<1> QED BY <1>1, <1>11, <1>12, <1>13 DEF ClientHandles

LEMMA ServerHandlesKeeps ==
  ASSUME Typed, ~isClosed, \A t \in Call : Tidy(t), ServerHandles, NEW z \in Call
  PROVE  Tidy(z)'
<1>1. PICK e \in Event, t \in Call :
        /\ Head(toServer).event = e /\ Head(toServer).tunnel = t
        /\ Handled(toServer, toServer', e, t)
  BY HandledBy DEF ServerHandles, Typed
<1>2. /\ UNCHANGED <<request, stage, tunnelOf, inClient, refCount>>
      /\ \A k \in Call : stage[k] # "creating"
      /\ Tidy(z) /\ Tidy(t)
  BY DEF ServerHandles, NoMicrotask, callVars
<1>3. In(toServer, Message(e, t))
  BY <1>1 DEF Handled
<1>4. z # t => Kept(toServer, toServer', z)
  BY <1>1 DEF Handled
<1>5. /\ \A f \in Event : In(toServer, Message(f, t)) <=> In(toServer', Message(f, t)) \/ f = e
      /\ \A f \in Event : Once(toServer, Message(f, t))
           => Once(toServer', Message(f, t)) /\ (f = e => ~In(toServer', Message(f, t)))
      /\ \A f, g \in Event : Before(toServer, Message(f, t), Message(g, t))
           => /\ Before(toServer', Message(f, t), Message(g, t))
              /\ g = e => ~In(toServer', Message(f, t))
  BY <1>1 DEF Handled
<1>6. /\ IsReverse(t)' <=> IsReverse(t)
      /\ Users(t)' = Users(t) /\ (Counted(t)' <=> Counted(t)) /\ (t \in Tunnel' <=> t \in Tunnel)
      /\ Fresh(t)' <=> Fresh(t)
      /\ inClient'[t] # "socketManager"
  BY <1>2, CountsSame DEF IsReverse, Fresh, Tidy
<1>7. /\ \A j \in Call : j # t => proxy'[j] = proxy[j] /\ inServer'[j] = inServer[j]
      /\ z # t => Kept(toClient, toClient', z)
  <2>1. CASE /\ \/ proxy' = [proxy EXCEPT ![t] = "closed"]
                \/ StartListening(t)
                \/ proxy' = proxy
             /\ \/ inServer' = inServer
                \/ inServer' = [inServer EXCEPT ![t] = "none"]
                \/ inServer' = [inServer EXCEPT ![t] = IF @ = "none" THEN "socketManager" ELSE @]
             /\ toClient' = toClient \/ ToClient("proxyClosed", t)
    <3>1. \A j \in Call : j # t => proxy'[j] = proxy[j] /\ inServer'[j] = inServer[j]
      BY <2>1 DEF Typed, StartListening
    <3>2. ASSUME z # t PROVE Kept(toClient, toClient', z)
      <4>1. CASE toClient' = toClient
        BY <4>1, KeptSame
      <4>2. CASE ToClient("proxyClosed", t)
        BY <3>2, <4>2, SentBy, EventNames DEF Sent
      <4> QED BY <2>1, <4>1, <4>2
    <3> QED BY <3>1, <3>2
  <2> QED BY <1>1, <2>1 DEF ServerHandles, ServerCloses
<1>8. ASSUME z # t PROVE Tidy(z)'
  BY <1>2, <1>4, <1>7, <1>8, TidyCalls
<1>9. ASSUME e = "createProxy" PROVE Tidy(t)'
  <2>1. StartListening(t) /\ UNCHANGED <<inServer, toClient>>
    BY <1>1, <1>9 DEF ServerHandles
  <2>2. IsReverse(t) /\ Reverse(t)
    BY <1>2, <1>3, <1>9 DEF Tidy, Forward
  <2>3. Unanswered(t) /\ ~Closing(t) /\ t \in Tunnel
    BY <1>2, <1>3, <1>9, <2>2 DEF Unanswered, Reverse
  <2>4. /\ proxy[t] = "none"
        /\ ~In(toClient, Message("proxyCreated", t)) /\ ~In(toClient, Message("proxyError", t))
    BY <1>3, <1>9, <2>2 DEF Reverse, AnsweredOnce
  <2>5. proxy'[t] \in {"bound", "refused"}
    BY <2>1 DEF Typed, StartListening
  <2>6. ~In(toServer', Message("createProxy", t)) /\ Once(toServer', Message("createProxy", t))
    BY <1>5, <1>9, <2>2, EventNames DEF Reverse, AnsweredOnce
  <2>7. AnsweredOnce(t)' /\ Unanswered(t)'
    BY <2>1, <2>2, <2>4, <2>5, <2>6 DEF Reverse, AnsweredOnce, Unanswered
  <2>8. ~Closing(t)'
    BY <1>5, <2>1, <2>3, EventNames DEF Closing
  <2>9. stage[t] \notin Early
    BY <1>2, <2>3 DEF Tidy, Fresh, Tunnel
  <2>10. ~In(toServer', Message("proxyCreated", t)) /\ ~In(toServer', Message("proxyClosed", t))
    BY <1>5, <2>2, EventNames DEF Reverse
  <2>11. /\ \A k \in Users(t) : stage[k] = "asking"
         /\ inServer[t] # "socketManager"
    BY <1>2, <2>2, <2>3 DEF Reverse
  <2>12. Reverse(t)'
    BY <1>2, <1>6, <2>1, <2>3, <2>5, <2>7, <2>8, <2>9, <2>10, <2>11 DEF Reverse
  <2> QED BY <1>2, <1>6, <2>2, <2>12 DEF Tidy
<1>10. ASSUME e = "closeProxy" PROVE Tidy(t)'
  <2>1. ServerCloses(Head(toServer)) /\ inServer' = inServer
    BY <1>1, <1>10 DEF ServerHandles, ServerCloses
  <2>2. IsReverse(t) /\ Reverse(t)
    BY <1>2, <1>3, <1>10 DEF Tidy, Forward
  <2>3. ~Unanswered(t) /\ Closing(t) /\ t \notin Tunnel
    BY <1>3, <1>10, <2>2 DEF Closing, Reverse
  <2>4. stage[t] \notin Early
    BY <2>2, <2>3 DEF Reverse
  <2>5. /\ proxy'[t] # "open" /\ proxy'[t] \notin {"bound", "refused"}
        /\ \A f \in Event : f # "proxyClosed" =>
             /\ In(toClient', Message(f, t)) <=> In(toClient, Message(f, t))
             /\ Once(toClient, Message(f, t)) => Once(toClient', Message(f, t))
    <3>1. CASE inServer[t] = "proxy"
      <4>1. proxy' = [proxy EXCEPT ![t] = "closed"] /\ ToClient("proxyClosed", t)
        BY <1>1, <2>1, <3>1 DEF ServerCloses
      <4>2. proxy'[t] = "closed"
        BY <4>1 DEF Typed
      <4>3. Sent(toClient, toClient', "proxyClosed", t)
        BY <4>1, SentBy, EventNames
      <4> QED BY <4>2, <4>3 DEF Sent
    <3>2. CASE inServer[t] # "proxy"
      <4>1. UNCHANGED <<proxy, toClient>>
        BY <1>1, <2>1, <3>2 DEF ServerCloses
      <4>2. proxy[t] # "open" /\ proxy[t] \notin {"bound", "refused"}
        BY <2>2, <2>3, <3>2 DEF Reverse, Unanswered
      <4> QED BY <4>1, <4>2
    <3> QED BY <3>1, <3>2
  <2>6. /\ ~In(toClient, Message("proxyCreated", t)) /\ ~In(toClient, Message("proxyError", t))
        /\ ~In(toServer, Message("createProxy", t))
    BY <2>3 DEF Unanswered
  <2>7. /\ ~In(toClient', Message("proxyCreated", t)) /\ ~In(toClient', Message("proxyError", t))
        /\ Once(toClient', Message("proxyCreated", t)) /\ Once(toClient', Message("proxyError", t))
    BY <2>2, <2>5, <2>6, EventNames DEF Reverse, AnsweredOnce
  <2>8. ~In(toServer', Message("createProxy", t)) /\ Once(toServer', Message("createProxy", t))
    BY <1>5, <2>2, <2>6, EventNames DEF Reverse, AnsweredOnce
  <2>9. ~Unanswered(t)' /\ AnsweredOnce(t)'
    BY <2>5, <2>7, <2>8 DEF Unanswered, AnsweredOnce
  <2>10. ~In(toServer', Message("proxyCreated", t)) /\ ~In(toServer', Message("proxyClosed", t))
    BY <1>5, <2>2, EventNames DEF Reverse
  <2>11. inServer[t] # "socketManager"
    BY <2>2 DEF Reverse
  <2>12. Reverse(t)'
    BY <1>2, <1>6, <2>1, <2>3, <2>4, <2>5, <2>9, <2>10, <2>11 DEF Reverse
  <2> QED BY <1>2, <1>6, <2>2, <2>12 DEF Tidy
<1>11. ASSUME e \in {"proxyCreated", "proxyClosed", "proxyError"}, ~IsReverse(t) PROVE Tidy(t)'
  <2>1. Forward(t)
    BY <1>2, <1>11 DEF Tidy
  <2>2. /\ inServer'[t] = IF e = "proxyClosed" THEN "none"
                          ELSE IF e = "proxyCreated" /\ inServer[t] = "none" THEN "socketManager"
                          ELSE inServer[t]
        /\ proxy' = proxy /\ toClient' = toClient
    BY <1>1, <1>11, <2>1 DEF Typed, ServerHandles, ServerCloses, Forward
  <2>3. /\ In(toServer', Message("createProxy", t)) => In(toServer, Message("createProxy", t))
        /\ In(toServer', Message("closeProxy", t)) => In(toServer, Message("closeProxy", t))
        /\ In(toServer', Message("proxyCreated", t)) => In(toServer, Message("proxyCreated", t))
        /\ In(toServer', Message("proxyClosed", t)) => In(toServer, Message("proxyClosed", t))
        /\ e # "proxyClosed" =>
             (In(toServer, Message("proxyClosed", t)) => In(toServer', Message("proxyClosed", t)))
        /\ e # "proxyCreated" =>
             (In(toServer, Message("proxyCreated", t)) => In(toServer', Message("proxyCreated", t)))
    BY <1>5, EventNames
  <2>4. /\ Before(toServer', Message("proxyCreated", t), Message("proxyClosed", t))
        /\ e = "proxyClosed" => ~In(toServer', Message("proxyCreated", t))
    BY <1>5, <2>1, EventNames DEF Forward
  <2>5. inServer[t] \in {"none", "socketManager"}
    BY <2>1 DEF Typed, Forward
  <2>6. e = "proxyCreated" => inServer'[t] = "socketManager"
    BY <2>2, <2>5
  <2>7. ASSUME stage[t] \in Early
        PROVE  /\ inServer'[t] = "none" /\ ~In(toServer', Message("proxyCreated", t))
               /\ ~In(toServer', Message("proxyClosed", t))
    <3>1. /\ inServer[t] = "none" /\ ~In(toServer, Message("proxyCreated", t))
          /\ ~In(toServer, Message("proxyClosed", t))
      BY <2>1, <2>7 DEF Forward
    <3>2. e = "proxyError"
      BY <1>3, <1>11, <3>1
    <3> QED BY <2>2, <2>3, <3>1, <3>2
  <2>8. ASSUME t \in Tunnel
        PROVE  /\ inServer'[t] = "socketManager" \/ In(toServer', Message("proxyCreated", t))
               /\ ~In(toServer', Message("proxyClosed", t))
    <3>1. /\ inServer[t] = "socketManager" \/ In(toServer, Message("proxyCreated", t))
          /\ ~In(toServer, Message("proxyClosed", t))
      BY <2>1, <2>8 DEF Forward
    <3>2. e # "proxyClosed"
      BY <1>3, <3>1
    <3> QED BY <2>2, <2>3, <2>6, <3>1, <3>2
  <2>9. ASSUME t \notin Tunnel,
               inServer'[t] = "socketManager" \/ In(toServer', Message("proxyCreated", t))
        PROVE  In(toServer', Message("proxyClosed", t))
    <3>1. e # "proxyClosed"
      BY <2>2, <2>4, <2>9
    <3>2. inServer[t] = "socketManager" \/ In(toServer, Message("proxyCreated", t))
      BY <1>3, <2>2, <2>3, <2>9
    <3>3. In(toServer, Message("proxyClosed", t))
      BY <2>1, <2>9, <3>2 DEF Forward
    <3> QED BY <2>3, <3>1, <3>3
  <2>10. inServer'[t] # "proxy"
    BY <2>2, <2>5
  <2>11. /\ ~In(toServer', Message("createProxy", t)) /\ ~In(toServer', Message("closeProxy", t))
         /\ \A f \in Event : ~In(toClient', Message(f, t))
         /\ t \in Tunnel <=> proxy'[t] = "open"
    BY <2>1, <2>2, <2>3 DEF Forward
  <2>12. Forward(t)'
    BY <1>2, <1>6, <2>4, <2>7, <2>8, <2>9, <2>10, <2>11 DEF Forward
  <2> QED BY <1>2, <1>6, <1>11, <2>12 DEF Tidy
<1>12. ASSUME e \in {"proxyCreated", "proxyClosed", "proxyError"}, IsReverse(t) PROVE Tidy(t)'
  <2>1. Reverse(t)
    BY <1>2, <1>12 DEF Tidy
  <2>2. e = "proxyError"
    BY <1>3, <1>12, <2>1 DEF Reverse
  <2>3. UNCHANGED <<inServer, proxy, toClient>>
    BY <1>1, <2>2 DEF ServerHandles
  <2>4. /\ In(toServer', Message("createProxy", t)) <=> In(toServer, Message("createProxy", t))
        /\ In(toServer', Message("closeProxy", t)) <=> In(toServer, Message("closeProxy", t))
        /\ In(toServer', Message("proxyCreated", t)) <=> In(toServer, Message("proxyCreated", t))
        /\ In(toServer', Message("proxyClosed", t)) <=> In(toServer, Message("proxyClosed", t))
        /\ Once(toServer, Message("createProxy", t)) => Once(toServer', Message("createProxy", t))
    BY <1>5, <2>2, EventNames
  <2>5. /\ Closing(t)' <=> Closing(t)
        /\ Unanswered(t)' <=> Unanswered(t)
        /\ AnsweredOnce(t)'
    BY <2>1, <2>3, <2>4 DEF Closing, Unanswered, AnsweredOnce, Reverse
  <2>6. Reverse(t)'
    BY <1>2, <1>6, <2>1, <2>3, <2>4, <2>5 DEF Reverse
  <2> QED BY <1>2, <1>6, <1>12, <2>6 DEF Tidy
<1> QED BY <1>8, <1>9, <1>10, <1>11, <1>12 DEF Event

LEMMA ServerListensKeeps ==
  ASSUME Typed, ~isClosed, \A t \in Call : Tidy(t), NEW t \in Call, ServerListens(t), NEW z \in Call
  PROVE  Tidy(z)'
<1>1. /\ UNCHANGED <<request, stage, tunnelOf, inClient, refCount, toServer>>
      /\ Tidy(z) /\ Tidy(t) /\ IsReverse(t) /\ Reverse(t)
  BY DEF ServerListens, callVars, Tidy
<1>2. PICK e \in {"proxyCreated", "proxyError"} :
        /\ Sent(toClient, toClient', e, t)
        /\ proxy[t] = IF e = "proxyCreated" THEN "bound" ELSE "refused"
        /\ proxy' = [proxy EXCEPT ![t] = IF e = "proxyCreated" THEN "open" ELSE "closed"]
        /\ inServer' = IF e = "proxyCreated" THEN [inServer EXCEPT ![t] = "proxy"] ELSE inServer
  BY SentBy, EventNames DEF ServerListens
<1>3. /\ proxy'[t] = IF e = "proxyCreated" THEN "open" ELSE "closed"
      /\ inServer'[t] = IF e = "proxyCreated" THEN "proxy" ELSE inServer[t]
      /\ \A j \in Call : j # t => proxy'[j] = proxy[j] /\ inServer'[j] = inServer[j]
  BY <1>2 DEF Typed
<1>4. ASSUME z # t PROVE Tidy(z)'
  <2>1. Kept(toServer, toServer', z) /\ Kept(toClient, toClient', z)
    BY <1>1, <1>2, <1>4, KeptSame DEF Sent
  <2> QED BY <1>1, <1>3, <1>4, <2>1, TidyCalls
<1>5. Tidy(t)'
  <2>1. /\ IsReverse(t)'
        /\ Users(t)' = Users(t) /\ (Counted(t)' <=> Counted(t)) /\ (t \in Tunnel' <=> t \in Tunnel)
        /\ Fresh(t)' <=> Fresh(t)
        /\ inClient'[t] # "socketManager"
    BY <1>1, CountsSame DEF IsReverse, Fresh, Tidy
  <2>2. Unanswered(t) /\ ~Closing(t) /\ stage[t] \notin Early
    BY <1>1, <1>2 DEF Unanswered, Reverse
  <2>3. t \in Tunnel /\ \A k \in Users(t) : stage[k] = "asking"
    BY <1>1, <2>2 DEF Reverse, Early
  <2>4. /\ ~In(toServer, Message("createProxy", t))
        /\ ~In(toClient, Message("proxyCreated", t)) /\ ~In(toClient, Message("proxyError", t))
    BY <1>1, <1>2 DEF Reverse, AnsweredOnce
  <2>5. /\ \A f \in Event : In(toClient', Message(f, t)) <=> In(toClient, Message(f, t)) \/ f = e
        /\ \A f \in Event : Once(toClient, Message(f, t)) /\ (f = e => ~In(toClient, Message(f, t)))
                              => Once(toClient', Message(f, t))
    BY <1>2 DEF Sent
  <2>6. /\ In(toClient', Message(e, t))
        /\ e = "proxyCreated" => ~In(toClient', Message("proxyError", t))
        /\ e = "proxyError" => ~In(toClient', Message("proxyCreated", t))
        /\ Once(toClient', Message("proxyCreated", t)) /\ Once(toClient', Message("proxyError", t))
        /\ In(toClient', Message("proxyClosed", t)) => In(toClient, Message("proxyClosed", t))
    BY <1>1, <2>4, <2>5, EventNames DEF Reverse, AnsweredOnce
  <2>7. Unanswered(t)'
    BY <2>6 DEF Unanswered
  <2>8. AnsweredOnce(t)'
    BY <1>1, <1>3, <2>4, <2>6 DEF Reverse, AnsweredOnce
  <2>9. ~Closing(t)'
    BY <1>1, <2>2, <2>6 DEF Closing
  <2>10. inServer'[t] # "socketManager" /\ (proxy'[t] = "open" => inServer'[t] = "proxy")
    BY <1>1, <1>3 DEF Reverse
  <2>11. Reverse(t)'
    BY <1>1, <2>1, <2>2, <2>3, <2>7, <2>8, <2>9, <2>10 DEF Reverse
  <2> QED BY <2>1, <1>1, <2>11 DEF Tidy
<1> QED BY <1>4, <1>5

-----------------------------------------------------------------------------
(* The theorems *)

LEMMA TidyInit ==
  ASSUME Init, NEW t \in Call
  PROVE  Tidy(t)
<1>1. \A m : ~In(toServer, m) /\ ~In(toClient, m)
  BY DEF Init, In
<1>2. \A m, n : Once(toServer, m) /\ Once(toClient, m) /\ Before(toServer, m, n)
  BY DEF Init, Once, Before
<1>3. /\ stage[t] = "idle" /\ tunnelOf[t] = t /\ inClient[t] = "none"
      /\ inServer[t] = "none" /\ proxy[t] = "none"
      /\ Users(t) = {} /\ t \notin Tunnel
  BY DEF Init, Users, Tunnel
<1>4. Fresh(t) /\ Counted(t)
  BY <1>3 DEF Fresh, Counted
<1>5. Forward(t)
  BY <1>1, <1>2, <1>3 DEF Forward
<1>6. ~Closing(t) /\ ~Unanswered(t) /\ AnsweredOnce(t)
  BY <1>1, <1>2, <1>3 DEF Closing, Unanswered, AnsweredOnce
<1>7. Reverse(t)
  BY <1>1, <1>3, <1>6 DEF Reverse
<1> QED BY <1>3, <1>4, <1>5, <1>7 DEF Tidy

\* Every step preserves the invariant; when the client closes it ends.
LEMMA TunnelsInvStep ==
  ASSUME TunnelsInv, [Next]_vars
  PROVE  TunnelsInv'
<1>1. Typed /\ Typed'
  BY TypedStep DEF TunnelsInv
<1>2. ASSUME ~isClosed', NEW z \in Call
      PROVE  Tidy(z)'
  <2>1. ~isClosed
    <3>1. isClosed => isClosed'
      BY DEF Next, Create, RegisterReverse, Listens, CloseTunnel, ServerListens,
             ClientHandles, ServerHandles, Close, vars
    <3> QED BY <1>2, <3>1
  <2>2. \A t \in Call : Tidy(t)
    BY <2>1 DEF TunnelsInv
  <2>3. ASSUME NEW k \in Call, Create(k) PROVE Tidy(z)'
    BY <1>1, <2>2, <2>3, CreateKeeps
  <2>4. ASSUME NEW k \in Call, RegisterReverse(k) PROVE Tidy(z)'
    BY <1>1, <2>2, <2>4, RegisterReverseKeeps
  <2>5. ASSUME NEW k \in Call, Listens(k) PROVE Tidy(z)'
    BY <1>1, <2>1, <2>2, <2>5, ListensKeeps
  <2>6. ASSUME NEW k \in Call, CloseTunnel(k) PROVE Tidy(z)'
    BY <1>1, <2>1, <2>2, <2>6, CloseTunnelKeeps
  <2>7. ASSUME NEW k \in Call, ServerListens(k) PROVE Tidy(z)'
    BY <1>1, <2>1, <2>2, <2>7, ServerListensKeeps
  <2>8. ASSUME ClientHandles PROVE Tidy(z)'
    BY <1>1, <2>1, <2>2, <2>8, ClientHandlesKeeps
  <2>9. ASSUME ServerHandles PROVE Tidy(z)'
    BY <1>1, <2>1, <2>2, <2>9, ServerHandlesKeeps
  <2>10. ASSUME Close PROVE FALSE
    BY <1>2, <2>10 DEF Close
  <2>11. CASE UNCHANGED vars
    <3>1. Kept(toServer, toServer', z) /\ Kept(toClient, toClient', z)
      BY <2>11, KeptSame DEF vars
    <3> QED BY <1>1, <2>2, <2>11, <3>1, TidyCalls DEF vars, callVars
  <2> QED BY <2>3, <2>4, <2>5, <2>6, <2>7, <2>8, <2>9, <2>10, <2>11 DEF Next
<1> QED BY <1>1, <1>2 DEF TunnelsInv

\* The invariant: which messages about a tunnel are on their way, in which
\* order and how often, given what the two ends hold of it.
THEOREM TunnelsInvariant == Spec => []TunnelsInv
<1>1. Init => TunnelsInv
  BY TypedInit, TidyInit DEF TunnelsInv
<1>2. TunnelsInv /\ [Next]_vars => TunnelsInv'
  BY TunnelsInvStep
<1> QED BY <1>1, <1>2, PTL DEF Spec

\* The _refCount of every tunnel is the number of the callers that have it or
\* wait for it, however their calls, failures and closes interleave, until
\* the client is closed.
THEOREM TunnelCountsExact == Spec => []CountsExact
<1>1. TunnelsInv => CountsExact
  BY DEF TunnelsInv, CountsExact, Tidy, Counted
<1> QED BY <1>1, TunnelsInvariant, PTL

\* When nothing is in flight a tunnel of the client has its Proxy listening at
\* one end and its SocketManager at the other, and a tunnel that was closed,
\* or never came to be, left neither behind.
THEOREM EndsPairedAtRest == Spec => []PairedAtRest
<1>1. ASSUME TunnelsInv PROVE PairedAtRest
  <2> SUFFICES ASSUME AtRest, ~isClosed, NEW t \in Call
               PROVE  /\ t \in Tunnel <=> proxy[t] = "open"
                      /\ t \in Tunnel /\ ~IsReverse(t) <=> inServer[t] = "socketManager"
                      /\ inClient[t] # "socketManager"
    BY DEF PairedAtRest
  <2>1. \A m : ~In(toServer, m) /\ ~In(toClient, m)
    BY DEF AtRest, In
  <2>2. Tidy(t)
    BY <1>1 DEF TunnelsInv
  <2>3. CASE ~IsReverse(t)
    BY <2>1, <2>2, <2>3 DEF Tidy, Forward
  <2>4. CASE IsReverse(t)
    <3>1. ~Unanswered(t)
      BY <2>1, <2>4 DEF AtRest, Unanswered
    <3> QED BY <2>1, <2>2, <2>4, <3>1 DEF Tidy, Reverse
  <2> QED BY <2>3, <2>4
<1>2. TunnelsInv => PairedAtRest
  BY <1>1
<1> QED BY <1>2, TunnelsInvariant, PTL

-----------------------------------------------------------------------------
(* The bounds of a count *)

Closed == {k \in Call : stage[k] = "closed"}

\* Counts are bounded also after the client was closed, when close() of a tunnel
\* still counts down; of a transport that was closed nothing is read.
Bounded ==
  /\ \A t \in Call : /\ refCount[t] <= Cardinality(Call)
                     /\ refCount[t] >= -1 - Cardinality(Closed)
  /\ isClosed => toClient = <<>>

LEMMA Cardinalities ==
  /\ Cardinality(Call) \in Nat /\ (Call # {} => Cardinality(Call) >= 1)
  /\ \A S \in SUBSET Call : IsFiniteSet(S) /\ Cardinality(S) \in Nat
                            /\ Cardinality(S) <= Cardinality(Call)
<1>1. Cardinality(Call) \in Nat /\ (Cardinality(Call) = 0 <=> Call = {})
  BY CallAssumption, FS_CardinalityType, FS_EmptySet
<1>2. ASSUME NEW S \in SUBSET Call
      PROVE  IsFiniteSet(S) /\ Cardinality(S) \in Nat /\ Cardinality(S) <= Cardinality(Call)
  BY CallAssumption, FS_Subset, FS_CardinalityType
<1> QED BY <1>1, <1>2

\* No action takes a call out of "closed".
LEMMA ClosedGrows ==
  ASSUME Typed, [Next]_vars
  PROVE  Closed \subseteq Closed'
<1> SUFFICES ASSUME NEW k \in Call, stage[k] = "closed" PROVE stage'[k] = "closed"
  BY DEF Closed
<1> USE DEF Typed
<1>1. ASSUME NEW j \in Call, Create(j) \/ RegisterReverse(j) \/ Listens(j) \/ CloseTunnel(j)
             \/ ServerListens(j)
      PROVE  stage'[k] = "closed"
  <2>1. CASE Create(j)
    BY <2>1 DEF Create, CreateNew
  <2>2. CASE RegisterReverse(j)
    BY <2>2 DEF RegisterReverse
  <2>3. CASE Listens(j)
    BY <2>3 DEF Listens
  <2>4. CASE CloseTunnel(j)
    BY <2>4 DEF CloseTunnel
  <2>5. CASE ServerListens(j)
    BY <2>5 DEF ServerListens, callVars
  <2> QED BY <1>1, <2>1, <2>2, <2>3, <2>4, <2>5
<1>2. CASE ClientHandles
  BY <1>2 DEF ClientHandles, Asking
<1>3. CASE ServerHandles
  BY <1>3 DEF ServerHandles, callVars
<1>4. CASE Close \/ UNCHANGED vars
  BY <1>4 DEF Close, vars, callVars
<1> QED BY <1>1, <1>2, <1>3, <1>4 DEF Next

\* A count that grows is that of a tunnel with these users, or of a new one.
LEMMA BoundedAbove ==
  ASSUME TunnelsInv, TunnelsInv', Bounded, Next, NEW t \in Call
  PROVE  refCount'[t] <= Cardinality(Call)
<1> USE DEF TunnelsInv, Typed
<1>1. refCount[t] <= Cardinality(Call) /\ refCount[t] \in Int /\ Cardinality(Call) \in Nat
      /\ Cardinality(Call) >= 1
  BY Cardinalities DEF Bounded
<1>2. ASSUME NEW k \in Call, Create(k) PROVE refCount'[t] <= Cardinality(Call)
  <2>1. CASE UNCHANGED refCount
    BY <1>1, <2>1
  <2>2. CASE t \notin Tunnel
    BY <1>1, <1>2, <2>2 DEF Create, ShareTunnel
  <2>3. CASE t \in Tunnel
    <3>1. t \in Tunnel' /\ ~isClosed'
      BY <1>2, <2>3 DEF Create, Tunnel
    <3>2. refCount'[t] = Cardinality(Users(t)')
      BY <3>1 DEF Tidy, Counted
    <3>3. Users(t)' \in SUBSET Call
      BY DEF Users
    <3> QED BY <3>2, <3>3, Cardinalities
  <2> QED BY <2>2, <2>3
<1>3. ASSUME NEW k \in Call, Register(k) PROVE refCount'[t] <= Cardinality(Call)
  BY <1>1, <1>3 DEF Register
<1>4. ASSUME NEW z \in Call, NEW n \in Nat, Drop(z, n) PROVE refCount'[t] <= Cardinality(Call)
  <2>1. refCount'[t] \in {refCount[t], refCount[t] - n}
    BY <1>4 DEF Drop
  <2> QED BY <1>1, <2>1
<1>5. CASE UNCHANGED refCount
  BY <1>1, <1>5
<1>6. ASSUME NEW k \in Call, CloseTunnel(k) PROVE refCount'[t] <= Cardinality(Call)
  BY <1>4, <1>6 DEF CloseTunnel
<1>7. CASE ClientHandles
  <2>1. PICK m \in MessageType : m = Head(toClient)
    BY <1>7, InTail DEF ClientHandles
  <2>2. m.tunnel \in Call /\ Cardinality(Asking(m.tunnel)) \in Nat
    BY MessageTyped, UsersFinite
  <2> QED BY <1>4, <1>5, <1>7, <2>1, <2>2 DEF ClientHandles
<1>8. CASE Close
  BY <1>1, <1>8 DEF Close
<1> QED
  BY <1>2, <1>3, <1>5, <1>6, <1>7, <1>8 DEF Next, RegisterReverse, Listens, ServerListens,
     ServerHandles

\* A count goes down with a user, who is closed by it, or at the end of a tunnel
\* which has the users it counts.
LEMMA BoundedBelow ==
  ASSUME TunnelsInv, Bounded, Next, NEW t \in Call
  PROVE  refCount'[t] >= -1 - Cardinality(Closed')
<1> USE DEF TunnelsInv, Typed
<1> DEFINE c == Cardinality(Closed) d == Cardinality(Closed')
<1> SUFFICES refCount'[t] >= -1 - d
  OBVIOUS
<1>1. Closed \in SUBSET Call /\ Closed' \in SUBSET Call
  BY DEF Closed
<1>2. /\ c \in Nat /\ d \in Nat /\ c <= d
      /\ refCount[t] >= -1 - c /\ refCount[t] \in Int
  <2>1. IsFiniteSet(Closed') /\ c \in Nat /\ d \in Nat
    BY <1>1, Cardinalities
  <2>2. c <= d
    BY <2>1, ClosedGrows, FS_Subset
  <2> QED BY <2>1, <2>2 DEF Bounded
<1>3. CASE refCount'[t] >= refCount[t]
  <2>1. refCount'[t] \in Int
    BY TypedStep
  <2> HIDE DEF c, d
  <2> QED BY <1>2, <1>3, <2>1
<1>4. CASE refCount'[t] \in Int /\ refCount'[t] >= -1
  <2> HIDE DEF c, d
  <2> QED BY <1>2, <1>4
<1>5. ASSUME NEW k \in Call, CloseTunnel(k) PROVE refCount'[t] >= -1 - d
  <2>1. refCount'[t] \in {refCount[t], refCount[t] - 1}
    BY <1>5 DEF CloseTunnel, Drop
  <2>2. d = c + 1
    <3>1. Closed' = Closed \cup {k} /\ k \notin Closed
      BY <1>5 DEF CloseTunnel, Closed
    <3>2. IsFiniteSet(Closed)
      BY <1>1, Cardinalities
    <3> QED BY <3>1, <3>2, FS_AddElement
  <2> HIDE DEF c, d
  <2> QED BY <1>2, <2>1, <2>2
<1>6. CASE ClientHandles
  <2>1. PICK m \in MessageType : m = Head(toClient)
    BY <1>6, InTail DEF ClientHandles
  <2>2. m.tunnel \in Call /\ ~isClosed
    BY <1>6, MessageTyped DEF ClientHandles, Bounded
  <2> DEFINE z == m.tunnel n == Cardinality(Asking(z)) u == Cardinality(Users(z))
  <2>3. Asking(z) \subseteq Users(z) /\ n \in Nat /\ u \in Nat /\ n <= u
    <3>1. Asking(z) \subseteq Users(z)
      BY DEF Asking, Users
    <3> QED BY <3>1, UsersFinite, FS_Subset
  <2>4. Counted(z)
    BY <2>2 DEF Tidy
  <2>5. CASE refCount'[t] = refCount[t]
    BY <1>2, <1>3, <2>5
  <2>6. CASE t = z /\ Drop(z, n)
    <3>1. refCount'[t] = refCount[t] - n
      BY <2>2, <2>6 DEF Drop
    <3>2. CASE z \in Tunnel
      <4>1. refCount[t] = u
        BY <2>4, <2>6, <3>2 DEF Counted
      <4>2. refCount'[t] \in Int /\ refCount'[t] >= -1
        <5> HIDE DEF n, u
        <5> QED BY <2>3, <3>1, <4>1
      <4> QED BY <1>4, <4>2
    <3>3. CASE z \notin Tunnel
      <4>1. Users(z) = {}
        BY <2>4, <3>3 DEF Counted
      <4>2. n = 0
        BY <2>3, <4>1, FS_EmptySet
      <4>3. refCount'[t] = refCount[t]
        BY <1>2, <3>1, <4>2
      <4> QED BY <1>2, <1>3, <4>3
    <3> QED BY <3>2, <3>3
  <2>7. CASE t = z /\ z \in Tunnel /\ Drop(z, 1)
    <3>1. refCount'[t] = refCount[t] - 1 /\ refCount[t] = u
      BY <2>2, <2>4, <2>7 DEF Drop, Counted
    <3>2. refCount'[t] \in Int /\ refCount'[t] >= -1
      <4> HIDE DEF u
      <4> QED BY <2>3, <3>1
    <3> QED BY <1>4, <3>2
  <2>8. \/ refCount'[t] = refCount[t]
        \/ t = z /\ Drop(z, n)
        \/ t = z /\ z \in Tunnel /\ Drop(z, 1)
    <3>1. CASE t = z
      BY <1>6, <2>1, <2>2, <3>1 DEF ClientHandles, Tunnel
    <3>2. CASE t # z
      <4>1. UNCHANGED refCount \/ Drop(z, n) \/ Drop(z, 1)
        BY <1>6, <2>1 DEF ClientHandles
      <4> QED BY <2>2, <3>2, <4>1 DEF Drop
    <3> QED BY <3>1, <3>2
  <2> QED BY <2>5, <2>6, <2>7, <2>8
<1>7. ASSUME NEW k \in Call, Register(k) PROVE refCount'[t] >= -1 - d
  <2>1. refCount'[t] \in {refCount[t], 1}
    BY <1>7 DEF Register
  <2> QED BY <1>2, <1>3, <1>4, <2>1
<1>8. ASSUME NEW k \in Call, Create(k) PROVE refCount'[t] >= -1 - d
  <2>1. refCount'[t] \in {refCount[t], refCount[t] + 1}
    BY <1>8 DEF Create, ShareTunnel
  <2> QED BY <1>2, <1>3, <2>1
<1>9. CASE Close
  <2>1. refCount'[t] \in {refCount[t], -1}
    BY <1>9 DEF Close
  <2> QED BY <1>2, <1>3, <1>4, <2>1
<1>10. CASE UNCHANGED refCount
  BY <1>2, <1>3, <1>10
<1> QED
  BY <1>5, <1>6, <1>7, <1>8, <1>9, <1>10 DEF Next, RegisterReverse, Listens, ServerListens,
     ServerHandles

LEMMA BoundedStep ==
  ASSUME TunnelsInv, TunnelsInv', Bounded, [Next]_vars
  PROVE  Bounded'
<1>1. CASE Next
  <2>1. \A t \in Call : /\ refCount'[t] <= Cardinality(Call)
                        /\ refCount'[t] >= -1 - Cardinality(Closed')
    BY <1>1, BoundedAbove, BoundedBelow
  <2>2. isClosed' => toClient' = <<>>
    <3>1. CASE Close
      BY <3>1 DEF Close
    <3>2. CASE ~Close
      <4>1. UNCHANGED isClosed
        BY <1>1, <3>2 DEF Next, Create, RegisterReverse, Listens, CloseTunnel, ServerListens,
           ClientHandles, ServerHandles
      <4>2. isClosed => UNCHANGED toClient
        BY <1>1, <3>2 DEF Next, Create, RegisterReverse, Listens, CloseTunnel, ServerListens,
           ClientHandles, ServerHandles, ServerCloses, ToClient, Bounded
      <4> QED BY <4>1, <4>2 DEF Bounded
    <3> QED BY <3>1, <3>2
  <2> QED BY <2>1, <2>2 DEF Bounded
<1>2. CASE UNCHANGED vars
  <2>1. UNCHANGED <<stage, refCount, isClosed, toClient>>
    BY <1>2 DEF vars, callVars
  <2>2. Closed' = Closed
    BY <2>1 DEF Closed
  <2> QED BY <2>1, <2>2 DEF Bounded
<1> QED BY <1>1, <1>2

LEMMA BoundedInit == Init => Bounded
<1> SUFFICES ASSUME Init PROVE Bounded
  OBVIOUS
<1>1. Closed = {} /\ Cardinality(Closed) = 0
  BY FS_EmptySet DEF Init, Closed
<1> QED BY <1>1, Cardinalities DEF Init, Bounded

\* The types of the tunnels, with the bounds of the counts: no sequence of calls,
\* failures and closes counts a tunnel above its callers, or below -1 but for the
\* callers who close theirs after the client.
THEOREM TunnelsTypeCorrect == Spec => []TypeOK
<1>1. TunnelsInv /\ Bounded => TypeOK
  <2> SUFFICES ASSUME TunnelsInv, Bounded PROVE TypeOK
    OBVIOUS
  <2>1. \A t \in Call : refCount[t] \in -1 - Cardinality(Call) .. Cardinality(Call)
    <3> SUFFICES ASSUME NEW t \in Call
                 PROVE  refCount[t] \in -1 - Cardinality(Call) .. Cardinality(Call)
      OBVIOUS
    <3>1. Closed \in SUBSET Call
      BY DEF Closed
    <3>2. /\ Cardinality(Closed) \in Nat /\ Cardinality(Call) \in Nat
          /\ Cardinality(Closed) <= Cardinality(Call)
      BY <3>1, Cardinalities
    <3>3. /\ refCount[t] \in Int /\ refCount[t] <= Cardinality(Call)
          /\ refCount[t] >= -1 - Cardinality(Closed)
      BY DEF TunnelsInv, Typed, Bounded
    <3> QED BY <3>2, <3>3
  <2> QED BY <2>1 DEF TunnelsInv, Typed, TypeOK, MessageType
<1>2. TunnelsInv /\ TunnelsInv' /\ Bounded /\ [Next]_vars => Bounded'
  BY BoundedStep
<1> QED BY <1>1, <1>2, BoundedInit, TunnelsInvariant, PTL DEF Spec

-----------------------------------------------------------------------------
(* Heartbeat *)

\* What shows notifications exists, or did until the client was closed; while one
\* is shown the latest heartbeat had failed.
Notifier ==
  /\ monitor = "none" => notification = "none"
  /\ monitor = "disposed" => heartbeatClosed
  /\ NotificationMeansAway

HeartbeatInv == H!TypeOK /\ Notifier

LEMMA RequestsTyped ==
  /\ H!NoRequest \in H!Request /\ H!NewRequest \in H!Request
  /\ \A r \in H!Request :
       /\ r.status \in {"none", "waiting", "sleeping"} /\ r.retries \in 0 .. MaxRetry
       /\ [r EXCEPT !.status = "waiting"] \in H!Request
       /\ r.retries > 0 => [status |-> "sleeping", retries |-> r.retries - 1] \in H!Request
BY HeartbeatAssumptions DEF H!NoRequest, H!NewRequest, H!Request, H!LimitsAssumption

LEMMA InitHeartbeat == H!Init => HeartbeatInv
<1> SUFFICES ASSUME H!Init PROVE HeartbeatInv
  OBVIOUS
<1>1. sends \in [Beat \cup Check -> H!Request]
  BY RequestsTyped DEF H!Init
<1>2. resetCount \in 0 .. ResetLimit - 1 /\ awayCount \in 0 .. AwayLimit
  BY HeartbeatAssumptions DEF H!Init, H!LimitsAssumption
<1> QED
  BY <1>1, <1>2 DEF H!Init, HeartbeatInv, H!TypeOK, Notifier, NotificationMeansAway,
     H!NotificationMeansAway

\* The end of a request, and the heartbeat it may start.
LEMMA EndsTyped ==
  ASSUME H!TypeOK, NEW b \in Beat \cup Check, H!Ends(b)
  PROVE  /\ sends' \in [Beat \cup Check -> H!Request]
         /\ interval' \in {"none", "on", "cleared"}
<1>1. CASE interval = "none" /\ connectedOnce
  <2>1. PICK n \in Beat : sends' = [sends EXCEPT ![b] = H!NoRequest, ![n] = H!NewRequest]
    BY <1>1 DEF H!Ends
  <2>2. interval' = "on"
    BY <1>1 DEF H!Ends
  <2> QED BY <2>1, <2>2, RequestsTyped DEF H!TypeOK
<1>2. CASE ~(interval = "none" /\ connectedOnce)
  BY <1>2, RequestsTyped DEF H!Ends, H!TypeOK
<1> QED BY <1>1, <1>2

\* The codes a failure is reported with, and the count of resets in a row.
LEMMA CodesTyped ==
  ASSUME H!TypeOK, NEW f \in Failure
  PROVE  /\ H!Code(f) \in {"SERVER_CRASHED", "PORT_NOT_ACCESSIBLE", "INVALID_CERTIFICATE"}
                            \cup Failure
         /\ H!Code(f) # "none"
         /\ (IF H!Code(f) = "ECONNRESET" THEN resetCount + 1 ELSE 0) \in 0 .. ResetLimit - 1
<1>1. f \in {"NETWORK_AWAY", "ECONNREFUSED", "ECONNRESET", "CERT_NOT_YET_VALID",
             "CERT_SIGNATURE_FAILURE"} /\ ResetLimit \in Nat \ {0}
  BY HeartbeatAssumptions DEF H!LimitsAssumption
<1>2. resetCount \in 0 .. ResetLimit - 1
  BY DEF H!TypeOK
<1>3. CASE f = "ECONNREFUSED"
  BY <1>1, <1>3 DEF H!Code
<1>4. CASE f = "ECONNRESET"
  <2>1. CASE resetCount + 1 >= ResetLimit
    BY <1>1, <1>4, <2>1 DEF H!Code
  <2>2. CASE ~(resetCount + 1 >= ResetLimit)
    BY <1>1, <1>2, <1>4, <2>2 DEF H!Code
  <2> QED BY <2>1, <2>2
<1>5. CASE f \notin {"ECONNREFUSED", "ECONNRESET"}
  BY <1>1, <1>5 DEF H!Code
<1> QED BY <1>3, <1>4, <1>5

\* A success of a heartbeat leaves no notification.
LEMMA SucceedsKeeps ==
  ASSUME HeartbeatInv, NEW b \in Beat \cup Check, H!Succeeds(b)
  PROVE  HeartbeatInv'
<1> USE DEF HeartbeatInv
<1>1. sends' \in [Beat \cup Check -> H!Request] /\ interval' \in {"none", "on", "cleared"}
  BY EndsTyped DEF H!Succeeds
<1>2. CASE b \in Check
  BY <1>1, <1>2 DEF H!Succeeds, H!TypeOK, H!notifierVars, Notifier, NotificationMeansAway,
     H!NotificationMeansAway
<1>3. CASE b \notin Check
  <2>1. /\ connectedOnce' = TRUE /\ last' = "here" /\ resetCount' = 0 /\ H!OnHeartbeat
        /\ UNCHANGED heartbeatClosed
    BY <1>3 DEF H!Succeeds
  <2>2. resetCount' \in 0 .. ResetLimit - 1 /\ 0 \in 0 .. AwayLimit
    BY <2>1, HeartbeatAssumptions DEF H!LimitsAssumption
  <2>3. UNCHANGED monitor /\ awayCount' \in 0 .. AwayLimit
        /\ notification' \in {"none", notification}
    BY <2>1, <2>2 DEF H!OnHeartbeat, H!notifierVars, H!TypeOK
  <2>4. notification' = "none" \/ heartbeatClosed'
    BY <2>1 DEF H!OnHeartbeat, H!notifierVars, Notifier, H!TypeOK
  <2> QED
    BY <1>1, <2>1, <2>2, <2>3, <2>4 DEF H!TypeOK, Notifier, NotificationMeansAway,
       H!NotificationMeansAway
<1> QED BY <1>2, <1>3

LEMMA FailsKeeps ==
  ASSUME HeartbeatInv, NEW b \in Beat \cup Check, NEW f \in Failure, H!Fails(b, f)
  PROVE  HeartbeatInv'
<1> USE DEF HeartbeatInv
<1>1. sends' \in [Beat \cup Check -> H!Request] /\ interval' \in {"none", "on", "cleared"}
  BY EndsTyped DEF H!Fails
<1>2. CASE b \in Check
  BY <1>1, <1>2 DEF H!Fails, H!TypeOK, H!notifierVars, Notifier, NotificationMeansAway,
     H!NotificationMeansAway
<1>3. CASE b \notin Check
  <2> DEFINE code == H!Code(f)
  <2>1. /\ last' = "away" /\ UNCHANGED <<connectedOnce, heartbeatClosed>>
        /\ resetCount' = IF code = "ECONNRESET" THEN resetCount + 1 ELSE 0
        /\ IF monitor = "on" THEN H!OnHeartbeatError(code) ELSE UNCHANGED H!notifierVars
    BY <1>3 DEF H!Fails
  <2>2. /\ code \in {"SERVER_CRASHED", "PORT_NOT_ACCESSIBLE", "INVALID_CERTIFICATE"}
                      \cup Failure
        /\ resetCount' \in 0 .. ResetLimit - 1
    BY <2>1, CodesTyped
  <2> HIDE DEF code
  <2>3. /\ UNCHANGED monitor /\ awayCount' \in 0 .. AwayLimit
        /\ notification' \in {notification, code}
        /\ monitor # "on" => UNCHANGED notification
    <3>1. CASE monitor = "on"
      <4>1. awayCount' \in {awayCount, IF awayCount < AwayLimit THEN awayCount + 1 ELSE awayCount}
        BY <2>1, <3>1 DEF H!OnHeartbeatError
      <4>2. AwayLimit \in Nat /\ awayCount \in 0 .. AwayLimit
        BY HeartbeatAssumptions DEF H!LimitsAssumption, H!TypeOK
      <4>3. awayCount' \in 0 .. AwayLimit
        BY <4>1, <4>2
      <4>4. UNCHANGED monitor /\ notification' \in {notification, code}
        BY <2>1, <3>1 DEF H!OnHeartbeatError
      <4> QED BY <3>1, <4>3, <4>4
    <3>2. CASE monitor # "on"
      BY <2>1, <3>2 DEF H!notifierVars, H!TypeOK
    <3> QED BY <3>1, <3>2
  <2>4. H!TypeOK'
    BY <1>1, <2>1, <2>2, <2>3 DEF H!TypeOK
  <2>5. Notifier'
    BY <2>1, <2>3 DEF Notifier, NotificationMeansAway, H!NotificationMeansAway
  <2> QED BY <2>4, <2>5
<1> QED BY <1>2, <1>3

\* The other steps of a request end none.
LEMMA OtherGoesKeeps ==
  ASSUME HeartbeatInv, NEW b \in Beat \cup Check,
         H!Wakes(b) \/ \E f \in Failure : H!Retries(b, f)
  PROVE  HeartbeatInv'
<1>1. sends[b] \in H!Request /\ sends[b].retries \in Int
  <2>1. sends[b] \in H!Request
    BY DEF HeartbeatInv, H!TypeOK
  <2>2. sends[b].retries \in 0 .. MaxRetry
    BY <2>1, RequestsTyped
  <2> QED BY <2>1, <2>2
<1>2. CASE H!Wakes(b)
  <2>1. sends' \in [Beat \cup Check -> H!Request]
    BY <1>1, <1>2, RequestsTyped DEF H!Wakes, HeartbeatInv, H!TypeOK
  <2> QED
    BY <1>2, <2>1 DEF H!Wakes, HeartbeatInv, H!TypeOK, H!notifierVars, Notifier,
       NotificationMeansAway, H!NotificationMeansAway
<1>3. ASSUME NEW f \in Failure, H!Retries(b, f) PROVE HeartbeatInv'
  <2>1. sends' = [sends EXCEPT ![b] = [status |-> "sleeping", retries |-> sends[b].retries - 1]]
        /\ sends[b].retries > 0
    BY <1>3 DEF H!Retries
  <2>2. sends' \in [Beat \cup Check -> H!Request]
    BY <1>1, <2>1, RequestsTyped DEF HeartbeatInv, H!TypeOK
  <2> QED
    BY <1>3, <2>2 DEF H!Retries, HeartbeatInv, H!TypeOK, H!notifierVars, Notifier,
       NotificationMeansAway, H!NotificationMeansAway
<1> QED BY <1>2, <1>3

LEMMA HeartbeatStep ==
  ASSUME HeartbeatInv, [H!Next]_(H!vars)
  PROVE  HeartbeatInv'
<1>1. ASSUME NEW b \in Beat \cup Check,
             sends' = [sends EXCEPT ![b] = H!NewRequest],
             UNCHANGED <<interval, connectedOnce, last, resetCount, monitor, awayCount,
                         notification, heartbeatClosed>>
      PROVE  HeartbeatInv'
  <2>1. sends' \in [Beat \cup Check -> H!Request]
    BY <1>1, RequestsTyped DEF HeartbeatInv, H!TypeOK
  <2> QED
    BY <1>1, <2>1 DEF HeartbeatInv, H!TypeOK, Notifier, NotificationMeansAway,
       H!NotificationMeansAway
<1>2. ASSUME NEW b \in Beat, H!Tick(b) PROVE HeartbeatInv'
  BY <1>1, <1>2 DEF H!Tick, H!notifierVars
<1>3. ASSUME NEW c \in Check, H!SendCheck(c) PROVE HeartbeatInv'
  BY <1>1, <1>3 DEF H!SendCheck, H!notifierVars
<1>4. ASSUME NEW b \in Beat \cup Check, H!Goes(b) PROVE HeartbeatInv'
  BY <1>4, SucceedsKeeps, FailsKeeps, OtherGoesKeeps DEF H!Goes
<1>5. CASE H!StartMonitor
  BY <1>5 DEF H!StartMonitor, HeartbeatInv, H!TypeOK, Notifier, NotificationMeansAway,
     H!NotificationMeansAway
<1>6. CASE H!Close
  BY <1>6 DEF H!Close, HeartbeatInv, H!TypeOK, Notifier, NotificationMeansAway,
     H!NotificationMeansAway
<1>7. CASE UNCHANGED H!vars
  BY <1>7 DEF H!vars, H!notifierVars, HeartbeatInv, H!TypeOK, Notifier, NotificationMeansAway,
     H!NotificationMeansAway
<1> QED BY <1>2, <1>3, <1>4, <1>5, <1>6, <1>7 DEF H!Next

\* The inductive invariant of the heartbeat: types, and a notification exists only
\* while there is a notifier and the latest heartbeat had failed, or after close.
THEOREM HeartbeatInvariant == H!Spec => []HeartbeatInv
<1>1. HeartbeatInv /\ [H!Next]_(H!vars) => HeartbeatInv'
  BY HeartbeatStep
<1> QED BY <1>1, InitHeartbeat, PTL DEF H!Spec

\* No success of a heartbeat leaves a notification standing, however many overlap,
\* fail or are retried (ConnectionHealthNotifier.onHeartbeat).
THEOREM NotifiedOnlyWhenAway == H!Spec => []NotificationMeansAway
<1>1. HeartbeatInv => NotificationMeansAway
  BY DEF HeartbeatInv, Notifier
<1> QED BY <1>1, HeartbeatInvariant, PTL
-----------------------------------------------------------------------------
(* Both parts *)

\* In the behaviours of both parts together, one of which takes the steps, all
\* variables keep their types.
THEOREM ClientTypeCorrect == ClientSpec => []ClientTypeOK
<1>1. ClientSpec => Spec
  <2>1. ClientInit => Init
    BY DEF ClientInit
  <2>2. [ClientNext]_<<running, vars, heartbeatVars>> => [Next]_vars
    BY DEF ClientNext
  <2> QED BY <2>1, <2>2, PTL DEF ClientSpec, Spec
<1>2. ClientSpec => H!Spec
  <2>1. ClientInit => H!Init
    BY DEF ClientInit
  <2>2. [ClientNext]_<<running, vars, heartbeatVars>> => [H!Next]_(H!vars)
    BY DEF ClientNext, heartbeatVars, H!vars, H!notifierVars
  <2> QED BY <2>1, <2>2, PTL DEF ClientSpec, H!Spec
<1>3. HeartbeatInv => H!TypeOK
  BY DEF HeartbeatInv
<1> QED BY <1>1, <1>2, <1>3, TunnelsTypeCorrect, HeartbeatInvariant, PTL DEF ClientTypeOK

=============================================================================
