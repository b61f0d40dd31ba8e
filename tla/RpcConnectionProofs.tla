------------------------- MODULE RpcConnectionProofs -------------------------
(***************************************************************************)
(* Theorems about RpcConnection, for any plans, objects and bounds: the    *)
(* types, that what is named in a message or held by a proxy is still      *)
(* registered, and that no caller is told twice how its request ended.     *)
(***************************************************************************)
EXTENDS RpcConnection, TLAPS

Registration ==
  [object : Object, here : {TRUE}, disposals : {0}]
    \cup [object : Object, here : {FALSE}, disposals : {1}]

Typed ==
  /\ wire \in [End -> Seq(Message)]
  /\ request \in [End -> Seq(Request)]
  /\ calls \in [End -> SUBSET Nat]
  /\ subs \in [End -> SUBSET Nat]
  /\ registry \in [End -> Seq(Registration)]
  /\ proxy \in [End -> [1 .. MaxObject -> {"none", "live", "disposed"}]]
  /\ working \in [End -> SUBSET Nat]
  /\ streams \in [End -> SUBSET Nat]
  /\ producing \in [End -> SUBSET Nat]
  /\ detached \in [End -> SUBSET Nat]
  /\ closing \in [End -> {"no", "objects", "done"}]
  /\ plan \in Plans
  /\ \A e \in End :
       working[e] \cup streams[e] \cup producing[e] \cup detached[e] \subseteq DOMAIN request[Peer(e)]

\* The entries of the maps are requests that wait, each of its kind.
PendingIn(r, cs, ss) ==
  /\ \A id \in cs : /\ id \in DOMAIN r
                    /\ r[id].outcome = "pending"
                    /\ r[id].kind \in {"promise", "dispose"}
  /\ \A id \in ss : /\ id \in DOMAIN r
                    /\ r[id].outcome = "pending"
                    /\ r[id].kind = "observable"
  /\ \A id \in DOMAIN r : /\ r[id].outcome # "again"
                          /\ r[id].outcome = "created" => r[id].kind = "observable"

Pending == \A e \in End : PendingIn(request[e], calls[e], subs[e])

\* A number that an end with registrations reg may have sent.
IsRef(n, reg) == n = NoRef \/ n \in DOMAIN reg

\* What an end sends, given its requests, its registrations and its proxies.
GoodMessage(m, reqs, reg, prox) ==
  /\ m.type \in {"call", "dispose"} => m.id \in DOMAIN reqs /\ IsRef(m.arg, reg)
  /\ m.type \in {"response", "next"} => IsRef(m.ref, reg)
  /\ m.type = "dispose" =>
       m.target \in 1 .. MaxObject /\ prox[m.target] = "disposed"

MessagesGood ==
  \A e \in End : \A i \in DOMAIN wire[e] :
    GoodMessage(wire[e][i], request[Peer(e)], registry[Peer(e)], proxy[Peer(e)])

RequestsGood ==
  \A e \in End : \A id \in DOMAIN request[e] : IsRef(request[e][id].arg, registry[e])

\* A proxy is for a number that the other end gave out.
ProxiesGood ==
  \A e \in End :
    /\ DOMAIN registry[e] \subseteq 1 .. MaxObject
    /\ \A n \in 1 .. MaxObject : proxy[Peer(e)][n] # "none" => n \in DOMAIN registry[e]

\* While an end is open, a registration goes only after its proxy.
Disposed ==
  \A e \in End : ~Closed(e) =>
    \A n \in DOMAIN registry[e] : registry[e][n].here \/ proxy[Peer(e)][n] = "disposed"

\* A message whose target must be there when it arrives.
Direct(m) == m.type \in {"call", "dispose"} /\ m.kind # "observable"

Present(n, reg) == n = NoRef \/ (n \in DOMAIN reg /\ reg[n].here)

\* The targets of the messages of w will be there, each in its turn.
TargetsStay(w, reg) ==
  \A i \in DOMAIN w : Direct(w[i]) =>
    /\ Present(w[i].target, reg)
    /\ \A j \in 1 .. i - 1 : w[j].type = "dispose" => w[j].target # w[i].target

InTurn == \A e \in End : ~Closed(e) => TargetsStay(wire[e], registry[e])

RpcInv ==
  /\ Typed /\ Pending
  /\ MessagesGood /\ RequestsGood
  /\ ProxiesGood /\ Disposed /\ InTurn

-----------------------------------------------------------------------------
(* The ends, and sequences *)

LEMMA TwoEnds ==
  /\ \A e \in End : Peer(e) \in End /\ Peer(e) # e /\ Peer(Peer(e)) = e
  /\ \A e, d \in End : d = e \/ d = Peer(e)
  BY DEF End, Peer

\* A sequence whose elements were replaced.
LEMMA SeqReplaced ==
  ASSUME NEW S, NEW s \in Seq(S), NEW f \in [DOMAIN s -> S]
  PROVE  f \in Seq(S) /\ DOMAIN f = DOMAIN s /\ Len(f) = Len(s)
<1>1. f \in [1 .. Len(s) -> S] /\ Len(s) \in Nat
  OBVIOUS
<1> QED BY <1>1

LEMMA SeqPrefix ==
  ASSUME NEW S, NEW s \in Seq(S), NEW n \in 0 .. Len(s)
  PROVE  /\ SubSeq(s, 1, n) \in Seq(S)
         /\ DOMAIN SubSeq(s, 1, n) \subseteq DOMAIN s
         /\ \A i \in DOMAIN SubSeq(s, 1, n) : SubSeq(s, 1, n)[i] = s[i]
  OBVIOUS

LEMMA SeqTail ==
  ASSUME NEW S, NEW s \in Seq(S), s # <<>>
  PROVE  /\ Tail(s) \in Seq(S)
         /\ 1 \in DOMAIN s /\ Head(s) = s[1] /\ Head(s) \in S
         /\ \A i \in DOMAIN Tail(s) : i + 1 \in DOMAIN s /\ Tail(s)[i] = s[i + 1]
  OBVIOUS

LEMMA SeqAppended ==
  ASSUME NEW S, NEW s \in Seq(S), NEW m \in S
  PROVE  /\ Append(s, m) \in Seq(S)
         /\ DOMAIN Append(s, m) = DOMAIN s \cup {Len(s) + 1}
         /\ Len(s) + 1 \notin DOMAIN s
         /\ DOMAIN s \subseteq 1 .. Len(s) /\ Len(s) \in Nat
         /\ \A i \in DOMAIN s : Append(s, m)[i] = s[i]
         /\ Append(s, m)[Len(s) + 1] = m
  OBVIOUS

LEMMA MessageTyped ==
  ASSUME NEW m \in Message
  PROVE  /\ m.id \in Nat
         /\ m.type \in {"call", "dispose"} => m.kind \in Kind /\ m.target \in Nat /\ m.arg \in Nat
         /\ m.type \in {"response", "next"} => m.ref \in Nat
  BY DEF Message

LEMMA RequestTyped ==
  ASSUME NEW r \in Request
  PROVE  /\ r.kind \in Kind /\ r.target \in Nat /\ r.arg \in Nat /\ r.outcome \in Outcome
         /\ \A id \in Nat : RequestMessage(r, id) \in Message
  BY DEF Request, RequestMessage, Message, Kind

LEMMA InitRpc == Init => RpcInv
<1> SUFFICES ASSUME Init PROVE RpcInv
  OBVIOUS
<1>1. Typed
  BY BoundsAssumption DEF Init, Typed, End, Peer
<1>2. /\ \A e \in End : wire[e] = <<>> /\ request[e] = <<>> /\ registry[e] = <<>>
      /\ \A e \in End : calls[e] = {} /\ subs[e] = {}
      /\ \A e \in End : \A n \in 1 .. MaxObject : proxy[e][n] = "none"
  BY DEF Init
<1>3. Pending /\ MessagesGood /\ RequestsGood
  BY <1>2, TwoEnds DEF Pending, PendingIn, MessagesGood, RequestsGood
<1>4. ProxiesGood /\ Disposed /\ InTurn
  BY <1>2, TwoEnds DEF ProxiesGood, Disposed, InTurn, TargetsStay
<1> QED BY <1>1, <1>3, <1>4 DEF RpcInv

-----------------------------------------------------------------------------
(* What a step does to the two ends, as far as the invariant is concerned *)

\* What may be put on the way to end d: a message that is good when it is sent
\* and, if its target must be there, names it through a proxy that is live.
Fresh(d, m) ==
  /\ m \in Message
  /\ GoodMessage(m, request'[Peer(d)], registry'[Peer(d)], proxy'[Peer(d)])
  /\ Direct(m) => m.target = NoRef
                    \/ (m.target \in 1 .. MaxObject /\ proxy[Peer(d)][m.target] = "live")

Cut(v, w) == \A i \in DOMAIN v : i \in DOMAIN w /\ v[i] = w[i]

Takes(d) == wire[d] # <<>> /\ wire'[d] = Tail(wire[d])

WireFollows(d) ==
  \/ Cut(wire'[d], wire[d])
  \/ Takes(d)
  \/ \E m \in Message : Fresh(d, m) /\ wire'[d] = Append(wire[d], m)

\* Registration n of end d goes: the connection is disposed, or d handles the
\* message that says that the proxy was.
Goes(d, n) ==
  \/ closing'[d] # "no"
  \/ Takes(d) /\ Head(wire[d]).type = "dispose" /\ Head(wire[d]).target = n

RegistryFollows(d) ==
  /\ DOMAIN registry[d] \subseteq DOMAIN registry'[d]
  /\ DOMAIN registry'[d] \subseteq 1 .. MaxObject
  /\ \A n \in DOMAIN registry'[d] :
       \/ n \notin DOMAIN registry[d] /\ registry'[d][n].here
       \/ n \in DOMAIN registry[d] /\ registry'[d][n].here = registry[d][n].here
       \/ n \in DOMAIN registry[d] /\ Goes(d, n)

ProxyFollows(d) ==
  \A n \in 1 .. MaxObject :
    \/ proxy'[d][n] = proxy[d][n]
    \/ proxy[d][n] = "none" /\ proxy'[d][n] = "live" /\ n \in DOMAIN registry[Peer(d)]
    \/ proxy[d][n] = "live" /\ proxy'[d][n] = "disposed"

RequestFollows(d) ==
  /\ DOMAIN request[d] \subseteq DOMAIN request'[d]
  /\ \A id \in DOMAIN request'[d] :
       \/ id \in DOMAIN request[d] /\ request'[d][id].arg = request[d][id].arg
       \/ IsRef(request'[d][id].arg, registry'[d])

Follows(d) ==
  /\ WireFollows(d) /\ RegistryFollows(d) /\ ProxyFollows(d) /\ RequestFollows(d)
  /\ closing[d] # "no" => closing'[d] # "no"

\* A message stays good.
LEMMA GoodStays ==
  ASSUME RpcInv, NEW d \in End, Follows(d), NEW m,
         GoodMessage(m, request[d], registry[d], proxy[d])
  PROVE  GoodMessage(m, request'[d], registry'[d], proxy'[d])
<1>1. DOMAIN request[d] \subseteq DOMAIN request'[d]
  BY DEF Follows, RequestFollows
<1>2. DOMAIN registry[d] \subseteq DOMAIN registry'[d]
  BY DEF Follows, RegistryFollows
<1>3. m.type = "dispose" => proxy'[d][m.target] = "disposed"
  BY DEF Follows, ProxyFollows, GoodMessage
<1> QED BY <1>1, <1>2, <1>3 DEF GoodMessage, IsRef

LEMMA MessagesStayGood ==
  ASSUME RpcInv, \A e \in End : Follows(e), NEW d \in End, NEW i \in DOMAIN wire'[d]
  PROVE  GoodMessage(wire'[d][i], request'[Peer(d)], registry'[Peer(d)], proxy'[Peer(d)])
<1> DEFINE p == Peer(d)
<1>1. p \in End /\ Follows(p) /\ WireFollows(d)
  BY TwoEnds DEF Follows
<1>2. \A j \in DOMAIN wire[d] : GoodMessage(wire[d][j], request[p], registry[p], proxy[p])
  BY DEF RpcInv, MessagesGood
<1>3. \A j \in DOMAIN wire[d] : GoodMessage(wire[d][j], request'[p], registry'[p], proxy'[p])
  BY <1>1, <1>2, GoodStays
<1>4. wire[d] \in Seq(Message)
  BY DEF RpcInv, Typed
<1>5. CASE Cut(wire'[d], wire[d])
  BY <1>3, <1>5 DEF Cut
<1>6. CASE Takes(d)
  BY <1>3, <1>4, <1>6, SeqTail DEF Takes
<1>7. ASSUME NEW m \in Message, Fresh(d, m), wire'[d] = Append(wire[d], m)
      PROVE  GoodMessage(wire'[d][i], request'[p], registry'[p], proxy'[p])
  <2>1. i \in DOMAIN wire[d] \/ wire'[d][i] = m
    BY <1>4, <1>7, SeqAppended
  <2>2. i \in DOMAIN wire[d] => wire'[d][i] = wire[d][i]
    BY <1>4, <1>7, SeqAppended
  <2> QED BY <1>3, <1>7, <2>1, <2>2 DEF Fresh
<1> QED BY <1>1, <1>5, <1>6, <1>7 DEF WireFollows

\* What a live proxy names is there, and will be.
LEMMA LiveIsPresent ==
  ASSUME RpcInv, NEW d \in End, ~Closed(d), NEW n \in 1 .. MaxObject,
         proxy[Peer(d)][n] = "live"
  PROVE  n \in DOMAIN registry[d] /\ registry[d][n].here
  BY DEF RpcInv, ProxiesGood, Disposed

\* The targets of the messages to an end that is open are there, in their turn.
LEMMA TargetsStayInTurn ==
  ASSUME RpcInv, Typed', \A e \in End : Follows(e), NEW d \in End, closing'[d] = "no"
  PROVE  TargetsStay(wire'[d], registry'[d])
<1> DEFINE w == wire[d]
           reg == registry[d]
           v == wire'[d]
           next == registry'[d]
<1>1. WireFollows(d) /\ RegistryFollows(d) /\ ~Closed(d)
  BY DEF Follows, Closed
<1>2. TargetsStay(w, reg) /\ w \in Seq(Message)
  BY <1>1 DEF RpcInv, InTurn, Typed
<1>3. ASSUME NEW n, Present(n, reg),
             ~(Takes(d) /\ Head(w).type = "dispose" /\ Head(w).target = n)
      PROVE  Present(n, next)
  BY <1>1, <1>3 DEF Present, RegistryFollows, Goes
<1>4. CASE Takes(d)
  <2>1. /\ v = Tail(w) /\ w # <<>>
        /\ 1 \in DOMAIN w /\ Head(w) = w[1]
        /\ \A i \in DOMAIN v : i + 1 \in DOMAIN w /\ v[i] = w[i + 1]
    BY <1>2, <1>4, SeqTail DEF Takes
  <2>2. ASSUME NEW i \in DOMAIN v, Direct(v[i])
        PROVE  /\ Present(v[i].target, next)
               /\ \A j \in 1 .. i - 1 : v[j].type = "dispose" => v[j].target # v[i].target
    <3>1. i \in Nat /\ i >= 1 /\ DOMAIN v = 1 .. Len(v) /\ Len(v) \in Nat /\ i <= Len(v)
      BY <1>2, <2>1, SeqTail
    <3>2. /\ Present(w[i + 1].target, reg)
          /\ \A j \in 1 .. i : w[j].type = "dispose" => w[j].target # w[i + 1].target
      BY <1>2, <2>1, <2>2, <3>1 DEF TargetsStay
    <3>3. w[1].type = "dispose" => w[1].target # v[i].target
      BY <2>1, <3>1, <3>2
    <3>4. Present(v[i].target, next)
      BY <1>3, <2>1, <3>2, <3>3
    <3>5. ASSUME NEW j \in 1 .. i - 1, v[j].type = "dispose" PROVE v[j].target # v[i].target
      <4>1. j \in DOMAIN v /\ j + 1 \in 1 .. i
        BY <3>1
      <4> QED BY <2>1, <3>2, <3>5, <4>1
    <3> QED BY <3>4, <3>5
  <2> QED BY <2>2 DEF TargetsStay
<1>5. ASSUME ~Takes(d) PROVE \A n : Present(n, reg) => Present(n, next)
  BY <1>3, <1>5
<1>6. CASE ~Takes(d) /\ Cut(v, w)
  <2>1. ASSUME NEW i \in DOMAIN v, Direct(v[i])
        PROVE  /\ Present(v[i].target, next)
               /\ \A j \in 1 .. i - 1 : v[j].type = "dispose" => v[j].target # v[i].target
    <3>1. i \in DOMAIN w /\ v[i] = w[i] /\ DOMAIN v = 1 .. Len(v) /\ Len(v) \in Nat
      BY <1>6, <2>1 DEF Cut, Typed
    <3>2. \A j \in 1 .. i - 1 : v[j] = w[j]
      BY <1>6, <3>1 DEF Cut
    <3>3. /\ Present(w[i].target, reg)
          /\ \A j \in 1 .. i - 1 : w[j].type = "dispose" => w[j].target # w[i].target
      BY <1>2, <2>1, <3>1 DEF TargetsStay
    <3> QED BY <1>5, <1>6, <3>1, <3>2, <3>3
  <2> QED BY <2>1 DEF TargetsStay
<1>7. ASSUME ~Takes(d), NEW m \in Message, Fresh(d, m), v = Append(w, m)
      PROVE  TargetsStay(v, next)
  <2>1. /\ DOMAIN v = DOMAIN w \cup {Len(w) + 1} /\ DOMAIN w = 1 .. Len(w) /\ Len(w) \in Nat
        /\ v[Len(w) + 1] = m /\ \A i \in DOMAIN w : v[i] = w[i]
    BY <1>2, <1>7, SeqAppended
  <2>2. ASSUME NEW i \in DOMAIN v, Direct(v[i])
        PROVE  /\ Present(v[i].target, next)
               /\ \A j \in 1 .. i - 1 : v[j].type = "dispose" => v[j].target # v[i].target
    <3>1. CASE i \in DOMAIN w
      <4>1. v[i] = w[i] /\ \A j \in 1 .. i - 1 : v[j] = w[j]
        BY <2>1, <3>1
      <4>2. /\ Present(w[i].target, reg)
            /\ \A j \in 1 .. i - 1 : w[j].type = "dispose" => w[j].target # w[i].target
        BY <1>2, <2>2, <3>1, <4>1 DEF TargetsStay
      <4> QED BY <1>5, <1>7, <4>1, <4>2
    <3>2. CASE i = Len(w) + 1
      <4>1. v[i] = m /\ Direct(m) /\ \A j \in 1 .. i - 1 : j \in DOMAIN w /\ v[j] = w[j]
        BY <2>1, <2>2, <3>2
      <4>2. m.target = NoRef
              \/ (m.target \in 1 .. MaxObject /\ proxy[Peer(d)][m.target] = "live")
        BY <1>7, <4>1 DEF Fresh
      <4>3. Present(m.target, reg)
        BY <1>1, <4>2, LiveIsPresent DEF Present
      <4>4. ASSUME NEW j \in DOMAIN w, w[j].type = "dispose"
            PROVE  w[j].target \in 1 .. MaxObject /\ proxy[Peer(d)][w[j].target] = "disposed"
        BY <4>4 DEF RpcInv, MessagesGood, GoodMessage
      <4>5. \A j \in DOMAIN w : w[j].type = "dispose" => w[j].target # m.target
        BY <4>2, <4>4, BoundsAssumption DEF NoRef
      <4> QED BY <1>5, <1>7, <4>1, <4>3, <4>5
    <3> QED BY <2>1, <2>2, <3>1, <3>2
  <2> QED BY <2>2 DEF TargetsStay
<1> QED BY <1>1, <1>4, <1>6, <1>7 DEF WireFollows, Takes

\* Such a step keeps the invariant, if it keeps the types and what is pending.
LEMMA FollowingKeeps ==
  ASSUME RpcInv, Typed', Pending', \A e \in End : Follows(e)
  PROVE  RpcInv'
<1>1. MessagesGood'
  BY MessagesStayGood DEF MessagesGood
<1>2. RequestsGood'
  <2>1. ASSUME NEW e \in End, NEW id \in DOMAIN request'[e]
        PROVE  IsRef(request'[e][id].arg, registry'[e])
    <3>1. RequestFollows(e) /\ DOMAIN registry[e] \subseteq DOMAIN registry'[e]
      BY DEF Follows, RegistryFollows
    <3>2. \A x \in DOMAIN request[e] : IsRef(request[e][x].arg, registry[e])
      BY DEF RpcInv, RequestsGood
    <3> QED BY <2>1, <3>1, <3>2 DEF RequestFollows, IsRef
  <2> QED BY <2>1 DEF RequestsGood
<1>3. ProxiesGood'
  <2>1. ASSUME NEW e \in End, NEW n \in 1 .. MaxObject, proxy'[Peer(e)][n] # "none"
        PROVE  n \in DOMAIN registry'[e]
    <3>1. ProxyFollows(Peer(e)) /\ DOMAIN registry[e] \subseteq DOMAIN registry'[e]
      BY TwoEnds DEF Follows, RegistryFollows
    <3>2. proxy[Peer(e)][n] # "none" => n \in DOMAIN registry[e]
      BY DEF RpcInv, ProxiesGood
    <3> QED BY <2>1, <3>1, <3>2, TwoEnds DEF ProxyFollows
  <2>2. \A e \in End : DOMAIN registry'[e] \subseteq 1 .. MaxObject
    BY DEF Follows, RegistryFollows
  <2> QED BY <2>1, <2>2 DEF ProxiesGood
<1>4. Disposed'
  <2>1. ASSUME NEW e \in End, closing'[e] = "no", NEW n \in DOMAIN registry'[e]
        PROVE  registry'[e][n].here \/ proxy'[Peer(e)][n] = "disposed"
    <3>1. /\ RegistryFollows(e) /\ ProxyFollows(Peer(e)) /\ closing[e] = "no"
          /\ n \in 1 .. MaxObject
      BY <2>1, TwoEnds DEF Follows, RegistryFollows
    <3>2. proxy[Peer(e)][n] = "disposed" => proxy'[Peer(e)][n] = "disposed"
      BY <3>1 DEF ProxyFollows
    <3>3. n \in DOMAIN registry[e] =>
            registry[e][n].here \/ proxy[Peer(e)][n] = "disposed"
      BY <3>1 DEF RpcInv, Disposed, Closed
    <3>4. CASE n \in DOMAIN registry[e] /\ Goes(e, n)
      <4>1. Takes(e) /\ Head(wire[e]).type = "dispose" /\ Head(wire[e]).target = n
        BY <2>1, <3>4 DEF Goes
      <4>2. 1 \in DOMAIN wire[e] /\ Head(wire[e]) = wire[e][1]
        BY <4>1, SeqTail DEF Takes, RpcInv, Typed
      <4>3. proxy[Peer(e)][n] = "disposed"
        BY <4>1, <4>2 DEF RpcInv, MessagesGood, GoodMessage
      <4> QED BY <3>2, <4>3
    <3>5. CASE n \notin DOMAIN registry[e] /\ registry'[e][n].here
      BY <3>5
    <3>6. CASE n \in DOMAIN registry[e] /\ registry'[e][n].here = registry[e][n].here
      BY <3>2, <3>3, <3>6
    <3> QED BY <2>1, <3>1, <3>4, <3>5, <3>6 DEF RegistryFollows
  <2> QED BY <2>1 DEF Disposed, Closed
<1>5. InTurn'
  BY TargetsStayInTurn DEF InTurn, Closed
<1> QED BY <1>1, <1>2, <1>3, <1>4, <1>5 DEF RpcInv

\* An end of which nothing changes.
LEMMA IdleFollows ==
  ASSUME RpcInv, NEW d \in End,
         registry'[d] = registry[d], proxy'[d] = proxy[d], request'[d] = request[d],
         closing'[d] = closing[d], WireFollows(d)
  PROVE  Follows(d)
  BY DEF RpcInv, ProxiesGood, Follows, RegistryFollows, ProxyFollows, RequestFollows

-----------------------------------------------------------------------------
(* The operators that the actions are built from *)

\* Only the other end is sent anything.
LEMMA PostedWire ==
  ASSUME NEW e \in End, NEW w \in [End -> Seq(Message)], NEW m \in Message
  PROVE  /\ Posted(e, w, m) \in [End -> Seq(Message)]
         /\ Posted(e, w, m)[e] = w[e]
         /\ \/ Posted(e, w, m)[Peer(e)] = w[Peer(e)]
            \/ Posted(e, w, m)[Peer(e)] = Append(w[Peer(e)], m)
         /\ Closed(e) => Posted(e, w, m) = w
<1>1. Peer(e) \in End /\ Peer(e) # e
  BY TwoEnds
<1>2. Append(w[Peer(e)], m) \in Seq(Message)
  BY <1>1
<1> QED BY <1>1, <1>2 DEF Posted

\* The registrations that marshal and disposeObject leave.
LEMMA MarshalFollows ==
  ASSUME RpcInv, NEW e \in End, NEW o \in Value(e), MarshalRegisters(e, o)
  PROVE  /\ registry' \in [End -> Seq(Registration)]
         /\ \A d \in End : RegistryFollows(d)
         /\ registry'[Peer(e)] = registry[Peer(e)]
         /\ Marshalled(e, o) \in Nat
         /\ IsRef(Marshalled(e, o), registry'[e])
<1>1. registry \in [End -> Seq(Registration)] /\ plan.objects[e] \subseteq Object
  BY PlansAssumption DEF RpcInv, Typed
<1>2. \A d \in End : DOMAIN registry[d] \subseteq 1 .. MaxObject
  BY DEF RpcInv, ProxiesGood
<1>3. DOMAIN registry[e] = 1 .. Len(registry[e]) /\ Len(registry[e]) \in Nat
  BY <1>1
<1>4. CASE IsNew(e, o)
  <2> DEFINE r == [object |-> o, here |-> TRUE, disposals |-> 0]
  <2>1. r \in Registration
    BY <1>1, <1>4 DEF Registration, IsNew, Value
  <2>2. /\ registry' = [registry EXCEPT ![e] = Append(@, r)]
        /\ Len(registry[e]) < MaxObject
        /\ Marshalled(e, o) = Len(registry[e]) + 1
    BY <1>4 DEF MarshalRegisters, Marshalled, IsNew, Nothing
  <2>3. /\ registry'[e] = Append(registry[e], r) /\ r.here
        /\ \A d \in End : d # e => registry'[d] = registry[d]
    BY <1>1, <2>2
  <2> HIDE DEF r
  <2>4. /\ registry'[e] \in Seq(Registration)
        /\ DOMAIN registry'[e] = DOMAIN registry[e] \cup {Len(registry[e]) + 1}
        /\ \A n \in DOMAIN registry[e] : registry'[e][n] = registry[e][n]
        /\ registry'[e][Len(registry[e]) + 1] = r
        /\ Len(registry[e]) + 1 \notin DOMAIN registry[e]
    BY <1>1, <2>1, <2>3, SeqAppended
  <2>5. registry' \in [End -> Seq(Registration)]
    BY <1>1, <2>2, <2>3, <2>4
  <2>6. RegistryFollows(e)
    BY <1>2, <1>3, <2>2, <2>3, <2>4, BoundsAssumption DEF RegistryFollows
  <2>7. \A d \in End : d # e => RegistryFollows(d)
    BY <1>2, <2>3 DEF RegistryFollows
  <2> QED BY <1>3, <2>2, <2>3, <2>4, <2>5, <2>6, <2>7, TwoEnds DEF IsRef
<1>5. CASE ~IsNew(e, o)
  <2>1. registry' = registry
    BY <1>5 DEF MarshalRegisters
  <2>2. Marshalled(e, o) = NoRef \/ Marshalled(e, o) \in DOMAIN registry[e]
    <3>1. CASE o # Nothing
      <4>1. IdsOf(e, o) # {} /\ Marshalled(e, o) = CHOOSE n \in IdsOf(e, o) : TRUE
        BY <1>5, <3>1 DEF IsNew, Marshalled
      <4>2. Marshalled(e, o) \in IdsOf(e, o)
        BY <4>1
      <4> QED BY <4>2 DEF IdsOf
    <3> QED BY <3>1 DEF Marshalled
  <2>3. \A d \in End : RegistryFollows(d)
    BY <1>2, <2>1 DEF RegistryFollows
  <2> QED BY <1>1, <1>3, <2>1, <2>2, <2>3 DEF IsRef, NoRef
<1> QED BY <1>4, <1>5

LEMMA RegistrationGone ==
  ASSUME NEW r \in Registration, r.here
  PROVE  Gone(r) \in Registration
<1>1. r \in [object : Object, here : {TRUE}, disposals : {0}]
  BY DEF Registration
<1>2. Gone(r) = [object |-> r.object, here |-> FALSE, disposals |-> 1]
  <2>1. r = [object |-> r.object, here |-> TRUE, disposals |-> 0]
    BY <1>1
  <2>2. /\ Gone(r) = [r EXCEPT !.here = FALSE, !.disposals = r.disposals + 1]
        /\ r.disposals + 1 = 1
    BY <1>1 DEF Gone
  <2>3. Gone(r) = [r EXCEPT !.here = FALSE, !.disposals = 1]
    BY <2>2
  <2> QED BY Zenon, <2>1, <2>3
<1>3. r.object \in Object
  BY <1>1
<1>4. [object |-> r.object, here |-> FALSE, disposals |-> 1]
        \in [object : Object, here : {FALSE}, disposals : {1}]
  BY <1>3
<1> QED BY <1>2, <1>4 DEF Registration

LEMMA UnregisteredFollows ==
  ASSUME RpcInv, NEW e \in End, NEW ids, registry' = Unregistered(e, ids),
         \A n \in DOMAIN registry[e] : n \in ids => registry[e][n].here /\ Goes(e, n)
  PROVE  /\ registry' \in [End -> Seq(Registration)]
         /\ \A d \in End : RegistryFollows(d)
         /\ registry'[Peer(e)] = registry[Peer(e)]
<1>1. registry \in [End -> Seq(Registration)] /\ registry[e] \in Seq(Registration)
  BY DEF RpcInv, Typed
<1>2. \A d \in End : DOMAIN registry[d] \subseteq 1 .. MaxObject
  BY DEF RpcInv, ProxiesGood
<1> DEFINE f == [n \in DOMAIN registry[e] |->
              IF n \in ids THEN Gone(registry[e][n]) ELSE registry[e][n]]
<1>3. registry' = [registry EXCEPT ![e] = f]
  BY Zenon DEF Unregistered
<1>4. ASSUME NEW n \in DOMAIN registry[e]
      PROVE  f[n] \in Registration /\ (n \notin ids => f[n] = registry[e][n])
  <2>1. registry[e][n] \in Registration
    BY <1>1
  <2>2. CASE n \in ids
    <3>1. registry[e][n].here
      BY <2>2
    <3> QED BY <2>1, <2>2, <3>1, RegistrationGone
  <2> QED BY <2>1, <2>2
<1>5. f \in [DOMAIN registry[e] -> Registration]
  BY <1>4
<1> HIDE DEF f
<1>6. f \in Seq(Registration) /\ DOMAIN f = DOMAIN registry[e]
  BY <1>1, <1>5, SeqReplaced
<1>7. registry'[e] = f /\ \A d \in End : d # e => registry'[d] = registry[d]
  BY <1>1, <1>3
<1>8. registry' \in [End -> Seq(Registration)]
  BY <1>1, <1>3, <1>6
<1>9. RegistryFollows(e)
  BY <1>2, <1>4, <1>6, <1>7 DEF RegistryFollows
<1>10. \A d \in End : d # e => RegistryFollows(d)
  BY <1>2, <1>7 DEF RegistryFollows
<1> QED BY <1>7, <1>8, <1>9, <1>10, TwoEnds

\* A reference makes a proxy of what is there.
LEMMA UnmarshalFollows ==
  ASSUME RpcInv, NEW e \in End, NEW n, IsRef(n, registry[Peer(e)]), UnmarshalProxies(e, n)
  PROVE  /\ proxy' \in [End -> [1 .. MaxObject -> {"none", "live", "disposed"}]]
         /\ \A d \in End : ProxyFollows(d)
<1>1. proxy \in [End -> [1 .. MaxObject -> {"none", "live", "disposed"}]]
  BY DEF RpcInv, Typed
<1>2. CASE n # NoRef /\ proxy[e][n] = "none"
  <2>1. n \in DOMAIN registry[Peer(e)] /\ n \in 1 .. MaxObject
    BY <1>2, TwoEnds DEF IsRef, RpcInv, ProxiesGood
  <2>2. proxy' = [proxy EXCEPT ![e][n] = "live"]
    BY <1>2 DEF UnmarshalProxies
  <2>3. /\ proxy' \in [End -> [1 .. MaxObject -> {"none", "live", "disposed"}]]
        /\ proxy'[e][n] = "live"
        /\ \A x \in 1 .. MaxObject : x # n => proxy'[e][x] = proxy[e][x]
        /\ \A d \in End : d # e => proxy'[d] = proxy[d]
    BY <1>1, <2>1, <2>2
  <2> QED BY <1>2, <2>1, <2>3 DEF ProxyFollows
<1>3. CASE ~(n # NoRef /\ proxy[e][n] = "none")
  BY <1>1, <1>3 DEF UnmarshalProxies, ProxyFollows
<1> QED BY <1>2, <1>3

LEMMA ToldTyped ==
  ASSUME NEW r \in Request, r.outcome = "pending"
  PROVE  /\ Told(r) \in Request
         /\ Told(r).outcome = "done" /\ Told(r).arg = r.arg /\ Told(r).kind = r.kind
  BY DEF Told, Request, Outcome

\* Telling a caller that waits.
LEMMA TellFollows ==
  ASSUME RpcInv, NEW e \in End, NEW id \in calls[e] \cup subs[e], Tell(e, id)
  PROVE  /\ request' \in [End -> Seq(Request)]
         /\ \A d \in End : DOMAIN request'[d] = DOMAIN request[d] /\ RequestFollows(d)
         /\ \A d \in End : d # e => request'[d] = request[d]
         /\ PendingIn(request'[e], calls[e] \ {id}, subs[e] \ {id})
         /\ id \in calls[e] => id \notin subs[e]
<1>1. request \in [End -> Seq(Request)] /\ request[e] \in Seq(Request)
  BY DEF RpcInv, Typed
<1>2. PendingIn(request[e], calls[e], subs[e])
  BY DEF RpcInv, Pending
<1>3. /\ id \in DOMAIN request[e] /\ request[e][id] \in Request
      /\ request[e][id].outcome = "pending"
      /\ id \in calls[e] => id \notin subs[e]
  BY <1>1, <1>2 DEF PendingIn
<1> DEFINE f == [request[e] EXCEPT ![id] = Told(request[e][id])]
<1>4. request' = [request EXCEPT ![e] = f]
  BY DEF Tell
<1>5. f \in [DOMAIN request[e] -> Request]
  BY <1>1, <1>3, ToldTyped
<1>6. /\ f[id] = Told(request[e][id])
      /\ \A x \in DOMAIN request[e] : x # id => f[x] = request[e][x]
  BY <1>1, <1>3
<1> HIDE DEF f
<1>7. f \in Seq(Request) /\ DOMAIN f = DOMAIN request[e]
  BY <1>1, <1>5, SeqReplaced
<1>8. request'[e] = f /\ \A d \in End : d # e => request'[d] = request[d]
  BY <1>1, <1>4
<1>9. request' \in [End -> Seq(Request)]
  BY <1>1, <1>4, <1>7
<1>10. /\ f[id].outcome = "done" /\ f[id].arg = request[e][id].arg
       /\ f[id].kind = request[e][id].kind
  BY <1>3, <1>6, ToldTyped
<1>11. RequestFollows(e)
  BY <1>6, <1>7, <1>8, <1>10 DEF RequestFollows
<1>12. \A d \in End : d # e => RequestFollows(d)
  BY <1>8 DEF RequestFollows
<1>13. PendingIn(f, calls[e] \ {id}, subs[e] \ {id})
  BY <1>2, <1>6, <1>7, <1>10 DEF PendingIn
<1> QED BY <1>3, <1>7, <1>8, <1>9, <1>11, <1>12, <1>13

-----------------------------------------------------------------------------
(* The wires *)

LEMMA BriefFresh ==
  ASSUME NEW d \in End, NEW type \in {"unsubscribe", "error-response", "complete"},
         NEW id \in Nat
  PROVE  Fresh(d, Brief(type, id))
  BY DEF Fresh, Brief, Message, GoodMessage, Direct

LEMMA CarryingFresh ==
  ASSUME NEW d \in End, NEW type \in {"response", "next"}, NEW id \in Nat,
         NEW n \in Nat, IsRef(n, registry'[Peer(d)])
  PROVE  Fresh(d, Carrying(type, id, n))
  BY DEF Fresh, Carrying, Message, GoodMessage, Direct

LEMMA WirePosts ==
  ASSUME RpcInv, NEW e \in End, NEW m, Fresh(Peer(e), m), wire' = Posted(e, wire, m)
  PROVE  wire' \in [End -> Seq(Message)] /\ \A d \in End : WireFollows(d)
<1>1. wire \in [End -> Seq(Message)] /\ m \in Message
  BY DEF RpcInv, Typed, Fresh
<1>2. /\ wire' \in [End -> Seq(Message)] /\ wire'[e] = wire[e]
      /\ wire'[Peer(e)] = wire[Peer(e)] \/ wire'[Peer(e)] = Append(wire[Peer(e)], m)
  BY <1>1, PostedWire
<1>3. WireFollows(e)
  BY <1>2 DEF WireFollows, Cut
<1>4. WireFollows(Peer(e))
  BY <1>1, <1>2 DEF WireFollows, Cut
<1> QED BY <1>2, <1>3, <1>4, TwoEnds

LEMMA WireTakes ==
  ASSUME RpcInv, NEW e \in End, wire[e] # <<>>, wire' = [wire EXCEPT ![e] = Tail(@)]
  PROVE  /\ wire' \in [End -> Seq(Message)] /\ Takes(e)
         /\ \A d \in End : WireFollows(d)
<1>1. wire \in [End -> Seq(Message)] /\ Tail(wire[e]) \in Seq(Message)
  BY SeqTail DEF RpcInv, Typed
<1>2. /\ wire' \in [End -> Seq(Message)] /\ wire'[e] = Tail(wire[e])
      /\ \A d \in End : d # e => wire'[d] = wire[d]
  BY <1>1
<1> QED BY <1>2 DEF WireFollows, Cut, Takes

LEMMA WireAnswers ==
  ASSUME RpcInv, NEW e \in End, wire[e] # <<>>, NEW m, Fresh(Peer(e), m),
         wire' = Posted(e, [wire EXCEPT ![e] = Tail(@)], m)
  PROVE  /\ wire' \in [End -> Seq(Message)] /\ Takes(e)
         /\ \A d \in End : WireFollows(d)
<1>1. PICK w : w = [wire EXCEPT ![e] = Tail(@)] /\ wire' = Posted(e, w, m)
  OBVIOUS
<1>2. wire \in [End -> Seq(Message)] /\ Tail(wire[e]) \in Seq(Message) /\ m \in Message
  BY SeqTail DEF RpcInv, Typed, Fresh
<1>3. /\ w \in [End -> Seq(Message)] /\ w[e] = Tail(wire[e])
      /\ w[Peer(e)] = wire[Peer(e)]
  BY <1>2, <1>1, TwoEnds
<1>4. /\ wire' \in [End -> Seq(Message)] /\ wire'[e] = w[e]
      /\ wire'[Peer(e)] = w[Peer(e)] \/ wire'[Peer(e)] = Append(w[Peer(e)], m)
  <2>1. w \in [End -> Seq(Message)] /\ m \in Message
    BY <1>2, <1>3
  <2>2. /\ Posted(e, w, m) \in [End -> Seq(Message)] /\ Posted(e, w, m)[e] = w[e]
        /\ \/ Posted(e, w, m)[Peer(e)] = w[Peer(e)]
           \/ Posted(e, w, m)[Peer(e)] = Append(w[Peer(e)], m)
    BY <2>1, PostedWire
  <2>3. wire' = Posted(e, w, m)
    BY <1>1
  <2> QED BY <2>2, <2>3
<1>5. WireFollows(e) /\ Takes(e)
  BY <1>3, <1>4 DEF WireFollows, Takes
<1>6. WireFollows(Peer(e))
  BY <1>2, <1>3, <1>4 DEF WireFollows, Cut
<1> QED BY <1>4, <1>5, <1>6, TwoEnds

LEMMA WireStays ==
  ASSUME wire' = wire
  PROVE  \A d \in End : WireFollows(d)
  BY DEF WireFollows, Cut

-----------------------------------------------------------------------------
(* The caller's steps *)

LEMMA InvTypes ==
  ASSUME RpcInv, NEW e \in End
  PROVE  /\ wire[e] \in Seq(Message) /\ request[e] \in Seq(Request)
         /\ DOMAIN request[e] \subseteq Nat
         /\ PendingIn(request[e], calls[e], subs[e])
         /\ DOMAIN registry[e] \subseteq 1 .. MaxObject
<1>1. wire[e] \in Seq(Message) /\ request[e] \in Seq(Request)
  BY DEF RpcInv, Typed
<1> QED BY <1>1 DEF RpcInv, Pending, ProxiesGood

\* Nothing but the wires and who answers changes.
LEMMA CallerIdle ==
  ASSUME RpcInv, UNCHANGED <<request, calls, subs>>
  PROVE  /\ \A d \in End : RequestFollows(d)
         /\ Pending'
  BY DEF RequestFollows, RpcInv, Pending

LEMMA RegistryIdle ==
  ASSUME RpcInv, UNCHANGED registry
  PROVE  \A d \in End : RegistryFollows(d)
  BY DEF RegistryFollows, RpcInv, ProxiesGood

LEMMA ProxyIdle ==
  ASSUME UNCHANGED proxy
  PROVE  \A d \in End : ProxyFollows(d)
  BY DEF ProxyFollows

\* A request, of a plan, through a proxy that is live or was just disposed.
LEMMA NewRequestFollows ==
  ASSUME RpcInv, NEW e \in End, NEW kind \in Kind, NEW target \in 0 .. MaxObject,
         NEW arg \in Nat, NEW outcome \in {"sent", "created", "pending"},
         NewRequest(e, kind, target, arg, outcome), IsRef(arg, registry'[e]),
         target = NoRef \/ proxy[e][target] = "live",
         kind = "dispose" => target # NoRef /\ proxy'[e][target] = "disposed",
         outcome = "pending" => kind \in {"promise", "dispose"},
         outcome = "created" => kind = "observable"
  PROVE  /\ wire' \in [End -> Seq(Message)] /\ \A d \in End : WireFollows(d)
         /\ request' \in [End -> Seq(Request)]
         /\ \A d \in End : RequestFollows(d) /\ DOMAIN request[d] \subseteq DOMAIN request'[d]
         /\ calls' \in [End -> SUBSET Nat]
         /\ subs' = subs => Pending'
<1> DEFINE id == Len(request[e]) + 1
           q == [kind |-> kind, target |-> target, arg |-> arg, outcome |-> outcome]
           m == RequestMessage(q, id)
<1>1. /\ request \in [End -> Seq(Request)] /\ request[e] \in Seq(Request)
      /\ wire \in [End -> Seq(Message)] /\ calls \in [End -> SUBSET Nat]
      /\ id \in Nat
  BY DEF RpcInv, Typed
<1>2. q \in Request /\ m \in Message
  BY <1>1, BoundsAssumption DEF Request, Outcome, RequestMessage, Message, Kind
<1>3. /\ request' = [request EXCEPT ![e] = Append(request[e], q)]
      /\ wire' = IF outcome = "created" THEN wire ELSE Posted(e, wire, m)
      /\ calls' = IF outcome = "pending" THEN [calls EXCEPT ![e] = calls[e] \cup {id}]
                                         ELSE calls
  BY DEF NewRequest
<1>4. /\ m.id = id /\ m.target = target /\ m.arg = arg /\ m.kind = kind
      /\ m.type = IF kind = "dispose" THEN "dispose" ELSE "call"
      /\ q.outcome = outcome /\ q.kind = kind /\ q.arg = arg
  BY DEF RequestMessage
<1> HIDE DEF m, q
<1>5. /\ Append(request[e], q) \in Seq(Request)
      /\ DOMAIN Append(request[e], q) = DOMAIN request[e] \cup {id}
      /\ id \notin DOMAIN request[e]
      /\ \A x \in DOMAIN request[e] : Append(request[e], q)[x] = request[e][x]
      /\ Append(request[e], q)[id] = q
  BY <1>1, <1>2, SeqAppended
<1> HIDE DEF id
<1>6. /\ request' \in [End -> Seq(Request)] /\ request'[e] = Append(request[e], q)
      /\ \A d \in End : d # e => request'[d] = request[d]
  BY <1>1, <1>3, <1>5
<1>7. /\ calls' \in [End -> SUBSET Nat]
      /\ calls'[e] = IF outcome = "pending" THEN calls[e] \cup {id} ELSE calls[e]
      /\ \A d \in End : d # e => calls'[d] = calls[d]
  BY <1>1, <1>3
<1>8. \A d \in End : RequestFollows(d) /\ DOMAIN request[d] \subseteq DOMAIN request'[d]
  <2>1. RequestFollows(e)
    BY <1>4, <1>5, <1>6 DEF RequestFollows
  <2>2. \A d \in End : d # e => RequestFollows(d)
    BY <1>6 DEF RequestFollows
  <2> QED BY <1>5, <1>6, <2>1, <2>2
<1>9. Fresh(Peer(e), m)
  <2>1. GoodMessage(m, request'[e], registry'[e], proxy'[e])
    BY <1>4, <1>5, <1>6, BoundsAssumption DEF GoodMessage, NoRef
  <2>2. target # NoRef => target \in 1 .. MaxObject /\ proxy[e][target] = "live"
    BY BoundsAssumption DEF NoRef
  <2> QED BY <1>2, <1>4, <2>1, <2>2, TwoEnds DEF Fresh
<1>10. wire' \in [End -> Seq(Message)] /\ \A d \in End : WireFollows(d)
  BY <1>1, <1>3, <1>9, WirePosts, WireStays
<1>11. subs' = subs => Pending'
  <2>1. PendingIn(request[e], calls[e], subs[e])
    BY InvTypes
  <2>2. PendingIn(request'[e], calls'[e], subs[e])
    BY <1>4, <1>5, <1>6, <1>7, <2>1 DEF PendingIn
  <2>3. \A d \in End : d # e => PendingIn(request'[d], calls'[d], subs[d])
    BY <1>6, <1>7 DEF RpcInv, Pending
  <2> QED BY <2>2, <2>3 DEF Pending
<1> QED BY <1>6, <1>7, <1>8, <1>10, <1>11

\* What is left to say of a step of the types.
LEMMA StillTyped ==
  ASSUME RpcInv,
         wire' \in [End -> Seq(Message)], request' \in [End -> Seq(Request)],
         calls' \in [End -> SUBSET Nat], subs' \in [End -> SUBSET Nat],
         registry' \in [End -> Seq(Registration)],
         proxy' \in [End -> [1 .. MaxObject -> {"none", "live", "disposed"}]],
         \A d \in End : DOMAIN request[d] \subseteq DOMAIN request'[d],
         working' \in [End -> SUBSET Nat], streams' \in [End -> SUBSET Nat],
         producing' \in [End -> SUBSET Nat], detached' \in [End -> SUBSET Nat],
         \A d \in End : working'[d] \cup streams'[d] \cup producing'[d] \cup detached'[d]
                          \subseteq DOMAIN request'[Peer(d)],
         closing' \in [End -> {"no", "objects", "done"}], plan' = plan
  PROVE  Typed'
  BY DEF RpcInv, Typed

\* The promises and observables that run are of requests that stay.
LEMMA RunningTyped ==
  ASSUME RpcInv, \A d \in End : DOMAIN request[d] \subseteq DOMAIN request'[d]
  PROVE  \A d \in End : working[d] \cup streams[d] \cup producing[d] \cup detached[d]
                          \subseteq DOMAIN request'[Peer(d)]
  BY TwoEnds DEF RpcInv, Typed

LEMMA CallKeeps ==
  ASSUME RpcInv, NEW e \in End, NEW kind \in Kind \ {"dispose"},
         NEW target \in 0 .. MaxObject, NEW o \in Value(e), Call(e, kind, target, o)
  PROVE  RpcInv'
<1> DEFINE arg == Marshalled(e, o)
           outcome == CASE kind = "void" -> "sent"
                        [] kind = "promise" -> "pending"
                        [] kind = "observable" -> "created"
<1>1. /\ MarshalRegisters(e, o) /\ NewRequest(e, kind, target, arg, outcome)
      /\ target = NoRef \/ proxy[e][target] = "live"
      /\ UNCHANGED <<subs, proxy, working, streams, producing, detached, closing, plan>>
  BY DEF Call
<1>2. /\ outcome \in {"sent", "created", "pending"}
      /\ outcome = "pending" => kind \in {"promise", "dispose"}
      /\ outcome = "created" => kind = "observable"
  BY DEF Kind
<1> HIDE DEF outcome
<1>3. /\ registry' \in [End -> Seq(Registration)]
      /\ \A d \in End : RegistryFollows(d)
      /\ arg \in Nat /\ IsRef(arg, registry'[e])
  BY <1>1, MarshalFollows
<1> HIDE DEF arg
<1>4. /\ wire' \in [End -> Seq(Message)] /\ \A d \in End : WireFollows(d)
      /\ request' \in [End -> Seq(Request)]
      /\ \A d \in End : RequestFollows(d) /\ DOMAIN request[d] \subseteq DOMAIN request'[d]
      /\ calls' \in [End -> SUBSET Nat]
      /\ Pending'
  BY <1>1, <1>2, <1>3, NewRequestFollows
<1>5. Typed'
  BY <1>1, <1>3, <1>4, RunningTyped, StillTyped DEF RpcInv, Typed
<1> QED BY <1>1, <1>3, <1>4, <1>5, ProxyIdle, FollowingKeeps DEF Follows

\* The caller who was told waits no more.
LEMMA ToldPending ==
  ASSUME RpcInv, NEW e \in End, NEW id \in calls[e] \cup subs[e], Tell(e, id),
         \/ id \in calls[e] /\ calls' = [calls EXCEPT ![e] = @ \ {id}] /\ subs' = subs
         \/ id \in subs[e] /\ subs' = [subs EXCEPT ![e] = @ \ {id}] /\ calls' = calls
  PROVE  /\ calls' \in [End -> SUBSET Nat] /\ subs' \in [End -> SUBSET Nat]
         /\ Pending'
<1>1. calls \in [End -> SUBSET Nat] /\ subs \in [End -> SUBSET Nat]
  BY DEF RpcInv, Typed
<1>2. /\ \A d \in End : d # e => request'[d] = request[d]
      /\ PendingIn(request'[e], calls[e] \ {id}, subs[e] \ {id})
      /\ id \in calls[e] => id \notin subs[e]
  BY TellFollows
<1>3. calls' \in [End -> SUBSET Nat] /\ subs' \in [End -> SUBSET Nat]
  BY <1>1
<1>4. calls'[e] = calls[e] \ {id} /\ subs'[e] = subs[e] \ {id}
  BY <1>1, <1>2
<1>5. \A d \in End : d # e => calls'[d] = calls[d] /\ subs'[d] = subs[d]
  BY <1>1
<1>6. \A d \in End : d # e => PendingIn(request'[d], calls'[d], subs'[d])
  BY <1>2, <1>5 DEF RpcInv, Pending
<1>7. PendingIn(request'[e], calls'[e], subs'[e])
  BY <1>2, <1>4
<1> QED BY <1>3, <1>6, <1>7 DEF Pending

LEMMA SubscribeKeeps ==
  ASSUME RpcInv, NEW e \in End, NEW id, Subscribe(e, id)
  PROVE  RpcInv'
<1>1. /\ id \in DOMAIN request[e] /\ request[e][id].outcome = "created"
      /\ request' = [request EXCEPT ![e][id].outcome = "pending"]
      /\ subs' = [subs EXCEPT ![e] = @ \cup {id}]
      /\ wire' = Posted(e, wire, RequestMessage(request[e][id], id))
      /\ UNCHANGED <<calls, proxy, registry, working, streams, producing, detached, closing, plan>>
  BY DEF Subscribe, calleeVars
<1>2. /\ request \in [End -> Seq(Request)] /\ request[e] \in Seq(Request)
      /\ subs \in [End -> SUBSET Nat] /\ calls \in [End -> SUBSET Nat]
      /\ PendingIn(request[e], calls[e], subs[e])
      /\ DOMAIN request[e] \subseteq Nat
  BY InvTypes DEF RpcInv, Typed
<1> DEFINE q == request[e][id]
           f == [request[e] EXCEPT ![id] = [q EXCEPT !.outcome = "pending"]]
           m == RequestMessage(q, id)
<1>3. q \in Request /\ q.kind = "observable" /\ IsRef(q.arg, registry[e]) /\ id \in Nat
  BY <1>1, <1>2 DEF PendingIn, RpcInv, RequestsGood
<1>4. /\ [q EXCEPT !.outcome = "pending"] \in Request
      /\ [q EXCEPT !.outcome = "pending"].outcome = "pending"
      /\ [q EXCEPT !.outcome = "pending"].kind = q.kind
      /\ [q EXCEPT !.outcome = "pending"].arg = q.arg
  BY <1>3 DEF Request, Outcome
<1>5. m \in Message /\ m.type = "call" /\ m.kind = "observable" /\ m.arg = q.arg /\ m.id = id
  BY <1>3, RequestTyped DEF RequestMessage
<1>6. request' = [request EXCEPT ![e] = f]
  BY <1>1
<1>7. /\ f \in [DOMAIN request[e] -> Request]
      /\ f[id] = [q EXCEPT !.outcome = "pending"]
      /\ \A x \in DOMAIN request[e] : x # id => f[x] = request[e][x]
  BY <1>1, <1>2, <1>4
<1>8. wire' = Posted(e, wire, m)
  BY <1>1
<1> HIDE DEF f, m
<1>9. f \in Seq(Request) /\ DOMAIN f = DOMAIN request[e]
  BY <1>2, <1>7, SeqReplaced
<1>10. /\ request' \in [End -> Seq(Request)] /\ request'[e] = f
       /\ \A d \in End : d # e => request'[d] = request[d]
  BY <1>2, <1>6, <1>9
<1>11. /\ f[id].outcome = "pending" /\ f[id].kind = "observable"
       /\ f[id].arg = request[e][id].arg
  BY <1>3, <1>4, <1>7
<1> HIDE DEF q
<1>12. \A d \in End : RequestFollows(d) /\ DOMAIN request[d] \subseteq DOMAIN request'[d]
  <2>1. RequestFollows(e)
    BY <1>7, <1>9, <1>10, <1>11 DEF RequestFollows
  <2>2. \A d \in End : d # e => RequestFollows(d)
    BY <1>10 DEF RequestFollows
  <2> QED BY <1>9, <1>10, <2>1, <2>2
<1>13. Fresh(Peer(e), m)
  <2>1. GoodMessage(m, request'[e], registry'[e], proxy'[e])
    BY <1>1, <1>3, <1>5, <1>9, <1>10 DEF GoodMessage
  <2> QED BY <1>5, <2>1, TwoEnds DEF Fresh, Direct
<1>14. wire' \in [End -> Seq(Message)] /\ \A d \in End : WireFollows(d)
  BY <1>8, <1>13, WirePosts
<1>15. subs' \in [End -> SUBSET Nat] /\ subs'[e] = subs[e] \cup {id}
       /\ \A d \in End : d # e => subs'[d] = subs[d]
  BY <1>1, <1>2, <1>3
<1>16. Pending'
  <2>1. PendingIn(request'[e], calls'[e], subs'[e])
    BY <1>1, <1>2, <1>7, <1>9, <1>10, <1>11, <1>15 DEF PendingIn
  <2>2. \A d \in End : d # e => PendingIn(request'[d], calls'[d], subs'[d])
    BY <1>1, <1>10, <1>15 DEF RpcInv, Pending
  <2> QED BY <2>1, <2>2 DEF Pending
<1>17. Typed'
  BY <1>1, <1>10, <1>12, <1>14, <1>15, RunningTyped, StillTyped DEF RpcInv, Typed
<1> QED BY <1>1, <1>12, <1>14, <1>16, <1>17, RegistryIdle, ProxyIdle, FollowingKeeps DEF Follows

LEMMA UnsubscribeKeeps ==
  ASSUME RpcInv, NEW e \in End, NEW id, Unsubscribe(e, id)
  PROVE  RpcInv'
<1>1. /\ id \in subs[e] /\ Tell(e, id)
      /\ subs' = [subs EXCEPT ![e] = @ \ {id}]
      /\ wire' = Posted(e, wire, Brief("unsubscribe", id))
      /\ UNCHANGED <<calls, proxy, registry, working, streams, producing, detached, closing, plan>>
  BY DEF Unsubscribe, calleeVars
<1>2. id \in Nat
  BY <1>1 DEF RpcInv, Typed
<1>3. /\ request' \in [End -> Seq(Request)]
      /\ \A d \in End : RequestFollows(d) /\ DOMAIN request[d] \subseteq DOMAIN request'[d]
  BY <1>1, TellFollows
<1>4. calls' \in [End -> SUBSET Nat] /\ subs' \in [End -> SUBSET Nat] /\ Pending'
  BY <1>1, ToldPending
<1>5. wire' \in [End -> Seq(Message)] /\ \A d \in End : WireFollows(d)
  BY <1>1, <1>2, BriefFresh, WirePosts, TwoEnds
<1>6. Typed'
  BY <1>1, <1>3, <1>4, <1>5, RunningTyped, StillTyped DEF RpcInv, Typed
<1> QED BY <1>1, <1>3, <1>4, <1>5, <1>6, RegistryIdle, ProxyIdle, FollowingKeeps DEF Follows

LEMMA TimesOutKeeps ==
  ASSUME RpcInv, NEW id, TimesOut(id)
  PROVE  RpcInv'
<1> DEFINE e == "client"
<1>1. /\ e \in End /\ id \in calls[e] /\ Tell(e, id)
      /\ calls' = [calls EXCEPT ![e] = @ \ {id}]
      /\ UNCHANGED <<wire, subs, proxy, registry, working, streams, producing, detached, closing, plan>>
  BY DEF TimesOut, calleeVars, End
<1>2. /\ request' \in [End -> Seq(Request)]
      /\ \A d \in End : RequestFollows(d) /\ DOMAIN request[d] \subseteq DOMAIN request'[d]
  BY <1>1, TellFollows
<1>3. calls' \in [End -> SUBSET Nat] /\ subs' \in [End -> SUBSET Nat] /\ Pending'
  BY <1>1, ToldPending
<1>4. Typed'
  BY <1>1, <1>2, <1>3, RunningTyped, StillTyped DEF RpcInv, Typed
<1> QED BY <1>1, <1>2, <1>3, <1>4, RegistryIdle, ProxyIdle, WireStays, FollowingKeeps DEF Follows

LEMMA DisposeProxyKeeps ==
  ASSUME RpcInv, NEW e \in End, NEW n \in 1 .. MaxObject, DisposeProxy(e, n)
  PROVE  RpcInv'
<1>1. /\ proxy[e][n] = "live" /\ proxy' = [proxy EXCEPT ![e][n] = "disposed"]
      /\ UNCHANGED <<subs, registry, working, streams, producing, detached, closing, plan>>
  BY DEF DisposeProxy, calleeVars
<1>2. /\ proxy' \in [End -> [1 .. MaxObject -> {"none", "live", "disposed"}]]
      /\ proxy'[e][n] = "disposed"
      /\ \A d \in End : ProxyFollows(d)
  BY <1>1 DEF RpcInv, Typed, ProxyFollows
<1>3. CASE Closed(e)
  <2>1. UNCHANGED <<wire, request, calls>>
    BY <1>3 DEF DisposeProxy
  <2>2. Typed'
    BY <1>1, <1>2, <2>1, RunningTyped, StillTyped DEF RpcInv, Typed
  <2> QED BY <1>1, <1>2, <2>1, <2>2, CallerIdle, RegistryIdle, WireStays, FollowingKeeps
          DEF Follows
<1>4. CASE ~Closed(e)
  <2>1. NewRequest(e, "dispose", n, NoRef, "pending")
    BY <1>4 DEF DisposeProxy
  <2>2. "dispose" \in Kind /\ n \in 0 .. MaxObject /\ n # NoRef /\ NoRef \in Nat
    BY BoundsAssumption DEF Kind, NoRef
  <2>3. /\ wire' \in [End -> Seq(Message)] /\ \A d \in End : WireFollows(d)
        /\ request' \in [End -> Seq(Request)]
        /\ \A d \in End : RequestFollows(d) /\ DOMAIN request[d] \subseteq DOMAIN request'[d]
        /\ calls' \in [End -> SUBSET Nat]
        /\ Pending'
    BY <1>1, <1>2, <2>1, <2>2, NewRequestFollows DEF IsRef
  <2>4. Typed'
    BY <1>1, <1>2, <2>3, RunningTyped, StillTyped DEF RpcInv, Typed
  <2> QED BY <1>1, <1>2, <2>3, <2>4, RegistryIdle, FollowingKeeps DEF Follows
<1> QED BY <1>3, <1>4

-----------------------------------------------------------------------------
(* The handling of a message *)

LEMMA HeadIsGood ==
  ASSUME RpcInv, NEW e \in End, wire[e] # <<>>
  PROVE  /\ Head(wire[e]) \in Message /\ Head(wire[e]).id \in Nat
         /\ GoodMessage(Head(wire[e]), request[Peer(e)], registry[Peer(e)], proxy[Peer(e)])
<1>1. wire[e] \in Seq(Message)
  BY InvTypes
<1>2. 1 \in DOMAIN wire[e] /\ Head(wire[e]) = wire[e][1] /\ Head(wire[e]) \in Message
  BY <1>1, SeqTail
<1> QED BY <1>2, MessageTyped DEF RpcInv, MessagesGood

LEMMA HandleAnswerKeeps ==
  ASSUME RpcInv, NEW e \in End, wire[e] # <<>>, HandleAnswer(e, Head(wire[e])),
         UNCHANGED calleeVars, UNCHANGED <<closing, plan>>
  PROVE  RpcInv'
<1> DEFINE m == Head(wire[e])
           n == IF m.type = "response" THEN m.ref ELSE NoRef
<1>1. GoodMessage(m, request[Peer(e)], registry[Peer(e)], proxy[Peer(e)])
  BY HeadIsGood
<1>2. IsRef(n, registry[Peer(e)])
  BY <1>1 DEF GoodMessage, IsRef
<1>3. /\ wire' = [wire EXCEPT ![e] = Tail(@)]
      /\ UNCHANGED <<subs, registry, working, streams, producing, detached, closing, plan>>
  BY DEF HandleAnswer, calleeVars
<1>4. wire' \in [End -> Seq(Message)] /\ \A d \in End : WireFollows(d)
  BY <1>3, WireTakes
<1>5. \/ /\ m.id \in calls[e] /\ Tell(e, m.id)
         /\ calls' = [calls EXCEPT ![e] = @ \ {m.id}]
         /\ UnmarshalProxies(e, n)
      \/ UNCHANGED <<request, calls, proxy>>
  BY DEF HandleAnswer
<1> HIDE DEF m, n
<1>6. CASE /\ m.id \in calls[e] /\ Tell(e, m.id)
           /\ calls' = [calls EXCEPT ![e] = @ \ {m.id}]
           /\ UnmarshalProxies(e, n)
  <2>1. /\ request' \in [End -> Seq(Request)]
        /\ \A d \in End : RequestFollows(d) /\ DOMAIN request[d] \subseteq DOMAIN request'[d]
    BY <1>6, TellFollows
  <2>2. calls' \in [End -> SUBSET Nat] /\ subs' \in [End -> SUBSET Nat] /\ Pending'
    BY <1>3, <1>6, ToldPending
  <2>3. /\ proxy' \in [End -> [1 .. MaxObject -> {"none", "live", "disposed"}]]
        /\ \A d \in End : ProxyFollows(d)
    BY <1>2, <1>6, UnmarshalFollows
  <2>4. Typed'
    BY <1>3, <1>4, <2>1, <2>2, <2>3, RunningTyped, StillTyped DEF RpcInv, Typed
  <2> QED BY <1>3, <1>4, <2>1, <2>2, <2>3, <2>4, RegistryIdle, FollowingKeeps DEF Follows
<1>7. CASE UNCHANGED <<request, calls, proxy>>
  <2>1. Typed'
    BY <1>3, <1>4, <1>7, RunningTyped, StillTyped DEF RpcInv, Typed
  <2> QED BY <1>3, <1>4, <1>7, <2>1, CallerIdle, RegistryIdle, ProxyIdle, FollowingKeeps
          DEF Follows
<1> QED BY <1>5, <1>6, <1>7

LEMMA HandleNextKeeps ==
  ASSUME RpcInv, NEW e \in End, wire[e] # <<>>, HandleNext(e, Head(wire[e])),
         UNCHANGED calleeVars, UNCHANGED <<closing, plan>>
  PROVE  RpcInv'
<1> DEFINE m == Head(wire[e])
           n == IF m.id \in subs[e] THEN m.ref ELSE NoRef
<1>1. GoodMessage(m, request[Peer(e)], registry[Peer(e)], proxy[Peer(e)])
  BY HeadIsGood
<1>2. IsRef(n, registry[Peer(e)])
  BY <1>1 DEF GoodMessage, IsRef, HandleNext
<1>3. /\ wire' = [wire EXCEPT ![e] = Tail(@)] /\ UnmarshalProxies(e, n)
      /\ UNCHANGED <<request, calls, subs, registry, working, streams, producing, detached, closing, plan>>
  BY DEF HandleNext, calleeVars
<1> HIDE DEF n
<1>4. wire' \in [End -> Seq(Message)] /\ \A d \in End : WireFollows(d)
  BY <1>3, WireTakes
<1>5. /\ proxy' \in [End -> [1 .. MaxObject -> {"none", "live", "disposed"}]]
      /\ \A d \in End : ProxyFollows(d)
  BY <1>2, <1>3, UnmarshalFollows
<1>6. Typed'
  BY <1>3, <1>4, <1>5, RunningTyped, StillTyped DEF RpcInv, Typed
<1> QED BY <1>3, <1>4, <1>5, <1>6, CallerIdle, RegistryIdle, FollowingKeeps DEF Follows

LEMMA HandleEndKeeps ==
  ASSUME RpcInv, NEW e \in End, wire[e] # <<>>, HandleEnd(e, Head(wire[e])),
         UNCHANGED calleeVars, UNCHANGED <<closing, plan>>
  PROVE  RpcInv'
<1> DEFINE id == Head(wire[e]).id
           rest == [wire EXCEPT ![e] = Tail(@)]
<1>1. id \in Nat
  BY HeadIsGood
<1>2. /\ \/ /\ id \in subs[e] /\ Tell(e, id)
            /\ subs' = [subs EXCEPT ![e] = @ \ {id}]
            /\ wire' = Posted(e, rest, Brief("unsubscribe", id))
         \/ wire' = rest /\ UNCHANGED <<request, subs>>
      /\ UNCHANGED <<calls, proxy, registry, working, streams, producing, detached, closing, plan>>
  BY DEF HandleEnd, calleeVars
<1> HIDE DEF id
<1>3. CASE /\ id \in subs[e] /\ Tell(e, id)
           /\ subs' = [subs EXCEPT ![e] = @ \ {id}]
           /\ wire' = Posted(e, rest, Brief("unsubscribe", id))
  <2>1. /\ request' \in [End -> Seq(Request)]
        /\ \A d \in End : RequestFollows(d) /\ DOMAIN request[d] \subseteq DOMAIN request'[d]
    BY <1>3, TellFollows
  <2>2. calls' \in [End -> SUBSET Nat] /\ subs' \in [End -> SUBSET Nat] /\ Pending'
    BY <1>2, <1>3, ToldPending
  <2>3. wire' \in [End -> Seq(Message)] /\ \A d \in End : WireFollows(d)
    BY <1>1, <1>3, BriefFresh, WireAnswers, TwoEnds
  <2>4. Typed'
    BY <1>2, <2>1, <2>2, <2>3, RunningTyped, StillTyped DEF RpcInv, Typed
  <2> QED BY <1>2, <2>1, <2>2, <2>3, <2>4, RegistryIdle, ProxyIdle, FollowingKeeps DEF Follows
<1>4. CASE wire' = rest /\ UNCHANGED <<request, subs>>
  <2>1. wire' \in [End -> Seq(Message)] /\ \A d \in End : WireFollows(d)
    BY <1>4, WireTakes
  <2>2. Typed'
    BY <1>2, <1>4, <2>1, RunningTyped, StillTyped DEF RpcInv, Typed
  <2> QED BY <1>2, <1>4, <2>1, <2>2, CallerIdle, RegistryIdle, ProxyIdle, FollowingKeeps
          DEF Follows
<1> QED BY <1>2, <1>3, <1>4

\* What runs at e for the other end becomes x, y, z and u.
Runs(e, x, y, z, u) ==
  /\ working' = [working EXCEPT ![e] = x]
  /\ streams' = [streams EXCEPT ![e] = y]
  /\ producing' = [producing EXCEPT ![e] = z]
  /\ detached' = [detached EXCEPT ![e] = u]

\* A step of the callee: what answers, and what runs for the other end.
LEMMA CalleeKeeps ==
  ASSUME RpcInv, NEW e \in End, wire' \in [End -> Seq(Message)],
         \A d \in End : WireFollows(d) /\ RegistryFollows(d) /\ ProxyFollows(d),
         registry' \in [End -> Seq(Registration)],
         proxy' \in [End -> [1 .. MaxObject -> {"none", "live", "disposed"}]],
         UNCHANGED <<request, calls, subs, plan>>,
         \A d \in End : closing[d] # "no" => closing'[d] # "no",
         closing' \in [End -> {"no", "objects", "done"}],
         NEW x, NEW y, NEW z, NEW u, Runs(e, x, y, z, u),
         x \cup y \cup z \cup u \subseteq DOMAIN request[Peer(e)]
  PROVE  RpcInv'
<1>1. /\ working \in [End -> SUBSET Nat] /\ streams \in [End -> SUBSET Nat]
      /\ producing \in [End -> SUBSET Nat] /\ detached \in [End -> SUBSET Nat]
      /\ calls \in [End -> SUBSET Nat] /\ subs \in [End -> SUBSET Nat]
      /\ request \in [End -> Seq(Request)]
      /\ \A d \in End : working[d] \cup streams[d] \cup producing[d] \cup detached[d] \subseteq DOMAIN request[Peer(d)]
  BY DEF RpcInv, Typed
<1>2. DOMAIN request[Peer(e)] \subseteq Nat
  BY InvTypes, TwoEnds
<1>3. x \in SUBSET Nat /\ y \in SUBSET Nat /\ z \in SUBSET Nat /\ u \in SUBSET Nat
  BY <1>2
<1>4. /\ working' \in [End -> SUBSET Nat] /\ streams' \in [End -> SUBSET Nat]
      /\ producing' \in [End -> SUBSET Nat] /\ detached' \in [End -> SUBSET Nat]
      /\ working'[e] = x /\ streams'[e] = y /\ producing'[e] = z /\ detached'[e] = u
      /\ \A d \in End : d # e =>
           /\ working'[d] = working[d] /\ streams'[d] = streams[d]
           /\ producing'[d] = producing[d] /\ detached'[d] = detached[d]
  BY <1>1, <1>3 DEF Runs
<1>5. \A d \in End : working'[d] \cup streams'[d] \cup producing'[d] \cup detached'[d] \subseteq DOMAIN request'[Peer(d)]
  <2>1. \A d \in End : d # e => working'[d] \cup streams'[d] \cup producing'[d] \cup detached'[d]
                                  \subseteq DOMAIN request[Peer(d)]
    BY <1>1, <1>4
  <2>2. working'[e] \cup streams'[e] \cup producing'[e] \cup detached'[e] \subseteq DOMAIN request[Peer(e)]
    BY <1>4
  <2> QED BY <2>1, <2>2
<1>6. Typed'
  BY <1>1, <1>4, <1>5, StillTyped
<1> QED BY <1>6, CallerIdle, FollowingKeeps DEF Follows

LEMMA RunningSame ==
  ASSUME RpcInv, NEW e \in End
  PROVE  /\ working[e] \cup streams[e] \cup producing[e] \cup detached[e] \subseteq DOMAIN request[Peer(e)]
         /\ [working EXCEPT ![e] = working[e]] = working
         /\ [streams EXCEPT ![e] = streams[e]] = streams
         /\ [producing EXCEPT ![e] = producing[e]] = producing
         /\ [detached EXCEPT ![e] = detached[e]] = detached
  BY DEF RpcInv, Typed

LEMMA HandleCallKeeps ==
  ASSUME RpcInv, NEW e \in End, wire[e] # <<>>, HandleCall(e, Head(wire[e])),
         UNCHANGED <<request, calls, subs>>, UNCHANGED <<closing, plan>>
  PROVE  RpcInv'
<1> DEFINE m == Head(wire[e])
           n == IF Known(e, m.target) THEN m.arg ELSE NoRef
<1>1. /\ GoodMessage(m, request[Peer(e)], registry[Peer(e)], proxy[Peer(e)])
      /\ m.id \in Nat /\ m.type = "call" /\ UnmarshalProxies(e, n)
  BY HeadIsGood DEF HandleCall
<1>2. IsRef(n, registry[Peer(e)]) /\ m.id \in DOMAIN request[Peer(e)]
  BY <1>1 DEF GoodMessage, IsRef
<1>3. Throws(e, m) \/ Returns(e, m)
  BY DEF HandleCall
<1> HIDE DEF n, m
<1>4. /\ proxy' \in [End -> [1 .. MaxObject -> {"none", "live", "disposed"}]]
      /\ \A d \in End : ProxyFollows(d)
  BY <1>1, <1>2, UnmarshalFollows
<1>5. registry' = registry
  BY <1>3 DEF Throws, Returns, calleeVars
<1>6. registry' \in [End -> Seq(Registration)] /\ \A d \in End : RegistryFollows(d)
  BY <1>5, RegistryIdle DEF RpcInv, Typed
<1>7. /\ wire' \in [End -> Seq(Message)] /\ \A d \in End : WireFollows(d)
  <2>1. NoAnswer(e) \/ Answer(e, Brief("error-response", m.id))
          \/ Answer(e, Brief("complete", m.id))
    BY <1>3 DEF Throws, Returns
  <2>2. CASE NoAnswer(e)
    BY <2>2, WireTakes DEF NoAnswer
  <2>3. CASE Answer(e, Brief("error-response", m.id))
    BY <1>1, <2>3, BriefFresh, WireAnswers, TwoEnds DEF Answer
  <2>4. CASE Answer(e, Brief("complete", m.id))
    BY <1>1, <2>4, BriefFresh, WireAnswers, TwoEnds DEF Answer
  <2> QED BY <2>1, <2>2, <2>3, <2>4
<1> DEFINE ids == {m.id}
<1>8. PICK x \in {working[e], working[e] \cup ids} : working' = [working EXCEPT ![e] = x]
  BY <1>3, RunningSame DEF Throws, Returns, calleeVars
<1>9. PICK y \in {streams[e], streams[e] \cup ids} : streams' = [streams EXCEPT ![e] = y]
  BY <1>3, RunningSame DEF Throws, Returns, calleeVars
<1>10. PICK z \in {producing[e], producing[e] \cup ids} :
         producing' = [producing EXCEPT ![e] = z]
  BY <1>3, RunningSame DEF Throws, Returns, calleeVars
<1>11. PICK u \in {detached[e], detached[e] \cup ids} : detached' = [detached EXCEPT ![e] = u]
  BY <1>3, RunningSame DEF Throws, Returns, calleeVars
<1>12. Runs(e, x, y, z, u) /\ x \cup y \cup z \cup u \subseteq DOMAIN request[Peer(e)]
  BY <1>2, <1>8, <1>9, <1>10, <1>11, RunningSame DEF Runs
<1> HIDE DEF ids
<1>13. /\ \A d \in End : closing[d] # "no" => closing'[d] # "no"
       /\ closing' \in [End -> {"no", "objects", "done"}]
  BY DEF RpcInv, Typed
<1> QED BY <1>4, <1>6, <1>7, <1>12, <1>13, CalleeKeeps

LEMMA HandleDisposeKeeps ==
  ASSUME RpcInv, NEW e \in End, wire[e] # <<>>, HandleDispose(e, Head(wire[e])),
         UNCHANGED <<request, calls, subs>>, UNCHANGED <<closing, plan>>
  PROVE  RpcInv'
<1> DEFINE m == Head(wire[e])
<1>1. /\ GoodMessage(m, request[Peer(e)], registry[Peer(e)], proxy[Peer(e)])
      /\ m.id \in Nat /\ m.type = "dispose" /\ UNCHANGED <<streams, producing, detached, proxy>>
  BY HeadIsGood DEF HandleDispose
<1>2. m.id \in DOMAIN request[Peer(e)] /\ m.target # NoRef
  BY <1>1, BoundsAssumption DEF GoodMessage, NoRef
<1>3. \/ /\ Known(e, m.target) /\ registry' = Unregistered(e, {m.target})
         /\ working' = [working EXCEPT ![e] = @ \cup {m.id}]
         /\ NoAnswer(e)
      \/ /\ Answer(e, Brief("error-response", m.id))
         /\ UNCHANGED <<registry, working>>
  BY DEF HandleDispose
<1> DEFINE ids == {m.id}
<1>4. ids \subseteq DOMAIN request[Peer(e)]
  BY <1>2
<1>5. /\ \A d \in End : closing[d] # "no" => closing'[d] # "no"
      /\ closing' \in [End -> {"no", "objects", "done"}]
      /\ proxy' \in [End -> [1 .. MaxObject -> {"none", "live", "disposed"}]]
      /\ \A d \in End : ProxyFollows(d)
  BY <1>1, ProxyIdle DEF RpcInv, Typed
<1>6. PICK x \in {working[e], working[e] \cup ids} : working' = [working EXCEPT ![e] = x]
  BY <1>3, RunningSame
<1>7. /\ Runs(e, x, streams[e], producing[e], detached[e])
      /\ x \cup streams[e] \cup producing[e] \cup detached[e] \subseteq DOMAIN request[Peer(e)]
  BY <1>1, <1>4, <1>6, RunningSame DEF Runs
<1>8. Head(wire[e]).type = "dispose" /\ Head(wire[e]).target = m.target
  BY <1>1
<1> HIDE DEF ids, m
<1>9. CASE /\ Known(e, m.target) /\ registry' = Unregistered(e, {m.target})
           /\ NoAnswer(e)
  <2>1. /\ wire' \in [End -> Seq(Message)] /\ Takes(e)
        /\ \A d \in End : WireFollows(d)
    BY <1>9, WireTakes DEF NoAnswer
  <2>2. m.target \in DOMAIN registry[e] /\ registry[e][m.target].here
    BY <1>2, <1>9 DEF Known
  <2>3. Goes(e, m.target)
    BY <1>8, <2>1 DEF Goes
  <2>4. registry' \in [End -> Seq(Registration)] /\ \A d \in End : RegistryFollows(d)
    BY <1>9, <2>2, <2>3, UnregisteredFollows
  <2> QED BY <1>5, <1>7, <2>1, <2>4, CalleeKeeps
<1>10. CASE Answer(e, Brief("error-response", m.id)) /\ UNCHANGED registry
  <2>1. wire' \in [End -> Seq(Message)] /\ \A d \in End : WireFollows(d)
    BY <1>1, <1>10, BriefFresh, WireAnswers, TwoEnds DEF Answer
  <2>2. registry' \in [End -> Seq(Registration)] /\ \A d \in End : RegistryFollows(d)
    BY <1>10, RegistryIdle DEF RpcInv, Typed
  <2> QED BY <1>5, <1>7, <2>1, <2>2, CalleeKeeps
<1> QED BY <1>3, <1>9, <1>10

\* Nothing changes at the callee but what runs for the other end.
LEMMA CalleeStops ==
  ASSUME RpcInv, NEW e \in End, wire' \in [End -> Seq(Message)], \A d \in End : WireFollows(d),
         UNCHANGED <<request, calls, subs, plan, registry, proxy>>,
         \A d \in End : closing[d] # "no" => closing'[d] # "no",
         closing' \in [End -> {"no", "objects", "done"}],
         NEW x \in SUBSET working[e], NEW y \in SUBSET streams[e], NEW z \in SUBSET producing[e],
         NEW u \in SUBSET (detached[e] \cup producing[e]), Runs(e, x, y, z, u)
  PROVE  RpcInv'
<1>1. x \cup y \cup z \cup u \subseteq DOMAIN request[Peer(e)]
  BY RunningSame
<1>2. registry' \in [End -> Seq(Registration)]
      /\ proxy' \in [End -> [1 .. MaxObject -> {"none", "live", "disposed"}]]
  BY DEF RpcInv, Typed
<1> QED BY <1>1, <1>2, RegistryIdle, ProxyIdle, CalleeKeeps

LEMMA ClosingSame ==
  ASSUME RpcInv, UNCHANGED closing
  PROVE  /\ \A d \in End : closing[d] # "no" => closing'[d] # "no"
         /\ closing' \in [End -> {"no", "objects", "done"}]
  BY DEF RpcInv, Typed

LEMMA HandleUnsubscribeKeeps ==
  ASSUME RpcInv, NEW e \in End, wire[e] # <<>>, HandleUnsubscribe(e, Head(wire[e])),
         UNCHANGED <<request, calls, subs>>, UNCHANGED <<closing, plan>>
  PROVE  RpcInv'
<1>1. /\ wire' \in [End -> Seq(Message)] /\ \A d \in End : WireFollows(d)
      /\ UNCHANGED <<registry, working, proxy>>
  BY WireTakes DEF HandleUnsubscribe, NoAnswer
<1>2. PICK y \in SUBSET streams[e] : streams' = [streams EXCEPT ![e] = y]
  BY DEF HandleUnsubscribe
<1>3. PICK z \in SUBSET producing[e] : producing' = [producing EXCEPT ![e] = z]
  BY DEF HandleUnsubscribe
<1>4. PICK u \in SUBSET (detached[e] \cup producing[e]) : detached' = [detached EXCEPT ![e] = u]
  <2> DEFINE ids == {Head(wire[e]).id} \cap streams[e]
  <2>1. detached' = [detached EXCEPT ![e] = detached[e] \ ids]
    BY DEF HandleUnsubscribe
  <2> HIDE DEF ids
  <2>2. detached[e] \ ids \in SUBSET (detached[e] \cup producing[e])
    OBVIOUS
  <2> QED BY <2>1, <2>2
<1>5. working' = [working EXCEPT ![e] = working[e]] /\ working[e] \in SUBSET working[e]
  BY <1>1, RunningSame
<1>6. Runs(e, working[e], y, z, u)
  BY <1>2, <1>3, <1>4, <1>5 DEF Runs
<1> QED BY <1>1, <1>2, <1>3, <1>4, <1>5, <1>6, ClosingSame, CalleeStops

-----------------------------------------------------------------------------
(* What runs at an end *)

LEMMA ResolvesKeeps ==
  ASSUME RpcInv, NEW e \in End, NEW id, NEW o \in Value(e), Resolves(e, id, o)
  PROVE  RpcInv'
<1> DEFINE n == Marshalled(e, o)
<1>1. /\ id \in working[e] /\ working' = [working EXCEPT ![e] = @ \ {id}]
      /\ MarshalRegisters(e, o) /\ wire' = Posted(e, wire, Carrying("response", id, n))
      /\ UNCHANGED <<request, calls, subs, proxy, streams, producing, detached, closing, plan>>
  BY DEF Resolves, callerVars
<1>2. /\ registry' \in [End -> Seq(Registration)]
      /\ \A d \in End : RegistryFollows(d)
      /\ n \in Nat /\ IsRef(n, registry'[e])
  BY <1>1, MarshalFollows
<1> HIDE DEF n
<1>3. id \in Nat
  BY <1>1 DEF RpcInv, Typed
<1>4. wire' \in [End -> Seq(Message)] /\ \A d \in End : WireFollows(d)
  BY <1>1, <1>2, <1>3, CarryingFresh, WirePosts, TwoEnds
<1>5. /\ proxy' \in [End -> [1 .. MaxObject -> {"none", "live", "disposed"}]]
      /\ \A d \in End : ProxyFollows(d)
  BY <1>1, ProxyIdle DEF RpcInv, Typed
<1>6. Runs(e, working[e] \ {id}, streams[e], producing[e], detached[e])
  BY <1>1, RunningSame DEF Runs
<1>7. (working[e] \ {id}) \cup streams[e] \cup producing[e] \cup detached[e] \subseteq DOMAIN request[Peer(e)]
  BY RunningSame
<1> QED BY <1>1, <1>2, <1>4, <1>5, <1>6, <1>7, ClosingSame, CalleeKeeps

LEMMA RejectsKeeps ==
  ASSUME RpcInv, NEW e \in End, NEW id, Rejects(e, id)
  PROVE  RpcInv'
<1>1. /\ id \in working[e] /\ working' = [working EXCEPT ![e] = @ \ {id}]
      /\ wire' = Posted(e, wire, Brief("error-response", id))
      /\ UNCHANGED <<request, calls, subs, proxy, registry, streams, producing, detached, closing, plan>>
  BY DEF Rejects, callerVars
<1>2. id \in Nat
  BY <1>1 DEF RpcInv, Typed
<1>3. wire' \in [End -> Seq(Message)] /\ \A d \in End : WireFollows(d)
  BY <1>1, <1>2, BriefFresh, WirePosts, TwoEnds
<1>4. Runs(e, working[e] \ {id}, streams[e], producing[e], detached[e])
  BY <1>1, RunningSame DEF Runs
<1>5. /\ working[e] \ {id} \in SUBSET working[e] /\ streams[e] \in SUBSET streams[e]
      /\ producing[e] \in SUBSET producing[e]
      /\ detached[e] \in SUBSET (detached[e] \cup producing[e])
  OBVIOUS
<1> QED BY <1>1, <1>3, <1>4, <1>5, ClosingSame, CalleeStops

LEMMA ResolvesBadlyKeeps ==
  ASSUME RpcInv, NEW e \in End, NEW id, ResolvesBadly(e, id)
  PROVE  RpcInv'
<1>1. /\ working' = [working EXCEPT ![e] = @ \ {id}]
      /\ UNCHANGED <<wire, request, calls, subs, proxy, registry, streams, producing,
                     detached, closing, plan>>
  BY DEF ResolvesBadly, callerVars
<1>2. wire' \in [End -> Seq(Message)] /\ \A d \in End : WireFollows(d)
  BY <1>1, WireStays DEF RpcInv, Typed
<1>3. Runs(e, working[e] \ {id}, streams[e], producing[e], detached[e])
  BY <1>1, RunningSame DEF Runs
<1>4. /\ working[e] \ {id} \in SUBSET working[e] /\ streams[e] \in SUBSET streams[e]
      /\ producing[e] \in SUBSET producing[e]
      /\ detached[e] \in SUBSET (detached[e] \cup producing[e])
  OBVIOUS
<1> QED BY <1>1, <1>2, <1>3, <1>4, ClosingSame, CalleeStops

LEMMA EmitsKeeps ==
  ASSUME RpcInv, NEW e \in End, NEW id, NEW o \in Value(e), Emits(e, id, o)
  PROVE  RpcInv'
<1> DEFINE n == Marshalled(e, o)
<1>1. /\ id \in producing[e]
      /\ MarshalRegisters(e, o) /\ wire' = Posted(e, wire, Carrying("next", id, n))
      /\ UNCHANGED <<request, calls, subs, proxy, working, streams, producing, detached, closing, plan>>
  BY DEF Emits, callerVars
<1>2. /\ registry' \in [End -> Seq(Registration)]
      /\ \A d \in End : RegistryFollows(d)
      /\ n \in Nat /\ IsRef(n, registry'[e])
  BY <1>1, MarshalFollows
<1> HIDE DEF n
<1>3. id \in Nat
  BY <1>1 DEF RpcInv, Typed
<1>4. wire' \in [End -> Seq(Message)] /\ \A d \in End : WireFollows(d)
  BY <1>1, <1>2, <1>3, CarryingFresh, WirePosts, TwoEnds
<1>5. /\ proxy' \in [End -> [1 .. MaxObject -> {"none", "live", "disposed"}]]
      /\ \A d \in End : ProxyFollows(d)
  BY <1>1, ProxyIdle DEF RpcInv, Typed
<1>6. Runs(e, working[e], streams[e], producing[e], detached[e])
  BY <1>1, RunningSame DEF Runs
<1>7. working[e] \cup streams[e] \cup producing[e] \cup detached[e] \subseteq DOMAIN request[Peer(e)]
  BY RunningSame
<1> QED BY <1>1, <1>2, <1>4, <1>5, <1>6, <1>7, ClosingSame, CalleeKeeps

LEMMA EndsKeeps ==
  ASSUME RpcInv, NEW e \in End, NEW id, Ends(e, id)
  PROVE  RpcInv'
<1>1. /\ id \in producing[e] /\ producing' = [producing EXCEPT ![e] = @ \ {id}]
      /\ streams' = [streams EXCEPT ![e] = @ \ {id}]
      /\ wire' = Posted(e, wire, Brief("complete", id))
      /\ UNCHANGED <<request, calls, subs, proxy, registry, working, detached, closing, plan>>
  BY DEF Ends, callerVars
<1>2. id \in Nat
  BY <1>1 DEF RpcInv, Typed
<1>3. wire' \in [End -> Seq(Message)] /\ \A d \in End : WireFollows(d)
  BY <1>1, <1>2, BriefFresh, WirePosts, TwoEnds
<1>4. Runs(e, working[e], streams[e] \ {id}, producing[e] \ {id}, detached[e])
  BY <1>1, RunningSame DEF Runs
<1>5. /\ working[e] \in SUBSET working[e] /\ streams[e] \ {id} \in SUBSET streams[e]
      /\ producing[e] \ {id} \in SUBSET producing[e]
      /\ detached[e] \in SUBSET (detached[e] \cup producing[e])
  OBVIOUS
<1> QED BY <1>1, <1>3, <1>4, <1>5, ClosingSame, CalleeStops

LEMMA EmitsBadlyKeeps ==
  ASSUME RpcInv, NEW e \in End, NEW id, EmitsBadly(e, id)
  PROVE  RpcInv'
<1>1. /\ id \in producing[e] /\ producing' = [producing EXCEPT ![e] = @ \ {id}]
      /\ streams' = [streams EXCEPT ![e] = @ \ {id}]
      /\ detached' = [detached EXCEPT ![e] = @ \cup {id}]
      /\ wire' = Posted(e, wire, Brief("complete", id))
      /\ UNCHANGED <<request, calls, subs, proxy, registry, working, closing, plan>>
  BY DEF EmitsBadly, callerVars
<1>2. id \in Nat
  BY <1>1 DEF RpcInv, Typed
<1>3. wire' \in [End -> Seq(Message)] /\ \A d \in End : WireFollows(d)
  BY <1>1, <1>2, BriefFresh, WirePosts, TwoEnds
<1>4. Runs(e, working[e], streams[e] \ {id}, producing[e] \ {id}, detached[e] \cup {id})
  BY <1>1, RunningSame DEF Runs
<1>5. /\ working[e] \in SUBSET working[e] /\ streams[e] \ {id} \in SUBSET streams[e]
      /\ producing[e] \ {id} \in SUBSET producing[e]
      /\ detached[e] \cup {id} \in SUBSET (detached[e] \cup producing[e])
  BY <1>1
<1> QED BY <1>1, <1>3, <1>4, <1>5, ClosingSame, CalleeStops

LEMMA EndsUnheardKeeps ==
  ASSUME RpcInv, NEW e \in End, NEW id, EndsUnheard(e, id)
  PROVE  RpcInv'
<1>1. /\ detached' = [detached EXCEPT ![e] = @ \ {id}]
      /\ UNCHANGED <<wire, request, calls, subs, proxy, registry, working, streams, producing,
                     closing, plan>>
  BY DEF EndsUnheard, callerVars
<1>2. wire' \in [End -> Seq(Message)] /\ \A d \in End : WireFollows(d)
  BY <1>1, WireStays DEF RpcInv, Typed
<1>3. Runs(e, working[e], streams[e], producing[e], detached[e] \ {id})
  BY <1>1, RunningSame DEF Runs
<1>4. /\ working[e] \in SUBSET working[e] /\ streams[e] \in SUBSET streams[e]
      /\ producing[e] \in SUBSET producing[e]
      /\ detached[e] \ {id} \in SUBSET (detached[e] \cup producing[e])
  OBVIOUS
<1> QED BY <1>1, <1>2, <1>3, <1>4, ClosingSame, CalleeStops

-----------------------------------------------------------------------------
(* The end of a connection *)

\* Everybody who waits is told.
LEMMA RejectAllFollows ==
  ASSUME RpcInv, NEW e \in End, Dispose(e)
  PROVE  /\ request' \in [End -> Seq(Request)]
         /\ \A d \in End : RequestFollows(d) /\ DOMAIN request[d] \subseteq DOMAIN request'[d]
         /\ calls' \in [End -> SUBSET Nat] /\ subs' \in [End -> SUBSET Nat]
         /\ Pending'
<1> DEFINE f == [id \in DOMAIN request[e] |->
              IF id \in calls[e] \cup subs[e] THEN Told(request[e][id]) ELSE request[e][id]]
<1>1. /\ request' = [request EXCEPT ![e] = f]
      /\ calls' = [calls EXCEPT ![e] = {}] /\ subs' = [subs EXCEPT ![e] = {}]
  BY DEF Dispose
<1>2. /\ request \in [End -> Seq(Request)] /\ request[e] \in Seq(Request)
      /\ calls \in [End -> SUBSET Nat] /\ subs \in [End -> SUBSET Nat]
      /\ PendingIn(request[e], calls[e], subs[e])
  BY InvTypes DEF RpcInv, Typed
<1>3. ASSUME NEW id \in DOMAIN request[e]
      PROVE  /\ f[id] \in Request /\ f[id].arg = request[e][id].arg
             /\ f[id].outcome # "again"
             /\ f[id].outcome = "created" => f[id].kind = "observable"
  <2>1. request[e][id] \in Request
    BY <1>2
  <2>2. CASE id \in calls[e] \cup subs[e]
    BY <1>2, <2>1, <2>2, ToldTyped DEF PendingIn
  <2>3. CASE id \notin calls[e] \cup subs[e]
    BY <1>2, <2>1, <2>3 DEF PendingIn
  <2> QED BY <2>2, <2>3
<1>4. f \in [DOMAIN request[e] -> Request]
  BY <1>3
<1> HIDE DEF f
<1>5. f \in Seq(Request) /\ DOMAIN f = DOMAIN request[e]
  BY <1>2, <1>4, SeqReplaced
<1>6. /\ request' \in [End -> Seq(Request)] /\ request'[e] = f
      /\ \A d \in End : d # e => request'[d] = request[d]
  BY <1>1, <1>2, <1>5
<1>7. /\ calls' \in [End -> SUBSET Nat] /\ subs' \in [End -> SUBSET Nat]
      /\ calls'[e] = {} /\ subs'[e] = {}
      /\ \A d \in End : d # e => calls'[d] = calls[d] /\ subs'[d] = subs[d]
  BY <1>1, <1>2
<1>8. RequestFollows(e)
  BY <1>3, <1>5, <1>6 DEF RequestFollows
<1>9. \A d \in End : d # e => RequestFollows(d)
  BY <1>6 DEF RequestFollows
<1>10. PendingIn(request'[e], calls'[e], subs'[e])
  BY <1>3, <1>5, <1>6, <1>7 DEF PendingIn
<1>11. \A d \in End : d # e => PendingIn(request'[d], calls'[d], subs'[d])
  BY <1>6, <1>7 DEF RpcInv, Pending
<1> QED BY <1>5, <1>6, <1>7, <1>8, <1>9, <1>10, <1>11 DEF Pending

LEMMA DisposeKeeps ==
  ASSUME RpcInv, NEW e \in End, Dispose(e)
  PROVE  RpcInv'
<1> DEFINE ids == {n \in DOMAIN registry[e] : registry[e][n].here}
<1>1. /\ closing' = [closing EXCEPT ![e] = "objects"]
      /\ registry' = Unregistered(e, ids)
      /\ UNCHANGED <<proxy, working, streams, producing, detached, plan>>
  BY DEF Dispose
<1>2. /\ closing' \in [End -> {"no", "objects", "done"}] /\ closing'[e] = "objects"
      /\ \A d \in End : closing[d] # "no" => closing'[d] # "no"
  BY <1>1 DEF RpcInv, Typed
<1>3. /\ request' \in [End -> Seq(Request)]
      /\ \A d \in End : RequestFollows(d) /\ DOMAIN request[d] \subseteq DOMAIN request'[d]
      /\ calls' \in [End -> SUBSET Nat] /\ subs' \in [End -> SUBSET Nat]
      /\ Pending'
  BY RejectAllFollows
<1>4. \A n \in DOMAIN registry[e] : n \in ids => registry[e][n].here /\ Goes(e, n)
  BY <1>2 DEF Goes
<1> HIDE DEF ids
<1>5. registry' \in [End -> Seq(Registration)] /\ \A d \in End : RegistryFollows(d)
  BY <1>1, <1>4, UnregisteredFollows
<1>6. wire' \in [End -> Seq(Message)] /\ \A d \in End : WireFollows(d)
  <2>1. PICK n \in 0 .. Len(wire[Peer(e)]) :
          wire' = [x \in End |-> IF x = e THEN <<>> ELSE SubSeq(wire[x], 1, n)]
    BY DEF Dispose
  <2>2. wire[Peer(e)] \in Seq(Message)
    BY TwoEnds DEF RpcInv, Typed
  <2>3. /\ SubSeq(wire[Peer(e)], 1, n) \in Seq(Message)
        /\ Cut(SubSeq(wire[Peer(e)], 1, n), wire[Peer(e)])
    BY <2>2, SeqPrefix DEF Cut
  <2>4. wire'[e] = <<>> /\ wire'[Peer(e)] = SubSeq(wire[Peer(e)], 1, n)
    BY <2>1, TwoEnds
  <2>5. <<>> \in Seq(Message) /\ Cut(<<>>, wire[e])
    BY DEF Cut
  <2>6. \A d \in End : wire'[d] \in Seq(Message) /\ Cut(wire'[d], wire[d])
    BY <2>3, <2>4, <2>5, TwoEnds
  <2>7. wire' = [x \in End |-> wire'[x]]
    BY <2>1
  <2> QED BY <2>6, <2>7 DEF WireFollows
<1>7. Typed'
  BY <1>1, <1>2, <1>3, <1>5, <1>6, RunningTyped, StillTyped DEF RpcInv, Typed
<1> QED BY <1>1, <1>2, <1>3, <1>5, <1>6, <1>7, ProxyIdle, FollowingKeeps DEF Follows

LEMMA DisposeSubscriptionsKeeps ==
  ASSUME RpcInv, NEW e \in End, DisposeSubscriptions(e)
  PROVE  RpcInv'
<1>1. /\ closing' = [closing EXCEPT ![e] = "done"]
      /\ producing' = [producing EXCEPT ![e] = @ \ streams[e]]
      /\ streams' = [streams EXCEPT ![e] = {}]
      /\ detached' = [detached EXCEPT ![e] = @ \ streams[e]]
      /\ UNCHANGED <<wire, request, calls, subs, proxy, registry, working, plan>>
  BY DEF DisposeSubscriptions, callerVars
<1>2. /\ closing' \in [End -> {"no", "objects", "done"}]
      /\ \A d \in End : closing[d] # "no" => closing'[d] # "no"
  BY <1>1 DEF RpcInv, Typed
<1>3. wire' \in [End -> Seq(Message)] /\ \A d \in End : WireFollows(d)
  BY <1>1, WireStays DEF RpcInv, Typed
<1>4. Runs(e, working[e], {}, producing[e] \ streams[e], detached[e] \ streams[e])
  BY <1>1, RunningSame DEF Runs
<1>5. /\ working[e] \in SUBSET working[e] /\ {} \in SUBSET streams[e]
      /\ producing[e] \ streams[e] \in SUBSET producing[e]
      /\ detached[e] \ streams[e] \in SUBSET (detached[e] \cup producing[e])
  OBVIOUS
<1> QED BY <1>1, <1>2, <1>3, <1>4, <1>5, CalleeStops

-----------------------------------------------------------------------------
(* The theorems *)

LEMMA NextKeeps ==
  ASSUME RpcInv, Next
  PROVE  RpcInv'
<1>1. PICK e \in End :
    \/ \E kind \in Kind \ {"dispose"}, target \in 0 .. MaxObject, o \in Value(e) :
         Call(e, kind, target, o)
    \/ \E id \in 1 .. MaxRequest :
         Subscribe(e, id) \/ Unsubscribe(e, id) \/ (e = "client" /\ TimesOut(id))
    \/ \E n \in 1 .. MaxObject : DisposeProxy(e, n)
    \/ HandleMessage(e)
    \/ \E id \in working[e] :
         \/ \E o \in Value(e) : Resolves(e, id, o)
         \/ Rejects(e, id)
         \/ ResolvesBadly(e, id)
    \/ \E id \in producing[e] :
         \/ \E o \in Value(e) : Emits(e, id, o)
         \/ Ends(e, id)
         \/ EmitsBadly(e, id)
    \/ \E id \in detached[e] : EndsUnheard(e, id)
    \/ Dispose(e)
    \/ DisposeSubscriptions(e)
  BY DEF Next
<1>2. ASSUME NEW kind \in Kind \ {"dispose"}, NEW target \in 0 .. MaxObject,
             NEW o \in Value(e), Call(e, kind, target, o)
      PROVE  RpcInv'
  BY <1>2, CallKeeps
<1>3. ASSUME NEW id, Subscribe(e, id) \/ Unsubscribe(e, id) \/ TimesOut(id)
      PROVE  RpcInv'
  BY <1>3, SubscribeKeeps, UnsubscribeKeeps, TimesOutKeeps
<1>4. ASSUME NEW n \in 1 .. MaxObject, DisposeProxy(e, n) PROVE RpcInv'
  BY <1>4, DisposeProxyKeeps
<1>5. CASE HandleMessage(e)
  <2> DEFINE m == Head(wire[e])
  <2>1. /\ wire[e] # <<>> /\ UNCHANGED <<closing, plan>>
        /\ \/ /\ HandleAnswer(e, m) \/ HandleNext(e, m) \/ HandleEnd(e, m)
              /\ UNCHANGED calleeVars
           \/ /\ HandleCall(e, m) \/ HandleDispose(e, m) \/ HandleUnsubscribe(e, m)
              /\ UNCHANGED <<request, calls, subs>>
    BY <1>5 DEF HandleMessage
  <2> QED BY <2>1, HandleAnswerKeeps, HandleNextKeeps, HandleEndKeeps, HandleCallKeeps,
             HandleDisposeKeeps, HandleUnsubscribeKeeps
<1>6. ASSUME NEW id, NEW o \in Value(e), Resolves(e, id, o) \/ Emits(e, id, o)
      PROVE  RpcInv'
  BY <1>6, ResolvesKeeps, EmitsKeeps
<1>7. ASSUME NEW id, \/ Rejects(e, id) \/ ResolvesBadly(e, id) \/ Ends(e, id)
                     \/ EmitsBadly(e, id) \/ EndsUnheard(e, id)
      PROVE  RpcInv'
  BY <1>7, RejectsKeeps, ResolvesBadlyKeeps, EndsKeeps, EmitsBadlyKeeps, EndsUnheardKeeps
<1>8. CASE Dispose(e) \/ DisposeSubscriptions(e)
  BY <1>8, DisposeKeeps, DisposeSubscriptionsKeeps
<1> QED BY <1>1, <1>2, <1>3, <1>4, <1>5, <1>6, <1>7, <1>8

LEMMA IdleKeeps ==
  ASSUME RpcInv, UNCHANGED vars
  PROVE  RpcInv'
  BY DEF RpcInv, vars, callerVars, calleeVars, Typed, Pending, MessagesGood, RequestsGood,
         ProxiesGood, Disposed, InTurn, Closed

\* The inductive invariant of the RPC protocol: what waits is in the maps once,
\* what is named was given out, and a registration outlives its proxy and every
\* message that names it.
THEOREM ProtocolInvariant == Spec => []RpcInv
<1>1. RpcInv /\ [Next]_vars => RpcInv'
  BY NextKeeps, IdleKeeps
<1> QED BY <1>1, InitRpc, PTL DEF Spec

\* The types, and that dispose() of an object is called once for each time the
\* object was registered (ObjectRegistry.disposeObject and dispose).
THEOREM TypeCorrect == Spec => []TypeOK
<1>1. RpcInv => TypeOK
  BY InvTypes DEF RpcInv, Typed, TypeOK, PendingIn, Registration
<1> QED BY <1>1, ProtocolInvariant, PTL

\* The requests and proxies of an end name objects that the other end has
\* (ObjectRegistry.get throws for any other), whatever crosses on the wires.
THEOREM ReferencesAlwaysResolve == Spec => []ReferencesResolve
<1>1. RpcInv => ReferencesResolve
  <2> SUFFICES ASSUME RpcInv, NEW e \in End, ~Closed(e)
               PROVE  /\ \A i \in DOMAIN wire[e] :
                           LET m == wire[e][i] IN
                           m.type \in {"call", "dispose"} /\ m.kind # "observable" =>
                             /\ Known(e, m.target)
                             /\ \A j \in 1 .. i - 1 :
                                  wire[e][j].type = "dispose" => wire[e][j].target # m.target
                      /\ \A n \in 1 .. MaxObject : proxy[Peer(e)][n] = "live" => Known(e, n)
    BY DEF ReferencesResolve
  <2>1. TargetsStay(wire[e], registry[e])
    BY DEF RpcInv, InTurn
  <2>2. \A n \in 1 .. MaxObject : proxy[Peer(e)][n] = "live" => Known(e, n)
    BY LiveIsPresent DEF Known
  <2> QED BY <2>1, <2>2 DEF TargetsStay, Direct, Present, Known
<1> QED BY <1>1, ProtocolInvariant, PTL

\* No caller or subscriber is told twice how its request ended, however
\* answers, timeouts, unsubscriptions and disposals meet.
THEOREM CallersToldOnce == Spec => []SettledOnce
<1>1. RpcInv => SettledOnce
  BY DEF RpcInv, Pending, PendingIn, SettledOnce
<1> QED BY <1>1, ProtocolInvariant, PTL

=============================================================================
