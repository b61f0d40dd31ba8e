--------------------------- MODULE TransportProofs ---------------------------
(***************************************************************************)
(* Machine-checked facts about the operators of QueuedAckTransport and     *)
(* SocketWires, for every set of messages and every number of sockets: the *)
(* methods of a transport keep its type, and the network neither invents   *)
(* nor retypes frames.  The proofs about AckChannel and BigDigSession,     *)
(* which run the same transports, rest on them.                            *)
(***************************************************************************)
EXTENDS QueuedAckTransport, SocketWires, SequenceTheorems, TLAPS

-----------------------------------------------------------------------------
(* The methods of a transport keep its type. *)

LEMMA PeerType == \A e \in End : Peer(e) \in End /\ Peer(Peer(e)) = e
  BY DEF End, Peer

LEMMA NewTransportType == NewTransport \in Transport
<1>1. <<>> \in Seq(Numbered)
  BY EmptySeq
<1>. QED  BY <1>1 DEF NewTransport, Transport, NoSocket

LEMMA TimerType ==
  ASSUME NEW q \in Transport
  PROVE  /\ MaybeStartPendingMessageTimer(q) \in Transport
         /\ MaybeStartPendingMessageTimer(q).socket = q.socket
         /\ \A b \in BOOLEAN : /\ RestartPendingMessageTimer(q, b) \in Transport
                               /\ RestartPendingMessageTimer(q, b).socket = q.socket
  BY DEF MaybeStartPendingMessageTimer, RestartPendingMessageTimer, Transport,
         WantsPendingMessageTimer, IsOpen, HasPendingMessage

LEMMA LoseSocketType ==
  ASSUME NEW q \in Transport
  PROVE  /\ HandleTransportClose(q) \in Transport
         /\ Close(q) \in Transport
         /\ HandleTransportClose(q).socket = NoSocket
         /\ Close(q).socket \in {q.socket, NoSocket}
<1>1. <<>> \in Seq(Numbered)
  BY EmptySeq
<1>. QED
  BY <1>1 DEF HandleTransportClose, Close, Transport, NoSocket

LEMMA ReconnectType ==
  ASSUME NEW q \in Transport, NEW s \in Nat
  PROVE  Reconnect(q, s) \in Transport /\ Reconnect(q, s).socket \in {q.socket, s}
<1>1. /\ [HandleTransportClose(q) EXCEPT !.socket = s] \in Transport
      /\ [HandleTransportClose(q) EXCEPT !.socket = s].socket = s
  BY DEF HandleTransportClose, Transport
<1>. QED
  BY <1>1, TimerType DEF Reconnect

LEMMA EnqueueType ==
  ASSUME NEW q \in Transport, NEW m \in Msg
  PROVE  Enqueue(q, m) \in Transport /\ Enqueue(q, m).socket = q.socket
<1>. DEFINE queue == Append(q.pendingSends, NextNumbered(q, m))
<1>1. NextNumbered(q, m) \in Numbered
  BY DEF NextNumbered, Numbered, Transport
<1>2. queue \in Seq(Numbered) /\ q.lastSendId + 1 \in Nat
  BY <1>1, AppendProperties DEF Transport
<1>. HIDE DEF queue
<1>3. /\ [q EXCEPT !.lastSendId = @ + 1, !.pendingSends = queue] \in Transport
      /\ [q EXCEPT !.lastSendId = @ + 1, !.pendingSends = queue].socket = q.socket
  BY <1>2 DEF Transport
<1>. QED
  BY <1>3, TimerType DEF Enqueue, queue

LEMMA HandleContentType ==
  ASSUME NEW q \in Transport, NEW f \in ContentFrame, NEW n \in Nat
  PROVE  /\ HandleContent(q, f, n) \in Transport
         /\ HandleContent(q, f, n).socket = q.socket
<1>1. Received(q, f) \in SUBSET Numbered
  BY DEF Received, Transport, ContentFrame, Numbered
<1>. DEFINE p == [q EXCEPT !.pendingReceives = {r \in Received(q, f) : r.id > n},
                           !.lastProcessedId = n,
                           !.ackTimer = @ \/ IsOpen(q)]
<1>2. p \in Transport /\ p.socket = q.socket
  BY <1>1 DEF Transport, IsOpen
<1>3. (n > q.lastProcessedId) \in BOOLEAN
  OBVIOUS
<1>. QED
  BY <1>2, <1>3, TimerType DEF HandleContent

LEMMA HandleAckType ==
  ASSUME NEW q \in Transport, NEW f, NEW k \in 0 .. Len(q.pendingSends)
  PROVE  /\ HandleAck(q, f, k) \in Transport
         /\ HandleAck(q, f, k).socket \in {q.socket, NoSocket}
<1>1. SubSeq(q.pendingSends, k + 1, Len(q.pendingSends)) \in Seq(Numbered)
  BY SubSeqProperties DEF Transport
<1>2. /\ [q EXCEPT !.pendingSends = SubSeq(@, k + 1, Len(@))] \in Transport
      /\ [q EXCEPT !.pendingSends = SubSeq(@, k + 1, Len(@))].socket = q.socket
  BY <1>1 DEF Transport
<1>3. (k > 0) \in BOOLEAN
  OBVIOUS
<1>. QED
  BY <1>2, <1>3, TimerType, LoseSocketType DEF HandleAck

LEMMA FrameType ==
  /\ \A id \in Nat : AckOf(id) \in Frame
  /\ \A p \in Numbered : ContentOf(p) \in Frame
<1>1. \A id \in Nat : AckOf(id) \in AckFrame
  BY DEF AckOf, AckFrame
<1>2. \A p \in Numbered : ContentOf(p) \in ContentFrame
  BY DEF ContentOf, ContentFrame, Numbered
<1>. QED
  BY <1>1, <1>2 DEF Frame

LEMMA FramesType ==
  ASSUME NEW q \in Transport
  PROVE  /\ AckFrames(q) \in Seq(Frame)
         /\ ReconnectFrames(q) \in Seq(Frame)
         /\ \A m \in Msg : SendFrames(q, m) \in Seq(Frame)
<1>. DEFINE N == Len(q.pendingSends)
            resent == [i \in 1 .. N |-> ContentOf(q.pendingSends[i])]
<1>1. AckFrames(q) \in Seq(Frame)
  BY FrameType DEF AckFrames, Transport
<1>2. N \in Nat /\ \A i \in 1 .. N : q.pendingSends[i] \in Numbered
  BY LenProperties, ElementOfSeq DEF Transport
<1>3. resent \in [1 .. N -> Frame]
  BY <1>2, FrameType
<1>4. resent \in Seq(Frame)
  <2>. HIDE DEF resent, N
  <2>1. resent \in UNION {[1 .. n -> Frame] : n \in Nat}
    BY <1>2, <1>3
  <2>. QED  BY <2>1, SeqDef, Zenon
<1>5. ReconnectFrames(q) \in Seq(Frame)
  BY <1>1, <1>4 DEF ReconnectFrames, ResendFrames
<1>6. \A m \in Msg : SendFrames(q, m) \in Seq(Frame)
  <2>1. \A m \in Msg : NextNumbered(q, m) \in Numbered
    BY DEF NextNumbered, Numbered, Transport
  <2>2. \A m \in Msg : ContentOf(NextNumbered(q, m)) \in Frame
    BY <2>1, FrameType
  <2>3. \A x \in Frame : <<x>> \in Seq(Frame)
    OBVIOUS
  <2>4. <<>> \in Seq(Frame)
    BY EmptySeq
  <2>. QED  BY <2>2, <2>3, <2>4, Zenon DEF SendFrames
<1>. QED
  BY <1>1, <1>5, <1>6

\* The messages handed over by one frame are messages that were received.
LEMMA ProcessedType ==
  ASSUME NEW q \in Transport, NEW f \in ContentFrame, NEW n \in Nat,
         ProcessesUpTo(q, f, n)
  PROVE  /\ Processed(q, f, n) \in Seq(Msg)
         /\ \A i \in 1 .. Len(Processed(q, f, n)) :
              \E r \in Received(q, f) : r.msg = Processed(q, f, n)[i]
<1>. DEFINE N == n - q.lastProcessedId
            entry(i) == CHOOSE r \in Received(q, f) : r.id = q.lastProcessedId + i
<1>1. q.lastProcessedId \in Nat /\ N \in Nat
  BY DEF ProcessesUpTo, Transport
<1>2. Received(q, f) \in SUBSET Numbered
  BY DEF Received, Transport, ContentFrame, Numbered
<1>3. ASSUME NEW i \in 1 .. N
      PROVE  entry(i) \in Received(q, f)
  <2>1. q.lastProcessedId + i \in q.lastProcessedId + 1 .. n
    BY <1>1
  <2>2. \E r \in Received(q, f) : r.id = q.lastProcessedId + i
    BY <2>1 DEF ProcessesUpTo
  <2>. QED  BY <2>2
<1>4. \A i \in 1 .. N : entry(i).msg \in Msg
  BY <1>2, <1>3 DEF Numbered
<1>5. /\ Processed(q, f, n) \in [1 .. N -> Msg]
      /\ \A i \in 1 .. N : Processed(q, f, n)[i] = entry(i).msg
  BY <1>4 DEF Processed
<1>. HIDE DEF N, entry
<1>6. Processed(q, f, n) \in UNION {[1 .. k -> Msg] : k \in Nat}
  BY <1>1, <1>5
<1>7. Processed(q, f, n) \in Seq(Msg)
  BY <1>6, SeqDef, Zenon
<1>8. DOMAIN Processed(q, f, n) = 1 .. N
  BY <1>5
<1>9. Len(Processed(q, f, n)) = N
  BY <1>1, <1>7, <1>8, LenProperties
<1>. QED
  BY <1>3, <1>5, <1>7, <1>9

-----------------------------------------------------------------------------
(* The network neither invents nor retypes frames. *)

Wires == [Sockets -> [End -> Seq(Frame)]]

LEMMA PutFrames ==
  ASSUME NEW w \in Wires, NEW s, NEW e \in End, NEW frames \in Seq(Frame),
         NEW eps, NEW open, NEW t \in Sockets, NEW d \in End,
         NEW i \in 1 .. Len(Carried(Put(w, s, e, frames), eps, open)[t][d])
  PROVE  LET f == Carried(Put(w, s, e, frames), eps, open)[t][d][i] IN
           \/ \E k \in 1 .. Len(w[t][d]) : f = w[t][d][k]
           \/ t = s /\ d = Peer(e) /\ \E k \in 1 .. Len(frames) : f = frames[k]
<1>. DEFINE c == Carried(Put(w, s, e, frames), eps, open)[t][d]
            joined == w[t][d] \o frames
<1>1. w[t][d] \in Seq(Frame)
  BY DEF Wires
<1>2. Len(<<>>) = 0
  BY EmptySeq
<1>3. c \in {<<>>, Put(w, s, e, frames)[t][d]}
  BY DEF Carried
<1>4. Put(w, s, e, frames)[t][d]
        = IF t = s /\ d = Peer(e) THEN joined ELSE w[t][d]
  BY DEF Put
<1>5. i \in 1 .. Len(c)
  OBVIOUS
<1>6. c # <<>>
  BY <1>2, <1>5
<1>7. CASE t = s /\ d = Peer(e)
  <2>1. c = joined
    BY <1>3, <1>4, <1>6, <1>7
  <2>2. /\ Len(joined) = Len(w[t][d]) + Len(frames)
        /\ \A j \in 1 .. Len(w[t][d]) + Len(frames) :
             joined[j] = IF j <= Len(w[t][d]) THEN w[t][d][j]
                                            ELSE frames[j - Len(w[t][d])]
        /\ Len(w[t][d]) \in Nat /\ Len(frames) \in Nat
    BY <1>1, ConcatProperties, LenProperties
  <2>. HIDE DEF c, joined
  <2>3. CASE i <= Len(w[t][d])
    BY <1>5, <2>1, <2>2, <2>3 DEF c
  <2>4. CASE ~(i <= Len(w[t][d]))
    <3>1. /\ i - Len(w[t][d]) \in 1 .. Len(frames)
          /\ c[i] = frames[i - Len(w[t][d])]
      BY <1>5, <2>1, <2>2, <2>4
    <3>. QED  BY <1>7, <3>1 DEF c
  <2>. QED  BY <2>3, <2>4
<1>8. CASE ~(t = s /\ d = Peer(e))
  BY <1>3, <1>4, <1>5, <1>6, <1>8
<1>. QED
  BY <1>7, <1>8

LEMMA TookFrames ==
  ASSUME NEW w \in Wires, NEW s, NEW e \in End, NEW i \in 1 .. Len(w[s][e]),
         s \in Sockets
  PROVE  /\ Took(w, s, e, i) \in Wires
         /\ \A t \in Sockets, d \in End : \A j \in 1 .. Len(Took(w, s, e, i)[t][d]) :
              \E k \in 1 .. Len(w[t][d]) : Took(w, s, e, i)[t][d][j] = w[t][d][k]
<1>. DEFINE x == w[s][e]
            a == SubSeq(x, 1, i - 1)
            b == SubSeq(x, i + 1, Len(x))
<1>1. x \in Seq(Frame) /\ Len(x) \in Nat /\ i \in 1 .. Len(x)
  BY LenProperties DEF Wires
<1>2. /\ a \in Seq(Frame)
      /\ Len(a) = i - 1
      /\ \A j \in 1 .. i - 1 : a[j] = x[j]
  BY <1>1, SubSeqProperties, ElementOfSeq
<1>3. /\ b \in Seq(Frame)
      /\ Len(b) = Len(x) - i
      /\ \A j \in 1 .. Len(x) - i : b[j] = x[i + j]
  <2>1. \A j \in i + 1 .. Len(x) : x[j] \in Frame
    BY <1>1, ElementOfSeq
  <2>2. i + 1 \in Int /\ Len(x) \in Int
    BY <1>1
  <2>. QED  BY <1>1, <2>1, <2>2, SubSeqProperties
<1>4. /\ a \o b \in Seq(Frame)
      /\ Len(a \o b) = Len(x) - 1
      /\ \A j \in 1 .. Len(x) - 1 :
           (a \o b)[j] = IF j <= i - 1 THEN a[j] ELSE b[j - (i - 1)]
  <2>. HIDE DEF a, b, x
  <2>. QED  BY <1>1, <1>2, <1>3, ConcatProperties
<1>5. \A j \in 1 .. Len(x) - 1 : \E k \in 1 .. Len(x) : (a \o b)[j] = x[k]
  <2>. SUFFICES ASSUME NEW j \in 1 .. Len(x) - 1
                PROVE  \E k \in 1 .. Len(x) : (a \o b)[j] = x[k]
    OBVIOUS
  <2>. HIDE DEF a, b, x
  <2>1. CASE j <= i - 1
    BY <1>1, <1>2, <1>4, <2>1
  <2>2. CASE ~(j <= i - 1)
    <3>1. /\ j - (i - 1) \in 1 .. Len(x) - i
          /\ (a \o b)[j] = x[j + 1]
          /\ j + 1 \in 1 .. Len(x)
      BY <1>1, <1>3, <1>4, <2>2 DEF x
    <3>. QED  BY <3>1
  <2>. QED  BY <2>1, <2>2
<1>6. \A t \in Sockets, d \in End :
        Took(w, s, e, i)[t][d] = IF t = s /\ d = e THEN a \o b ELSE w[t][d]
  BY DEF Took
<1>7. Took(w, s, e, i) \in Wires
  <2>. HIDE DEF a, b
  <2>. QED  BY <1>4 DEF Took, Wires, a, b, x
<1>. HIDE DEF a, b, x
<1>8. ASSUME NEW t \in Sockets, NEW d \in End,
             NEW j \in 1 .. Len(Took(w, s, e, i)[t][d])
      PROVE  \E k \in 1 .. Len(w[t][d]) : Took(w, s, e, i)[t][d][j] = w[t][d][k]
  <2>1. Took(w, s, e, i)[t][d] = IF t = s /\ d = e THEN a \o b ELSE w[t][d]
    BY <1>6
  <2>2. CASE t = s /\ d = e
    <3>1. x = w[t][d]
      BY <2>2 DEF x
    <3>2. j \in 1 .. Len(x) - 1 /\ Took(w, s, e, i)[t][d][j] = (a \o b)[j]
      BY <1>4, <1>8, <2>1, <2>2
    <3>3. PICK k \in 1 .. Len(x) : (a \o b)[j] = x[k]
      BY <1>5, <3>2
    <3>. QED  BY <3>1, <3>2, <3>3
  <2>3. CASE ~(t = s /\ d = e)
    BY <1>8, <2>1, <2>3
  <2>. QED  BY <2>2, <2>3
<1>. QED
  BY <1>7, <1>8

LEMMA CarriedType ==
  ASSUME NEW w \in Wires, NEW eps, NEW open
  PROVE  /\ Carried(w, eps, open) \in Wires
         /\ \A t \in Sockets, d \in End :
              \A j \in 1 .. Len(Carried(w, eps, open)[t][d]) :
                \E k \in 1 .. Len(w[t][d]) : Carried(w, eps, open)[t][d][j] = w[t][d][k]
<1>1. <<>> \in Seq(Frame) /\ Len(<<>>) = 0
  BY EmptySeq
<1>2. Carried(w, eps, open) \in Wires
  BY <1>1 DEF Carried, Wires
<1>3. ASSUME NEW t \in Sockets, NEW d \in End,
             NEW j \in 1 .. Len(Carried(w, eps, open)[t][d])
      PROVE  \E k \in 1 .. Len(w[t][d]) : Carried(w, eps, open)[t][d][j] = w[t][d][k]
  BY <1>1, <1>3 DEF Carried
<1>. QED
  BY <1>2, <1>3

LEMMA PutWires ==
  ASSUME NEW w \in Wires, NEW s, NEW e \in End, NEW frames \in Seq(Frame)
  PROVE  Put(w, s, e, frames) \in Wires
<1>1. \A t \in Sockets, d \in End : w[t][d] \o frames \in Seq(Frame)
  BY ConcatProperties DEF Wires
<1>. QED
  BY <1>1 DEF Put, Wires

LEMMA PutType ==
  ASSUME NEW w \in Wires, NEW s, NEW e \in End, NEW frames \in Seq(Frame),
         NEW eps, NEW open
  PROVE  Carried(Put(w, s, e, frames), eps, open) \in Wires
  BY PutWires, CarriedType

\* PutFrames, for a wire that is given by an equation.
LEMMA PutFramesOf ==
  ASSUME NEW w \in Wires, NEW s, NEW e \in End, NEW frames \in Seq(Frame),
         NEW eps, NEW open, NEW u, u = Carried(Put(w, s, e, frames), eps, open)
  PROVE  \A t \in Sockets, d \in End : \A i \in 1 .. Len(u[t][d]) :
           \/ \E k \in 1 .. Len(w[t][d]) : u[t][d][i] = w[t][d][k]
           \/ d = Peer(e) /\ \E k \in 1 .. Len(frames) : u[t][d][i] = frames[k]
<1>. SUFFICES ASSUME NEW t \in Sockets, NEW d \in End, NEW i \in 1 .. Len(u[t][d])
              PROVE  \/ \E k \in 1 .. Len(w[t][d]) : u[t][d][i] = w[t][d][k]
                     \/ d = Peer(e) /\ \E k \in 1 .. Len(frames) : u[t][d][i] = frames[k]
  OBVIOUS
<1>1. i \in 1 .. Len(Carried(Put(w, s, e, frames), eps, open)[t][d])
  OBVIOUS
<1>2. LET f == Carried(Put(w, s, e, frames), eps, open)[t][d][i] IN
        \/ \E k \in 1 .. Len(w[t][d]) : f = w[t][d][k]
        \/ t = s /\ d = Peer(e) /\ \E k \in 1 .. Len(frames) : f = frames[k]
  BY <1>1, PutFrames, SMTT(60)
<1>. QED
  BY <1>2

\* What is left of a wire after its first frame was read.
LEMMA TookFirst ==
  ASSUME NEW w \in Wires, NEW s \in Sockets, NEW e \in End, 1 \in 1 .. Len(w[s][e])
  PROVE  /\ \A t \in Sockets, d \in End : ~(t = s /\ d = e) => Took(w, s, e, 1)[t][d] = w[t][d]
         /\ Len(Took(w, s, e, 1)[s][e]) = Len(w[s][e]) - 1
         /\ \A i \in 1 .. Len(w[s][e]) - 1 : Took(w, s, e, 1)[s][e][i] = w[s][e][i + 1]
<1>. DEFINE x == w[s][e]
            a == SubSeq(x, 1, 1 - 1)
            b == SubSeq(x, 1 + 1, Len(x))
<1>1. x \in Seq(Frame) /\ Len(x) \in Nat /\ 1 \in 1 .. Len(x)
  BY LenProperties DEF Wires
<1>2. a \in Seq(Frame) /\ Len(a) = 0
  BY <1>1, SubSeqProperties, ElementOfSeq
<1>3. /\ b \in Seq(Frame)
      /\ Len(b) = Len(x) - 1
      /\ \A j \in 1 .. Len(x) - 1 : b[j] = x[j + 1]
  <2>1. \A j \in 2 .. Len(x) : x[j] \in Frame
    BY <1>1, ElementOfSeq
  <2>2. 1 + 1 \in Int /\ Len(x) \in Int
    BY <1>1
  <2>. QED  BY <1>1, <2>1, <2>2, SubSeqProperties
<1>4. \A t \in Sockets, d \in End :
        Took(w, s, e, 1)[t][d] = IF t = s /\ d = e THEN a \o b ELSE w[t][d]
  BY DEF Took
<1>. HIDE DEF a, b
<1>5. a \o b = b
  BY <1>2, <1>3, EmptySeq, ConcatProperties
<1>. QED
  BY <1>3, <1>4, <1>5

-----------------------------------------------------------------------------
(* What the methods of a transport do to its queues. *)

\* The queues and counters of p and q are the same.
SameQueues(p, q) ==
  /\ p.pendingSends = q.pendingSends
  /\ p.pendingReceives = q.pendingReceives
  /\ p.lastSendId = q.lastSendId
  /\ p.lastProcessedId = q.lastProcessedId
  /\ p.isClosed = q.isClosed

LEMMA TimersKeepQueues ==
  ASSUME NEW q \in Transport
  PROVE  /\ SameQueues(MaybeStartPendingMessageTimer(q), q)
         /\ \A b \in BOOLEAN : SameQueues(RestartPendingMessageTimer(q, b), q)
         /\ SameQueues(HandleAckTimer(q), q)
  BY DEF MaybeStartPendingMessageTimer, RestartPendingMessageTimer,
         HandleAckTimer, SameQueues, Transport

LEMMA SocketsKeepQueues ==
  ASSUME NEW q \in Transport, NEW s \in Nat
  PROVE  /\ SameQueues(HandleTransportClose(q), q)
         /\ SameQueues(Reconnect(q, s), q)
<1>1. SameQueues(HandleTransportClose(q), q)
  BY DEF HandleTransportClose, SameQueues, Transport
<1>. DEFINE p == [HandleTransportClose(q) EXCEPT !.socket = s]
<1>2. p \in Transport /\ SameQueues(p, q)
  BY DEF HandleTransportClose, SameQueues, Transport
<1>3. Reconnect(q, s) = IF q.isClosed THEN q ELSE MaybeStartPendingMessageTimer(p)
  BY DEF Reconnect
<1>. HIDE DEF p
<1>4. SameQueues(MaybeStartPendingMessageTimer(p), p)
  BY <1>2, TimersKeepQueues
<1>5. SameQueues(Reconnect(q, s), q)
  BY <1>2, <1>3, <1>4 DEF SameQueues
<1>. QED
  BY <1>1, <1>5

LEMMA CloseEmptiesQueues ==
  ASSUME NEW q \in Transport, ~q.isClosed
  PROVE  /\ Close(q).pendingSends = <<>>
         /\ Close(q).pendingReceives = {}
         /\ Close(q).lastSendId = q.lastSendId
         /\ Close(q).lastProcessedId = q.lastProcessedId
         /\ Close(q).isClosed
  BY DEF Close, HandleTransportClose, Transport

LEMMA EnqueueFields ==
  ASSUME NEW q \in Transport, ~q.isClosed, NEW m \in Msg
  PROVE  /\ Enqueue(q, m).lastSendId = q.lastSendId + 1
         /\ Enqueue(q, m).pendingSends = Append(q.pendingSends, NextNumbered(q, m))
         /\ Enqueue(q, m).pendingReceives = q.pendingReceives
         /\ Enqueue(q, m).lastProcessedId = q.lastProcessedId
         /\ Enqueue(q, m).isClosed = q.isClosed
<1>. DEFINE queue == Append(q.pendingSends, NextNumbered(q, m))
            p == [q EXCEPT !.lastSendId = @ + 1, !.pendingSends = queue]
<1>1. NextNumbered(q, m) \in Numbered
  BY DEF NextNumbered, Numbered, Transport
<1>2. queue \in Seq(Numbered) /\ q.lastSendId + 1 \in Nat
  BY <1>1, AppendProperties DEF Transport
<1>. HIDE DEF queue
<1>3. p \in Transport
  BY <1>2 DEF Transport
<1>4. /\ p.lastSendId = q.lastSendId + 1
      /\ p.pendingSends = queue
      /\ p.pendingReceives = q.pendingReceives
      /\ p.lastProcessedId = q.lastProcessedId
      /\ p.isClosed = q.isClosed
  BY DEF Transport
<1>5. Enqueue(q, m) = MaybeStartPendingMessageTimer(p)
  BY DEF Enqueue, queue
<1>. HIDE DEF p
<1>6. SameQueues(Enqueue(q, m), p)
  BY <1>3, <1>5, TimersKeepQueues
<1>. QED
  BY <1>4, <1>6 DEF SameQueues, queue

LEMMA HandleContentFields ==
  ASSUME NEW q \in Transport, NEW f \in ContentFrame, NEW n \in Nat
  PROVE  /\ HandleContent(q, f, n).lastSendId = q.lastSendId
         /\ HandleContent(q, f, n).pendingSends = q.pendingSends
         /\ HandleContent(q, f, n).pendingReceives = {r \in Received(q, f) : r.id > n}
         /\ HandleContent(q, f, n).lastProcessedId = n
         /\ HandleContent(q, f, n).isClosed = q.isClosed
<1>. DEFINE parked == {r \in Received(q, f) : r.id > n}
            p == [q EXCEPT !.pendingReceives = parked,
                           !.lastProcessedId = n,
                           !.ackTimer = @ \/ IsOpen(q)]
            b == n > q.lastProcessedId
<1>1. Received(q, f) \in SUBSET Numbered
  BY DEF Received, Transport, ContentFrame, Numbered
<1>2. parked \in SUBSET Numbered /\ parked \subseteq Received(q, f) /\ b \in BOOLEAN
  BY <1>1
<1>3. HandleContent(q, f, n) = RestartPendingMessageTimer(p, b)
  BY DEF HandleContent
<1>. HIDE DEF parked, b
<1>4. p \in Transport
  BY <1>2 DEF Transport, IsOpen
<1>5. /\ p.lastSendId = q.lastSendId
      /\ p.pendingSends = q.pendingSends
      /\ p.pendingReceives = parked
      /\ p.lastProcessedId = n
      /\ p.isClosed = q.isClosed
  BY DEF Transport
<1>. HIDE DEF p
<1>6. SameQueues(HandleContent(q, f, n), p)
  BY <1>2, <1>3, <1>4, TimersKeepQueues
<1>. QED
  BY <1>2, <1>5, <1>6 DEF SameQueues, parked

LEMMA HandleAckFields ==
  ASSUME NEW q \in Transport, NEW f, NEW k \in 0 .. Len(q.pendingSends),
         ~IsAmnesia(q, f)
  PROVE  LET p == HandleAck(q, f, k) IN
         /\ p.lastSendId = q.lastSendId
         /\ p.pendingSends = SubSeq(q.pendingSends, k + 1, Len(q.pendingSends))
         /\ p.pendingReceives = q.pendingReceives
         /\ p.lastProcessedId = q.lastProcessedId
         /\ p.isClosed = q.isClosed
<1>. DEFINE queue == SubSeq(q.pendingSends, k + 1, Len(q.pendingSends))
            p == [q EXCEPT !.pendingSends = queue]
            b == k > 0
<1>1. queue \in Seq(Numbered) /\ b \in BOOLEAN
  BY SubSeqProperties DEF Transport
<1>2. HandleAck(q, f, k) = RestartPendingMessageTimer(p, b)
  BY DEF HandleAck
<1>. HIDE DEF queue, b
<1>3. p \in Transport
  BY <1>1 DEF Transport
<1>4. /\ p.lastSendId = q.lastSendId
      /\ p.pendingSends = queue
      /\ p.pendingReceives = q.pendingReceives
      /\ p.lastProcessedId = q.lastProcessedId
      /\ p.isClosed = q.isClosed
  BY DEF Transport
<1>. HIDE DEF p
<1>5. SameQueues(HandleAck(q, f, k), p)
  BY <1>1, <1>2, <1>3, TimersKeepQueues
<1>. QED
  BY <1>4, <1>5 DEF SameQueues, queue

-----------------------------------------------------------------------------
(* The watchdog of one transport: every method keeps Guarded. *)

\* The assertions of _checkLeaks hold, what is parked waits for an earlier
\* message, and the watchdog is armed exactly when it should be.
Guarded(q) ==
  /\ CheckLeaks(q)
  /\ \A r \in q.pendingReceives : r.id > q.lastProcessedId
  /\ q.pendingMessageTimer <=> WantsPendingMessageTimer(q)

\* What is left of Guarded(q) when the timer may still have to be started.
Startable(q) ==
  /\ CheckLeaks(q)
  /\ \A r \in q.pendingReceives : r.id > q.lastProcessedId
  /\ q.pendingMessageTimer => WantsPendingMessageTimer(q)

\* Every method that may start to wait ends by starting the timer.
LEMMA StartTimer ==
  ASSUME NEW q \in Transport, Startable(q)
  PROVE  Guarded(MaybeStartPendingMessageTimer(q))
  BY DEF Startable, Guarded, MaybeStartPendingMessageTimer, CheckLeaks, Transport,
         WantsPendingMessageTimer, IsOpen, HasPendingMessage

LEMMA LoseSocketGuarded ==
  ASSUME NEW q \in Transport, Guarded(q)
  PROVE  Guarded(HandleTransportClose(q)) /\ Guarded(Close(q))
  BY DEF Guarded, HandleTransportClose, Close, CheckLeaks, Transport,
         WantsPendingMessageTimer, IsOpen, HasPendingMessage

LEMMA ReconnectGuarded ==
  ASSUME NEW q \in Transport, NEW s \in Nat, s # NoSocket, Guarded(q)
  PROVE  Guarded(Reconnect(q, s))
<1>. DEFINE p == [HandleTransportClose(q) EXCEPT !.socket = s]
<1>1. p \in Transport
  BY DEF HandleTransportClose, Transport
<1>2. CASE q.isClosed
  BY <1>2 DEF Reconnect
<1>3. CASE ~q.isClosed
  <2>1. Startable(p)
    BY <1>3 DEF Guarded, Startable, HandleTransportClose, CheckLeaks, Transport
  <2>2. Reconnect(q, s) = MaybeStartPendingMessageTimer(p)
    BY <1>3 DEF Reconnect
  <2>. HIDE DEF p
  <2>. QED  BY <1>1, <2>1, <2>2, StartTimer
<1>. QED
  BY <1>2, <1>3

LEMMA EnqueueGuarded ==
  ASSUME NEW q \in Transport, ~q.isClosed, NEW m \in Msg, Guarded(q)
  PROVE  Guarded(Enqueue(q, m))
<1>. DEFINE queue == Append(q.pendingSends, NextNumbered(q, m))
            p == [q EXCEPT !.lastSendId = @ + 1, !.pendingSends = queue]
<1>1. NextNumbered(q, m) \in Numbered
  BY DEF NextNumbered, Numbered, Transport
<1>2. queue \in Seq(Numbered) /\ queue # <<>> /\ q.lastSendId + 1 \in Nat
  BY <1>1, AppendProperties DEF Transport
<1>. HIDE DEF queue
<1>3. p \in Transport
  BY <1>2 DEF Transport
<1>4. Startable(p)
  BY <1>2 DEF Guarded, Startable, CheckLeaks, Transport,
              WantsPendingMessageTimer, IsOpen, HasPendingMessage
<1>5. Enqueue(q, m) = MaybeStartPendingMessageTimer(p)
  BY DEF Enqueue, queue
<1>. HIDE DEF p
<1>. QED
  BY <1>3, <1>4, <1>5, StartTimer

\* A frame that makes no progress leaves what the timer was guarding.
LEMMA HandleContentGuarded ==
  ASSUME NEW q \in Transport, IsOpen(q), NEW f \in ContentFrame, NEW n \in Nat,
         n >= q.lastProcessedId, Guarded(q)
  PROVE  Guarded(HandleContent(q, f, n))
<1>. DEFINE parked == {r \in Received(q, f) : r.id > n}
            p == [q EXCEPT !.pendingReceives = parked,
                           !.lastProcessedId = n,
                           !.ackTimer = @ \/ IsOpen(q)]
            b == n > q.lastProcessedId
            r0 == [p EXCEPT !.pendingMessageTimer = @ /\ ~b]
<1>1. Received(q, f) \in SUBSET Numbered
  BY DEF Received, Transport, ContentFrame, Numbered
<1>2. /\ parked \in SUBSET Numbered /\ b \in BOOLEAN
      /\ \A r \in parked : r.id > n
  BY <1>1
<1>3. ASSUME ~b, q.pendingReceives # {}
      PROVE  parked # {}
  <2>1. n = q.lastProcessedId
    BY <1>3 DEF Transport
  <2>2. PICK r \in q.pendingReceives : r.id > n
    BY <1>3, <2>1 DEF Guarded
  <2>3. CASE r \in Received(q, f)
    BY <2>2, <2>3
  <2>4. CASE r \notin Received(q, f)
    <3>1. f.id = r.id /\ [id |-> f.id, msg |-> f.msg] \in Received(q, f)
      BY <2>4 DEF Received
    <3>. QED  BY <2>2, <3>1
  <2>. QED  BY <2>3, <2>4
<1>. HIDE DEF parked, b
<1>4. p \in Transport
  BY <1>2 DEF Transport, IsOpen
<1>5. r0 \in Transport
  BY <1>2, <1>4 DEF Transport
<1>6. Startable(r0)
  <2>1. /\ r0.isClosed = q.isClosed /\ r0.socket = q.socket
        /\ r0.pendingSends = q.pendingSends
        /\ r0.pendingReceives = parked
        /\ r0.lastProcessedId = n
        /\ r0.pendingMessageTimer = (q.pendingMessageTimer /\ ~b)
    BY DEF Transport
  <2>. HIDE DEF p, r0
  <2>2. CheckLeaks(r0)
    BY <2>1 DEF CheckLeaks, IsOpen
  <2>3. ASSUME r0.pendingMessageTimer
        PROVE  WantsPendingMessageTimer(r0)
    <3>1. ~b /\ q.pendingMessageTimer
      BY <2>1, <2>3
    <3>2. WantsPendingMessageTimer(q)
      BY <3>1 DEF Guarded
    <3>. QED
      BY <1>3, <2>1, <3>1, <3>2 DEF WantsPendingMessageTimer, IsOpen, HasPendingMessage
  <2>. QED  BY <1>2, <2>1, <2>2, <2>3 DEF Startable
<1>7. HandleContent(q, f, n) = MaybeStartPendingMessageTimer(r0)
  BY DEF HandleContent, RestartPendingMessageTimer, parked, b
<1>. HIDE DEF r0
<1>. QED
  BY <1>5, <1>6, <1>7, StartTimer

LEMMA HandleAckGuarded ==
  ASSUME NEW q \in Transport, NEW f, NEW k \in 0 .. Len(q.pendingSends), Guarded(q)
  PROVE  Guarded(HandleAck(q, f, k))
<1>. DEFINE queue == SubSeq(q.pendingSends, k + 1, Len(q.pendingSends))
            b == k > 0
            p == [q EXCEPT !.pendingSends = queue]
            r0 == [p EXCEPT !.pendingMessageTimer = @ /\ ~b]
<1>1. queue \in Seq(Numbered) /\ b \in BOOLEAN
  BY SubSeqProperties DEF Transport
<1>2. ~b => queue = q.pendingSends
  BY DEF Transport
<1>3. q.pendingSends = <<>> => queue = <<>>
  OBVIOUS
<1>4. CASE IsAmnesia(q, f)
  BY <1>4, LoseSocketGuarded DEF HandleAck
<1>5. CASE ~IsAmnesia(q, f)
  <2>1. HandleAck(q, f, k) = MaybeStartPendingMessageTimer(r0)
    BY <1>5 DEF HandleAck, RestartPendingMessageTimer
  <2>. HIDE DEF queue, b
  <2>2. p \in Transport /\ r0 \in Transport
    BY <1>1 DEF Transport
  <2>3. /\ r0.isClosed = q.isClosed /\ r0.socket = q.socket
        /\ r0.pendingSends = queue
        /\ r0.pendingReceives = q.pendingReceives
        /\ r0.lastProcessedId = q.lastProcessedId
        /\ r0.ackTimer = q.ackTimer
        /\ r0.pendingMessageTimer = (q.pendingMessageTimer /\ ~b)
    BY DEF Transport
  <2>. HIDE DEF p, r0
  <2>4. Startable(r0)
    BY <1>2, <1>3, <2>3 DEF Startable, Guarded, CheckLeaks, WantsPendingMessageTimer,
                            IsOpen, HasPendingMessage
  <2>. QED  BY <2>1, <2>2, <2>4, StartTimer
<1>. QED
  BY <1>4, <1>5

LEMMA NewTransportGuarded == Guarded(NewTransport)
  BY DEF Guarded, CheckLeaks, WantsPendingMessageTimer, IsOpen, HasPendingMessage,
         NewTransport, NoSocket

LEMMA HandleAckTimerGuarded ==
  ASSUME NEW q \in Transport
  PROVE  /\ HandleAckTimer(q) \in Transport
         /\ HandleAckTimer(q).socket = q.socket
         /\ Guarded(q) => Guarded(HandleAckTimer(q))
  BY DEF HandleAckTimer, Guarded, CheckLeaks, Transport,
         WantsPendingMessageTimer, IsOpen, HasPendingMessage

LEMMA ReconnectSocket ==
  ASSUME NEW q \in Transport, NEW s \in Nat, ~q.isClosed
  PROVE  Reconnect(q, s).socket = s
<1>. DEFINE p == [HandleTransportClose(q) EXCEPT !.socket = s]
<1>1. p \in Transport /\ p.socket = s
  BY DEF HandleTransportClose, Transport
<1>. QED
  BY <1>1, TimerType DEF Reconnect

LEMMA PutNothing ==
  ASSUME NEW w \in Wires, NEW s, NEW e \in End
  PROVE  Put(w, s, e, <<>>) = w
<1>1. \A t \in Sockets, d \in End : w[t][d] \o <<>> = w[t][d]
  BY DEF Wires
<1>2. \A t \in Sockets, d \in End :
        (IF t = s /\ d = Peer(e) THEN w[t][d] \o <<>> ELSE w[t][d]) = w[t][d]
  BY <1>1
<1>3. Put(w, s, e, <<>>) = [t \in Sockets |-> [d \in End |-> w[t][d]]]
  BY <1>2, Zenon DEF Put
<1>. QED
  BY <1>3 DEF Wires

LEMMA HandleAckSocket ==
  ASSUME NEW q \in Transport, NEW f, NEW k \in 0 .. Len(q.pendingSends),
         ~IsAmnesia(q, f)
  PROVE  HandleAck(q, f, k).socket = q.socket
<1>1. SubSeq(q.pendingSends, k + 1, Len(q.pendingSends)) \in Seq(Numbered)
  BY SubSeqProperties DEF Transport
<1>2. /\ [q EXCEPT !.pendingSends = SubSeq(@, k + 1, Len(@))] \in Transport
      /\ [q EXCEPT !.pendingSends = SubSeq(@, k + 1, Len(@))].socket = q.socket
  BY <1>1 DEF Transport
<1>3. (k > 0) \in BOOLEAN
  OBVIOUS
<1>. QED
  BY <1>2, <1>3, TimerType DEF HandleAck

-----------------------------------------------------------------------------
(* Order on a socket.  Each new socket starts with the first message the    *)
(* other end may miss, and the messages that follow leave no gap.           *)

\* The queue holds the messages sent last.
QueueNumbered(q) ==
  /\ Len(q.pendingSends) <= q.lastSendId
  /\ \A i \in 1 .. Len(q.pendingSends) :
       q.pendingSends[i].id = q.lastSendId - Len(q.pendingSends) + i

\* An entry of the queue has been numbered.
LEMMA EntryNumbered ==
  ASSUME NEW q \in Transport, QueueNumbered(q), NEW j \in 1 .. Len(q.pendingSends)
  PROVE  /\ q.pendingSends[j] \in Numbered
         /\ q.pendingSends[j].id \in 1 .. q.lastSendId
<1>1. /\ q.lastSendId \in Nat /\ Len(q.pendingSends) \in Nat
      /\ q.pendingSends[j] \in Numbered
  BY LenProperties, ElementOfSeq DEF Transport
<1>. QED
  BY <1>1 DEF QueueNumbered, Numbered

\* The last message handed over was received.
LEMMA ReadUpTo ==
  ASSUME NEW q \in Transport, NEW f \in ContentFrame, NEW n \in Nat,
         ProcessesUpTo(q, f, n)
  PROVE  /\ n >= q.lastProcessedId
         /\ n = q.lastProcessedId \/ \E r \in Received(q, f) : r.id = n
         /\ \A r \in Received(q, f) : r \in q.pendingReceives \/ (r.id = f.id /\ r.msg = f.msg)
<1>1. n > q.lastProcessedId => n \in q.lastProcessedId + 1 .. n
  BY DEF Transport
<1>2. n >= q.lastProcessedId /\ q.lastProcessedId \in Nat
  BY DEF ProcessesUpTo, Transport
<1>3. n = q.lastProcessedId \/ \E r \in Received(q, f) : r.id = n
  BY <1>1, <1>2 DEF ProcessesUpTo
<1>4. \A r \in Received(q, f) : r \in q.pendingReceives \/ (r.id = f.id /\ r.msg = f.msg)
  BY DEF Received
<1>. QED
  BY <1>2, <1>3, <1>4

\* The messages among the frames w, read after message n, leave no gap.
Chained(w, n) ==
  \A i \in 1 .. Len(w) : w[i].type = "CONTENT" =>
    \/ w[i].id <= n + 1
    \/ \E j \in 1 .. i - 1 : w[j].type = "CONTENT" /\ w[j].id = w[i].id - 1

Contains(w, id) == \E i \in 1 .. Len(w) : w[i].type = "CONTENT" /\ w[i].id = id

LEMMA FrameId == \A f \in Frame : f.id \in Nat
  BY DEF Frame, ContentFrame, AckFrame

LEMMA ChainedMore ==
  ASSUME NEW w \in Seq(Frame), NEW n \in Nat, NEW m \in Nat, n <= m, Chained(w, n)
  PROVE  Chained(w, m)
<1>. SUFFICES ASSUME NEW i \in 1 .. Len(w), w[i].type = "CONTENT"
              PROVE  \/ w[i].id <= m + 1
                     \/ \E j \in 1 .. i - 1 : w[j].type = "CONTENT" /\ w[j].id = w[i].id - 1
  BY DEF Chained
<1>1. w[i].id \in Nat
  BY ElementOfSeq, FrameId
<1>2. w[i].id <= n + 1 => w[i].id <= m + 1
  BY <1>1
<1>. QED
  BY <1>2 DEF Chained

\* Frames put behind others continue their chain.
LEMMA ChainedConcat ==
  ASSUME NEW w \in Seq(Frame), NEW more \in Seq(Frame), NEW n \in Nat, Chained(w, n),
         \A i \in 1 .. Len(more) : more[i].type = "CONTENT" =>
           \/ more[i].id <= n + 1
           \/ \E j \in 1 .. i - 1 : more[j].type = "CONTENT" /\ more[j].id = more[i].id - 1
           \/ Contains(w, more[i].id - 1)
  PROVE  /\ Chained(w \o more, n)
         /\ \A id : Contains(w, id) \/ Contains(more, id) => Contains(w \o more, id)
<1>. DEFINE z == w \o more
<1>1. /\ Len(w) \in Nat /\ Len(more) \in Nat
      /\ Len(z) = Len(w) + Len(more)
      /\ \A i \in 1 .. Len(w) : i \in 1 .. Len(z) /\ z[i] = w[i]
      /\ \A i \in 1 .. Len(more) : Len(w) + i \in 1 .. Len(z) /\ z[Len(w) + i] = more[i]
  BY ConcatProperties, LenProperties
<1>. HIDE DEF z
<1>2. \A id : Contains(w, id) => Contains(z, id)
  BY <1>1 DEF Contains
<1>3. \A id : Contains(more, id) => Contains(z, id)
  BY <1>1 DEF Contains
<1>4. ASSUME NEW i \in 1 .. Len(w), w[i].type = "CONTENT"
      PROVE  \/ z[i].id <= n + 1
             \/ \E j \in 1 .. i - 1 : z[j].type = "CONTENT" /\ z[j].id = z[i].id - 1
  <2>1. \/ w[i].id <= n + 1
        \/ \E j \in 1 .. i - 1 : w[j].type = "CONTENT" /\ w[j].id = w[i].id - 1
    BY <1>4 DEF Chained
  <2>2. \A j \in 1 .. i - 1 : j \in 1 .. Len(w)
    BY <1>1
  <2>. QED  BY <1>1, <2>1, <2>2
<1>5. ASSUME NEW i \in 1 .. Len(more), more[i].type = "CONTENT"
      PROVE  \/ z[Len(w) + i].id <= n + 1
             \/ \E j \in 1 .. Len(w) + i - 1 :
                  z[j].type = "CONTENT" /\ z[j].id = z[Len(w) + i].id - 1
  <2>1. CASE \E j \in 1 .. i - 1 : more[j].type = "CONTENT" /\ more[j].id = more[i].id - 1
    <3>1. PICK j \in 1 .. i - 1 : more[j].type = "CONTENT" /\ more[j].id = more[i].id - 1
      BY <2>1
    <3>2. j \in 1 .. Len(more) /\ Len(w) + j \in 1 .. Len(w) + i - 1
      BY <1>1
    <3>. QED  BY <1>1, <3>1, <3>2
  <2>2. CASE Contains(w, more[i].id - 1)
    <3>1. PICK j \in 1 .. Len(w) : w[j].type = "CONTENT" /\ w[j].id = more[i].id - 1
      BY <2>2 DEF Contains
    <3>2. j \in 1 .. Len(w) + i - 1
      BY <1>1
    <3>. QED  BY <1>1, <3>1, <3>2
  <2>3. CASE more[i].id <= n + 1
    BY <1>1, <2>3
  <2>. QED  BY <1>5, <2>1, <2>2, <2>3
<1>6. Chained(z, n)
  <2>. SUFFICES ASSUME NEW i \in 1 .. Len(z), z[i].type = "CONTENT"
                PROVE  \/ z[i].id <= n + 1
                       \/ \E j \in 1 .. i - 1 : z[j].type = "CONTENT" /\ z[j].id = z[i].id - 1
    BY DEF Chained
  <2>1. CASE i <= Len(w)
    <3>1. i \in 1 .. Len(w) /\ w[i].type = "CONTENT"
      BY <1>1, <2>1
    <3>. QED  BY <1>4, <3>1
  <2>2. CASE ~(i <= Len(w))
    <3>1. PICK k \in 1 .. Len(more) : i = Len(w) + k
      <4>1. i - Len(w) \in 1 .. Len(more) /\ i = Len(w) + (i - Len(w))
        BY <1>1, <2>2
      <4>. QED  BY <4>1
    <3>2. more[k].type = "CONTENT"
      BY <1>1, <3>1
    <3>3. \/ z[Len(w) + k].id <= n + 1
          \/ \E j \in 1 .. Len(w) + k - 1 :
               z[j].type = "CONTENT" /\ z[j].id = z[Len(w) + k].id - 1
      BY <1>5, <3>2
    <3>. QED  BY <3>1, <3>3
  <2>. QED  BY <2>1, <2>2
<1>. QED
  BY <1>2, <1>3, <1>6 DEF z

\* The frames that follow the first one continue what it was.
LEMMA ChainedTail ==
  ASSUME NEW w \in Seq(Frame), NEW n \in Nat, NEW m \in Nat, n <= m, Chained(w, n),
         1 \in 1 .. Len(w), w[1].type = "CONTENT" => w[1].id <= m,
         NEW z, Len(z) = Len(w) - 1, \A i \in 1 .. Len(w) - 1 : z[i] = w[i + 1]
  PROVE  /\ Chained(z, m)
         /\ \A id \in Nat : Contains(w, id) => id <= m \/ Contains(z, id)
<1>1. Len(w) \in Nat
  BY LenProperties
<1>2. ASSUME NEW i \in 1 .. Len(z), z[i].type = "CONTENT"
      PROVE  \/ z[i].id <= m + 1
             \/ \E j \in 1 .. i - 1 : z[j].type = "CONTENT" /\ z[j].id = z[i].id - 1
  <2>1. i + 1 \in 1 .. Len(w) /\ z[i] = w[i + 1]
    BY <1>1
  <2>2. z[i].id \in Nat /\ w[1].id \in Nat
    BY <2>1, ElementOfSeq, FrameId
  <2>3. \/ w[i + 1].id <= n + 1
        \/ \E j \in 1 .. (i + 1) - 1 : w[j].type = "CONTENT" /\ w[j].id = w[i + 1].id - 1
    BY <1>2, <2>1 DEF Chained
  <2>4. ASSUME NEW j \in 1 .. (i + 1) - 1, w[j].type = "CONTENT", w[j].id = w[i + 1].id - 1
        PROVE  \/ z[i].id <= m + 1
               \/ \E k \in 1 .. i - 1 : z[k].type = "CONTENT" /\ z[k].id = z[i].id - 1
    <3>1. CASE j = 1
      BY <2>1, <2>2, <2>4, <3>1
    <3>2. CASE j # 1
      <4>1. j - 1 \in 1 .. i - 1 /\ j - 1 \in 1 .. Len(w) - 1 /\ (j - 1) + 1 = j
        BY <1>1, <2>1, <3>2
      <4>2. z[j - 1] = w[j]
        BY <4>1
      <4>. QED  BY <2>1, <2>4, <4>1, <4>2
    <3>. QED  BY <3>1, <3>2
  <2>5. w[i + 1].id <= n + 1 => z[i].id <= m + 1
    BY <2>1, <2>2
  <2>. QED  BY <2>3, <2>4, <2>5
<1>3. ASSUME NEW id \in Nat, Contains(w, id)
      PROVE  id <= m \/ Contains(z, id)
  <2>1. PICK i \in 1 .. Len(w) : w[i].type = "CONTENT" /\ w[i].id = id
    BY <1>3 DEF Contains
  <2>2. CASE i = 1
    BY <2>1, <2>2
  <2>3. CASE i # 1
    <3>1. i - 1 \in 1 .. Len(w) - 1 /\ (i - 1) + 1 = i
      BY <1>1, <2>3
    <3>2. z[i - 1] = w[i]
      BY <3>1
    <3>. QED  BY <1>1, <2>1, <3>1, <3>2 DEF Contains
  <2>. QED  BY <2>2, <2>3
<1>. QED
  BY <1>2, <1>3 DEF Chained

\* What a queue resends, to an end that processed what was acknowledged.
LEMMA ResendChained ==
  ASSUME NEW q \in Transport, QueueNumbered(q), NEW n \in Nat,
         q.lastSendId - Len(q.pendingSends) <= n
  PROVE  /\ ResendFrames(q) \in Seq(Frame)
         /\ Chained(ResendFrames(q), n)
         /\ q.lastSendId <= n \/ Contains(ResendFrames(q), q.lastSendId)
         /\ \A i \in 1 .. Len(ResendFrames(q)) :
              \/ ResendFrames(q)[i].type = "ACK" /\ ResendFrames(q)[i].id = q.lastProcessedId
              \/ /\ ResendFrames(q)[i].type = "CONTENT"
                 /\ ResendFrames(q)[i].id \in 1 .. q.lastSendId
<1>. DEFINE acks == AckFrames(q)
            N == Len(q.pendingSends)
            resent == [i \in 1 .. N |-> ContentOf(q.pendingSends[i])]
            acked == q.lastSendId - N
<1>1. /\ N \in Nat /\ q.lastSendId \in Nat /\ N <= q.lastSendId /\ acked <= n
      /\ \A i \in 1 .. N : q.pendingSends[i] \in Numbered
      /\ \A i \in 1 .. N : q.pendingSends[i].id = acked + i
  BY LenProperties, ElementOfSeq DEF Transport, QueueNumbered
<1>2. /\ acks \in Seq(Frame) /\ Len(acks) \in 0 .. 1
      /\ \A i \in 1 .. Len(acks) : acks[i].type = "ACK" /\ acks[i].id = q.lastProcessedId
  <2>1. acks \in Seq(Frame)
    BY FramesType
  <2>2. CASE q.lastProcessedId > 0
    <3>1. acks = <<AckOf(q.lastProcessedId)>>
      BY <2>2 DEF AckFrames
    <3>2. /\ Len(acks) = 1 /\ acks[1] = AckOf(q.lastProcessedId)
          /\ \A i \in 1 .. Len(acks) : i = 1
      BY <3>1
    <3>. QED  BY <2>1, <3>2 DEF AckOf
  <2>3. CASE ~(q.lastProcessedId > 0)
    BY <2>1, <2>3, EmptySeq DEF AckFrames
  <2>. QED  BY <2>2, <2>3
<1>3. resent \in Seq(Frame) /\ Len(resent) = N
  <2>1. resent \in [1 .. N -> Frame]
    BY <1>1, FrameType
  <2>. HIDE DEF resent, N
  <2>2. resent \in UNION {[1 .. k -> Frame] : k \in Nat}
    BY <1>1, <2>1
  <2>3. resent \in Seq(Frame)
    BY <2>2, SeqDef, Zenon
  <2>4. DOMAIN resent = 1 .. N
    BY <2>1
  <2>. QED  BY <1>1, <2>3, <2>4, LenProperties
<1>4. \A i \in 1 .. N : resent[i].type = "CONTENT" /\ resent[i].id = acked + i
  BY <1>1 DEF ContentOf
<1>5. ResendFrames(q) = acks \o resent
  BY DEF ResendFrames
<1>. HIDE DEF acks, resent
<1>6. Chained(acks, n)
  BY <1>2 DEF Chained
<1>7. ASSUME NEW i \in 1 .. Len(resent), resent[i].type = "CONTENT"
      PROVE  \/ resent[i].id <= n + 1
             \/ \E j \in 1 .. i - 1 : resent[j].type = "CONTENT" /\ resent[j].id = resent[i].id - 1
  <2>1. CASE i = 1
    BY <1>1, <1>3, <1>4, <2>1
  <2>2. CASE i # 1
    <3>1. i - 1 \in 1 .. i - 1 /\ i - 1 \in 1 .. N
      BY <1>1, <1>3, <2>2
    <3>2. resent[i].id = acked + i /\ acked \in Int
      BY <1>1, <1>3, <1>4
    <3>. DEFINE k == i - 1
    <3>3. k \in 1 .. N
      BY <3>1
    <3>4. resent[k].type = "CONTENT" /\ resent[k].id = acked + k
      BY <1>4, <3>3
    <3>5. acked + k = (acked + i) - 1
      BY <3>2
    <3>. QED  BY <3>1, <3>2, <3>4, <3>5
  <2>. QED  BY <2>1, <2>2
<1>8. /\ Chained(acks \o resent, n)
      /\ \A id : Contains(resent, id) => Contains(acks \o resent, id)
  <2>. HIDE DEF N, acked
  <2>. QED  BY <1>2, <1>3, <1>6, <1>7, ChainedConcat
<1>9. q.lastSendId <= n \/ Contains(resent, q.lastSendId)
  <2>1. CASE N = 0
    BY <1>1, <2>1
  <2>2. CASE N # 0
    <3>1. N \in 1 .. Len(resent) /\ resent[N].type = "CONTENT" /\ resent[N].id = q.lastSendId
      BY <1>1, <1>3, <1>4, <2>2
    <3>. QED  BY <3>1 DEF Contains
  <2>. QED  BY <2>1, <2>2
<1>10. ASSUME NEW i \in 1 .. Len(acks \o resent)
       PROVE  \/ (acks \o resent)[i].type = "ACK" /\ (acks \o resent)[i].id = q.lastProcessedId
              \/ /\ (acks \o resent)[i].type = "CONTENT"
                 /\ (acks \o resent)[i].id \in 1 .. q.lastSendId
  <2>1. /\ Len(acks \o resent) = Len(acks) + N
        /\ (acks \o resent)[i] = IF i <= Len(acks) THEN acks[i] ELSE resent[i - Len(acks)]
    BY <1>2, <1>3, ConcatProperties
  <2>2. CASE i <= Len(acks)
    BY <1>2, <2>1, <2>2
  <2>3. CASE ~(i <= Len(acks))
    <3>1. i - Len(acks) \in 1 .. N
      BY <1>1, <1>2, <2>1, <2>3
    <3>. DEFINE k == i - Len(acks)
    <3>2. resent[k].type = "CONTENT" /\ resent[k].id = acked + k
      BY <1>4, <3>1
    <3>3. acked + k \in 1 .. q.lastSendId
      BY <1>1, <3>1
    <3>. QED  BY <2>1, <2>3, <3>2, <3>3
  <2>. QED  BY <2>2, <2>3
<1>. QED
  BY <1>2, <1>3, <1>5, <1>8, <1>9, <1>10, ConcatProperties

\* A message that leaves no gap is handed over at once, or was before.
LEMMA InOrderContent ==
  ASSUME NEW q \in Transport, NEW f \in ContentFrame, NEW n \in Nat,
         ProcessesUpTo(q, f, n), q.pendingReceives = {}, f.id <= q.lastProcessedId + 1
  PROVE  /\ {r \in Received(q, f) : r.id > n} = {}
         /\ n \in {q.lastProcessedId, q.lastProcessedId + 1} /\ n >= f.id
         /\ n = q.lastProcessedId => Processed(q, f, n) = <<>>
         /\ n = q.lastProcessedId + 1 =>
              f.id = n /\ Len(Processed(q, f, n)) = 1 /\ Processed(q, f, n)[1] = f.msg
<1>1. q.lastProcessedId \in Nat /\ f.id \in Nat
  BY DEF Transport, ContentFrame
<1>2. CASE f.id <= q.lastProcessedId
  <2>1. Received(q, f) = {}
    BY <1>1, <1>2 DEF Received
  <2>2. n = q.lastProcessedId
    BY <1>1, <2>1, ReadUpTo
  <2>3. Processed(q, f, n) = <<>>
    BY <1>1, <2>2 DEF Processed
  <2>. QED  BY <1>1, <1>2, <2>1, <2>2, <2>3
<1>3. CASE ~(f.id <= q.lastProcessedId)
  <2>. DEFINE r0 == [id |-> f.id, msg |-> f.msg]
  <2>1. f.id = q.lastProcessedId + 1
    BY <1>1, <1>3
  <2>2. Received(q, f) = {r0}
    BY <1>1, <2>1 DEF Received
  <2>3. r0.id = f.id /\ r0.msg = f.msg
    OBVIOUS
  <2>. HIDE DEF r0
  <2>4. n = f.id
    <3>1. n = q.lastProcessedId \/ n = f.id
      BY <2>2, <2>3, ReadUpTo
    <3>2. n + 1 \notin {r.id : r \in Received(q, f)}
      BY DEF ProcessesUpTo
    <3>3. n + 1 # f.id
      BY <2>2, <2>3, <3>2
    <3>. QED  BY <2>1, <3>1, <3>3
  <2>5. {r \in Received(q, f) : r.id > n} = {}
    BY <1>1, <2>2, <2>3, <2>4
  <2>6. Len(Processed(q, f, n)) = 1 /\ Processed(q, f, n)[1] = f.msg
    <3>1. (CHOOSE r \in Received(q, f) : r.id = q.lastProcessedId + 1) = r0
      BY <2>1, <2>2, <2>3
    <3>2. Processed(q, f, n) = [i \in 1 .. 1 |->
            (CHOOSE r \in Received(q, f) : r.id = q.lastProcessedId + i).msg]
      BY <1>1, <2>1, <2>4 DEF Processed
    <3>3. DOMAIN Processed(q, f, n) = 1 .. 1
      BY <3>2
    <3>4. Processed(q, f, n)[1] = (CHOOSE r \in Received(q, f) : r.id = q.lastProcessedId + 1).msg
      BY <3>2
    <3>5. Processed(q, f, n)[1] = f.msg
      BY <2>3, <3>1, <3>4
    <3>6. Processed(q, f, n) \in Seq(Msg)
      BY ProcessedType
    <3>7. Len(Processed(q, f, n)) = 1
      BY <3>3, <3>6, LenProperties
    <3>. QED  BY <3>5, <3>7
  <2>. QED  BY <1>1, <2>1, <2>4, <2>5, <2>6
<1>. QED
  BY <1>2, <1>3

=============================================================================
