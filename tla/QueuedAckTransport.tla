------------------------- MODULE QueuedAckTransport -------------------------
(***************************************************************************)
(* One QueuedAckTransport of big-dig (modules/big-dig/src/socket): the     *)
(* adapter that turns an unreliable WebSocket into a reliable transport by *)
(* queueing every message until the peer acknowledges it.                  *)
(*                                                                         *)
(* The module has no variables.  A transport object is a record q, and     *)
(* each method of the class is an operator from the record before the call *)
(* to the record after it; the frames the call puts on the socket are      *)
(* named by a separate operator.  AckChannel joins two such objects by a   *)
(* network, and BigDigSession runs them under ReliableSocket and           *)
(* BigDigServer.                                                           *)
(*                                                                         *)
(* Time is abstracted: a timer is a flag that says it is armed, and an     *)
(* armed timer may fire at any later moment.                               *)
(***************************************************************************)
EXTENDS Integers, Sequences

CONSTANT
  Msg  \* the application messages

\* Sockets are numbered 1, 2, ... in the order the server accepts them;
\* NoSocket is the null reference.
NoSocket == 0

Socket == Nat \ {NoSocket}

\* A numbered message: an entry of _pendingSends or of _pendingReceives.
Numbered == [id : Nat, msg : Msg]

ContentFrame == [type : {"CONTENT"}, id : Nat, msg : Msg]

AckFrame == [type : {"ACK"}, id : Nat]

\* What travels on a socket: `>id:message` or `<id:`.
Frame == ContentFrame \cup AckFrame

\* The fields of the class.  pendingReceives is a Map from ids to messages,
\* here the set of its entries.
Transport ==
  [isClosed            : BOOLEAN,
   socket              : Nat,
   pendingSends        : Seq(Numbered),
   pendingReceives     : SUBSET Numbered,
   lastSendId          : Nat,
   lastProcessedId     : Nat,
   pendingMessageTimer : BOOLEAN,
   ackTimer            : BOOLEAN]

\* Mutant of NewTransport: message ids counted from -1.
NewTransportBelowZero ==
  [isClosed            |-> FALSE,
   socket              |-> NoSocket,
   pendingSends        |-> <<>>,
   pendingReceives     |-> {},
   lastSendId          |-> -1,
   lastProcessedId     |-> -1,
   pendingMessageTimer |-> FALSE,
   ackTimer            |-> FALSE]

\* The object the constructor builds around a null transport.
NewTransport ==
  [isClosed            |-> FALSE,
   socket              |-> NoSocket,
   pendingSends        |-> <<>>,
   pendingReceives     |-> {},
   lastSendId          |-> 0,
   lastProcessedId     |-> 0,
   pendingMessageTimer |-> FALSE,
   ackTimer            |-> FALSE]

-----------------------------------------------------------------------------
(* getState() *)

IsOpen(q) == ~q.isClosed /\ q.socket # NoSocket

IsDisconnected(q) == ~q.isClosed /\ q.socket = NoSocket

-----------------------------------------------------------------------------
(* The timer that disconnects a transport on which nothing moves. *)

\* Mutant of HasPendingMessage: parked receives do not count.
HasPendingSend(q) == q.pendingSends # <<>>

HasPendingMessage(q) == q.pendingSends # <<>> \/ q.pendingReceives # {}

WantsPendingMessageTimer(q) == IsOpen(q) /\ HasPendingMessage(q)

MaybeStartPendingMessageTimer(q) ==
  [q EXCEPT !.pendingMessageTimer = @ \/ WantsPendingMessageTimer(q)]

\* The end of _handleMessage: progress restarts the timer.
RestartPendingMessageTimer(q, progress) ==
  MaybeStartPendingMessageTimer(
    [q EXCEPT !.pendingMessageTimer = @ /\ ~progress])

-----------------------------------------------------------------------------
(* Losing and regaining a socket. *)

\* _handleTransportClose, on a transport that is not closed.
HandleTransportClose(q) ==
  [q EXCEPT !.socket = NoSocket,
            !.pendingMessageTimer = FALSE,
            !.ackTimer = FALSE]

\* close(): disconnect, and forget everything that was queued.
Close(q) ==
  IF q.isClosed
    THEN q
    ELSE [HandleTransportClose(q) EXCEPT !.pendingSends = <<>>,
                                         !.pendingReceives = {},
                                         !.isClosed = TRUE]

\* frameContent and frameAck.
ContentOf(p) == [type |-> "CONTENT", id |-> p.id, msg |-> p.msg]

AckOf(id) == [type |-> "ACK", id |-> id]

\* Mutant of AckFrames: acknowledges the id it expects next.
AckExpectedFrames(q) == <<AckOf(q.lastProcessedId + 1)>>

\* _sendAck: nothing is acknowledged before something was processed.
AckFrames(q) ==
  IF q.lastProcessedId > 0 THEN <<AckOf(q.lastProcessedId)>> ELSE <<>>

\* Mutant of ResendFrames: messages sent while disconnected are left out.
AckOnlyFrames(q) == AckFrames(q)

\* Mutant of ResendFrames: the ack comes after the messages.
MessagesThenAckFrames(q) ==
  [i \in 1 .. Len(q.pendingSends) |-> ContentOf(q.pendingSends[i])] \o AckFrames(q)

\* _resendQueue: an ack, then every message not yet acknowledged, in order.
ResendFrames(q) ==
  AckFrames(q) \o
  [i \in 1 .. Len(q.pendingSends) |-> ContentOf(q.pendingSends[i])]

\* Mutant of Reconnect: a new socket starts with a new receive counter.
ReconnectForgetting(q, s) ==
  IF q.isClosed
    THEN q
    ELSE MaybeStartPendingMessageTimer(
           [HandleTransportClose(q) EXCEPT !.socket = s, !.lastProcessedId = 0])

\* reconnect(transport), and the constructor given a transport: closes the
\* socket in use, if any, and adopts the new one.
Reconnect(q, s) ==
  IF q.isClosed
    THEN q
    ELSE MaybeStartPendingMessageTimer(
           [HandleTransportClose(q) EXCEPT !.socket = s])

ReconnectFrames(q) == IF q.isClosed THEN <<>> ELSE ResendFrames(q)

-----------------------------------------------------------------------------
(* send(message) *)

NextNumbered(q, m) == [id |-> q.lastSendId + 1, msg |-> m]

Enqueue(q, m) ==
  IF q.isClosed
    THEN q
    ELSE MaybeStartPendingMessageTimer(
           [q EXCEPT !.lastSendId = @ + 1,
                     !.pendingSends = Append(@, NextNumbered(q, m))])

\* The frame is handed to the socket when there is one; while disconnected
\* the message stays in the queue only.
SendFrames(q, m) ==
  IF IsOpen(q) THEN <<ContentOf(NextNumbered(q, m))>> ELSE <<>>

-----------------------------------------------------------------------------
(* _handleMessage, for a frame of type CONTENT *)

\* pending.set(id, message), unless the frame repeats a processed message.
Received(q, f) ==
  IF f.id > q.lastProcessedId
    THEN {r \in q.pendingReceives : r.id # f.id}
           \cup {[id |-> f.id, msg |-> f.msg]}
    ELSE q.pendingReceives

\* The loop that hands over consecutive messages stops after message n.
ProcessesUpTo(q, f, n) ==
  LET ids == {r.id : r \in Received(q, f)} IN
  /\ n >= q.lastProcessedId
  /\ \A i \in q.lastProcessedId + 1 .. n : i \in ids
  /\ n + 1 \notin ids

\* The messages handed to the subscriber, in order, when it stops after n.
Processed(q, f, n) ==
  [i \in 1 .. n - q.lastProcessedId |->
     (CHOOSE r \in Received(q, f) : r.id = q.lastProcessedId + i).msg]

\* Mutant of HandleContent: the message is handed over but not counted.
HandleContentUncounted(q, f, n) ==
  RestartPendingMessageTimer(
    [q EXCEPT !.pendingReceives = {r \in Received(q, f) : r.id > n},
              !.ackTimer = @ \/ IsOpen(q)],
    n > q.lastProcessedId)

HandleContent(q, f, n) ==
  RestartPendingMessageTimer(
    [q EXCEPT !.pendingReceives = {r \in Received(q, f) : r.id > n},
              !.lastProcessedId = n,
              !.ackTimer = @ \/ IsOpen(q)],
    n > q.lastProcessedId)

-----------------------------------------------------------------------------
(* _handleMessage, for a frame of type ACK *)

\* Mutant of IsAmnesia: acks are taken as they come.
NeverAmnesia(q, f) == FALSE

\* The peer acknowledges a message this object never sent: the peer talks to
\* an object that came after the one it knew, and the transport gives up.
IsAmnesia(q, f) == f.id > q.lastSendId

\* Mutant of AcknowledgesFirst: an ack empties the queue.
AcknowledgesAll(q, f, k) == k = Len(q.pendingSends)

\* The loop that dequeues acknowledged messages stops after the first k.
AcknowledgesFirst(q, f, k) ==
  /\ k \in 0 .. Len(q.pendingSends)
  /\ \A i \in 1 .. k : q.pendingSends[i].id <= f.id
  /\ k < Len(q.pendingSends) => q.pendingSends[k + 1].id > f.id

\* Mutant of HandleAck: one message too many is dequeued.
HandleAckOneMore(q, f, k) ==
  IF IsAmnesia(q, f)
    THEN Close(q)
    ELSE RestartPendingMessageTimer(
           [q EXCEPT !.pendingSends = SubSeq(@, k + 2, Len(@))], k > 0)

HandleAck(q, f, k) ==
  IF IsAmnesia(q, f)
    THEN Close(q)
    ELSE RestartPendingMessageTimer(
           [q EXCEPT !.pendingSends = SubSeq(@, k + 1, Len(@))], k > 0)

-----------------------------------------------------------------------------
(* The timer that batches acknowledgements. *)

HandleAckTimer(q) == [q EXCEPT !.ackTimer = FALSE]

-----------------------------------------------------------------------------
(* _checkLeaks, the assertion every method ends with, and the assertions   *)
(* of _handlePendingMessageTimeout.                                        *)

CheckLeaks(q) ==
  /\ q.isClosed => /\ q.pendingSends = <<>>
                   /\ q.pendingReceives = {}
                   /\ q.socket = NoSocket
  /\ q.socket = NoSocket => ~q.ackTimer /\ ~q.pendingMessageTimer

=============================================================================
