---------------------------- MODULE SocketWires ----------------------------
(***************************************************************************)
(* The WebSockets between a client and a server, as what they carry: for   *)
(* each socket and each end, the sequence of frames travelling to that     *)
(* end.  A WebSocket delivers, in order, a prefix of what was sent on it.  *)
(*                                                                         *)
(* eps maps each end to its transport object; only the field `socket`, the *)
(* number of the socket the object uses, matters here.                     *)
(***************************************************************************)
EXTENDS Integers, Sequences

CONSTANT
  MaxSocket  \* bound on the sockets; all but the last one may fail

ASSUME MaxSocketAssumption == MaxSocket \in Nat

Sockets == 1 .. MaxSocket

End == {"client", "server"}

Peer(e) == IF e = "client" THEN "server" ELSE "client"

\* Whether a frame on socket s can still reach end e.
Reaches(s, e, eps, open) ==
  eps[e].socket = s \/ (e = "client" /\ s \in open)

\* A socket nobody listens to any more loses its frames.
Carried(w, eps, open) ==
  [s \in Sockets |-> [e \in End |->
     IF Reaches(s, e, eps, open) THEN w[s][e] ELSE <<>>]]

\* The wires after end e put frames on socket s.
Put(w, s, e, frames) ==
  [t \in Sockets |-> [d \in End |->
     IF t = s /\ d = Peer(e) THEN w[t][d] \o frames ELSE w[t][d]]]

\* The wires after the i-th frame to e left socket s.
Took(w, s, e, i) ==
  [t \in Sockets |-> [d \in End |->
     IF t = s /\ d = e
       THEN SubSeq(w[t][d], 1, i - 1) \o SubSeq(w[t][d], i + 1, Len(w[t][d]))
       ELSE w[t][d]]]

=============================================================================
