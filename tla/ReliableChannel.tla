--------------------------- MODULE ReliableChannel ---------------------------
(***************************************************************************)
(* What big-dig promises the layers above it (README "Design", and the     *)
(* header comments of ReliableSocket and QueuedAckTransport): two ends     *)
(* exchange messages over a connection that may break and be restored, and *)
(* each end sees a prefix of what the other one sent, in order and without *)
(* repetition.  An end that was closed neither sends nor receives.         *)
(***************************************************************************)
EXTENDS Integers, Sequences

CONSTANT Msg

VARIABLES
  sent,       \* sent[e]: the messages end e accepted from its application
  delivered,  \* delivered[e]: the messages handed to the application at e
  closed      \* the ends that were closed

chanVars == <<sent, delivered, closed>>

End == {"client", "server"}

Peer(e) == IF e = "client" THEN "server" ELSE "client"

ChanInit ==
  /\ sent = [e \in End |-> <<>>]
  /\ delivered = [e \in End |-> <<>>]
  /\ closed = {}

ChanSend(e) ==
  /\ e \notin closed
  /\ \E m \in Msg : sent' = [sent EXCEPT ![e] = Append(@, m)]
  /\ UNCHANGED <<delivered, closed>>

\* The application at e receives the messages up to the n-th one.
ChanDeliver(e) ==
  /\ e \notin closed
  /\ \E n \in Len(delivered[e]) + 1 .. Len(sent[Peer(e)]) :
       delivered' = [delivered EXCEPT ![e] = SubSeq(sent[Peer(e)], 1, n)]
  /\ UNCHANGED <<sent, closed>>

ChanClose(e) ==
  /\ e \notin closed
  /\ closed' = closed \cup {e}
  /\ UNCHANGED <<sent, delivered>>

ChanNext == \E e \in End : ChanSend(e) \/ ChanDeliver(e) \/ ChanClose(e)

ChanSpec == ChanInit /\ [][ChanNext]_chanVars

=============================================================================
