---------------------------- MODULE MCAckChannel ----------------------------
(* Instances of AckChannel for TLC. *)
EXTENDS AckChannel

\* The client sends two messages and the server one.
TwoAndOne == [client |-> 2, server |-> 1]

\* Traffic in one direction.
TwoAndNone == [client |-> 2, server |-> 0]

=============================================================================
