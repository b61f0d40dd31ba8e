-------------------------- MODULE MCThriftServices --------------------------
(* Instances of ThriftServices for TLC. *)
EXTENDS ThriftServices

CONSTANTS fs, exec

\* The callers of fs overlap; those of exec wait for each other, and the
\* process of exec may end by itself.
Pairs == [s \in Service |-> IF s = fs THEN 2 ELSE 1]
FaultsOfEach == [s \in Service |->
  IF s = fs THEN {"timeout", "tunnel"} ELSE {"timeout", "tunnel", "exit"}]

=============================================================================
