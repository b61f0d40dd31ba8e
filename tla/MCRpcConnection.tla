--------------------------- MODULE MCRpcConnection ---------------------------
(* Instances of RpcConnection for TLC. *)
EXTENDS RpcConnection

CONSTANTS file, callback

\* Plans in which the client asks for c and may be sent the objects o, and the
\* server asks for s, and may be sent callback if it asks for anything.
Plan(c, o, s) ==
  [requests |-> [e \in End |-> IF e = "client" THEN c ELSE s],
   objects |-> [e \in End |-> IF e = "server" THEN o
                              ELSE IF s = <<>> THEN {} ELSE {callback}]]

\* Two requests of any kind; an object that is used or disposed in any order
\* after it was obtained; an object of the client that the server uses.
AllPlans ==
  {Plan(<<k, l>>, {file}, <<>>) : k \in {"promise", "observable"}, l \in Kind}
    \cup {Plan(<<"promise", k, l>>, {file}, <<>>) :
            k \in {"promise", "dispose"}, l \in {"promise", "dispose"}}
    \cup {Plan(<<"promise", "observable", "dispose">>, {file}, <<>>)}
    \cup {Plan(<<k>>, {}, <<l>>) : k \in {"promise", "void"}, l \in Kind \ {"void"}}

=============================================================================
