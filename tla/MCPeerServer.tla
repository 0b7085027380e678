----------------------------- MODULE MCPeerServer ------------------------------
(* An instance of PeerServer for TLC: a known peer and one that connects to us, *)
(* with addresses of their own, or a peer that is listed twice.                 *)
EXTENDS PeerServer, TLC

CONSTANTS c1, c2, a1, a2, t1

Setups ==
    {[known |-> <<c1>>, addr |-> (c1 :> a1) @@ (c2 :> a2)],
     [known |-> <<c1, c2>>, addr |-> (c1 :> a1) @@ (c2 :> a1)]}
================================================================================
