------------------------------- MODULE MCCluster -------------------------------
(* Instances of Cluster for TLC. *)
EXTENDS Cluster, TLC

CONSTANTS n1, n2, n3

Pair == {{n1, n2}}
Line == {{n1, n2}, {n2, n3}}

Of(w, all, up, lossy, mining, n) ==
    [workers |-> w, edges |-> all, up |-> up, lossy |-> lossy, miners |-> mining,
     bound |-> n]

(* Blocks passed on by a node between two others, mined at one end, or at two *)
(* of the nodes with a connection that may break; two nodes with messages out *)
(* of order, of which one joins late and may lose its connection, or both of  *)
(* which mine, or one of which mines enough for the other to lose an orphan.  *)
Setups ==
    {Of(1, Line, Line, {}, {n1}, 3), Of(1, Line, Line, {{n1, n2}}, {n1, n2}, 2),
     Of(2, Pair, {}, Pair, {n1}, 3), Of(2, Pair, Pair, {}, {n1, n2}, 2),
     Of(2, Pair, Pair, {}, {n1}, 4)}

(* A node between two others that mines too. *)
MiningLine == {Of(1, Line, Line, {}, {n1, n2}, 2)}
================================================================================
