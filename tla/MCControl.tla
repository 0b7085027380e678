------------------------------- MODULE MCControl -------------------------------
(* Instances of Control for TLC: two requests. *)
EXTENDS Control, TLC

CONSTANTS r1, r2

(* One client starts the miner or queries the chain, the other starts the miner. *)
MinerRequests ==
    /\ rpc[r1] \in {"none", "/miner/start", "/blockchain", "respond"} \cup Over
    /\ rpc[r2] \in {"none", "/miner/start"} \cup Over

(* Requests of any kind with one block, or those to the miner with two. *)
OneBlockOrMiner == tip + finished <= 1 \/ MinerRequests
================================================================================
