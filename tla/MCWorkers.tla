------------------------------ MODULE MCWorkers ------------------------------
(* An instance of Workers for TLC: two realm workers that compete for two   *)
(* objects, a neighbor worker that competes with both, and channels that    *)
(* fill up.                                                                 *)
EXTENDS Workers
==============================================================================
