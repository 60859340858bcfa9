------------------------------ MODULE MCRpcCall ------------------------------
(* Two concurrent calls, one retry: the breakers' thresholds, cooldowns and  *)
(* the calls' deadlines all fall between each other's steps.                 *)
EXTENDS RpcCall
=============================================================================
