---------------------------- MODULE MCConfigWatch ----------------------------
(* Two configurations, three ledgers, two attempts to connect: changes that   *)
(* come back, notifications replayed, unreadable and queued, and every way    *)
(* from the WebSocket to polling.                                             *)
EXTENDS ConfigWatch
=============================================================================
