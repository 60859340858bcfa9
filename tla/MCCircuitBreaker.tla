-------------------------- MODULE MCCircuitBreaker --------------------------
(* Three callers, a threshold of two, a cooldown of two ticks: two calls can *)
(* still be in flight when the circuit opens, reopens or is probed.          *)
EXTENDS CircuitBreaker
=============================================================================
