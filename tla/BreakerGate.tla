----------------------------- MODULE BreakerGate -----------------------------
(***************************************************************************)
(* What a circuit breaker promises the calls that share it, and nothing    *)
(* else: each asks before it runs (Enter), each that was let in says how   *)
(* it ended (Leave), and the clock ages an open circuit (Pass).  Others    *)
(* move between a call's Enter and its Leave, so a verdict may come from a *)
(* call admitted in an older state of the circuit.  CircuitBreaker adds    *)
(* the history its properties read; RpcCall implements one gate for each   *)
(* endpoint.                                                               *)
(***************************************************************************)
EXTENDS Breaker

CONSTANT Callers

VARIABLES breaker,  \* the shared Inner: state, failure count, age of the opening
          phase     \* phase[c]: "idle", or what the call in flight was admitted as

Phases == {"idle", "call", "probe"}

GateInit ==
    /\ breaker = NewBreaker
    /\ phase = [c \in Callers |-> "idle"]

Enter(c) ==
    /\ phase[c] = "idle"
    /\ ~Rejects(breaker)
    /\ breaker' = AfterCheck(breaker)
    /\ phase' = [phase EXCEPT ![c] = IF StartsProbe(breaker) THEN "probe" ELSE "call"]

Leave(c, outcome) ==
    /\ phase[c] # "idle"
    /\ breaker' = Record(breaker, outcome)
    /\ phase' = [phase EXCEPT ![c] = "idle"]

Pass == breaker' = Aged(breaker) /\ UNCHANGED phase

GateNext ==
    \/ \E c \in Callers : Enter(c)
    \/ \E c \in Callers, outcome \in Outcomes : Leave(c, outcome)
    \/ Pass

GateSpec == GateInit /\ [][GateNext]_<<breaker, phase>>
=============================================================================
