--------------------------- MODULE CircuitBreaker ---------------------------
(***************************************************************************)
(* Concurrent callers of one endpoint that share a circuit breaker         *)
(* (CircuitBreaker::call, and each endpoint's half of perform_call): the   *)
(* gate, with the history its properties read.  A rejected call changes    *)
(* nothing.                                                                *)
(***************************************************************************)
EXTENDS BreakerGate, FiniteSets

ASSUME CallersAssumption == IsFiniteSet(Callers)

VARIABLES sinceProbe,  \* ticks since the last probe was admitted, at most Cooldown
          streak,      \* transport failures since the last success, at most the threshold
          wasted,      \* those of calls admitted by a closed circuit
          lost         \* the half-open circuit's probe ended without a verdict

vars == <<breaker, phase, sinceProbe, streak, wasted, lost>>

InFlight == {c \in Callers : phase[c] # "idle"}

Init ==
    /\ GateInit
    /\ sinceProbe = Cooldown
    /\ streak = 0
    /\ wasted = 0
    /\ lost = FALSE

-----------------------------------------------------------------------------
Admit(c) ==
    /\ Enter(c)
    /\ IF StartsProbe(breaker) THEN sinceProbe' = 0 /\ lost' = FALSE
                               ELSE UNCHANGED <<sinceProbe, lost>>
    /\ UNCHANGED <<streak, wasted>>

Finish(c, outcome) ==
    /\ Leave(c, outcome)
    /\ streak' = CASE outcome = "ok" -> 0
                   [] outcome = "transport" /\ streak < FailureThreshold -> streak + 1
                   [] OTHER -> streak
    /\ wasted' = CASE outcome = "ok" -> 0
                   [] outcome = "transport" /\ phase[c] = "call" -> wasted + 1
                   [] OTHER -> wasted
    /\ lost' = (breaker'.state = "half_open" /\ (lost \/ (phase[c] = "probe" /\ outcome = "other")))
    /\ UNCHANGED sinceProbe

Tick ==
    /\ Pass
    /\ sinceProbe' = IF sinceProbe < Cooldown THEN sinceProbe + 1 ELSE sinceProbe
    /\ <<breaker', sinceProbe'>> # <<breaker, sinceProbe>>
    /\ UNCHANGED <<streak, wasted, lost>>

Next ==
    \/ \E c \in Callers : Admit(c)
    \/ \E c \in Callers, outcome \in Outcomes : Finish(c, outcome)
    \/ Tick

Spec == Init /\ [][Next]_vars

\* Every attempt has a timeout and time passes; nobody is obliged to call.
Fairness ==
    /\ \A c \in Callers : WF_vars(\E outcome \in Outcomes : Finish(c, outcome))
    /\ WF_vars(Tick)

FairSpec == Spec /\ Fairness

-----------------------------------------------------------------------------
TypeOK ==
    /\ breaker \in BreakerStates
    /\ phase \in [Callers -> Phases]
    /\ sinceProbe \in 0..Cooldown
    /\ streak \in 0..FailureThreshold
    /\ wasted \in Nat
    /\ lost \in BOOLEAN

\* "A circuit breaker prevents wasted retries and amplified load" (lines 3-4): with
\* N callers an endpoint that answers nothing costs at most threshold - 1 + N
\* ordinary calls, however their checks and records interleave with probes and
\* reopenings; every further call is a probe.
WastedCallsBounded ==
    Enabled => wasted <= FailureThreshold - 1 + Cardinality(Callers)

\* Two probes are at least a cooldown apart, although a record that arrives late may
\* close or reopen the circuit, restarting its cooldown, in between (record_failure
\* and should_reject).
ProbesAreSpaced ==
    [][\A c \in Callers : phase[c] # "probe" /\ phase'[c] = "probe"
                              => sinceProbe = Cooldown]_vars

\* A closed circuit opens only after the threshold of transport failures with no
\* success recorded between them ("consecutive", line 5): stale failures left over
\* from before a success never count.
OpensOnlyAfterStreak ==
    [][breaker.state = "closed" /\ breaker'.state = "open"
           => streak' = FailureThreshold]_vars

\* A half-open circuit rejects everyone, so someone must be there to move it on:
\* either its probe is in flight, or the probe ended without a verdict.
StrandedOnlyWithoutVerdict ==
    breaker.state = "half_open" => lost \/ \E c \in Callers : phase[c] = "probe"

\* A disabled breaker (threshold 0) "never opens" (lines 52-56).
DisabledNeverOpens == ~Enabled => breaker = NewBreaker

\* A half-open circuit gets its verdict unless the probe ends without one.
ProbeResolves == breaker.state = "half_open" ~> (breaker.state # "half_open" \/ lost)
=============================================================================
