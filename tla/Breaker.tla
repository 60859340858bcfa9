------------------------------ MODULE Breaker ------------------------------
(***************************************************************************)
(* The circuit breaker of one RPC endpoint as a value, and its three       *)
(* operations as functions of that value (src/src/rpc/circuit_breaker.rs). *)
(*                                                                         *)
(* The code keeps the instant the circuit opened and compares the time     *)
(* since then with the cooldown.  Only that comparison matters, so the     *)
(* model keeps the time since the opening, capped at the cooldown.         *)
(***************************************************************************)
EXTENDS Integers

CONSTANTS FailureThreshold,  \* consecutive transport failures that open it; 0 disables it
          Cooldown           \* clock ticks an open circuit stays shut

ASSUME BreakerAssumption == /\ FailureThreshold \in Nat
                            /\ Cooldown \in Nat

Enabled == FailureThreshold > 0

\* How a call that reached the network ended, as is_transport_failure sees it.
\* "other" is every error that does not count: a JSON-RPC error, HTTP 429/500,
\* a malformed body, the total timeout, or a caller dropped before it recorded.
Outcomes == {"ok", "transport", "other"}

\* The count stays below the threshold: reaching it opens the circuit and resets it.
FailureCounts == IF Enabled THEN 0..(FailureThreshold - 1) ELSE {0}

BreakerStates == [state : {"closed", "open", "half_open"},
                  failures : FailureCounts,
                  elapsed : 0..Cooldown]

\* Inner::new
NewBreaker == [state |-> "closed", failures |-> 0, elapsed |-> 0]

\* CircuitState::Open { opened_at: now }, with the failure count reset
Opened == [state |-> "open", failures |-> 0, elapsed |-> 0]

-----------------------------------------------------------------------------
\* Mutant: concurrent callers pass while the probe is in flight.
RejectsOnlyOpen(b) == Enabled /\ b.state = "open" /\ b.elapsed < Cooldown

\* should_reject, its answer
Rejects(b) ==
    /\ Enabled
    /\ \/ b.state = "half_open"
       \/ b.state = "open" /\ b.elapsed < Cooldown

\* should_reject admits this call as the half-open probe
StartsProbe(b) == Enabled /\ b.state = "open" /\ ~Rejects(b)

\* should_reject, its effect
AfterCheck(b) ==
    IF StartsProbe(b) THEN [state |-> "half_open", failures |-> b.failures, elapsed |-> 0]
                      ELSE b

\* Mutant: the success closes the circuit but the failures counted so far remain.
RecordSuccessKeepsCount(b) ==
    IF Enabled THEN [NewBreaker EXCEPT !.failures = b.failures] ELSE b

\* Mutant: the success resets the count but a half-open circuit does not close.
RecordSuccessKeepsState(b) == IF Enabled THEN [b EXCEPT !.failures = 0] ELSE b

\* record_success
RecordSuccess(b) == IF Enabled THEN NewBreaker ELSE b

\* Mutant: a failed probe reopens the circuit without restarting the cooldown.
RecordFailureKeepsCooldown(b) ==
    CASE b.state = "half_open" -> [Opened EXCEPT !.elapsed = Cooldown]
      [] b.state # "half_open" /\ b.failures + 1 >= FailureThreshold -> Opened
      [] OTHER -> [b EXCEPT !.failures = @ + 1]

\* Mutant: a failed probe counts towards the threshold like any other failure.
RecordFailureCountsProbe(b) ==
    IF b.failures + 1 >= FailureThreshold THEN Opened
                                          ELSE [b EXCEPT !.failures = @ + 1]

\* record_failure, for an error that counts
RecordFailure(b) ==
    CASE ~Enabled -> b
      [] Enabled /\ (b.state = "half_open" \/ b.failures + 1 >= FailureThreshold) -> Opened
      [] OTHER -> [b EXCEPT !.failures = @ + 1]

\* What a caller records when its operation returns (call, perform_call)
Record(b, outcome) ==
    CASE outcome = "ok"        -> RecordSuccess(b)
      [] outcome = "transport" -> RecordFailure(b)
      [] OTHER                 -> b

\* One tick of the clock, as an open circuit sees it
Aged(b) ==
    IF b.state = "open" /\ b.elapsed < Cooldown THEN [b EXCEPT !.elapsed = @ + 1]
                                                ELSE b
=============================================================================
