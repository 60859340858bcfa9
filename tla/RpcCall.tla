------------------------------- MODULE RpcCall -------------------------------
(***************************************************************************)
(* One network call of the RPC client, from its deadline to its answer:    *)
(* perform_call with post_and_parse (src/src/rpc/client.rs) and            *)
(* with_retry_deadline (src/src/rpc/retry.rs).  A call posts to the        *)
(* primary endpoint, retries what is transient, records the verdict in the *)
(* primary's circuit breaker and, on a transport failure, does it all      *)
(* again on the fallback.  Calls run concurrently and share the breakers.  *)
(*                                                                         *)
(* Time is counted down: what is left until a call's deadline, and of its  *)
(* backoff.  A task may be polled later than its timer fires, so a         *)
(* countdown at 0 enables a step and obliges to nothing at once.           *)
(***************************************************************************)
EXTENDS Breaker, FiniteSets

CONSTANTS Calls,         \* those that share the client
          MaxRetries,
          TotalTimeouts, \* ticks a whole call may take; 0 when there is no deadline
          Delays,        \* the backoffs retry_delay can return, jitter and Retry-After included
          HasFallback

ASSUME RpcCallAssumption == /\ MaxRetries \in Nat
                            /\ TotalTimeouts \subseteq Nat
                            /\ Delays \subseteq Nat
                            /\ HasFallback \in BOOLEAN

VARIABLES totalTimeout, \* the client's total_timeout: one of TotalTimeouts, fixed
          breakers,     \* circuit_primary and circuit_fallback
          fallbackUsed, \* the client's fallback_used flag
          call          \* call[c]: the locals of c's perform_call

call_vars == <<totalTimeout, breakers, fallbackUsed, call>>

Endpoints == {"primary", "fallback"}

\* How an attempt or a whole post can end.  "transport" is is_transport_failure, which is
\* also is_failover_trigger; "throttled" is HTTP 429 or 500; "fatal" is any other error,
\* every JSON-RPC error among them; "deadline" is TotalTimeout.
Errors == {"transport", "throttled", "fatal"}
Retryable == {"transport", "throttled"}

NoCall == [pc |-> "idle", at |-> "primary", phase |-> "idle", attempts |-> 0,
           left |-> 0, sleep |-> 0, outcome |-> "none"]

CallInit ==
    /\ totalTimeout \in TotalTimeouts
    /\ breakers = [e \in Endpoints |-> NewBreaker]
    /\ call = [c \in Calls |-> NoCall]
    /\ fallbackUsed = FALSE

Expired(c) == totalTimeout > 0 /\ call[c].left = 0

\* should_reject lets the call in at endpoint e
AdmitAt(c, e, left) ==
    /\ ~Rejects(breakers[e])
    /\ breakers' = [breakers EXCEPT ![e] = AfterCheck(@)]
    /\ call' = [call EXCEPT ![c] =
                  [NoCall EXCEPT !.pc = "loop", !.at = e, !.left = left,
                                 !.phase = IF StartsProbe(breakers[e]) THEN "probe" ELSE "call"]]

Goto(c, label) == call' = [call EXCEPT ![c].pc = label]

\* post_and_parse returns
Conclude(c, outcome) == call' = [call EXCEPT ![c].pc = "record", ![c].outcome = outcome]

-----------------------------------------------------------------------------
\* A call the open primary rejects returns open_error and changes nothing.
Begin(c) ==
    /\ call[c].pc = "idle"
    /\ AdmitAt(c, "primary", totalTimeout)
    /\ UNCHANGED <<totalTimeout, fallbackUsed>>

\* The top of the retry loop
Attempt(c) ==
    /\ call[c].pc = "loop"
    /\ IF Expired(c) THEN Conclude(c, "deadline") ELSE Goto(c, "sending")
    /\ UNCHANGED <<totalTimeout, breakers, fallbackUsed>>

\* The wait before a retry.  One that would reach the deadline waits for that instead.
BackOff(c) ==
    \E d \in Delays :
        IF totalTimeout > 0 /\ d >= call[c].left
        THEN Goto(c, "drain")
        ELSE call' = [call EXCEPT ![c].pc = "backoff", ![c].sleep = d]

\* An attempt fails
Fail(c, error) ==
    /\ call[c].pc = "sending"
    /\ IF call[c].attempts < MaxRetries /\ error \in Retryable THEN BackOff(c)
                                                               ELSE Conclude(c, error)
    /\ UNCHANGED <<totalTimeout, breakers, fallbackUsed>>

\* An attempt is answered with a status that is not transient
Answer(c) ==
    /\ call[c].pc = "sending"
    /\ Goto(c, "body")
    /\ UNCHANGED <<totalTimeout, breakers, fallbackUsed>>

\* The answer's body is read and parsed, outside the retry loop: a JSON-RPC error, or a
\* body cut off, ends the post
Parse(c, outcome) ==
    /\ call[c].pc = "body"
    /\ Conclude(c, outcome)
    /\ UNCHANGED <<totalTimeout, breakers, fallbackUsed>>

\* timeout_at around an attempt or the body, and sleep_until the deadline
Expire(c) ==
    /\ call[c].pc \in {"sending", "body", "drain"}
    /\ Expired(c)
    /\ Conclude(c, "deadline")
    /\ UNCHANGED <<totalTimeout, breakers, fallbackUsed>>

\* Mutant: the attempt is not counted.
WakeForgetsAttempt(c) ==
    /\ call[c].pc = "backoff"
    /\ call[c].sleep = 0
    /\ Goto(c, "loop")
    /\ UNCHANGED <<totalTimeout, breakers, fallbackUsed>>

Wake(c) ==
    /\ call[c].pc = "backoff"
    /\ call[c].sleep = 0
    /\ call' = [call EXCEPT ![c].pc = "loop", ![c].attempts = @ + 1]
    /\ UNCHANGED <<totalTimeout, breakers, fallbackUsed>>

-----------------------------------------------------------------------------
\* What record_success and record_failure make of a post's outcome
Verdict(outcome) == IF outcome \in {"ok", "transport"} THEN outcome ELSE "other"

\* The post's outcome is recorded with its endpoint's breaker; then the call returns, or
\* a transport failure of the primary moves on to the fallback
Settle(c) ==
    /\ call[c].pc = "record"
    /\ breakers' = [breakers EXCEPT ![call[c].at] = Record(@, Verdict(call[c].outcome))]
    /\ IF call[c].at = "primary" /\ call[c].outcome = "transport" /\ HasFallback
       THEN call' = [call EXCEPT ![c].pc = "failover", ![c].phase = "idle"]
       ELSE call' = [call EXCEPT ![c] = NoCall]
    /\ UNCHANGED <<totalTimeout, fallbackUsed>>

\* Mutant: the fallback is tried without asking its breaker.
FailoverUnasked(c) ==
    /\ call[c].pc = "failover"
    /\ breakers' = [breakers EXCEPT !["fallback"] = AfterCheck(@)]
    /\ call' = [call EXCEPT ![c] = [NoCall EXCEPT !.pc = "loop", !.at = "fallback",
                                                  !.left = call[c].left, !.phase = "call"]]
    /\ fallbackUsed' = TRUE
    /\ UNCHANGED totalTimeout

\* The fallback, unless the deadline is over (TotalTimeout) or the fallback's circuit is
\* open (the primary's error)
Failover(c) ==
    /\ call[c].pc = "failover"
    /\ \/ ~Expired(c) /\ AdmitAt(c, "fallback", call[c].left) /\ fallbackUsed' = TRUE
       \/ /\ Expired(c) \/ Rejects(breakers["fallback"])
          /\ call' = [call EXCEPT ![c] = NoCall]
          /\ UNCHANGED <<breakers, fallbackUsed>>
    /\ UNCHANGED totalTimeout

-----------------------------------------------------------------------------
Elapse ==
    LET less(n) == IF n > 0 THEN n - 1 ELSE 0
    IN /\ breakers' = [e \in Endpoints |-> Aged(breakers[e])]
       /\ call' = [c \in Calls |-> [call[c] EXCEPT !.left = less(@), !.sleep = less(@)]]
       /\ <<breakers', call'>> # <<breakers, call>>
       /\ UNCHANGED <<totalTimeout, fallbackUsed>>

\* A call in flight takes its next step.
Proceed(c) ==
    \/ Attempt(c) \/ Answer(c) \/ Expire(c) \/ Wake(c) \/ Settle(c) \/ Failover(c)
    \/ \E error \in Errors : Fail(c, error)
    \/ \E outcome \in {"ok", "transport", "fatal"} : Parse(c, outcome)

CallNext == Elapse \/ \E c \in Calls : Begin(c) \/ Proceed(c)

CallSpec == CallInit /\ [][CallNext]_call_vars

\* Time passes, a ready task is polled, and every attempt ends: the HTTP client has a
\* request timeout of its own.  Nobody is obliged to call.
FairCallSpec == CallSpec /\ WF_call_vars(Elapse) /\ \A c \in Calls : WF_call_vars(Proceed(c))

-----------------------------------------------------------------------------
\* Each breaker is used as its gate demands: a call asks once, runs, however many attempts
\* it takes, and gives one verdict, to the breaker of the endpoint it used.  What is shown
\* of CircuitBreaker therefore holds of both breakers of the client.
PhaseAt(e) == [c \in Calls |-> IF call[c].at = e THEN call[c].phase ELSE "idle"]

Primary == INSTANCE BreakerGate WITH Callers <- Calls, breaker <- breakers["primary"], phase <- PhaseAt("primary")
Fallback == INSTANCE BreakerGate WITH Callers <- Calls, breaker <- breakers["fallback"], phase <- PhaseAt("fallback")

ImplementsGates == Primary!GateSpec /\ Fallback!GateSpec

\* Every call returns: retries run out on each endpoint and the deadline ends the rest.
EveryCallReturns == \A c \in Calls : call[c].pc # "idle" ~> call[c].pc = "idle"
=============================================================================
