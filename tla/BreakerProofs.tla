---------------------------- MODULE BreakerProofs ----------------------------
(***************************************************************************)
(* The safety properties of CircuitBreaker, for every threshold, every     *)
(* cooldown and every finite set of callers; and that the client           *)
(* implements one BreakerGate for each endpoint, for any calls, retries,   *)
(* deadlines and backoffs, with or without a fallback.                     *)
(***************************************************************************)
EXTENDS CircuitBreaker, RpcCall, FiniteSetTheorems, TLAPS

USE BreakerAssumption, CallersAssumption DEF BreakerAssumption, CallersAssumption

-----------------------------------------------------------------------------
(* The operations of one breaker.                                          *)

\* Every operation maps a breaker state to a breaker state; in particular the failure
\* count stays below the threshold.
LEMMA OperationTypes ==
    /\ NewBreaker \in BreakerStates
    /\ Opened \in BreakerStates
    /\ \A b \in BreakerStates :
          /\ AfterCheck(b) \in BreakerStates
          /\ Aged(b) \in BreakerStates
          /\ \A o : Record(b, o) \in BreakerStates
<1>1. NewBreaker \in BreakerStates /\ Opened \in BreakerStates
  BY DEF NewBreaker, Opened, BreakerStates, FailureCounts, Enabled
<1>2. ASSUME NEW b \in BreakerStates
      PROVE  AfterCheck(b) \in BreakerStates
  <2>1. CASE StartsProbe(b)
    BY <2>1 DEF AfterCheck, BreakerStates
  <2>2. CASE ~StartsProbe(b)
    BY <2>2 DEF AfterCheck
  <2>3. QED
    BY <2>1, <2>2
<1>3. ASSUME NEW b \in BreakerStates
      PROVE  Aged(b) \in BreakerStates
  BY DEF Aged, BreakerStates
<1>4. ASSUME NEW b \in BreakerStates, NEW o
      PROVE  Record(b, o) \in BreakerStates
  <2>1. RecordSuccess(b) \in BreakerStates
    BY <1>1 DEF RecordSuccess
  <2>2. RecordFailure(b) \in BreakerStates
    BY <1>1 DEF RecordFailure, BreakerStates, FailureCounts, Enabled
  <2>3. QED
    BY <2>1, <2>2 DEF Record
<1>5. QED
  BY <1>1, <1>2, <1>3, <1>4

\* should_reject leaves the circuit alone unless it starts a probe, which it does only
\* in an open circuit whose cooldown is over.
LEMMA CheckEffect ==
    ASSUME NEW b \in BreakerStates, ~Rejects(b)
    PROVE  \/ /\ StartsProbe(b)
              /\ Enabled
              /\ b.state = "open"
              /\ b.elapsed = Cooldown
              /\ AfterCheck(b).state = "half_open"
           \/ /\ ~StartsProbe(b)
              /\ AfterCheck(b) = b
              /\ Enabled => b.state = "closed"
BY DEF StartsProbe, Rejects, AfterCheck, BreakerStates

\* What recording an outcome does, case by case.
LEMMA RecordEffect ==
    ASSUME NEW b \in BreakerStates
    PROVE  /\ Enabled => Record(b, "ok") = NewBreaker
           /\ ~Enabled => \A o \in Outcomes : Record(b, o) = b
           /\ Record(b, "other") = b
           /\ Enabled => \/ Record(b, "transport") = Opened
                         \/ /\ Record(b, "transport").state = b.state
                            /\ Record(b, "transport").elapsed = b.elapsed
                            /\ Record(b, "transport").failures = b.failures + 1
                            /\ b.failures + 1 < FailureThreshold
                            /\ b.state # "half_open"
           /\ Enabled /\ b.state = "closed" /\ Record(b, "transport").state = "open"
                => b.failures + 1 >= FailureThreshold
BY DEF Record, RecordSuccess, RecordFailure, NewBreaker, Opened, Outcomes,
       BreakerStates, FailureCounts, Enabled

\* The clock changes the age of an open circuit and nothing else.
LEMMA AgedEffect ==
    ASSUME NEW b \in BreakerStates
    PROVE  /\ Aged(b).state = b.state
           /\ Aged(b).failures = b.failures
           /\ b.state # "open" => Aged(b) = b
           /\ b.state = "open" => Aged(b).elapsed = IF b.elapsed < Cooldown
                                                    THEN b.elapsed + 1 ELSE b.elapsed
BY DEF Aged, BreakerStates

-----------------------------------------------------------------------------
(* Type correctness.                                                       *)

LEMMA InitTypeOK == Init => TypeOK
<1>1. NewBreaker \in BreakerStates
  BY OperationTypes
<1>2. Init => lost \in BOOLEAN
  BY Zenon DEF Init
<1>3. Init => /\ phase \in [Callers -> Phases]
              /\ sinceProbe \in 0..Cooldown
              /\ streak \in 0..FailureThreshold
              /\ wasted \in Nat
  BY DEF Init, GateInit, Phases
<1>4. QED
  BY <1>1, <1>2, <1>3 DEF Init, TypeOK, GateInit

LEMMA NextTypeOK == TypeOK /\ [Next]_vars => TypeOK'
<1> SUFFICES ASSUME TypeOK, [Next]_vars PROVE TypeOK'
  OBVIOUS
<1> USE DEF TypeOK, Phases
<1>1. ASSUME NEW c \in Callers, Admit(c) PROVE TypeOK'
  <2>1. AfterCheck(breaker) \in BreakerStates
    BY OperationTypes
  <2>2. phase' \in [Callers -> Phases]
    BY <1>1 DEF Admit, Enter
  <2>3. sinceProbe' \in 0..Cooldown
    BY <1>1 DEF Admit
  <2>4. lost' \in BOOLEAN
    BY <1>1, Zenon DEF Admit
  <2>5. QED
    BY <1>1, <2>1, <2>2, <2>3, <2>4 DEF Admit, Enter
<1>2. ASSUME NEW c \in Callers, NEW o \in Outcomes, Finish(c, o) PROVE TypeOK'
  BY <1>2, OperationTypes DEF Finish, Leave
<1>3. CASE Tick
  BY <1>3, OperationTypes DEF Tick, Pass
<1>4. CASE UNCHANGED vars
  BY <1>4 DEF vars
<1>5. QED
  BY <1>1, <1>2, <1>3, <1>4 DEF Next

\* Every variable keeps its type; the breaker's failure count never reaches the
\* threshold, because reaching it opens the circuit and resets it (record_failure).
THEOREM TypeCorrect == Spec => []TypeOK
BY InitTypeOK, NextTypeOK, PTL DEF Spec

-----------------------------------------------------------------------------
(* The inductive invariant.                                                *)

Ordinary == {c \in Callers : phase[c] = "call"}

\* The cooldown of an open circuit began no earlier than the last probe.
OpenSinceProbe == breaker.state = "open" => breaker.elapsed <= sinceProbe

\* In a closed circuit the counter is the streak: nothing stale is counted.
CountIsStreak == Enabled /\ breaker.state = "closed" => breaker.failures = streak

\* Closed, every wasted call is on the counter; otherwise no ordinary call is admitted,
\* so each one wasted was in flight when the circuit opened.
WastedAccounted ==
    /\ Enabled /\ breaker.state = "closed" => wasted <= breaker.failures
    /\ Enabled /\ breaker.state # "closed"
          => wasted + Cardinality(Ordinary) <= FailureThreshold - 1 + Cardinality(Callers)

IInv == /\ TypeOK
        /\ DisabledNeverOpens
        /\ StrandedOnlyWithoutVerdict
        /\ OpenSinceProbe
        /\ CountIsStreak
        /\ WastedAccounted

LEMMA OrdinaryFinite ==
    /\ IsFiniteSet(Ordinary)
    /\ Cardinality(Ordinary) \in Nat
    /\ Cardinality(Callers) \in Nat
    /\ Cardinality(Ordinary) <= Cardinality(Callers)
BY FS_Subset, FS_CardinalityType DEF Ordinary

LEMMA InitIInv == Init => IInv
BY InitTypeOK DEF Init, IInv, DisabledNeverOpens, StrandedOnlyWithoutVerdict,
   OpenSinceProbe, CountIsStreak, WastedAccounted, NewBreaker, GateInit

\* A caller's admission and return change the set of ordinary calls by that caller.
LEMMA OrdinaryEffect ==
    ASSUME TypeOK, NEW c \in Callers
    PROVE  /\ phase' = [phase EXCEPT ![c] = "probe"] /\ phase[c] = "idle" => Ordinary' = Ordinary
           /\ phase' = [phase EXCEPT ![c] = "idle"] => Ordinary' = Ordinary \ {c}
           /\ phase' = [phase EXCEPT ![c] = "idle"] /\ phase[c] = "call"
                => Cardinality(Ordinary') = Cardinality(Ordinary) - 1
           /\ phase' = [phase EXCEPT ![c] = "idle"] /\ phase[c] # "call"
                => Ordinary' = Ordinary
<1>1. phase' = [phase EXCEPT ![c] = "idle"] => Ordinary' = Ordinary \ {c}
  BY DEF TypeOK, Ordinary
<1>2. phase[c] = "call" => c \in Ordinary
  BY DEF Ordinary
<1>3. phase[c] # "call" => c \notin Ordinary
  BY DEF Ordinary
<1>4. Cardinality(Ordinary \ {c}) = IF c \in Ordinary THEN Cardinality(Ordinary) - 1
                                                      ELSE Cardinality(Ordinary)
  BY OrdinaryFinite, FS_RemoveElement
<1>5. phase' = [phase EXCEPT ![c] = "probe"] /\ phase[c] = "idle" => Ordinary' = Ordinary
  BY DEF TypeOK, Ordinary
<1>6. c \notin Ordinary => Ordinary \ {c} = Ordinary
  OBVIOUS
<1>7. QED
  BY <1>1, <1>2, <1>3, <1>4, <1>5, <1>6

LEMMA AdmitIInv ==
    ASSUME IInv, NEW c \in Callers, Admit(c)
    PROVE  IInv'
<1> USE DEF IInv
<1>1. TypeOK'
  BY NextTypeOK DEF Next
<1>2. breaker \in BreakerStates
  BY DEF TypeOK
<1>3. CASE StartsProbe(breaker)
  <2>1. /\ Enabled /\ breaker.state = "open" /\ breaker'.state = "half_open"
        /\ phase' = [phase EXCEPT ![c] = "probe"] /\ phase[c] = "idle"
        /\ UNCHANGED <<streak, wasted>>
    BY <1>2, <1>3, CheckEffect DEF Admit, Enter
  <2>2. Ordinary' = Ordinary
    BY <2>1, OrdinaryEffect
  <2>3. phase'[c] = "probe"
    BY <2>1 DEF TypeOK
  <2>4. QED
    BY <1>1, <2>1, <2>2, <2>3 DEF DisabledNeverOpens, StrandedOnlyWithoutVerdict,
       OpenSinceProbe, CountIsStreak, WastedAccounted
<1>4. CASE ~StartsProbe(breaker)
  <2>1. /\ breaker' = breaker
        /\ Enabled => breaker.state = "closed"
        /\ UNCHANGED <<streak, wasted, sinceProbe, lost>>
    BY <1>2, <1>4, CheckEffect DEF Admit, Enter
  <2>2. breaker.state = "closed"
    BY <2>1 DEF DisabledNeverOpens, NewBreaker
  <2>3. QED
    BY <1>1, <2>1, <2>2 DEF DisabledNeverOpens, StrandedOnlyWithoutVerdict,
       OpenSinceProbe, CountIsStreak, WastedAccounted
<1>5. QED
  BY <1>3, <1>4

LEMMA FinishIInv ==
    ASSUME IInv, NEW c \in Callers, NEW o \in Outcomes, Finish(c, o)
    PROVE  IInv'
<1> USE DEF IInv
<1>1. TypeOK'
  BY NextTypeOK DEF Next
<1>2. breaker \in BreakerStates
  BY DEF TypeOK
<1>3. breaker' = Record(breaker, o) /\ breaker' \in BreakerStates
  BY <1>1 DEF Finish, TypeOK, Leave
<1>4. CASE ~Enabled
  <2>1. breaker' = NewBreaker
    BY <1>2, <1>3, <1>4, RecordEffect DEF DisabledNeverOpens
  <2>2. QED
    BY <1>1, <1>4, <2>1 DEF DisabledNeverOpens, StrandedOnlyWithoutVerdict,
       OpenSinceProbe, CountIsStreak, WastedAccounted, NewBreaker
<1>5. CASE Enabled /\ o = "ok"
  <2>1. breaker' = NewBreaker /\ streak' = 0 /\ wasted' = 0
    BY <1>2, <1>3, <1>5, RecordEffect DEF Finish
  <2>2. QED
    BY <1>1, <1>5, <2>1 DEF DisabledNeverOpens, StrandedOnlyWithoutVerdict,
       OpenSinceProbe, CountIsStreak, WastedAccounted, NewBreaker
<1>6. CASE Enabled /\ o = "transport"
  <2> DEFINE stays == /\ breaker'.state = breaker.state
                      /\ breaker'.elapsed = breaker.elapsed
                      /\ breaker'.failures = breaker.failures + 1
                      /\ breaker.failures + 1 < FailureThreshold
                      /\ breaker.state # "half_open"
  <2>1. breaker' = Opened \/ stays
    BY <1>2, <1>3, <1>6, RecordEffect
  <2>2. /\ sinceProbe' = sinceProbe
        /\ streak' = IF streak < FailureThreshold THEN streak + 1 ELSE streak
        /\ wasted' = IF phase[c] = "call" THEN wasted + 1 ELSE wasted
        /\ phase' = [phase EXCEPT ![c] = "idle"]
    BY <1>6 DEF Finish, Leave
  <2>3. wasted' + Cardinality(Ordinary') = wasted + Cardinality(Ordinary)
    <3>1. wasted \in Nat /\ Cardinality(Ordinary) \in Nat
      BY OrdinaryFinite DEF TypeOK
    <3>2. CASE phase[c] = "call"
      <4>1. Cardinality(Ordinary') = Cardinality(Ordinary) - 1
        BY <2>2, <3>2, OrdinaryEffect
      <4>2. wasted' = wasted + 1
        BY <2>2, <3>2
      <4>3. QED
        BY <3>1, <4>1, <4>2
    <3>3. CASE phase[c] # "call"
      BY <2>2, <3>3, OrdinaryEffect
    <3>4. QED
      BY <3>2, <3>3
  <2>4. /\ breaker.failures \in Nat /\ breaker.failures <= FailureThreshold - 1
        /\ wasted \in Nat /\ streak \in Nat /\ sinceProbe \in Nat
        /\ wasted' \in Nat
    BY <1>1, <1>2, <1>6 DEF BreakerStates, FailureCounts, TypeOK
  <2>5. wasted + Cardinality(Ordinary) <= FailureThreshold - 1 + Cardinality(Callers)
    BY <1>6, <2>4, OrdinaryFinite DEF WastedAccounted
  <2>6. breaker'.state # "half_open"
    BY <2>1 DEF Opened
  <2>7. OpenSinceProbe'
    BY <2>1, <2>2, <2>4 DEF OpenSinceProbe, Opened
  <2>8. CountIsStreak'
    BY <1>6, <2>1, <2>2, <2>4 DEF CountIsStreak, Opened
  <2>9. WastedAccounted'
    <3>1. Enabled /\ breaker'.state = "closed" => wasted' <= breaker'.failures
      BY <2>1, <2>2, <2>4 DEF WastedAccounted, Opened
    <3>2. wasted' + Cardinality(Ordinary') <= FailureThreshold - 1 + Cardinality(Callers)
      BY <2>3, <2>5
    <3>3. QED
      BY <3>1, <3>2 DEF WastedAccounted
  <2>10. QED
    BY <1>1, <1>6, <2>6, <2>7, <2>8, <2>9 DEF DisabledNeverOpens, StrandedOnlyWithoutVerdict
<1>7. CASE Enabled /\ o = "other"
  <2>1. /\ breaker' = breaker /\ UNCHANGED <<sinceProbe, streak, wasted>>
        /\ phase' = [phase EXCEPT ![c] = "idle"]
    BY <1>2, <1>3, <1>7, RecordEffect DEF Finish, Leave
  <2>2. Cardinality(Ordinary') <= Cardinality(Ordinary)
    <3>1. CASE phase[c] = "call"
      <4>1. Cardinality(Ordinary') = Cardinality(Ordinary) - 1
        BY <2>1, <3>1, OrdinaryEffect
      <4>2. QED
        BY <4>1, OrdinaryFinite
    <3>2. CASE phase[c] # "call"
      <4>1. Ordinary' = Ordinary
        BY <2>1, <3>2, OrdinaryEffect
      <4>2. QED
        BY <4>1, OrdinaryFinite
    <3>3. QED
      BY <3>1, <3>2
  <2>3. StrandedOnlyWithoutVerdict'
    <3>1. breaker.state = "half_open" /\ ~lost' => ~lost /\ phase[c] # "probe"
      BY <1>7, <2>1 DEF Finish, TypeOK
    <3>2. QED
      BY <2>1, <3>1 DEF StrandedOnlyWithoutVerdict, TypeOK
  <2>4. Cardinality(Ordinary') \in Nat /\ Cardinality(Callers) \in Nat
    BY <2>1, OrdinaryEffect, OrdinaryFinite, FS_Subset, FS_CardinalityType
  <2>5. WastedAccounted'
    BY <2>1, <2>2, <2>4, OrdinaryFinite DEF WastedAccounted, TypeOK
  <2>6. QED
    BY <1>1, <1>7, <2>1, <2>3, <2>5 DEF DisabledNeverOpens, OpenSinceProbe, CountIsStreak
<1>8. QED
  BY <1>4, <1>5, <1>6, <1>7 DEF Outcomes

LEMMA TickIInv == IInv /\ Tick => IInv'
<1> SUFFICES ASSUME IInv, Tick PROVE IInv'
  OBVIOUS
<1> USE DEF IInv
<1>1. TypeOK'
  BY NextTypeOK DEF Next
<1>2. breaker \in BreakerStates /\ breaker' = Aged(breaker)
  BY DEF TypeOK, Tick, Pass
<1>3. /\ breaker'.state = breaker.state /\ breaker'.failures = breaker.failures
      /\ UNCHANGED <<phase, streak, wasted, lost, Ordinary>>
  BY <1>2, AgedEffect DEF Tick, Ordinary, Pass
<1>4. OpenSinceProbe'
  BY <1>2, <1>3, AgedEffect DEF OpenSinceProbe, Tick, TypeOK, BreakerStates
<1>5. DisabledNeverOpens'
  BY <1>2, AgedEffect DEF DisabledNeverOpens, NewBreaker
<1>6. QED
  BY <1>1, <1>3, <1>4, <1>5 DEF StrandedOnlyWithoutVerdict, CountIsStreak, WastedAccounted

LEMMA NextIInv == IInv /\ [Next]_vars => IInv'
<1> SUFFICES ASSUME IInv, [Next]_vars PROVE IInv'
  OBVIOUS
<1>1. CASE Next
  BY <1>1, AdmitIInv, FinishIInv, TickIInv DEF Next
<1>2. CASE UNCHANGED vars
  BY <1>2 DEF vars, IInv, TypeOK, DisabledNeverOpens, StrandedOnlyWithoutVerdict,
     OpenSinceProbe, CountIsStreak, WastedAccounted, Ordinary
<1>3. QED
  BY <1>1, <1>2

LEMMA Invariance == Spec => []IInv
BY InitIInv, NextIInv, PTL DEF Spec

-----------------------------------------------------------------------------
(* The properties.                                                         *)

\* An endpoint that answers nothing costs a bounded number of ordinary calls.
THEOREM WastedBounded == Spec => []WastedCallsBounded
<1>1. IInv => WastedCallsBounded
  BY OrdinaryFinite DEF IInv, WastedAccounted, WastedCallsBounded, TypeOK, BreakerStates,
     FailureCounts
<1>2. QED
  BY <1>1, Invariance, PTL

\* A half-open circuit with no probe in flight lost its probe's verdict.
THEOREM StrandedReason == Spec => []StrandedOnlyWithoutVerdict
BY Invariance, PTL DEF IInv

\* A breaker with threshold 0 stays closed and empty.
THEOREM DisabledBreaker == Spec => []DisabledNeverOpens
BY Invariance, PTL DEF IInv

\* Probes are at least a cooldown apart.
THEOREM ProbeSpacing == Spec => ProbesAreSpaced
<1> DEFINE Spaced == \A c \in Callers : phase[c] # "probe" /\ phase'[c] = "probe"
                                          => sinceProbe = Cooldown
<1>1. IInv /\ [Next]_vars => [Spaced]_vars
  <2> SUFFICES ASSUME IInv, Next, NEW c \in Callers,
                      phase[c] # "probe", phase'[c] = "probe"
               PROVE  sinceProbe = Cooldown
    OBVIOUS
  <2>1. PICK d \in Callers : Admit(d) /\ StartsProbe(breaker)
    BY DEF Next, Admit, Finish, Tick, IInv, TypeOK, Enter, Leave, Pass
  <2>2. breaker.state = "open" /\ breaker.elapsed = Cooldown
    BY <2>1, CheckEffect DEF Admit, IInv, TypeOK, Enter
  <2>3. QED
    BY <2>2 DEF IInv, OpenSinceProbe, TypeOK
<1>2. QED
  BY <1>1, Invariance, PTL DEF Spec, ProbesAreSpaced

\* A closed circuit opens only on a streak of failures of the threshold's length.
THEOREM OpeningNeedsStreak == Spec => OpensOnlyAfterStreak
<1> DEFINE Earned == breaker.state = "closed" /\ breaker'.state = "open"
                       => streak' = FailureThreshold
<1>1. IInv /\ [Next]_vars => [Earned]_vars
  <2> SUFFICES ASSUME IInv, Next, breaker.state = "closed", breaker'.state = "open"
               PROVE  streak' = FailureThreshold
    OBVIOUS
  <2>1. breaker \in BreakerStates /\ streak \in 0..FailureThreshold
    BY DEF IInv, TypeOK
  <2>2. PICK c \in Callers, o \in Outcomes : Finish(c, o)
    BY <2>1, CheckEffect, AgedEffect DEF Next, Admit, Tick, Enter, Pass
  <2>3. Enabled /\ o = "transport"
    BY <2>1, <2>2, RecordEffect DEF Finish, NewBreaker, Outcomes, Leave
  <2>4. breaker.failures + 1 >= FailureThreshold
    BY <2>1, <2>2, <2>3, RecordEffect DEF Finish, Leave
  <2>5. breaker.failures = streak
    BY <2>3 DEF IInv, CountIsStreak
  <2>6. streak' = IF streak < FailureThreshold THEN streak + 1 ELSE streak
    BY <2>2, <2>3 DEF Finish
  <2>7. QED
    BY <2>1, <2>4, <2>5, <2>6
<1>2. QED
  BY <1>1, Invariance, PTL DEF Spec, OpensOnlyAfterStreak

HIDE DEF BreakerAssumption, CallersAssumption

-----------------------------------------------------------------------------
(***************************************************************************)
(* The client's calls.  A step of the client is, for each endpoint, a step *)
(* of its gate or none at all; what relates them is that a call has a      *)
(* phase exactly while one of its posts is under way.                      *)
(***************************************************************************)

Posting == {"loop", "sending", "body", "backoff", "drain", "record"}
PostOutcomes == {"none", "ok", "deadline"} \union Errors

CallRecords == [pc : {"idle", "failover"} \union Posting, at : Endpoints, phase : Phases, attempts : Nat,
          left : Nat, sleep : Nat, outcome : PostOutcomes]

CallTypeOK ==
    /\ totalTimeout \in TotalTimeouts
    /\ breakers \in [Endpoints -> BreakerStates]
    /\ call \in [Calls -> CallRecords]
    /\ fallbackUsed \in BOOLEAN

\* A call holds a place at its endpoint's gate exactly while it posts, and fails over from the
\* primary only.
PhaseWhilePosting ==
    \A c \in Calls :
        /\ call[c].phase # "idle" <=> call[c].pc \in Posting
        /\ call[c].pc = "failover" => call[c].at = "primary"

CallInv == CallTypeOK /\ PhaseWhilePosting

-----------------------------------------------------------------------------
\* What happens at the gate of endpoint e
Entered(e, c) ==
    /\ PhaseAt(e)[c] = "idle"
    /\ ~Rejects(breakers[e])
    /\ breakers'[e] = AfterCheck(breakers[e])
    /\ PhaseAt(e)' = [PhaseAt(e) EXCEPT ![c] = IF StartsProbe(breakers[e]) THEN "probe" ELSE "call"]

Left(e, c, outcome) ==
    /\ PhaseAt(e)[c] # "idle"
    /\ breakers'[e] = Record(breakers[e], outcome)
    /\ PhaseAt(e)' = [PhaseAt(e) EXCEPT ![c] = "idle"]

Passed(e) == breakers'[e] = Aged(breakers[e]) /\ PhaseAt(e)' = PhaseAt(e)

Untouched(e) == breakers'[e] = breakers[e] /\ PhaseAt(e)' = PhaseAt(e)

GateStep(e) ==
    \/ \E c \in Calls : Entered(e, c)
    \/ \E c \in Calls, outcome \in Outcomes : Left(e, c, outcome)
    \/ Passed(e)
    \/ Untouched(e)

GateSteps == GateStep("primary") /\ GateStep("fallback")

-----------------------------------------------------------------------------
LEMMA NoCallType == NoCall \in CallRecords
BY DEF NoCall, CallRecords, Endpoints, Phases, PostOutcomes

LEMMA VerdictType == \A outcome : Verdict(outcome) \in Outcomes
BY DEF Verdict, Outcomes

LEMMA CallInitInv == CallInit => CallInv
<1> SUFFICES ASSUME CallInit PROVE CallInv
  OBVIOUS
<1>1. CallTypeOK
  BY OperationTypes, NoCallType DEF CallInit, CallTypeOK
<1>2. PhaseWhilePosting
  BY DEF CallInit, PhaseWhilePosting, NoCall, Posting
<1> QED
  BY <1>1, <1>2 DEF CallInv

-----------------------------------------------------------------------------
\* Steps inside a post: neither a breaker nor a phase is concerned.
LEMMA GotoKeeps ==
    ASSUME CallInv, NEW c \in Calls, call[c].pc \in Posting, NEW new \in CallRecords,
           new.pc \in Posting, new.phase = call[c].phase, new.at = call[c].at,
           call' = [call EXCEPT ![c] = new],
           UNCHANGED <<totalTimeout, breakers, fallbackUsed>>
    PROVE  CallInv' /\ GateSteps
<1>1. CallTypeOK'
  BY DEF CallInv, CallTypeOK
<1>2. PhaseWhilePosting'
  BY DEF CallInv, CallTypeOK, PhaseWhilePosting, Posting
<1>3. ASSUME NEW e PROVE PhaseAt(e)' = PhaseAt(e)
  BY DEF PhaseAt, CallInv, CallTypeOK
<1>4. Untouched("primary") /\ Untouched("fallback")
  BY <1>3 DEF Untouched
<1> QED
  BY <1>1, <1>2, <1>4 DEF CallInv, GateSteps, GateStep

LEMMA InsideKeeps ==
    ASSUME CallInv, NEW c \in Calls,
           \/ Attempt(c) \/ Answer(c) \/ Expire(c) \/ Wake(c)
           \/ \E error \in Errors : Fail(c, error)
           \/ \E outcome \in {"ok", "transport", "fatal"} : Parse(c, outcome)
    PROVE  CallInv' /\ GateSteps
<1> DEFINE Moves(new) == /\ new \in CallRecords
                         /\ new.pc \in Posting /\ new.phase = call[c].phase /\ new.at = call[c].at
                         /\ call' = [call EXCEPT ![c] = new]
<1>1. call[c] \in CallRecords
  BY DEF CallInv, CallTypeOK
<1>2. call[c].pc \in Posting /\ UNCHANGED <<totalTimeout, breakers, fallbackUsed>>
  BY DEF Attempt, Answer, Expire, Wake, Fail, Parse, Posting
<1>3. ASSUME NEW label \in Posting, Goto(c, label) PROVE \E new : Moves(new)
  <2> DEFINE new == [call[c] EXCEPT !.pc = label]
  <2>1. Moves(new)
    BY <1>1, <1>3 DEF Goto, CallRecords
  <2> QED
    BY <2>1
<1>4. ASSUME NEW outcome \in PostOutcomes, Conclude(c, outcome) PROVE \E new : Moves(new)
  <2> DEFINE new == [call[c] EXCEPT !.pc = "record", !.outcome = outcome]
  <2>1. Moves(new)
    BY <1>1, <1>4 DEF Conclude, CallRecords, Posting
  <2> QED
    BY <2>1
<1>5. ASSUME BackOff(c) PROVE \E new : Moves(new)
  <2>1. PICK d \in Delays : IF totalTimeout > 0 /\ d >= call[c].left THEN Goto(c, "drain")
                            ELSE call' = [call EXCEPT ![c].pc = "backoff", ![c].sleep = d]
    BY <1>5 DEF BackOff
  <2> DEFINE new == [call[c] EXCEPT !.pc = "backoff", !.sleep = d]
  <2>2. CASE call' = [call EXCEPT ![c].pc = "backoff", ![c].sleep = d]
    <3>1. d \in Nat
      BY RpcCallAssumption
    <3>2. Moves(new)
      BY <1>1, <2>2, <3>1 DEF CallRecords, Posting
    <3> QED
      BY <3>2
  <2> QED
    BY <1>3, <2>1, <2>2 DEF Posting
<1>6. ASSUME Wake(c) PROVE \E new : Moves(new)
  <2> DEFINE new == [call[c] EXCEPT !.pc = "loop", !.attempts = @ + 1]
  <2>1. call[c].attempts + 1 \in Nat
    BY <1>1 DEF CallRecords
  <2>2. new \in CallRecords /\ new.pc \in Posting /\ new.phase = call[c].phase /\ new.at = call[c].at
    BY <1>1, <2>1 DEF CallRecords, Posting
  <2>3. call' = [call EXCEPT ![c] = new]
    BY <1>6, <1>1 DEF Wake, CallInv, CallTypeOK
  <2> QED
    BY <2>2, <2>3
<1>7. \E new : Moves(new)
  <2> USE DEF Posting, PostOutcomes, Errors
  <2>1. CASE Attempt(c)
    BY <1>3, <1>4, <2>1 DEF Attempt
  <2>2. CASE Answer(c)
    BY <1>3, <2>2 DEF Answer
  <2>3. CASE Expire(c)
    BY <1>4, <2>3 DEF Expire
  <2>4. CASE \E error \in Errors : Fail(c, error)
    BY <1>4, <1>5, <2>4 DEF Fail
  <2>5. CASE \E outcome \in {"ok", "transport", "fatal"} : Parse(c, outcome)
    BY <1>4, <2>5 DEF Parse
  <2> QED
    BY <1>6, <2>1, <2>2, <2>3, <2>4, <2>5
<1> QED
  BY <1>2, <1>7, GotoKeeps

-----------------------------------------------------------------------------
\* A call that a gate admits: what Begin and Failover have in common
LEMMA AdmitEnters ==
    ASSUME CallInv, NEW c \in Calls, NEW e \in Endpoints, NEW left \in Nat,
           call[c].phase = "idle", AdmitAt(c, e, left)
    PROVE  /\ breakers' \in [Endpoints -> BreakerStates]
           /\ call' \in [Calls -> CallRecords]
           /\ PhaseWhilePosting'
           /\ GateSteps
<1> DEFINE admitted == IF StartsProbe(breakers[e]) THEN "probe" ELSE "call"
           new == [NoCall EXCEPT !.pc = "loop", !.at = e, !.left = left, !.phase = admitted]
<1>1. new \in CallRecords /\ call' = [call EXCEPT ![c] = new]
  BY DEF AdmitAt, NoCall, CallRecords, Posting, Phases, PostOutcomes
<1>2. call' \in [Calls -> CallRecords]
  BY <1>1 DEF CallInv, CallTypeOK
<1>3. breakers' \in [Endpoints -> BreakerStates]
  BY OperationTypes DEF AdmitAt, CallInv, CallTypeOK
<1>4. PhaseWhilePosting'
  BY <1>1 DEF CallInv, CallTypeOK, PhaseWhilePosting, NoCall, Posting
<1>5. Entered(e, c)
  <2>1. PhaseAt(e)[c] = "idle"
    BY DEF PhaseAt
  <2>2. PhaseAt(e)' = [PhaseAt(e) EXCEPT ![c] = admitted]
    BY <1>1 DEF PhaseAt, CallInv, CallTypeOK, NoCall
  <2> QED
    BY <2>1, <2>2 DEF Entered, AdmitAt, CallInv, CallTypeOK
<1>6. ASSUME NEW o \in Endpoints \ {e} PROVE Untouched(o)
  <2>1. PhaseAt(o)' = PhaseAt(o)
    BY <1>1, <1>6 DEF PhaseAt, CallInv, CallTypeOK, NoCall
  <2> QED
    BY <1>6, <2>1 DEF Untouched, AdmitAt, CallInv, CallTypeOK
<1> QED
  BY <1>2, <1>3, <1>4, <1>5, <1>6 DEF GateSteps, GateStep, Endpoints

LEMMA BeginKeeps == ASSUME CallInv, NEW c \in Calls, Begin(c) PROVE CallInv' /\ GateSteps
<1>1. call[c].phase = "idle"
  BY DEF Begin, CallInv, PhaseWhilePosting, Posting
<1>2. totalTimeout \in Nat /\ totalTimeout' = totalTimeout /\ fallbackUsed' = fallbackUsed
  BY RpcCallAssumption DEF Begin, CallInv, CallTypeOK
<1>3. AdmitAt(c, "primary", totalTimeout) /\ "primary" \in Endpoints
  BY DEF Begin, Endpoints
<1> QED
  BY <1>1, <1>2, <1>3, AdmitEnters DEF CallInv, CallTypeOK

\* A call that leaves no phase behind, its breaker aside
LEMMA DropKeeps ==
    ASSUME CallInv, NEW c \in Calls, NEW new \in CallRecords, call' = [call EXCEPT ![c] = new],
           new.phase = "idle", new.pc \notin Posting, new.pc = "failover" => new.at = "primary"
    PROVE  /\ call' \in [Calls -> CallRecords]
           /\ PhaseWhilePosting'
           /\ \A e : PhaseAt(e)' = [PhaseAt(e) EXCEPT ![c] = "idle"]
<1>1. call' \in [Calls -> CallRecords]
  BY DEF CallInv, CallTypeOK
<1>2. PhaseWhilePosting'
  BY DEF CallInv, CallTypeOK, PhaseWhilePosting
<1>3. ASSUME NEW e PROVE PhaseAt(e)' = [PhaseAt(e) EXCEPT ![c] = "idle"]
  BY DEF PhaseAt, CallInv, CallTypeOK
<1> QED
  BY <1>1, <1>2, <1>3

LEMMA SettleKeeps == ASSUME CallInv, NEW c \in Calls, Settle(c) PROVE CallInv' /\ GateSteps
<1> DEFINE at == call[c].at
           verdict == Verdict(call[c].outcome)
           new == IF at = "primary" /\ call[c].outcome = "transport" /\ HasFallback
                  THEN [call[c] EXCEPT !.pc = "failover", !.phase = "idle"] ELSE NoCall
<1>1. call[c] \in CallRecords /\ call[c].phase # "idle" /\ at \in Endpoints
  BY DEF Settle, CallInv, CallTypeOK, PhaseWhilePosting, Posting, CallRecords
<1>2. new \in CallRecords /\ new.phase = "idle" /\ new.pc \notin Posting /\ (new.pc = "failover" => new.at = "primary")
  BY <1>1, NoCallType DEF NoCall, CallRecords, Posting, Phases
<1>3. call' = [call EXCEPT ![c] = new]
  BY DEF Settle, CallInv, CallTypeOK
<1>4. /\ call' \in [Calls -> CallRecords] /\ PhaseWhilePosting'
      /\ \A e : PhaseAt(e)' = [PhaseAt(e) EXCEPT ![c] = "idle"]
  BY <1>2, <1>3, DropKeeps
<1>5. breakers' = [breakers EXCEPT ![at] = Record(breakers[at], verdict)]
  BY DEF Settle
<1>6. CallInv'
  <2>1. breakers' \in [Endpoints -> BreakerStates]
    BY <1>1, <1>5, OperationTypes DEF CallInv, CallTypeOK
  <2> QED
    BY <1>4, <2>1 DEF Settle, CallInv, CallTypeOK
<1>7. ASSUME NEW e \in Endpoints, e = at PROVE Left(e, c, verdict)
  <2>1. PhaseAt(e)[c] # "idle"
    BY <1>1, <1>7 DEF PhaseAt
  <2>2. breakers'[e] = Record(breakers[e], verdict)
    BY <1>1, <1>5, <1>7 DEF CallInv, CallTypeOK
  <2>3. PhaseAt(e)' = [PhaseAt(e) EXCEPT ![c] = "idle"]
    BY <1>4
  <2> HIDE DEF verdict
  <2> QED
    BY <2>1, <2>2, <2>3 DEF Left
<1>8. ASSUME NEW e \in Endpoints, e # at PROVE Untouched(e)
  <2>1. PhaseAt(e)[c] = "idle"
    BY <1>8 DEF PhaseAt
  <2>2. PhaseAt(e)' = PhaseAt(e)
    BY <1>4, <2>1 DEF PhaseAt
  <2> QED
    BY <1>5, <1>8, <2>2 DEF Untouched, CallInv, CallTypeOK
<1>9. ASSUME NEW e \in Endpoints PROVE GateStep(e)
  BY <1>7, <1>8, VerdictType DEF GateStep
<1> QED
  BY <1>6, <1>9 DEF GateSteps, Endpoints

LEMMA FailoverKeeps == ASSUME CallInv, NEW c \in Calls, Failover(c) PROVE CallInv' /\ GateSteps
<1>1. call[c].phase = "idle" /\ call[c].left \in Nat
  BY DEF Failover, CallInv, CallTypeOK, PhaseWhilePosting, Posting, CallRecords
<1>2. CASE AdmitAt(c, "fallback", call[c].left) /\ fallbackUsed' = TRUE
  <2>1. "fallback" \in Endpoints /\ totalTimeout' = totalTimeout
    BY DEF Endpoints, Failover
  <2> QED
    BY <1>1, <1>2, <2>1, AdmitEnters DEF CallInv, CallTypeOK
<1>3. CASE call' = [call EXCEPT ![c] = NoCall] /\ UNCHANGED <<breakers, fallbackUsed>>
  <2>1. /\ call' \in [Calls -> CallRecords] /\ PhaseWhilePosting'
        /\ \A e : PhaseAt(e)' = [PhaseAt(e) EXCEPT ![c] = "idle"]
    BY <1>3, NoCallType, DropKeeps DEF NoCall, Posting
  <2>2. ASSUME NEW e PROVE PhaseAt(e)' = PhaseAt(e)
    BY <1>1, <2>1 DEF PhaseAt
  <2>3. Untouched("primary") /\ Untouched("fallback")
    BY <1>3, <2>2 DEF Untouched
  <2> QED
    BY <1>3, <2>1, <2>3 DEF Failover, CallInv, CallTypeOK, GateSteps, GateStep
<1> QED
  BY <1>2, <1>3 DEF Failover

LEMMA ElapseKeeps == ASSUME CallInv, Elapse PROVE CallInv' /\ GateSteps
<1> DEFINE less(n) == IF n > 0 THEN n - 1 ELSE 0
<1>1. \A n \in Nat : less(n) \in Nat
  OBVIOUS
<1>2. ASSUME NEW c \in Calls
      PROVE  /\ call'[c] \in CallRecords
             /\ call'[c].pc = call[c].pc /\ call'[c].phase = call[c].phase /\ call'[c].at = call[c].at
  <2>1. call'[c] = [call[c] EXCEPT !.left = less(call[c].left), !.sleep = less(call[c].sleep)]
    BY DEF Elapse
  <2>2. less(call[c].left) \in Nat /\ less(call[c].sleep) \in Nat
    BY <1>1 DEF CallInv, CallTypeOK, CallRecords
  <2>3. call[c] \in CallRecords
    BY DEF CallInv, CallTypeOK
  <2> HIDE DEF less
  <2> QED
    BY <2>1, <2>2, <2>3 DEF CallRecords
<1>3. call' \in [Calls -> CallRecords]
  BY <1>2 DEF Elapse
<1>4. breakers' \in [Endpoints -> BreakerStates]
  BY OperationTypes DEF Elapse, CallInv, CallTypeOK
<1>5. PhaseWhilePosting'
  BY <1>2 DEF CallInv, PhaseWhilePosting
<1>6. ASSUME NEW e PROVE PhaseAt(e)' = PhaseAt(e)
  BY <1>2 DEF PhaseAt
<1>7. Passed("primary") /\ Passed("fallback")
  BY <1>6 DEF Passed, Elapse, Endpoints
<1> QED
  BY <1>3, <1>4, <1>5, <1>7 DEF Elapse, CallInv, CallTypeOK, GateSteps, GateStep

LEMMA CallStepKeeps == ASSUME CallInv, [CallNext]_call_vars PROVE CallInv' /\ GateSteps
<1>1. CASE UNCHANGED call_vars
  <2>1. CallInv'
    BY <1>1 DEF call_vars, CallInv, CallTypeOK, PhaseWhilePosting
  <2>2. ASSUME NEW e PROVE PhaseAt(e)' = PhaseAt(e)
    BY <1>1 DEF PhaseAt, call_vars
  <2>3. Untouched("primary") /\ Untouched("fallback")
    BY <1>1, <2>2 DEF Untouched, call_vars
  <2> QED
    BY <2>1, <2>3 DEF GateSteps, GateStep
<1>2. CASE \E c \in Calls : Begin(c)
  BY <1>2, BeginKeeps
<1>3. CASE \E c \in Calls : Proceed(c)
  BY <1>3, InsideKeeps, SettleKeeps, FailoverKeeps DEF Proceed
<1> QED
  BY <1>1, <1>2, <1>3, ElapseKeeps DEF CallNext

\* A call has a phase exactly while it posts, and every step is one of each gate
\* (perform_call).
THEOREM CallInvariant == CallSpec => []CallInv
BY CallInitInv, CallStepKeeps, PTL DEF CallSpec

-----------------------------------------------------------------------------
LEMMA PrimaryInit == CallInit => Primary!GateInit
BY DEF CallInit, Primary!GateInit, PhaseAt, NoCall, Endpoints, NewBreaker, Primary!NewBreaker

LEMMA PrimaryStep == GateStep("primary") => [Primary!GateNext]_<<breakers["primary"], PhaseAt("primary")>>
BY DEF GateStep, Entered, Left, Passed, Untouched,
    Primary!GateNext, Primary!Enter, Primary!Leave, Primary!Pass, Primary!Outcomes, Outcomes,
    Primary!Rejects, Rejects, Primary!AfterCheck, AfterCheck, Primary!StartsProbe, StartsProbe,
    Primary!Enabled, Enabled, Primary!Record, Record, Primary!RecordSuccess, RecordSuccess,
    Primary!RecordFailure, RecordFailure, Primary!NewBreaker, NewBreaker, Primary!Opened, Opened,
    Primary!Aged, Aged

LEMMA FallbackInit == CallInit => Fallback!GateInit
BY DEF CallInit, Fallback!GateInit, PhaseAt, NoCall, Endpoints, NewBreaker, Fallback!NewBreaker

LEMMA FallbackStep == GateStep("fallback") => [Fallback!GateNext]_<<breakers["fallback"], PhaseAt("fallback")>>
BY DEF GateStep, Entered, Left, Passed, Untouched,
    Fallback!GateNext, Fallback!Enter, Fallback!Leave, Fallback!Pass, Fallback!Outcomes, Outcomes,
    Fallback!Rejects, Rejects, Fallback!AfterCheck, AfterCheck, Fallback!StartsProbe, StartsProbe,
    Fallback!Enabled, Enabled, Fallback!Record, Record, Fallback!RecordSuccess, RecordSuccess,
    Fallback!RecordFailure, RecordFailure, Fallback!NewBreaker, NewBreaker, Fallback!Opened, Opened,
    Fallback!Aged, Aged

\* Through retries, deadlines and failover each endpoint's breaker is asked once for each post,
\* told once, and never by a call it rejected (perform_call, post_and_parse).
THEOREM GatesHold == CallSpec => ImplementsGates
<1>1. CallInv /\ [CallNext]_call_vars => [Primary!GateNext]_<<breakers["primary"], PhaseAt("primary")>>
  BY CallStepKeeps, PrimaryStep DEF GateSteps
<1>2. CallInv /\ [CallNext]_call_vars => [Fallback!GateNext]_<<breakers["fallback"], PhaseAt("fallback")>>
  BY CallStepKeeps, FallbackStep DEF GateSteps
<1> QED
  BY <1>1, <1>2, PrimaryInit, FallbackInit, CallInvariant, PTL
  DEF CallSpec, ImplementsGates, Primary!GateSpec, Fallback!GateSpec
=============================================================================
