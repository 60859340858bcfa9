---------------------------- MODULE EstimateWatch -----------------------------
(***************************************************************************)
(* estimate --watch (src/src/main.rs, cmd_estimate_watch): the watched     *)
(* file is fingerprinted at every poll, a build is accepted once two polls *)
(* agree on it, and its estimate reads the file again.  Meanwhile a        *)
(* compiler removes, locks, half-writes and finishes the file.             *)
(***************************************************************************)
EXTENDS Naturals

CONSTANTS Builds,      \* complete contents, an optimiser's input and output included
          Partial,     \* contents that do not parse
          Missing, Locked,
          MaxWrites,   \* bound: steps of the compiler
          NoHash

Contents == Builds \union {Partial}

ASSUME EstimateWatchAssumption ==
    /\ MaxWrites \in Nat
    /\ {Missing, Locked, NoHash} \intersect Contents = {} /\ Partial \notin Builds
    /\ Missing # Locked

VARIABLES
    file,
    writes,
    loop,
    last_hash, pending_hash,   \* EstimateWatchState; a content stands for its hash
    last_total,                \* the build whose total is last_total_stroops
    build,
    loaded,      \* what estimate_once has read of the file
    \* History
    agreed,      \* the content the polls agree on, absent or unread files aside, and how many
    outcome,     \* what became of the accepted build
    overtaken    \* the file changed between its hash and its reading

state == <<last_hash, pending_hash, last_total, build>>
seen == <<agreed, outcome, overtaken>>
build_vars == <<file, writes, loop, state, loaded, seen>>

Outcomes == {"none", "reported", "failed", "unread"}
NoneAgreed == [content |-> NoHash, polls |-> 0]

BuildInit ==
    /\ file \in Contents \union {Missing, Locked}
    /\ writes = 0
    /\ loop = "start"
    /\ last_hash = NoHash /\ pending_hash = NoHash /\ last_total = NoHash /\ build = 0
    /\ loaded = NoHash
    /\ agreed = NoneAgreed /\ outcome = "none" /\ overtaken = FALSE

-----------------------------------------------------------------------------
\* The compiler, or whatever else writes the file
Write ==
    /\ writes < MaxWrites
    /\ writes' = writes + 1
    /\ file' \in (Contents \union {Missing, Locked}) \ {file}
    /\ overtaken' = (overtaken \/ loop = "load")
    /\ UNCHANGED <<loop, state, loaded, agreed, outcome>>

-----------------------------------------------------------------------------
Accept(content) ==
    /\ last_hash' = content
    /\ loop' = "load"
    /\ outcome' = "none" /\ overtaken' = FALSE

\* The baseline: the file is estimated as it is, if it can be read.
Baseline ==
    /\ loop = "start"
    /\ IF file \in Contents
       THEN Accept(file)
       ELSE loop' = "poll" /\ UNCHANGED <<last_hash, outcome, overtaken>>
    /\ UNCHANGED <<file, writes, pending_hash, last_total, build, loaded, agreed>>

\* Mutant: one poll is enough.
SettledAtOnce(content) == last_hash # content

\* settled_new_build_detected
Settled(content) == last_hash # content /\ pending_hash = content

\* Mutant: what a poll saw first is waited for, whatever replaced it.
PendingFirst(content) ==
    IF content \in {last_hash, pending_hash} THEN NoHash
    ELSE IF pending_hash = NoHash THEN content ELSE pending_hash

Pending(content) == IF content \in {last_hash, pending_hash} THEN NoHash ELSE content

Agree(content) ==
    agreed' = [content |-> content,
               polls |-> IF agreed.content = content /\ agreed.polls > 0 THEN 2 ELSE 1]

\* estimate_watch_poll_once, after whatever time the loop has slept
Poll ==
    /\ loop = "poll"
    /\ \/ /\ file = Missing
          /\ pending_hash' = NoHash
          /\ agreed' = NoneAgreed
          /\ UNCHANGED <<loop, last_hash, outcome, overtaken>>
       \/ file = Locked /\ UNCHANGED <<loop, last_hash, pending_hash, seen>>
       \/ /\ file \in Contents
          /\ Agree(file)
          /\ pending_hash' = Pending(file)
          /\ IF Settled(file) THEN Accept(file)
             ELSE UNCHANGED <<loop, last_hash, outcome, overtaken>>
    /\ UNCHANGED <<file, writes, last_total, build, loaded>>

Fail(how) ==
    /\ loop' = "poll"
    /\ outcome' = how
    /\ UNCHANGED <<last_total, build>>

\* estimate_once begins by reading the file
Load ==
    /\ loop = "load"
    /\ loaded' = file
    /\ IF file \in Builds THEN loop' = "simulate" /\ UNCHANGED <<last_total, build, outcome>>
                          ELSE Fail("unread")
    /\ UNCHANGED <<file, writes, last_hash, pending_hash, agreed, overtaken>>

\* emit_watch_estimate: the report and its header, with the change since the last total
Report ==
    /\ loop = "simulate"
    /\ \/ /\ build' = build + 1
          /\ last_total' = loaded
          /\ outcome' = "reported"
          /\ loop' = "poll"
       \/ Fail("failed")
    /\ UNCHANGED <<file, writes, last_hash, pending_hash, loaded, agreed, overtaken>>

\* The stop signal, awaited beside the sleep and the simulation
Stop ==
    /\ loop \in {"poll", "simulate"}
    /\ loop' = "stopped"
    /\ UNCHANGED <<file, writes, state, loaded, seen>>

-----------------------------------------------------------------------------
Work == Baseline \/ Poll \/ Load \/ Report

BuildNext == Write \/ Work \/ Stop

BuildSpec == BuildInit /\ [][BuildNext]_build_vars

\* The command takes its steps: the poll interval elapses, and a simulation ends in an answer
\* or in its timeout.
FairBuildSpec == BuildSpec /\ WF_build_vars(Work)

-----------------------------------------------------------------------------
\* "temporary partial writes during active compilation are ignored" (cmd_estimate_watch): past
\* the baseline, what is reported was there at two polls, with nothing else and no absence seen
\* between them, unless the file was written between its hash and its reading.
TransientOnlyByRace ==
    [][build' > build => \/ agreed = [content |-> last_total', polls |-> 2]
                         \/ agreed.polls = 0    \* the baseline
                         \/ overtaken]_build_vars

\* However it is removed, locked and half-written, a build the compiler leaves at last is
\* accepted, and simulated, unless it was written between its hash and its reading
\* (cmd_estimate_watch).
LastingBuildEstimated ==
    \A b \in Builds : <>[](file = b) =>
        <>[](loop = "stopped" \/ (last_hash = b /\ (outcome \in {"reported", "failed"} \/ overtaken)))
=============================================================================
