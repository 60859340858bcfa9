--------------------------- MODULE EstimateCommand ---------------------------
(***************************************************************************)
(* One run of estimate (src/src/main.rs: run, cmd_estimate, estimate_once, *)
(* cmd_estimate_repeat, cmd_estimate_diff, simulate_report): which of its  *)
(* flags rule out which, what it reads and writes of the cache, when it    *)
(* contacts the network and what it prints, while other processes change   *)
(* the cached estimate of the same invocation.  EstimateCache models the   *)
(* cache itself, EstimateWatch what follows --watch, and RpcCall a call.   *)
(***************************************************************************)
EXTENDS SimulateResponse, Integers, Sequences, SequencesExt

CONSTANTS Options,    \* the flags a run may be given
          Answers,    \* what an endpoint may answer
          MaxOthers   \* bound: changes by other processes

ASSUME EstimateAssumption ==
    /\ MaxOthers \in Nat
    /\ \A o \in Options :
          /\ o.repeat \in 1..100 /\ (o.diff => o.wasm_new)   \* clap's rules
          /\ o.wasm \in {"valid", "invalid"} /\ o.project \in {"none", "valid", "invalid"}
          /\ o.args \in {"valid", "invalid"} \/ (o.args = "invalid for the new" /\ o.diff)
    /\ \A a \in Answers :
          /\ Present(a.min_fee) => a.min_fee \in Int
          /\ Present(a.data) => a.data.fee \in Int

VARIABLES
    opt,
    row,         \* the estimate cached for the invocation, or Absent
    runs,        \* its history, oldest first
    others,
    pc,
    side,        \* --diff: the build that is simulated
    previous,    \* what --compare read
    history,     \* what --history read
    answers,     \* of simulateTransaction, so far
    report,      \* the report of the last answer, before it is printed
    saved,       \* what this run has saved, in order
    output,
    \* History
    contacted,   \* the network has been used
    replaced,    \* what the row and the runs were when this run saved its estimate
    overtaken    \* another process changed them after this run read them

locals == <<side, previous, history, answers, report>>
cache == <<row, runs>>
ghosts == <<contacted, replaced, overtaken>>
vars == <<opt, cache, others, pc, locals, saved, output, ghosts>>

Out(kind) == [kind |-> kind]
Row(fee, fresh) == [fee |-> fee, fresh |-> fresh]
HistoryLimit == 5   \* DEFAULT_HISTORY_LIMIT

Init ==
    /\ opt \in Options
    /\ row \in {Absent, Row(1, TRUE), Row(1, FALSE)}
    /\ runs = IF row = Absent THEN <<>> ELSE <<1>>
    /\ others = 0
    /\ pc = "start"
    /\ side = "old"
    /\ previous = Absent /\ history = Absent /\ answers = <<>> /\ report = Absent
    /\ saved = <<>> /\ output = Out("none")
    /\ contacted = FALSE /\ replaced = Absent /\ overtaken = FALSE

Ended == {"ok", "failed", "panicked", "watching"}

-----------------------------------------------------------------------------
\* Another process estimates the same invocation, or clears the cache
Other ==
    /\ others < MaxOthers
    /\ pc \notin Ended
    /\ others' = others + 1
    /\ \/ row' = Row(2, TRUE) /\ runs' = Append(runs, 2)
       \/ row' = Absent /\ runs' = <<>>
    /\ overtaken' = TRUE
    /\ UNCHANGED <<opt, pc, locals, saved, output, contacted, replaced>>

End(how, what) == pc' = how /\ output' = what
Fail == End("failed", output)
Goto(next) == pc' = next /\ UNCHANGED output

-----------------------------------------------------------------------------
\* cmd_estimate's order: an invalid --project, --wasm-new alone, --diff, --watch, --repeat
Dispatch ==
    /\ pc = "start"
    /\ IF opt.project = "invalid" \/ (opt.wasm_new /\ ~opt.diff) THEN Fail
       ELSE IF opt.diff THEN Goto("builds")
       ELSE IF opt.watch THEN End("watching", output)
       ELSE Goto("clear")
    /\ UNCHANGED <<opt, cache, others, locals, saved, ghosts>>

\* --clear-cache, before the file is looked at
Clear ==
    /\ pc = "clear"
    /\ \/ /\ Goto("builds")
          /\ IF opt.clear_cache THEN row' = Absent /\ runs' = <<>> ELSE UNCHANGED cache
       \/ opt.clear_cache /\ Fail /\ UNCHANGED cache     \* the cache is not accessible
    /\ UNCHANGED <<opt, others, locals, saved, ghosts>>

\* load_wasm, prompt_for_invocation, validate_wasm_limits; --diff loads both builds and looks
\* for the function in both
Builds ==
    /\ pc = "builds"
    /\ IF opt.wasm = "invalid" THEN Fail
       ELSE Goto(IF opt.diff THEN "prepare" ELSE "previous")
    /\ UNCHANGED <<opt, cache, others, locals, saved, ghosts>>

\* --compare; cmd_estimate_repeat ignores it
Previous ==
    /\ pc = "previous"
    /\ \/ /\ previous' = IF opt.compare /\ opt.repeat = 1 THEN row ELSE Absent
          /\ overtaken' = FALSE
          /\ Goto("lookup")
       \/ /\ opt.compare /\ opt.repeat = 1 /\ Fail         \* the cache is not accessible
          /\ UNCHANGED <<previous, overtaken>>
    /\ UNCHANGED <<opt, cache, others, side, history, answers, report, saved, contacted, replaced>>

\* fresh_cached_estimate: a TTL is always given, by the flag, config.toml or the default
Hit == ~opt.no_cache /\ row # Absent /\ row.fresh

\* The benchmark ends with the cached estimate, a single run goes on to --auto-snapshot
AfterHit == IF opt.repeat = 1 THEN "snapshot" ELSE "ok"

\* Mutant: --dry-run is only asked when the request is sent.
LookupForgetsDryRun ==
    /\ pc = "lookup"
    /\ \/ IF Hit THEN End(AfterHit, Out("cached")) ELSE Goto("prepare")
       \/ ~opt.no_cache /\ Fail
    /\ UNCHANGED <<opt, cache, others, locals, saved, ghosts>>

\* The printed row is the result, whatever else was asked for
Lookup ==
    /\ pc = "lookup"
    /\ \/ IF Hit THEN End(AfterHit, Out("cached")) ELSE Goto(IF opt.dry_run THEN "plan" ELSE "prepare")
       \/ ~opt.no_cache /\ Fail                           \* the cache is not accessible
    /\ UNCHANGED <<opt, cache, others, locals, saved, ghosts>>

\* validate_args_against_spec, for the build at hand
ArgsFit == opt.args = "valid" \/ (opt.args = "invalid for the new" /\ side = "old")

\* --dry-run prints the envelope, if it can be built and the arguments fit
Plan ==
    /\ pc = "plan"
    /\ (ArgsFit /\ End("ok", Out("plan"))) \/ Fail
    /\ UNCHANGED <<opt, cache, others, locals, saved, ghosts>>

\* The endpoint is resolved, the envelope built and the arguments validated; each may fail
Prepare ==
    /\ pc = "prepare"
    /\ (ArgsFit /\ Goto("health")) \/ Fail
    /\ UNCHANGED <<opt, cache, others, locals, saved, ghosts>>

Health ==
    /\ pc = "health"
    /\ contacted' = TRUE
    /\ Goto("simulate") \/ Fail
    /\ UNCHANGED <<opt, cache, others, locals, saved, replaced, overtaken>>

\* compute_fee_breakdown adds the base fee to the total it splits
WithBase(total) == IF total > 0 THEN total + 100 ELSE total

Report(answer) == [fee |-> WithBase(TotalFee(answer)), resources |-> Resources(answer), rated |-> FALSE]

\* The benchmark makes a report of its first answer, and a sample of each
AfterAnswer == IF answers = <<>> \/ opt.diff THEN "rates" ELSE "next"

\* simulateTransaction, and the report or the sample made of its answer
Simulate ==
    /\ pc = "simulate"
    /\ \/ \E answer \in Answers :
             IF Usable(answer)
             THEN /\ answers' = Append(answers, answer)
                  /\ report' = Report(answer)
                  /\ Goto(AfterAnswer)
             ELSE /\ IF Panics(answer) THEN End("panicked", output) ELSE Fail
                  /\ UNCHANGED <<answers, report>>
       \/ Fail /\ UNCHANGED <<answers, report>>       \* the call fails
    /\ UNCHANGED <<opt, cache, others, side, previous, history, saved, ghosts>>

\* fetch_config_cache, fee_rates_from_config: without the rates the total is the same, and the
\* split of it is announced as understated
Rates ==
    /\ pc = "rates"
    /\ \E rated \in BOOLEAN : report' = [report EXCEPT !.rated = rated]
    /\ Goto(IF ~opt.diff THEN "history" ELSE IF side = "old" THEN "new" ELSE "print")
    /\ UNCHANGED <<opt, cache, others, side, previous, history, answers, saved, ghosts>>

\* --diff: the other build
NewBuild ==
    /\ pc = "new"
    /\ side' = "new"
    /\ Goto("prepare")
    /\ UNCHANGED <<opt, cache, others, previous, history, answers, report, saved, ghosts>>

\* load_estimate_history
Newest(n) == SubSeq(Reverse(runs), 1, IF Len(runs) < n THEN Len(runs) ELSE n)

\* --history, before this run is saved
History ==
    /\ pc = "history"
    /\ \/ /\ opt.history /\ opt.repeat = 1
          /\ \/ history' = Newest(HistoryLimit) /\ Goto("save")
             \/ Fail /\ UNCHANGED history             \* the cache is not accessible
       \/ ~(opt.history /\ opt.repeat = 1) /\ Goto("save") /\ UNCHANGED history
    /\ UNCHANGED <<opt, cache, others, side, previous, answers, report, saved, ghosts>>

\* Unless --no-cache; an error is ignored.  With --repeat only the first answer is saved.
Save ==
    /\ pc = "save"
    /\ \/ /\ ~opt.no_cache
          /\ row' = Row(report.fee, TRUE)
          /\ runs' = Append(runs, report.fee)
          /\ saved' = Append(saved, report.fee)
          /\ replaced' = [row |-> row, runs |-> runs]
       \/ UNCHANGED <<cache, saved, replaced>>
    /\ Goto(IF opt.repeat = 1 THEN "print" ELSE "next")
    /\ UNCHANGED <<opt, others, locals, contacted, overtaken>>

\* The cross-run flags: each value is compared with the first
Identical(values) == \A i \in 1..Len(values) : values[i] = Head(values)

Fees == [i \in 1..Len(answers) |-> TotalFee(answers[i])]
Cpus == [i \in 1..Len(answers) |-> Resources(answers[i]).cpu]

\* print_repeat_summary
Summary == [kind |-> "summary", iterations |-> Len(answers), fee |-> Head(Fees),
            fee_identical |-> Identical(Fees), cpu_identical |-> Identical(Cpus)]

\* --repeat: another iteration, or the summary
NextIteration ==
    /\ pc = "next"
    /\ IF Len(answers) < opt.repeat THEN Goto("simulate")
       ELSE End("snapshot", Summary)
    /\ UNCHANGED <<opt, cache, others, locals, saved, ghosts>>

\* print_report_with_comparison
Comparison(baseline) == [kind |-> "report", report |-> report, baseline |-> baseline]

AfterReport == IF opt.diff THEN "ok" ELSE "snapshot"

\* Mutant: the previous estimate is looked up when it is shown.
RenderRereads ==
    /\ pc = "print"
    /\ End(AfterReport, Comparison(IF opt.compare THEN row ELSE Absent))
    /\ UNCHANGED <<opt, cache, others, locals, saved, ghosts>>

\* The report in the format asked for, or the difference of the two builds; a projection that
\* overflows ends the command
Render ==
    /\ pc = "print"
    /\ End(AfterReport, Comparison(previous)) \/ (opt.project = "valid" /\ Fail)
    /\ UNCHANGED <<opt, cache, others, locals, saved, ghosts>>

\* --auto-snapshot; its errors are warnings
AutoSnapshot ==
    /\ pc = "snapshot"
    /\ contacted' = (contacted \/ opt.auto_snapshot)
    /\ End("ok", output)
    /\ UNCHANGED <<opt, cache, others, locals, saved, replaced, overtaken>>

-----------------------------------------------------------------------------
Step ==
    \/ Dispatch \/ Clear \/ Builds \/ Previous \/ Lookup \/ Plan
    \/ Prepare \/ Health \/ Simulate \/ Rates \/ NewBuild
    \/ History \/ Save \/ NextIteration \/ Render \/ AutoSnapshot

Next == Step \/ Other

Spec == Init /\ [][Next]_vars

-----------------------------------------------------------------------------
\* The network is used only by a run that nothing local stops: valid files, projections and
\* arguments, of which --diff looks at the new build's too late (simulate_report); and not by
\* --dry-run, whose promise --diff does not know and --auto-snapshot breaks after a cache hit
\* (cmd_estimate).
ContactedWhenNeeded ==
    contacted =>
        /\ opt.wasm = "valid" /\ opt.project # "invalid"
        /\ opt.args = "valid" \/ (opt.args = "invalid for the new" /\ opt.diff)
                              \/ (output.kind = "cached" /\ opt.auto_snapshot)
        /\ opt.dry_run => opt.diff \/ (output.kind = "cached" /\ opt.auto_snapshot)

\* What a run leaves in the cache is the fee the endpoint gave in its first answer, with the base
\* fee, once, also when a later iteration fails; an answer counts as free only where it says so,
\* or where no field of it has a fee; and --no-cache neither answers from the cache nor writes to
\* it (estimate_once, cmd_estimate_repeat).
SavedIsAnswered ==
    /\ Len(saved) <= 1
    /\ saved # <<>> =>
          LET first == answers[1] IN
          /\ saved[1] = WithBase(TotalFee(first))
          /\ saved[1] = 0 => /\ Present(first.min_fee) => first.min_fee = 0
                             /\ Present(first.data) => 0 \in {first.data.fee, first.min_fee}
    /\ opt.no_cache \/ opt.diff => saved = <<>> /\ output.kind # "cached"

\* --compare shows the estimate this run replaces, and --history the runs before it, newest
\* first, unless another process came between (estimate_once: "before the simulation below
\* upserts this one away", "so the current run is not counted as its own history entry").
ComparedWithPredecessor ==
    replaced # Absent /\ ~overtaken =>
        /\ output.kind = "report" => output.baseline = IF opt.compare THEN replaced.row ELSE Absent
        /\ history # Absent => /\ Len(history) = (IF Len(replaced.runs) < HistoryLimit
                                                  THEN Len(replaced.runs) ELSE HistoryLimit)
                               /\ IsPrefix(history, Reverse(replaced.runs))
=============================================================================
