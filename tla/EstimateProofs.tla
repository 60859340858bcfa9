--------------------------- MODULE EstimateProofs ----------------------------
(***************************************************************************)
(* What one run of estimate promises, for any flags, any answers, any      *)
(* number of iterations and any changes by other processes: what is done   *)
(* before the network is used, what is left in the cache, and what is      *)
(* shown beside the report.                                                *)
(***************************************************************************)
EXTENDS EstimateCommand, CostReport, OrderedProofs

\* Where a run can be: before it reads the cache, at the cache, after the cache has not
\* answered, and at its end.
Opening == {"start", "clear", "builds"}
AtTheCache == {"previous", "lookup", "plan"}
Estimating == {"prepare", "health", "simulate", "rates", "new", "history", "save", "next", "print"}
Places == Opening \union AtTheCache \union Estimating \union {"snapshot"} \union Ended

TypeOK ==
    /\ opt \in Options
    /\ pc \in Places
    /\ side \in {"old", "new"}
    /\ answers \in Seq(Answers)
    /\ saved \in Seq(Int)
    /\ runs \in Seq(Int)
    /\ contacted \in BOOLEAN /\ overtaken \in BOOLEAN

\* What keeps a run from the network is decided where the code decides it.
DryRunAllows == opt.dry_run => opt.diff
ArgsAllow == opt.args = "valid" \/ (opt.args = "invalid for the new" /\ opt.diff)

CheckedInOrder ==
    /\ pc \in AtTheCache \union Estimating \union {"snapshot"} =>
          opt.wasm = "valid" /\ opt.project # "invalid"
    /\ pc \in {"clear", "builds"} => opt.project # "invalid"
    /\ pc \in Estimating => DryRunAllows
    /\ pc \in Estimating \ {"prepare"} => ArgsAllow

\* Nothing is sent from where the cache is read, and what is printed is printed last.
SentLate ==
    /\ pc \in Opening \union AtTheCache => ~contacted
    /\ pc \in Estimating \ {"prepare", "health"} => contacted
    /\ pc \in Opening \union AtTheCache \union Estimating => output.kind = "none"
    /\ pc = "snapshot" => contacted \/ output.kind = "cached"

\* --diff goes its own way, past the cache.
DiffApart ==
    /\ opt.diff => pc \notin AtTheCache \union {"clear", "history", "save", "next"}
    /\ pc = "new" => opt.diff
    /\ pc = "print" => opt.diff \/ opt.repeat = 1

\* Only the first answer becomes a report that is saved.
FirstReported ==
    /\ answers # <<>>
    /\ \E r \in BOOLEAN : report = [fee |-> WithBase(TotalFee(answers[1])),
                                  resources |-> Resources(answers[1]), rated |-> r]

SavedLast ==
    /\ pc \in Opening \union AtTheCache \union {"prepare", "health", "rates", "history", "save"} => saved = <<>>
    /\ ~opt.diff /\ pc \in Opening \union AtTheCache \union {"prepare", "health"} => answers = <<>>
    /\ ~opt.diff /\ pc \in {"rates", "history", "save"} => FirstReported
    /\ saved # <<>> => answers # <<>>

\* What --compare and --history show of a row and its runs
Baseline(r) == IF opt.compare /\ opt.repeat = 1 THEN r ELSE Absent
NewestOf(s, n) == SubSeq(Reverse(s), 1, IF Len(s) < n THEN Len(s) ELSE n)

\* Until this run saves, what it has read is what there is, unless overtaken ...
ReadIsCurrent ==
    /\ pc \in Opening \union {"previous"} => history = Absent
    /\ ~overtaken /\ ~opt.diff /\ saved = <<>> =>
          /\ pc \notin Opening \union {"previous"} => pc \in Ended \/ previous = Baseline(row)
          /\ history # Absent => history = NewestOf(runs, HistoryLimit)

\* ... and then what it has replaced.
ReadIsReplaced ==
    /\ replaced # Absent => saved # <<>> /\ replaced.runs \in Seq(Int)
    /\ replaced # Absent /\ ~overtaken =>
          /\ previous = Baseline(replaced.row)
          /\ history # Absent => history = NewestOf(replaced.runs, HistoryLimit)

ReportShowsRead ==
    output.kind = "report" => output.baseline = previous /\ (opt.diff \/ opt.repeat = 1)

Contacting == CheckedInOrder /\ SentLate /\ DiffApart /\ ContactedWhenNeeded
Saving == SavedLast /\ SavedIsAnswered
Comparing == ReadIsCurrent /\ ReadIsReplaced /\ ReportShowsRead

Inv == TypeOK /\ Contacting /\ Saving /\ Comparing

-----------------------------------------------------------------------------
USE DEF Opening, AtTheCache, Estimating, Ended, locals, cache, ghosts, End, Fail, Goto

LEMMA FirstOfAppended ==
    ASSUME NEW S, NEW s \in Seq(S), NEW e \in S
    PROVE  /\ Append(s, e) \in Seq(S) /\ Append(s, e) # <<>> /\ Len(Append(s, e)) = Len(s) + 1
           /\ Append(s, e)[1] = IF s = <<>> THEN e ELSE s[1]
<1>1. Append(s, e) \in Seq(S) /\ Len(Append(s, e)) = Len(s) + 1
  OBVIOUS
<1>2. Append(s, e) # <<>>
  BY <1>1, EmptySeq, LenProperties
<1>3. CASE s = <<>>
  BY <1>1, <1>2, <1>3
<1>4. CASE s # <<>>
  BY <1>1, <1>2, <1>4
<1> QED
  BY <1>3, <1>4

LEMMA InitInv == Init => Inv
<1> SUFFICES ASSUME Init PROVE Inv
  OBVIOUS
<1>1. TypeOK
  <2>1. runs \in Seq(Int)
    BY DEF Init
  <2> QED
    BY <2>1, EmptySeq DEF Init, TypeOK, Places
<1>2. Contacting
  BY DEF Init, Contacting, CheckedInOrder, SentLate, DiffApart, ContactedWhenNeeded, Out
<1>3. Saving
  BY DEF Init, Saving, SavedLast, SavedIsAnswered, Out
<1>4. Comparing
  BY DEF Init, Comparing, ReadIsCurrent, ReadIsReplaced, ReportShowsRead, Out
<1> QED
  BY <1>1, <1>2, <1>3, <1>4 DEF Inv

LEMMA OtherKeeps == Inv /\ Other => Inv'
<1> SUFFICES ASSUME Inv, Other PROVE Inv'
  OBVIOUS
<1> USE DEF Inv, Other
<1>1. TypeOK'
  <2>1. runs' \in Seq(Int)
    <3>1. Append(runs, 2) \in Seq(Int)
      BY FirstOfAppended DEF TypeOK
    <3> QED
      BY <3>1, EmptySeq
  <2> QED
    BY <2>1 DEF TypeOK, Places
<1>2. Contacting'
  BY DEF Contacting, CheckedInOrder, SentLate, DiffApart, ContactedWhenNeeded, DryRunAllows,
    ArgsAllow
<1>3. Saving'
  BY DEF Saving, SavedLast, FirstReported, SavedIsAnswered
<1>4. Comparing'
  BY DEF Comparing, ReadIsCurrent, ReadIsReplaced, ReportShowsRead
<1> QED
  BY <1>1, <1>2, <1>3, <1>4

LEMMA DispatchKeeps == Inv /\ Dispatch => Inv'
<1> SUFFICES ASSUME Inv, Dispatch PROVE Inv'
  OBVIOUS
<1> USE DEF Inv, Dispatch
<1>1. TypeOK'
  BY DEF TypeOK, Places
<1>2. Contacting'
  BY DEF Contacting, CheckedInOrder, SentLate, DiffApart, ContactedWhenNeeded
<1>3. Saving'
  BY DEF Saving, SavedLast, SavedIsAnswered
<1>4. Comparing'
  BY DEF Comparing, ReadIsCurrent, Baseline, ReadIsReplaced, ReportShowsRead
<1> QED
  BY <1>1, <1>2, <1>3, <1>4

LEMMA ClearKeeps == Inv /\ Clear => Inv'
<1> SUFFICES ASSUME Inv, Clear PROVE Inv'
  OBVIOUS
<1> USE DEF Inv, Clear
<1>1. TypeOK'
  <2>1. runs' \in Seq(Int)
    BY EmptySeq DEF TypeOK
  <2> QED
    BY <2>1 DEF TypeOK, Places
<1>2. Contacting'
  BY DEF Contacting, CheckedInOrder, SentLate, DiffApart, ContactedWhenNeeded
<1>3. Saving'
  BY DEF Saving, SavedLast, SavedIsAnswered
<1>4. Comparing'
  BY DEF Comparing, ReadIsCurrent, Baseline, ReadIsReplaced, ReportShowsRead
<1> QED
  BY <1>1, <1>2, <1>3, <1>4

LEMMA BuildsKeeps == Inv /\ Builds => Inv'
<1> SUFFICES ASSUME Inv, Builds PROVE Inv'
  OBVIOUS
<1> USE DEF Inv, Builds
<1>1. TypeOK'
  BY DEF TypeOK, Places
<1>2. Contacting'
  BY EstimateAssumption DEF TypeOK, Contacting, CheckedInOrder, SentLate, DiffApart,
    ContactedWhenNeeded, DryRunAllows
<1>3. Saving'
  BY DEF Saving, SavedLast, SavedIsAnswered
<1>4. Comparing'
  BY DEF Comparing, ReadIsCurrent, Baseline, ReadIsReplaced, ReportShowsRead
<1> QED
  BY <1>1, <1>2, <1>3, <1>4

LEMMA PreviousKeeps == Inv /\ Previous => Inv'
<1> SUFFICES ASSUME Inv, Previous PROVE Inv'
  OBVIOUS
<1> USE DEF Inv, Previous
<1>1. TypeOK'
  BY DEF TypeOK, Places
<1>2. Contacting'
  BY DEF Contacting, CheckedInOrder, SentLate, DiffApart, ContactedWhenNeeded
<1>3. Saving'
  BY DEF Saving, SavedLast, SavedIsAnswered
<1>4. Comparing'
  BY DEF Contacting, SentLate, Saving, SavedLast, Comparing, ReadIsCurrent, Baseline,
    ReadIsReplaced, ReportShowsRead
<1> QED
  BY <1>1, <1>2, <1>3, <1>4

LEMMA LookupKeeps == Inv /\ Lookup => Inv'
<1> SUFFICES ASSUME Inv, Lookup PROVE Inv'
  OBVIOUS
<1> USE DEF Inv, Lookup
<1>0. \/ pc' \in {"snapshot", "ok"} /\ output'.kind = "cached" /\ ~opt.no_cache
      \/ pc' = "plan" /\ output' = output
      \/ pc' = "prepare" /\ output' = output /\ ~opt.dry_run
      \/ pc' = "failed" /\ output' = output
  BY DEF Hit, AfterHit, Out
<1>1. TypeOK'
  BY <1>0 DEF TypeOK, Places
<1>2. Contacting'
  BY <1>0 DEF Contacting, CheckedInOrder, SentLate, DiffApart, ContactedWhenNeeded, DryRunAllows
<1>3. Saving'
  BY <1>0 DEF Contacting, DiffApart, Saving, SavedLast, SavedIsAnswered
<1>4. Comparing'
  BY <1>0 DEF Comparing, ReadIsCurrent, Baseline, ReadIsReplaced, ReportShowsRead
<1> QED
  BY <1>1, <1>2, <1>3, <1>4

LEMMA PlanKeeps == Inv /\ Plan => Inv'
<1> SUFFICES ASSUME Inv, Plan PROVE Inv'
  OBVIOUS
<1> USE DEF Inv, Plan
<1>0. \/ pc' = "ok" /\ output'.kind = "plan"
      \/ pc' = "failed" /\ output' = output
  BY DEF Out
<1>1. TypeOK'
  BY <1>0 DEF TypeOK, Places
<1>2. Contacting'
  BY <1>0 DEF Contacting, CheckedInOrder, SentLate, DiffApart, ContactedWhenNeeded
<1>3. Saving'
  BY <1>0 DEF Saving, SavedLast, SavedIsAnswered
<1>4. Comparing'
  BY <1>0 DEF Comparing, ReadIsCurrent, Baseline, ReadIsReplaced, ReportShowsRead
<1> QED
  BY <1>1, <1>2, <1>3, <1>4

LEMMA PrepareKeeps == Inv /\ Prepare => Inv'
<1> SUFFICES ASSUME Inv, Prepare PROVE Inv'
  OBVIOUS
<1> USE DEF Inv, Prepare, ArgsFit
<1>1. TypeOK'
  BY DEF TypeOK, Places
<1>2. Contacting'
  BY EstimateAssumption DEF TypeOK, Contacting, CheckedInOrder, SentLate, DiffApart,
    ContactedWhenNeeded, DryRunAllows, ArgsAllow
<1>3. Saving'
  BY DEF Saving, SavedLast, SavedIsAnswered
<1>4. Comparing'
  BY DEF Comparing, ReadIsCurrent, Baseline, ReadIsReplaced, ReportShowsRead
<1> QED
  BY <1>1, <1>2, <1>3, <1>4

LEMMA HealthKeeps == Inv /\ Health => Inv'
<1> SUFFICES ASSUME Inv, Health PROVE Inv'
  OBVIOUS
<1> USE DEF Inv, Health
<1>1. TypeOK'
  BY DEF TypeOK, Places
<1>2. Contacting'
  BY DEF Contacting, CheckedInOrder, SentLate, DiffApart, ContactedWhenNeeded, DryRunAllows,
    ArgsAllow
<1>3. Saving'
  BY DEF Saving, SavedLast, SavedIsAnswered
<1>4. Comparing'
  BY DEF Comparing, ReadIsCurrent, Baseline, ReadIsReplaced, ReportShowsRead
<1> QED
  BY <1>1, <1>2, <1>3, <1>4

LEMMA SimulateKeeps == Inv /\ Simulate => Inv'
<1> SUFFICES ASSUME Inv, Simulate PROVE Inv'
  OBVIOUS
<1> USE DEF Inv, Simulate, AfterAnswer
<1>1. TypeOK'
  <2>1. answers' \in Seq(Answers)
    <3>1. \A answer \in Answers : Append(answers, answer) \in Seq(Answers)
      BY FirstOfAppended DEF TypeOK
    <3> QED
      BY <3>1 DEF TypeOK
  <2>2. pc' \in Places
    BY DEF AfterAnswer, Places
  <2> QED
    BY <2>1, <2>2 DEF TypeOK
<1>2. Contacting'
  BY DEF Contacting, CheckedInOrder, SentLate, DiffApart, ContactedWhenNeeded, DryRunAllows,
    ArgsAllow
<1>3. Saving'
  <2>1. CASE UNCHANGED <<answers, report>>
    BY <2>1 DEF Saving, SavedLast, SavedIsAnswered
  <2>2. ASSUME NEW answer \in Answers, answers' = Append(answers, answer), report' = Report(answer), Goto(AfterAnswer)
        PROVE  Saving'
    <3>1. answers' # <<>> /\ answers'[1] = IF answers = <<>> THEN answer ELSE answers[1]
      <4>1. /\ Append(answers, answer) # <<>>
            /\ Append(answers, answer)[1] = IF answers = <<>> THEN answer ELSE answers[1]
        BY FirstOfAppended DEF TypeOK
      <4> QED
        BY <2>2, <4>1
    <3>2. pc' = "rates" /\ ~opt.diff => FirstReported'
      BY <2>2, <3>1 DEF FirstReported, Report
    <3>3. pc' = "rates" /\ ~opt.diff => saved = <<>>
      BY <2>2 DEF Saving, SavedLast
    <3> QED
      BY <2>2, <3>1, <3>2, <3>3 DEF Saving, SavedLast, SavedIsAnswered
  <2> QED
    BY <2>1, <2>2
<1>4. Comparing'
  BY DEF Comparing, ReadIsCurrent, Baseline, ReadIsReplaced, ReportShowsRead
<1> QED
  BY <1>1, <1>2, <1>3, <1>4

LEMMA RatesKeeps == Inv /\ Rates => Inv'
<1> SUFFICES ASSUME Inv, Rates PROVE Inv'
  OBVIOUS
<1> USE DEF Inv, Rates
<1>1. TypeOK'
  BY DEF TypeOK, Places
<1>2. Contacting'
  BY DEF Contacting, CheckedInOrder, SentLate, DiffApart, ContactedWhenNeeded, DryRunAllows,
    ArgsAllow
<1>3. Saving'
  BY DEF Contacting, SentLate, Saving, SavedLast, FirstReported, SavedIsAnswered
<1>4. Comparing'
  BY DEF Comparing, ReadIsCurrent, Baseline, ReadIsReplaced, ReportShowsRead
<1> QED
  BY <1>1, <1>2, <1>3, <1>4

LEMMA NewBuildKeeps == Inv /\ NewBuild => Inv'
<1> SUFFICES ASSUME Inv, NewBuild PROVE Inv'
  OBVIOUS
<1> USE DEF Inv, NewBuild
<1>1. TypeOK'
  BY DEF TypeOK, Places
<1>2. Contacting'
  BY DEF Contacting, CheckedInOrder, SentLate, DiffApart, ContactedWhenNeeded, DryRunAllows
<1>3. Saving'
  BY DEF Contacting, DiffApart, Saving, SavedLast, SavedIsAnswered
<1>4. Comparing'
  BY DEF Comparing, ReadIsCurrent, Baseline, ReadIsReplaced, ReportShowsRead
<1> QED
  BY <1>1, <1>2, <1>3, <1>4

LEMMA HistoryKeeps == Inv /\ History => Inv'
<1> SUFFICES ASSUME Inv, History PROVE Inv'
  OBVIOUS
<1> USE DEF Inv, History, Newest, NewestOf
<1>1. TypeOK'
  BY DEF TypeOK, Places
<1>2. Contacting'
  BY DEF Contacting, CheckedInOrder, SentLate, DiffApart, ContactedWhenNeeded, DryRunAllows,
    ArgsAllow
<1>3. Saving'
  BY DEF Saving, SavedLast, FirstReported, SavedIsAnswered
<1>4. Comparing'
  BY DEF Saving, SavedLast, Comparing, ReadIsCurrent, Baseline, ReadIsReplaced, ReportShowsRead
<1> QED
  BY <1>1, <1>2, <1>3, <1>4

\* The fee of an answer is a number, and none only where the answer says so, or has none.
LEMMA FeeOfAnswer ==
    ASSUME NEW a \in Answers
    PROVE  /\ WithBase(TotalFee(a)) \in Int
           /\ WithBase(TotalFee(a)) = 0 =>
                 /\ Present(a.min_fee) => a.min_fee = 0
                 /\ Present(a.data) => 0 \in {a.data.fee, a.min_fee}
<1>1. TotalFee(a) \in Int
  <2>1. (Present(a.min_fee) => a.min_fee \in Int) /\ (Present(a.data) => a.data.fee \in Int)
    BY EstimateAssumption
  <2> QED
    BY <2>1 DEF TotalFee
<1>2. WithBase(TotalFee(a)) = 0 => TotalFee(a) = 0
  BY <1>1 DEF WithBase
<1>3. TotalFee(a) = 0 => /\ Present(a.min_fee) => a.min_fee = 0
                         /\ Present(a.data) => 0 \in {a.data.fee, a.min_fee}
  BY DEF TotalFee
<1> QED
  BY <1>1, <1>2, <1>3 DEF WithBase

LEMMA ReportedFee ==
    ASSUME TypeOK, FirstReported
    PROVE  answers[1] \in Answers /\ report.fee = WithBase(TotalFee(answers[1])) /\ report.fee \in Int
<1>1. answers[1] \in Answers
  BY DEF TypeOK, FirstReported
<1>2. report.fee = WithBase(TotalFee(answers[1]))
  BY DEF FirstReported, Report
<1> QED
  BY <1>1, <1>2, FeeOfAnswer

LEMMA SaveKeeps == Inv /\ Save => Inv'
<1> SUFFICES ASSUME Inv, Save PROVE Inv'
  OBVIOUS
<1> USE DEF Inv, Save
<1>1. ~opt.diff /\ saved = <<>> /\ answers # <<>>
  BY DEF Contacting, DiffApart, Saving, SavedLast, FirstReported
<1>2. /\ answers[1] \in Answers /\ report.fee = WithBase(TotalFee(answers[1])) /\ report.fee \in Int
  BY <1>1, ReportedFee DEF Saving, SavedLast
<1>3. CASE /\ ~opt.no_cache
           /\ row' = Row(report.fee, TRUE)
           /\ runs' = Append(runs, report.fee)
           /\ saved' = Append(saved, report.fee)
           /\ replaced' = [row |-> row, runs |-> runs]
  <2>1. /\ saved' \in Seq(Int) /\ runs' \in Seq(Int)
        /\ saved' # <<>> /\ Len(saved') = 1 /\ saved'[1] = report.fee
    <3>1. Append(saved, report.fee) \in Seq(Int) /\ Append(runs, report.fee) \in Seq(Int)
      BY <1>2, FirstOfAppended DEF TypeOK
    <3>2. /\ Append(saved, report.fee) # <<>> /\ Len(Append(saved, report.fee)) = 1
          /\ Append(saved, report.fee)[1] = report.fee
      BY <1>1, <1>2, FirstOfAppended
    <3> QED
      BY <1>3, <3>1, <3>2
  <2>2. TypeOK'
    BY <2>1 DEF TypeOK, Places
  <2>3. Contacting'
    BY DEF Contacting, CheckedInOrder, SentLate, DiffApart, ContactedWhenNeeded, DryRunAllows,
      ArgsAllow
  <2>4. SavedIsAnswered'
    BY <1>1, <1>2, <1>3, <2>1, FeeOfAnswer DEF SavedIsAnswered
  <2>5. SavedLast'
    BY <1>1 DEF SavedLast
  <2>6. replaced'.row = row /\ replaced'.runs = runs
    BY <1>3
  <2>7. Comparing'
    BY <1>1, <2>1, <2>6 DEF TypeOK, Comparing, ReadIsCurrent, Baseline, ReadIsReplaced,
      ReportShowsRead
  <2> QED
    BY <2>2, <2>3, <2>4, <2>5, <2>7 DEF Saving
<1>4. CASE UNCHANGED <<cache, saved, replaced>>
  <2>1. TypeOK'
    BY <1>4 DEF TypeOK, Places
  <2>2. Contacting'
    BY DEF Contacting, CheckedInOrder, SentLate, DiffApart, ContactedWhenNeeded, DryRunAllows,
      ArgsAllow
  <2>3. Saving'
    BY <1>1, <1>4 DEF Saving, SavedLast, SavedIsAnswered
  <2>4. Comparing'
    BY <1>1, <1>4 DEF Comparing, ReadIsCurrent, Baseline, ReadIsReplaced, ReportShowsRead
  <2> QED
    BY <2>1, <2>2, <2>3, <2>4
<1> QED
  BY <1>3, <1>4

LEMMA NextIterationKeeps == Inv /\ NextIteration => Inv'
<1> SUFFICES ASSUME Inv, NextIteration PROVE Inv'
  OBVIOUS
<1> USE DEF Inv, NextIteration
<1>0. \/ pc' = "simulate" /\ output' = output
      \/ pc' = "snapshot" /\ output'.kind = "summary"
  BY DEF Summary
<1>1. TypeOK'
  BY <1>0 DEF TypeOK, Places
<1>2. Contacting'
  BY <1>0 DEF Contacting, CheckedInOrder, SentLate, DiffApart, ContactedWhenNeeded, DryRunAllows,
    ArgsAllow
<1>3. Saving'
  BY <1>0 DEF Saving, SavedLast, SavedIsAnswered
<1>4. Comparing'
  BY <1>0 DEF Comparing, ReadIsCurrent, Baseline, ReadIsReplaced, ReportShowsRead
<1> QED
  BY <1>1, <1>2, <1>3, <1>4

LEMMA RenderKeeps == Inv /\ Render => Inv'
<1> SUFFICES ASSUME Inv, Render PROVE Inv'
  OBVIOUS
<1> USE DEF Inv, Render
<1>0. \/ /\ pc' = IF opt.diff THEN "ok" ELSE "snapshot"
         /\ output'.kind = "report" /\ output'.baseline = previous
      \/ pc' = "failed" /\ output' = output
  BY DEF AfterReport, Comparison
<1>1. TypeOK'
  BY <1>0 DEF TypeOK, Places
<1>2. Contacting'
  BY <1>0 DEF Contacting, CheckedInOrder, SentLate, DiffApart, ContactedWhenNeeded
<1>3. Saving'
  BY <1>0 DEF Saving, SavedLast, SavedIsAnswered
<1>4. Comparing'
  BY <1>0 DEF Contacting, DiffApart, Comparing, ReadIsCurrent, Baseline, ReadIsReplaced,
    ReportShowsRead
<1> QED
  BY <1>1, <1>2, <1>3, <1>4

LEMMA AutoSnapshotKeeps == Inv /\ AutoSnapshot => Inv'
<1> SUFFICES ASSUME Inv, AutoSnapshot PROVE Inv'
  OBVIOUS
<1> USE DEF Inv, AutoSnapshot
<1>1. TypeOK'
  BY DEF TypeOK, Places
<1>2. Contacting'
  BY DEF Contacting, CheckedInOrder, SentLate, DiffApart, ContactedWhenNeeded
<1>3. Saving'
  BY DEF Saving, SavedLast, SavedIsAnswered
<1>4. Comparing'
  BY DEF Comparing, ReadIsCurrent, Baseline, ReadIsReplaced, ReportShowsRead
<1> QED
  BY <1>1, <1>2, <1>3, <1>4

LEMMA StepKeeps == Inv /\ [Next]_vars => Inv'
<1> SUFFICES ASSUME Inv, UNCHANGED vars PROVE Inv'
  BY OtherKeeps, DispatchKeeps, ClearKeeps, BuildsKeeps, PreviousKeeps, LookupKeeps, PlanKeeps, PrepareKeeps,
    HealthKeeps, SimulateKeeps, RatesKeeps, NewBuildKeeps, HistoryKeeps, SaveKeeps, NextIterationKeeps,
    RenderKeeps, AutoSnapshotKeeps DEF Next, Step
<1> USE DEF Inv, vars
<1>1. TypeOK'
  BY DEF TypeOK
<1>2. Contacting'
  BY DEF Contacting, CheckedInOrder, SentLate, DiffApart, ContactedWhenNeeded, DryRunAllows,
    ArgsAllow
<1>3. Saving'
  BY DEF Saving, SavedLast, FirstReported, SavedIsAnswered
<1>4. Comparing'
  BY DEF Comparing, ReadIsCurrent, Baseline, ReadIsReplaced, ReportShowsRead
<1> QED
  BY <1>1, <1>2, <1>3, <1>4

\* Where a run is says what has been checked, sent, saved and read (cmd_estimate, estimate_once).
THEOREM Invariant == Spec => []Inv
BY InitInv, StepKeeps, PTL DEF Spec

\* The network is used only by a run that nothing local stops, and not under --dry-run, with the
\* exceptions of --diff and --auto-snapshot; for any flags and answers (cmd_estimate).
THEOREM NothingSentInVain == Spec => []ContactedWhenNeeded
BY Invariant, PTL DEF Inv, Contacting

\* A run leaves in the cache the fee of its first answer, once, whatever its later iterations
\* bring, and nothing under --no-cache (cmd_estimate_repeat, estimate_once).
THEOREM FirstAnswerSaved == Spec => []SavedIsAnswered
BY Invariant, PTL DEF Inv, Saving

-----------------------------------------------------------------------------
\* The newest of a history are the beginning of it, read backwards.
LEMMA NewestIsPrefix ==
    ASSUME NEW s \in Seq(Int), NEW n \in Nat
    PROVE  /\ Len(NewestOf(s, n)) = IF Len(s) < n THEN Len(s) ELSE n
           /\ IsPrefix(NewestOf(s, n), Reverse(s))
<1> DEFINE m == IF Len(s) < n THEN Len(s) ELSE n
           newest == NewestOf(s, n)
<1>1. Reverse(s) \in Seq(Int) /\ Len(Reverse(s)) = Len(s)
  BY DEF Reverse
<1>2. m \in 0..Len(s)
  OBVIOUS
<1>3. newest = SubSeq(Reverse(s), 1, m)
  BY DEF NewestOf
<1>4. newest \in Seq(Int) /\ Len(newest) = m
  <2>1. \A i \in 1..m : Reverse(s)[i] \in Int
    BY <1>1, <1>2
  <2> HIDE DEF m
  <2> QED
    BY <1>2, <1>3, <2>1, SubSeqProperties
<1>5. SubSeq(newest, 1, Len(newest)) = newest
  BY <1>4, SubSeqFull
<1> QED
  BY <1>1, <1>2, <1>3, <1>4, <1>5 DEF IsPrefix

LEMMA ReadIsShown == Inv => ComparedWithPredecessor
<1> SUFFICES ASSUME Inv, replaced # Absent, ~overtaken
             PROVE  /\ output.kind = "report" =>
                          output.baseline = IF opt.compare THEN replaced.row ELSE Absent
                    /\ history # Absent =>
                          /\ Len(history) = (IF Len(replaced.runs) < HistoryLimit
                                             THEN Len(replaced.runs) ELSE HistoryLimit)
                          /\ IsPrefix(history, Reverse(replaced.runs))
  BY DEF ComparedWithPredecessor
<1>1. saved # <<>> /\ ~opt.diff /\ replaced.runs \in Seq(Int)
  BY DEF Inv, Comparing, ReadIsReplaced, Saving, SavedIsAnswered
<1>2. output.kind = "report" => output.baseline = IF opt.compare THEN replaced.row ELSE Absent
  BY <1>1 DEF Inv, Comparing, ReadIsReplaced, ReportShowsRead, Baseline
<1>3. history # Absent => history = NewestOf(replaced.runs, HistoryLimit)
  BY DEF Inv, Comparing, ReadIsReplaced
<1>4. /\ Len(NewestOf(replaced.runs, 5)) = IF Len(replaced.runs) < 5 THEN Len(replaced.runs) ELSE 5
      /\ IsPrefix(NewestOf(replaced.runs, 5), Reverse(replaced.runs))
  BY <1>1, NewestIsPrefix
<1> QED
  BY <1>2, <1>3, <1>4 DEF HistoryLimit

\* --compare shows the estimate that this run replaces and --history the runs before it, newest
\* first, unless another process came between; for any number of them (estimate_once).
THEOREM PredecessorShown == Spec => []ComparedWithPredecessor
BY Invariant, ReadIsShown, PTL

-----------------------------------------------------------------------------
(***************************************************************************)
(* What is made of the answers: CostReport.  First the arithmetic of the   *)
(* shares, for any width of an i64; then what the reports so far are, then *)
(* the fetches, whose replies fail, are short or are garbled.              *)
(***************************************************************************)
Five == 1..5

LEMMA Division ==
    ASSUME NEW a \in Nat, NEW b \in Nat, b > 0
    PROVE  a \div b \in Nat /\ b * (a \div b) <= a /\ a < b * (a \div b) + b
OBVIOUS

LEMMA SaturateRange ==
    ASSUME NEW x \in Int
    PROVE  /\ Saturate(x) \in Int /\ InRange(Saturate(x))
           /\ InRange(x) => Saturate(x) = x
           /\ x >= 0 => Saturate(x) >= 0
           /\ x >= 0 /\ Saturate(x) < I64Max => Saturate(x) = x
BY FeesAssumption DEF Saturate, InRange, I64Min

IsRounded(q, part, total) ==
    /\ Permille(part, total) = Saturate(q)
    /\ 2 * (q * total) <= 2 * (part * 1000) + total
    /\ 2 * (part * 1000) <= 2 * (q * total) + total
    /\ q <= (part * 1000) \div total + 1

\* A share is its part's thousandths, rounded.
LEMMA RoundedShare ==
    ASSUME NEW part \in Nat, NEW total \in Nat, total > 0
    PROVE  \E q \in Nat : IsRounded(q, part, total)
<1> DEFINE q == (part * 1000 + total \div 2) \div total
<1>1. total \div 2 \in Nat /\ 2 * (total \div 2) <= total /\ total <= 2 * (total \div 2) + 1
  OBVIOUS
<1>2. part * 1000 + total \div 2 \in Nat
  OBVIOUS
<1>3. q \in Nat /\ total * q <= part * 1000 + total \div 2 /\ part * 1000 + total \div 2 < total * q + total
  BY <1>2, Division
<1>4. total * q = q * total
  BY <1>3
<1>5. q <= (part * 1000) \div total + 1
  OBVIOUS
<1>6. Permille(part, total) = Saturate(q)
  BY <1>2 DEF Permille
<1> HIDE DEF q
<1>7. 2 * (q * total) <= 2 * (part * 1000) + total /\ 2 * (part * 1000) <= 2 * (q * total) + total
  BY <1>1, <1>3, <1>4
<1> QED
  BY <1>3, <1>5, <1>6, <1>7 DEF IsRounded

\* The shares before the largest part's is corrected
LEMMA RoundedShares ==
    ASSUME NEW parts, \A i \in Five : parts[i] \in Nat, NEW total \in Nat, total > 0
    PROVE  \E q \in [Five -> Nat] : \A i \in Five : IsRounded(q[i], parts[i], total)
<1> DEFINE q == [i \in Five |-> CHOOSE k \in Nat : IsRounded(k, parts[i], total)]
<1>1. \A i \in Five : \E k \in Nat : IsRounded(k, parts[i], total)
  BY RoundedShare
<1>2. \A i \in Five : q[i] \in Nat /\ IsRounded(q[i], parts[i], total)
  BY <1>1
<1>3. q \in [Five -> Nat]
  BY <1>2
<1> QED
  BY <1>2, <1>3

\* There is a last one among the largest of five.
LEMMA LargestIsOne ==
    ASSUME NEW parts, \A i \in Five : parts[i] \in Nat
    PROVE  Largest(parts) \in Five /\ \A j \in Five : parts[j] <= parts[Largest(parts)]
<1> DEFINE Lead(i, k) == /\ \A j \in 1..k : parts[j] <= parts[i]
                         /\ \A j \in i+1..k : parts[j] < parts[i]
<1>1. \E i \in 1..1 : Lead(i, 1)
  BY DEF Five
<1>2. ASSUME NEW k \in 1..4, \E i \in 1..k : Lead(i, k)
      PROVE  \E i \in 1..k+1 : Lead(i, k + 1)
  <2>1. PICK i \in 1..k : Lead(i, k)
    BY <1>2
  <2>2. CASE parts[k + 1] >= parts[i]
    <3>1. Lead(k + 1, k + 1)
      BY <2>1, <2>2 DEF Five
    <3> QED
      BY <3>1
  <2>3. CASE parts[k + 1] < parts[i]
    <3>1. Lead(i, k + 1)
      BY <2>1, <2>3 DEF Five
    <3> QED
      BY <3>1
  <2>4. parts[k + 1] \in Nat /\ parts[i] \in Nat
    BY DEF Five
  <2> QED
    BY <2>2, <2>3, <2>4
<1>3. \E i \in 1..5 : Lead(i, 5)
  BY <1>1, <1>2
<1> QED
  BY <1>3 DEF Largest, Five

\* The largest part takes what the rounding has left over of a thousand.
LEMMA SharesOfParts ==
    ASSUME NEW parts, \A i \in Five : parts[i] \in Nat, NEW total \in Nat, total > 0,
           NEW q, \A i \in Five : q[i] \in Nat /\ Permille(parts[i], total) = q[i],
           q[1] + q[2] + q[3] + q[4] + q[5] <= I64Max
    PROVE  /\ Sum5(Shares(parts, total)) = 1000
           /\ \A i \in Five : i # Largest(parts) => Shares(parts, total)[i] = q[i]
           /\ Shares(parts, total)[Largest(parts)]
                = q[Largest(parts)] + 1000 - (q[1] + q[2] + q[3] + q[4] + q[5])
<1> DEFINE rounded == [i \in 1..5 |-> Permille(parts[i], total)]
           sum == q[1] + q[2] + q[3] + q[4] + q[5]
           L == Largest(parts)
<1>1. q[1] \in Nat /\ q[2] \in Nat /\ q[3] \in Nat /\ q[4] \in Nat /\ q[5] \in Nat
  BY DEF Five
<1>2. \A i \in 1..5 : rounded[i] = q[i]
  BY DEF Five
<1>3. Sum5(rounded) = sum
  BY <1>2 DEF Sum5
<1>4. L \in 1..5
  BY LargestIsOne DEF Five
<1>5. sum \in 0..I64Max
  BY <1>1
<1>6. InRange(sum) /\ Saturate(1000 - sum) = 1000 - sum
  BY <1>5, FeesAssumption DEF InRange, I64Min, Saturate
<1>7. Shares(parts, total) = [rounded EXCEPT ![L] = Saturate(rounded[L] + Saturate(1000 - Sum5(rounded)))]
  BY <1>3, <1>6 DEF Shares
<1> HIDE DEF rounded
<1>8. DOMAIN rounded = 1..5
  BY DEF rounded
<1>9. q[L] \in 0..sum
  BY <1>1, <1>4
<1>10. Saturate(q[L] + (1000 - sum)) = q[L] + 1000 - sum
  <2> HIDE DEF sum, L
  <2> QED
    BY <1>5, <1>9, FeesAssumption DEF Saturate, I64Min
<1>11. \A i \in 1..5 : Shares(parts, total)[i] = IF i = L THEN q[L] + 1000 - sum ELSE q[i]
  <2> DEFINE left == Saturate(rounded[L] + Saturate(1000 - Sum5(rounded)))
  <2>1. left = q[L] + 1000 - sum
    BY <1>2, <1>3, <1>4, <1>6, <1>10
  <2>2. Shares(parts, total) = [rounded EXCEPT ![L] = left]
    BY <1>7
  <2> HIDE DEF L, sum, left
  <2>3. \A i \in 1..5 : Shares(parts, total)[i] = IF i = L THEN left ELSE rounded[i]
    BY <1>8, <2>2
  <2> QED
    BY <1>2, <2>1, <2>3
<1>12. Sum5(Shares(parts, total)) = 1000
  <2>1. CASE L = 1
    BY <1>1, <1>11, <2>1 DEF Sum5
  <2>2. CASE L = 2
    BY <1>1, <1>11, <2>2 DEF Sum5
  <2>3. CASE L = 3
    BY <1>1, <1>11, <2>3 DEF Sum5
  <2>4. CASE L = 4
    BY <1>1, <1>11, <2>4 DEF Sum5
  <2>5. CASE L = 5
    BY <1>1, <1>11, <2>5 DEF Sum5
  <2> QED
    BY <1>4, <2>1, <2>2, <2>3, <2>4, <2>5
<1> QED
  BY <1>4, <1>11, <1>12 DEF Five

\* Whatever the parts are against the total, the shares add up, as long as each is an i64.
LEMMA SharesAreWhole ==
    ASSUME NEW parts, \A i \in Five : parts[i] \in Nat, NEW total \in Nat, total > 0,
           \A i \in Five : (parts[i] * 1000) \div total < (I64Max \div 5) - 1
    PROVE  Sum5(Shares(parts, total)) = 1000
<1>1. PICK q \in [Five -> Nat] : \A i \in Five : /\ Permille(parts[i], total) = Saturate(q[i])
                                                /\ q[i] <= (parts[i] * 1000) \div total + 1
  <2>1. PICK q \in [Five -> Nat] : \A i \in Five : IsRounded(q[i], parts[i], total)
    BY RoundedShares
  <2> QED
    BY <2>1 DEF IsRounded
<1>2. 5 * (I64Max \div 5) <= I64Max /\ I64Max \div 5 \in Nat /\ I64Max \in Nat
  BY FeesAssumption
<1>3. \A i \in Five : q[i] \in Nat /\ q[i] < I64Max \div 5
  <2> SUFFICES ASSUME NEW i \in Five PROVE q[i] < I64Max \div 5
    OBVIOUS
  <2>1. (parts[i] * 1000) \div total \in Nat
    BY Division
  <2> QED
    BY <1>1, <1>2, <2>1
<1>4. \A i \in Five : Permille(parts[i], total) = q[i]
  BY <1>1, <1>2, <1>3 DEF Saturate, I64Min
<1>5. q[1] + q[2] + q[3] + q[4] + q[5] <= I64Max
  BY <1>2, <1>3 DEF Five
<1> QED
  BY <1>3, <1>4, <1>5, SharesOfParts

LEMMA Distributes ==
    ASSUME NEW x \in Nat, NEW a \in Nat, NEW b \in Nat, NEW c \in Nat, NEW d \in Nat, NEW e \in Nat,
           NEW t \in Nat
    PROVE  /\ a * t \in Nat /\ b * t \in Nat /\ c * t \in Nat /\ d * t \in Nat /\ e * t \in Nat
           /\ (x + 1000 - (a + b + c + d + e)) * t
                = x * t + 1000 * t - (a * t + b * t + c * t + d * t + e * t)
OBVIOUS

\* Where the parts are those of the total, each share is its part's, rounded, and the largest
\* part's off by the other roundings at most.
LEMMA SharesAreRounded ==
    ASSUME NEW parts, \A i \in Five : parts[i] \in Nat, NEW total \in Nat, total > 0,
           parts[1] + parts[2] + parts[3] + parts[4] + parts[5] = total
    PROVE  \A i \in Five :
              /\ Shares(parts, total)[i] \in 0..1000
              /\ 2 * Abs(Shares(parts, total)[i] * total - parts[i] * 1000)
                   <= (IF i = Largest(parts) THEN 5 ELSE 1) * total
<1>1. PICK q \in [Five -> Nat] :
         \A i \in Five : /\ Permille(parts[i], total) = Saturate(q[i])
                        /\ 2 * (q[i] * total) <= 2 * (parts[i] * 1000) + total
                        /\ 2 * (parts[i] * 1000) <= 2 * (q[i] * total) + total
  BY RoundedShares DEF IsRounded
<1> DEFINE L == Largest(parts)
           sum == q[1] + q[2] + q[3] + q[4] + q[5]
<1>2. /\ q[1] \in Nat /\ q[2] \in Nat /\ q[3] \in Nat /\ q[4] \in Nat /\ q[5] \in Nat
      /\ parts[1] \in Nat /\ parts[2] \in Nat /\ parts[3] \in Nat /\ parts[4] \in Nat /\ parts[5] \in Nat
  BY DEF Five
<1>3. \A i \in Five : q[i] <= 1000
  <2> SUFFICES ASSUME NEW i \in Five PROVE q[i] <= 1000
    OBVIOUS
  <2>1. parts[i] \in Nat /\ parts[i] <= total /\ q[i] \in Nat
    BY <1>2 DEF Five
  <2>2. 2 * (q[i] * total) <= 2001 * total
    BY <1>1, <2>1
  <2>3. q[i] >= 1001 => q[i] * total >= 1001 * total
    BY <2>1
  <2> QED
    BY <2>1, <2>2, <2>3
<1>4. \A i \in Five : Permille(parts[i], total) = q[i]
  BY <1>1, <1>3, FeesAssumption DEF Saturate, I64Min
<1>5. sum <= I64Max
  BY <1>2, <1>3, FeesAssumption DEF Five
<1>6. L \in Five /\ \A j \in Five : parts[j] <= parts[L]
  BY LargestIsOne
<1>7. /\ \A i \in Five : i # L => Shares(parts, total)[i] = q[i]
      /\ Shares(parts, total)[L] = q[L] + 1000 - sum
  BY <1>4, <1>5, SharesOfParts
<1>8. ASSUME NEW i \in Five, i # L
      PROVE  /\ Shares(parts, total)[i] \in 0..1000
             /\ 2 * Abs(Shares(parts, total)[i] * total - parts[i] * 1000) <= total
  <2> DEFINE k == q[i]
             p == parts[i]
  <2>1. k \in Nat /\ k <= 1000 /\ p \in Nat
    BY <1>1, <1>3
  <2>2. 2 * (k * total) <= 2 * (p * 1000) + total /\ 2 * (p * 1000) <= 2 * (k * total) + total
    BY <1>1
  <2>3. Shares(parts, total)[i] = k
    BY <1>7, <1>8
  <2> HIDE DEF k
  <2>4. k * total \in Nat
    BY <2>1
  <2>5. 2 * Abs(k * total - parts[i] * 1000) <= total
    <3> HIDE DEF p
    <3>1. 2 * Abs(k * total - p * 1000) <= total
      BY <2>1, <2>2, <2>4 DEF Abs
    <3> QED
      BY <3>1 DEF p
  <2> QED
    BY <2>1, <2>3, <2>5
<1>9. /\ q[L] + 1000 - sum \in 0..1000
      /\ 2 * Abs((q[L] + 1000 - sum) * total - parts[L] * 1000) <= 5 * total
  <2> DEFINE w(i) == q[i] * total
  <2>1. /\ w(1) \in Nat /\ w(2) \in Nat /\ w(3) \in Nat /\ w(4) \in Nat /\ w(5) \in Nat
        /\ (q[L] + 1000 - sum) * total = w(L) + 1000 * total - (w(1) + w(2) + w(3) + w(4) + w(5))
    <3>1. q[L] \in Nat
      BY <1>1, <1>6
    <3> QED
      BY <1>2, <3>1, Distributes
  <2>2. \A i \in 1..5 : 2 * w(i) <= 2 * (parts[i] * 1000) + total /\ 2 * (parts[i] * 1000) <= 2 * w(i) + total
    BY <1>1 DEF Five
  <2>3. q[L] + 1000 - sum \in Int /\ q[L] + 1000 - sum <= 1000
    BY <1>2, <1>6 DEF Five
  <2>4. 5 * parts[L] >= total /\ parts[L] \in Nat
    BY <1>2, <1>6 DEF Five
  <2> DEFINE share == q[L] + 1000 - sum
             product == share * total
  <2>5. L \in 1..5
    BY <1>6 DEF Five
  <2> HIDE DEF w, share, L, sum
  <2>6. /\ product \in Int
        /\ 2 * product <= 2 * (parts[L] * 1000) + 4 * total
        /\ 2 * product >= 2 * (parts[L] * 1000) - 4 * total
    BY <1>2, <2>1, <2>2, <2>5 DEF share
  <2>7. 2 * Abs(product - parts[L] * 1000) <= 5 * total
    BY <2>4, <2>6 DEF Abs
  <2>8. product > 0
    BY <2>4, <2>6
  <2>9. share \in Int
    BY <2>3 DEF share
  <2>10. share > 0
    BY <2>8, <2>9
  <2>11. share \in 0..1000 /\ 2 * Abs(share * total - parts[L] * 1000) <= 5 * total
    <3>1. share <= 1000
      BY <2>3 DEF share
    <3> QED
      BY <2>7, <2>9, <2>10, <3>1
  <2> QED
    BY <2>11 DEF share
<1>10. /\ Shares(parts, total)[L] \in 0..1000
       /\ 2 * Abs(Shares(parts, total)[L] * total - parts[L] * 1000) <= 5 * total
  <2> HIDE DEF L, sum
  <2> QED
    BY <1>7, <1>9
<1> HIDE DEF L, sum
<1>11. ASSUME NEW i \in Five
       PROVE  /\ Shares(parts, total)[i] \in 0..1000
              /\ 2 * Abs(Shares(parts, total)[i] * total - parts[i] * 1000)
                    <= (IF i = L THEN 5 ELSE 1) * total
  <2>1. CASE i = L
    BY <1>10, <2>1
  <2>2. CASE i # L
    <3>1. (IF i = L THEN 5 ELSE 1) * total = total
      BY <2>2
    <3> QED
      BY <1>8, <2>2, <3>1
  <2> QED
    BY <2>1, <2>2
<1> QED
  BY <1>11 DEF L

-----------------------------------------------------------------------------
RateSet == [per_10k_insns : Nat, per_1kb : Nat, per_read_entry : Nat, per_write_entry : Nat,
            per_read_1kb : Nat]
Amounts == 0..I64Max

LEMMA ScaledIsAmount ==
    ASSUME NEW units \in Nat, NEW rate \in Nat, NEW divisor \in Nat, divisor > 0
    PROVE  Scaled(units, rate, divisor) \in Amounts
<1> DEFINE n == units * rate
<1>1. n \in Nat
  OBVIOUS
<1> HIDE DEF n
<1>2. n \div divisor \in Nat /\ Quotient(n, divisor) = n \div divisor
  BY <1>1, Division DEF Quotient
<1>3. Saturate(n \div divisor) \in Amounts
  BY <1>2, SaturateRange DEF Amounts, InRange
<1> QED
  BY <1>2, <1>3 DEF Scaled, n

LEMMA SumIsAmount ==
    ASSUME NEW a \in Amounts, NEW b \in Amounts
    PROVE  /\ Saturate(a + b) \in Amounts /\ Saturate(a + b) >= a
           /\ Saturate(a + b) < I64Max => Saturate(a + b) = a + b
BY FeesAssumption DEF Amounts, Saturate, I64Min

\* What a use costs at any rates; where nothing saturates, the whole is what its parts cost.
LEMMA FeesAreAmounts ==
    ASSUME NEW use \in Uses, NEW rate \in RateSet
    PROVE  /\ CpuFee(use, rate) \in Amounts /\ StorageFee(use, rate) \in Amounts
           /\ BandwidthFee(use, rate) \in Amounts /\ NonRefundable(use, rate) \in Amounts
           /\ NonRefundable(use, rate) < I64Max =>
                 NonRefundable(use, rate) = CpuFee(use, rate) + StorageFee(use, rate) + BandwidthFee(use, rate)
<1> DEFINE c == CpuFee(use, rate)
           b == BandwidthFee(use, rate)
           r == Scaled(use.read_entries, rate.per_read_entry, 1)
           w == Scaled(use.write_entries, rate.per_write_entry, 1)
           k == Scaled(use.read_bytes, rate.per_read_1kb, 1024)
<1>1. /\ use.cpu \in Nat /\ use.read_entries \in Nat /\ use.write_entries \in Nat
      /\ use.read_bytes \in Nat /\ use.tx_size \in Nat
  BY CostReportAssumption
<1>2. /\ rate.per_10k_insns \in Nat /\ rate.per_1kb \in Nat /\ rate.per_read_entry \in Nat
      /\ rate.per_write_entry \in Nat /\ rate.per_read_1kb \in Nat
  BY DEF RateSet
<1>3. c \in Amounts
  BY <1>1, <1>2, ScaledIsAmount DEF CpuFee
<1>4. b \in Amounts
  BY <1>1, <1>2, ScaledIsAmount DEF BandwidthFee
<1>5. r \in Amounts
  BY <1>1, <1>2, ScaledIsAmount
<1>6. w \in Amounts
  BY <1>1, <1>2, ScaledIsAmount
<1>7. k \in Amounts
  BY <1>1, <1>2, ScaledIsAmount
<1>8. /\ StorageFee(use, rate) = Saturate(Saturate(r + w) + k)
      /\ NonRefundable(use, rate) = Saturate(Saturate(Saturate(Saturate(c + r) + w) + k) + b)
  BY DEF StorageFee, NonRefundable
<1> HIDE DEF c, b, r, w, k
<1>9. /\ Saturate(r + w) \in Amounts
      /\ Saturate(Saturate(r + w) + k) \in Amounts
  BY <1>5, <1>6, <1>7, SumIsAmount
<1> DEFINE s1 == Saturate(c + r)
           s2 == Saturate(s1 + w)
           s3 == Saturate(s2 + k)
           s4 == Saturate(s3 + b)
<1>10. s1 \in Amounts /\ (s1 < I64Max => s1 = c + r)
  BY <1>3, <1>5, SumIsAmount
<1> HIDE DEF s1
<1>11. s2 \in Amounts /\ s2 >= s1 /\ (s2 < I64Max => s2 = s1 + w)
  BY <1>6, <1>10, SumIsAmount
<1> HIDE DEF s2
<1>12. s3 \in Amounts /\ s3 >= s2 /\ (s3 < I64Max => s3 = s2 + k)
  BY <1>7, <1>11, SumIsAmount
<1> HIDE DEF s3
<1>13. s4 \in Amounts /\ s4 >= s3 /\ (s4 < I64Max => s4 = s3 + b)
  BY <1>4, <1>12, SumIsAmount
<1> HIDE DEF s4
<1>14. NonRefundable(use, rate) = s4
  BY <1>8 DEF s1, s2, s3, s4
<1>15. s4 < I64Max => s4 = c + Saturate(Saturate(r + w) + k) + b
  <2> SUFFICES ASSUME s4 < I64Max PROVE s4 = c + Saturate(Saturate(r + w) + k) + b
    OBVIOUS
  <2>1. s4 = c + r + w + k + b
    BY <1>3, <1>4, <1>5, <1>6, <1>7, <1>10, <1>11, <1>12, <1>13, FeesAssumption DEF Amounts
  <2>2. r + w + k <= I64Max
    BY <1>3, <1>4, <1>5, <1>6, <1>7, <1>13, <2>1, FeesAssumption DEF Amounts
  <2>3. Saturate(r + w) = r + w /\ Saturate(r + w + k) = r + w + k
    BY <1>5, <1>6, <1>7, <2>2, FeesAssumption DEF Amounts, Saturate, I64Min
  <2> QED
    BY <1>3, <1>4, <1>5, <1>6, <1>7, <2>1, <2>3 DEF Amounts
<1> QED
  BY <1>3, <1>4, <1>8, <1>9, <1>13, <1>14, <1>15 DEF c, b

\* The parts of a total that covers them add up to it.
LEMMA PartsOfTotal ==
    ASSUME NEW total \in Int, InRange(total), NEW use \in Uses, NEW rate \in RateSet
    PROVE  /\ TotalStroops(total) \in Int
           /\ \A i \in Five : Parts(total, use, rate)[i] \in Nat
           /\ TotalStroops(total) > 0 /\ NonRefundable(use, rate) <= total /\ TotalStroops(total) < I64Max =>
                 Parts(total, use, rate)[1] + Parts(total, use, rate)[2] + Parts(total, use, rate)[3]
                   + Parts(total, use, rate)[4] + Parts(total, use, rate)[5] = TotalStroops(total)
<1> DEFINE c == CpuFee(use, rate)
           s == StorageFee(use, rate)
           b == BandwidthFee(use, rate)
           n == NonRefundable(use, rate)
<1>1. /\ c \in Amounts /\ s \in Amounts /\ b \in Amounts /\ n \in Amounts
      /\ n < I64Max => n = c + s + b
  BY FeesAreAmounts
<1> HIDE DEF c, s, b, n
<1>2. BaseFee(total) \in Nat /\ total + BaseFee(total) \in Int
  BY DEF BaseFee
<1>3. TotalStroops(total) \in Int
  BY <1>2, SaturateRange DEF TotalStroops
<1>4. Parts(total, use, rate) = <<c, s, b, BaseFee(total), Refundable(total, use, rate)>>
  BY DEF Parts, c, s, b
<1>5. Refundable(total, use, rate) = AtLeastZero(Saturate(total - n))
  BY DEF Refundable, n
<1>6. Refundable(total, use, rate) \in Nat
  <2>1. Saturate(total - n) \in Int
    BY <1>1, SaturateRange DEF Amounts
  <2> QED
    BY <1>5, <2>1 DEF AtLeastZero
<1>7. \A i \in Five : Parts(total, use, rate)[i] \in Nat
  BY <1>1, <1>2, <1>4, <1>6 DEF Five, Amounts
<1>8. ASSUME TotalStroops(total) > 0, n <= total, TotalStroops(total) < I64Max
      PROVE  c + s + b + BaseFee(total) + Refundable(total, use, rate) = TotalStroops(total)
  <2>1. total > 0
    BY <1>1, <1>8, FeesAssumption DEF Amounts, TotalStroops, BaseFee, Saturate, I64Min
  <2>2. BaseFee(total) = 100 /\ TotalStroops(total) = total + 100
    BY <1>8, <2>1, FeesAssumption DEF TotalStroops, BaseFee, Saturate, I64Min
  <2>3. n = c + s + b
    BY <1>1, <1>8, <2>2, FeesAssumption DEF Amounts
  <2>4. Refundable(total, use, rate) = total - n
    BY <1>1, <1>5, <1>8, <2>1, <2>2, FeesAssumption DEF Amounts, AtLeastZero, Saturate, I64Min
  <2> QED
    BY <1>1, <2>2, <2>3, <2>4 DEF Amounts
<1> QED
  BY <1>3, <1>4, <1>7, <1>8 DEF n

\* What SharesAddUp says of a report
SharesAgree(total, parts, shares, non_refundable, resource_fee) ==
    /\ total <= 0 => \A i \in 1..5 : shares[i] = 0
    /\ total > 0 /\ (\A i \in 1..5 : (parts[i] * 1000) \div total < (I64Max \div 5) - 1) => Sum5(shares) = 1000
    /\ total > 0 /\ non_refundable <= resource_fee /\ total < I64Max =>
          \A i \in 1..5 :
             /\ shares[i] \in 0..1000
             /\ 2 * Abs(shares[i] * total - parts[i] * 1000) <= (IF i = Largest(parts) THEN 5 ELSE 1) * total

SharesOf(r) == SharesAgree(r.fee.total, r.fee.parts, r.fee.shares, r.fee.non_refundable, r.resource_fee)

IsPriced(r) ==
    /\ r.resource_fee \in Int /\ InRange(r.resource_fee) /\ r.use \in Uses
    /\ \E rate \in RateSet : r.fee = Breakdown(r.resource_fee, r.use, rate)

LEMMA PricedSharesAddUp == ASSUME NEW r, IsPriced(r) PROVE SharesOf(r)
<1>1. PICK rate \in RateSet : r.fee = Breakdown(r.resource_fee, r.use, rate)
  BY DEF IsPriced
<1> DEFINE fee == r.resource_fee
           parts == Parts(fee, r.use, rate)
           total == TotalStroops(fee)
<1>2. /\ r.fee.non_refundable = NonRefundable(r.use, rate) /\ r.fee.parts = parts
      /\ r.fee.total = total /\ r.fee.shares = Shares(parts, total)
  BY <1>1 DEF Breakdown
<1>3. /\ total \in Int /\ \A i \in Five : parts[i] \in Nat
      /\ total > 0 /\ NonRefundable(r.use, rate) <= fee /\ total < I64Max =>
            parts[1] + parts[2] + parts[3] + parts[4] + parts[5] = total
  BY PartsOfTotal DEF IsPriced
<1> HIDE DEF fee, parts, total
<1>4. ASSUME total <= 0 PROVE \A i \in 1..5 : Shares(parts, total)[i] = 0
  BY <1>4 DEF Shares
<1>5. ASSUME total > 0, \A i \in 1..5 : (parts[i] * 1000) \div total < (I64Max \div 5) - 1
      PROVE  Sum5(Shares(parts, total)) = 1000
  BY <1>3, <1>5, SharesAreWhole DEF Five
<1>6. ASSUME total > 0, NonRefundable(r.use, rate) <= fee, total < I64Max
      PROVE  \A i \in 1..5 :
                /\ Shares(parts, total)[i] \in 0..1000
                /\ 2 * Abs(Shares(parts, total)[i] * total - parts[i] * 1000)
                     <= (IF i = Largest(parts) THEN 5 ELSE 1) * total
  <2>1. total \in Nat
    BY <1>3, <1>6
  <2>2. \A i \in Five :
           /\ Shares(parts, total)[i] \in 0..1000
           /\ 2 * Abs(Shares(parts, total)[i] * total - parts[i] * 1000)
                <= (IF i = Largest(parts) THEN 5 ELSE 1) * total
    BY <1>3, <1>6, <2>1, SharesAreRounded
  <2> QED
    BY <2>2 DEF Five
<1>7. r.resource_fee = fee
  BY DEF fee
<1> DEFINE shares == Shares(parts, total)
           nonRefundable == NonRefundable(r.use, rate)
<1>8. SharesAgree(total, parts, shares, nonRefundable, fee)
  <2>1. total <= 0 => \A i \in 1..5 : shares[i] = 0
    BY <1>4
  <2>2. total > 0 /\ (\A i \in 1..5 : (parts[i] * 1000) \div total < (I64Max \div 5) - 1)
            => Sum5(shares) = 1000
    BY <1>5
  <2>3. ASSUME total > 0, nonRefundable <= fee, total < I64Max
        PROVE  \A i \in 1..5 :
                  /\ shares[i] \in 0..1000
                  /\ 2 * Abs(shares[i] * total - parts[i] * 1000)
                       <= (IF i = Largest(parts) THEN 5 ELSE 1) * total
    BY <1>6, <2>3, Zenon
  <2> HIDE DEF shares, nonRefundable
  <2> QED
    BY <2>1, <2>2, <2>3, Zenon DEF SharesAgree
<1> QED
  BY <1>2, <1>7, <1>8 DEF SharesOf

-----------------------------------------------------------------------------
\* The sums over the subsets of S: the recursion behind MapThenSumSet
AddsUp(g, values, S) ==
    g = [T \in SUBSET S |-> IF T = {} THEN 0
                            ELSE values[CHOOSE x \in T : TRUE] + g[T \ {CHOOSE x \in T : TRUE}]]

SumOver(values, T) == (CHOOSE g : AddsUp(g, values, DOMAIN values))[T]

LEMMA SumUnfolds ==
    ASSUME NEW values
    PROVE  SumOf(values) = SumOver(values, DOMAIN values)
BY DEF SumOf, MapThenSumSet, MapThenFoldSet, SumOver, AddsUp

\* There are such sums: those over subsets of k + 1 members come from those of k.
LEMMA SumsExist ==
    ASSUME NEW S, IsFiniteSet(S), NEW values
    PROVE  \E g : AddsUp(g, values, S)
<1> DEFINE upTo(k) == {T \in SUBSET S : Cardinality(T) <= k}
           some(T) == CHOOSE x \in T : TRUE
           adds(g, k) == g = [T \in upTo(k) |-> IF T = {} THEN 0 ELSE values[some(T)] + g[T \ {some(T)}]]
           without == {k \in Nat : \A g : ~adds(g, k)}
<1>1. \A T \in SUBSET S : IsFiniteSet(T) /\ Cardinality(T) \in Nat
  BY FS_Subset, FS_CardinalityType
<1>2. without = {}
  <2> SUFFICES ASSUME without # {} PROVE FALSE
    OBVIOUS
  <2>1. PICK k \in without : \A n \in without : k <= n
    <3>1. without \subseteq Nat
      OBVIOUS
    <3> HIDE DEF without
    <3> QED
      BY <3>1, NatMinimum
  <2>2. k \in Nat /\ \A g : ~adds(g, k)
    BY <2>1
  <2>3. CASE k = 0
    <3> DEFINE g == [T \in upTo(0) |-> 0]
    <3>1. \A T \in upTo(0) : T = {}
      BY <1>1, FS_EmptySet
    <3>2. adds(g, 0)
      BY <3>1
    <3> HIDE DEF adds
    <3> QED
      BY <2>2, <2>3, <3>2
  <2>4. CASE k # 0
    <3>1. k - 1 \in Nat /\ k - 1 \notin without
      <4> HIDE DEF without
      <4> QED
        BY <2>1, <2>2, <2>4
    <3>2. PICK g : adds(g, k - 1)
      <4> HIDE DEF adds
      <4> QED
        BY <3>1
    <3> DEFINE h == [T \in upTo(k) |-> IF T = {} THEN 0 ELSE values[some(T)] + g[T \ {some(T)}]]
    <3>3. \A T \in upTo(k - 1) : T \in upTo(k) /\ h[T] = g[T]
      <4>1. ASSUME NEW T \in upTo(k - 1) PROVE T \in upTo(k)
        BY <1>1, <2>2
      <4>2. ASSUME NEW T \in upTo(k - 1) PROVE g[T] = IF T = {} THEN 0 ELSE values[some(T)] + g[T \ {some(T)}]
        <5> HIDE DEF upTo, some
        <5> QED
          BY <3>2
      <4> HIDE DEF upTo, some
      <4> QED
        BY <4>1, <4>2
    <3>4. ASSUME NEW T \in upTo(k), T # {} PROVE T \ {some(T)} \in upTo(k - 1)
      <4>1. some(T) \in T /\ T \in SUBSET S
        BY <3>4
      <4> HIDE DEF some
      <4>2. Cardinality(T \ {some(T)}) = Cardinality(T) - 1
        BY <1>1, <4>1, FS_RemoveElement
      <4>3. PICK more, fewer \in Nat : more = Cardinality(T) /\ fewer = Cardinality(T \ {some(T)})
        BY <1>1, <4>1
      <4>4. fewer <= k - 1
        BY <2>2, <4>2, <4>3
      <4> QED
        BY <4>1, <4>3, <4>4
    <3>5. adds(h, k)
      <4>1. \A T \in upTo(k) : h[T] = IF T = {} THEN 0 ELSE values[some(T)] + h[T \ {some(T)}]
        <5> HIDE DEF upTo, some
        <5> QED
          BY <3>3, <3>4
      <4>2. h = [T \in upTo(k) |-> h[T]]
        OBVIOUS
      <4> HIDE DEF h, upTo, some
      <4> QED
        BY <4>1, <4>2
    <3> HIDE DEF adds
    <3> QED
      BY <2>2, <3>5
  <2> QED
    BY <2>3, <2>4
<1>3. upTo(Cardinality(S)) = SUBSET S /\ Cardinality(S) \in Nat
  BY <1>1, FS_Subset, FS_CardinalityType
<1>4. PICK g : adds(g, Cardinality(S))
  <2> HIDE DEF adds
  <2>1. \A k \in Nat : \E g : adds(g, k)
    BY <1>2
  <2> QED
    BY <1>3, <2>1
<1>5. AddsUp(g, values, S)
  BY <1>3, <1>4 DEF AddsUp
<1> QED
  BY <1>5

LEMMA SumSteps ==
    ASSUME NEW values, IsFiniteSet(DOMAIN values)
    PROVE  /\ SumOver(values, {}) = 0
           /\ \A T \in SUBSET DOMAIN values : T # {} =>
                 \E x \in T : SumOver(values, T) = values[x] + SumOver(values, T \ {x})
<1> DEFINE g == CHOOSE g : AddsUp(g, values, DOMAIN values)
<1>1. AddsUp(g, values, DOMAIN values)
  BY SumsExist
<1>2. \A T : SumOver(values, T) = g[T]
  BY DEF SumOver
<1> HIDE DEF g
<1>3. \A T \in SUBSET DOMAIN values :
         g[T] = IF T = {} THEN 0 ELSE values[CHOOSE x \in T : TRUE] + g[T \ {CHOOSE x \in T : TRUE}]
  BY <1>1 DEF AddsUp
<1>4. ASSUME NEW T \in SUBSET DOMAIN values, T # {}
      PROVE  \E x \in T : SumOver(values, T) = values[x] + SumOver(values, T \ {x})
  <2> DEFINE some == CHOOSE x \in T : TRUE
  <2>1. some \in T
    BY <1>4
  <2>2. g[T] = values[some] + g[T \ {some}]
    BY <1>3, <1>4
  <2> HIDE DEF some
  <2> QED
    BY <1>2, <2>1, <2>2
<1>5. SumOver(values, {}) = 0
  BY <1>2, <1>3
<1> QED
  BY <1>4, <1>5

LEMMA SumType ==
    ASSUME NEW values, IsFiniteSet(DOMAIN values), \A x \in DOMAIN values : values[x] \in Int
    PROVE  \A T \in SUBSET DOMAIN values : SumOver(values, T) \in Int
<1> DEFINE S == DOMAIN values
           wrong == {T \in SUBSET S : SumOver(values, T) \notin Int}
<1> SUFFICES ASSUME wrong # {} PROVE FALSE
  OBVIOUS
<1>1. PICK T \in wrong : \A x \in T : T \ {x} \notin wrong
  <2>1. wrong \subseteq SUBSET S
    OBVIOUS
  <2> HIDE DEF wrong
  <2> QED
    BY <2>1, LeastSet
<1>2. T # {}
  <2>1. SumOver(values, {}) = 0
    BY SumSteps
  <2> QED
    BY <2>1
<1>3. PICK x \in T : SumOver(values, T) = values[x] + SumOver(values, T \ {x})
  BY <1>2, SumSteps
<1>4. SumOver(values, T \ {x}) \in Int /\ values[x] \in Int
  BY <1>1
<1> QED
  BY <1>3, <1>4

\* A sum is that of one value, whichever, and of the others.
LEMMA SumRemoves ==
    ASSUME NEW values, IsFiniteSet(DOMAIN values), \A x \in DOMAIN values : values[x] \in Int
    PROVE  \A T \in SUBSET DOMAIN values :
              /\ SumOver(values, T) \in Int
              /\ \A x \in T : SumOver(values, T) = values[x] + SumOver(values, T \ {x})
<1> DEFINE S == DOMAIN values
           sum(T) == SumOver(values, T)
           wrong == {T \in SUBSET S : ~(sum(T) \in Int /\ \A x \in T : sum(T) = values[x] + sum(T \ {x}))}
<1> SUFFICES ASSUME wrong # {} PROVE FALSE
  OBVIOUS
<1>1. PICK T \in wrong : \A x \in T : T \ {x} \notin wrong
  <2>1. wrong \subseteq SUBSET S
    OBVIOUS
  <2> HIDE DEF wrong
  <2> QED
    BY <2>1, LeastSet
<1>2. sum({}) = 0 /\ \A U \in SUBSET S : U # {} => \E x \in U : sum(U) = values[x] + sum(U \ {x})
  BY SumSteps
<1>3. T \in SUBSET S /\ \A x \in T : values[x] \in Int /\ T \ {x} \in SUBSET S
  OBVIOUS
<1>4. \A x \in T : sum(T \ {x}) \in Int /\ \A y \in T \ {x} : sum(T \ {x}) = values[y] + sum((T \ {x}) \ {y})
  BY <1>1, <1>3
<1>5. T # {}
  BY <1>2
<1>6. PICK y \in T : sum(T) = values[y] + sum(T \ {y})
  BY <1>2, <1>3, <1>5
<1>7. ASSUME NEW x \in T PROVE sum(T) = values[x] + sum(T \ {x})
  <2>1. CASE x = y
    BY <1>6, <2>1
  <2>2. CASE x # y
    <3> DEFINE rest == (T \ {x}) \ {y}
    <3>1. rest = (T \ {y}) \ {x} /\ rest \in SUBSET S
      BY <1>3
    <3>2. sum(T \ {y}) = values[x] + sum(rest) /\ sum(T \ {x}) = values[y] + sum(rest)
      BY <1>4, <2>2, <3>1
    <3>3. sum(rest) \in Int
      BY <3>1, SumType
    <3> HIDE DEF rest, sum
    <3> QED
      BY <1>3, <1>6, <3>2, <3>3
  <2> QED
    BY <2>1, <2>2
<1>8. sum(T) \in Int
  <2> HIDE DEF sum
  <2> QED
    BY <1>3, <1>4, <1>6
<1> QED
  BY <1>7, <1>8

\* A sum lies between as many of the least value and as many of the greatest.
LEMMA SumBetween ==
    ASSUME NEW values, IsFiniteSet(DOMAIN values), NEW lo \in Int, NEW hi \in Int,
           \A x \in DOMAIN values : values[x] \in Int /\ lo <= values[x] /\ values[x] <= hi
    PROVE  \A T \in SUBSET DOMAIN values :
              lo * Cardinality(T) <= SumOver(values, T) /\ SumOver(values, T) <= hi * Cardinality(T)
<1> DEFINE S == DOMAIN values
           between(T) == lo * Cardinality(T) <= SumOver(values, T) /\ SumOver(values, T) <= hi * Cardinality(T)
           wrong == {T \in SUBSET S : ~between(T)}
<1> SUFFICES ASSUME wrong # {} PROVE FALSE
  OBVIOUS
<1>1. PICK T \in wrong : \A x \in T : T \ {x} \notin wrong
  <2>1. wrong \subseteq SUBSET S
    OBVIOUS
  <2> HIDE DEF wrong
  <2> QED
    BY <2>1, LeastSet
<1>2. T # {}
  <2>1. SumOver(values, {}) = 0 /\ Cardinality({}) = 0
    BY SumSteps, FS_EmptySet
  <2>2. between({})
    BY <2>1
  <2> HIDE DEF between
  <2> QED
    BY <2>2
<1>3. PICK x \in T : SumOver(values, T) = values[x] + SumOver(values, T \ {x})
  BY <1>2, SumSteps
<1>4. between(T \ {x}) /\ values[x] \in Int /\ lo <= values[x] /\ values[x] <= hi
  <2> HIDE DEF between
  <2> QED
    BY <1>1
<1>5. IsFiniteSet(T) /\ Cardinality(T) \in Nat /\ Cardinality(T \ {x}) \in Nat
      /\ Cardinality(T \ {x}) = Cardinality(T) - 1 /\ SumOver(values, T \ {x}) \in Int
  BY FS_Subset, FS_CardinalityType, FS_RemoveElement, SumType
<1>6. PICK n \in Nat, s \in Int, v \in Int : n = Cardinality(T \ {x}) /\ s = SumOver(values, T \ {x}) /\ v = values[x]
  BY <1>4, <1>5
<1>7. Cardinality(T) = n + 1 /\ SumOver(values, T) = v + s
  BY <1>3, <1>5, <1>6
<1>8. lo * n <= s /\ s <= hi * n /\ lo <= v /\ v <= hi
  BY <1>4, <1>6
<1>9. lo * (n + 1) <= v + s /\ v + s <= hi * (n + 1)
  BY <1>8
<1>10. between(T)
  BY <1>7, <1>9
<1> HIDE DEF between
<1> QED
  BY <1>10

\* A sum of values that are not negative is not negative.
LEMMA SumIsNat ==
    ASSUME NEW values, IsFiniteSet(DOMAIN values), \A x \in DOMAIN values : values[x] \in Nat
    PROVE  \A T \in SUBSET DOMAIN values : SumOver(values, T) \in Nat
<1> DEFINE S == DOMAIN values
           wrong == {T \in SUBSET S : SumOver(values, T) \notin Nat}
<1> SUFFICES ASSUME wrong # {} PROVE FALSE
  OBVIOUS
<1>1. PICK T \in wrong : \A x \in T : T \ {x} \notin wrong
  <2>1. wrong \subseteq SUBSET S
    OBVIOUS
  <2> HIDE DEF wrong
  <2> QED
    BY <2>1, LeastSet
<1>2. T # {}
  <2>1. SumOver(values, {}) = 0
    BY SumSteps
  <2> QED
    BY <2>1
<1>3. PICK x \in T : SumOver(values, T) = values[x] + SumOver(values, T \ {x})
  BY <1>2, SumSteps
<1>4. SumOver(values, T \ {x}) \in Nat /\ values[x] \in Nat
  BY <1>1
<1> QED
  BY <1>3, <1>4

\* The sum of the first values, from the sum of those before the last
LEMMA SumIsLast ==
    ASSUME NEW n \in Nat, NEW values \in [1..n -> Int], NEW sums \in [0..n -> Int],
           sums[0] = 0, \A i \in 1..n : sums[i] = sums[i - 1] + values[i]
    PROVE  SumOf(values) = sums[n]
<1> DEFINE wrong == {k \in 0..n : SumOver(values, 1..k) # sums[k]}
<1>1. DOMAIN values = 1..n /\ IsFiniteSet(DOMAIN values) /\ \A i \in DOMAIN values : values[i] \in Int
  BY FS_Interval
<1>2. wrong = {}
  <2> SUFFICES ASSUME wrong # {} PROVE FALSE
    OBVIOUS
  <2>1. PICK k \in wrong : \A i \in wrong : k <= i
    <3>1. wrong \subseteq Nat
      OBVIOUS
    <3> HIDE DEF wrong
    <3> QED
      BY <3>1, NatMinimum
  <2>2. k # 0
    <3>1. 1..0 = {} /\ SumOver(values, {}) = 0
      BY <1>1, SumSteps
    <3> QED
      BY <3>1
  <2>3. k \in 1..n /\ k - 1 \in 0..n /\ (1..k) \ {k} = 1..k - 1 /\ 1..k \in SUBSET (1..n)
    <3>1. k \in 1..n /\ k - 1 \in 0..n
      BY <2>2
    <3> HIDE DEF wrong
    <3>2. k \in Int /\ n \in Int /\ 1 <= k /\ k <= n
      BY <3>1
    <3>3. (1..k) \ {k} = 1..k - 1
      <4>1. ASSUME NEW i \in Int PROVE i \in (1..k) \ {k} <=> i \in 1..k - 1
        BY <3>2
      <4>2. (1..k) \ {k} \subseteq Int /\ 1..k - 1 \subseteq Int
        OBVIOUS
      <4> QED
        BY <4>1, <4>2
    <3>4. 1..k \in SUBSET (1..n)
      BY <3>2
    <3> QED
      BY <3>1, <3>3, <3>4
  <2>4. SumOver(values, 1..k) = values[k] + SumOver(values, 1..k - 1)
    <3>1. \A T \in SUBSET (DOMAIN values) : \A x \in T : SumOver(values, T) = values[x] + SumOver(values, T \ {x})
      BY <1>1, SumRemoves
    <3>2. k \in 1..k
      BY <2>3
    <3>3. SumOver(values, 1..k) = values[k] + SumOver(values, (1..k) \ {k})
      BY <1>1, <2>3, <3>1, <3>2
    <3> QED
      BY <2>3, <3>3
  <2>5. SumOver(values, 1..k - 1) = sums[k - 1]
    <3>1. k - 1 \notin wrong
      <4> HIDE DEF wrong
      <4> QED
        BY <2>1, <2>3
    <3> QED
      BY <2>3, <3>1
  <2>6. sums[k] = sums[k - 1] + values[k] /\ sums[k - 1] \in Int /\ values[k] \in Int
    BY <2>3
  <2>7. SumOver(values, 1..k) = sums[k]
    BY <2>4, <2>5, <2>6
  <2> QED
    BY <2>7
<1>3. SumOver(values, 1..n) = sums[n]
  BY <1>2
<1> QED
  BY <1>1, <1>3, SumUnfolds

-----------------------------------------------------------------------------
\* Powers of ten
TensUpTo(g, n) == g = [k \in 0..n |-> IF k = 0 THEN 1 ELSE 10 * g[k - 1]]

LEMMA TensExist == \A n \in Nat : \E g : TensUpTo(g, n)
<1> DEFINE without == {n \in Nat : \A g : ~TensUpTo(g, n)}
<1> SUFFICES ASSUME without # {} PROVE FALSE
  OBVIOUS
<1>1. PICK n \in without : \A k \in without : n <= k
  <2>1. without \subseteq Nat
    OBVIOUS
  <2> HIDE DEF without
  <2> QED
    BY <2>1, NatMinimum
<1>2. n # 0
  <2>1. TensUpTo([k \in 0..0 |-> 1], 0)
    BY DEF TensUpTo
  <2> QED
    BY <2>1
<1>3. n \in Nat /\ n - 1 \in Nat /\ n - 1 \notin without
  <2>1. n \in Nat /\ n - 1 \in Nat
    BY <1>2
  <2> HIDE DEF without
  <2> QED
    BY <1>1, <2>1
<1>4. PICK g : TensUpTo(g, n - 1)
  BY <1>3
<1> DEFINE h == [k \in 0..n |-> IF k = 0 THEN 1 ELSE 10 * g[k - 1]]
<1>5. \A k \in 0..n - 1 : g[k] = (IF k = 0 THEN 1 ELSE 10 * g[k - 1]) /\ k \in 0..n
  BY <1>3, <1>4 DEF TensUpTo
<1>6. \A k \in 0..n - 1 : h[k] = g[k]
  BY <1>5
<1>7. ASSUME NEW k \in 0..n PROVE h[k] = IF k = 0 THEN 1 ELSE 10 * h[k - 1]
  <2>1. k # 0 => k - 1 \in 0..n - 1
    BY <1>3
  <2> QED
    BY <1>6, <2>1
<1>8. TensUpTo(h, n)
  <2>1. h = [k \in 0..n |-> h[k]]
    OBVIOUS
  <2> HIDE DEF h
  <2> QED
    BY <1>7, <2>1 DEF TensUpTo
<1> QED
  BY <1>8

\* They do not depend on how far they go.
LEMMA TensAgree ==
    ASSUME NEW m \in Nat, NEW n \in Nat, m <= n, NEW g, TensUpTo(g, m), NEW h, TensUpTo(h, n)
    PROVE  \A k \in 0..m : g[k] = h[k]
<1> DEFINE wrong == {k \in 0..m : g[k] # h[k]}
<1> SUFFICES ASSUME wrong # {} PROVE FALSE
  OBVIOUS
<1>1. PICK k \in wrong : \A i \in wrong : k <= i
  <2>1. wrong \subseteq Nat
    OBVIOUS
  <2> HIDE DEF wrong
  <2> QED
    BY <2>1, NatMinimum
<1>2. \A i \in 0..m : g[i] = (IF i = 0 THEN 1 ELSE 10 * g[i - 1]) /\ h[i] = (IF i = 0 THEN 1 ELSE 10 * h[i - 1])
  BY DEF TensUpTo
<1>3. k # 0
  BY <1>2
<1>4. k \in 0..m /\ k - 1 \in 0..m /\ k - 1 \notin wrong
  <2>1. k \in 0..m /\ k - 1 \in 0..m
    BY <1>3
  <2> HIDE DEF wrong
  <2> QED
    BY <1>1, <2>1
<1>5. g[k - 1] = h[k - 1]
  BY <1>4
<1>6. g[k] = h[k]
  BY <1>2, <1>3, <1>4, <1>5
<1> QED
  BY <1>6

LEMMA Tens == TenTo[0] = 1 /\ \A n \in Nat : TenTo[n + 1] = 10 * TenTo[n]
<1> DEFINE upTo(n) == CHOOSE g : TensUpTo(g, n)
           tens == [n \in Nat |-> upTo(n)[n]]
           Is(g) == g = [n \in Nat |-> IF n = 0 THEN 1 ELSE 10 * g[n - 1]]
<1>1. \A n \in Nat : TensUpTo(upTo(n), n)
  BY TensExist
<1> HIDE DEF upTo
<1>2. ASSUME NEW n \in Nat PROVE tens[n] = IF n = 0 THEN 1 ELSE 10 * tens[n - 1]
  <2>1. upTo(n)[n] = IF n = 0 THEN 1 ELSE 10 * upTo(n)[n - 1]
    BY <1>1 DEF TensUpTo
  <2>2. ASSUME n # 0 PROVE n - 1 \in Nat /\ upTo(n - 1)[n - 1] = upTo(n)[n - 1]
    <3>1. n - 1 \in Nat /\ n - 1 <= n /\ n - 1 \in 0..n - 1
      BY <2>2
    <3>2. \A k \in 0..n - 1 : upTo(n - 1)[k] = upTo(n)[k]
      BY <1>1, <3>1, TensAgree
    <3> QED
      BY <3>1, <3>2
  <2> QED
    BY <2>1, <2>2
<1>3. Is(tens)
  <2>1. tens = [n \in Nat |-> tens[n]]
    OBVIOUS
  <2> HIDE DEF tens
  <2> QED
    BY <1>2, <2>1
<1>4. TenTo = CHOOSE g : Is(g)
  BY DEF TenTo
<1>5. Is(TenTo)
  <2> HIDE DEF Is, tens
  <2> QED
    BY <1>3, <1>4
<1>6. \A n \in Nat : TenTo[n] = IF n = 0 THEN 1 ELSE 10 * TenTo[n - 1]
  <2> HIDE DEF tens
  <2> QED
    BY <1>5
<1>7. ASSUME NEW n \in Nat PROVE TenTo[n + 1] = 10 * TenTo[n]
  <2>1. n + 1 \in Nat /\ n + 1 # 0 /\ (n + 1) - 1 = n
    OBVIOUS
  <2> QED
    BY <1>6, <2>1
<1> QED
  BY <1>6, <1>7

-----------------------------------------------------------------------------
\* Amounts in XLM, and back
LEMMA TensArePositive == \A n \in Nat : TenTo[n] \in Nat /\ TenTo[n] > 0
<1> DEFINE wrong == {n \in Nat : ~(TenTo[n] \in Nat /\ TenTo[n] > 0)}
<1> SUFFICES ASSUME wrong # {} PROVE FALSE
  OBVIOUS
<1>1. PICK n \in wrong : \A k \in wrong : n <= k
  <2>1. wrong \subseteq Nat
    OBVIOUS
  <2> HIDE DEF wrong
  <2> QED
    BY <2>1, NatMinimum
<1>2. n # 0
  BY Tens
<1>3. n - 1 \in Nat /\ n - 1 \notin wrong
  <2>1. n \in Nat /\ n - 1 \in Nat
    BY <1>2
  <2> HIDE DEF wrong
  <2> QED
    BY <1>1, <2>1
<1>4. TenTo[n - 1] \in Nat /\ TenTo[n - 1] > 0 /\ TenTo[(n - 1) + 1] = 10 * TenTo[n - 1] /\ (n - 1) + 1 = n
  BY <1>3, Tens
<1>5. TenTo[n] \in Nat /\ TenTo[n] > 0
  BY <1>4
<1> QED
  BY <1>5

LEMMA TensMultiply == \A n \in Nat, m \in Nat : TenTo[m + n] = TenTo[m] * TenTo[n]
<1> SUFFICES ASSUME NEW m \in Nat PROVE \A n \in Nat : TenTo[m + n] = TenTo[m] * TenTo[n]
  OBVIOUS
<1> DEFINE wrong == {n \in Nat : TenTo[m + n] # TenTo[m] * TenTo[n]}
<1> SUFFICES ASSUME wrong # {} PROVE FALSE
  OBVIOUS
<1>1. PICK n \in wrong : \A k \in wrong : n <= k
  <2>1. wrong \subseteq Nat
    OBVIOUS
  <2> HIDE DEF wrong
  <2> QED
    BY <2>1, NatMinimum
<1>2. n # 0
  <2>1. TenTo[m + 0] = TenTo[m] * TenTo[0]
    BY Tens, TensArePositive
  <2> QED
    BY <2>1
<1>3. n \in Nat /\ n - 1 \in Nat /\ n - 1 \notin wrong
  <2>1. n \in Nat /\ n - 1 \in Nat
    BY <1>2
  <2> HIDE DEF wrong
  <2> QED
    BY <1>1, <2>1
<1>4. TenTo[m + (n - 1)] = TenTo[m] * TenTo[n - 1]
  BY <1>3
<1>5. /\ TenTo[(n - 1) + 1] = 10 * TenTo[n - 1] /\ (n - 1) + 1 = n
      /\ TenTo[(m + (n - 1)) + 1] = 10 * TenTo[m + (n - 1)] /\ (m + (n - 1)) + 1 = m + n
  BY <1>3, Tens
<1>6. TenTo[m] \in Nat /\ TenTo[n - 1] \in Nat
  BY <1>3, TensArePositive
<1>7. TenTo[m + n] = TenTo[m] * TenTo[n]
  BY <1>4, <1>5, <1>6
<1> QED
  BY <1>7

LEMMA DivisionIs ==
    ASSUME NEW a \in Nat, NEW b \in Nat, b > 0, NEW q \in Int, b * q <= a, a < b * q + b
    PROVE  a \div b = q
<1> DEFINE p == a \div b
<1>1. p \in Nat /\ b * p <= a /\ a < b * p + b
  BY Division
<1> HIDE DEF p
<1>2. ASSUME p < q PROVE FALSE
  <2>1. b * (p + 1) <= b * q
    BY <1>1, <1>2
  <2> QED
    BY <1>1, <2>1
<1>3. ASSUME q < p PROVE FALSE
  <2>1. b * (q + 1) <= b * p
    BY <1>1, <1>3
  <2> QED
    BY <1>1, <2>1
<1> QED
  BY <1>1, <1>2, <1>3 DEF p

\* One digit less
LEMMA TenthOf ==
    ASSUME NEW a \in Nat, NEW b \in Nat, b > 0
    PROVE  a \div (10 * b) = (a \div b) \div 10
<1> DEFINE p == a \div b
           q == p \div 10
<1>1. p \in Nat /\ b * p <= a /\ a < b * p + b
  BY Division
<1>2. q \in Nat /\ 10 * q <= p /\ p <= 10 * q + 9
  BY <1>1
<1> HIDE DEF p, q
<1>3. b * (10 * q) <= b * p /\ b * p <= b * (10 * q + 9)
  BY <1>1, <1>2
<1>4. (10 * b) * q <= a /\ a < (10 * b) * q + 10 * b
  BY <1>1, <1>2, <1>3
<1>5. a \div (10 * b) = q
  BY <1>2, <1>4, DivisionIs
<1> QED
  BY <1>5 DEF p, q

LEMMA LastDigit ==
    ASSUME NEW u \in Nat, NEW c \in Nat
    PROVE  u * c = (u \div 10) * (10 * c) + (u % 10) * c
<1> DEFINE d == u \div 10
           r == u % 10
<1>1. d \in Nat /\ r \in Nat /\ u = 10 * d + r
  OBVIOUS
<1> HIDE DEF d, r
<1>2. (10 * d + r) * c = d * (10 * c) + r * c
  BY <1>1
<1> QED
  BY <1>1, <1>2 DEF d, r

\* What stroops_to_xlm makes of an amount, in units of a precision of R stroops
Rounded(a, T, P, R) == (a \div T) * P + (a % T) \div R + (IF ((a % T) % R) * 2 >= R THEN 1 ELSE 0)

LEMMA RoundedIsNear ==
    ASSUME NEW a \in Nat, NEW P \in Nat, P > 0, NEW R \in Nat, R > 0, NEW T \in Nat, T = P * R
    PROVE  /\ Rounded(a, T, P, R) \in Nat
           /\ 2 * Abs(Rounded(a, T, P, R) * R - a) <= IF R = 1 THEN 0 ELSE R
<1> DEFINE w == a \div T
           f == a % T
           q == f \div R
           r == f % R
           c == IF r * 2 >= R THEN 1 ELSE 0
<1>1. T > 0
  OBVIOUS
<1>2. w \in Nat /\ f \in Nat /\ a = T * w + f
  BY <1>1
<1> HIDE DEF w, f
<1>3. q \in Nat /\ r \in Nat /\ f = R * q + r /\ r < R
  BY <1>2
<1> HIDE DEF q, r
<1>4. c \in 0..1 /\ 2 * (c * R - r) <= R /\ 2 * (r - c * R) <= R /\ (R = 1 => c = 0 /\ r = 0)
  BY <1>3
<1>5. Rounded(a, T, P, R) = w * P + q + c
  BY DEF Rounded, w, f, q, r
<1> HIDE DEF c
<1>6. w * P + q + c \in Nat
  BY <1>2, <1>3, <1>4
<1>7. (w * P + q + c) * R = w * (P * R) + q * R + c * R
  BY <1>2, <1>3, <1>4
<1>8. w * (P * R) = T * w /\ q * R = R * q
  BY <1>2, <1>3
<1>9. (w * P + q + c) * R - a = c * R - r
  BY <1>2, <1>3, <1>4, <1>7, <1>8
<1>10. 2 * Abs(c * R - r) <= IF R = 1 THEN 0 ELSE R
  <2> DEFINE d == c * R - r
  <2>1. d \in Int /\ 2 * d <= R /\ 2 * (-d) <= R /\ (R = 1 => d = 0)
    BY <1>3, <1>4
  <2> HIDE DEF d
  <2>2. 2 * Abs(d) <= IF R = 1 THEN 0 ELSE R
    BY <2>1 DEF Abs
  <2> QED
    BY <2>2 DEF d
<1> QED
  BY <1>5, <1>6, <1>9, <1>10

\* The digits of a fraction are worth what they were taken from: the digit before the last i is
\* what a tenth of the number drops.
LEMMA DigitsAreWorth ==
    ASSUME NEW t \in Nat, NEW p \in 0..Decimals, NEW text,
           text.fraction = [i \in 1..p |-> (t \div TenTo[p - i]) % 10]
    PROVE  FractionOf(text) = t * TenTo[Decimals - p] - (t \div TenTo[p]) * TenTo[Decimals]
<1> DEFINE D == Decimals
           upTo(k) == t \div TenTo[p - k]
           whole == (t \div TenTo[p]) * TenTo[D]
           sums == [k \in 0..D |-> (IF k <= p THEN upTo(k) * TenTo[D - k] ELSE t * TenTo[D - p]) - whole]
           values == [i \in 1..D |-> IF i <= Len(text.fraction) THEN text.fraction[i] * TenTo[D - i] ELSE 0]
<1>1. D \in Nat /\ p \in Nat /\ p <= D /\ \A n \in Nat : TenTo[n] \in Nat /\ TenTo[n] > 0
  BY FeesAssumption, TensArePositive
<1>2. \A k \in 0..p : upTo(k) \in Nat /\ TenTo[D - k] \in Nat
  <2> SUFFICES ASSUME NEW k \in 0..p PROVE upTo(k) \in Nat /\ TenTo[D - k] \in Nat
    OBVIOUS
  <2>1. TenTo[p - k] \in Nat /\ TenTo[p - k] > 0 /\ TenTo[D - k] \in Nat
    BY <1>1
  <2> QED
    BY <2>1, Division
<1>3. Len(text.fraction) = p /\ \A i \in 1..p : text.fraction[i] = upTo(i) % 10
  BY <1>1
<1>4. whole \in Int /\ t * TenTo[D - p] \in Int
  <2>1. TenTo[D] \in Nat /\ TenTo[p] \in Nat /\ TenTo[p] > 0 /\ TenTo[D - p] \in Nat
    BY <1>1
  <2>2. t \div TenTo[p] \in Nat
    BY <2>1, Division
  <2> QED
    BY <2>1, <2>2
<1>5. sums[0] = 0
  BY <1>1, <1>4
<1>6. \A i \in 1..p : upTo(i) * TenTo[D - i] = upTo(i - 1) * TenTo[D - (i - 1)] + (upTo(i) % 10) * TenTo[D - i]
  <2> SUFFICES ASSUME NEW i \in 1..p
               PROVE  upTo(i) * TenTo[D - i] = upTo(i - 1) * TenTo[D - (i - 1)] + (upTo(i) % 10) * TenTo[D - i]
    OBVIOUS
  <2> DEFINE b == TenTo[p - i]
             c == TenTo[D - i]
             u == t \div b
  <2>1. p - i \in Nat /\ D - i \in Nat /\ (p - i) + 1 = p - (i - 1) /\ (D - i) + 1 = D - (i - 1)
    BY <1>1
  <2>2. b \in Nat /\ b > 0 /\ c \in Nat
    BY <1>1, <2>1
  <2>3. TenTo[p - (i - 1)] = 10 * b /\ TenTo[D - (i - 1)] = 10 * c
    <3>1. TenTo[(p - i) + 1] = 10 * TenTo[p - i] /\ TenTo[(D - i) + 1] = 10 * TenTo[D - i]
      BY <2>1, Tens
    <3> QED
      BY <2>1, <3>1
  <2> HIDE DEF b, c
  <2>4. upTo(i - 1) = u \div 10 /\ u \in Nat
    BY <2>2, <2>3, TenthOf, Division
  <2> HIDE DEF u
  <2>5. u * c = (u \div 10) * (10 * c) + (u % 10) * c
    <3>1. u \in Nat
      BY <2>4
    <3> QED
      BY <2>2, <3>1, LastDigit
  <2>6. upTo(i) = u /\ TenTo[D - i] = c
    BY DEF b, c, u
  <2> QED
    BY <2>3, <2>4, <2>5, <2>6
<1> HIDE DEF upTo, whole
<1>7. upTo(p) = t
  <2>1. p - p = 0 /\ t \div 1 = t
    BY <1>1
  <2> QED
    BY <2>1, Tens DEF upTo
<1>8. values \in [1..D -> Int]
  <2>1. \A i \in 1..D : values[i] \in Int
    <3> SUFFICES ASSUME NEW i \in 1..D PROVE values[i] \in Int
      OBVIOUS
    <3>1. CASE i <= p
      <4>1. i \in 1..p /\ i \in 0..p
        BY <1>1, <3>1
      <4>2. (upTo(i) % 10) * TenTo[D - i] \in Int
        BY <1>2, <4>1
      <4> QED
        BY <1>3, <3>1, <4>1, <4>2
    <3>2. CASE ~(i <= p)
      BY <1>3, <3>2
    <3> QED
      BY <3>1, <3>2
  <2> QED
    BY <2>1
<1>9. sums \in [0..D -> Int]
  <2>1. \A k \in 0..D : sums[k] \in Int
    <3> SUFFICES ASSUME NEW k \in 0..D PROVE sums[k] \in Int
      OBVIOUS
    <3>1. CASE k <= p
      <4>1. k \in 0..p
        BY <1>1, <3>1
      <4>2. upTo(k) * TenTo[D - k] \in Int
        BY <1>2, <4>1
      <4> QED
        BY <1>4, <3>1, <4>2
    <3>2. CASE ~(k <= p)
      BY <1>4, <3>2
    <3> QED
      BY <3>1, <3>2
  <2> QED
    BY <2>1
<1>10. \A i \in 1..D : sums[i] = sums[i - 1] + values[i]
  <2> SUFFICES ASSUME NEW i \in 1..D PROVE sums[i] = sums[i - 1] + values[i]
    OBVIOUS
  <2>1. CASE i <= p
    <3>1. i \in 1..p /\ i - 1 <= p /\ i \in 0..D /\ i - 1 \in 0..D /\ i \in 0..p /\ i - 1 \in 0..p
      BY <1>1, <2>1
    <3>2. values[i] = (upTo(i) % 10) * TenTo[D - i]
      BY <1>3, <2>1, <3>1
    <3>3. sums[i] = upTo(i) * TenTo[D - i] - whole /\ sums[i - 1] = upTo(i - 1) * TenTo[D - (i - 1)] - whole
      BY <2>1, <3>1
    <3>a. upTo(i) % 10 \in Nat /\ upTo(i - 1) \in Nat /\ upTo(i) \in Nat /\ TenTo[D - i] \in Nat /\ TenTo[D - (i - 1)] \in Nat
      BY <1>2, <3>1
    <3>4. PICK x, y, z \in Int : /\ x = upTo(i) * TenTo[D - i] /\ y = upTo(i - 1) * TenTo[D - (i - 1)]
                                 /\ z = (upTo(i) % 10) * TenTo[D - i]
      <4> HIDE DEF sums, values
      <4>1. upTo(i) * TenTo[D - i] \in Int
        BY <3>a
      <4>2. upTo(i - 1) * TenTo[D - (i - 1)] \in Int
        BY <3>a
      <4>3. (upTo(i) % 10) * TenTo[D - i] \in Int
        BY <3>a
      <4> QED
        BY <4>1, <4>2, <4>3
    <3>5. x = y + z
      BY <1>6, <3>1, <3>4
    <3> HIDE DEF sums, values
    <3> QED
      BY <1>4, <3>2, <3>3, <3>4, <3>5
  <2>2. CASE ~(i <= p)
    <3>1. i \in 0..D /\ i - 1 \in 0..D
      BY <1>1
    <3>2. values[i] = 0
      BY <1>3, <2>2
    <3>3. sums[i] = t * TenTo[D - p] - whole
      BY <2>2, <3>1
    <3>4. sums[i - 1] = t * TenTo[D - p] - whole
      <4>1. CASE i - 1 <= p
        <5>1. i - 1 = p
          BY <1>1, <2>2, <4>1
        <5> QED
          BY <1>7, <3>1, <4>1, <5>1
      <4>2. CASE ~(i - 1 <= p)
        BY <3>1, <4>2
      <4> QED
        BY <4>1, <4>2
    <3> HIDE DEF sums, values
    <3> QED
      BY <1>4, <3>2, <3>3, <3>4
  <2> QED
    BY <2>1, <2>2
<1>11. sums[D] = t * TenTo[D - p] - whole
  <2>1. CASE D = p
    BY <1>1, <1>7, <2>1
  <2>2. CASE D # p
    BY <1>1, <2>2
  <2> QED
    BY <2>1, <2>2
<1>12. FractionOf(text) = SumOf(values)
  BY DEF FractionOf
<1> HIDE DEF sums, values
<1>13. SumOf(values) = sums[D]
  BY <1>1, <1>5, <1>8, <1>9, <1>10, SumIsLast
<1> QED
  BY <1>11, <1>12, <1>13 DEF whole

I64 == {x \in Int : InRange(x)}

\* What AmountsRoundTrip says of an amount s and a precision p
ReadsAgain(s, p) ==
    LET unit == IF p = Decimals THEN 0 ELSE TenTo[Decimals - p]
        read == Stroops(Xlm(s, p))
    IN \/ \E x \in read : 2 * Abs(x - s) <= unit
       \/ read = {} /\ \E end \in {I64Min, I64Max} : 2 * Abs(end - s) < unit

\* What is near an amount that an i64 holds, and is not held itself, is past an end.
LEMMA OutIsPastTheEnd ==
    ASSUME NEW s \in I64, NEW x \in Int, ~InRange(x), NEW unit \in Nat, 2 * Abs(x - s) <= unit
    PROVE  \E end \in {I64Min, I64Max} : 2 * Abs(end - s) < unit
<1>1. s \in Int /\ I64Min \in Int /\ I64Max \in Int /\ I64Min <= s /\ s <= I64Max
  BY FeesAssumption DEF I64, InRange, I64Min
<1>2. CASE x > I64Max
  <2>1. 2 * Abs(I64Max - s) < unit
    BY <1>1, <1>2 DEF Abs
  <2> QED
    BY <2>1
<1>3. CASE x < I64Min
  <2>1. 2 * Abs(I64Min - s) < unit
    BY <1>1, <1>3 DEF Abs
  <2> QED
    BY <2>1
<1> QED
  BY <1>1, <1>2, <1>3 DEF InRange

LEMMA AmountReadAgain == ASSUME NEW s \in I64, NEW p \in 0..Decimals PROVE ReadsAgain(s, p)
<1> DEFINE D == Decimals
           a == IF s < 0 THEN -s ELSE s
           T == TenTo[D]
           P == TenTo[p]
           R == TenTo[D - p]
           t == Rounded(a, T, P, R)
           text == Xlm(s, p)
<1>1. D \in Nat /\ p \in Nat /\ D - p \in Nat /\ p <= D /\ ~(p > D) /\ p + (D - p) = D
  BY FeesAssumption
<1>2. T \in Nat /\ P \in Nat /\ R \in Nat /\ T > 0 /\ P > 0 /\ R > 0
  BY <1>1, TensArePositive
<1>3. T = P * R
  BY <1>1, TensMultiply
<1>4. R = 1 <=> p = D
  <2>1. CASE p = D
    <3>1. D - p = 0
      BY <1>1, <2>1
    <3> QED
      BY <2>1, <3>1, Tens
  <2>2. CASE p # D
    <3>1. (D - p) - 1 \in Nat /\ ((D - p) - 1) + 1 = D - p
      BY <1>1, <2>2
    <3>2. TenTo[D - p] = 10 * TenTo[(D - p) - 1] /\ TenTo[(D - p) - 1] \in Nat
      BY <3>1, Tens, TensArePositive
    <3> QED
      BY <2>2, <3>2
  <2> QED
    BY <2>1, <2>2
<1>5. s \in Int /\ a \in Nat
  BY DEF I64
<1>6. /\ text.negative = (s < 0)
      /\ text.whole = t \div P
      /\ text.fraction = [i \in 1..p |-> (t \div TenTo[p - i]) % 10]
  <2>1. t = (a \div T) * P + ((a % T) \div R + (IF ((a % T) % R) * 2 >= R THEN 1 ELSE 0))
    <3>1. (a \div T) * P \in Int /\ (a % T) \div R \in Int
      <4>1. a \div T \in Nat /\ a % T \in Nat
        BY <1>2, <1>5
      <4> QED
        BY <1>2, <4>1
    <3> HIDE DEF a, T, P, R
    <3> QED
      BY <3>1 DEF Rounded
  <2> HIDE DEF t
  <2> QED
    BY <1>1, <2>1 DEF Xlm
<1> HIDE DEF a, T, P, R, t, text
<1>7. t \in Nat /\ 2 * Abs(t * R - a) <= IF R = 1 THEN 0 ELSE R
  BY <1>2, <1>3, <1>5, RoundedIsNear DEF t
<1>8. FractionOf(text) = t * R - (t \div P) * T
  BY <1>6, <1>7, DigitsAreWorth DEF R, P, T
<1>9. t \div P \in Nat
  BY <1>2, <1>7
<1>10. text.whole * T + FractionOf(text) = t * R
  BY <1>2, <1>6, <1>7, <1>8, <1>9
<1> DEFINE signed == IF s < 0 THEN -(t * R) ELSE t * R
           unit == IF p = D THEN 0 ELSE R
<1>11. Stroops(text) = IF InRange(signed) THEN {signed} ELSE {}
  BY <1>6, <1>10 DEF Stroops, T
<1>12. signed \in Int /\ 2 * Abs(signed - s) <= unit /\ unit \in Nat
  <2>1. t * R \in Int
    BY <1>2, <1>7
  <2>2. Abs(signed - s) = Abs(t * R - a)
    BY <1>5, <2>1 DEF Abs, a
  <2> QED
    BY <1>2, <1>4, <1>7, <2>1, <2>2
<1> HIDE DEF signed, unit
<1>13. ReadsAgain(s, p) <=> \/ \E x \in Stroops(text) : 2 * Abs(x - s) <= unit
                            \/ Stroops(text) = {} /\ \E end \in {I64Min, I64Max} : 2 * Abs(end - s) < unit
  <2>1. text = Xlm(s, p) /\ unit = IF p = Decimals THEN 0 ELSE TenTo[Decimals - p]
    BY DEF unit, R, text
  <2> QED
    BY <2>1, Zenon DEF ReadsAgain
<1>14. CASE InRange(signed)
  <2>1. signed \in Stroops(text) /\ 2 * Abs(signed - s) <= unit
    BY <1>11, <1>12, <1>14
  <2>2. \E x \in Stroops(text) : 2 * Abs(x - s) <= unit
    <3> HIDE DEF text
    <3> QED
      BY <2>1
  <2> QED
    BY <1>13, <2>2
<1>15. CASE ~InRange(signed)
  BY <1>11, <1>12, <1>13, <1>15, OutIsPastTheEnd
<1> QED
  BY <1>14, <1>15

-----------------------------------------------------------------------------
\* Newton's method
NewtonStep(v, x) == (x + v \div x) \div 2

Roots(g, v) == g = [x \in 1..v |-> IF NewtonStep(v, x) < x THEN g[NewtonStep(v, x)] ELSE x]

LEMMA RootUnfolds ==
    ASSUME NEW v
    PROVE  Isqrt(v) = IF v < 2 \/ v \div 2 + 1 >= v THEN v ELSE (CHOOSE g : Roots(g, v))[v \div 2 + 1]
BY DEF Isqrt, Roots, NewtonStep

\* A step ends at or above the root, and goes up only from below or at it.
LEMMA NewtonApproaches ==
    ASSUME NEW v \in Nat, NEW x \in 1..v
    PROVE  LET y == NewtonStep(v, x)
           IN  y \in Nat /\ y >= 1 /\ v < (y + 1) * (y + 1) /\ (y >= x => x * x <= v)
<1> DEFINE q == v \div x
           y == (x + q) \div 2
<1>1. x \in Nat /\ x >= 1 /\ x <= v
  OBVIOUS
<1>2. q \in Nat /\ x * q <= v /\ v < x * q + x
  BY <1>1, Division
<1> HIDE DEF q
<1>3. q >= 1
  <2> SUFFICES ASSUME q = 0 PROVE FALSE
    BY <1>2
  <2> QED
    BY <1>1, <1>2
<1>4. y \in Nat /\ y >= 1 /\ x + q <= 2 * y + 1 /\ 2 * y <= x + q
  BY <1>1, <1>2, <1>3
<1> HIDE DEF y
<1>5. v < (y + 1) * (y + 1)
  <2> DEFINE d == x - (q + 1)
             m == x + q + 1
             z == 2 * (y + 1)
  <2>1. d * d >= 0 /\ m * m = d * d + 4 * (x * (q + 1))
    BY <1>1, <1>2
  <2>2. m \in Nat /\ z \in Nat /\ m <= z
    BY <1>1, <1>2, <1>4
  <2>3. m * m <= z * z /\ m * m \in Int /\ z * z \in Int
    <3> HIDE DEF m, z
    <3>1. m * m <= m * z /\ m * z <= z * z
      BY <2>2
    <3> QED
      BY <2>2, <3>1
  <2>4. z * z = 4 * ((y + 1) * (y + 1))
    BY <1>4
  <2>5. x * (q + 1) = x * q + x
    BY <1>1, <1>2
  <2>6. PICK a, b, c, e \in Int : a = m * m /\ b = z * z /\ c = x * (q + 1) /\ e = (y + 1) * (y + 1)
    BY <1>1, <1>2, <1>4, <2>3
  <2>7. PICK f \in Int : f = d * d
    BY <1>1, <1>2
  <2>8. f >= 0 /\ a = f + 4 * c /\ a <= b /\ b = 4 * e /\ v < c
    BY <1>2, <2>1, <2>3, <2>4, <2>5, <2>6, <2>7
  <2>9. v < e
    <3> HIDE DEF d, m, z
    <3> QED
      BY <2>6, <2>7, <2>8
  <2> QED
    BY <2>6, <2>9
<1>6. ASSUME y >= x PROVE x * x <= v
  <2>1. q >= x
    BY <1>1, <1>2, <1>4, <1>6
  <2>2. x * x <= x * q
    BY <1>1, <1>2, <2>1
  <2> QED
    BY <1>1, <1>2, <2>2
<1> QED
  BY <1>4, <1>5, <1>6 DEF NewtonStep, y, q

LEMMA RootsExist == ASSUME NEW v \in Nat PROVE \E g : Roots(g, v)
<1> DEFINE next(x) == NewtonStep(v, x)
           upTo(g, n) == g = [x \in 1..n |-> IF next(x) < x THEN g[next(x)] ELSE x]
           without == {n \in 0..v : \A g : ~upTo(g, n)}
<1>1. without = {}
  <2> SUFFICES ASSUME without # {} PROVE FALSE
    OBVIOUS
  <2>1. PICK n \in without : \A k \in without : n <= k
    <3>1. without \subseteq Nat
      OBVIOUS
    <3> HIDE DEF without
    <3> QED
      BY <3>1, NatMinimum
  <2>2. n \in 0..v /\ \A g : ~upTo(g, n)
    OBVIOUS
  <2>3. n # 0
    <3> DEFINE g == [x \in 1..0 |-> 0]
    <3>1. upTo(g, 0)
      <4>1. 1..0 = {}
        OBVIOUS
      <4> QED
        BY <4>1
    <3> HIDE DEF upTo
    <3> QED
      BY <2>2, <3>1
  <2>4. n \in Nat /\ n >= 1 /\ n <= v /\ n - 1 \in 0..v /\ n - 1 \notin without
    <3>1. n \in Nat /\ n >= 1 /\ n <= v /\ n - 1 \in 0..v
      BY <2>2, <2>3
    <3> HIDE DEF without
    <3> QED
      BY <2>1, <3>1
  <2>5. PICK g : upTo(g, n - 1)
    <3> HIDE DEF upTo
    <3> QED
      BY <2>4
  <2> DEFINE h == [x \in 1..n |-> IF next(x) < x THEN g[next(x)] ELSE x]
  <2>6. ASSUME NEW x \in 1..n, next(x) < x PROVE next(x) \in 1..n - 1 /\ next(x) \in 1..n
    <3>1. x \in 1..v /\ next(x) \in Nat /\ next(x) >= 1
      <4>1. x \in 1..v
        BY <2>4
      <4> QED
        BY <4>1, NewtonApproaches
    <3> HIDE DEF next
    <3> QED
      BY <2>4, <2>6, <3>1
  <2> HIDE DEF next
  <2>7. \A x \in 1..n - 1 : x \in 1..n /\ h[x] = g[x]
    <3>1. \A x \in 1..n - 1 : g[x] = IF next(x) < x THEN g[next(x)] ELSE x
      BY <2>5
    <3>2. \A x \in 1..n - 1 : x \in 1..n
      BY <2>4
    <3> QED
      BY <3>1, <3>2
  <2>8. \A x \in 1..n : h[x] = IF next(x) < x THEN h[next(x)] ELSE x
    BY <2>6, <2>7
  <2>9. upTo(h, n)
    <3>1. h = [x \in 1..n |-> h[x]]
      OBVIOUS
    <3> HIDE DEF h
    <3> QED
      BY <2>8, <3>1
  <2> HIDE DEF upTo
  <2> QED
    BY <2>2, <2>9
<1>2. PICK g : upTo(g, v)
  <2> HIDE DEF upTo
  <2>1. v \in 0..v
    OBVIOUS
  <2> QED
    BY <1>1, <2>1
<1> QED
  BY <1>2 DEF Roots

\* What the deviation is of a variance
IsRoot(sd, v) == IF v = 2 THEN sd = 2 ELSE sd * sd <= v /\ v < (sd + 1) * (sd + 1)

LEMMA IsqrtIsRoot == ASSUME NEW v \in Nat PROVE IsRoot(Isqrt(v), v)
<1> DEFINE g == CHOOSE g : Roots(g, v)
           wrong == {x \in 1..v : v < (x + 1) * (x + 1) /\ ~(g[x] * g[x] <= v /\ v < (g[x] + 1) * (g[x] + 1))}
<1>1. \A x \in 1..v : g[x] = IF NewtonStep(v, x) < x THEN g[NewtonStep(v, x)] ELSE x
  <2>1. Roots(g, v)
    BY RootsExist
  <2> HIDE DEF g
  <2> QED
    BY <2>1 DEF Roots
<1> HIDE DEF g
<1>2. wrong = {}
  <2> SUFFICES ASSUME wrong # {} PROVE FALSE
    OBVIOUS
  <2>1. PICK x \in wrong : \A k \in wrong : x <= k
    <3>1. wrong \subseteq Nat
      OBVIOUS
    <3> HIDE DEF wrong
    <3> QED
      BY <3>1, NatMinimum
  <2> DEFINE y == NewtonStep(v, x)
  <2>2. y \in Nat /\ y >= 1 /\ v < (y + 1) * (y + 1) /\ (y >= x => x * x <= v)
    BY NewtonApproaches
  <2>3. g[x] = (IF y < x THEN g[y] ELSE x) /\ x \in 1..v /\ v < (x + 1) * (x + 1)
    BY <1>1
  <2> HIDE DEF y
  <2>4. CASE y < x
    <3>1. y \in 1..v /\ ~(x <= y)
      BY <2>2, <2>3, <2>4
    <3>2. y \notin wrong
      <4> HIDE DEF wrong
      <4> QED
        BY <2>1, <3>1
    <3> QED
      BY <2>2, <2>3, <2>4, <3>1, <3>2
  <2>5. CASE ~(y < x)
    <3>1. g[x] = x /\ x * x <= v
      BY <2>2, <2>3, <2>5
    <3> QED
      BY <2>3, <3>1
  <2> QED
    BY <2>4, <2>5
<1>3. CASE v < 2
  <2>1. Isqrt(v) = v
    BY <1>3, RootUnfolds
  <2>2. v = 0 \/ v = 1
    BY <1>3
  <2> QED
    BY <2>1, <2>2 DEF IsRoot
<1>4. CASE v = 2
  <2>1. 2 \div 2 + 1 >= 2
    OBVIOUS
  <2> QED
    BY <1>4, <2>1, RootUnfolds DEF IsRoot
<1>5. CASE v > 2
  <2> DEFINE first == v \div 2 + 1
  <2>1. first \in 1..v /\ first < v /\ v < 2 * first
    BY <1>5
  <2>2. Isqrt(v) = g[first]
    BY <1>5, <2>1, RootUnfolds DEF g
  <2> HIDE DEF first
  <2>3. v < (first + 1) * (first + 1)
    <3>1. (first + 1) * (first + 1) = first * first + 2 * first + 1 /\ first * first >= 0
      BY <2>1
    <3> QED
      BY <2>1, <3>1
  <2>4. first \notin wrong
    BY <1>2
  <2> QED
    BY <1>5, <2>1, <2>2, <2>3, <2>4 DEF IsRoot
<1> QED
  BY <1>3, <1>4, <1>5

-----------------------------------------------------------------------------
\* The distribution of some fees
LEMMA QuotientBetween ==
    ASSUME NEW s \in Int, NEW n \in Nat, n > 0, NEW lo \in Int, NEW hi \in Int, lo * n <= s, s <= hi * n
    PROVE  Quotient(s, n) \in Int /\ lo <= Quotient(s, n) /\ Quotient(s, n) <= hi
<1>1. ASSUME NEW a \in Nat, NEW low \in Int, NEW high \in Int, low * n <= a, a <= high * n
      PROVE  a \div n \in Int /\ low <= a \div n /\ a \div n <= high
  <2> DEFINE q == a \div n
  <2>1. q \in Nat /\ n * q <= a /\ a < n * q + n
    BY Division
  <2> HIDE DEF q
  <2>2. ASSUME q < low PROVE FALSE
    <3>1. n * (q + 1) <= n * low /\ n * low = low * n
      BY <2>1, <2>2
    <3> QED
      BY <1>1, <2>1, <3>1
  <2>3. ASSUME high < q PROVE FALSE
    <3>1. n * (high + 1) <= n * q /\ n * (high + 1) = high * n + n
      BY <2>1, <2>3
    <3> QED
      BY <1>1, <2>1, <3>1
  <2> QED
    BY <2>1, <2>2, <2>3 DEF q
<1>2. CASE s >= 0
  <2>1. s \in Nat
    BY <1>2
  <2> QED
    BY <1>1, <1>2, <2>1 DEF Quotient
<1>3. CASE s < 0
  <2>1. -s \in Nat /\ (-hi) * n <= -s /\ -s <= (-lo) * n /\ -hi \in Int /\ -lo \in Int
    BY <1>3
  <2>2. PICK q \in Int : q = (-s) \div n /\ -hi <= q /\ q <= -lo
    BY <1>1, <2>1
  <2>3. Quotient(s, n) = -q
    BY <1>3, <2>2 DEF Quotient
  <2> QED
    BY <2>2, <2>3
<1> QED
  BY <1>2, <1>3

\* at[k] is where the k-th of the sorted fees was.
Sorts(at, fees, n) ==
    /\ at \in [1..n -> 1..n]
    /\ \A i \in 1..n : \E k \in 1..n : at[k] = i
    /\ \A j, k \in 1..n : j < k => at[j] # at[k] /\ fees[at[j]] <= fees[at[k]]
    /\ \A k \in 1..n : Sorted(fees)[k] = fees[at[k]]

LEMMA SortedFees ==
    ASSUME NEW n \in Nat, NEW fees \in [1..n -> Int]
    PROVE  Len(fees) = n /\ Len(Sorted(fees)) = n /\ \E at : Sorts(at, fees, n)
<1> DEFINE order == Descending(fees)
           at == [k \in 1..n |-> order[n + 1 - k]]
<1>1. Len(fees) = n /\ DOMAIN fees = 1..n /\ IsFiniteSet(1..n) /\ Cardinality(1..n) = n
  BY FS_Interval
<1>2. /\ order \in [1..n -> 1..n]
      /\ \A i \in 1..n : \E k \in 1..n : order[k] = i
      /\ \A j, k \in 1..n : j < k => order[j] # order[k] /\ fees[order[j]] >= fees[order[k]]
  <2>1. IsFiniteSet(DOMAIN fees) /\ \A i \in DOMAIN fees : fees[i] \in Int
    BY <1>1
  <2> HIDE DEF order
  <2>2. /\ Descending(fees) \in [1..Cardinality(DOMAIN fees) -> DOMAIN fees]
        /\ \A i \in DOMAIN fees : \E k \in 1..Cardinality(DOMAIN fees) : Descending(fees)[k] = i
        /\ \A j, k \in 1..Cardinality(DOMAIN fees) :
              j < k => Descending(fees)[j] # Descending(fees)[k] /\ fees[Descending(fees)[j]] >= fees[Descending(fees)[k]]
    BY <2>1, DescendingMembers
  <2> QED
    BY <1>1, <2>2 DEF order
<1>3. Sorted(fees) = [k \in 1..n |-> fees[order[n + 1 - k]]]
  BY <1>1 DEF Sorted
<1> HIDE DEF order
<1>4. \A k \in 1..n : n + 1 - k \in 1..n
  OBVIOUS
<1>5. at \in [1..n -> 1..n]
  BY <1>2, <1>4
<1>6. Sorted(fees) \in [1..n -> Int]
  BY <1>2, <1>3, <1>4
<1>7. Len(Sorted(fees)) = n
  BY <1>6
<1>8. \A k \in 1..n : Sorted(fees)[k] = fees[at[k]]
  BY <1>3
<1>9. ASSUME NEW i \in 1..n PROVE \E k \in 1..n : at[k] = i
  <2>1. PICK k \in 1..n : order[k] = i
    BY <1>2
  <2>2. n + 1 - k \in 1..n /\ n + 1 - (n + 1 - k) = k
    OBVIOUS
  <2> QED
    BY <2>1, <2>2
<1>10. ASSUME NEW j \in 1..n, NEW k \in 1..n, j < k PROVE at[j] # at[k] /\ fees[at[j]] <= fees[at[k]]
  <2>1. n + 1 - k \in 1..n /\ n + 1 - j \in 1..n /\ n + 1 - k < n + 1 - j
    BY <1>10
  <2>2. order[n + 1 - k] # order[n + 1 - j] /\ fees[order[n + 1 - k]] >= fees[order[n + 1 - j]]
    BY <1>2, <2>1
  <2>3. fees[order[n + 1 - k]] \in Int /\ fees[order[n + 1 - j]] \in Int
    BY <1>2, <2>1
  <2> QED
    BY <2>1, <2>2, <2>3
<1>11. Sorts(at, fees, n)
  <2> HIDE DEF at
  <2> QED
    BY <1>5, <1>8, <1>9, <1>10 DEF Sorts
<1> QED
  BY <1>1, <1>7, <1>11

\* Half of the fees are no more, and half no less, than the median.
LEMMA MedianIsBetween ==
    ASSUME NEW n \in Nat, n > 0, NEW fees \in [1..n -> Int], NEW at, Sorts(at, fees, n)
    PROVE  LET m == Median(Sorted(fees)) IN
           /\ m \in Int
           /\ (n + 1) \div 2 \in 1..n /\ fees[at[(n + 1) \div 2]] <= m
           /\ n \div 2 + 1 \in 1..n /\ m <= fees[at[n \div 2 + 1]]
<1> DEFINE sorted == Sorted(fees)
           m == Median(sorted)
           l == n \div 2
           h == (n + 1) \div 2
<1>1. Len(sorted) = n
  BY SortedFees
<1>2. \A k \in 1..n : sorted[k] = fees[at[k]] /\ fees[at[k]] \in Int
  BY DEF Sorts
<1>3. l \in Nat /\ l + 1 \in 1..n /\ h \in 1..n
  OBVIOUS
<1> HIDE DEF sorted
<1>4. CASE n % 2 = 1
  <2>1. h = l + 1
    BY <1>4
  <2>2. m = sorted[l + 1]
    BY <1>1, <1>4 DEF Median
  <2> HIDE DEF h, l, m
  <2>3. m \in Int /\ fees[at[h]] <= m /\ m <= fees[at[l + 1]]
    BY <1>2, <1>3, <2>1, <2>2
  <2> QED
    BY <1>3, <2>3 DEF h, l, m, sorted
<1>5. CASE n % 2 # 1
  <2>1. h = l /\ l \in 1..n /\ l < l + 1
    BY <1>5
  <2>2. m = Quotient(sorted[l] + sorted[l + 1], 2)
    BY <1>1, <1>5 DEF Median
  <2> HIDE DEF h, l, m
  <2>3. PICK a, b \in Int : a = sorted[l] /\ b = sorted[l + 1] /\ a = fees[at[l]] /\ b = fees[at[l + 1]]
    BY <1>2, <1>3, <2>1
  <2>4. a <= b
    <3>1. fees[at[l]] <= fees[at[l + 1]]
      BY <1>3, <2>1 DEF Sorts
    <3> QED
      BY <2>3, <3>1
  <2>5. PICK both \in Int, two \in Nat : both = a + b /\ two = 2 /\ a * two <= both /\ both <= b * two
    BY <2>4
  <2>6. Quotient(both, two) \in Int /\ a <= Quotient(both, two) /\ Quotient(both, two) <= b
    <3>1. two > 0
      BY <2>5
    <3> QED
      BY <2>5, <3>1, QuotientBetween
  <2> QED
    BY <1>3, <2>1, <2>2, <2>3, <2>5, <2>6 DEF h, l, m, sorted
<1> QED
  BY <1>4, <1>5

\* The places of fees at most x, and how many there are.
UpTo(fees, n, x) == {i \in 1..n : fees[i] <= x}
NumberUpTo(fees, n, x) == Cardinality(UpTo(fees, n, x))

LEMMA HalfBelow ==
    ASSUME NEW n \in Nat, n > 0, NEW fees \in [1..n -> Int], NEW at, Sorts(at, fees, n), NEW m \in Int
    PROVE  /\ \A h \in 1..n : fees[at[h]] <= m => h <= NumberUpTo(fees, n, m)
           /\ \A l \in 0..n - 1 : m <= fees[at[l + 1]] => NumberUpTo(fees, n, m - 1) <= l
           /\ NumberUpTo(fees, n, m) \in Nat
           /\ NumberUpTo(fees, n, m - 1) \in Nat
<1> DEFINE below(x) == {i \in 1..n : fees[i] <= x}
<1>1. IsFiniteSet(1..n)
  BY FS_Interval
<1>2. ASSUME NEW x \in Int PROVE IsFiniteSet(below(x)) /\ Cardinality(below(x)) \in Nat
  <2>1. below(x) \in SUBSET (1..n)
    OBVIOUS
  <2> HIDE DEF below
  <2> QED
    BY <1>1, <2>1, FS_Subset, FS_CardinalityType
<1>3. ASSUME NEW h \in 1..n, fees[at[h]] <= m PROVE h <= Cardinality(below(m))
  <2> DEFINE first == [k \in 1..h |-> at[k]]
  <2>1. \A k \in 1..h : k \in 1..n /\ at[k] \in 1..n
    <3>1. \A k \in 1..h : k \in 1..n
      OBVIOUS
    <3>2. \A k \in 1..n : at[k] \in 1..n
      BY DEF Sorts
    <3> QED
      BY <3>1, <3>2
  <2>2. ASSUME NEW k \in 1..h PROVE fees[at[k]] <= m
    <3>1. fees[at[k]] \in Int /\ fees[at[h]] \in Int
      BY <2>1
    <3>2. CASE k = h
      BY <1>3, <3>2
    <3>3. CASE k # h
      <4>1. k < h /\ k \in 1..n
        BY <3>3
      <4>2. fees[at[k]] <= fees[at[h]]
        BY <4>1 DEF Sorts
      <4> QED
        BY <1>3, <3>1, <4>2
    <3> QED
      BY <3>2, <3>3
  <2>3. \A j, k \in 1..h : at[j] = at[k] => j = k
    <3> SUFFICES ASSUME NEW j \in 1..h, NEW k \in 1..h, at[j] = at[k] PROVE j = k
      OBVIOUS
    <3>1. j \in 1..n /\ k \in 1..n /\ ~(j < k) /\ ~(k < j)
      BY <2>1 DEF Sorts
    <3> QED
      BY <3>1
  <2>4. first \in Injection(1..h, below(m))
    BY <2>1, <2>2, <2>3 DEF Injection, IsInjective
  <2>5. Cardinality(1..h) = h
    BY FS_Interval
  <2> HIDE DEF first, below
  <2> QED
    BY <1>2, <2>4, <2>5, FS_Injection
<1>4. ASSUME NEW l \in 0..n - 1, m <= fees[at[l + 1]] PROVE Cardinality(below(m - 1)) <= l
  <2> DEFINE image == {at[k] : k \in 1..l}
             first == [k \in 1..l |-> at[k]]
  <2>1. ASSUME NEW i \in below(m - 1) PROVE i \in image
    <3>1. i \in 1..n /\ fees[i] \in Int /\ fees[i] <= m - 1
      OBVIOUS
    <3>2. PICK k \in 1..n : at[k] = i
      BY <3>1 DEF Sorts
    <3>3. l + 1 \in 1..n
      OBVIOUS
    <3>4. fees[at[l + 1]] \in Int
      BY <3>3 DEF Sorts
    <3>5. k <= l
      <4> SUFFICES ASSUME ~(k <= l) PROVE FALSE
        OBVIOUS
      <4>1. l + 1 <= k
        OBVIOUS
      <4>2. fees[at[l + 1]] <= fees[at[k]]
        <5>1. CASE k = l + 1
          BY <3>4, <5>1
        <5>2. CASE k # l + 1
          <6>1. l + 1 < k
            BY <4>1, <5>2
          <6> QED
            BY <3>3, <6>1 DEF Sorts
        <5> QED
          BY <5>1, <5>2
      <4> QED
        BY <1>4, <3>1, <3>2, <3>4, <4>2
    <3>6. k \in 1..l
      BY <3>5
    <3> QED
      BY <3>2, <3>6
  <2>2. first \in Surjection(1..l, image)
    BY DEF Surjection
  <2>3. IsFiniteSet(1..l) /\ Cardinality(1..l) = l
    BY FS_Interval
  <2> HIDE DEF first, image
  <2>4. IsFiniteSet(image) /\ Cardinality(image) <= l
    BY <2>2, <2>3, FS_Surjection
  <2>5. below(m - 1) \in SUBSET image
    BY <2>1
  <2> HIDE DEF below
  <2>6. Cardinality(below(m - 1)) <= Cardinality(image) /\ Cardinality(image) \in Nat
    BY <2>4, <2>5, FS_Subset, FS_CardinalityType
  <2>7. Cardinality(below(m - 1)) \in Nat
    <3>1. m - 1 \in Int
      OBVIOUS
    <3> QED
      BY <1>2, <3>1
  <2> QED
    BY <2>4, <2>6, <2>7
<1>5. Cardinality(below(m)) \in Nat /\ Cardinality(below(m - 1)) \in Nat
  <2>1. m - 1 \in Int
    OBVIOUS
  <2> HIDE DEF below
  <2> QED
    BY <1>2, <2>1
<1>6. ASSUME NEW x \in Int PROVE NumberUpTo(fees, n, x) = Cardinality(below(x))
  BY DEF NumberUpTo, UpTo
<1>7. NumberUpTo(fees, n, m) = Cardinality(below(m)) /\ NumberUpTo(fees, n, m - 1) = Cardinality(below(m - 1))
  BY <1>6
<1> HIDE DEF below
<1> QED
  BY <1>3, <1>4, <1>5, <1>7

\* What SummaryWithinSamples says of a summary
Summarizes(s, fees) ==
    LET inside(x) == s.fees.min <= x /\ x <= s.fees.max
        below(x) == {i \in DOMAIN fees : fees[i] <= x}
    IN /\ s.count = Len(fees)
       /\ s.fees.min \in ToSet(fees) /\ s.fees.max \in ToSet(fees)
       /\ inside(s.fees.avg) /\ inside(s.median)
       /\ 2 * Cardinality(below(s.median)) >= Len(fees)
       /\ 2 * Cardinality(below(s.median - 1)) <= Len(fees)
       /\ ~Overflows(fees) => IsRoot(s.std_dev, Variance(fees))

\* The numerator of the variance is within the i128 when its products are.
LEMMA NumeratorFits ==
    ASSUME NEW n \in Nat, n > 0, NEW fees \in [1..n -> Int]
    PROVE  /\ VarianceNumerator(fees) \in Int
           /\ ~Overflows(fees) => I128Wrapped(VarianceNumerator(fees)) = VarianceNumerator(fees)
<1> DEFINE squares == [i \in DOMAIN fees |-> fees[i] * fees[i]]
<1>1. Len(fees) = n /\ DOMAIN fees = 1..n /\ DOMAIN squares = 1..n /\ IsFiniteSet(1..n)
  BY FS_Interval
<1>2. (\A i \in DOMAIN fees : fees[i] \in Int) /\ \A i \in DOMAIN squares : squares[i] \in Int /\ squares[i] >= 0
  <2>1. \A i \in 1..n : fees[i] * fees[i] \in Int /\ fees[i] * fees[i] >= 0
    <3> SUFFICES ASSUME NEW x \in Int PROVE x * x \in Int /\ x * x >= 0
      OBVIOUS
    <3> QED
      OBVIOUS
  <2> QED
    BY <1>1, <2>1
<1>3. SquaresOf(fees) = SumOf(squares)
  BY DEF SquaresOf
<1> HIDE DEF squares
<1>4. PICK x, y \in Int : x = SumOf(fees) /\ y = SumOf(squares) /\ y >= 0
  <2>1. \A T \in SUBSET DOMAIN fees : SumOver(fees, T) \in Int
    BY <1>1, <1>2, SumType
  <2>2. \A T \in SUBSET DOMAIN squares : SumOver(squares, T) \in Int
    BY <1>1, <1>2, SumType
  <2>3. \A T \in SUBSET DOMAIN squares : SumOver(squares, T) \in Nat
    BY <1>1, <1>2, SumIsNat
  <2> QED
    BY <2>1, <2>2, <2>3, SumUnfolds
<1>5. PICK u, v \in Int : u = n * y /\ v = x * x /\ u >= 0 /\ v >= 0
  <2>1. n * y \in Int /\ n * y >= 0
    BY <1>4
  <2>2. x * x \in Int /\ x * x >= 0
    OBVIOUS
  <2> QED
    BY <2>1, <2>2
<1>6. VarianceNumerator(fees) = u - v
  BY <1>1, <1>3, <1>4, <1>5 DEF VarianceNumerator
<1>7. PICK h \in Nat : h = I128Half /\ h > 0
  <2>1. I64Max + 1 \in Nat /\ I64Max + 1 > 0
    BY FeesAssumption
  <2> DEFINE w == I64Max + 1
  <2>2. 2 * w * w \in Nat /\ 2 * w * w > 0
    <3> HIDE DEF w
    <3>1. w \in Nat /\ w > 0
      BY <2>1 DEF w
    <3> QED
      BY <3>1
  <2> QED
    BY <2>2 DEF I128Half
<1>8. ASSUME ~Overflows(fees) PROVE I128Wrapped(u - v) = u - v
  <2>1. u < h /\ v < h
    BY <1>1, <1>3, <1>4, <1>5, <1>7, <1>8 DEF Overflows
  <2>2. (u - v) + h \in 0..2 * h - 1
    BY <1>5, <1>7, <2>1
  <2>3. ((u - v) + h) % (2 * h) = (u - v) + h
    BY <1>5, <1>7, <2>2
  <2> QED
    BY <1>5, <1>7, <2>3 DEF I128Wrapped
<1> QED
  BY <1>5, <1>6, <1>8

\* Without overflow, the deviation is the root of the variance.
LEMMA DeviationIsRoot ==
    ASSUME NEW n \in Nat, n > 0, NEW fees \in [1..n -> Int], ~Overflows(fees)
    PROVE  IsRoot(Deviation(fees), Variance(fees))
<1>1. Deviation(fees) = Isqrt(Variance(fees))
  BY NumeratorFits DEF Deviation, Variance
<1>2. Variance(fees) \in Nat
  <2>1. Len(fees) = n
    OBVIOUS
  <2>2. PICK num \in Nat : num = AtLeastZero(VarianceNumerator(fees))
    BY NumeratorFits DEF AtLeastZero
  <2>3. n * n \in Nat /\ n * n > 0
    OBVIOUS
  <2>4. num \div (n * n) \in Nat
    BY <2>3, Division
  <2> QED
    BY <2>1, <2>2, <2>4 DEF Variance
<1> QED
  BY <1>1, <1>2, IsqrtIsRoot

\* At least half the fees are at most the median, and at most half of them are below it.
LEMMA MedianSplits ==
    ASSUME NEW n \in Nat, n > 0, NEW fees \in [1..n -> Int]
    PROVE  /\ 2 * Cardinality({i \in 1..n : fees[i] <= Median(Sorted(fees))}) >= n
           /\ 2 * Cardinality({i \in 1..n : fees[i] <= Median(Sorted(fees)) - 1}) <= n
<1>1. PICK at : Sorts(at, fees, n)
  BY SortedFees
<1>2. /\ Median(Sorted(fees)) \in Int
      /\ (n + 1) \div 2 \in 1..n /\ fees[at[(n + 1) \div 2]] <= Median(Sorted(fees))
      /\ n \div 2 + 1 \in 1..n /\ Median(Sorted(fees)) <= fees[at[n \div 2 + 1]]
  BY <1>1, MedianIsBetween
<1>3. PICK m \in Int : m = Median(Sorted(fees))
  BY <1>2
<1>4. PICK h \in 1..n, l \in 0..n - 1 : /\ fees[at[h]] <= m /\ m <= fees[at[l + 1]]
                                     /\ 2 * h >= n /\ 2 * l <= n
  <2>1. /\ (n + 1) \div 2 \in 1..n /\ n \div 2 \in 0..n - 1
        /\ 2 * ((n + 1) \div 2) >= n /\ 2 * (n \div 2) <= n
    OBVIOUS
  <2> QED
    BY <1>2, <1>3, <2>1
<1>5. /\ \A k \in 1..n : fees[at[k]] <= m => k <= NumberUpTo(fees, n, m)
      /\ \A k \in 0..n - 1 : m <= fees[at[k + 1]] => NumberUpTo(fees, n, m - 1) <= k
      /\ NumberUpTo(fees, n, m) \in Nat /\ NumberUpTo(fees, n, m - 1) \in Nat
  BY <1>1, HalfBelow
<1>6. PICK c, d \in Nat : c = NumberUpTo(fees, n, m) /\ d = NumberUpTo(fees, n, m - 1)
  BY <1>5
<1>7. h <= c /\ d <= l
  BY <1>4, <1>5, <1>6
<1>8. 2 * h >= n /\ 2 * l <= n
  BY <1>4
<1>9. 2 * c >= n /\ 2 * d <= n
  BY <1>7, <1>8
<1> QED
  BY <1>3, <1>6, <1>9 DEF NumberUpTo, UpTo

LEMMA DistributionSummarizes ==
    ASSUME NEW n \in Nat, n > 0, NEW fees \in [1..n -> Int], NEW cpus
    PROVE  Summarizes(Distribution(fees, cpus), fees)
<1> DEFINE s == Distribution(fees, cpus)
           values == {fees[i] : i \in DOMAIN fees}
           m == Median(Sorted(fees))
           below(x) == {i \in 1..n : fees[i] <= x}
<1>1. Len(fees) = n /\ DOMAIN fees = 1..n /\ IsFiniteSet(1..n)
  BY FS_Interval
<1>2. values = ToSet(fees) /\ values \subseteq Int /\ values # {} /\ IsFiniteSet(values)
  <2>1. fees \in Surjection(1..n, values)
    BY <1>1 DEF Surjection
  <2>2. IsFiniteSet(values)
    <3> HIDE DEF values
    <3> QED
      BY <1>1, <2>1, FS_Surjection
  <2>3. 1 \in 1..n
    OBVIOUS
  <2> QED
    BY <1>1, <2>2, <2>3 DEF ToSet
<1>3. /\ s.count = n /\ s.fees.min = Min(values) /\ s.fees.max = Max(values)
      /\ s.fees.avg = Quotient(SumOf(fees), n) /\ s.median = m /\ s.std_dev = Deviation(fees)
  BY <1>1 DEF Distribution, FeeRange
<1>4. PICK lo, hi \in values : lo = Min(values) /\ hi = Max(values) /\ \A x \in values : lo <= x /\ x <= hi
  <2> HIDE DEF values
  <2> QED
    BY <1>2, IntMinimum, IntMaximum
<1>5. \A i \in 1..n : fees[i] \in values /\ fees[i] \in Int /\ lo <= fees[i] /\ fees[i] <= hi
  BY <1>1, <1>4
<1>6. lo <= Quotient(SumOf(fees), n) /\ Quotient(SumOf(fees), n) <= hi
  <2>1. lo \in Int /\ hi \in Int /\ IsFiniteSet(DOMAIN fees)
        /\ \A x \in DOMAIN fees : fees[x] \in Int /\ lo <= fees[x] /\ fees[x] <= hi
    BY <1>1, <1>2, <1>5
  <2> HIDE DEF values
  <2>2. \A T \in SUBSET DOMAIN fees :
           lo * Cardinality(T) <= SumOver(fees, T) /\ SumOver(fees, T) <= hi * Cardinality(T)
    BY <2>1, SumBetween
  <2>3. Cardinality(DOMAIN fees) = n
    BY <1>1, FS_Interval
  <2>4. PICK sum \in Int : sum = SumOf(fees) /\ lo * n <= sum /\ sum <= hi * n
    <3>1. \A T \in SUBSET DOMAIN fees : SumOver(fees, T) \in Int
      BY <2>1, SumType
    <3> QED
      BY <2>2, <2>3, <3>1, SumUnfolds
  <2> QED
    BY <2>1, <2>4, QuotientBetween
<1>7. PICK at : Sorts(at, fees, n)
  BY SortedFees
<1>8. /\ m \in Int
      /\ (n + 1) \div 2 \in 1..n /\ fees[at[(n + 1) \div 2]] <= m
      /\ n \div 2 + 1 \in 1..n /\ m <= fees[at[n \div 2 + 1]]
  BY <1>7, MedianIsBetween
<1>9. \A k \in 1..n : at[k] \in 1..n
  BY <1>7 DEF Sorts
<1> HIDE DEF m, values
<1>10. lo <= m /\ m <= hi
  <2>1. PICK a, b \in Int : a = fees[at[(n + 1) \div 2]] /\ b = fees[at[n \div 2 + 1]] /\ lo <= a /\ b <= hi
    BY <1>5, <1>8, <1>9
  <2>2. lo \in Int /\ hi \in Int
    BY <1>2
  <2> QED
    BY <1>8, <2>1, <2>2
<1>11. 2 * Cardinality(below(m)) >= n /\ 2 * Cardinality(below(m - 1)) <= n
  BY MedianSplits DEF m
<1>12. ~Overflows(fees) => IsRoot(Deviation(fees), Variance(fees))
  BY DeviationIsRoot
<1> HIDE DEF s
<1>13. /\ s.count = Len(fees)
       /\ s.fees.min \in ToSet(fees) /\ s.fees.max \in ToSet(fees)
       /\ s.fees.min <= s.fees.avg /\ s.fees.avg <= s.fees.max
       /\ s.fees.min <= s.median /\ s.median <= s.fees.max
       /\ ~Overflows(fees) => IsRoot(s.std_dev, Variance(fees))
  BY <1>1, <1>2, <1>3, <1>4, <1>6, <1>10, <1>12
<1>14. /\ 2 * Cardinality({i \in DOMAIN fees : fees[i] <= s.median}) >= Len(fees)
       /\ 2 * Cardinality({i \in DOMAIN fees : fees[i] <= s.median - 1}) <= Len(fees)
  BY <1>1, <1>3, <1>11
<1> QED
  BY <1>13, <1>14 DEF Summarizes, s

-----------------------------------------------------------------------------
\* What HistoryMirrorsCompare says of a report
Mirrors(r) ==
    r.delta # None =>
        LET change == r.delta.fee.absolute  newest == r.history[1] IN
        /\ newest.delta = -change \/ I64Min \in {newest.delta, change}
        /\ newest.trend = Trend(-change)
        /\ newest.io # None => newest.io.write_entries = -r.delta.write_entries.absolute

\* A saturated difference is the opposite of the one in the other direction, but for the smallest.
LEMMA SaturateMirrors ==
    ASSUME NEW a \in Int, NEW b \in Int
    PROVE  /\ Saturate(b - a) = -Saturate(a - b) \/ I64Min \in {Saturate(b - a), Saturate(a - b)}
           /\ Trend(Saturate(b - a)) = Trend(-Saturate(a - b))
<1> DEFINE x == a - b
<1>1. I64Max \in Nat /\ I64Min = -I64Max - 1 /\ x \in Int /\ b - a = -x
  BY FeesAssumption DEF I64Min
<1> HIDE DEF x
<1>2. CASE x > I64Max
  <2>1. Saturate(-x) = I64Min /\ Saturate(x) = I64Max
    BY <1>1, <1>2 DEF Saturate
  <2>2. I64Min < 0 /\ -I64Max < 0 /\ ~(I64Min > 0) /\ ~(-I64Max > 0)
    BY <1>1, FeesAssumption
  <2> QED
    BY <1>1, <2>1, <2>2 DEF Trend, x
<1>3. CASE x <= I64Min
  <2>1. Saturate(-x) = I64Max /\ Saturate(x) = I64Min
    BY <1>1, <1>3 DEF Saturate
  <2>2. I64Max > 0 /\ -I64Min > 0
    BY <1>1, FeesAssumption
  <2> QED
    BY <1>1, <2>1, <2>2 DEF Trend, x
<1>4. CASE I64Min < x /\ x <= I64Max
  <2>1. Saturate(-x) = -x /\ Saturate(x) = x
    BY <1>1, <1>4 DEF Saturate
  <2> QED
    BY <1>1, <2>1 DEF x
<1> QED
  BY <1>1, <1>2, <1>3, <1>4

\* The amounts a report shows
AmountsOf(r) == {r.fee.total} \union {h.delta : h \in ToSet(r.history)}

\* The reports so far
ReportsPriced ==
    /\ IsSequence(reports)
    /\ \A i \in DOMAIN reports :
          IsPriced(reports[i]) /\ Mirrors(reports[i]) /\ AmountsOf(reports[i]) \subseteq I64
    /\ reports # <<>> => Configured

LEMMA PricedTotal == ASSUME NEW r, IsPriced(r) PROVE r.fee.total \in I64 /\ r.fee.total \in Int
<1>1. PICK rate \in RateSet : r.fee = Breakdown(r.resource_fee, r.use, rate)
  BY DEF IsPriced
<1>2. TotalStroops(r.resource_fee) \in I64
  <2>1. r.resource_fee + BaseFee(r.resource_fee) \in Int
    BY CostReportAssumption DEF IsPriced, BaseFee
  <2> QED
    BY <2>1, SaturateRange DEF TotalStroops, I64
<1> QED
  BY <1>1, <1>2 DEF Breakdown, I64

LEMMA NextAmounts ==
    ASSUME ReportsPriced, NEW r, IsPriced(r), r.history = HistoryEntries(r.fee, r.use)
    PROVE  AmountsOf(r) \subseteq I64
<1>1. Len(reports) \in Nat /\ DOMAIN reports = 1..Len(reports)
  BY SequenceDomain DEF ReportsPriced
<1>2. ASSUME NEW h \in ToSet(r.history) PROVE h.delta \in I64
  <2>1. DOMAIN r.history = 1..Len(reports)
    BY DEF HistoryEntries
  <2>2. PICK i \in 1..Len(reports) : h = r.history[i]
    BY <2>1 DEF ToSet
  <2> DEFINE run == reports[Len(reports) + 1 - i]
  <2>3. Len(reports) + 1 - i \in DOMAIN reports
    BY <1>1
  <2>4. run.fee.total \in Int /\ r.fee.total \in Int
    BY <2>3, PricedTotal DEF ReportsPriced
  <2>5. h.delta = Saturate(run.fee.total - r.fee.total)
    BY <2>2 DEF HistoryEntries
  <2> HIDE DEF run
  <2>6. Saturate(run.fee.total - r.fee.total) \in I64
    BY <2>4, SaturateRange DEF I64
  <2> QED
    BY <2>5, <2>6
<1> QED
  BY <1>2, PricedTotal DEF AmountsOf

\* The next report tells its difference from the last in two ways.
LEMMA NextMirrors ==
    ASSUME ReportsPriced, NEW r, IsPriced(r),
           r.history = HistoryEntries(r.fee, r.use), r.delta = CostDelta(r.fee, r.use)
    PROVE  Mirrors(r)
<1> SUFFICES ASSUME r.delta # None PROVE Mirrors(r)
  BY DEF Mirrors
<1> DEFINE last == Last(reports)
<1>1. reports # <<>>
  BY DEF CostDelta
<1>2. Len(reports) \in Nat /\ Len(reports) > 0 /\ DOMAIN reports = 1..Len(reports)
  BY <1>1, SequenceDomain DEF ReportsPriced
<1>3. IsPriced(last) /\ last = reports[Len(reports)]
  BY <1>2 DEF ReportsPriced, Last
<1>4. last.fee.total \in Int /\ r.fee.total \in Int
  BY <1>3, PricedTotal
<1> DEFINE delta == Saturate(last.fee.total - r.fee.total)
           change == Saturate(r.fee.total - last.fee.total)
           io == FootprintDelta(Footprint(last.use), Footprint(r.use))
<1>5. r.history[1] = [delta |-> delta, trend |-> Trend(delta), io |-> io]
  BY <1>2, <1>3 DEF HistoryEntries
<1>6. /\ r.delta.fee.absolute = change
      /\ r.delta.write_entries = IF last.use.recorded THEN MetricDelta(last.use.write_entries, r.use.write_entries)
                                 ELSE None
  BY <1>1 DEF CostDelta, MetricDelta
<1>7. /\ delta = -change \/ I64Min \in {delta, change}
      /\ Trend(delta) = Trend(-change)
  BY <1>3, <1>4, SaturateMirrors
<1>8. ASSUME io # None PROVE io.write_entries = -r.delta.write_entries.absolute
  <2> DEFINE before == last.use.write_entries
             now == r.use.write_entries
  <2>1. None \notin {Footprint(last.use), Footprint(r.use)}
    BY <1>8 DEF FootprintDelta
  <2>2. last.use.recorded /\ r.use.recorded
    BY <2>1 DEF Footprint
  <2>3. io.write_entries = before - now
    BY <2>1, <2>2 DEF FootprintDelta, Footprint
  <2>4. r.delta.write_entries.absolute = Saturate(now - before)
    BY <1>6, <2>2 DEF MetricDelta
  <2>5. before \in Nat /\ now \in Nat /\ before <= I64Max /\ now <= I64Max
    BY <1>3, CostReportAssumption DEF IsPriced
  <2>6. Saturate(now - before) = now - before
    BY <2>5, FeesAssumption DEF Saturate, I64Min
  <2> QED
    BY <2>3, <2>4, <2>5, <2>6
<1> QED
  BY <1>5, <1>6, <1>7, <1>8 DEF Mirrors

-----------------------------------------------------------------------------
EntrySet == [key : Ids, data : Data, modified : Nat]

\* What the data of the setting s is under the n-th configuration
DataOf(n, s) == [of |-> s, value |-> Configs[n][s]]

\* A list of entries, each the node's of the n-th configuration, or garbled
Answered(entries, asked, n) ==
    /\ entries \in Seq(EntrySet)
    /\ \A i \in 1..Len(entries) : /\ entries[i].data \in {None, DataOf(n, entries[i].key)}
                                  /\ entries[i].key \in ToSet(asked)

LEMMA FunctionIsSeq ==
    ASSUME NEW S, NEW n \in Nat, NEW f \in [1..n -> S]
    PROVE  f \in Seq(S) /\ Len(f) = n
<1>1. f \in Seq(S)
  BY SeqDef
<1> QED
  BY <1>1, LenProperties

LEMMA SoundEntries ==
    ASSUME NEW n \in DOMAIN Configs, NEW asked \in Seq(Ids), NEW r \in Sound(Configs[n], asked, n, n)
    PROVE  /\ r \in [entries : Seq(EntrySet), latest : Nat]
           /\ Len(r.entries) = Len(asked)
           /\ \A i \in 1..Len(r.entries) : /\ r.entries[i].data = DataOf(n, r.entries[i].key)
                                           /\ r.entries[i].key \in ToSet(asked)
           /\ \A s \in ToSet(asked) : \E i \in 1..Len(r.entries) : r.entries[i].key = s
<1> DEFINE entries == [i \in DOMAIN asked |-> Entry(Configs[n], asked[i], n)]
           k == Len(asked)
<1>1. k \in Nat /\ DOMAIN asked = 1..k /\ n \in Nat
  BY LenProperties, CostReportAssumption
<1>2. \A i \in 1..k : asked[i] \in Ids
  BY <1>1, ElementOfSeq
<1>3. \A s \in Ids : /\ Entry(Configs[n], s, n) \in EntrySet
                      /\ Entry(Configs[n], s, n).data = DataOf(n, s) /\ Entry(Configs[n], s, n).key = s
  BY <1>1 DEF Entry, EntrySet, Data, DataOf
<1>4. entries \in [1..k -> EntrySet]
  BY <1>1, <1>2, <1>3
<1>5. entries \in Seq(EntrySet) /\ Len(entries) = k
  BY <1>1, <1>4, FunctionIsSeq
<1>6. \A i \in 1..k : /\ entries[i].data = DataOf(n, entries[i].key)
                      /\ entries[i].key = asked[i] /\ entries[i].key \in ToSet(asked)
  BY <1>1, <1>2, <1>3 DEF ToSet
<1> HIDE DEF entries
<1>7. Reverse(entries) = [i \in 1..k |-> entries[k - i + 1]]
  BY <1>5 DEF Reverse
<1>8. \A i \in 1..k : k - i + 1 \in 1..k
  BY <1>1
<1>9. Reverse(entries) \in [1..k -> EntrySet]
  BY <1>4, <1>7, <1>8
<1>10. Reverse(entries) \in Seq(EntrySet) /\ Len(Reverse(entries)) = k
  BY <1>1, <1>9, FunctionIsSeq
<1>11. \A i \in 1..k : /\ Reverse(entries)[i].data = DataOf(n, Reverse(entries)[i].key)
                       /\ Reverse(entries)[i].key \in ToSet(asked)
  BY <1>6, <1>7, <1>8
<1>12. ASSUME NEW s \in ToSet(asked)
       PROVE  /\ \E i \in 1..k : entries[i].key = s
              /\ \E i \in 1..k : Reverse(entries)[i].key = s
  <2>1. PICK j \in 1..k : asked[j] = s
    BY <1>1 DEF ToSet
  <2>2. k - j + 1 \in 1..k /\ k - (k - j + 1) + 1 = j
    BY <1>1
  <2>3. Reverse(entries)[k - j + 1] = entries[j]
    BY <1>7, <2>2
  <2> QED
    BY <1>6, <2>1, <2>2, <2>3
<1>13. CASE r = [entries |-> entries, latest |-> n]
  BY <1>1, <1>5, <1>6, <1>12, <1>13
<1>14. CASE r = [entries |-> Reverse(entries), latest |-> n]
  BY <1>1, <1>10, <1>11, <1>12, <1>14
<1> QED
  BY <1>13, <1>14 DEF Sound, entries

LEMMA FaultyEntries ==
    ASSUME NEW n \in DOMAIN Configs, NEW asked \in Seq(Ids), NEW r \in Faulty(Configs[n], asked, n, n), r # None
    PROVE  Answered(r.entries, asked, n)
<1>1. CASE \E q \in Sound(Configs[n], asked, n, n), i \in DOMAIN asked :
              r = [q EXCEPT !.entries = RemoveAt(@, i)]
  <2>1. PICK q \in Sound(Configs[n], asked, n, n), i \in DOMAIN asked : r = [q EXCEPT !.entries = RemoveAt(@, i)]
    BY <1>1
  <2> DEFINE e == q.entries
             k == Len(e)
  <2>2. /\ q \in [entries : Seq(EntrySet), latest : Nat] /\ i \in 1..k /\ k \in Nat
        /\ \A j \in 1..k : e[j].data = DataOf(n, e[j].key) /\ e[j].key \in ToSet(asked)
    BY SoundEntries, LenProperties
  <2>3. r.entries = RemoveAt(e, i)
    BY <2>1, <2>2
  <2>4. e \in Seq(EntrySet) /\ \A j \in 1..k : e[j] \in EntrySet
    BY <2>2, ElementOfSeq
  <2> HIDE DEF e
  <2> DEFINE left == SubSeq(e, 1, i - 1)
             right == SubSeq(e, i + 1, k)
  <2>5. /\ left \in Seq(EntrySet) /\ Len(left) = i - 1
        /\ \A j \in 1..i - 1 : left[j] = e[j]
    <3>1. \A j \in 1..i - 1 : e[j] \in EntrySet
      BY <2>2, <2>4
    <3>2. /\ left \in Seq(EntrySet) /\ Len(left) = IF 1 <= i - 1 THEN i - 1 - 1 + 1 ELSE 0
          /\ \A j \in 1..i - 1 - 1 + 1 : left[j] = e[1 + j - 1]
      BY <2>2, <3>1, SubSeqProperties
    <3> HIDE DEF left
    <3> QED
      BY <2>2, <3>2
  <2>6. /\ right \in Seq(EntrySet) /\ Len(right) = k - i
        /\ \A j \in 1..k - i : right[j] = e[i + j]
    <3>1. \A j \in i + 1..k : e[j] \in EntrySet
      BY <2>2, <2>4
    <3>2. /\ right \in Seq(EntrySet) /\ Len(right) = IF i + 1 <= k THEN k - (i + 1) + 1 ELSE 0
          /\ \A j \in 1..k - (i + 1) + 1 : right[j] = e[i + 1 + j - 1]
      BY <2>2, <3>1, SubSeqProperties
    <3> HIDE DEF right
    <3> QED
      BY <2>2, <3>2
  <2> HIDE DEF left, right
  <2>7. /\ left \o right \in Seq(EntrySet) /\ Len(left \o right) = k - 1
        /\ \A j \in 1..k - 1 : (left \o right)[j] = IF j <= i - 1 THEN left[j] ELSE right[j - (i - 1)]
    <3>1. Len(left) + Len(right) = k - 1
      BY <2>2, <2>5, <2>6
    <3>2. /\ left \o right \in Seq(EntrySet) /\ Len(left \o right) = Len(left) + Len(right)
          /\ \A j \in 1..Len(left) + Len(right) :
                (left \o right)[j] = IF j <= Len(left) THEN left[j] ELSE right[j - Len(left)]
      BY <2>5, <2>6, ConcatProperties
    <3> QED
      BY <2>5, <3>1, <3>2
  <2>8. ASSUME NEW j \in 1..k - 1
        PROVE  /\ (left \o right)[j].data = DataOf(n, (left \o right)[j].key)
               /\ (left \o right)[j].key \in ToSet(asked)
    <3> DEFINE m == j - (i - 1)
    <3>0. j \in Int /\ i \in Int
      BY <2>2
    <3>1. CASE j <= i - 1
      <4>1. j \in 1..i - 1 /\ j \in 1..k
        BY <2>2, <3>0, <3>1
      <4>2. (left \o right)[j] = e[j]
        BY <2>5, <2>7, <3>1, <4>1
      <4> QED
        BY <2>2, <4>1, <4>2 DEF e
    <3>2. CASE j > i - 1
      <4>1. m \in 1..k - i /\ i + m \in 1..k
        BY <2>2, <3>2
      <4>2. (left \o right)[j] = right[m]
        BY <2>7, <3>0, <3>2
      <4> HIDE DEF m
      <4>3. right[m] = e[i + m]
        BY <2>6, <4>1
      <4> QED
        BY <2>2, <4>1, <4>2, <4>3 DEF e
    <3>3. j <= i - 1 \/ j > i - 1
      BY <3>0
    <3> QED
      BY <3>1, <3>2, <3>3
  <2>9. r.entries = left \o right
    BY <2>3 DEF RemoveAt, left, right
  <2> QED
    BY <2>7, <2>8, <2>9 DEF Answered
<1>2. CASE \E q \in Sound(Configs[n], asked, n, n), i \in DOMAIN asked :
              r = [q EXCEPT !.entries[i].data = None]
  <2>1. PICK q \in Sound(Configs[n], asked, n, n), i \in DOMAIN asked : r = [q EXCEPT !.entries[i].data = None]
    BY <1>2
  <2> DEFINE e == q.entries
             garbled == [e[i] EXCEPT !.data = None]
  <2>2. /\ q \in [entries : Seq(EntrySet), latest : Nat] /\ i \in 1..Len(e)
        /\ \A j \in 1..Len(e) : e[j].data = DataOf(n, e[j].key) /\ e[j].key \in ToSet(asked)
    BY SoundEntries, LenProperties
  <2>3. r.entries = [e EXCEPT ![i] = garbled]
    BY <2>1, <2>2
  <2>4. e \in Seq(EntrySet) /\ e[i] \in EntrySet
    BY <2>2, ElementOfSeq
  <2>5. garbled \in EntrySet /\ garbled.data = None /\ garbled.key = e[i].key
    <3>1. None \in Data
      BY DEF Data
    <3> QED
      BY <2>4, <3>1 DEF EntrySet
  <2> HIDE DEF e, garbled
  <2>6. /\ r.entries \in Seq(EntrySet) /\ Len(r.entries) = Len(e)
        /\ \A j \in 1..Len(e) : r.entries[j] = IF j = i THEN garbled ELSE e[j]
    BY <2>2, <2>3, <2>4, <2>5, ExceptSeq DEF e
  <2> QED
    BY <2>2, <2>5, <2>6 DEF Answered, e
<1> QED
  BY <1>1, <1>2 DEF Faulty

LEMMA FetchedByKey ==
    ASSUME NEW n \in DOMAIN Configs, NEW r, r # None, Answered(r.entries, Settings, n)
    PROVE  \/ /\ FetchAll(r) = None
              /\ \E s \in Ids : \A i \in 1..Len(r.entries) : r.entries[i].key # s
           \/ /\ FetchAll(r) # None
              /\ \A s \in Ids : \E i \in 1..Len(r.entries) :
                    r.entries[i].key = s /\ FetchAll(r)[s].data = r.entries[i].data
<1> DEFINE e == r.entries
           of(s) == {i \in DOMAIN e : e[i].key = s}
           chosen(s) == e[Max(of(s))]
           fetched == [s \in Ids |-> [data |-> chosen(s).data, modified |-> Modified(chosen(s))]]
<1>1. e \in Seq(EntrySet) /\ Len(e) \in Nat /\ DOMAIN e = 1..Len(e)
  BY LenProperties DEF Answered
<1>2. FetchAll(r) = IF \E s \in Ids : of(s) = {} THEN None ELSE fetched
  BY DEF FetchAll
<1> HIDE DEF e, fetched
<1>3. CASE \E s \in Ids : of(s) = {}
  BY <1>1, <1>2, <1>3 DEF e
<1>4. CASE \A s \in Ids : of(s) # {}
  <2>1. ASSUME NEW s \in Ids PROVE Max(of(s)) \in of(s)
    <3> DEFINE S == of(s)
    <3>1. S \subseteq Nat /\ S # {} /\ \A i \in S : i <= Len(e)
      BY <1>1, <1>4
    <3> HIDE DEF S
    <3>2. Max(S) \in S
      BY <1>1, <3>1, NatMaximum
    <3> QED
      BY <3>2 DEF S
  <2>2. ASSUME NEW s \in Ids PROVE chosen(s) \in EntrySet /\ Modified(chosen(s)) \in Nat
    <3>1. Max(of(s)) \in 1..Len(e)
      BY <1>1, <2>1
    <3>2. chosen(s) \in EntrySet
      BY <1>1, <3>1, ElementOfSeq
    <3> QED
      BY <3>2 DEF EntrySet, Modified
  <2>3. fetched \in [Ids -> [data : Data, modified : Nat]]
    BY <2>2 DEF fetched, EntrySet
  <2>4. fetched # None
    BY <2>3, CostReportAssumption
  <2>5. FetchAll(r) = fetched
    BY <1>2, <1>4
  <2>6. \A s \in Ids : \E i \in 1..Len(e) : e[i].key = s /\ fetched[s].data = e[i].data
    BY <1>1, <2>1 DEF fetched
  <2> QED
    BY <2>4, <2>5, <2>6 DEF e
<1> QED
  BY <1>3, <1>4

LEMMA DataIsOf ==
    ASSUME NEW n \in DOMAIN Configs, NEW s \in Ids
    PROVE  DataOf(n, s) # None /\ DataOf(n, s).of = s /\ DataOf(n, s).value = Configs[n][s]
BY CostReportAssumption DEF DataOf

\* What is fetched of a setting is its value under the configuration that answers, or nothing,
\* and never nothing from a sound reply.
LEMMA FetchesAll ==
    ASSUME NEW n \in DOMAIN Configs, NEW r,
           r \in Sound(Configs[n], Settings, n, n) \union Faulty(Configs[n], Settings, n, n)
    PROVE  /\ \A s \in Ids : ValueOf(FetchAll(r), s) \in {None, Configs[n][s]}
           /\ r \in Sound(Configs[n], Settings, n, n) => \A s \in Ids : ValueOf(FetchAll(r), s) = Configs[n][s]
<1>1. Settings \in Seq(Ids)
  BY ConfigFetchAssumption DEF Ids
<1>2. CASE r \in Sound(Configs[n], Settings, n, n)
  <2>1. /\ r \in [entries : Seq(EntrySet), latest : Nat]
        /\ \A i \in 1..Len(r.entries) : /\ r.entries[i].data = DataOf(n, r.entries[i].key)
                                        /\ r.entries[i].key \in ToSet(Settings)
        /\ \A s \in ToSet(Settings) : \E i \in 1..Len(r.entries) : r.entries[i].key = s
    BY <1>1, <1>2, SoundEntries
  <2>2. r # None /\ Answered(r.entries, Settings, n)
    BY <2>1, CostReportAssumption DEF EntrySet, Answered
  <2>3. FetchAll(r) # None /\ \A s \in Ids : FetchAll(r)[s].data = DataOf(n, s)
    <3>1. \A s \in Ids : \E i \in 1..Len(r.entries) : r.entries[i].key = s
      BY <2>1 DEF Ids
    <3>2. \/ /\ FetchAll(r) = None
             /\ \E s \in Ids : \A i \in 1..Len(r.entries) : r.entries[i].key # s
          \/ /\ FetchAll(r) # None
             /\ \A s \in Ids : \E i \in 1..Len(r.entries) :
                   r.entries[i].key = s /\ FetchAll(r)[s].data = r.entries[i].data
      BY <2>2, FetchedByKey
    <3>3. /\ FetchAll(r) # None
          /\ \A s \in Ids : \E i \in 1..Len(r.entries) :
                r.entries[i].key = s /\ FetchAll(r)[s].data = r.entries[i].data
      BY <3>1, <3>2
    <3> QED
      BY <2>1, <3>3
  <2>4. \A s \in Ids : ValueOf(FetchAll(r), s) = Configs[n][s]
    BY <2>3, DataIsOf DEF ValueOf
  <2> QED
    BY <2>4
<1>3. CASE r \in Faulty(Configs[n], Settings, n, n) /\ r \notin Sound(Configs[n], Settings, n, n)
  <2>1. CASE FetchAll(r) = None
    BY <1>3, <2>1 DEF ValueOf
  <2>2. CASE FetchAll(r) # None
    <3>1. r # None
      BY <2>2 DEF FetchAll
    <3>2. Answered(r.entries, Settings, n)
      BY <1>1, <1>3, <3>1, FaultyEntries
    <3>3. \A s \in Ids : \E i \in 1..Len(r.entries) :
             r.entries[i].key = s /\ FetchAll(r)[s].data = r.entries[i].data
      BY <2>2, <3>1, <3>2, FetchedByKey
    <3>4. \A i \in 1..Len(r.entries) : r.entries[i].data \in {None, DataOf(n, r.entries[i].key)}
      BY <3>2 DEF Answered
    <3>5. \A s \in Ids : FetchAll(r)[s].data \in {None, DataOf(n, s)}
      BY <3>3, <3>4
    <3> QED
      BY <1>3, <2>2, <3>5, DataIsOf DEF ValueOf
  <2> QED
    BY <2>1, <2>2
<1> QED
  BY <1>2, <1>3

LEMMA FetchesOne ==
    ASSUME NEW n \in DOMAIN Configs, NEW s \in Ids, NEW r,
           r \in Sound(Configs[n], <<s>>, n, n) \union Faulty(Configs[n], <<s>>, n, n)
    PROVE  /\ FetchOne(r) \in {None, DataOf(n, s)}
           /\ r \in Sound(Configs[n], <<s>>, n, n) => FetchOne(r) = DataOf(n, s)
<1> DEFINE asked == <<s>>
<1>1. asked \in Seq(Ids) /\ Len(asked) = 1 /\ ToSet(asked) = {s}
  BY DEF ToSet
<1> SUFFICES /\ FetchOne(r) \in {None, DataOf(n, s)}
             /\ r \in Sound(Configs[n], asked, n, n) => FetchOne(r) = DataOf(n, s)
  OBVIOUS
<1> HIDE DEF asked
<1>2. CASE r \in Sound(Configs[n], asked, n, n)
  <2>1. /\ r \in [entries : Seq(EntrySet), latest : Nat] /\ Len(r.entries) = 1
        /\ \A i \in 1..Len(r.entries) : /\ r.entries[i].data = DataOf(n, r.entries[i].key)
                                        /\ r.entries[i].key \in {s}
    BY <1>1, <1>2, SoundEntries
  <2>2. r # None /\ r.entries # <<>>
    BY <2>1, CostReportAssumption, EmptySeq DEF EntrySet
  <2>3. Head(r.entries) = r.entries[1]
    BY <2>1
  <2> QED
    BY <2>1, <2>2, <2>3 DEF FetchOne
<1>3. CASE r \in Faulty(Configs[n], asked, n, n) /\ r \notin Sound(Configs[n], asked, n, n)
  <2>1. CASE r = None \/ r.entries = <<>>
    BY <1>3, <2>1 DEF FetchOne
  <2>2. CASE r # None /\ r.entries # <<>>
    <3>1. Answered(r.entries, asked, n)
      BY <1>1, <1>3, <2>2, FaultyEntries
    <3>2. 1 \in 1..Len(r.entries)
      BY <2>2, <3>1, EmptySeq DEF Answered
    <3>3. Head(r.entries).data \in {None, DataOf(n, s)}
      BY <1>1, <3>1, <3>2 DEF Answered
    <3> QED
      BY <1>3, <2>2, <3>3 DEF FetchOne
  <2> QED
    BY <2>1, <2>2
<1> QED
  BY <1>2, <1>3 DEF asked

LEMMA SourcesAre == /\ ToSet(Sources) = {"compute", "cost", "bandwidth"} /\ ToSet(Sources) \subseteq Ids
                    /\ Len(Sources) = 3 /\ DOMAIN Sources = 1..3
                    /\ Sources[1] = "compute" /\ Sources[2] = "cost" /\ Sources[3] = "bandwidth"
<1>1. Len(Sources) = 3 /\ DOMAIN Sources = 1..3 /\ ToSet(Sources) = {"compute", "cost", "bandwidth"}
  BY DEF Sources, ToSet
<1> QED
  BY <1>1, CostReportAssumption DEF Sources

LEMMA RatesOfSame ==
    ASSUME NEW f, NEW g, \A s \in ToSet(Sources) : ValueOf(f, s) = ValueOf(g, s)
    PROVE  RatesOf(f) = RatesOf(g)
BY SourcesAre DEF RatesOf, Rate

LEMMA RatesAreNat ==
    ASSUME NEW n \in DOMAIN Configs, NEW f, \A s \in ToSet(Sources) : ValueOf(f, s) \in {None, Configs[n][s]}
    PROVE  RatesOf(f) \in RateSet
<1>1. ASSUME NEW s \in ToSet(Sources), NEW r \in RateNames[s]
      PROVE  Rate(f, s, r) \in Nat
  <2>1. s \in DOMAIN RateNames
    BY SourcesAre DEF RateNames
  <2>2. Configs[n][s][r] \in Nat
    BY <2>1, CostReportAssumption
  <2> QED
    BY <2>2 DEF Rate
<1>2. /\ "per_10k_insns" \in RateNames["compute"] /\ "per_1kb" \in RateNames["bandwidth"]
      /\ "per_read_entry" \in RateNames["cost"] /\ "per_write_entry" \in RateNames["cost"]
      /\ "per_read_1kb" \in RateNames["cost"]
  BY DEF RateNames
<1> QED
  BY <1>1, <1>2, SourcesAre DEF RatesOf, RateSet

\* The n-th configuration as it was read, but for some sources
InForce(n, except) == [s \in Ids |-> [data |-> IF s \in except THEN None ELSE DataOf(n, s)]]

LEMMA InForceValues ==
    ASSUME NEW n \in DOMAIN Configs, NEW except, NEW s \in Ids
    PROVE  ValueOf(InForce(n, except), s) = IF s \in except THEN None ELSE Configs[n][s]
<1>1. InForce(n, except) \in [Ids -> [data : Data]]
  <2>1. \A t \in Ids : DataOf(n, t) \in Data
    BY DEF Data, DataOf
  <2> QED
    BY <2>1 DEF InForce, Data
<1>2. InForce(n, except) # None
  BY <1>1, CostReportAssumption
<1>3. InForce(n, except)[s].data = IF s \in except THEN None ELSE DataOf(n, s)
  BY DEF InForce
<1> QED
  BY <1>2, <1>3, DataIsOf DEF ValueOf

-----------------------------------------------------------------------------
ReportTypeOK ==
    /\ network \in 1..Len(Configs) /\ faults \in Nat /\ step \in 0..4
    /\ rates \in RateSet /\ degraded \subseteq ToSet(Sources)
    /\ limits = [s \in Ids |-> limits[s]]

\* The limit of a source whose turn has come
Polled(n, s) ==
    \/ \E m \in n..network : limits[s] = Configs[m][s]
    \/ limits[s] = None /\ faults > 0

\* The rates are those of one configuration, and a source's limits are of it or of a later one.
FetchedInOrder ==
    /\ step > 0 =>
          /\ degraded # {} => faults > 0
          /\ \E n \in 1..network :
                /\ rates = RatesOf(InForce(n, degraded))
                /\ \A i \in 1..step - 1 : Polled(n, Sources[i])
    /\ \A s \in Ids : (\A i \in 1..step - 1 : s # Sources[i]) => limits[s] = None
    /\ network = 1 /\ faults = 0 => \A i \in 1..step - 1 : limits[Sources[i]] = Configs[1][Sources[i]]

\* No report follows the summary.
SummaryOfReports ==
    summary # None =>
        /\ reports # <<>>
        /\ LET fees == [i \in 1..Len(reports) |-> reports[i].fee.total] IN
           \/ \E cpus : summary = Distribution(fees, cpus)
           \/ summary = Panicked /\ Overflows(fees)

ReportInv == ReportTypeOK /\ FetchedInOrder /\ ReportsPriced /\ SummaryOfReports

LEMMA ReportInitInv == ReportInit => ReportInv
<1> SUFFICES ASSUME ReportInit PROVE ReportInv
  OBVIOUS
<1>1. Len(Configs) > 0 /\ DOMAIN Configs = 1..Len(Configs)
  BY CostReportAssumption
<1>2. ReportTypeOK
  BY <1>1 DEF ReportInit, ReportTypeOK, NoRates, RateSet, EmptySnapshot
<1>3. FetchedInOrder
  BY DEF ReportInit, FetchedInOrder, EmptySnapshot
<1>4. ReportsPriced
  BY EmptySequence DEF ReportInit, ReportsPriced
<1>5. SummaryOfReports
  BY DEF ReportInit, SummaryOfReports
<1> QED
  BY <1>2, <1>3, <1>4, <1>5 DEF ReportInv

LEMMA UpgradeKeeps == ReportInv /\ Upgrade => ReportInv'
<1> SUFFICES ASSUME ReportInv, Upgrade PROVE ReportInv'
  OBVIOUS
<1>1. /\ network' = network + 1 /\ network < Len(Configs) /\ network \in 1..Len(Configs)
      /\ UNCHANGED <<faults, step, rates, degraded, limits, reports>>
  BY DEF Upgrade, results, ReportInv, ReportTypeOK
<1>2. Len(Configs) \in Int
  BY <1>1
<1>3. ReportTypeOK'
  BY <1>1, <1>2 DEF ReportInv, ReportTypeOK
<1>4. \A n \in 1..network, s \in Ids : Polled(n, s) => n \in 1..network' /\ Polled(n, s)'
  BY <1>1 DEF Polled
<1>5. \A i \in 1..step - 1 : Sources[i] \in Ids
  BY SourcesAre DEF ReportInv, ReportTypeOK, ToSet
<1>6. FetchedInOrder'
  <2>1. ASSUME step > 0
        PROVE  \E n \in 1..network' : /\ rates' = RatesOf(InForce(n, degraded'))
                                      /\ \A i \in 1..step' - 1 : Polled(n, Sources[i])'
    <3>1. PICK n \in 1..network : /\ rates = RatesOf(InForce(n, degraded))
                                  /\ \A i \in 1..step - 1 : Polled(n, Sources[i])
      BY <2>1 DEF ReportInv, FetchedInOrder
    <3>2. n \in 1..network'
      BY <1>1
    <3>3. \A i \in 1..step - 1 : Polled(n, Sources[i])'
      BY <1>4, <1>5, <3>1
    <3>4. rates' = RatesOf(InForce(n, degraded'))
      BY <1>1, <3>1
    <3> QED
      BY <1>1, <3>2, <3>3, <3>4
  <2> QED
    BY <1>1, <2>1 DEF ReportInv, FetchedInOrder
<1>7. ReportsPriced'
  BY <1>1 DEF ReportInv, ReportsPriced, Configured, Mirrors, IsPriced
<1>8. SummaryOfReports'
  BY DEF ReportInv, SummaryOfReports, Upgrade, results
<1> QED
  BY <1>3, <1>6, <1>7, <1>8 DEF ReportInv

\* The rates come in one reply, and what it lacks is missing from it.
LEMMA FetchRatesKeeps == ReportInv /\ FetchRates => ReportInv'
<1> SUFFICES ASSUME ReportInv, FetchRates PROVE ReportInv'
  OBVIOUS
<1>1. PICK reply \in Replies(Settings) :
         /\ rates' = RatesOf(FetchAll(reply[1]))
         /\ degraded' = {s \in ToSet(Sources) : ValueOf(FetchAll(reply[1]), s) = None}
         /\ faults' = reply[2]
  BY DEF FetchRates
<1>2. /\ step = 0 /\ step' = 1 /\ UNCHANGED <<network, limits, reports>>
      /\ network \in 1..Len(Configs) /\ network \in DOMAIN Configs /\ faults \in Nat
  BY CostReportAssumption DEF FetchRates, results, ReportInv, ReportTypeOK
<1> DEFINE r == reply[1]
           f == FetchAll(r)
           n == network
<1>3. \/ r \in Sound(Configs[n], Settings, n, n) /\ faults' = faults
      \/ r \in Faulty(Configs[n], Settings, n, n) /\ faults' = faults + 1
  BY <1>1 DEF Replies
<1>4. \A s \in Ids : ValueOf(f, s) \in {None, Configs[n][s]}
  BY <1>2, <1>3, FetchesAll
<1>5. faults' = 0 \/ faults' = faults => \A s \in Ids : ValueOf(f, s) = Configs[n][s]
  BY <1>2, <1>3, FetchesAll
<1> HIDE DEF r
<1>6. faults' \in Nat /\ faults' >= faults
  BY <1>2, <1>3
<1>7. degraded' = {s \in ToSet(Sources) : ValueOf(f, s) = None} /\ rates' = RatesOf(f)
  BY <1>1 DEF r
<1> HIDE DEF f
<1>8. ReportTypeOK'
  <2>1. rates' \in RateSet
    BY <1>2, <1>4, <1>7, RatesAreNat, SourcesAre
  <2> QED
    BY <1>2, <1>6, <1>7, <2>1 DEF ReportInv, ReportTypeOK
<1>9. degraded' # {} => faults' > 0
  BY <1>2, <1>5, <1>6, <1>7, SourcesAre, CostReportAssumption
<1>10. rates' = RatesOf(InForce(n, degraded'))
  <2>1. ASSUME NEW s \in ToSet(Sources) PROVE ValueOf(f, s) = ValueOf(InForce(n, degraded'), s)
    <3>1. s \in Ids
      BY SourcesAre
    <3>2. ValueOf(InForce(n, degraded'), s) = IF s \in degraded' THEN None ELSE Configs[n][s]
      BY <1>2, <3>1, InForceValues
    <3> QED
      BY <1>4, <1>7, <3>1, <3>2
  <2> QED
    BY <1>7, <2>1, RatesOfSame
<1>11. n \in 1..network' /\ 1..step' - 1 = {} /\ \A s \in Ids : limits'[s] = None
  BY <1>2 DEF ReportInv, FetchedInOrder
<1>12. FetchedInOrder'
  BY <1>2, <1>9, <1>10, <1>11 DEF FetchedInOrder
<1>13. reports = <<>>
  BY <1>2 DEF ReportInv, ReportsPriced, Configured
<1>14. ReportsPriced'
  BY <1>2, <1>13, EmptySequence DEF ReportsPriced
<1>15. SummaryOfReports'
  BY DEF ReportInv, SummaryOfReports, FetchRates, results
<1> QED
  BY <1>8, <1>12, <1>14, <1>15 DEF ReportInv

\* A source's limits are read in its turn, from the configuration then in force.
LEMMA FetchLimitKeeps == ReportInv /\ FetchLimit => ReportInv'
<1> SUFFICES ASSUME ReportInv, FetchLimit PROVE ReportInv'
  OBVIOUS
<1>0. PICK s : s = Sources[step]
  OBVIOUS
<1> DEFINE n == network
<1>1. PICK reply \in Replies(<<s>>) :
         /\ limits' = IF FetchOne(reply[1]) = None THEN limits ELSE Apply(limits, FetchOne(reply[1]))
         /\ faults' = reply[2]
  BY <1>0 DEF FetchLimit
<1>2. /\ step \in 1..3 /\ step' = step + 1 /\ UNCHANGED <<network, rates, degraded, reports>>
      /\ network \in 1..Len(Configs) /\ network \in DOMAIN Configs /\ faults \in Nat
      /\ s \in Ids /\ \A i \in 1..step - 1 : Sources[i] \in Ids /\ Sources[i] # s
  BY <1>0, CostReportAssumption, SourcesAre DEF FetchLimit, results, ReportInv, ReportTypeOK
<1> DEFINE r == reply[1]
           data == FetchOne(r)
<1>3. \/ r \in Sound(Configs[n], <<s>>, n, n) /\ faults' = faults
      \/ r \in Faulty(Configs[n], <<s>>, n, n) /\ faults' = faults + 1
  BY <1>1 DEF Replies
<1>4. data \in {None, DataOf(n, s)} /\ (faults' = faults => data = DataOf(n, s))
  BY <1>2, <1>3, FetchesOne
<1> HIDE DEF r
<1>5. faults' \in Nat /\ faults' >= faults
  BY <1>2, <1>3
<1>6. limits' = IF data = None THEN limits ELSE Apply(limits, data)
  BY <1>1 DEF r
<1> HIDE DEF data
<1>7. limits[s] = None
  BY <1>2 DEF ReportInv, FetchedInOrder
<1>8. /\ limits' = [t \in Ids |-> limits'[t]]
      /\ \A t \in Ids \ {s} : limits'[t] = limits[t]
      /\ limits'[s] = IF data = None THEN None ELSE Configs[n][s]
  BY <1>2, <1>4, <1>6, <1>7, DataIsOf DEF Apply, ReportInv, ReportTypeOK
<1>9. ReportTypeOK'
  BY <1>2, <1>5, <1>8 DEF ReportInv, ReportTypeOK
<1>10. PICK m \in 1..network : /\ rates = RatesOf(InForce(m, degraded))
                              /\ \A i \in 1..step - 1 : Polled(m, Sources[i])
  BY <1>2 DEF ReportInv, FetchedInOrder
<1>11. Polled(m, s)'
  <2>1. CASE data = None
    <3>1. faults' > 0
      BY <1>2, <1>3, <1>4, <2>1, DataIsOf
    <3> QED
      BY <1>8, <2>1, <3>1 DEF Polled
  <2>2. CASE data # None
    BY <1>2, <1>8, <2>2 DEF Polled
  <2> QED
    BY <2>1, <2>2
<1>12. ASSUME NEW i \in 1..step - 1 PROVE Polled(m, Sources[i])'
  <2>1. Polled(m, Sources[i]) /\ limits'[Sources[i]] = limits[Sources[i]]
    BY <1>2, <1>8, <1>10
  <2> QED
    BY <1>2, <1>5, <2>1 DEF Polled
<1>13. \A i \in 1..step' - 1 : i \in 1..step - 1 \/ Sources[i] = s
  BY <1>0, <1>2
<1>14. \A i \in 1..step' - 1 : Polled(m, Sources[i])'
  BY <1>11, <1>12, <1>13
<1>15. step \in 1..step' - 1 /\ Sources[step] = s /\ \A i \in 1..step - 1 : i \in 1..step' - 1
  BY <1>0, <1>2
<1>16. ASSUME network' = 1, faults' = 0
       PROVE  \A i \in 1..step' - 1 : limits'[Sources[i]] = Configs[1][Sources[i]]
  <2>1. network = 1 /\ faults = 0 /\ faults' = faults
    BY <1>2, <1>5, <1>16
  <2>2. limits'[s] = Configs[1][s]
    BY <1>2, <1>4, <1>8, <2>1, DataIsOf
  <2>3. \A i \in 1..step - 1 : limits'[Sources[i]] = Configs[1][Sources[i]]
    BY <1>2, <1>8, <2>1 DEF ReportInv, FetchedInOrder
  <2> QED
    BY <1>13, <2>2, <2>3
<1>17. \A t \in Ids : (\A i \in 1..step' - 1 : t # Sources[i]) => limits'[t] = None
  BY <1>8, <1>15 DEF ReportInv, FetchedInOrder
<1>18. degraded' # {} => faults' > 0
  BY <1>2, <1>5 DEF ReportInv, FetchedInOrder
<1>19. \E k \in 1..network' : /\ rates' = RatesOf(InForce(k, degraded'))
                              /\ \A i \in 1..step' - 1 : Polled(k, Sources[i])'
  <2>1. rates' = RatesOf(InForce(m, degraded')) /\ m \in 1..network'
    BY <1>2, <1>10
  <2> QED
    BY <1>14, <2>1
<1>20. FetchedInOrder'
  BY <1>16, <1>17, <1>18, <1>19 DEF FetchedInOrder
<1>21. reports = <<>>
  BY <1>2, SourcesAre DEF ReportInv, ReportsPriced, Configured
<1>22. ReportsPriced'
  BY <1>2, <1>21, EmptySequence DEF ReportsPriced
<1>23. SummaryOfReports'
  BY DEF ReportInv, SummaryOfReports, FetchLimit, results
<1> QED
  BY <1>9, <1>20, <1>22, <1>23 DEF ReportInv

LEMMA EstimateKeeps == ReportInv /\ Estimate => ReportInv'
<1> SUFFICES ASSUME ReportInv, Estimate PROVE ReportInv'
  OBVIOUS
<1>1. UNCHANGED config /\ Configured
  BY DEF Estimate
<1>2. PICK total \in Totals, use \in Uses :
         LET fee == Breakdown(total, use, rates)
         IN reports' = Append(reports,
                [resource_fee |-> total, use |-> use, fee |-> fee, warnings |-> Warnings(use),
                 tips |-> Tips(use, fee), suggestions |-> Suggestions(use),
                 history |-> HistoryEntries(fee, use), delta |-> CostDelta(fee, use)])
  BY DEF Estimate
<1>3. PICK r : /\ reports' = Append(reports, r)
               /\ r.resource_fee = total /\ r.use = use /\ r.fee = Breakdown(total, use, rates)
               /\ r.history = HistoryEntries(r.fee, r.use) /\ r.delta = CostDelta(r.fee, r.use)
  BY <1>2
<1>4. IsPriced(r)
  BY <1>3, CostReportAssumption DEF IsPriced, ReportInv, ReportTypeOK
<1>5. Mirrors(r) /\ AmountsOf(r) \subseteq I64
  BY <1>3, <1>4, NextMirrors, NextAmounts DEF ReportInv
<1>6. /\ IsSequence(reports')
      /\ DOMAIN reports' = 1..Len(reports) + 1 /\ DOMAIN reports = 1..Len(reports) /\ Len(reports) \in Nat
      /\ \A i \in 1..Len(reports) : reports'[i] = reports[i]
      /\ reports'[Len(reports) + 1] = r
  BY <1>3, Appended, SequenceDomain DEF ReportInv, ReportsPriced
<1>7. ASSUME NEW i \in DOMAIN reports'
      PROVE  IsPriced(reports'[i]) /\ Mirrors(reports'[i]) /\ AmountsOf(reports'[i]) \subseteq I64
  <2>1. CASE i = Len(reports) + 1
    BY <1>4, <1>5, <1>6, <2>1
  <2>2. CASE i \in 1..Len(reports)
    BY <1>6, <2>2 DEF ReportInv, ReportsPriced
  <2> QED
    BY <1>6, <2>1, <2>2
<1>8. ReportsPriced'
  BY <1>1, <1>6, <1>7 DEF ReportsPriced, Configured, config
<1>9. ReportTypeOK' /\ FetchedInOrder'
  BY <1>1 DEF ReportInv, ReportTypeOK, FetchedInOrder, Polled, config
<1>10. SummaryOfReports'
  BY DEF Estimate, SummaryOfReports
<1> QED
  BY <1>8, <1>9, <1>10 DEF ReportInv

LEMMA ReportStepKeeps == ReportInv /\ [ReportNext]_report_vars => ReportInv'
<1> SUFFICES ASSUME ReportInv, [ReportNext]_report_vars PROVE ReportInv'
  OBVIOUS
<1>1. CASE UNCHANGED <<config, reports>> /\ SummaryOfReports'
  BY <1>1 DEF ReportInv, ReportTypeOK, FetchedInOrder, Polled, ReportsPriced, Configured, config
<1>2. Project \/ UNCHANGED report_vars => UNCHANGED <<config, reports>> /\ SummaryOfReports'
  BY DEF Project, report_vars, results, ReportInv, SummaryOfReports
<1>3. Summarize => UNCHANGED <<config, reports>> /\ SummaryOfReports'
  BY DEF Summarize, SummaryOfReports
<1> QED
  BY <1>1, <1>2, <1>3, UpgradeKeeps, FetchRatesKeeps, FetchLimitKeeps, EstimateKeeps DEF ReportNext

\* The rates, the limits and the reports are what the network's configurations and the
\* simulations make of them (fetch_config_cache, fetch_network_config, compute_fee_breakdown).
THEOREM ReportInvariant == ReportSpec => []ReportInv
<1>1. ReportInv /\ [ReportNext]_report_vars => ReportInv'
  BY ReportStepKeeps
<1> QED
  BY <1>1, ReportInitInv, PTL DEF ReportSpec

LEMMA NewestIsPriced == ReportInv => \A r \in NewestReport : IsPriced(r) /\ Mirrors(r) /\ AmountsOf(r) \subseteq I64
<1> SUFFICES ASSUME ReportInv, reports # <<>>
             PROVE  IsPriced(Last(reports)) /\ Mirrors(Last(reports)) /\ AmountsOf(Last(reports)) \subseteq I64
  BY DEF NewestReport
<1>1. Len(reports) \in 1..Len(reports) /\ DOMAIN reports = 1..Len(reports)
  BY SequenceDomain DEF ReportInv, ReportsPriced
<1> QED
  BY <1>1 DEF ReportInv, ReportsPriced, Last

\* The printed shares add up to a hundred percent, and each is its part's, rounded, where the
\* total covers the fees, for any amounts and any width of an i64 (compute_fee_breakdown).
THEOREM SharesWhole == ReportSpec => []SharesAddUp
<1>1. ReportInv => SharesAddUp
  <2> SUFFICES ASSUME ReportInv PROVE SharesAddUp
    OBVIOUS
  <2>1. \A r \in NewestReport : SharesOf(r)
    BY NewestIsPriced, PricedSharesAddUp
  <2> QED
    BY <2>1 DEF SharesAddUp, SharesOf, SharesAgree
<1> QED
  BY <1>1, ReportInvariant, PTL

\* --history and --compare tell the same change, with opposite signs (build_history_entries,
\* CostDelta::compute).
THEOREM HistoryAgreesWithCompare == ReportSpec => []HistoryMirrorsCompare
<1>1. ReportInv => HistoryMirrorsCompare
  BY NewestIsPriced DEF HistoryMirrorsCompare, Mirrors
<1> QED
  BY <1>1, ReportInvariant, PTL

\* Whatever replies fail, are short or are garbled, and whenever a vote upgrades the network, the
\* rates are those of one configuration that was in force, the limits are of it or of a later
\* one, and a source the user is not warned of is not missing (NetworkConfig::fetch,
\* fee_rates_from_config).
THEOREM OneConfiguration == ReportSpec => []PricedByOneConfiguration
<1>1. ReportInv => PricedByOneConfiguration
  <2> SUFFICES ASSUME ReportInv, Configured PROVE PricedByOneConfiguration
    BY DEF PricedByOneConfiguration
  <2>1. step = 4
    BY SourcesAre DEF Configured, ReportInv, ReportTypeOK
  <2>2. PICK n \in 1..network : /\ rates = RatesOf(InForce(n, degraded))
                                /\ \A i \in 1..3 : Polled(n, Sources[i])
    BY <2>1 DEF ReportInv, FetchedInOrder
  <2>3. \A s \in ToSet(Sources) : \E i \in 1..3 : Sources[i] = s
    BY SourcesAre DEF ToSet
  <2>4. \A s \in ToSet(Sources) :
           \/ \E m \in n..network : limits[s] = Configs[m][s]
           \/ limits[s] = None /\ faults > 0
    BY <2>2, <2>3 DEF Polled
  <2>5. degraded # {} => faults > 0
    BY <2>1 DEF ReportInv, FetchedInOrder
  <2>6. rates = RatesOf([s \in Ids |->
                    [data |-> IF s \in degraded THEN None ELSE [of |-> s, value |-> Configs[n][s]]]])
    BY <2>2 DEF InForce, DataOf
  <2>7. ASSUME network = 1, faults = 0
        PROVE  limits = [s \in Ids |-> IF s \in ToSet(Sources) THEN Configs[1][s] ELSE None]
    <3>1. \A s \in ToSet(Sources) : limits[s] = Configs[1][s]
      BY <2>1, <2>3, <2>7 DEF ReportInv, FetchedInOrder
    <3>2. \A s \in Ids \ ToSet(Sources) : limits[s] = None
      BY <2>1, SourcesAre DEF ReportInv, FetchedInOrder, ToSet
    <3>3. limits = [s \in Ids |-> limits[s]]
      BY DEF ReportInv, ReportTypeOK
    <3> QED
      BY <3>1, <3>2, <3>3
  <2> QED
    BY <2>2, <2>4, <2>5, <2>6, <2>7 DEF PricedByOneConfiguration
<1> QED
  BY <1>1, ReportInvariant, PTL

\* An amount printed in XLM with any precision up to the stroop's is, read again, the amount
\* rounded to that precision, or is refused within that rounding of an end of the i64, for any
\* width of an i64 and any number of decimals (stroops_to_xlm, xlm_to_stroops).
THEOREM AmountsReadAgain == ReportSpec => []AmountsRoundTrip
<1>1. ReportInv => AmountsRoundTrip
  <2> SUFFICES ASSUME ReportInv, NEW r \in NewestReport, NEW s \in AmountsOf(r), NEW p \in 0..Decimals
               PROVE  ReadsAgain(s, p)
    BY DEF AmountsRoundTrip, AmountsOf, ReadsAgain
  <2>1. s \in I64
    BY NewestIsPriced
  <2> QED
    BY <2>1, AmountReadAgain
<1> QED
  BY <1>1, ReportInvariant, PTL

\* Whatever the fees, the summary's minimum, maximum, mean and median lie within them, half of
\* them on either side of the median, and its deviation is the integer root of their variance,
\* but for the root of two, unless the products it is made from overflow; only then is there no
\* summary (FeeDistribution::from_samples, isqrt_u128).
THEOREM SummaryIsWithin == ReportSpec => []SummaryWithinSamples
<1>1. ReportInv => SummaryWithinSamples
  <2> SUFFICES ASSUME ReportInv, summary # None PROVE SummaryWithinSamples
    BY DEF SummaryWithinSamples
  <2> DEFINE n == Len(reports)
             fees == [i \in 1..n |-> reports[i].fee.total]
  <2>1. n \in Nat /\ DOMAIN reports = 1..n /\ n > 0
    <3>1. IsSequence(reports) /\ reports # <<>>
      BY DEF ReportInv, ReportsPriced, SummaryOfReports
    <3>2. Len(reports) > 0
      BY <3>1, Shortened
    <3> QED
      BY <3>1, <3>2, SequenceDomain
  <2>2. fees \in [1..n -> Int]
    <3>1. \A i \in 1..n : reports[i].fee.total \in Int
      BY <2>1, PricedTotal DEF ReportInv, ReportsPriced
    <3> QED
      BY <3>1
  <2>3. (\E cpus : summary = Distribution(fees, cpus)) \/ (summary = Panicked /\ Overflows(fees))
    BY DEF ReportInv, SummaryOfReports
  <2>4. Len(fees) = n
    BY <2>1
  <2>5. CASE summary = Panicked /\ Overflows(fees)
    BY <2>5 DEF SummaryWithinSamples
  <2>6. CASE \E cpus : summary = Distribution(fees, cpus)
    <3> HIDE DEF fees, n
    <3>1. PICK cpus : summary = Distribution(fees, cpus)
      BY <2>6
    <3>2. Summarizes(summary, fees)
      BY <2>1, <2>2, <3>1, DistributionSummarizes
    <3>3. summary # Panicked
      BY <2>1, <2>4, <3>1 DEF Distribution, Panicked
    <3>4. /\ summary.count = Len(fees)
          /\ summary.fees.min \in ToSet(fees) /\ summary.fees.max \in ToSet(fees)
          /\ summary.fees.min <= summary.fees.avg /\ summary.fees.avg <= summary.fees.max
          /\ summary.fees.min <= summary.median /\ summary.median <= summary.fees.max
          /\ 2 * Cardinality({i \in DOMAIN fees : fees[i] <= summary.median}) >= Len(fees)
          /\ 2 * Cardinality({i \in DOMAIN fees : fees[i] <= summary.median - 1}) <= Len(fees)
          /\ ~Overflows(fees) => IsRoot(summary.std_dev, Variance(fees))
      BY <3>2 DEF Summarizes
    <3> QED
      BY <2>4, <3>3, <3>4 DEF SummaryWithinSamples, IsRoot, fees, n
  <2> QED
    BY <2>3, <2>5, <2>6
<1> QED
  BY <1>1, ReportInvariant, PTL
=============================================================================
