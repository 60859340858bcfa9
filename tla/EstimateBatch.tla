---------------------------- MODULE EstimateBatch -----------------------------
(***************************************************************************)
(* The commands that estimate more than one invocation (src/src/main.rs,   *)
(* src/src/manifest.rs): estimate-all and cache warm go over the functions *)
(* of one contract, several --wasm and a manifest over several contracts.  *)
(* One invocation that fails must not cost the others their estimates, and *)
(* what is printed, saved and returned must agree.  A build may replace a  *)
(* file while the command runs.                                            *)
(***************************************************************************)
EXTENDS Ordered, SimulateResponse, Integers, SequencesExt

CONSTANTS Commands,     \* command lines
          Files,        \* contents of the path files: contracts, or Unloadable
          Unloadable,
          Answers,      \* of simulateTransaction
          MaxReplaced   \* bound: files replaced while a command runs

\* A contract is the sequence of its functions; the exports of a module have names of their own.
IsContract(contract) ==
    /\ contract \in Seq(ToSet(contract))
    /\ \A i, j \in DOMAIN contract : contract[i].name = contract[j].name => i = j
    /\ \A i \in DOMAIN contract : contract[i].name # Absent

\* What a command line can be: of the four commands, with an output format they know, and paths
\* in the world it comes with.
IsCommand(line) ==
    /\ line.command \in {"estimate-all", "cache warm", "batch", "manifest"}
    /\ line.format \in {"table", "json", "csv", "markdown"}
    /\ line.files \in [DOMAIN line.files -> Files]
    /\ line.paths \in Seq(DOMAIN line.files)
    /\ line.id \in {"none", "valid", "invalid"}
    /\ \A i \in 1..Len(line.entries) : line.entries[i].path \in DOMAIN line.files

ASSUME BatchAssumption ==
    /\ MaxReplaced \in Nat
    /\ Unloadable \in Files /\ \A contract \in Files \ {Unloadable} : IsContract(contract)
    /\ \A line \in Commands : IsCommand(line)
    /\ \A answer \in Answers : TotalFee(answer) # Absent

VARIABLES
    cmd,
    disk,       \* path -> contents
    replaced,   \* paths whose file has changed since the command began
    stage,
    entries,    \* the invocations, or contracts, to go through
    at,         \* the one at hand
    wasm,       \* its contract, as loaded
    row,        \* batch: the summary of the contract at hand
    rows,       \* the finished summaries, or results of estimate-all
    cache,      \* the estimates saved, in order
    output,     \* what is printed at the end, and the exit status
    contacted

batch_vars == <<cmd, disk, replaced, stage, entries, at, wasm, row, rows, cache, output, contacted>>
running == <<entries, at, wasm, row, rows, cache>>

Over == {"ok", "failed", "panicked"}
NoOutput == [distribution |-> Absent, warmed |-> Absent, succeeded |-> Absent, failed |-> Absent]

BatchInit ==
    /\ cmd \in Commands
    /\ disk = cmd.files
    /\ replaced = {}
    /\ stage = "start"
    /\ entries = <<>> /\ at = 1 /\ wasm = Unloadable /\ row = Absent /\ rows = <<>>
    /\ cache = <<>> /\ output = NoOutput /\ contacted = FALSE

Replace ==
    /\ Cardinality(replaced) < MaxReplaced
    /\ stage \notin Over
    /\ \E p \in DOMAIN disk, f \in Files :
          f # disk[p] /\ disk' = [disk EXCEPT ![p] = f] /\ replaced' = replaced \union {p}
    /\ UNCHANGED <<cmd, stage, running, output, contacted>>

Exit(how) == stage' = how
Function(contract, name) == {f \in ToSet(contract) : f.name = name}

\* validate_args_against_spec: what the spec does not declare is not checked
ArgsFit(contract, name, args) ==
    \A f \in Function(contract, name) : f.declared => args = f.params

\* build_simulation_tx_envelope: a function is called of a contract, whose ID must be one.
EnvelopeBuilds(name, id) == name = Absent \/ id = "valid"

-----------------------------------------------------------------------------
\* run and resolve_wasm_paths: each path once, in order
Paths == [i \in 1..Len(cmd.paths) |->
            [path |-> cmd.paths[i], fn |-> cmd.fn, args |-> cmd.args, id |-> cmd.id, endpoint |-> TRUE]]

Distinct(seq) == At(seq, {i \in 1..Len(seq) : \A j \in 1..i-1 : seq[j] # seq[i]})

\* Mutant: the number of the arguments is left to the spec.
EntryValidByName(e) ==
    /\ disk[e.path] # Unloadable
    /\ Function(disk[e.path], e.fn) # {} /\ ArgsFit(disk[e.path], e.fn, e.args)
    /\ EnvelopeBuilds(e.fn, e.id) /\ e.endpoint

\* manifest::load, of one entry
EntryValid(e) ==
    /\ disk[e.path] # Unloadable
    /\ \E f \in Function(disk[e.path], e.fn) : e.args = f.params
    /\ EnvelopeBuilds(e.fn, e.id) /\ e.endpoint

Manifest == cmd.command = "manifest"
One == cmd.command \in {"estimate-all", "cache warm"}
Warm == cmd.command = "cache warm"

\* cache warm without --id calls the contract of the file's own hash.
ContractId == IF Warm /\ cmd.id = "none" THEN "valid" ELSE cmd.id

\* The --fn filter of cmd_estimate_all, or every function
Known(names) == \A n \in names : Function(disk[cmd.paths[1]], n) # {}
Selected(names) == LET functions == disk[cmd.paths[1]]
                   IN At(functions, {k \in DOMAIN functions : names = {} \/ functions[k].name \in names})

\* resolve_endpoint, and the clients: one that cannot be made, for a URL or header that is not one,
\* ends the command.
WithClient(next) == stage' = next \/ Exit("failed")

\* The contract of estimate-all, or the manifest, is looked at before the network is.
Resolve ==
    /\ stage = "start"
    /\ \/ /\ One
          /\ wasm' = disk[cmd.paths[1]]
          /\ IF wasm' # Unloadable /\ Known(cmd.fns)
             THEN WithClient("health") /\ entries' = Selected(cmd.fns)
             ELSE Exit("failed") /\ UNCHANGED entries
       \/ /\ Manifest
          /\ entries' = cmd.entries
          /\ IF cmd.entries = <<>> \/ \E i \in 1..Len(cmd.entries) : ~EntryValid(cmd.entries[i])
             THEN Exit("failed")
             ELSE IF cmd.dry_run THEN Exit("ok") ELSE WithClient("contract")
          /\ UNCHANGED wasm
       \/ /\ cmd.command = "batch"
          /\ entries' = Distinct(Paths)
          /\ IF cmd.paths = <<>> THEN Exit("failed") ELSE WithClient("health")
          /\ UNCHANGED wasm
    /\ UNCHANGED <<cmd, disk, replaced, at, row, rows, cache, output, contacted>>

\* health_check; the rates and limits fetched next fall back to defaults.  A manifest has none.
Health ==
    /\ stage = "health"
    /\ contacted' = TRUE
    /\ stage' = (IF One THEN "function" ELSE "contract") \/ Exit("failed")
    /\ UNCHANGED <<cmd, disk, replaced, running, output>>

-----------------------------------------------------------------------------
\* A call that fails is an error like that of an answer.
NoAnswer == Answer(Unreadable, Absent, Absent, Absent, Absent)
Calls == Answers \union {NoAnswer}
Errored(answer) == ErrorOf(answer) # Absent \/ MissingData(answer)
Saved(path, name, answer) == Append(cache, [path |-> path, fn |-> name, fee |-> TotalFee(answer)])

Result(status, fee) == [fn |-> entries[at].name, status |-> status, fee |-> fee]
Results(result) == rows' = Append(rows, result)

\* estimate_all_function, of a function it does not simulate
NeedsArgs(f) == f.params > 0 /\ ~Warm

\* Mutant: what is an error is saved as well.
FunctionResultSavesErrors(answer) ==
    /\ Results(IF Errored(answer) THEN Result("error", Absent) ELSE Result("ok", TotalFee(answer)))
    /\ cache' = IF answer = NoAnswer \/ cmd.no_cache THEN cache ELSE Saved(cmd.paths[1], entries[at].name, answer)

\* estimate_all_function, of a simulated function
FunctionResult(answer) ==
    IF Errored(answer) THEN Results(Result("error", Absent)) /\ UNCHANGED cache
    ELSE /\ Results(Result("ok", TotalFee(answer)))
         /\ \/ ~cmd.no_cache /\ cache' = Saved(cmd.paths[1], entries[at].name, answer)
            \/ ~Warm /\ UNCHANGED cache      \* an error of the cache is ignored

\* An error without a record of its own, the cache's included when it is what is being warmed
FunctionAborts(answer) ==
    /\ ~Errored(answer)
    /\ \/ Panics(answer) /\ Exit("panicked")
       \/ ~Accepted(answer) /\ Exit("failed")
       \/ Usable(answer) /\ Warm /\ Exit("failed")

EstimateFunction ==
    /\ stage = "function" /\ at <= Len(entries)
    /\ \/ /\ NeedsArgs(entries[at]) \/ ~EnvelopeBuilds(entries[at].name, ContractId)
          /\ Results(Result("skipped", Absent))
          /\ at' = at + 1
          /\ UNCHANGED <<stage, cache>>
       \/ /\ ~NeedsArgs(entries[at]) /\ EnvelopeBuilds(entries[at].name, ContractId)
          /\ \E answer \in Calls :
                \/ FunctionAborts(answer) /\ UNCHANGED <<at, rows, cache>>
                \/ /\ Errored(answer) \/ Usable(answer)
                   /\ FunctionResult(answer)
                   /\ at' = at + 1 /\ UNCHANGED stage
    /\ UNCHANGED <<cmd, disk, replaced, entries, wasm, row, output, contacted>>

Statuses(status) == {i \in 1..Len(rows) : rows[i].status = status}

\* cmd_estimate_all keeps a result for its document only where it has not printed it: a CSV row
\* or a Markdown section takes it.
Kept == IF cmd.format = "csv" \/ (cmd.format = "markdown" /\ ~cmd.quiet) THEN {} ELSE Statuses("ok")

\* --auto-snapshot, which has no effect here, and the distribution of the fees
FinishAll ==
    /\ stage = "function" /\ at > Len(entries)
    /\ output' = IF Warm THEN [NoOutput EXCEPT !.warmed = Cardinality(Statuses("ok"))]
                 ELSE [NoOutput EXCEPT !.distribution = Kept]
    /\ Exit("ok")
    /\ UNCHANGED <<cmd, disk, replaced, running, contacted>>

-----------------------------------------------------------------------------
\* ContractCostSummary
Unread(path) == [path |-> path, loaded |-> FALSE, upload |-> Absent, fees |-> <<>>, errors |-> {"file"}]
Status(summary) == IF ~summary.loaded THEN "error" ELSE IF summary.errors # {} THEN "partial" ELSE "ok"

Candidates(contract, name) ==
    At(contract, {k \in DOMAIN contract :
                    IF name = Absent THEN contract[k].params = 0 ELSE contract[k].name = name})

Entry == entries[at]

\* cmd_batch and batch_contract_summary: the file is loaded, and its upload simulated, before the
\* arguments are compared with its spec, and whether or not they fit.
Contract ==
    /\ stage = "contract" /\ at <= Len(entries)
    /\ IF disk[Entry.path] = Unloadable
       THEN Results(Unread(Entry.path)) /\ at' = at + 1 /\ UNCHANGED <<stage, wasm, row, contacted>>
       ELSE /\ contacted' = TRUE
            /\ \E answer \in Calls :
                 IF Panics(answer)
                 THEN Exit("panicked") /\ UNCHANGED <<wasm, row>>
                 ELSE /\ stage' = "invocations"
                      /\ wasm' = Candidates(disk[Entry.path], Entry.fn)
                      /\ row' = [Unread(Entry.path) EXCEPT
                                   !.loaded = TRUE,
                                   !.upload = IF Usable(answer) THEN TotalFee(answer) ELSE Absent,
                                   !.errors = {e \in {"upload", "arguments"} :
                                      IF e = "upload" THEN ~Usable(answer)
                                      ELSE ~ArgsFit(disk[Entry.path], Entry.fn, Entry.args)}]
            /\ UNCHANGED <<rows, at>>
    /\ UNCHANGED <<cmd, disk, replaced, entries, cache, output>>

\* Mutant: the first function that fails ends the contract's row.
InvocationBreaks ==
    /\ stage = "invocations" /\ wasm # <<>>
    /\ \E answer \in Calls :
          IF Panics(answer) THEN Exit("panicked") /\ UNCHANGED <<wasm, row, cache>>
          ELSE IF Usable(answer) /\ EnvelopeBuilds(Head(wasm).name, Entry.id)
          THEN /\ row' = [row EXCEPT !.fees = Append(@, TotalFee(answer))]
               /\ cache' = Saved(Entry.path, Head(wasm).name, answer)
               /\ wasm' = Tail(wasm) /\ UNCHANGED stage
          ELSE /\ wasm' = <<>> /\ UNCHANGED <<stage, cache, row>>
    /\ UNCHANGED <<cmd, disk, replaced, entries, at, rows, output, contacted>>

\* batch_contract_summary, of one function; --no-cache is not asked, and an error of the cache
\* ignored
Invocation ==
    /\ stage = "invocations" /\ wasm # <<>>
    /\ \E answer \in IF EnvelopeBuilds(Head(wasm).name, Entry.id) THEN Calls ELSE {NoAnswer} :
          IF Panics(answer) THEN Exit("panicked") /\ UNCHANGED <<wasm, row, cache>>
          ELSE /\ wasm' = Tail(wasm) /\ UNCHANGED stage
               /\ IF Usable(answer)
                  THEN /\ row' = [row EXCEPT !.fees = Append(@, TotalFee(answer))]
                       /\ cache' = Saved(Entry.path, Head(wasm).name, answer) \/ UNCHANGED cache
                  ELSE row' = [row EXCEPT !.errors = @ \union {"function"}] /\ UNCHANGED cache
    /\ UNCHANGED <<cmd, disk, replaced, entries, at, rows, output, contacted>>

Summarize ==
    /\ stage = "invocations" /\ wasm = <<>>
    /\ Results(row)
    /\ at' = at + 1
    /\ stage' = "contract"
    /\ UNCHANGED <<cmd, disk, replaced, entries, wasm, row, cache, output, contacted>>

\* ContractCostSummary::is_ok
IsOk(summary) == summary.errors = {}

\* BatchCostReport::new
BatchReport ==
    LET failed == Cardinality({i \in 1..Len(rows) : ~IsOk(rows[i])})
    IN [NoOutput EXCEPT !.succeeded = Len(rows) - failed, !.failed = failed]

\* A failure is the exit status, after the report.
FinishBatch ==
    /\ stage = "contract" /\ at > Len(entries)
    /\ output' = BatchReport
    /\ IF output'.failed > 0 THEN Exit("failed") ELSE Exit("ok")
    /\ UNCHANGED <<cmd, disk, replaced, running, contacted>>

-----------------------------------------------------------------------------
Step == \/ Resolve \/ Health \/ EstimateFunction \/ FinishAll
        \/ Contract \/ Invocation \/ Summarize \/ FinishBatch

BatchNext == Step \/ Replace

BatchSpec == BatchInit /\ [][BatchNext]_batch_vars

-----------------------------------------------------------------------------
Untouched(i) == entries[i].path \notin replaced

\* Every contract of a batch has its row, in order, a failure costs neither the other functions
\* of its contract nor the other contracts their estimates, and the exit status is a success
\* exactly when everything was estimated: "so one bad contract (or one bad function) never aborts
\* the whole batch" (cmd_batch, batch_contract_summary).  Only a fee too short to decode does.
BatchIsAccounted ==
    output.failed # Absent =>
        /\ [i \in 1..Len(rows) |-> rows[i].path] = [i \in 1..Len(entries) |-> entries[i].path]
        /\ output.succeeded + output.failed = Len(entries)
        /\ (\A i \in 1..Len(rows) : Untouched(i)) =>
              (stage = "ok" <=> \A i \in 1..Len(rows) :
                  LET e == entries[i] IN
                  /\ rows[i].loaded /\ rows[i].upload # Absent
                  /\ ArgsFit(disk[e.path], e.fn, e.args)
                  /\ Len(rows[i].fees) = Len(Candidates(disk[e.path], e.fn)))

\* A manifest is validated as a whole before the network is used, so that past it only the
\* network can fail an entry; unless its file is replaced, which may even leave an "ok" row
\* without any estimate (manifest::load, "Validate the entire suite without contacting any RPC
\* endpoint").
ManifestCheckedFirst ==
    Manifest =>
        /\ contacted =>
              /\ ~cmd.dry_run
              /\ \A i \in 1..Len(entries) : Untouched(i) =>
                    /\ disk[entries[i].path] # Unloadable
                    /\ \E f \in ToSet(disk[entries[i].path]) : f.name = entries[i].fn /\ f.params = entries[i].args
        /\ \A i \in 1..Len(rows) : Untouched(i) =>
              /\ rows[i].errors \subseteq {"upload", "function"}
              /\ IsOk(rows[i]) => Len(rows[i].fees) = 1

\* Each selected function has one result, in order; the distribution is that of the estimated
\* functions, except in CSV and Markdown, where it is that of none; what is cached was estimated,
\* and cache warm counts what it cached (cmd_estimate_all, cmd_cache_warm).
FunctionsAreAccounted ==
    One =>
        /\ \A i \in 1..Len(rows) : rows[i].fn = entries[i].name
        /\ stage = "ok" => Len(rows) = Len(entries)
        /\ cmd.no_cache => cache = <<>>
        /\ \A k \in 1..Len(cache) : \E i \in Statuses("ok") : rows[i].fn = cache[k].fn /\ rows[i].fee = cache[k].fee
        /\ output.warmed # Absent => output.warmed = Len(cache)
        /\ output.distribution # Absent =>
              output.distribution = IF cmd.format \in {"json", "table"} \/ (cmd.format = "markdown" /\ cmd.quiet)
                                    THEN {i \in 1..Len(rows) : rows[i].fee # Absent} ELSE {}
=============================================================================
