# TLA+ models of soroban-cost-estimator

`soroban-cost-estimator` (under `src/`) is a command-line tool that simulates Soroban
contract calls over JSON-RPC, explains their fees, keeps the estimates in a SQLite
cache, and captures, compares and watches the fee settings of a Stellar network.
These modules model the parts of it that have state, concurrency, failures or an
arithmetic of their own; TLC checks them on small instances, and TLAPS proves what is
proved for every value of the constants.

Paths below are relative to `src/src/`.

## 1. The system

| component | code | state it keeps | operations |
|---|---|---|---|
| Circuit breaker | `rpc/circuit_breaker.rs` | per endpoint: closed / open since / half-open, failure count, behind a mutex | `should_reject`, `record_success`, `record_failure`, `call` |
| RPC client: one call | `rpc/client.rs`, `rpc/retry.rs` | two breakers, `fallback_used`, a deadline per call | `perform_call`, `post_and_parse`, `with_retry_deadline` |
| RPC client: deduplication | `rpc/client.rs` | requests in flight, completed answers, recency list, behind a mutex | `call`, `cached_result`, `insert_completed`, `SharedFuture::{wait, finish}` |
| Simulation answers | `rpc/simulate.rs` | none | fees, resources and errors of an answer, in the shapes RPC releases have used |
| Configuration fetch | `rpc/config.rs`, `xdr_helper.rs` | none that outlives a command | all settings in one call, or one in a call of its own; rates, limits, a snapshot |
| Fee calculation | `report/fee_calc.rs` | none | breakdown, scaled fees, XLM conversion, fee range |
| Reports | `report/*` | the reports of a run | warnings, tips, history, comparison, projection, distribution |
| Estimate | `main.rs` (`cmd_estimate*`) | the cached row and its history | look up, compare, plan, simulate, repeat, save, render |
| Estimate-all, cache warm, batch, manifest | `main.rs`, `manifest.rs` | ordered results, exit status | load, validate, one invocation after the other, summarize |
| `estimate --watch` | `main.rs` (`cmd_estimate_watch`) | the last accepted and the pending build | poll, accept, read again, report |
| Estimate cache | `cache.rs` | SQLite tables `estimates` and `estimate_history` | save, TTL lookup and touch, evict, clear, delete, prune; list, query, export, verify, stats |
| Cache opening and recovery | `cache.rs` | the database file, its header and sidecars, legacy JSON files | `open_db`, `check_cache_health`, `recover_cache`, import |
| Snapshot store | `config_snapshot/{model,store}.rs` | one JSON file per capture of a network's settings | save, save if changed, load latest, prune; export, import, delete, validate |
| Diff, history, exit status | `config_snapshot/{diff,history}.rs` | none | `diff_payloads`, `resolve_exit_code`, change log, last-changed |
| Watch | `main.rs` (`cmd_watch`), `rpc/ws.rs` | the loop's locals, the WebSocket, the newest snapshot | connect, subscribe, re-check, reconnect, fall back to polling, stop |
| Parser, CLI, configuration, prompts, paths, errors | `wasm/*`, `cli.rs`, `config.rs`, `interactive.rs`, `error.rs`, `paths.rs` | none | formatting and parsing |

How they interact:

- a command (`main.rs`) builds an `RpcClient`; each `call` goes through deduplication,
  whose leader runs `perform_call`, which asks the primary's breaker, posts with
  retries, tells the breaker how it ended, and on a transport failure does the same
  with the fallback;
- `estimate` looks its key up in the cache, may serve the row, otherwise simulates,
  fetches the rates and the limits, prices the answer, and saves an estimate and its
  history row in one transaction, evicting in the same transaction; the `cache`
  commands and `estimate --clear-cache` work on the same database from other processes;
- `estimate-all`, `cache warm`, several `--wasm` and `--manifest` repeat that for one
  invocation after the other; `estimate --watch` for one build after the other;
- `config snapshot` fetches, compares with the newest file, writes a file and prunes;
  `config snapshot prune`, `watch` and `config diff` share the directory, without a lock;
- `watch` alternates between the node's notifications and fetches, compares each fetch
  with the newest file, prints the difference and saves.

Hard to get right, and hard to test:

- *concurrency in one process*: verdicts that reach a breaker long after the circuit
  changed state; followers that must not miss their leader's wake-up; a lookup, an
  attachment and a settlement in three critical sections;
- *concurrency of processes*: retention runs that decide on a listing others are
  emptying; two statements of one clear with another process's save between them; a
  recovery that renames the database another process has just made; a compiler that
  writes the file between its hash and its reading; a file replaced between the
  validation of a manifest and its estimate;
- *crashes*: a snapshot file opened and not yet written; a database file created and
  still empty; a transaction that is rolled back; a clear half done;
- *time*: a backoff against a deadline, a cooldown against late failures, a network
  upgraded between the fetch of the rates and that of the limits;
- *delivery*: notifications replayed, unreadable or lost with their connection; stop
  signals at any moment; replies that are short, garbled or in another order;
- *limits*: a byte quota that cannot be met, an entry quota of one, a full answer cache,
  fees beyond the width of an integer, parts that exceed their total;
- *partial failure*: one function of many that fails, one iteration of a repetition, one
  entry of a bundle.

What makes each component correct is stated under its module below. The hazards, at
their lines, are listed in `PROJECT.json`, with the property that covers each or the
reason none does.

## 2. Modules

| module | models | composes / refines | checked by | proved in |
|---|---|---|---|---|
| `Breaker` | a breaker as a value, its operations as operators | | (used below) | |
| `BreakerGate` | what a breaker promises its callers: abstract specification | extends `Breaker` | `rpc_call` | |
| `CircuitBreaker` | concurrent callers of one breaker, with history | extends `BreakerGate` | `breaker` | `BreakerProofs` |
| `RpcCall` | concurrent calls: deadline, retries, failover, two breakers | implements `BreakerGate` twice | `rpc_call` | `BreakerProofs` |
| `SingleFlight` | deduplication and the answer cache | | `single_flight` | `SingleFlightProofs` |
| `SnapshotStore` | the snapshot directory under several processes, one file operation at a time | | `snapshots` | `SnapshotStoreProofs` |
| `ConfigWatch` | `watch`, over the WebSocket and polling | | `watch` | `CommandProofs` |
| `Ordered` | finite sets of numbers in order, elements at positions, a set by descending weight, as operators | | (used below) | `OrderedProofs` |
| `CacheQuery` | what the reading `cache` commands make of the rows, as operators | extends `Ordered` | `estimate_cache` | `EstimateCacheProofs` |
| `EstimateCache` | the estimate cache under several processes | extends `CacheQuery` | `estimate_cache` | `EstimateCacheProofs` |
| `CacheFile` | the cache's database file under processes that create, import and recover it | | `cache_file` | `CacheFileProofs` |
| `EstimateWatch` | `estimate --watch` against a compiler | | `estimate_watch` | `CommandProofs` |
| `SimulateResponse` | what is taken from an answer, as operators | | `estimate`, `batch` | |
| `EstimateCommand` | one run of `estimate` | extends `SimulateResponse` | `estimate` | `EstimateProofs` |
| `EstimateBatch` | `estimate-all`, `cache warm`, a batch, a manifest | extends `SimulateResponse`, `Ordered` | `batch` | `CommandProofs` |
| `Fees` | the arithmetic of fees, as operators | | `cost_report` | `EstimateProofs` |
| `ConfigFetch` | a fetch of the settings and what is made of it, as operators | | `cost_report`, `config_history` | `EstimateProofs`, `CommandProofs` |
| `CostReport` | the rates, the limits and the reports of a run | extends `Fees`, `Ordered`, `ConfigFetch` | `cost_report` | `EstimateProofs` |
| `ConfigDiff` | differences of snapshots and exit statuses, as operators | | `config_history` | `CommandProofs` |
| `ConfigHistory` | the commands that read or exchange snapshots | extends `ConfigDiff`, `Ordered`, instantiates `ConfigFetch` | `config_history` | `CommandProofs` |

Each `MC` module only extends its specification (and, for TLC, adds the values of its
constants and symmetry sets); the `.cfg` files give the constants their values.
Definitions whose comment starts with "Mutant:" are broken variants of the definition
after them: with a variant in its place TLC must find the named property violated,
which shows that the property says something about that code.

`RpcCall`, `EstimateWatch`, `EstimateBatch`, `CostReport` and `ConfigHistory` have names of
their own for what other modules call `Init`, `Next` and `Spec` (`CallSpec`, `BuildSpec`,
`BatchSpec`, `ReportSpec`, `HistorySpec`), so that one module of proofs can extend several of
them. Where the code sorts, the models use `Ordered` (a listing is the set of its files or
rows in order), and where it raises ten to a power or adds up, recursive functions: both
can be reasoned about for every input, as `SortSeq` and `^` cannot.

### Breaker, BreakerGate, CircuitBreaker

`breaker` is `Inner`: state, failure count, and, for `opened_at`, the time since then,
capped at the cooldown (`should_reject` only compares the two). `Enter` is
`should_reject` with its transition to half-open, `Leave` is `record_success` or
`record_failure`; they are separate actions because the mutex is released while the
call runs. `Outcomes` are the three ways `is_transport_failure` tells apart; `"other"`
also stands for a caller that is dropped. A disabled breaker is threshold 0.

`CircuitBreaker` adds history variables: the ticks since the last probe, the transport
failures since the last success, those of ordinary calls, and whether the half-open
circuit lost its probe without a verdict.

- `WastedCallsBounded`: an endpoint that answers nothing costs at most
  threshold - 1 + N ordinary calls; all others are probes.
- `ProbesAreSpaced`, `OpensOnlyAfterStreak`: late verdicts may close or reopen a circuit
  but never bring probes closer than a cooldown, nor open it without a streak.
- `StrandedOnlyWithoutVerdict`: a half-open circuit has a probe in flight, or its probe
  ended without a verdict. The comment on `CircuitState::HalfOpen` knows only the first;
  after the second the circuit rejects every call for ever, since neither a success nor
  a counted failure can arrive.
- `ProbeResolves`: a half-open circuit gets its verdict unless its probe ends without one.

Instance: three callers, threshold 2, cooldown 2, so that two calls are still in flight
when the circuit opens, is probed, or reopens.

### RpcCall

`call[c]` holds the locals of one `perform_call`. Actions follow the awaits: the top of
the retry loop, an attempt that fails or is answered, the backoff, the body, the
deadline, the verdict, the failover. Time is counted down in ticks; a countdown at 0
enables a step and forces none, since a task may be polled late. The rate limiter, the
circuit's error values, and logging are left out; both breakers share one
configuration, as they do in the builder.

- `ImplementsGates`: each endpoint's breaker is used as `BreakerGate` demands — asked
  once per post, told once, never by a call it rejected — through retries, deadlines
  and failover. What is shown of `CircuitBreaker`'s gate holds of both.
- `EveryCallReturns`: retries, backoffs and the failover end.

Instance: two calls, one retry, threshold 2, deadlines none or two ticks, backoffs of
one or two ticks, so that a backoff ends before, at or after the deadline.

### SingleFlight

Actions are the critical sections of the dedup lock and the operations on a
`SharedFuture`; registering for the wake-up, checking the flag and sleeping are three
steps, as in `wait`, and so are storing the flag and notifying. An answer is the
number of answers its endpoint has given, so a larger number is a later one. A
dropped leader future and `call_uncached` are not modelled.

- `OnePostPerKey`: at most one POST per key in flight.
- `AnswerNeverOlder`: no call returns an answer older than the one cached when it began.
- `EveryCallReturns`: no wake-up is missed.

Instance: three callers, two keys, capacity 1 (so that answers are evicted), three calls.

### SnapshotStore

`files` maps names to contents. A name is a number: the instant it encodes, or, for a
hand-written file, one beyond every instant; numeric order is the listing's. A capture
is a `Fetch`, a `Compare` with the newest (with `--skip-unchanged`), a `Create` that
leaves an empty file, a `Write` through the handle and the retention's `List` and
`Remove` of one file at a time. Each step may be the last (`Die`). One network; the
age rule's unit is a capture; selecting and reading the newest file is one step.

- `NoIdenticalNeighbours`: a skipping collector never leaves two equal neighbours.
- `NewestKeptUnlessManual`: only a hand-written file makes retention delete the newest
  capture. The documented promise has no such exception: `prune_snapshots_in` spares the
  last file of the listing, where a name without a timestamp sorts after every capture.
- `ReadableLostOnlyBehindTorn`: the last readable snapshot is deleted only when a torn
  file is listed last.

Instance: one collector and two pruners, so that three retention runs overlap, four
captures, two configurations, one hand-written file; symmetric in pruners and
configurations (every property is of states or steps).

### ConfigWatch

The command's program counter follows the awaits: connecting (`MaxAttempts` for
`WS_MAX_ATTEMPTS`), subscribing, listening, fetching and saving in each of the three
places `watch_poll_once` is called from, sleeping. `latest` is what
`load_latest_snapshot` finds, `NoFile`, or `Torn`. Comparing, printing and saving are
one action, since nothing is awaited between them. `CloseLedger`, `Drop` and `Signal`
are the world's. `--threshold-percent` and `--auto-snapshot` are not given, and no
other command writes to the directory.

- `ResumesFromLastSeen`: a subscription never starts before a ledger already announced,
  replayed and unreadable notifications included.
- `HiddenOnlyByMishap`: only a failed save, or giving the WebSocket up, hides a change;
  the documentation knows neither. `poll_watch` begins with a second baseline, which
  stores what changed since the last check without printing it (`ToldOfEveryChange` is
  the promise without the exceptions, and helps to state them).
- `LastingChangeStored`: a configuration that lasts is stored at last, over either
  transport.

Instance: two configurations, three ledgers, two queued notifications, two attempts to
connect, a disk that may fail.

### CacheQuery and EstimateCache

`estimates` and `log` are the committed tables, `tx` the one write transaction and the
tables as it sees them: SQLite gives readers the last commit, lets one writer in, and
rolls a killed writer back. A key stands for (wasm_hash, function, args_hash); the
network is a column, as in the code. A save is `Begin` (upsert and append), `Round`
for each round of `enforce_limits_in_tx`, and `Commit`. A lookup is a read, a touch and
a freshness check. `clear_cache` is two transactions; `cache delete` counts its matches,
asks, and deletes by its filter. `NewerRelease` saves a row of a schema this release
does not read. `Busy` is SQLITE_BUSY after every wait. `live_db_bytes` counts rows
instead of pages. `log` is the set of history rows; their order is that of their ids,
which are those of the history row a save appends: `since` remembers the next one when a
clear began. `AfterRound` is what one round of the eviction may leave, over every choice
among rows of equal age. The loop has no bound on its rounds: each takes a row
(`EvictionEnds`), and `MAX_EVICTION_ROUNDS` is beyond any cache it was written for.

`CacheQuery` has what `cache list`, `query`, `export`, `verify` and `stats` make of the
rows: filters from days and instants, pages, what a filter deletes.

- `RoundsShrink`: every round of the eviction deletes at least one row, over every choice of
  the oldest and every proportional batch, down to one row; the loop then ends well before
  `MAX_EVICTION_ROUNDS`, with the quotas met or nothing left to take.
- `SavedUnlessOvertaken`: an eviction never empties the cache, and a save loses its own
  row only to one used since it read the clock (saves with later instants commit in
  between).
- `ClearedIsGone`: a clear takes every estimate and every run of its network that was
  saved before it began, whatever is saved between its halves.
- `ReadersAgree`: on every reachable table, `stats` counts what `list` shows and what
  `verify` rejects, `export` fails exactly where `verify` does, the pages of a listing are
  the listing, newest first, and a filter selects what it deletes.

Instance: two processes, three keys, two networks, three commands, two instants, an
entry quota of two and a quota of one entry whose bytes leave no room for history; one
filter of each kind; symmetric in processes, keys and networks. A clock that goes back
is not modelled.

### CacheFile

`path` is the file the name `cache.db` stands for; a process keeps the file it has opened
(`conn`) when another renames it. A file has a `kind` (empty, damaged, a database), the
`rows` its connections see, and those it has without its log (`base`). `wal` is the file
whose log `cache.db-wal` is, `kept` are the quarantined files with their log beside them,
`legacy` the JSON files of older releases.

A command is a sequence of small steps, since nothing but SQLite's own locks orders
processes: the health check looks for the file (`Check`), at its size and header
(`Header`), opens it (`Probe`, which creates a file that is gone) and checks it (`Verify`);
recovery looks again (`Exists`), renames `cache.db` (`Rename`) and then its sidecars
(`Sidecars`, whose errors are ignored); `open_db` creates a file (`Create`), inspects one
that was there (`Inspect`), opens it (`Open`, which may create it once more), gives it its
schema (`Schema`, which may fail and leave it empty), and lists, reads, inserts and removes
legacy files; then the command works and closes. Any step may be the last (`Die`).

SQLite is external: a first statement takes or starts the log it finds by name (`Attach`),
a commit goes to the log (`Commit`), and the last connection that closes copies it into
its database (`CopyLog`). Where a database's name and its log's come apart, SQLite may
delete the log or read another's into it: such a file is `disturbed`. The model says which
interleavings do that: another process that creates `cache.db` between the two renames, a
kill or an error there, and a database that was opened before it was renamed and first
used after. `-shm` and `-journal` hold nothing that is committed and are left out. Backups
have distinct names. A file of a newer tool, which the import leaves in place, is not
modelled.

- `BackupsAreWhole`: all that was committed to a database is on disk, in it or in a log
  where SQLite or its quarantine keeps it, unless it was disturbed. Moving the sidecars by
  the wrong name, or not at all, breaks it.
- `NothingLost`: an imported entry is on disk, as its file or as a row of the database or
  of a backup, until a clear deletes it, but for disturbed databases; with any process
  killed anywhere.
- `EmptyHasMaker`: an empty database file has a process about to give it its tables,
  whoever renamed or created files meanwhile, unless one was killed or failed over it, or
  a health check made it (`stranded`). `open_db` takes such a file for a corrupt one, so
  that the first use by two processes at once may fail, and after that every use.

The exceptions are needed: without them TLC finds an entry lost, a backup without its log
and an empty file nobody will fill. `PROJECT.json` has them as findings, at their lines.

Instance: two processes and three commands, so that two recoveries overlap with a save; one
key; three files: the first, its successor, and one made by mistake.

### EstimateWatch

`file` is what the watched path holds: a build, something half-written, nothing, or a file
that cannot be read. `Write` is the compiler's, at any moment; a `Poll` is
`wasm_content_hash` and the comparison with the accepted and the pending hash, `Load` reads
the file again, as `estimate_once` does, and `Report` ends the simulation. A content
stands for its hash. The history variables follow the contents two polls agreed on, and
whether the file was written after the hash and before the reading (`overtaken`).

- `TransientOnlyByRace`: past the baseline, a reported build was there at two polls, with
  nothing else seen between them, unless the file was overtaken. The code takes the hash
  of one reading and estimates another.
- `LastingBuildEstimated`: a build the compiler leaves is accepted and simulated at last.

Instance: two builds and five writes: a build can be removed, locked, half-written and
finished, then changed back.

### SimulateResponse and EstimateCommand

`SimulateResponse` reads an answer: each field may be absent or unreadable, the fee may
also be too short to decode, which the code answers with a panic (`Panics`). Costs come
from an object of their own or from the transaction data, the fee from three places.

`EstimateCommand` is one run: `Dispatch` has the flags that rule each other out, `Clear`,
`Builds`, `Previous`, `Lookup`, `Prepare`, `Health`, `Simulate`, `Rates`, `History`, `Save`,
`Render` and `AutoSnapshot` its steps, each of which may fail where the code returns an
error, `NewBuild` and `NextIteration` the second half of
`--diff` and of `--repeat`. `Other` is another process that saves, ages or clears the same
row. `--interactive` stands for arguments; a call is one step (`RpcCall` has what is in it).

- `ContactedWhenNeeded`: the network is used only by a run that nothing local stops, and
  not under `--dry-run`; with two exceptions the documentation does not know.
- `SavedIsAnswered`: what a run leaves in the cache is the fee of its first answer, once,
  whatever later iterations do, and nothing under `--no-cache` or `--diff`; an answer
  counts as free only where it says so, or has a fee nowhere.
- `ComparedWithPredecessor`: `--compare` shows what this run replaces, `--history` the runs
  before it, unless another process came between.

Instance: every combination of the flags that meet in one run, one and three iterations,
nine answers of different shapes, one change by another process.

### EstimateBatch

One module for the four commands, since they share their entries, results and exit
status: `Resolve` loads or validates (`manifest::load`) and makes the clients, which may
fail, `Health`, then `EstimateFunction` or `Contract` and `Invocation` for one call at a
time, and `FinishAll` or `FinishBatch`. A contract ID is valid, invalid or missing;
`cache warm` has the file's own hash for a missing one.
`Replace` is a build that replaces a file meanwhile.

- `BatchIsAccounted`: each contract has its row, in order, and the exit status is a
  success exactly when everything was estimated.
- `ManifestCheckedFirst`: past the validation only the network can fail an entry, unless
  its file is replaced, after which even an "ok" row may have no estimate.
- `FunctionsAreAccounted`: each selected function has one result, what is cached was
  estimated, and the distribution is that of the estimated functions — in CSV and in
  Markdown of none, where the code has dropped the reports by then.

Instance: two contracts and one that does not load, functions with and without a declared
signature, six answers, one replaced file.

### Fees, ConfigFetch and CostReport

`Fees` is `fee_calc.rs` in integers that saturate at `I64Max`; its 128-bit intermediates are
wide enough for all that is done in them there, and are unbounded. An amount that is read
(`Stroops`) may be refused, so it is a set of at most one number. `ConfigFetch` finds entries
by their keys, or takes the first (`FetchOne`), decodes them by what they are of, and
stamps a snapshot with a ledger that may not fit (`MaxLedger`).

In `CostReport` the network may be upgraded (`Upgrade`) between the fetch of the rates and
those of the limits, and replies fail, are short, garbled or in another order. Then
`Estimate` makes a report of a simulation — fees, warnings, tips, suggestions, history,
comparison with the one before —, `Project` and `Summarize` what follows from all. The
standard deviation is the one place where an `i128` is too narrow: `Summarize` wraps it
there (`I128Wrapped`), as a release build does, or panics, as a debug build does.

- `PricedByOneConfiguration`: a simulation is priced by one configuration that was in
  force; a rate is missing only after a fault, and then the user is warned.
- `SharesAddUp`: the printed shares add up to 100.0 % unless one saturates; where the parts
  are within the total, each is its part's, rounded, and the largest part's is off by no more
  than the other roundings.
- `AmountsRoundTrip`: an amount in XLM, read again, is the amount, to its precision; it is
  refused only where rounding carries it past an end of the i64.
- `HistoryMirrorsCompare`: `--history` and `--compare` tell the same change.
- `SummaryWithinSamples`: minimum, maximum, mean, median and deviation lie where they must;
  except the root of two, which comes out as two, and the deviation of fees whose squares
  overflow, the only ones for which there may be no summary.

Instance: an `I64Max` of 10 049, which a fee reaches, which is rounded past itself at one
decimal, and whose squares overflow when two fees are as large; two decimals, totals from
below zero to far above what the rates imply, two configurations, one fault, three reports.

### ConfigDiff and ConfigHistory

`ConfigDiff` compares snapshots field by field, section by section, and `UnknownFields`
where the file of another release has some; `ExitCode` is `resolve_exit_code`. Percentages
are exact. `ConfigHistory` has the commands that read the snapshots or exchange them, each
in one step, on files named as in `SnapshotStore`: `LiveDiff`, `PreviousDiff`,
`CompareFiles`, `History`, `Validate`, `List`, `Delete`, `DeleteOlder`, `Export`, `Import`.
`Foreign` and `ForeignEntry` are files and bundle entries of another release or of the user:
of a newer schema, unreadable, lacking sections, or stamped in another UTC offset, of which
each instant has one. What the node sends goes through `ConfigFetch`. `LiveDiff` takes the
baseline, the fetch and the save in one step, though the code awaits the fetch between
them; two such commands at once are in `SnapshotStore`.

The store orders snapshots by the instant, the change log by the text of the timestamp
(`TextBefore`); `Chronological` says that the two agree.

- `LastChangedIsRight`: since the change `last-changed` shows for a setting no snapshot
  has had another value, and one it does not show never had two, as long as the timestamps
  are `Chronological` (a finding has the case where they are not); a history that fails is
  explained by `validate`.
- `AlarmClears`: a pricing difference that was saved is reported once; except
  `settings_last_modified`, which the comparison does not know on one side and reports for
  ever.
- `PreviousAgreesWithLive`: `--against-previous` reports what the live mode has reported.
- `BundleRestores`: an import that has not failed brings every entry under its instant,
  and changes no file that is there.

Instance: one section with a priced field and another, three instants, two changes of the
network, one foreign file or entry, one hand-written name, two sets of flags, an offset
ahead of UTC and one behind.

## 3. Runs

| run | question | bound that matters |
|---|---|---|
| `breaker` | do concurrent callers keep the breaker's promises? | 3 callers exceed the threshold by one |
| `single_flight` | one POST per key, no stale answer, no lost wake-up? | 3 callers: a leader and two followers, or two keys |
| `rpc_call` | do calls use both breakers properly, and end? | 2 calls share 2 breakers |
| `snapshots` | what may overlapping retention and crashes take? | 3 retention runs, 4 captures |
| `watch` | does watch see every change? | 3 ledgers, 2 queued notifications, 2 attempts |
| `estimate_cache` | do concurrent commands keep the cache's promises, and do the readers agree? | 2 processes, 3 commands, 3 keys |
| `cache_file` | does creating, importing and recovering lose anything? | 2 processes, 3 commands, 3 files |
| `estimate_watch` | is a build reported when it lasts, and only then? | 2 builds, 5 writes |
| `estimate` | does one run do what its flags say, for every answer? | all flags that meet, 3 iterations |
| `batch` | is each invocation accounted for? | 2 contracts, 1 replaced file |
| `cost_report` | do the numbers of a report agree with each other? | 3 reports, 2 configurations, 1 fault |
| `config_history` | do the readers of the snapshots agree with the files and each other? | 3 instants, 2 changes, 1 foreign file |

Where a run sets `CHECK_DEADLOCK FALSE`, its bound on calls, captures or commands lets the
system stop, a command ends, or, for the breaker, a stranded half-open circuit admits
nobody. All runs pass: where the code does not keep a sentence of its documentation, the
property states the exception and the sentence is quoted as a finding in `PROJECT.json`.

Fairness is assumed in five runs, and nowhere else:

- `breaker`: a call in flight ends (every attempt has a timeout) and time passes; nobody is
  obliged to call;
- `rpc_call`: time passes, and tasks that are ready are polled; the HTTP client has a
  timeout per attempt;
- `single_flight`: of the calls in progress only;
- `watch`: the command takes its steps; fetches and saves that are retried again and
  again succeed at last; a subscribed connection, at last, carries a notification. The
  last is an assumption on the network: `next_message` has no timeout, so a silent
  connection that is never closed stalls the watch (a hazard no property covers);
- `estimate_watch`: the command takes its steps; the compiler is obliged to nothing.

## 4. Proofs

Eight modules hold proofs; each theorem holds for any values of the constants that
satisfy the assumptions named in the modules, and of nothing else.

`BreakerProofs` has the breaker, alone and under the client. For any finite set of
callers, any threshold and any cooldown: `TypeCorrect` (TypeOK), `WastedBounded`,
`StrandedReason`, `DisabledBreaker`, `ProbeSpacing` and `OpeningNeedsStreak`. None of
the invariants is inductive: a bound on wasted calls needs to know that the ordinary
calls in flight when the circuit opened are all that can still fail, so
`WastedAccounted` bounds `wasted` together with the ordinary calls still in flight,
apart for a closed circuit and for an open one; `OpenSinceProbe` says that an open
circuit's cooldown is no older than its last probe; `CountIsStreak` that a closed
circuit's failure count is the streak, nothing stale. Operators get lemmas on their
effect (`CheckEffect`, `RecordEffect`, `AgedEffect`), each action preserves the
invariant by a lemma of its own, and the theorems follow. For calls of the client, with
any callers, retries, deadlines and backoffs, with or without a fallback:
`CallInvariant` and `GatesHold` (ImplementsGates). A refinement: the initial states are
initial at each gate, and each step of the client is, for each endpoint, a step of its
gate or leaves it alone (`GateStep`). The invariant it needs is `PhaseWhilePosting`: a
call has a place at its endpoint's gate exactly while it posts, and fails over from the
primary only.

`SingleFlightProofs`, for any finite set of callers, any keys, capacity and number of
calls: `TypeCorrect`, `StructureHolds`, `SingleFlightHolds` (OnePostPerKey), `Invariant`
and `NoStaleAnswer` (AnswerNeverOlder). That one key has one leader needs `Ownership` —
a leader's handle is the one in flight for its key, and no two callers created the same
— and `Sharing`: nothing is in flight without its leader, and all callers of one handle
want the same key. Both rest on a handle nobody holds being always there, which is a
counting argument on the callers' handles (`FreshHandleIsFree`). On top of this
structure `Answers` relates numbers: what is cached, published or held is at most what
the endpoint has served and at least the floor of each call that will return it.

`CommandProofs` has the commands, in three parts.

The watches. For `watch`, with any configurations, ledgers, queues and attempts:
`Invariant`, `NothingSkipped` (ResumesFromLastSeen) and `NothingHidden`
(HiddenOnlyByMishap). Both properties speak of one loop; the invariant says where the
command has to be for anything to have been announced or shown at all (`SeenIsResumed`,
`ShownIsStored`). For `estimate --watch`, with any builds and any compiler:
`BuildInvariant` and `NothingTransient` (TransientOnlyByRace). The property is one of
the step that reports; `PendingWasSeen`, `AcceptedIsSettled` and `WorkIsSettled` carry
what two polls have seen through acceptance and reading to that step.

The commands of many estimates, for any contracts, commands, answers and numbers of
replaced files: `BatchInvariant`, `BatchAccounted` (BatchIsAccounted),
`ManifestsAreCheckedFirst` (ManifestCheckedFirst) and `FunctionsAccounted`
(FunctionsAreAccounted). The properties speak of the end; the invariant of the loop.
`ContractsInOrder` says of each row which entry it is of, and, while its file is the one
that was read, which errors it has: its fees and the functions still to be called are as
many as were selected, unless one has failed (`SummaryFits`). `FunctionsInOrder` matches
results, cached estimates and entries; `OutputOfRows` makes the exit status what the
rows come to; `ManifestValid` keeps what the validation has found, entry by entry, until
its file is replaced.

The commands on snapshots, for any sections, fields, values, flags, files of other
releases and bundles: `HistoryInvariant`, `ImportsRestore` (BundleRestores),
`AlarmsClear` (AlarmClears), `PreviousAgreesLive` (PreviousAgreesWithLive) and
`LastChangedRight` (LastChangedIsRight). The invariant is small, since most of this is
said of single steps: every file and every entry of a bundle was taken at an instant
that is past (`HistoryTypeOK`), a difference that was saved is the one between the two
newest captures, the newest being the network's configuration (`SavedDiff`), and what
`history` shows is computed from the files that are still there (`HistoryShown`). It
rests on lemmas on a fetch, that any sound reply yields the values in force
(`CapturesAreCurrent`); on a difference, that two snapshots which differ in a field have
a change of it or of its section (`DifferenceShows`), and two of one configuration none
but of unknown fields (`NothingButUnknown`); and on the change log, whose last entry for
a setting is the newest (`LastIsNewest`), so that after it all snapshots have one value:
the newest that had another would differ from its successor (`NoChangeSince`).

Assumed of the constants: answers have a fee, as `SimulateResponse` makes it; the file
that does not load is one of the files; sections are finite, no field has a section's
name, `None` is no section's value, and hand-written names come after every instant.

`SnapshotStoreProofs`, for any processes, captures, hand-written names and retention
rules, with kills anywhere: `Invariant`, `NewestKept` (NewestKeptUnlessManual) and
`ReadableKept` (ReadableLostOnlyBehindTorn). The invariant is `DoomedIsFollowed`:
whatever a retention run is still to remove has a later file in the directory. Another
run's removals preserve it because what they remove is followed, too; so no number of
runs empties a directory from behind. `NeighboursDiffer` (NoIdenticalNeighbours) has two
hypotheses, one collector and `--skip-unchanged` always given, since two collectors may
compare with the same newest file (a hazard, `config_snapshot/store.rs:233`) and a
collector that does not skip repeats itself. Its invariant is `Tidy`: retention takes
the oldest captures first, also while it is half done, so that no capture between two
others ever goes (`OldestFirst`); a capture about to be written is newer than all others
(`PendingIsNewest`) and differs from the readable one before it (`PendingDiffers`).

`CacheFileProofs`, for any processes, keys, files and commands: `Invariant`,
`QuarantineKeeps` (BackupsAreWhole), `ImportLosesNothing` (NothingLost) and `EmptyIsMade`
(EmptyHasMaker). The files' part of the invariant is `LogInv`: `cache.db-wal` lies beside
its database or is about to follow it (`LogBeside`); who has a database open writes into a
log that will be found again (`LogsHeld`); and a log that is gone held nothing the
database has not (`LogsKept`). Renames by several processes preserve it because who names
a file while another is being quarantined disturbs both (`QuarantinesApart`). Losing
nothing needs, besides, `ImportedIsStored`: when an import comes to remove a legacy file
its entry is in some file, be it renamed by then, or a clear has deleted it; and
`Connected`: whoever inserts has a database open, under whichever name the file is by
then. An empty file is not given up by its maker unless a step fails (`EmptyWasEmpty`,
`MakerEnds`).

`EstimateCacheProofs`, for any processes, keys, networks, quotas and sizes of rows:
`Invariant`, `ClearTakesAll` (ClearedIsGone), `EvictionSparesTheSave`
(SavedUnlessOvertaken), `EvictionEnds` (RoundsShrink) and `ReadersAlwaysAgree`
(ReadersAgree). Four arguments:

- `ClearsHold`: once the estimates of a clear's network are deleted, only rows saved
  after the clear began come back, committed or not. Each step's tables follow the
  tables before (`Follows`), so that ids below `since` never return;
- `WriterKeeps`: the open transaction has an estimate if the committed table has, and
  one at least as recent as its own save. A round leaves one used no earlier than those
  it takes (`RoundKeeps`);
- `IdsDiffer`: history ids are unique, so that a round which takes n rows by id takes
  the n oldest, and at least one (`OldestGoes`, by well-foundedness of the ids). With
  the bounds of `eviction_batch` it follows that every round shrinks the tables
  (`RoundTakes`);
- readers agree on any table of finitely many rows, reachable or not
  (`TypedReadersAgree`). A listing is a descending order of the rows that can be read; a
  row is on the page that its place, divided by the page's size, says (`PagesCover`);
  the counts per network add up to the count of all, since their rows are disjoint
  (`StatsAddUp`).

All but the last needs `OneWriter`, SQLite's lock. Assumed of the constants: sizes of
rows are positive, quotas are natural numbers.

`EstimateProofs` has what an estimate is made of, in two parts. One run of `estimate`,
for any flags that clap admits, any answers, any number of iterations and other
processes: `Invariant`, `NothingSentInVain` (ContactedWhenNeeded), `FirstAnswerSaved`
(SavedIsAnswered) and `PredecessorShown` (ComparedWithPredecessor). The invariants
follow the program counter: which checks lie behind each step (`CheckedInOrder`), that
nothing has been sent while the cache is read (`SentLate`), that what is saved is the
report of the first answer (`SavedLast`), and that what was read for `--compare` and
`--history` is what the save replaces, or another process has come between
(`ReadIsCurrent`, `ReadIsReplaced`).

The reports of a run, for any configurations, totals, uses, numbers of faults and any
bound of an i64 above 5000: `ReportInvariant`, `SharesWhole` (SharesAddUp),
`HistoryAgreesWithCompare` (HistoryMirrorsCompare), `OneConfiguration`
(PricedByOneConfiguration), `AmountsReadAgain` (AmountsRoundTrip) and `SummaryIsWithin`
(SummaryWithinSamples).

- The shares are arithmetic. A share rounded to the permille is off by half a permille
  at most, so that four of them leave the fifth within 2.5 permille of its own
  (`SharesAreRounded`); their sum saturates only if a share is above a fifth of the
  bound (`SharesAreWhole`). That the parts are amounts, and are the total where the
  rates imply no more than the endpoint asks, is `FeesAreAmounts` and `PartsOfTotal`.
- The history's change and the comparison's are the same difference taken both ways,
  saturated (`SaturateMirrors`); that the newest entry is of the report before follows
  the reports as they are appended (`NextMirrors`).
- An amount read again is a sum over its digits, in which neighbouring terms cancel: a
  digit is worth what its tenth drops of the number up to it (`DigitsAreWorth`). What is
  lost before is the rounding, half a unit of the last decimal at most
  (`RoundedIsNear`). The powers of ten and the sums are recursive, over a number or the
  elements of a set; that such a function exists and unfolds is proved level by level,
  each level extending the one below (`TensExist`, `SumsExist`), and what it yields by a
  least counterexample. An amount that is refused was rounded past an end of the i64, so
  that end is within half a unit of it (`OutIsPastTheEnd`).
- The mean lies within its samples as a sum lies between its terms' bounds
  (`SumBetween`). The median is one of the sorted fees, or between two that are next to
  each other (`MedianIsBetween`), and the places up to it show that half of the fees are
  at most the median (`MedianSplits`). The deviation is Newton's method, whose every
  step ends at or above the root and, until it is there, below the last one
  (`NewtonStep`, `NewtonApproaches`); a variance of 2 is the one whose first guess is
  taken for the root. Unless one of its products overflows the variance's numerator fits
  the i128, where wrapping is the identity (`NumeratorFits`).
- `FetchedInOrder`: the rates are those of a configuration in force when they were
  fetched, and each limit that has been asked for is of that or a later one, or missing
  after a fault. It rests on lemmas on a fetch: from a sound reply, in any order, each
  entry is found by its key, and a faulty one yields what its entries are of or nothing
  (`SoundEntries`, `FaultyEntries`, `FetchedByKey`, `FetchesAll`, `FetchesOne`).

Assumed of the constants: rates and uses are not negative, totals and written entries
fit the i64, the priced settings are among those that exist, and `None` is nothing else
that is fetched.

`OrderedProofs` has the lemmas these share: the least of a set of naturals, by their
well-foundedness (`NatMinimum`); the greatest and the least of a finite set of integers,
by counting what lies beyond (`IntMaximum`, `IntMinimum`); the least of a family of
finite sets (`LeastSet`); the rank of a member and the member of a rank (`RankGrows`,
`NthOfRank`); that a finite set has a descending order, as the least set without one
would have one after all (`DescentExists`); and sequences as functions. They stand where
an induction over data would otherwise be needed: a counterexample is taken to be the
least.

Every invariant and every action property that a run checks is stated by a theorem, and
so is the refinement. Only model-checked is liveness (`ProbeResolves`, both
`EveryCallReturns`, `LastingChangeStored`, `LastingBuildEstimated`), which is out of the
prover's reach.

## 5. Not modelled

- The WASM parser, the command line, the TOML file, prompts, paths and error texts: no
  state, and no decision but what is parsed.
- The layout of the reports in text, CSV, Markdown and JSON. What is computed for them is
  in `CostReport`, but for diagnostics previews, the pricing sensitivity report and the
  sizes of sections; and the list of stale estimates of `config diff`.
- Of the RPC client: a leader whose future is dropped, `call_uncached`, the rate limiter's
  clock, `ping`, headers and proxies. Of the WebSocket client: the matching of replies to
  requests and event subscriptions, which no command uses.
- Of `watch`: `--threshold-percent` and `--auto-snapshot`.
- `invalidate_if_wasm_changed` and its registry: no command calls it.
- `bin/gen_test_wasm.rs`: a tool of the tests.

## 6. Plan

Done, in this order: the breaker and its proofs; deduplication and its proofs; one call, as
two gates; the snapshot store; watch; the estimate cache and its file; `estimate --watch`;
one estimate; the commands of many estimates; fees, fetch and reports; diff, history and
bundles; and the proofs: of one call, of both watches, of the store (one skipping collector
included), of the estimate cache, its readers and its file, of one estimate, of the commands
of many, of all that is computed for a report, and of the commands that read or exchange
snapshots.

What a run checks as an invariant or an action property is proved. Next proofs, if the
prover comes to have liveness: `LastingChangeStored`, whose invariants are there.

Next modules: `watch` with a threshold and with `--auto-snapshot`; request matching in the
WebSocket client; the registry, if a command comes to use it.
