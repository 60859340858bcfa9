--------------------------- MODULE EstimateCache ---------------------------
(***************************************************************************)
(* The estimate cache (src/src/cache.rs): the tables of one SQLite         *)
(* database, and the commands of several processes that read and write     *)
(* them (estimate, cache clear, cache delete and cache prune of            *)
(* src/src/main.rs; CacheQuery has the ones that only read).  SQLite gives *)
(* a reader the last committed tables and one writer at a time; a killed   *)
(* process takes its transaction with it.                                  *)
(***************************************************************************)
EXTENDS CacheQuery

CONSTANTS Procs,
          Deletions,                                  \* command lines of cache delete
          Quotas,                                     \* CacheLimits, 0 where unbounded
          EmptyBytes, EstimateBytes, HistoryBytes,    \* live_db_bytes: the schema, a row
          Ttl,                                        \* --cache-ttl
          MaxClock, MaxCommands                       \* bounds

ASSUME EstimateCacheAssumption ==
    /\ None \notin Procs
    /\ Quotas \subseteq [entries : Nat, bytes : Nat]
    /\ EmptyBytes \in Nat \ {0} /\ EstimateBytes \in Nat \ {0} /\ HistoryBytes \in Nat \ {0}
    /\ \A d \in Deletions : d.command = "delete"
    /\ Ttl \in Nat /\ MaxClock \in Nat /\ MaxCommands \in Nat

Times == 0..MaxClock

EstimateRequests ==
    [command : {"estimate"}, key : Keys, network : Networks, clear : BOOLEAN,
     ttl : BOOLEAN, noCache : {FALSE}, quota : Quotas]
    \union [command : {"estimate"}, key : Keys, network : Networks, clear : BOOLEAN,
            ttl : {TRUE}, noCache : {TRUE}]
Requests ==
    EstimateRequests
    \union [command : {"clear"}, network : Networks]
    \union Deletions
    \union [command : {"newer release"}, key : Keys, network : Networks]
    \union [command : {"prune"}, quota : {q \in Quotas : q.entries + q.bytes > 0}]
NoRequest == [command |-> "none"]

VARIABLES
    clock,
    estimates,  \* estimates[k]: the committed row of k, or NoRow
    log,        \* estimate_history
    tx,         \* the open write transaction and the tables as it sees them
    pc, request,
    row,        \* what a process has read
    now,        \* the instant it has read off the clock
    \* History
    started,    \* commands so far
    nextId,     \* no id is used twice
    since       \* since[p]: nextId when p's clear began

tables == <<estimates, log>>
local == <<pc, request, row, now>>
history == <<started, nextId, since>>
vars == <<clock, tables, tx, local, history>>

NoTx == [owner |-> None, estimates |-> [k \in Keys |-> NoRow], log |-> {}]

Init ==
    /\ clock = 0
    /\ estimates = [k \in Keys |-> NoRow]
    /\ log = {}
    /\ tx = NoTx
    /\ pc = [p \in Procs |-> "idle"]
    /\ request = [p \in Procs |-> NoRequest]
    /\ row = [p \in Procs |-> NoRow]
    /\ now = [p \in Procs |-> 0]
    /\ started = 0 /\ nextId = 1
    /\ since = [p \in Procs |-> 1]

Unlocked == tx.owner = None
Goto(p, label) == pc' = [pc EXCEPT ![p] = label]
Saves(p) == request[p].command = "estimate"

-----------------------------------------------------------------------------
\* enforce_limits_in_tx
Count(rows) == Cardinality(Cached(rows))
Bytes(rows, rest) == EmptyBytes + EstimateBytes * Count(rows) + HistoryBytes * Cardinality(rest)

Over(size, quota) == quota > 0 /\ size > quota
Clamp(n, low, high) == CASE n < low -> low [] n > high -> high [] OTHER -> n

\* How many of n rows make up the excess over the byte quota
Excess(n, bytes, quota) == (bytes - quota.bytes) \div Clamp(bytes \div n, 1, bytes)

\* eviction_batch
EvictionBatch(entries, bytes, quota) ==
    LET target == (quota.entries * 9) \div 10
        above == target > 0 /\ entries > target
    IN  CASE above -> entries - target
          [] ~above /\ Over(bytes, quota.bytes) ->
                 Clamp(Excess(entries, bytes, quota), 1, entries - 1)
          [] OTHER -> 1

\* Mutant: an excess of less than a row is none.
HistoryBatchRounded(n, bytes, quota) == Clamp(Excess(n, bytes, quota), 0, n)

\* history_eviction_batch, where the byte quota is exceeded
HistoryBatch(n, bytes, quota) == Clamp(Excess(n, bytes, quota), 1, n)

\* Mutant: ORDER BY ... DESC.
BeforeReversed(a, b) ==
    \/ a.accessed > b.accessed
    \/ a.accessed = b.accessed /\ a.timestamp > b.timestamp

\* ORDER BY last_accessed ASC, timestamp ASC
Before(a, b) ==
    \/ a.accessed < b.accessed
    \/ a.accessed = b.accessed /\ a.timestamp < b.timestamp

\* The sets of n rows that may come first in that order
Victims(rows, n) ==
    {v \in SUBSET Cached(rows) :
        /\ Cardinality(v) = n
        /\ \A k \in v, kept \in Cached(rows) \ v : ~Before(rows[kept], rows[k])}

-----------------------------------------------------------------------------
\* cmd_cache_delete takes either a filter that makes sense or --all.  A command line that is
\* refused does nothing, and is left out.
Accepted(r) ==
    r.command = "delete" =>
        LET filter == BuildFilter(r.args, clock)
        IN  Valid(filter) /\ (r.all <=> filter = Everything)

AfterClear(r) == IF r.ttl /\ ~r.noCache THEN "lookup" ELSE "simulate"

First(r) ==
    CASE r.command = "prune"         -> "begin"
      [] r.command = "delete"        -> "count"
      [] r.command = "newer release" -> "newer"
      [] r.command = "clear"         -> "clear"
      [] r.command = "estimate"      -> IF r.clear THEN "clear" ELSE AfterClear(r)

\* A command begins; a request is a matter of its flags
Start(p) ==
    /\ pc[p] = "idle" /\ started < MaxCommands
    /\ started' = started + 1
    /\ \E r \in Requests :
           /\ Accepted(r)
           /\ request' = [request EXCEPT ![p] =
                  IF r.command = "delete" THEN [r EXCEPT !.filter = BuildFilter(r.args, clock)]
                  ELSE r]
           /\ Goto(p, First(r))
    /\ UNCHANGED <<clock, tables, tx, row, now, nextId, since>>

End(p) ==
    /\ Goto(p, "idle")
    /\ request' = [request EXCEPT ![p] = NoRequest]
    /\ row' = [row EXCEPT ![p] = NoRow]
    /\ now' = [now EXCEPT ![p] = 0]

\* Mutant: the clear does not wait for the open transaction.
ClearEstimatesUnlocked(p) ==
    /\ pc[p] = "clear"
    /\ estimates' = [k \in Keys |-> IF estimates[k].network = request[p].network
                                    THEN NoRow ELSE estimates[k]]
    /\ since' = [since EXCEPT ![p] = nextId]
    /\ Goto(p, "clear history")
    /\ UNCHANGED <<clock, log, tx, request, row, now, started, nextId>>

\* clear_cache: two statements, each a transaction of its own
ClearEstimates(p) ==
    /\ pc[p] = "clear" /\ Unlocked
    /\ estimates' = [k \in Keys |-> IF estimates[k].network = request[p].network
                                    THEN NoRow ELSE estimates[k]]
    /\ since' = [since EXCEPT ![p] = nextId]
    /\ Goto(p, "clear history")
    /\ UNCHANGED <<clock, log, tx, request, row, now, started, nextId>>

ClearHistory(p) ==
    /\ pc[p] = "clear history" /\ Unlocked
    /\ log' = {entry \in log : entry.network # request[p].network}
    /\ \/ request[p].command = "clear" /\ End(p)
       \/ /\ request[p].command = "estimate"
          /\ Goto(p, AfterClear(request[p]))
          /\ UNCHANGED <<request, row, now>>
    /\ UNCHANGED <<clock, estimates, tx, history>>

\* count_cached_estimates: what is about to be deleted is counted first
CountMatches(p) ==
    /\ pc[p] = "count"
    /\ IF request[p].dry_run \/ Query(estimates, request[p].filter) = <<>>
       THEN End(p)
       ELSE Goto(p, "delete") /\ UNCHANGED <<request, row, now>>
    /\ UNCHANGED <<clock, tables, tx, history>>

\* delete_cached_estimates, in one transaction, once the user agrees
Delete(p) ==
    /\ pc[p] = "delete"
    /\ \/ /\ Unlocked
          /\ estimates' = [k \in Keys |-> IF k \in Doomed(estimates, request[p].filter)
                                          THEN NoRow ELSE estimates[k]]
       \/ ~request[p].yes /\ UNCHANGED estimates
    /\ End(p)
    /\ UNCHANGED <<clock, log, tx, history>>

\* A newer release saves an estimate; which of its steps others may see is its own affair
NewerRelease(p) ==
    /\ pc[p] = "newer" /\ Unlocked
    /\ estimates' = [estimates EXCEPT ![request[p].key] =
           [network |-> request[p].network, timestamp |-> clock, accessed |-> clock,
            id |-> nextId, newer |-> TRUE]]
    /\ log' = log \union {[key |-> request[p].key, network |-> request[p].network, id |-> nextId]}
    /\ nextId' = nextId + 1
    /\ End(p)
    /\ UNCHANGED <<clock, tx, started, since>>

-----------------------------------------------------------------------------
\* load_estimate: the row is read, then touched, then found fresh or not; a row of a newer
\* release is an error
Lookup(p) ==
    /\ pc[p] = "lookup"
    /\ LET found == estimates[request[p].key]
       IN  IF ~Readable(found) THEN End(p)
           ELSE /\ row' = [row EXCEPT ![p] = found]
                /\ now' = [now EXCEPT ![p] = clock]
                /\ Goto(p, IF found = NoRow THEN "simulate" ELSE "touch")
                /\ UNCHANGED request
    /\ UNCHANGED <<clock, tables, tx, history>>

\* touch_last_accessed: the row may be gone, or another by now
Touch(p) ==
    /\ pc[p] = "touch" /\ Unlocked
    /\ estimates' = IF estimates[request[p].key] = NoRow THEN estimates
                    ELSE [estimates EXCEPT ![request[p].key].accessed = now[p]]
    /\ Goto(p, "check")
    /\ UNCHANGED <<clock, log, tx, request, row, now, history>>

\* is_cache_entry_fresh: a fresh row is the answer
Check(p) ==
    /\ pc[p] = "check"
    /\ IF clock - row[p].timestamp <= Ttl
       THEN Goto(p, "served") /\ UNCHANGED <<request, row, now>>
       ELSE /\ Goto(p, "simulate")
            /\ row' = [row EXCEPT ![p] = NoRow]
            /\ now' = [now EXCEPT ![p] = 0]
            /\ UNCHANGED request
    /\ UNCHANGED <<clock, tables, tx, history>>

Serve(p) ==
    /\ pc[p] = "served"
    /\ End(p)
    /\ UNCHANGED <<clock, tables, tx, history>>

\* The simulation succeeds and, unless --no-cache, its save reads the clock; or it fails
Simulate(p) ==
    /\ pc[p] = "simulate"
    /\ \/ /\ ~request[p].noCache
          /\ now' = [now EXCEPT ![p] = clock]
          /\ Goto(p, "begin")
          /\ UNCHANGED <<request, row>>
       \/ End(p)
    /\ UNCHANGED <<clock, tables, tx, history>>

-----------------------------------------------------------------------------
\* The write transaction: a save upserts its row and appends to the log
Begin(p) ==
    /\ pc[p] = "begin" /\ Unlocked
    /\ LET r == request[p]
           new == [network |-> r.network, timestamp |-> now[p], accessed |-> now[p],
                   id |-> nextId, newer |-> FALSE]
       IN  tx' = IF Saves(p)
                 THEN [owner |-> p,
                       estimates |-> [estimates EXCEPT ![r.key] = new],
                       log |-> log \union {[key |-> r.key, network |-> r.network, id |-> nextId]}]
                 ELSE [owner |-> p, estimates |-> estimates, log |-> log]
    /\ Goto(p, "evict")
    /\ UNCHANGED <<clock, tables, request, row, now, history>>

OverEntries(quota) == Over(Count(tx.estimates), quota.entries)
OverBytes(quota) == Over(Bytes(tx.estimates, tx.log), quota.bytes)

\* There is something a round may remove
Removable(quota) ==
    \/ OverEntries(quota) /\ Count(tx.estimates) > 1
    \/ OverBytes(quota) /\ (Count(tx.estimates) > 1 \/ tx.log # {})

\* What a round takes: estimates but for the last, and history for the byte quota alone
EstimatesTaken(quota) ==
    IF Count(tx.estimates) > 1
    THEN EvictionBatch(Count(tx.estimates), Bytes(tx.estimates, tx.log), quota) ELSE 0
HistoryTaken(quota) ==
    IF OverBytes(quota) /\ tx.log # {}
    THEN HistoryBatch(Cardinality(tx.log), Bytes(tx.estimates, tx.log), quota) ELSE 0

\* DELETE ... ORDER BY id ASC LIMIT n
WithoutOldest(entries, n) ==
    {entry \in entries : Cardinality({e \in entries : e.id <= entry.id}) > n}

\* One round of the eviction loop: what it may leave
AfterRound(quota) ==
    {[tx EXCEPT !.estimates = [k \in Keys |-> IF k \in evicted THEN NoRow ELSE @[k]],
                !.log = WithoutOldest(@, HistoryTaken(quota))] :
         evicted \in Victims(tx.estimates, EstimatesTaken(quota))}

Round(p) ==
    /\ pc[p] = "evict" /\ Removable(request[p].quota)
    /\ tx' \in AfterRound(request[p].quota)
    /\ UNCHANGED <<clock, tables, local, history>>

Commit(p) ==
    /\ pc[p] = "evict" /\ ~Removable(request[p].quota)
    /\ estimates' = tx.estimates /\ log' = tx.log
    /\ tx' = NoTx
    /\ nextId' = IF Saves(p) THEN nextId + 1 ELSE nextId
    /\ End(p)
    /\ UNCHANGED <<clock, started, since>>

\* SQLITE_BUSY, once every wait is over: a touch does without, other commands give up
Busy(p) ==
    /\ tx.owner \notin {None, p}
    /\ \/ pc[p] = "touch" /\ Goto(p, "check") /\ UNCHANGED <<request, row, now>>
       \/ pc[p] \in {"clear", "clear history", "delete", "newer", "begin"} /\ End(p)
    /\ UNCHANGED <<clock, tables, tx, history>>

\* The process is killed; its transaction is rolled back
Die(p) ==
    /\ pc[p] # "idle"
    /\ tx' = IF tx.owner = p THEN NoTx ELSE tx
    /\ End(p)
    /\ UNCHANGED <<clock, tables, history>>

Tick ==
    /\ clock < MaxClock
    /\ clock' = clock + 1
    /\ UNCHANGED <<tables, tx, local, history>>

-----------------------------------------------------------------------------
Step(p) ==
    \/ ClearEstimates(p) \/ ClearHistory(p) \/ CountMatches(p) \/ Delete(p) \/ NewerRelease(p)
    \/ Lookup(p) \/ Touch(p) \/ Check(p) \/ Serve(p) \/ Simulate(p)
    \/ Begin(p) \/ Round(p) \/ Commit(p) \/ Busy(p)

Next == Tick \/ \E p \in Procs : Start(p) \/ Step(p) \/ Die(p)

Spec == Init /\ [][Next]_vars

-----------------------------------------------------------------------------
\* "each round deletes at least one row" (MAX_EVICTION_ROUNDS): while the eviction loop goes on,
\* every round it may take leaves fewer rows than it found, so that it ends before its bound on
\* rounds, with the quotas met or nothing left to take.
RoundsShrink ==
    \A p \in Procs : pc[p] = "evict" /\ Removable(request[p].quota) =>
        \A after \in AfterRound(request[p].quota) :
            Count(after.estimates) + Cardinality(after.log)
                < Count(tx.estimates) + Cardinality(tx.log)

\* "so the cache is never emptied by a byte-driven pass": a transaction leaves an estimate
\* where there was one, and a save loses its own only to one used since it read the clock.
SavedUnlessOvertaken ==
    [][\A p \in Procs : Commit(p) =>
           /\ Cached(estimates) # {} => Cached(estimates') # {}
           /\ Saves(p) => \/ estimates'[request[p].key].id = nextId
                          \/ \E k \in Cached(estimates') : estimates'[k].accessed >= now[p]]_vars

\* A clear that ends takes every estimate and every history row that was saved for its network
\* before it began, whatever other processes write meanwhile.
ClearedIsGone ==
    [][\A p \in Procs : ClearHistory(p) =>
           /\ \A k \in Cached(estimates') :
                  estimates'[k].network = request[p].network => estimates'[k].id >= since[p]
           /\ \A entry \in log' : entry.network = request[p].network => entry.id >= since[p]]_vars

\* The commands that read agree: stats counts what list shows and what verify rejects, export
\* fails where verify does, the pages of a listing are the listing, newest first, and the filter
\* of cache query or cache delete "selects exactly the same entries when listing and when
\* deleting" (build_cache_filter).  Any tables may be those of a moment at which no command is
\* under way, since commands die.
ReadersAgree ==
    (\A p \in Procs : pc[p] = "idle") =>
        LET stats == Stats(estimates)
            all == List(estimates, None)
            networks == DOMAIN stats.per_network
        IN  /\ Verified(estimates) <=> Exportable(estimates)
            /\ Exportable(estimates) => Export(estimates, None) = ToSet(all)
            /\ stats.total = Len(all) + Cardinality({k \in Cached(estimates) : ~Verification(estimates)[k]})
            /\ stats.total = Cardinality(UNION {{n} \X (1..stats.per_network[n]) : n \in networks})
            /\ all # <<>> => /\ estimates[Head(all)].timestamp <= stats.newest
                             /\ estimates[Last(all)].timestamp >= stats.oldest
            /\ \A i, j \in DOMAIN all : i < j => estimates[all[i]].timestamp >= estimates[all[j]].timestamp
            /\ \A limit \in 1..MaxListLimit :
                  ToSet(all) = UNION {ToSet(Page(all, limit, n * limit)) : n \in 0..Len(all)}
            /\ \A r \in Deletions :
                  LET listing == Query(estimates, BuildFilter(r.args, clock))
                  IN  /\ ToSet(listing) = Doomed(estimates, BuildFilter(r.args, clock))
                      /\ r.args.older_than = None => listing = Query(estimates, QueryFilter(r.args))
=============================================================================
