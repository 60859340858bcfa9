----------------------------- MODULE CacheQuery -------------------------------
(***************************************************************************)
(* What the commands that look at the estimate cache make of its rows      *)
(* (src/src/cache.rs, and cache list, query, export, verify and stats of   *)
(* src/src/main.rs): one SELECT each, and the rest in memory.  A row may   *)
(* have been written by a newer release, with a schema that this one       *)
(* cannot read.                                                            *)
(*                                                                         *)
(* A key stands for (wasm_hash, function, args_hash).                      *)
(***************************************************************************)
EXTENDS Ordered, Integers, Sequences, FiniteSetsExt, SequencesExt

CONSTANTS Keys, Networks,
          Day, Second,      \* in units of time
          MaxListLimit,     \* MAX_LIST_LIMIT
          None

ASSUME CacheQueryAssumption ==
    /\ Keys # {} /\ IsFiniteSet(Keys)
    /\ None \notin Networks
    /\ Day \in Nat /\ Second \in 0..Day /\ MaxListLimit \in Nat

\* id is the history row that the row's save appended with it
NoRow == [network |-> None, timestamp |-> 0, accessed |-> 0, id |-> 0, newer |-> FALSE]
Cached(rows) == {k \in Keys : rows[k] # NoRow}

\* migrate_to_latest
Readable(r) == ~r.newer

-----------------------------------------------------------------------------
\* What is asked for: keys are the ones with the function, the hash prefix and the fee in range
Everything == [network |-> None, keys |-> None, since |-> None, to |-> None]

Earlier(s, t) == IF s = None THEN t ELSE IF t = None THEN s ELSE IF s < t THEN s ELSE t

\* parse_since_timestamp and parse_to_timestamp; a date is a day, from its first instant to its
\* last second
SinceTime(argument) ==
    CASE argument = None -> None
      [] "day" \in DOMAIN argument -> argument.day * Day
      [] OTHER -> argument.instant
ToTime(argument) ==
    CASE argument = None -> None
      [] "day" \in DOMAIN argument -> argument.day * Day + (Day - Second)
      [] OTHER -> argument.instant

\* build_cache_filter: the earlier of the two upper bounds wins
BuildFilter(args, clock) ==
    [network |-> args.network, keys |-> args.keys,
     since |-> SinceTime(args.since),
     to |-> Earlier(ToTime(args.to), IF args.older_than = None THEN None ELSE clock - args.older_than)]

\* cmd_cache_query's filter, which has no age
QueryFilter(args) ==
    [network |-> args.network, keys |-> args.keys, since |-> SinceTime(args.since), to |-> ToTime(args.to)]

\* CacheFilter::validate
Valid(filter) == \A s \in {filter.since} \ {None}, t \in {filter.to} \ {None} : s <= t

\* CacheFilter::matches; both bounds are inclusive
Matches(k, r, filter) ==
    /\ filter.keys = None \/ k \in filter.keys
    /\ filter.network \in {None, r.network}
    /\ filter.since = None \/ r.timestamp >= filter.since
    /\ filter.to = None \/ r.timestamp <= filter.to

-----------------------------------------------------------------------------
\* list_cached_estimates and list_all_cached_estimates: newest first
List(rows, network) ==
    LET shown == {k \in Cached(rows) : network \in {None, rows[k].network} /\ Readable(rows[k])}
    IN  Descending([k \in shown |-> rows[k].timestamp])

\* query_cache
Query(rows, filter) ==
    LET list == List(rows, filter.network)
    IN  At(list, {i \in DOMAIN list : Matches(list[i], rows[list[i]], filter)})

\* Mutant: the end of a page does not count what was skipped.
PageUnskipped(seq, limit, offset) ==
    SubSeq(seq, offset + 1, Min({Min({limit, MaxListLimit}), Len(seq)}))

\* list_cached_estimates_paginated
Page(seq, limit, offset) ==
    SubSeq(seq, offset + 1, Min({offset + Min({limit, MaxListLimit}), Len(seq)}))

\* delete_cached_estimates selects among all rows
Doomed(rows, filter) ==
    {k \in Cached(rows) : Readable(rows[k]) /\ Matches(k, rows[k], filter)}

\* export_cache: one row that cannot be read, of whichever network, and nothing is exported
Exportable(rows) == \A k \in Cached(rows) : Readable(rows[k])
Export(rows, network) == {k \in Cached(rows) : network \in {None, rows[k].network}}

\* verify_cache
Verification(rows) == [k \in Cached(rows) |-> Readable(rows[k])]
\* cmd_cache_verify: its exit status
Verified(rows) == \A k \in Cached(rows) : Verification(rows)[k]

\* cache_stats counts what it cannot read, too
Stats(rows) ==
    [total |-> Cardinality(Cached(rows)),
     oldest |-> IF Cached(rows) = {} THEN None ELSE Min({rows[k].timestamp : k \in Cached(rows)}),
     newest |-> IF Cached(rows) = {} THEN None ELSE Max({rows[k].timestamp : k \in Cached(rows)}),
     per_network |-> [n \in {rows[k].network : k \in Cached(rows)} |->
                        Cardinality({k \in Cached(rows) : rows[k].network = n})]]
=============================================================================
