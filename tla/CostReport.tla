----------------------------- MODULE CostReport -------------------------------
(***************************************************************************)
(* What is made of the simulations of a run (src/src/report/cost_report.rs *)
(* and its callers in src/src/main.rs): the network's rates are fetched in *)
(* one call, its limits again one setting at a time; then each simulation  *)
(* becomes a report with its fees, its warnings, its tips and its          *)
(* difference from the reports before it; the reports together become a    *)
(* distribution, and one of them a projection.                             *)
(***************************************************************************)
EXTENDS Fees, Ordered, ConfigFetch

CONSTANTS Totals,      \* resource fees that endpoints report
          Uses,        \* resources that simulations consume
          Configs,     \* the network's configurations, one after the other
          Counts,      \* lists for --project
          MaxReports,
          MaxFaults    \* bound: replies that fail, are short or are garbled

\* The settings that have a rate, which have a limit, too, in the order they are asked for
Sources == <<"compute", "cost", "bandwidth">>

\* What the data of an entry may be
Data == {None} \union {[of |-> s, value |-> Configs[n][s]] : s \in Ids, n \in DOMAIN Configs}

RateNames == [compute |-> {"per_10k_insns"}, bandwidth |-> {"per_1kb"},
              cost |-> {"per_read_entry", "per_write_entry", "per_read_1kb"}]

\* Rates and uses are not negative, and None is nothing else that is fetched.
ASSUME CostReportAssumption ==
    /\ MaxReports \in Nat /\ MaxFaults \in Nat
    /\ \A t \in Totals : t \in Int /\ InRange(t)
    /\ \A u \in Uses :
          /\ \A r \in {"cpu", "read_entries", "write_entries", "read_bytes", "write_bytes", "tx_size", "wasm_size"} :
                u[r] \in Nat
          /\ u.write_entries <= I64Max
    /\ ToSet(Sources) \subseteq Ids
    /\ Len(Configs) > 0 /\ DOMAIN Configs = 1..Len(Configs)
    /\ \A n \in DOMAIN Configs :
          /\ \A s \in Ids : Configs[n][s] # None /\ [of |-> s, value |-> Configs[n][s]] # None
          /\ \A s \in DOMAIN RateNames : \A r \in RateNames[s] : Configs[n][s][r] \in Nat
    /\ None \notin [Ids -> [data : Data, modified : Nat]] \union [Ids -> [data : Data]]
    /\ None \notin [entries : Seq([key : Ids, data : Data, modified : Nat]), latest : Nat]

VARIABLES
    network,       \* the configuration in force
    faults,        \* replies so far that were not sound
    step,          \* fetches so far: the rates, and each source of limits
    rates,
    degraded,      \* sources the user is warned of, their rates being zero
    limits,        \* a snapshot of the limits
    reports,       \* in the order of the simulations
    projections,   \* of the last report
    summary        \* of all reports

config == <<network, faults, step, rates, degraded, limits>>
results == <<reports, projections, summary>>
report_vars == <<config, results>>

NoRates == [per_10k_insns |-> 0, per_1kb |-> 0, per_read_entry |-> 0, per_write_entry |-> 0, per_read_1kb |-> 0]

ReportInit ==
    /\ network = 1 /\ faults = 0 /\ step = 0
    /\ rates = NoRates /\ degraded = {} /\ limits = EmptySnapshot
    /\ reports = <<>> /\ projections = None /\ summary = None

-----------------------------------------------------------------------------
\* A vote upgrades the configuration while it is being read
Upgrade ==
    /\ network < Len(Configs) /\ step <= Len(Sources)
    /\ network' = network + 1
    /\ UNCHANGED <<faults, step, rates, degraded, limits, results>>

\* The replies to a call, with the number of faults after it
Replies(asked) ==
    (Sound(Configs[network], asked, network, network) \X {faults})
    \union IF faults < MaxFaults
           THEN Faulty(Configs[network], asked, network, network) \X {faults + 1} ELSE {}

Rate(fetched, source, name) ==
    IF ValueOf(fetched, source) = None THEN 0 ELSE ValueOf(fetched, source)[name]

\* fee_rates_from_config
RatesOf(fetched) ==
    [per_10k_insns   |-> Rate(fetched, "compute", "per_10k_insns"),
     per_read_entry  |-> Rate(fetched, "cost", "per_read_entry"),
     per_write_entry |-> Rate(fetched, "cost", "per_write_entry"),
     per_read_1kb    |-> Rate(fetched, "cost", "per_read_1kb"),
     per_1kb         |-> Rate(fetched, "bandwidth", "per_1kb")]

\* fetch_config_cache: its failure is no failure of the command
FetchRates ==
    /\ step = 0 /\ step' = 1
    /\ \E reply \in Replies(Settings) :
          LET fetched == FetchAll(reply[1])
          IN /\ rates' = RatesOf(fetched)
             /\ degraded' = {s \in ToSet(Sources) : ValueOf(fetched, s) = None}
             /\ faults' = reply[2]
    /\ UNCHANGED <<network, limits, results>>

\* fetch_network_config, one setting: what is not fetched or does not decode is passed over
FetchLimit ==
    /\ step \in DOMAIN Sources /\ step' = step + 1
    /\ \E reply \in Replies(<<Sources[step]>>) :
          LET data == FetchOne(reply[1])
          IN /\ limits' = IF data = None THEN limits ELSE Apply(limits, data)
             /\ faults' = reply[2]
    /\ UNCHANGED <<network, rates, degraded, results>>

Configured == step > Len(Sources)

\* NetworkConfig::from_snapshot
Limit(r) ==
    LET of(source) == IF limits[source] = None THEN None ELSE limits[source][r]
    IN CASE r = "cpu" -> of("compute")
         [] r = "tx_size" -> of("bandwidth")
         [] OTHER -> of("cost")

-----------------------------------------------------------------------------
\* NetworkConfig::from_snapshot: a limit that is not positive is none
Known(limit) == IF limit = None THEN FALSE ELSE limit > 0

U64Max == 2 * I64Max + 1
Times(x, n) == IF x * n > U64Max THEN U64Max ELSE x * n

Threshold == 80   \* RESOURCE_WARNING_THRESHOLD_PERCENT

\* push_resource_warning
Near(used, limit) == Known(limit) /\ Times(used, 100) >= Times(limit, Threshold)

\* check_resource_limits_raw, in its order
LimitedResources == <<"cpu", "read_entries", "write_entries", "read_bytes", "write_bytes", "tx_size">>
Warnings(use) == SelectSeq(LimitedResources, LAMBDA r : Near(use[r], Limit(r)))

\* share_pct
SharePct(part, total) == IF total <= 0 \/ part <= 0 THEN 0 ELSE (part * 100) \div total

\* generate_optimization_tips: three entries are many, a kilobyte is a large envelope, thirty a
\* large binary, and two fifths of the total dominate it
Tips(use, fee) ==
    LET dominant(part) == SharePct(fee.parts[part], fee.total) >= 40
    IN {t \in {"wasm", "writes", "reads", "cpu", "payload", "refundable"} :
          CASE t = "wasm"       -> use.wasm_size > 30 * 1024
            [] t = "writes"     -> use.write_entries >= 3 /\ dominant(2)
            [] t = "reads"      -> use.read_entries >= 3 /\ dominant(2)
            [] t = "cpu"        -> use.cpu > 0 /\ dominant(1)
            [] t = "payload"    -> use.tx_size >= 1024 /\ dominant(3)
            [] t = "refundable" -> fee.parts[5] > 0 /\ dominant(5)}

\* suggest_optimizations: what one unit of each reducible resource costs, the dearest first
Suggestions(use) ==
    LET unit == <<[of |-> "write_entries", saving |-> rates.per_write_entry],
                  [of |-> "read_entries", saving |-> rates.per_read_entry],
                  [of |-> "read_bytes", saving |-> rates.per_read_1kb],
                  [of |-> "cpu", saving |-> rates.per_10k_insns]>>
        reducible == SelectSeq(unit, LAMBDA s : use[s.of] > 0 /\ s.saving > 0)
    IN SortSeq(reducible, LAMBDA a, b : a.saving > b.saving)

\* CostTrend::for_delta
Trend(delta) == IF delta > 0 THEN "regression" ELSE IF delta < 0 THEN "improvement" ELSE "unchanged"

\* FootprintDelta::between: a footprint that was not recorded is not an empty one
FootprintDelta(before, now) ==
    IF None \in {before, now} THEN None ELSE [r \in DOMAIN now |-> before[r] - now[r]]

Footprint(use) ==
    IF use.recorded THEN [read_entries |-> use.read_entries, write_entries |-> use.write_entries] ELSE None

\* Mutant: oldest first.
HistoryOldestFirst(fee, use) ==
    [i \in 1..Len(reports) |->
        LET delta == Saturate(reports[i].fee.total - fee.total)
        IN [delta |-> delta, trend |-> Trend(delta),
            io |-> FootprintDelta(Footprint(reports[i].use), Footprint(use))]]

\* build_history_entries: the earlier runs, newest first
HistoryEntries(fee, use) ==
    [i \in 1..Len(reports) |->
        LET run == reports[Len(reports) + 1 - i]
            delta == Saturate(run.fee.total - fee.total)
        IN [delta |-> delta, trend |-> Trend(delta),
            io |-> FootprintDelta(Footprint(run.use), Footprint(use))]]

\* MetricDelta::new; the change in percent has no meaning where there was nothing
MetricDelta(previous, current) ==
    [absolute |-> Saturate(current - previous), percent |-> previous # 0]

\* CostDelta::compute, against the run before
CostDelta(fee, use) ==
    IF reports = <<>> THEN None
    ELSE [fee |-> MetricDelta(Last(reports).fee.total, fee.total),
          cpu |-> MetricDelta(Last(reports).use.cpu, use.cpu),
          write_entries |-> IF Last(reports).use.recorded
                            THEN MetricDelta(Last(reports).use.write_entries, use.write_entries) ELSE None]

\* A simulation is answered and reported
Estimate ==
    /\ Configured /\ Len(reports) < MaxReports
    /\ summary = None /\ projections = None
    /\ \E total \in Totals, use \in Uses :
          LET fee == Breakdown(total, use, rates)
          IN reports' = Append(reports,
                [resource_fee |-> total, use |-> use, fee |-> fee, warnings |-> Warnings(use),
                 tips |-> Tips(use, fee), suggestions |-> Suggestions(use),
                 history |-> HistoryEntries(fee, use), delta |-> CostDelta(fee, use)])
    /\ UNCHANGED <<config, projections, summary>>

-----------------------------------------------------------------------------
\* parse_projection_counts
CountsValid(counts) ==
    /\ counts # <<>> /\ IsInjective(counts)
    /\ \A i \in 1..Len(counts) : counts[i] \in 1..I64Max

\* calculate_projections, of one count
Projection(total, count) == IF InRange(total * count) THEN total * count ELSE None

\* --project
Project ==
    /\ reports # <<>> /\ projections = None
    /\ \E counts \in Counts :
          /\ CountsValid(counts)
          /\ projections' = [i \in 1..Len(counts) |->
                               [count |-> counts[i], total |-> Projection(Last(reports).fee.total, counts[i])]]
    /\ UNCHANGED <<config, reports, summary>>

-----------------------------------------------------------------------------
\* isqrt_u128: Newton's method, which begins above the root except for two
Isqrt(value) ==
    LET descend[x \in 1..value] ==
            LET y == (x + value \div x) \div 2 IN IF y < x THEN descend[y] ELSE x
        first == value \div 2 + 1
    IN IF value < 2 \/ first >= value THEN value ELSE descend[first]

\* sort_unstable
Sorted(fees) ==
    LET order == Descending(fees) IN [k \in 1..Len(fees) |-> fees[order[Len(fees) + 1 - k]]]

Median(sorted) ==
    LET n == Len(sorted)
    IN IF n % 2 = 1 THEN sorted[n \div 2 + 1]
       ELSE Quotient(sorted[n \div 2] + sorted[n \div 2 + 1], 2)

\* An i128 has a sign and twice the digits of an i64; two's complement wraps at its ends.
I128Half == 2 * (I64Max + 1) * (I64Max + 1)
I128Wrapped(x) == ((x + I128Half) % (2 * I128Half)) - I128Half

SquaresOf(values) == SumOf([i \in DOMAIN values |-> values[i] * values[i]])

\* One of the products is more than an i128 holds: the sum of the squares is less than the first.
Overflows(values) ==
    \/ Len(values) * SquaresOf(values) >= I128Half
    \/ SumOf(values) * SumOf(values) >= I128Half

VarianceNumerator(values) == Len(values) * SquaresOf(values) - SumOf(values) * SumOf(values)

\* The standard deviation where overflow wraps: once at the end is as good as at each operation.
Deviation(values) ==
    Isqrt(AtLeastZero(I128Wrapped(VarianceNumerator(values))) \div (Len(values) * Len(values)))

\* Mutant: the median is taken before the fees are sorted.
DistributionUnsorted(fees, cpus) ==
    [count |-> Len(fees),
     fees |-> FeeRange(fees),
     median |-> Median(fees),
     std_dev |-> Deviation(fees),
     cpu |-> [min |-> Min(ToSet(cpus)), max |-> Max(ToSet(cpus)), mean |-> SumOf(cpus) \div Len(cpus)]]

\* FeeDistribution::from_samples, calculate_distribution_stats and summarize_estimate_all, of at
\* least one report
Distribution(fees, cpus) ==
    [count |-> Len(fees),
     fees |-> FeeRange(fees),
     median |-> Median(Sorted(fees)),
     std_dev |-> Deviation(fees),
     cpu |-> [min |-> Min(ToSet(cpus)), max |-> Max(ToSet(cpus)), mean |-> SumOf(cpus) \div Len(cpus)]]

\* No distribution: a build with overflow checks panics
Panicked == [count |-> 0]

\* The end of a batch, of a build with overflow checks or without
Summarize ==
    /\ reports # <<>> /\ summary = None
    /\ LET fees == [i \in 1..Len(reports) |-> reports[i].fee.total]
           cpus == [i \in 1..Len(reports) |-> reports[i].use.cpu]
       IN \/ summary' = Distribution(fees, cpus)
          \/ Overflows(fees) /\ summary' = Panicked
    /\ UNCHANGED <<config, reports, projections>>

-----------------------------------------------------------------------------
ReportNext == Upgrade \/ FetchRates \/ FetchLimit \/ Estimate \/ Project \/ Summarize

ReportSpec == ReportInit /\ [][ReportNext]_report_vars

-----------------------------------------------------------------------------
Abs(x) == IF x < 0 THEN -x ELSE x
\* Reports are only added: each has been the newest.
NewestReport == IF reports = <<>> THEN {} ELSE {Last(reports)}

\* A simulation is priced at the rates of one configuration that was in force, and warned of by
\* limits of that one or of a later one: "a partially populated config would silently price fees
\* against the wrong rates" (NetworkConfig::fetch), so that a rate is missing only after a fault,
\* and the user is told ("it must never pass unannounced", fee_rates_from_config).
PricedByOneConfiguration ==
    Configured =>
        /\ degraded # {} => faults > 0
        /\ \E n \in 1..network :
              /\ rates = RatesOf([s \in Ids |->
                    [data |-> IF s \in degraded THEN None ELSE [of |-> s, value |-> Configs[n][s]]]])
              /\ \A s \in ToSet(Sources) :
                    \/ \E m \in n..network : limits[s] = Configs[m][s]
                    \/ limits[s] = None /\ faults > 0
        /\ network = 1 /\ faults = 0 => limits = [s \in Ids |-> IF s \in ToSet(Sources) THEN Configs[1][s] ELSE None]

\* The printed shares add up to a hundred percent, whatever the rates are against the total,
\* as long as each is an i64; and where the total covers the fees the rates imply, each share is
\* its part's, rounded, and the largest part's off by the other four roundings at most ("exact
\* percentages summing to 100.0%", compute_fee_breakdown).
SharesAddUp ==
    \A r \in NewestReport :
        LET total == r.fee.total  parts == r.fee.parts  shares == r.fee.shares IN
        /\ total <= 0 => \A i \in 1..5 : shares[i] = 0
        /\ total > 0 /\ (\A i \in 1..5 : (parts[i] * 1000) \div total < (I64Max \div 5) - 1) => Sum5(shares) = 1000
        /\ total > 0 /\ r.fee.non_refundable <= r.resource_fee /\ total < I64Max =>
              \A i \in 1..5 :
                 /\ shares[i] \in 0..1000
                 /\ 2 * Abs(shares[i] * total - parts[i] * 1000) <= (IF i = Largest(parts) THEN 5 ELSE 1) * total

\* An amount in XLM, read again, is the amount, rounded to the precision it was printed with; it
\* is refused only where that rounding may carry it past the end of an i64, never at the full
\* precision (stroops_to_xlm, xlm_to_stroops: "the exact value a caller round-trips is the value
\* it gets back").
AmountsRoundTrip ==
    \A r \in NewestReport : \A s \in {r.fee.total} \union {h.delta : h \in ToSet(r.history)}, p \in 0..Decimals :
        LET unit == IF p = Decimals THEN 0 ELSE TenTo[Decimals - p]
            read == Stroops(Xlm(s, p))
        IN \/ \E x \in read : 2 * Abs(x - s) <= unit
           \/ read = {} /\ \E end \in {I64Min, I64Max} : 2 * Abs(end - s) < unit

\* The history and --compare tell the same change, with opposite signs: a historical run that
\* cost more than this one is called a regression (build_history_entries, CostDelta::compute).
HistoryMirrorsCompare ==
    \A r \in NewestReport : r.delta # None =>
        LET change == r.delta.fee.absolute  newest == r.history[1] IN
        /\ newest.delta = -change \/ I64Min \in {newest.delta, change}
        /\ newest.trend = Trend(-change)
        /\ newest.io # None => newest.io.write_entries = -r.delta.write_entries.absolute

Variance(values) == AtLeastZero(VarianceNumerator(values)) \div (Len(values) * Len(values))

\* The distribution lies within the samples.  Its standard deviation is the integer root of the
\* variance, except that the root of two comes out as two, unless the fees are too large for
\* what it is computed in, and only then can there be no distribution ("a large batch cannot
\* overflow", from_samples; isqrt_u128).
SummaryWithinSamples ==
    summary # None =>
        LET fees == [i \in 1..Len(reports) |-> reports[i].fee.total]
            inside(x) == summary.fees.min <= x /\ x <= summary.fees.max
            below(x) == {i \in DOMAIN fees : fees[i] <= x}
        IN IF summary = Panicked THEN Overflows(fees)
           ELSE /\ summary.count = Len(reports)
                /\ summary.fees.min \in ToSet(fees) /\ summary.fees.max \in ToSet(fees)
                /\ inside(summary.fees.avg) /\ inside(summary.median)
                /\ 2 * Cardinality(below(summary.median)) >= Len(fees)
                /\ 2 * Cardinality(below(summary.median - 1)) <= Len(fees)
                /\ ~Overflows(fees) =>
                      LET sd == summary.std_dev  variance == Variance(fees) IN
                      IF variance = 2 THEN sd = 2 ELSE sd * sd <= variance /\ variance < (sd + 1) * (sd + 1)
=============================================================================
