CONSTANTS
    I64Max = 10049
    Decimals = 2
    None = None
    Totals <- MCTotals
    Uses <- MCUses
    Settings <- MCSettings
    MaxLedger = 9
    Configs <- MCConfigs
    MaxFaults = 1
    Counts <- MCCounts
    MaxReports = 3
SPECIFICATION ReportSpec
INVARIANT PricedByOneConfiguration
INVARIANT SharesAddUp
INVARIANT AmountsRoundTrip
INVARIANT HistoryMirrorsCompare
INVARIANT SummaryWithinSamples
\* A command ends.
CHECK_DEADLOCK FALSE
