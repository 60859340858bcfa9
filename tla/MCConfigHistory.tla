--------------------------- MODULE MCConfigHistory ---------------------------
EXTENDS ConfigHistory

MCSections == {"compute"}
MCFields == {"fee", "limit"}
MCSectionOf == [fee |-> "compute", limit |-> "compute"]
MCValues == [fee |-> {100, 105}, limit |-> {1}]

Flags(pricing_only, threshold, ignore, any, against) ==
    [pricing_only |-> pricing_only, threshold |-> threshold, ignore_pricing_exit |-> ignore,
     fail_on_any_change |-> any, against |-> against]

\* A file is misplaced by one after the next capture, or by two before the one before
MCOffsets == {1, -2}

MCDiffFlags == {Flags(FALSE, None, FALSE, FALSE, None), Flags(TRUE, 5, FALSE, TRUE, 1)}
=============================================================================
