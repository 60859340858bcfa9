CONSTANTS
    None = None
    Sections <- MCSections
    Fields <- MCFields
    SectionOf <- MCSectionOf
    Priced = {"fee"}
    Values <- MCValues
    MaxTime = 3
    MaxChanges = 2
    MaxForeign = 1
    Manual = {9}
    DiffFlags <- MCDiffFlags
    Ages = {1}
    Offsets <- MCOffsets
    LedgerLimit = 3
SPECIFICATION HistorySpec
INVARIANT LastChangedIsRight
PROPERTY BundleRestores
PROPERTY AlarmClears
PROPERTY PreviousAgreesWithLive
