SPECIFICATION FairSpec
CONSTANTS
    Connected = {0, 1}
    ErrorThreshold = 1
    ClearOnEnable = FALSE
    StartWithPmc = TRUE
    Leftovers <- AnyLeftovers
    Options <- MCFaultOptions
    Caps <- AllCaps
    Faults = TRUE
    UniproSupported = TRUE
    DelayCoversPmc = TRUE
    DiskMayFill = FALSE
INVARIANTS
    TypeOK
    ResultsInBounds
    ScanProgress
    MonitorsReleased
    NoLeak
    SuccessMeansComplete
PROPERTIES
    RowsAreMeasured
    StepsRefineSweep
    Termination
