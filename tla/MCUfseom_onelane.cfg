SPECIFICATION Spec
CONSTANTS
    Connected = {0}
    ErrorThreshold = 1
    ClearOnEnable = FALSE
    StartWithPmc = TRUE
    Leftovers <- NoLeftovers
    Options <- MCOneLane
    Caps <- GoodCaps
    Faults = FALSE
    UniproSupported = TRUE
    DelayCoversPmc = TRUE
    DiskMayFill = FALSE
INVARIANTS
    AllConnectedLanesReported
