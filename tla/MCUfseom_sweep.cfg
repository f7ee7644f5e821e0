SPECIFICATION FairSpec
CONSTANTS
    Connected = {0, 1}
    ErrorThreshold = 2
    ClearOnEnable = TRUE
    StartWithPmc = FALSE
    Leftovers <- AnyLeftovers
    Options <- MCSweepOptions
    Caps <- AllCaps
    Faults = FALSE
    UniproSupported = FALSE
    DelayCoversPmc = FALSE
    DiskMayFill = FALSE
PROPERTIES
    RefinesSweep
    RowsAreMeasured
    Termination
