SPECIFICATION FairSpec
CONSTANTS
    Connected = {0, 1}
    ErrorThreshold = 1
    ClearOnEnable = TRUE
    StartWithPmc = FALSE
    Leftovers <- SomeLeftovers
    PyOptions <- MCPyOptions
    Limits <- MCLimits
    MaxLoss = 2
    TranslatesDevice = FALSE
INVARIANTS
    TypeOK
    CompleteUnlessFailed
    MonitorsReleased
PROPERTIES
    RowsAreMeasured
    EndsUnlessWriteLost
    StepsRefineBestEffort
