SPECIFICATION Spec
CONSTANTS
    Connected = {0, 1}
    ErrorThreshold = 1
    ClearOnEnable = TRUE
    StartWithPmc = FALSE
    Leftovers <- NoLeftovers
    PyOptions <- MCOnePoint
    Limits <- MCLimits
    MaxLoss = 0
    TranslatesDevice = TRUE
INVARIANTS
    ReportGenerated
