SPECIFICATION Spec
CONSTANTS
    UfseomFiles <- MCNoFiles
    OtherFiles <- MCPyFiles
INVARIANTS
    PyReportsPlotted
