SPECIFICATION Spec
CONSTANTS
    UfseomFiles <- MCUfseomFiles
    OtherFiles <- MCOtherFiles
INVARIANTS
    TypeOK
    VerdictHonest
    CentreRight
    ReadsUfseomReports
