SPECIFICATION Spec
CONSTANTS
    Operations <- AllOperations
    Values <- EdgeValues
    DescriptorData <- EdgeDescriptors
    Responses = {0, 1, 255}
    KernelFails = TRUE
INVARIANTS
    TypeOK
    SuccessWentThrough
    UicOutcomeHonest
    DescriptorShown
PROPERTIES
    WritesAreMeant
