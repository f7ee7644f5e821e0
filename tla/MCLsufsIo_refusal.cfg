SPECIFICATION Spec
CONSTANTS
    Operations <- AllOperations
    Values <- EdgeValues
    DescriptorData <- NoDescriptors
    Responses = {0, 255}
    KernelFails = FALSE
INVARIANTS
    RefusalReported
