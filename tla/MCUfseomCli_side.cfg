SPECIFICATION Spec
CONSTANTS
    Arguments <- EdgeArguments
    MaxOptions = 3
INVARIANTS
    AcceptedSideChosen
