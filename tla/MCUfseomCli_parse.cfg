SPECIFICATION Spec
CONSTANTS
    Arguments <- EdgeArguments
    MaxOptions = 5
INVARIANTS
    AcceptedWellFormed
    LastGivenWins
