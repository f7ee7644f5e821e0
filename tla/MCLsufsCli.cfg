SPECIFICATION Spec
CONSTANTS
    Arguments <- EdgeArguments
    MaxWords = 15
    MaxPieces = 3
INVARIANTS
    RunsOnlyComplete
    RunsWhatWasGiven
    OnlySpareWordsDropped
