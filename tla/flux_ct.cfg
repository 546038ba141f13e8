SPECIFICATION Spec
CONSTANTS
    Decks <- MCDecks
    Blocks <- MCBlocks
    MaxSteps = 1
    MaxInputs = 1
INVARIANT CornersDivergenceFree
PROPERTY ShellFluxKept
CHECK_DEADLOCK FALSE
