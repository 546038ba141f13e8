CONSTANTS
    Decks <- MCDecks
    MaxSteps = 2
    MaxCrashes = 2
SPECIFICATION Spec
INVARIANTS
    TemporariesFullSize
    EveryVariableRecovered
    RestartKeepsState
    ReadyToStep
    DirichletKept
    FieldCleaned
PROPERTY InputsReady
