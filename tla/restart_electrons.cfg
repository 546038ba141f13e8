CONSTANTS
    Decks <- ElectronTorusImEx
    MaxSteps = 1
    MaxCrashes = 1
SPECIFICATION Spec
INVARIANT RestartKeepsState
