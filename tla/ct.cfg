SPECIFICATION RefinedSpec
CHECK_DEADLOCK FALSE
CONSTANTS
    N1 <- MCN1
    N2 <- MCN2
    N3 <- MCN3
    NBlocks = 1
    Buffer = 1
    EMFs <- MCEMFs
    Options <- MCOptions
    MaxSteps <- MCMaxSteps
    Grain <- MCGrain
INVARIANTS
    DivergenceFree
    SharedFacesAgree
    PoleClosed
PROPERTY CoarseFluxesKept
