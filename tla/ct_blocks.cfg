SPECIFICATION RefinedSpec
CHECK_DEADLOCK FALSE
CONSTANTS
    N1 <- MCN1
    N2 <- MCN2
    N3 <- MCN3
    NBlocks = 2
    Buffer = 1
    EMFs <- MCEMFs
    Options <- MCUnrefined
    MaxSteps <- MCMaxSteps
    Grain <- MCGrain
INVARIANT SharedFacesAgree
