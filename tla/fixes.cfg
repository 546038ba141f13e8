SPECIFICATION TroubleSpec
CONSTANTS
    NBlocks = 2
    N = 3
    Rows = 2
    Ghosts = 2
    Reach = 1
    Decks <- MCDecks
    Histories <- MCHistories
    Frames <- MCFrames
    Prescriptions <- MCPrescriptions
    ZoneStates <- MCZoneStates
    Fields <- MCFields
    Radii = {1, 4}
    MaxPasses = 2
INVARIANTS
    AsOneBlock
    Lockstep
    LimitsHold
CHECK_DEADLOCK FALSE
