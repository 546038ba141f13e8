SPECIFICATION FluxSpec
CONSTANTS
    N = 3
    Ghosts = 2
    FluxHalo = 1
    GuessHalo = 2
    SubSteps = 2
    Unit = 40
    RowZones = 2
    FaceUnit = 120
    LeftOver = LeftOver
    Rows <- MCRows
    Scenarios <- MCScenarios
INVARIANTS
    AgreeInOrder
    NeedyPaid
    StatesSound
    FluxKeepsPositive
CHECK_DEADLOCK FALSE
