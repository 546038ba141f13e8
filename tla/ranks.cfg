SPECIFICATION RanksSpec
CONSTANTS
    r1 = r1
    r2 = r2
    r3 = r3
    a = a
    b = b
    z = z
    Ranks = {r1, r2, r3}
    NumPartitions = 1
    Processes = {r1, r2}
    Root = r1
    Parts = {a, b}
    Zones = {z}
    Stages = 2
    MinIter = 1
    MaxIter = 3
    Adjacent <- MCAdjacent
    TwoSync = TRUE
    MaxInFlight = 2
    Wrap = 5
INVARIANTS
    GhostsFollow
    StatusHonest
    InStep
PROPERTIES
    NobodyWaits
    EndsConverged
