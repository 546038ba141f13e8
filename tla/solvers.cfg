SPECIFICATION Spec
CONSTANTS
    Solvers = {"pmhd", "ff", "prad"}
    MaxIterations = 2
    MaxShrinks = 2
    MaxBrackets = 2
    Decade = 2
    Reach = 3
    None = None
CHECK_DEADLOCK FALSE
INVARIANTS
    Coherent
    BestAccepted
    StartsInBracket
