SPECIFICATION Spec
CONSTANTS
    Configs <- MCConfigs
    Program <- MCProgram
    Waits <- MCWaits
INVARIANTS
    NoStaleData
    ListsOrdered
PROPERTIES
    ImplementsSerial
    EntropyInOrder
    FormsInOrder
