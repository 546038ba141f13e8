SPECIFICATION Spec
CONSTANTS
    N = 3
    Decks <- MCDecks
INVARIANTS
    SecondOrder
    SolvedForItsUpdate
    RepairedFromGood
