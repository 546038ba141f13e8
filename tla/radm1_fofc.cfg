SPECIFICATION Spec
CONSTANTS
    N = 2
    Decks <- MCGuessDecks
INVARIANTS
    GuessIsUpdate
