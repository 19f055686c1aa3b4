SPECIFICATION Spec
CONSTANTS
    Q = 46337
    BAG <- MCBag
    GAME = 75
    SECRET <- MCSecret
    ENTROPY = {1, 2, 3}
    HAND = 1
    MaxEntries = 7
INVARIANTS
    HonestTaken
    FaultyRefused
    DeckIsTheBag
    RestoredIsTheSame
PROPERTY
    KeepsThePromise
CHECK_DEADLOCK FALSE
