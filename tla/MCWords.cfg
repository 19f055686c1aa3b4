SPECIFICATION Spec
CONSTANTS
    SIZE = 3
    RACK = 2
    OCTANT <- MCOctant
    Value <- MCValue
    BINGO_BONUS = 5
    ALPHABET = 2
    MAX_UNITS = 7
    MaxWord = 3
    Played <- MCPlayed
    TilesOut <- MCTilesOut
    MaxPlays <- MCMaxPlays
INVARIANTS
    ReadsBack
    SmallestGraph
    JudgedByItsLines
    HangsTogether
    NothingUnread
    NoDirection
CHECK_DEADLOCK FALSE
