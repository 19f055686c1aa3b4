SPECIFICATION FairSpec
CONSTANTS
    TILE_TOTAL = 6
    RACK = 2
    SCORELESS_LIMIT = 3
    Versions = {2, 3}
INVARIANTS
    TableTypeOK
    ThreeInStep
    ThreeNeverStuck
    ThreeRackSecrecy
    FullOrOwed
    EndsForAReason
PROPERTIES
    GameEnds
CHECK_DEADLOCK FALSE
