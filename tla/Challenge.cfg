SPECIFICATION Spec
CONSTANTS
    TILE_TOTAL = 6
    RACK = 2
    SCORELESS_LIMIT = 3
    Versions = {2}
INVARIANTS
    NeverStuck
CHECK_DEADLOCK FALSE
