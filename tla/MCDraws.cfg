SPECIFICATION OneSpec
CONSTANTS
    Kinds = 2
    Supply <- TwoOfEach
    RACK = 1
    Grain = 2
    SCORELESS_LIMIT = 2
    MaxEntries = 10
INVARIANTS
    SameUntilTakenBack
    AuditNamesTheCheat
CHECK_DEADLOCK FALSE
