SPECIFICATION RoomSpec
CONSTANTS
    Body = {"a", "b"}
    Participant = {"initiator", "claimer"}
    Socket = {s1, s2}
    NoOne = NoOne
    MaxQueue = 1
    MaxPushes = 1
    MaxDepth = 2
    Oversized <- MCOversized
    Batch <- MCBatch
INVARIANTS
    RoomTypeOK
    LogLinked
    NoRoomForgotten
    AlarmIsEarliest
PROPERTIES
    HistoryKept
CHECK_DEADLOCK FALSE
