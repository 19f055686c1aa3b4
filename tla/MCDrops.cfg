SPECIFICATION Spec
CONSTANTS
    phone = phone
    laptop = laptop
    tablet = tablet
    rival = rival
    s1 = s1
    s2 = s2
    s3 = s3
    s4 = s4
    Body <- MCBody
    Batch = {}
    Oversized = {}
    NoOne = NoOne
    NoSocket = NoSocket
    MaxQueue = 0
    MaxPushes = 0
    Participant = {"initiator", "claimer"}
    Device = {phone, rival}
    PlayerOf <- DuelPlayerOf
    Socket = {s1, s2, s3, s4}
    DeviceOf <- DuelDeviceOf
    MAX_APPEND_ENTRIES = 2
    Plans <- EachPlaysOnce
    MaxHangups = 1
    MaxEvictions = 0
INVARIANTS
    SyncTypeOK
    SyncedIsHeld
    NoFork
    StayersAgree
    LogsReplay
SYMMETRY Slots
CHECK_DEADLOCK FALSE
