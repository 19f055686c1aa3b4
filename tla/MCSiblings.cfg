SPECIFICATION Spec
CONSTANTS
    phone = phone
    laptop = laptop
    tablet = tablet
    rival = rival
    s1 = s1
    s2 = s2
    s3 = s3
    s4 = s4
    Body <- MCBody
    Batch = {}
    Oversized = {}
    NoOne = NoOne
    NoSocket = NoSocket
    MaxQueue = 0
    MaxPushes = 0
    Participant = {"initiator", "claimer"}
    Device = {phone, laptop, rival}
    PlayerOf <- TrioPlayerOf
    Socket = {s1, s2, s3}
    DeviceOf <- TrioDeviceOf
    MAX_APPEND_ENTRIES = 256
    Plans <- Races
    MaxHangups = 0
    MaxEvictions = 0
INVARIANTS
    SeenIsHeld
    OnlyOvertaken
PROPERTIES
    HeldIsKept
SYMMETRY Twins
CHECK_DEADLOCK FALSE
