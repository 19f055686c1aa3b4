SPECIFICATION FairSpec
CONSTANTS
    phone = phone
    laptop = laptop
    p1 = p1
    p2 = p2
    l1 = l1
    rival = rival
    stranger = stranger
    Person = {rival, stranger}
    Nobody = Nobody
    Device = {phone, laptop}
    First = phone
    Job = {p1, p2, l1}
    JobOf <- MCJobOf
    Compatible = {rival}
    MaxStops = 1
    MaxCancels = 1
INVARIANTS
    InvitationTypeOK
    OneOpponent
    NoGameGivenUp
PROPERTIES
    Settles
CHECK_DEADLOCK FALSE
