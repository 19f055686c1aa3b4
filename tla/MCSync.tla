------------------------------- MODULE MCSync -------------------------------
(* The instances of Sync that TLC checks: who plays on which devices, over    *)
(* which connections, and what they have at the start.                        *)
EXTENDS Sync, TLC

CONSTANTS phone, laptop, tablet, rival, s1, s2, s3, s4

\* A payload names its writer and is written once; its kind is sealed inside.
MCBody == [dev : {phone, laptop, tablet, rival}, n : Nat, by : Role, kind : Kind,
           at : Nat]

\* One device per player: the initiator's phone, the claimer's (rival).
DuelPlayerOf == phone :> "initiator" @@ rival :> "claimer"
DuelDeviceOf == s1 :> phone @@ s2 :> phone @@ s3 :> rival @@ s4 :> rival

\* The initiator has two, each with one connection slot.
TrioPlayerOf == phone :> "initiator" @@ laptop :> "initiator" @@ rival :> "claimer"
TrioDeviceOf == s1 :> phone @@ s2 :> laptop @@ s3 :> rival

\* Two devices of one player; the opponent is away.
PairPlayerOf == phone :> "initiator" @@ laptop :> "initiator"
PairDeviceOf == s1 :> phone @@ s2 :> phone @@ s3 :> laptop @@ s4 :> laptop

\* The join, and the setup: from a device the initiator has since put away.
Prologue == << [dev |-> rival, n |-> 0, by |-> "claimer", kind |-> "join", at |-> 0],
               [dev |-> tablet, n |-> 0, by |-> "initiator", kind |-> "setup", at |-> 1] >>

\* What the devices do in one instance or another.
Plan(start, opens, resigns, writes) ==
    [start |-> start, opens |-> opens, resigns |-> resigns, writes |-> writes,
     hasty |-> {}, stays |-> {}]

OneEach == [d \in Device |-> 1]
PhoneTwice == [d \in Device |-> IF d = phone THEN 2 ELSE 1]
PhoneOnlyTwice == [d \in Device |-> IF d = phone THEN 2 ELSE 0]
InitiatorOnly == [d \in Device |-> IF PlayerOf[d] = "claimer" THEN 0 ELSE 1]

EachPlaysOnce == {Plan(Prologue, Device, {}, OneEach)}
InitiatorPlays == {Plan(Prologue, Device, {}, InitiatorOnly)}
RivalGivesUp == {Plan(Prologue, Device, {rival}, OneEach)}

\* The two devices of the initiator answer one turn, and the rival watches; or one
\* of them stays shut and the game begins with its prologue; or it has begun, and a
\* player resigns when the other moves or resigns, or after a move of its own; or
\* plays twice in one turn.
Duel(resigns, writes) == Plan(Prologue, {phone, rival}, resigns, writes)
Races == {[Plan(Prologue, Device, {}, InitiatorOnly) EXCEPT !.stays = {rival}],
          Plan(<<>>, {phone, rival}, {}, PhoneTwice),
          Duel({phone, rival}, OneEach),
          Duel({phone}, PhoneOnlyTwice),
          [Duel({}, PhoneOnlyTwice) EXCEPT !.hasty = {phone}]}

\* The slots of one device are interchangeable; and so are the initiator's two
\* devices, each with its slot.
Slots == Permutations({s1, s2}) \cup Permutations({s3, s4})
Twins == {p \in Permutations({phone, laptop, s1, s2}) :
              \A s \in {s1, s2} : p[s] \in {s1, s2} /\ DeviceOf[p[s]] = p[DeviceOf[s]]}
=============================================================================
