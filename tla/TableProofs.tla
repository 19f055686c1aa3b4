----------------------------- MODULE TableProofs -----------------------------
(***************************************************************************)
(* What TLAPS proves of Table, for a deck and a rack of any size: the two   *)
(* states keep their types, and under version 3 of the rules a game stays   *)
(* in step with its deal, is never stuck, and keeps its racks secret; under *)
(* either version racks are full while there are tiles, and a game ends     *)
(* for a reason.                                                            *)
(***************************************************************************)
EXTENDS Table, FiniteSetTheorems, TLAPS

(* Types: what the operators of the rules and of the deal return.            *)

\* The other player is the other player.
LEMMA Others == ASSUME NEW p \in Player
                PROVE  Other(p) \in Player /\ Other(p) # p /\ Other(Other(p)) = p
    BY DEF Player, Initiator, Claimer, Other

\* Sets of positions are finite.
LEMMA Countable == ASSUME NEW S \in SUBSET Position PROVE Cardinality(S) \in Nat
<1>1. 0 \in Int /\ TILE_TOTAL - 1 \in Int
    BY TileAssumption
<1>2. IsFiniteSet(Position)
    BY <1>1, FS_Interval, Zenon DEF Position
<1>3. IsFiniteSet(S)
    BY <1>2, FS_Subset, Zenon
<1> QED
    BY <1>3, FS_CardinalityType, Zenon

\* What is owed is there to be dealt.
LEMMA OwedIsThere ==
    ASSUME NEW g \in State, NEW p \in Player
    PROVE  /\ Owed(g, p) \in 0 .. TILE_TOTAL
           /\ Owed(g, p) <= g.pending[Other(p)]
           /\ g.pointer + Owed(g, p) <= TILE_TOTAL
    BY Others, TileAssumption DEF State, Owed, Least, InBag

\* Handing tiles over leaves a state of the rules.
LEMMA HandedType == ASSUME NEW g \in State PROVE Handed(g) \in State
<1>1. g.turn \in Player
    BY DEF State
<1>2. Positions(g.pointer, Owed(g, g.turn)) \subseteq Position
    BY <1>1, OwedIsThere, TileAssumption DEF State, Positions, Position
<1>3. /\ g.pointer + Owed(g, g.turn) \in 0 .. TILE_TOTAL
      /\ g.pending[Other(g.turn)] - Owed(g, g.turn) \in Nat
    BY <1>1, OwedIsThere, Others, TileAssumption DEF State
<1> DEFINE them == Other(g.turn)
           owed == Owed(g, g.turn)
<1>4. /\ them \in Player
      /\ g.racks[them] \cup Positions(g.pointer, owed) \in SUBSET Position
    BY <1>1, <1>2, Others DEF State
<1> HIDE DEF them, owed
<1>5. /\ [g.racks EXCEPT ![them] = @ \cup Positions(g.pointer, owed)] \in [Player -> SUBSET Position]
      /\ [g.pending EXCEPT ![them] = @ - owed] \in [Player -> Nat]
    BY <1>3, <1>4 DEF State, them, owed
<1>6. Handed(g) = [g EXCEPT !.racks = [g.racks EXCEPT ![them] = @ \cup Positions(g.pointer, owed)],
                            !.pointer = g.pointer + owed,
                            !.pending = [g.pending EXCEPT ![them] = @ - owed]]
    BY DEF Handed, them, owed, State
<1> QED
    BY <1>3, <1>5, <1>6 DEF State, owed

\* So does the rest of the end of an entry.
LEMMA CheckedType == ASSUME NEW g \in State PROVE Checked(g) \in State
<1> DEFINE ending == g.ending \/ PlayedOut(g) \/ g.scoreless >= SCORELESS_LIMIT
           wentOut == IF PlayedOut(g) THEN g.turn ELSE g.wentOut
<1>1. ending \in BOOLEAN
    OBVIOUS
<1>2. wentOut \in Player \cup {Nobody}
    BY DEF State
<1> HIDE DEF ending, wentOut
<1>3. [g EXCEPT !.ending = ending, !.wentOut = wentOut] \in State
    BY <1>1, <1>2 DEF State
<1> QED
    BY <1>3 DEF Checked, ending, wentOut

LEMMA SettledType == ASSUME NEW g \in State PROVE Settled(g) \in State
<1> DEFINE finished == g.finished \/ g.opened = Player
<1>1. finished \in BOOLEAN
    OBVIOUS
<1> HIDE DEF finished
<1>2. [g EXCEPT !.finished = finished] \in State
    BY <1>1 DEF State
<1> QED
    BY <1>2 DEF Settled, finished

LEMMA AdvancedType == ASSUME NEW g \in State PROVE Advanced(g) \in State
<1>1. Least(g.step + 1, 5) \in 0 .. 5
    BY DEF State, Least
<1>2. Other(g.turn) \in Player
    BY Others DEF State
<1> QED
    BY <1>1, <1>2 DEF State, Advanced

LEMMA EndedType == ASSUME NEW g \in State PROVE Ended(g) \in State
    BY HandedType, CheckedType, SettledType, AdvancedType DEF Ended

LEMMA ChallengeEndedType ==
    ASSUME NEW g \in State, NEW upheld \in BOOLEAN
    PROVE  ChallengeEnded(g, upheld) \in State
    BY HandedType, SettledType, AdvancedType DEF ChallengeEnded

\* A payload the app builds is a payload.
LEMMA PayloadForType ==
    ASSUME NEW d \in DealState, NEW p \in Player,
           NEW owed \in 0 .. TILE_TOTAL, NEW reveal \in SUBSET Position
    PROVE  PayloadFor(d, p, owed, reveal) \in Payload
<1>1. Nothing(d) \in Payload
    BY TileAssumption DEF DealState, Payload, Nothing
<1>2. ReadyForShuffleAfterKey(d, p) \in BOOLEAN
    BY DEF ReadyForShuffleAfterKey
<1>3. CASE Step(d, p) = "key"
    BY <1>1, <1>2, <1>3 DEF Payload, PayloadFor
<1>4. CASE Step(d, p) = "shuffle"
    BY <1>1, <1>4 DEF Payload, PayloadFor
<1>5. CASE Step(d, p) \notin {"key", "shuffle"}
    BY <1>1, <1>5 DEF Payload, PayloadFor
<1> QED
    BY <1>3, <1>4, <1>5

\* A deal stays a deal, whatever payload it is given.
LEMMA ApplyType ==
    ASSUME NEW d \in DealState, NEW p \in Player, NEW load \in Payload
    PROVE  Apply(d, p, load) \in DealState
<1>1. Keyed(d, p, load) \in DealState
    BY DEF DealState, Keyed, WithKey
<1>2. Shuffled(d, p, load) \in DealState
    BY <1>1 DEF DealState, Shuffled, WithShuffle
<1>3. Revealed(d, p, load) \in DealState
    BY <1>2 DEF DealState, Payload, Revealed, WithReveal
<1>4. CASE ~Accepts(d, p, load) \/ load.count = 0
    BY <1>3, <1>4 DEF Apply
<1>5. CASE Accepts(d, p, load) /\ load.count # 0
    <2> DEFINE r == Revealed(d, p, load)
    <2>1. DealOK(r, p, load.from, load.count)
        BY <1>5 DEF Accepts, Payload
    <2>2. /\ load.from + load.count \in 0 .. TILE_TOTAL
          /\ Positions(load.from, load.count) \subseteq Position
        BY <2>1, TileAssumption DEF Payload, DealOK, Positions, Position
    <2>3. WithDeal(r, p, load.from, load.count) \in DealState
        BY <1>3, <2>2, Others DEF DealState, WithDeal
    <2> QED
        BY <1>5, <2>3 DEF Apply
<1> QED
    BY <1>4, <1>5
-----------------------------------------------------------------------------
(* What each move makes of the rules' state.                                 *)

\* No play is a play by nobody.
LEMMA NoPlayType ==
    NoPlay \in [by : Player \cup {Nobody}, spent : SUBSET Position, real : BOOLEAN]
    BY DEF NoPlay

LEMMA AfterKeyType ==
    ASSUME NEW g \in State, NEW half \in SUBSET (Position \cup {-1})
    PROVE  AfterKey(g, half) \in State
<1> DEFINE owed == IF g.turn = Claimer THEN RACK ELSE g.pending[Claimer]
<1>1. owed \in Nat
    BY TileAssumption DEF State, Player, Claimer
<1> HIDE DEF owed
<1>2. [g EXCEPT !.toss[g.turn] = half, !.pending[Claimer] = owed] \in State
    BY <1>1 DEF State
<1> QED
    BY <1>2 DEF AfterKey, owed

LEMMA AfterShuffleType ==
    ASSUME NEW g \in State, NEW first \in Player
    PROVE  AfterShuffle(g, first) \in State
    BY TileAssumption DEF State, AfterShuffle

LEMMA AfterForfeitType == ASSUME NEW g \in State PROVE AfterForfeit(g) \in State
    BY DEF State, AfterForfeit

\* A turn without a play.
LEMMA ScorelessType ==
    ASSUME NEW g \in State
    PROVE  [g EXCEPT !.scoreless = @ + 1, !.lastPlay = NoPlay] \in State
<1> DEFINE count == g.scoreless + 1
           none == NoPlay
<1>1. count \in Nat
    BY DEF State
<1>2. none \in [by : Player \cup {Nobody}, spent : SUBSET Position, real : BOOLEAN]
    BY NoPlayType
<1> HIDE DEF count, none
<1>3. [g EXCEPT !.scoreless = count, !.lastPlay = none] \in State
    BY <1>1, <1>2 DEF State
<1> QED
    BY <1>3 DEF count, none

LEMMA AfterPassType == ASSUME NEW g \in State PROVE AfterPass(g) \in State
    BY ScorelessType DEF AfterPass

LEMMA AfterOpenType == ASSUME NEW g \in State PROVE AfterOpen(g) \in State
    BY DEF State, AfterOpen

LEMMA AfterExchangeType ==
    ASSUME NEW g \in State, NEW returned \in SUBSET Position
    PROVE  AfterExchange(g, returned) \in State
<1>1. g.pending[g.turn] + Cardinality(returned) \in Nat
    BY Countable DEF State
<1>2. g.racks[g.turn] \ returned \in SUBSET Position
    BY DEF State
<1>3. [g EXCEPT !.racks[g.turn] = @ \ returned,
                !.pending[g.turn] = @ + Cardinality(returned)] \in State
    BY <1>1, <1>2 DEF State
<1>4. AfterExchange(g, returned) =
        [[g EXCEPT !.racks[g.turn] = @ \ returned,
                   !.pending[g.turn] = @ + Cardinality(returned)]
            EXCEPT !.scoreless = @ + 1, !.lastPlay = NoPlay]
    BY DEF AfterExchange, State
<1> QED
    BY <1>3, <1>4, ScorelessType

LEMMA AfterPlaceType ==
    ASSUME NEW g \in State, NEW spent \in SUBSET Position, NEW real \in BOOLEAN
    PROVE  AfterPlace(g, spent, real) \in State
<1> DEFINE play == IF g.version = 2 THEN [by |-> g.turn, spent |-> spent, real |-> real]
                                    ELSE NoPlay
<1>1. g.pending[g.turn] + Cardinality(spent) \in Nat
    BY Countable DEF State
<1>2. g.racks[g.turn] \ spent \in SUBSET Position
    BY DEF State
<1>3. play \in [by : Player \cup {Nobody}, spent : SUBSET Position, real : BOOLEAN]
    BY NoPlayType DEF State
<1> HIDE DEF play
<1>4. [g EXCEPT !.racks[g.turn] = @ \ spent,
                !.pending[g.turn] = @ + Cardinality(spent),
                !.scoreless = 0, !.lastPlay = play] \in State
    BY <1>1, <1>2, <1>3 DEF State
<1> QED
    BY <1>4 DEF AfterPlace, play

LEMMA AfterChallengeType ==
    ASSUME NEW g \in State, g.lastPlay.by \in Player
    PROVE  AfterChallenge(g) \in State
<1> DEFINE them == g.lastPlay.by
           owed == g.pending[them] - Cardinality(g.lastPlay.spent)
           left == IF owed < 0 THEN 0 ELSE owed
<1>1. left \in Nat
    BY Countable DEF State
<1> HIDE DEF left
<1>2. [g EXCEPT !.racks[them] = @ \cup g.lastPlay.spent,
                !.pending[them] = left, !.mustForfeit = them] \in State
    BY <1>1 DEF State
<1>3. TakenBack(g) \in State
    BY <1>2 DEF TakenBack, left
<1> DEFINE after == IF g.lastPlay.real THEN g ELSE TakenBack(g)
<1>4. after \in State
    BY <1>3
<1> HIDE DEF after
<1>5. [after EXCEPT !.scoreless = @ + 1, !.lastPlay = NoPlay] \in State
    BY <1>4, ScorelessType
<1> QED
    BY <1>4, <1>5 DEF AfterChallenge, after, State

-----------------------------------------------------------------------------
(* Type correctness of the table.                                            *)

\* Nobody reads anything but a position.
LEMMA ReadableType ==
    ASSUME NEW d \in DealState, NEW p \in Player
    PROVE  Readable(d, p) \in SUBSET Position
    BY Others DEF DealState, Readable

\* What is to be opened is a set of positions.
LEMMA ToOpenType ==
    ASSUME NEW g \in State, NEW p \in Player
    PROVE  ToOpen(g, p) \in SUBSET Position
    BY DEF State, ToOpen

LEMMA EntryType ==
    ASSUME TableTypeOK, NEW next \in State, NEW opening \in SUBSET Position,
           Entry(next, opening)
    PROVE  TableTypeOK'
<1> DEFINE load == PayloadFor(deal, Me, Owed(game, Me), opening)
<1>1. Me \in Player
    BY DEF TableTypeOK, State, Me
<1>2. load \in Payload
    BY <1>1, OwedIsThere, PayloadForType DEF TableTypeOK
<1>3. deal' \in DealState
    BY <1>1, <1>2, ApplyType DEF TableTypeOK, Entry
<1>4. game' \in State /\ refused' \in BOOLEAN
    BY DEF Entry
<1> QED
    BY <1>3, <1>4 DEF TableTypeOK

LEMMA TypeStep == TableTypeOK /\ [Next]_vars => TableTypeOK'
<1> SUFFICES ASSUME TableTypeOK, [Next]_vars PROVE TableTypeOK'
    OBVIOUS
<1>1. game \in State /\ deal \in DealState /\ Me \in Player
    BY DEF TableTypeOK, State, Me
<1>2. ToOpen(game, Me) \in SUBSET Position
    BY <1>1, ToOpenType
<1>3. Half(Me) \in SUBSET (Position \cup {-1})
    BY <1>1, ReadableType DEF Half
<1>4. CASE Key
    BY <1>1, <1>2, <1>3, <1>4, AfterKeyType, EndedType, EntryType DEF Key
<1>5. CASE Shuffle
    BY <1>1, <1>2, <1>5, AfterShuffleType, EndedType, EntryType DEF Shuffle
<1>6. CASE DealRack
    BY <1>1, <1>2, <1>6, EndedType, EntryType DEF DealRack
<1>7. CASE Yield
    BY <1>1, <1>2, <1>7, AfterForfeitType, EndedType, EntryType DEF Yield
<1>8. CASE Forfeit
    BY <1>1, <1>2, <1>8, AfterForfeitType, EndedType, EntryType DEF Forfeit
<1>9. CASE OpenRack
    <2>1. Named \in SUBSET Position
        BY <1>2 DEF Named
    <2> QED
        BY <1>1, <1>9, <2>1, AfterOpenType, EndedType, EntryType DEF OpenRack
<1>10. CASE Place
    <2>1. game.racks[Me] \in SUBSET Position
        BY <1>1 DEF State
    <2>2. PICK spent \in SUBSET game.racks[Me], real \in BOOLEAN :
            Entry(Ended(AfterPlace(game, spent, real)), spent)
        BY <1>10 DEF Place
    <2>3. spent \in SUBSET Position
        BY <2>1
    <2> QED
        BY <1>1, <2>2, <2>3, AfterPlaceType, EndedType, EntryType
<1>11. CASE Exchange
    <2>1. game.racks[Me] \in SUBSET Position
        BY <1>1 DEF State
    <2>2. PICK returned \in SUBSET game.racks[Me] :
            Entry(Ended(AfterExchange(game, returned)), ToOpen(game, Me))
        BY <1>11 DEF Exchange
    <2>3. returned \in SUBSET Position
        BY <2>1
    <2> QED
        BY <1>1, <1>2, <2>2, <2>3, AfterExchangeType, EndedType, EntryType
<1>12. CASE Pass
    BY <1>1, <1>2, <1>12, AfterPassType, EndedType, EntryType DEF Pass
<1>13. CASE Challenge
    <2>1. AfterChallenge(game) \in State
        BY <1>1, <1>13, Others, AfterChallengeType DEF Challenge, CanChallenge, Me
    <2> QED
        BY <1>1, <1>2, <1>13, <2>1, ChallengeEndedType, EntryType DEF Challenge
<1>14. CASE UNCHANGED vars
    BY <1>14 DEF vars, TableTypeOK
<1> QED
    BY <1>4, <1>5, <1>6, <1>7, <1>8, <1>9, <1>10, <1>11, <1>12, <1>13, <1>14 DEF Next

\* The table is always in a state the rules and the deal allow for, under
\* either version: no entry takes the deck past its end or deals a tile that
\* is not there.
THEOREM TableTypes == Spec => []TableTypeOK
<1>1. ASSUME NEW version \in Versions PROVE Setup(version) \in State
    BY TileAssumption, NoPlayType DEF Setup, State, Untossed, Player, Initiator
<1>2. NewDeal \in DealState
    BY TileAssumption DEF NewDeal, DealState
<1>3. Init => TableTypeOK
    BY <1>1, <1>2 DEF Init, TableTypeOK
<1> QED
    BY <1>3, TypeStep, PTL DEF Spec
-----------------------------------------------------------------------------
(* Version 3, the inductive invariant.                                       *)

\* How far the opening has come, in the rules and in the deal.
Opening ==
    /\ game.step <= 4 =>
        /\ game.turn = (IF game.step \in {1, 3} THEN Claimer ELSE Initiator)
        /\ ~game.ending /\ game.scoreless = 0
    /\ game.step = 0 => deal.keys = {} /\ deal.shuffled = {}
    /\ game.step = 1 => deal.keys = {Initiator} /\ deal.shuffled = {}
    /\ game.step = 2 => deal.keys = Player /\ deal.shuffled = {Claimer}
    /\ game.step >= 3 => Ready(deal)
    /\ game.step <= 2 =>
        /\ game.pointer = 0 /\ game.pending[Initiator] = 0
        /\ game.step \in {1, 2} => game.toss[Initiator] = {}
        /\ game.pending[Claimer] = (IF game.step = 2 THEN RACK ELSE 0)
    /\ game.step = 3 =>
        /\ game.pointer = RACK /\ game.pending[Initiator] = RACK
        /\ game.racks[Claimer] # {}

\* Who holds what, and which shares are out: those of the tiles a player has
\* given the other, and those of the tiles that are public.
Holding ==
    /\ InStep
    /\ \A p \in Player : \A i \in deal.dealt[p] : i < deal.pointer
    /\ deal.dealt[Initiator] \cap deal.dealt[Claimer] = {}
    /\ \A p \in Player : deal.dealt[p] \subseteq deal.shares[Other(p)]
    /\ \A p \in Player : deal.shares[p] \subseteq deal.dealt[Other(p)] \cup deal.public
    /\ deal.public \subseteq deal.dealt[Initiator] \cup deal.dealt[Claimer]
    /\ \A p \in Player \ game.opened : game.racks[p] \cap deal.public = {}

\* The racks are opened in turn, once each.
Openings ==
    /\ game.opened # {} => game.ending
    /\ ~game.finished => game.opened \subseteq {Other(game.turn)}
    /\ game.finished => game.opened = Player
    /\ game.mustForfeit = Nobody
    /\ game.lastPlay.by = Nobody

Three == game.version = 3 => ~refused /\ Opening /\ Holding /\ Openings

Inv == TableTypeOK /\ Three

-----------------------------------------------------------------------------
(* What an entry does to the deal, when nothing refuses it.                  *)

Handing == Positions(deal.pointer, Owed(game, Me))

Effect(opening) ==
    /\ ~refused'
    /\ deal'.pointer = deal.pointer + Owed(game, Me)
    /\ deal'.dealt = [deal.dealt EXCEPT ![Other(Me)] = @ \cup Handing]
    /\ deal'.shares = [deal.shares EXCEPT ![Me] = @ \cup opening \cup Handing]
    /\ deal'.public = deal.public \cup opening

\* Once both have shuffled, any entry that opens tiles its author holds.
LEMMA PlayEffect ==
    ASSUME TableTypeOK, Ready(deal), game.pointer = deal.pointer,
           NEW next, NEW opening \in SUBSET (deal.dealt[Me] \ deal.public),
           opening \subseteq deal.shares[Other(Me)],
           Entry(next, opening)
    PROVE  Effect(opening) /\ Ready(deal')
<1> DEFINE owed == Owed(game, Me)
           load == PayloadFor(deal, Me, owed, opening)
           shown == [deal EXCEPT !.shares[Me] = @ \cup opening, !.public = @ \cup opening]
<1>1. /\ Me \in Player /\ Other(Me) \in Player /\ Other(Me) # Me
      /\ game \in State /\ deal \in DealState
    BY Others DEF TableTypeOK, State, Me
<1>2. load = [key |-> FALSE, shuffle |-> FALSE, reveal |-> opening,
              from |-> deal.pointer, count |-> owed]
    BY <1>1 DEF PayloadFor, Step, Ready, Nothing
<1>3. owed \in 0 .. TILE_TOTAL /\ deal.pointer + owed <= TILE_TOTAL
    BY <1>1, OwedIsThere
<1> HIDE DEF owed, load
<1>4. Shuffled(deal, Me, load) = deal
    BY <1>2 DEF Shuffled, Keyed
<1>5. Revealed(deal, Me, load) = shown
    BY <1>2, <1>4 DEF Revealed, WithReveal
<1>6. shown.pointer = deal.pointer /\ Ready(shown)
    BY <1>1 DEF Ready, DealState
<1>7. Accepts(deal, Me, load)
    <2>1. RevealOK(deal, Me, opening)
        BY <1>1 DEF RevealOK, Ready
    <2>2. DealOK(shown, Me, deal.pointer, owed)
        BY <1>3, <1>6 DEF DealOK
    <2> HIDE DEF shown
    <2> QED
        BY <1>2, <1>4, <1>5, <2>1, <2>2 DEF Accepts
<1>8. deal' = Apply(deal, Me, load) /\ ~refused'
    BY <1>7 DEF Entry, load, owed
<1>9. CASE owed = 0
    <2>1. deal' = shown
        BY <1>2, <1>5, <1>7, <1>8, <1>9 DEF Apply
    <2>2. Positions(deal.pointer, owed) = {}
        BY <1>1, <1>9, TileAssumption DEF Positions, DealState
    <2>3. /\ deal'.pointer = deal.pointer + owed /\ Ready(deal')
          /\ deal'.public = deal.public \cup opening
        BY <1>1, <1>6, <1>9, <2>1, TileAssumption DEF DealState
    <2>4. deal'.shares = [deal.shares EXCEPT ![Me] = @ \cup opening]
        BY <1>1, <2>1 DEF DealState
    <2>5. deal'.dealt = deal.dealt /\ deal.dealt \in [Player -> SUBSET Position]
          /\ deal.shares \in [Player -> SUBSET Position]
        BY <1>1, <2>1 DEF DealState
    <2>6. /\ deal'.dealt = [deal.dealt EXCEPT ![Other(Me)] = @ \cup Positions(deal.pointer, owed)]
          /\ deal'.shares = [deal.shares EXCEPT ![Me] = @ \cup opening \cup Positions(deal.pointer, owed)]
        BY <1>1, <2>2, <2>4, <2>5
    <2> QED
        BY <1>8, <2>3, <2>6 DEF Effect, Handing, owed
<1>10. CASE owed # 0
    <2>1. deal' = WithDeal(shown, Me, deal.pointer, owed)
        BY <1>2, <1>5, <1>7, <1>8, <1>10 DEF Apply
    <2>2. /\ deal'.pointer = deal.pointer + owed /\ Ready(deal')
          /\ deal'.public = deal.public \cup opening
        BY <1>1, <1>6, <2>1 DEF DealState, WithDeal, Ready
    <2>3. deal'.dealt = [deal.dealt EXCEPT ![Other(Me)] = @ \cup Positions(deal.pointer, owed)]
        BY <1>1, <2>1 DEF DealState, WithDeal
    <2>4. deal'.shares = [deal.shares EXCEPT ![Me] = @ \cup opening \cup Positions(deal.pointer, owed)]
        BY <1>1, <2>1 DEF DealState, WithDeal
    <2> QED
        BY <1>8, <2>2, <2>3, <2>4 DEF Effect, Handing, owed
<1> QED
    BY <1>9, <1>10

\* An entry that deals nothing and opens nothing leaves hands and shares alone.
LEMMA NothingDealt ==
    ASSUME TableTypeOK, Owed(game, Me) = 0, ~refused', Me \in Player,
           NEW d \in DealState, deal' = WithReveal(d, Me, {}),
           d.pointer = deal.pointer, d.dealt = deal.dealt, d.shares = deal.shares,
           d.public = deal.public
    PROVE  Effect({}) /\ deal'.keys = d.keys /\ deal'.shuffled = d.shuffled
<1>1. Handing = {}
    BY TileAssumption DEF Handing, Positions, TableTypeOK, DealState
<1>2. deal' = [d EXCEPT !.shares[Me] = @ \cup {}, !.public = @ \cup {}]
    BY DEF WithReveal
<1>3. /\ deal'.pointer = deal.pointer /\ deal'.dealt = deal.dealt /\ deal'.public = deal.public
      /\ deal'.keys = d.keys /\ deal'.shuffled = d.shuffled
      /\ deal'.shares = deal.shares
    <2>1. [d.shares EXCEPT ![Me] = @ \cup {}] = d.shares /\ d.public \cup {} = d.public
        BY DEF DealState
    <2> QED
        BY <1>2, <2>1 DEF DealState
<1>4. /\ deal.shares \in [Player -> SUBSET Position] /\ deal.dealt \in [Player -> SUBSET Position]
      /\ deal.pointer + 0 = deal.pointer
    BY DEF TableTypeOK, DealState
<1>5. /\ deal.dealt = [deal.dealt EXCEPT ![Other(Me)] = @ \cup {}]
      /\ deal.shares = [deal.shares EXCEPT ![Me] = @ \cup {} \cup {}]
    BY <1>4, Others
<1> QED
    BY <1>1, <1>3, <1>4, <1>5 DEF Effect

\* The entries of the ceremony: the two keys, the second of which carries a
\* shuffle with it, and the second shuffle, which carries the claimer's rack.
LEMMA FirstKeyEffect ==
    ASSUME TableTypeOK, Me = Initiator, Owed(game, Me) = 0, deal.keys = {}, deal.shuffled = {},
           NEW next, NEW opening, Entry(next, opening)
    PROVE  Effect({}) /\ deal'.keys = {Initiator} /\ deal'.shuffled = {}
<1> DEFINE load == PayloadFor(deal, Me, 0, opening)
           d == WithKey(deal, Me)
<1>1. /\ Me \in Player /\ Other(Me) = Claimer
      /\ deal \in DealState
    BY DEF TableTypeOK, Me, Player, Initiator, Claimer, Other
<1>2. load = [key |-> TRUE, shuffle |-> FALSE, reveal |-> {}, from |-> deal.pointer, count |-> 0]
    BY <1>1 DEF PayloadFor, Step, Nothing, ReadyForShuffleAfterKey
<1> HIDE DEF load
<1>3. d = [deal EXCEPT !.keys = {Initiator}]
    BY <1>1 DEF WithKey
<1> HIDE DEF d
<1>4. Revealed(deal, Me, load) = WithReveal(d, Me, {})
    BY <1>2 DEF Shuffled, Keyed, Revealed, d
<1>5. Accepts(deal, Me, load)
    BY <1>2 DEF Accepts, KeyOK
<1>6. deal' = WithReveal(d, Me, {}) /\ ~refused'
    <2>1. deal' = Apply(deal, Me, load) /\ refused' = ~Accepts(deal, Me, load)
        BY DEF Entry, load
    <2> QED
        BY <2>1, <1>2, <1>4, <1>5 DEF Apply
<1>7. /\ d \in DealState /\ d.keys = {Initiator} /\ d.shuffled = {}
      /\ d.pointer = deal.pointer /\ d.dealt = deal.dealt /\ d.shares = deal.shares
      /\ d.public = deal.public
    BY <1>1, <1>3 DEF DealState, Player
<1> QED
    BY <1>1, <1>6, <1>7, NothingDealt

LEMMA SecondKeyEffect ==
    ASSUME TableTypeOK, Me = Claimer, Owed(game, Me) = 0, deal.pointer = 0,
           deal.keys = {Initiator}, deal.shuffled = {},
           NEW next, NEW opening, Entry(next, opening)
    PROVE  Effect({}) /\ deal'.keys = Player /\ deal'.shuffled = {Claimer}
<1> DEFINE load == PayloadFor(deal, Me, 0, opening)
           k == WithKey(deal, Me)
           d == WithShuffle(k, Me)
<1>1. /\ Me \in Player /\ Other(Me) = Initiator /\ Me # Initiator
      /\ deal \in DealState /\ {Initiator} \cup {Me} = Player
    BY DEF TableTypeOK, Me, Player, Initiator, Claimer, Other
<1>2. load = [key |-> TRUE, shuffle |-> TRUE, reveal |-> {}, from |-> deal.pointer, count |-> 0]
    BY <1>1 DEF PayloadFor, Step, Nothing, ReadyForShuffleAfterKey
<1> HIDE DEF load
<1>3. k = [deal EXCEPT !.keys = Player]
    BY <1>1 DEF WithKey
<1>4. k \in DealState /\ k.keys = Player /\ k.shuffled = {} /\ k.pointer = 0
    BY <1>1, <1>3 DEF DealState
<1>5. d = [deal EXCEPT !.keys = Player, !.shuffled = {Claimer}]
    BY <1>1, <1>3 DEF WithShuffle, DealState
<1> HIDE DEF d, k
<1>6. Keyed(deal, Me, load) = k
    BY <1>2 DEF Keyed, k
<1>7. Revealed(deal, Me, load) = WithReveal(d, Me, {})
    BY <1>2, <1>6 DEF Shuffled, Revealed, d
<1>8. Accepts(deal, Me, load)
    BY <1>1, <1>2, <1>4, <1>6 DEF Accepts, KeyOK, ShuffleOK
<1>9. deal' = WithReveal(d, Me, {}) /\ ~refused'
    <2>1. deal' = Apply(deal, Me, load) /\ refused' = ~Accepts(deal, Me, load)
        BY DEF Entry, load
    <2> QED
        BY <2>1, <1>2, <1>7, <1>8 DEF Apply
<1>10. /\ d \in DealState /\ d.keys = Player /\ d.shuffled = {Claimer}
       /\ d.pointer = deal.pointer /\ d.dealt = deal.dealt /\ d.shares = deal.shares
       /\ d.public = deal.public
    BY <1>1, <1>5 DEF DealState, Player
<1> QED
    BY <1>1, <1>9, <1>10, NothingDealt

LEMMA ShuffleEffect ==
    ASSUME TableTypeOK, Me = Initiator, Owed(game, Me) \in Nat \ {0}, deal.pointer = 0,
           deal.keys = Player, deal.shuffled = {Claimer},
           NEW next, NEW opening, Entry(next, opening)
    PROVE  Effect({}) /\ Ready(deal')
<1> DEFINE owed == Owed(game, Me)
           load == PayloadFor(deal, Me, owed, opening)
           d == WithShuffle(deal, Me)
           r == WithReveal(d, Me, {})
<1>1. /\ Me \in Player /\ Other(Me) = Claimer /\ Me # Claimer
      /\ deal \in DealState /\ game \in State /\ {Claimer} \cup {Me} = Player
    BY DEF TableTypeOK, Me, Player, Initiator, Claimer, Other
<1>2. load = [key |-> FALSE, shuffle |-> TRUE, reveal |-> {}, from |-> deal.pointer, count |-> owed]
    BY <1>1 DEF PayloadFor, Step, Nothing
<1>3. owed \in 1 .. TILE_TOTAL
    BY <1>1, OwedIsThere
<1> HIDE DEF load, owed
<1>4. d = [deal EXCEPT !.shuffled = Player]
    BY <1>1 DEF WithShuffle, DealState
<1>5. r = [deal EXCEPT !.shuffled = Player, !.shares[Me] = @ \cup {}, !.public = @ \cup {}]
    BY <1>1, <1>4 DEF WithReveal
<1>6. /\ r.pointer = deal.pointer /\ r.dealt = deal.dealt /\ r.public = deal.public
      /\ r.shares = deal.shares /\ Ready(r) /\ r \in DealState
    <2>1. [deal.shares EXCEPT ![Me] = @ \cup {}] = deal.shares /\ deal.public \cup {} = deal.public
        BY <1>1 DEF DealState
    <2>2. r = [deal EXCEPT !.shuffled = Player]
        BY <1>1, <1>5, <2>1 DEF DealState
    <2> QED
        BY <1>1, <2>2 DEF DealState, Ready
<1> HIDE DEF d, r
<1>7. Revealed(deal, Me, load) = r
    BY <1>2 DEF Shuffled, Keyed, Revealed, d, r
<1>8. Accepts(deal, Me, load)
    BY <1>1, <1>2, <1>3, <1>6, <1>7 DEF Accepts, ShuffleOK, Keyed, DealOK
<1>9. deal' = WithDeal(r, Me, deal.pointer, owed) /\ ~refused'
    <2>1. deal' = Apply(deal, Me, load) /\ refused' = ~Accepts(deal, Me, load)
        BY DEF Entry, load, owed
    <2>2. load.count = owed /\ load.from = deal.pointer /\ owed # 0
        BY <1>2, <1>3
    <2> QED
        BY <2>1, <2>2, <1>7, <1>8 DEF Apply
<1>10. /\ deal'.pointer = deal.pointer + owed /\ Ready(deal')
       /\ deal'.public = deal.public \cup {}
    BY <1>6, <1>9 DEF WithDeal, DealState, Ready
<1>11. /\ deal'.dealt = [deal.dealt EXCEPT ![Other(Me)] = @ \cup Positions(deal.pointer, owed)]
       /\ deal'.shares = [deal.shares EXCEPT ![Me] = @ \cup {} \cup Positions(deal.pointer, owed)]
    BY <1>1, <1>6, <1>9 DEF WithDeal, DealState
<1> QED
    BY <1>9, <1>10, <1>11 DEF Effect, Handing, owed

-----------------------------------------------------------------------------
(* What the end of an entry makes of the rules' state.                       *)

LEMMA EndedFields ==
    ASSUME NEW g \in State, NEW owed, owed = Owed(g, g.turn)
    PROVE  /\ Ended(g).version = g.version /\ Ended(g).step = Least(g.step + 1, 5)
           /\ Ended(g).turn = Other(g.turn)
           /\ Ended(g).toss = g.toss /\ Ended(g).first = g.first
           /\ Ended(g).pointer = g.pointer + owed
           /\ Ended(g).racks =
                [g.racks EXCEPT ![Other(g.turn)] = @ \cup Positions(g.pointer, owed)]
           /\ Ended(g).pending = [g.pending EXCEPT ![Other(g.turn)] = @ - owed]
           /\ Ended(g).lastPlay = g.lastPlay /\ Ended(g).scoreless = g.scoreless
           /\ Ended(g).ending = (g.ending \/ PlayedOut(Handed(g)) \/ g.scoreless >= SCORELESS_LIMIT)
           /\ Ended(g).mustForfeit = g.mustForfeit /\ Ended(g).opened = g.opened
           /\ Ended(g).finished = (g.finished \/ g.opened = Player)
<1> DEFINE them == Other(g.turn)
           h == Handed(g)
           c == Checked(h)
           s == Settled(c)
<1>1. /\ g.turn \in Player /\ them \in Player /\ them # g.turn
    BY Others DEF State
<1>2. /\ h = [g EXCEPT !.racks[them] = @ \cup Positions(g.pointer, owed),
                       !.pointer = @ + owed,
                       !.pending[them] = @ - owed]
    BY DEF Handed
<1>3. /\ h.version = g.version /\ h.step = g.step /\ h.turn = g.turn
      /\ h.toss = g.toss /\ h.first = g.first /\ h.pointer = g.pointer + owed
      /\ h.lastPlay = g.lastPlay /\ h.scoreless = g.scoreless /\ h.ending = g.ending
      /\ h.mustForfeit = g.mustForfeit /\ h.opened = g.opened /\ h.finished = g.finished
    BY <1>2 DEF State
<1>4. /\ h.racks = [g.racks EXCEPT ![them] = @ \cup Positions(g.pointer, owed)]
      /\ h.pending = [g.pending EXCEPT ![them] = @ - owed]
      /\ h.racks[g.turn] = g.racks[g.turn]
    BY <1>1, <1>2 DEF State
<1>5. h \in State /\ c \in State /\ s \in State
    BY HandedType, CheckedType, SettledType
<1> HIDE DEF h
<1>6. /\ c.version = h.version /\ c.step = h.step /\ c.turn = h.turn
      /\ c.toss = h.toss /\ c.first = h.first /\ c.pointer = h.pointer
      /\ c.racks = h.racks /\ c.pending = h.pending
      /\ c.lastPlay = h.lastPlay /\ c.scoreless = h.scoreless
      /\ c.ending = (h.ending \/ PlayedOut(h) \/ h.scoreless >= SCORELESS_LIMIT)
      /\ c.mustForfeit = h.mustForfeit /\ c.opened = h.opened /\ c.finished = h.finished
    BY <1>5 DEF Checked, State
<1> HIDE DEF c
<1>7. /\ s.version = c.version /\ s.step = c.step /\ s.turn = c.turn
      /\ s.toss = c.toss /\ s.first = c.first /\ s.pointer = c.pointer
      /\ s.racks = c.racks /\ s.pending = c.pending
      /\ s.lastPlay = c.lastPlay /\ s.scoreless = c.scoreless /\ s.ending = c.ending
      /\ s.mustForfeit = c.mustForfeit /\ s.opened = c.opened
      /\ s.finished = (c.finished \/ c.opened = Player)
    BY <1>5 DEF Settled, State
<1> HIDE DEF s
<1>8. Ended(g) = [s EXCEPT !.step = Least(@ + 1, 5), !.turn = Other(@)]
    BY DEF Ended, Advanced, s, c, h
<1>9. /\ Ended(g).version = s.version /\ Ended(g).step = Least(s.step + 1, 5)
      /\ Ended(g).turn = Other(s.turn)
      /\ Ended(g).toss = s.toss /\ Ended(g).first = s.first /\ Ended(g).pointer = s.pointer
      /\ Ended(g).racks = s.racks /\ Ended(g).pending = s.pending
      /\ Ended(g).lastPlay = s.lastPlay /\ Ended(g).scoreless = s.scoreless
      /\ Ended(g).ending = s.ending
      /\ Ended(g).mustForfeit = s.mustForfeit /\ Ended(g).opened = s.opened
      /\ Ended(g).finished = s.finished
    BY <1>5, <1>8 DEF State
<1>10. /\ Ended(g).ending = (g.ending \/ PlayedOut(h) \/ g.scoreless >= SCORELESS_LIMIT)
       /\ Ended(g).finished = (g.finished \/ g.opened = Player)
    BY <1>3, <1>6, <1>7, <1>9
<1> HIDE DEF them
<1>11. /\ Ended(g).version = g.version /\ Ended(g).step = Least(g.step + 1, 5)
       /\ Ended(g).turn = Other(g.turn) /\ Ended(g).toss = g.toss /\ Ended(g).first = g.first
       /\ Ended(g).pointer = g.pointer + owed
       /\ Ended(g).racks = [g.racks EXCEPT ![them] = @ \cup Positions(g.pointer, owed)]
       /\ Ended(g).pending = [g.pending EXCEPT ![them] = @ - owed]
       /\ Ended(g).lastPlay = g.lastPlay /\ Ended(g).scoreless = g.scoreless
       /\ Ended(g).mustForfeit = g.mustForfeit /\ Ended(g).opened = g.opened
    BY <1>3, <1>4, <1>6, <1>7, <1>9
<1> QED
    BY <1>10, <1>11 DEF them, h

-----------------------------------------------------------------------------
(* Version 3: what holds goes on holding, entry by entry.                    *)

\* The rules' state between a move and the end of its entry, which opens these
\* positions: the author may have spent tiles, and the opponent has nothing new.
Midway(g, opening) ==
    /\ g \in State
    /\ g.version = game.version /\ g.step = game.step /\ g.turn = Me
    /\ g.pointer = game.pointer
    /\ g.pending[Other(Me)] = game.pending[Other(Me)]
    /\ g.racks[Other(Me)] = game.racks[Other(Me)]
    /\ g.racks[Me] \subseteq game.racks[Me]
    /\ opening \subseteq game.racks[Me]
    /\ opening \cap g.racks[Me] = {} \/ Me \in g.opened
    /\ g.opened = game.opened \/ g.opened = game.opened \cup {Me}

\* Every rule about who holds what survives an entry that nothing refuses.
LEMMA HoldingStep ==
    ASSUME TableTypeOK, Holding, NEW g, NEW opening, Midway(g, opening),
           Effect(opening), game' = Ended(g)
    PROVE  Holding'
<1> DEFINE owed == Owed(game, Me)
           them == Other(Me)
<1>1. /\ Me \in Player /\ them \in Player /\ them # Me /\ Other(them) = Me
      /\ \A p \in Player : p = Me \/ p = them
      /\ game \in State /\ deal \in DealState /\ g \in State
    BY DEF TableTypeOK, State, Me, Midway, Player, Initiator, Claimer, Other
<1>2. owed \in Nat /\ deal.pointer \in Nat /\ game.pointer = deal.pointer
    BY <1>1, OwedIsThere, TileAssumption DEF DealState, Holding, InStep
<1>3. Owed(g, g.turn) = owed /\ g.turn = Me
    BY DEF Midway, Owed, InBag
<1>4. /\ game'.pointer = g.pointer + owed
      /\ game'.racks = [g.racks EXCEPT ![them] = @ \cup Positions(g.pointer, owed)]
      /\ game'.opened = g.opened
    BY <1>1, <1>3, EndedFields
<1>5. /\ Handing = Positions(deal.pointer, owed)
      /\ \A i \in Handing : i \in Int /\ i >= deal.pointer /\ i < deal.pointer + owed
    BY <1>2 DEF Handing, Positions
<1> HIDE DEF owed, them
<1>6. /\ game'.pointer = deal.pointer + owed /\ deal'.pointer = deal.pointer + owed
      /\ deal'.public = deal.public \cup opening
    BY <1>2, <1>4 DEF Effect, Midway, owed
<1>7. /\ game'.racks[Me] = g.racks[Me] /\ game'.racks[them] = game.racks[them] \cup Handing
    BY <1>1, <1>2, <1>4, <1>5 DEF State, Midway, them
<1>8. /\ deal'.dealt[Me] = deal.dealt[Me] /\ deal'.dealt[them] = deal.dealt[them] \cup Handing
      /\ deal'.shares[Me] = deal.shares[Me] \cup opening \cup Handing
      /\ deal'.shares[them] = deal.shares[them]
    BY <1>1 DEF DealState, Effect, them
<1>9. \* What held of either player before.
      /\ g.racks[Me] \subseteq game.racks[Me] /\ opening \subseteq game.racks[Me]
      /\ game.racks[Me] \subseteq deal.dealt[Me] /\ game.racks[them] \subseteq deal.dealt[them]
      /\ deal.dealt[Me] \cap deal.dealt[them] = {}
      /\ \A i \in deal.dealt[Me] : i < deal.pointer
      /\ \A i \in deal.dealt[them] : i < deal.pointer
      /\ deal.dealt[Me] \subseteq deal.shares[them] /\ deal.dealt[them] \subseteq deal.shares[Me]
      /\ deal.shares[Me] \subseteq deal.dealt[them] \cup deal.public
      /\ deal.shares[them] \subseteq deal.dealt[Me] \cup deal.public
      /\ deal.public \subseteq deal.dealt[Me] \cup deal.dealt[them]
    BY <1>1 DEF Holding, InStep, Midway, them, Player, Initiator, Claimer, Other
<1>10. \A S : S \subseteq deal.dealt[Me] \cup deal.dealt[them] => S \cap Handing = {}
    <2>1. \A i \in deal.dealt[Me] \cup deal.dealt[them] : i \notin Handing
        <3>1. \A i \in deal.dealt[Me] \cup deal.dealt[them] : i \in Int /\ i < deal.pointer
            BY <1>1, <1>9, TileAssumption DEF DealState, Position
        <3> QED
            BY <1>2, <1>5, <3>1
    <2> QED
        BY <2>1
<1>11. InStep'
    <2>1. \A p \in Player : game'.racks[p] \subseteq deal'.dealt[p]
        BY <1>1, <1>7, <1>8, <1>9
    <2> QED
        BY <1>6, <2>1 DEF InStep
<1>12. \A p \in Player : \A i \in deal'.dealt[p] : i < deal'.pointer
    <2>1. \A i \in deal.dealt[Me] \cup deal.dealt[them] \cup Handing : i < deal.pointer + owed
        <3>1. \A i \in deal.dealt[Me] \cup deal.dealt[them] : i \in Int /\ i < deal.pointer
            BY <1>1, <1>9, TileAssumption DEF DealState, Position
        <3> QED
            BY <1>2, <1>5, <3>1 DEF owed
    <2> QED
        BY <1>1, <1>6, <1>8, <2>1
<1>13. deal'.dealt[Initiator] \cap deal'.dealt[Claimer] = {}
    <2>1. deal'.dealt[Me] \cap deal'.dealt[them] = {}
        BY <1>8, <1>9, <1>10
    <2> QED
        BY <1>1, <2>1 DEF them, Player, Other, Initiator, Claimer
<1>14. \A p \in Player : /\ deal'.dealt[p] \subseteq deal'.shares[Other(p)]
                         /\ deal'.shares[p] \subseteq deal'.dealt[Other(p)] \cup deal'.public
    <2>1. /\ deal'.dealt[Me] \subseteq deal'.shares[them]
          /\ deal'.dealt[them] \subseteq deal'.shares[Me]
          /\ deal'.shares[Me] \subseteq deal'.dealt[them] \cup deal'.public
          /\ deal'.shares[them] \subseteq deal'.dealt[Me] \cup deal'.public
        BY <1>6, <1>8, <1>9
    <2> QED
        BY <1>1, <2>1 DEF them
<1>15. deal'.public \subseteq deal'.dealt[Initiator] \cup deal'.dealt[Claimer]
    <2>1. deal'.public \subseteq deal'.dealt[Me] \cup deal'.dealt[them]
        BY <1>6, <1>8, <1>9
    <2> QED
        BY <1>1, <2>1 DEF them, Player, Other, Initiator, Claimer
<1>16. \A p \in Player \ game'.opened : game'.racks[p] \cap deal'.public = {}
    <2>1. ASSUME Me \notin game'.opened PROVE game'.racks[Me] \cap deal'.public = {}
        <3>1. Me \notin game.opened /\ opening \cap g.racks[Me] = {}
            BY <1>4, <2>1 DEF Midway
        <3>2. game.racks[Me] \cap deal.public = {}
            BY <1>1, <3>1 DEF Holding
        <3> QED
            BY <1>6, <1>7, <1>9, <3>1, <3>2
    <2>2. ASSUME them \notin game'.opened PROVE game'.racks[them] \cap deal'.public = {}
        <3>1. them \notin game.opened
            BY <1>4, <2>2 DEF Midway
        <3>2. game.racks[them] \cap deal.public = {}
            BY <1>1, <3>1 DEF Holding
        <3>3. game.racks[them] \cap opening = {}
            BY <1>9
        <3>4. Handing \cap deal.public = {} /\ Handing \cap opening = {}
            BY <1>9, <1>10
        <3> QED
            BY <1>6, <1>7, <3>2, <3>3, <3>4
    <2> QED
        BY <1>1, <2>1, <2>2
<1> QED
    BY <1>11, <1>12, <1>13, <1>14, <1>15, <1>16 DEF Holding

\* The end of an entry, as the openings see it: it ends the game only once both
\* racks are open, and calls the end only for want of tiles or of plays.
LEMMA OpeningsStep ==
    ASSUME TableTypeOK, Openings, ~game.finished,
           NEW g, NEW opening, Midway(g, opening),
           g.ending = game.ending, g.finished = game.finished,
           g.mustForfeit = Nobody, g.lastPlay.by = Nobody,
           g.opened # {} => game.ending /\ g.opened = game.opened \cup {Me},
           game' = Ended(g)
    PROVE  Openings'
<1>1. /\ Me \in Player /\ Other(Me) \in Player /\ Other(Other(Me)) = Me
      /\ Player = {Me, Other(Me)} /\ g \in State /\ g.turn = Me
    BY DEF TableTypeOK, State, Me, Midway, Player, Initiator, Claimer, Other
<1>2. /\ game'.turn = Other(Me) /\ game'.opened = g.opened
      /\ game'.finished = (g.finished \/ g.opened = Player)
      /\ game'.mustForfeit = Nobody /\ game'.lastPlay = g.lastPlay
      /\ game'.ending = (g.ending \/ PlayedOut(Handed(g)) \/ g.scoreless >= SCORELESS_LIMIT)
    BY <1>1, EndedFields
<1>3. game'.opened # {} => game'.ending
    BY <1>2
<1>4. game'.finished => game'.opened = Player
    BY <1>2
<1>5. ~game'.finished => game'.opened \subseteq {Other(game'.turn)}
    <2>1. game.opened \subseteq {Other(Me)}
        BY DEF Openings, Me
    <2>2. g.opened = {} \/ g.opened = {Me} \/ g.opened = Player
        BY <1>1, <2>1
    <2> QED
        BY <1>1, <1>2, <2>2
<1> QED
    BY <1>2, <1>3, <1>4, <1>5 DEF Openings

\* Once both have shuffled, an entry leaves the game as it should be.
LEMMA TurnStep ==
    ASSUME TableTypeOK, game.version = 3, ~refused, Opening, Holding, Openings,
           game.step >= 3, ~game.finished,
           NEW g, NEW opening, Midway(g, opening),
           opening # {} => Me \notin game.opened,
           g.ending = game.ending, g.finished = game.finished,
           g.mustForfeit = Nobody, g.lastPlay.by = Nobody,
           g.opened # {} => game.ending /\ g.opened = game.opened \cup {Me},
           game.step = 3 => g = game,
           Entry(Ended(g), opening)
    PROVE  Three'
<1>1. /\ Me \in Player /\ Other(Me) \in Player /\ Other(Other(Me)) = Me
      /\ g \in State /\ g.turn = Me /\ game \in State /\ deal \in DealState
    BY Others DEF TableTypeOK, State, Me, Midway
<1>2. Effect(opening) /\ Ready(deal')
    <2>1. Ready(deal) /\ game.pointer = deal.pointer
        BY DEF Opening, Holding, InStep
    <2>2. opening \subseteq deal.dealt[Me] \ deal.public
        BY <1>1 DEF Midway, Holding, InStep
    <2>3. opening \subseteq deal.shares[Other(Me)]
        BY <1>1, <2>2 DEF Holding
    <2> QED
        BY <2>1, <2>2, <2>3, PlayEffect
<1>3. game' = Ended(g) /\ ~refused'
    BY <1>2 DEF Entry, Effect
<1>4. Holding'
    BY <1>2, <1>3, HoldingStep
<1>5. Openings'
    BY <1>3, OpeningsStep
<1>6. game'.step = Least(game.step + 1, 5) /\ game'.step \in {4, 5}
    <2>1. g.step = game.step /\ game.step \in 3 .. 5
        BY <1>1 DEF Midway, State
    <2>2. game'.step = Least(g.step + 1, 5)
        BY <1>1, <1>3, EndedFields
    <2> QED
        BY <2>1, <2>2 DEF Least
<1>7. game'.step = 4 =>
        game'.turn = Initiator /\ ~game'.ending /\ game'.scoreless = 0
    <2> SUFFICES ASSUME game.step = 3
                 PROVE  game'.turn = Initiator /\ ~game'.ending /\ game'.scoreless = 0
        BY <1>1, <1>6 DEF Least, State
    <2>1. /\ g = game /\ game.turn = Claimer /\ ~game.ending /\ game.scoreless = 0
          /\ game.racks[Claimer] # {}
        BY DEF Opening
    <2>2. Handed(g).racks[Me] = game.racks[Me]
        BY <1>1, <2>1, Others DEF Handed, State, Me
    <2>3. ~PlayedOut(Handed(g))
        BY <1>1, <2>1, <2>2 DEF PlayedOut, Handed, Me
    <2>4. /\ game'.ending = (g.ending \/ PlayedOut(Handed(g)) \/ g.scoreless >= SCORELESS_LIMIT)
          /\ game'.turn = Other(Me) /\ game'.scoreless = g.scoreless
        BY <1>1, <1>3, EndedFields
    <2>5. ~(g.scoreless >= SCORELESS_LIMIT)
        BY <2>1, RulesAssumption
    <2>6. ~game'.ending
        BY <2>1, <2>3, <2>4, <2>5
    <2>7. game'.turn = Initiator /\ game'.scoreless = 0
        BY <2>1, <2>4 DEF Me, Other, Initiator, Claimer
    <2> QED
        BY <2>6, <2>7
<1>8. Opening'
    BY <1>2, <1>6, <1>7 DEF Opening
<1> QED
    BY <1>3, <1>4, <1>5, <1>8 DEF Three

-----------------------------------------------------------------------------
(* Version 3: each move in turn.                                             *)

\* What it means to be waiting for a move.
LEMMA Waiting ==
    ASSUME TableTypeOK, Openings
    PROVE  /\ Expected(game) = "key" => ~game.finished /\ game.step \in {0, 1}
           /\ Expected(game) = "shuffle" => ~game.finished /\ game.step = 2
           /\ Expected(game) = "deal" => ~game.finished /\ game.step = 3
           /\ Expected(game) = "yield" => ~game.finished /\ game.step = 4
           /\ Expected(game) = "play" => ~game.finished /\ game.step \in {4, 5} /\ ~game.ending
           /\ Expected(game) = "open" => ~game.finished /\ game.step \in {4, 5} /\ game.ending
           /\ Expected(game) # "forfeit"
<1>1. game.mustForfeit # game.turn
    BY DEF TableTypeOK, State, Openings, Player, Initiator, Claimer, Nobody
<1>2. game.step \in 0 .. 5
    BY DEF TableTypeOK, State
<1>3. CASE game.finished
    BY <1>3 DEF Expected
<1>4. CASE ~game.finished /\ game.step \in {0, 1, 2, 3}
    BY <1>1, <1>4 DEF Expected
<1>5. CASE ~game.finished /\ game.step = 4
    BY <1>1, <1>5 DEF Expected
<1>6. CASE ~game.finished /\ game.step = 5
    BY <1>1, <1>6 DEF Expected
<1> QED
    BY <1>2, <1>3, <1>4, <1>5, <1>6

\* Nothing is read of a deck nothing has been dealt of.
LEMMA NothingRead ==
    ASSUME TableTypeOK, Holding, deal.pointer = 0, NEW p \in Player
    PROVE  Readable(deal, p) = {}
<1>1. ASSUME NEW q \in Player PROVE deal.dealt[q] = {}
    <2>1. \A i \in deal.dealt[q] : i \in Int /\ i >= 0 /\ i < 0
        BY TileAssumption DEF TableTypeOK, DealState, Holding, Position
    <2> QED
        BY <2>1
<1> QED
    BY <1>1 DEF Readable, Holding, Player

\* The ceremony's first two entries are the keys.
LEMMA KeyStep ==
    ASSUME TableTypeOK, game.version = 3, ~refused, Opening, Holding, Openings, Key
    PROVE  Three'
<1> DEFINE g == AfterKey(game, Half(Me))
<1>1. ~game.finished /\ game.step \in {0, 1}
    BY Waiting DEF Key
<1>2. /\ Me = (IF game.step = 0 THEN Initiator ELSE Claimer)
      /\ Me \in Player /\ Other(Me) \in Player /\ Other(Me) # Me
      /\ Player = {Initiator, Claimer} /\ Initiator # Claimer
      /\ Other(Initiator) = Claimer /\ Other(Claimer) = Initiator
    BY <1>1 DEF Opening, Me, Player, Initiator, Claimer, Other
<1>3. /\ game \in State /\ deal \in DealState
      /\ ~game.ending /\ game.scoreless = 0 /\ game.pointer = 0 /\ deal.pointer = 0
      /\ game.pending[Initiator] = 0 /\ game.pending[Claimer] = 0
      /\ game.mustForfeit = Nobody /\ game.lastPlay.by = Nobody
      /\ game.step = 1 => game.toss[Initiator] = {}
    BY <1>1 DEF TableTypeOK, Opening, Openings, Holding, InStep
<1>4. Half(Me) = {}
    BY <1>2, <1>3, NothingRead DEF Half
<1>5. g \in State
    BY <1>3, <1>4, AfterKeyType
<1>6. /\ g.version = 3 /\ g.step = game.step /\ g.turn = Me /\ g.pointer = 0
      /\ g.racks = game.racks /\ g.ending = game.ending /\ g.scoreless = 0
      /\ g.finished = game.finished /\ g.mustForfeit = Nobody /\ g.lastPlay.by = Nobody
      /\ g.opened = game.opened
      /\ g.toss[Initiator] = {}
      /\ g.pending[Initiator] = 0
      /\ g.pending[Claimer] = (IF game.step = 0 THEN 0 ELSE RACK)
    BY <1>1, <1>2, <1>3, <1>4 DEF AfterKey, State, Me
<1> HIDE DEF g
<1>7. Midway(g, {})
    BY <1>1, <1>2, <1>3, <1>5, <1>6 DEF Midway
<1>8. Owed(game, Me) = 0 /\ Owed(g, g.turn) = 0
    BY <1>1, <1>2, <1>3, <1>6, TileAssumption DEF Owed, InBag, Least
<1>9. /\ Effect({})
      /\ game.step = 0 => deal'.keys = {Initiator} /\ deal'.shuffled = {}
      /\ game.step = 1 => deal'.keys = Player /\ deal'.shuffled = {Claimer}
    <2>1. Entry(Ended(g), ToOpen(game, Me))
        BY DEF Key, g
    <2>2. CASE game.step = 0
        BY <1>2, <1>8, <2>1, <2>2, FirstKeyEffect DEF Opening
    <2>3. CASE game.step = 1
        BY <1>2, <1>3, <1>8, <2>1, <2>3, SecondKeyEffect DEF Opening
    <2> QED
        BY <1>1, <2>2, <2>3
<1>10. game' = Ended(g) /\ ~refused'
    BY <1>9 DEF Key, Entry, Effect, g
<1>11. Holding'
    BY <1>7, <1>9, <1>10, HoldingStep
<1>12. game.opened = {}
    BY <1>3 DEF Openings
<1>13. Openings'
    BY <1>1, <1>6, <1>7, <1>10, <1>12, OpeningsStep
<1>14. /\ game'.step = game.step + 1 /\ game'.turn = Other(Me) /\ game'.pointer = 0
       /\ game'.toss = g.toss /\ game'.scoreless = 0
       /\ game'.pending = [g.pending EXCEPT ![Other(Me)] = @ - 0]
       /\ game'.ending = (g.ending \/ PlayedOut(Handed(g)) \/ g.scoreless >= SCORELESS_LIMIT)
    <2>1. /\ game'.step = Least(g.step + 1, 5) /\ game'.turn = Other(g.turn)
          /\ game'.pointer = g.pointer + 0 /\ game'.toss = g.toss
          /\ game'.scoreless = g.scoreless
          /\ game'.pending = [g.pending EXCEPT ![Other(g.turn)] = @ - 0]
          /\ game'.ending = (g.ending \/ PlayedOut(Handed(g)) \/ g.scoreless >= SCORELESS_LIMIT)
        BY <1>5, <1>8, <1>10, EndedFields
    <2> QED
        BY <1>1, <1>6, <2>1 DEF Least
<1>15. game'.pending = g.pending
    BY <1>2, <1>5, <1>14 DEF State
<1>16. ~game'.ending
    <2>1. Handed(g).pointer = 0
        BY <1>5, <1>6, <1>8 DEF Handed, State
    <2>2. ~PlayedOut(Handed(g))
        BY <2>1, TileAssumption DEF PlayedOut, InBag
    <2>3. ~(g.scoreless >= SCORELESS_LIMIT) /\ ~g.ending
        BY <1>3, <1>6, RulesAssumption
    <2> QED
        BY <1>14, <2>2, <2>3
<1>17. Opening'
    BY <1>1, <1>2, <1>6, <1>9, <1>14, <1>15, <1>16 DEF Opening
<1> QED
    BY <1>10, <1>11, <1>13, <1>17 DEF Three

\* The second shuffle carries the claimer's rack.
LEMMA ShuffleStep ==
    ASSUME TableTypeOK, game.version = 3, ~refused, Opening, Holding, Openings, Shuffle
    PROVE  Three'
<1>1. PICK first \in Player : Entry(Ended(AfterShuffle(game, first)), ToOpen(game, Me))
    BY DEF Shuffle
<1> DEFINE g == AfterShuffle(game, first)
<1>2. ~game.finished /\ game.step = 2
    BY Waiting DEF Shuffle, CanShuffle
<1>3. /\ Me = Initiator /\ Me \in Player /\ Other(Me) = Claimer /\ Claimer # Me
      /\ Player = {Initiator, Claimer} /\ Claimer \in Player
    BY <1>2 DEF Opening, Me, Player, Initiator, Claimer, Other
<1>4. /\ game \in State /\ deal \in DealState
      /\ ~game.ending /\ game.scoreless = 0 /\ game.pointer = 0 /\ deal.pointer = 0
      /\ game.pending[Initiator] = 0 /\ game.pending[Claimer] = RACK
      /\ game.mustForfeit = Nobody /\ game.lastPlay.by = Nobody /\ game.opened = {}
      /\ deal.keys = Player /\ deal.shuffled = {Claimer}
    BY <1>2 DEF TableTypeOK, Opening, Openings, Holding, InStep
<1>5. g \in State
    BY <1>4, AfterShuffleType
<1>6. /\ g.version = 3 /\ g.step = 2 /\ g.turn = Me /\ g.pointer = 0
      /\ g.racks = game.racks /\ g.ending = game.ending /\ g.scoreless = 0
      /\ g.finished = game.finished /\ g.mustForfeit = Nobody /\ g.lastPlay.by = Nobody
      /\ g.opened = game.opened
      /\ g.pending[Initiator] = RACK /\ g.pending[Claimer] = RACK
    BY <1>2, <1>3, <1>4 DEF AfterShuffle, State, Me
<1> HIDE DEF g
<1>7. Midway(g, {})
    BY <1>2, <1>3, <1>4, <1>5, <1>6 DEF Midway
<1>8. Owed(game, Me) = RACK /\ Owed(g, g.turn) = RACK
    BY <1>3, <1>4, <1>6, TileAssumption DEF Owed, InBag, Least
<1>9. Effect({}) /\ Ready(deal')
    BY <1>1, <1>3, <1>4, <1>8, ShuffleEffect, TileAssumption DEF g
<1>10. game' = Ended(g) /\ ~refused'
    BY <1>1, <1>9 DEF Entry, Effect, g
<1>11. Holding'
    BY <1>7, <1>9, <1>10, HoldingStep
<1>12. Openings'
    BY <1>2, <1>4, <1>6, <1>7, <1>10, OpeningsStep
<1>13. /\ game'.step = 3 /\ game'.turn = Claimer /\ game'.pointer = RACK
       /\ game'.scoreless = 0
       /\ game'.pending = [g.pending EXCEPT ![Claimer] = @ - RACK]
       /\ game'.racks = [g.racks EXCEPT ![Claimer] = @ \cup Positions(0, RACK)]
       /\ game'.ending = (g.ending \/ PlayedOut(Handed(g)) \/ g.scoreless >= SCORELESS_LIMIT)
    BY <1>3, <1>5, <1>6, <1>8, <1>10, EndedFields, TileAssumption DEF Least
<1>14. game'.pending[Initiator] = RACK /\ game'.racks[Claimer] # {}
    <2>1. 0 \in Positions(0, RACK)
        BY TileAssumption DEF Positions
    <2> QED
        BY <1>3, <1>5, <1>6, <1>13, <2>1 DEF State
<1>15. ~game'.ending
    <2>1. Handed(g).pointer = RACK
        BY <1>5, <1>6, <1>8, TileAssumption DEF Handed, State
    <2>2. ~PlayedOut(Handed(g))
        BY <2>1, TileAssumption DEF PlayedOut, InBag
    <2>3. ~(g.scoreless >= SCORELESS_LIMIT) /\ ~g.ending
        BY <1>4, <1>6, RulesAssumption
    <2> QED
        BY <1>13, <2>2, <2>3
<1>16. Opening'
    BY <1>9, <1>13, <1>14, <1>15 DEF Opening
<1> QED
    BY <1>10, <1>11, <1>12, <1>16 DEF Three

\* A move that opens nothing, once the racks are dealt or being dealt.
LEMMA PlainStep ==
    ASSUME TableTypeOK, game.version = 3, ~refused, Opening, Holding, Openings,
           game.step >= 3, ~game.finished, ~game.ending,
           NEW g \in State,
           g.version = 3, g.step = game.step, g.turn = Me, g.pointer = game.pointer,
           g.pending[Other(Me)] = game.pending[Other(Me)],
           g.racks[Other(Me)] = game.racks[Other(Me)],
           g.racks[Me] \subseteq game.racks[Me],
           g.ending = game.ending, g.finished = game.finished, g.opened = game.opened,
           g.mustForfeit = Nobody, g.lastPlay.by = Nobody,
           game.step = 3 => g = game,
           NEW opening \in SUBSET game.racks[Me], opening \cap g.racks[Me] = {},
           Entry(Ended(g), opening)
    PROVE  Three'
<1>1. game.opened = {}
    BY DEF Openings
<1>2. Midway(g, opening)
    BY DEF Midway
<1> QED
    BY <1>1, <1>2, TurnStep

LEMMA PlayStep ==
    ASSUME TableTypeOK, game.version = 3, ~refused, Opening, Holding, Openings,
           DealRack \/ Yield \/ Place \/ Exchange \/ Pass
    PROVE  Three'
<1>1. /\ Me \in Player /\ Other(Me) \in Player /\ Other(Me) # Me /\ Me = game.turn
      /\ game \in State /\ game.mustForfeit = Nobody /\ game.lastPlay.by = Nobody
      /\ game.racks[Me] \in SUBSET Position
    BY Others DEF TableTypeOK, State, Me, Openings
<1>2. Expected(game) \in {"deal", "yield", "play"}
    BY DEF DealRack, Yield, Place, CanPlace, Exchange, CanExchange, Pass
<1>3. game.step \in {3, 4, 5} /\ ~game.finished /\ ~game.ending
    <2>1. game.step \in {3, 4} => ~game.ending
        BY DEF Opening
    <2> QED
        BY <1>2, <2>1, Waiting
<1>4. ToOpen(game, Me) = {}
    BY <1>3 DEF ToOpen
<1>5. CASE DealRack
    BY <1>1, <1>3, <1>4, <1>5, PlainStep DEF DealRack
<1>6. CASE Yield
    <2> DEFINE g == AfterForfeit(game)
    <2>1. g \in State
        BY <1>1, AfterForfeitType
    <2>2. g = game
        BY <1>1 DEF AfterForfeit, State
    <2> QED
        BY <1>1, <1>3, <1>4, <1>6, <2>2, PlainStep DEF Yield
<1>7. CASE Place
    <2>1. PICK spent \in SUBSET game.racks[Me], real \in BOOLEAN :
            CanPlace(game, spent) /\ Entry(Ended(AfterPlace(game, spent, real)), spent)
        BY <1>7 DEF Place
    <2> DEFINE g == AfterPlace(game, spent, real)
    <2>2. g \in State
        BY <1>1, <2>1, AfterPlaceType
    <2>3. /\ g.version = 3 /\ g.step = game.step /\ g.turn = Me /\ g.pointer = game.pointer
          /\ g.pending[Other(Me)] = game.pending[Other(Me)]
          /\ g.racks[Other(Me)] = game.racks[Other(Me)]
          /\ g.racks[Me] = game.racks[Me] \ spent
          /\ g.ending = game.ending /\ g.finished = game.finished /\ g.opened = game.opened
          /\ g.mustForfeit = Nobody
        BY <1>1 DEF AfterPlace, State
    <2>4. g.lastPlay.by = Nobody
        BY <1>1 DEF AfterPlace, State, NoPlay
    <2>5. game.step # 3
        BY <2>1, Waiting DEF CanPlace
    <2>6. Entry(Ended(g), spent)
        BY <2>1
    <2> HIDE DEF g
    <2>7. spent \cap g.racks[Me] = {} /\ g.racks[Me] \subseteq game.racks[Me]
        BY <2>3
    <2> QED
        BY <1>3, <2>1, <2>2, <2>3, <2>4, <2>5, <2>6, <2>7, PlainStep
<1>8. CASE Exchange
    <2>1. PICK returned \in SUBSET game.racks[Me] :
            /\ CanExchange(game, returned)
            /\ Entry(Ended(AfterExchange(game, returned)), {})
        BY <1>4, <1>8 DEF Exchange
    <2> DEFINE g == AfterExchange(game, returned)
    <2>2. g \in State
        BY <1>1, <2>1, AfterExchangeType
    <2>3. /\ g.version = 3 /\ g.step = game.step /\ g.turn = Me /\ g.pointer = game.pointer
          /\ g.pending[Other(Me)] = game.pending[Other(Me)]
          /\ g.racks[Other(Me)] = game.racks[Other(Me)]
          /\ g.racks[Me] = game.racks[Me] \ returned
          /\ g.ending = game.ending /\ g.finished = game.finished /\ g.opened = game.opened
          /\ g.mustForfeit = Nobody
        BY <1>1 DEF AfterExchange, State
    <2>4. g.lastPlay.by = Nobody
        BY <1>1 DEF AfterExchange, State, NoPlay
    <2>5. game.step # 3
        BY <2>1, Waiting DEF CanExchange
    <2>6. Entry(Ended(g), {})
        BY <2>1
    <2> HIDE DEF g
    <2>7. {} \cap g.racks[Me] = {} /\ g.racks[Me] \subseteq game.racks[Me]
        BY <2>3
    <2> QED
        BY <1>3, <2>2, <2>3, <2>4, <2>5, <2>6, <2>7, PlainStep
<1>9. CASE Pass
    <2> DEFINE g == AfterPass(game)
    <2>1. g \in State
        BY <1>1, AfterPassType
    <2>2. /\ g.version = 3 /\ g.step = game.step /\ g.turn = Me /\ g.pointer = game.pointer
          /\ g.pending = game.pending /\ g.racks = game.racks
          /\ g.ending = game.ending /\ g.finished = game.finished /\ g.opened = game.opened
          /\ g.mustForfeit = Nobody /\ g.lastPlay.by = Nobody
        BY <1>1 DEF AfterPass, State, NoPlay
    <2>3. game.step # 3
        BY <1>9, Waiting DEF Pass
    <2>4. Entry(Ended(g), {})
        BY <1>4, <1>9 DEF Pass
    <2> HIDE DEF g
    <2> QED
        BY <1>3, <2>1, <2>2, <2>3, <2>4, PlainStep
<1> QED
    BY <1>5, <1>6, <1>7, <1>8, <1>9

\* A player opens the whole rack, which the other has published shares of.
LEMMA OpenRackStep ==
    ASSUME TableTypeOK, game.version = 3, ~refused, Opening, Holding, Openings, OpenRack
    PROVE  Three'
<1> DEFINE g == AfterOpen(game)
<1>1. /\ Me \in Player /\ Other(Me) \in Player /\ Other(Me) # Me /\ Me = game.turn
      /\ game \in State /\ game.mustForfeit = Nobody /\ game.lastPlay.by = Nobody
    BY Others DEF TableTypeOK, State, Me, Openings
<1>2. game.step \in {4, 5} /\ ~game.finished /\ game.ending
    BY Waiting DEF OpenRack, CanOpen
<1>3. Named \subseteq game.racks[Me] /\ (Named # {} => Me \notin game.opened)
    BY DEF Named, ToOpen
<1>4. g \in State
    BY <1>1, AfterOpenType
<1>5. /\ g.version = 3 /\ g.step = game.step /\ g.turn = Me /\ g.pointer = game.pointer
      /\ g.pending = game.pending /\ g.racks = game.racks
      /\ g.ending = game.ending /\ g.finished = game.finished
      /\ g.opened = game.opened \cup {Me}
      /\ g.mustForfeit = Nobody /\ g.lastPlay.by = Nobody
    BY <1>1 DEF AfterOpen, State
<1>6. Entry(Ended(g), Named)
    BY DEF OpenRack
<1> HIDE DEF g
<1>7. Midway(g, Named)
    BY <1>3, <1>4, <1>5 DEF Midway
<1>8. /\ game.step >= 3 /\ ~game.finished /\ g.ending = game.ending /\ g.finished = game.finished
      /\ g.opened # {} => game.ending /\ g.opened = game.opened \cup {Me}
      /\ game.step = 3 => g = game
      /\ Named # {} => Me \notin game.opened
      /\ g.mustForfeit = Nobody /\ g.lastPlay.by = Nobody
    BY <1>2, <1>3, <1>5
<1> QED
    BY <1>6, <1>7, <1>8, TurnStep, Zenon

-----------------------------------------------------------------------------
(* The invariant, and what follows from it.                                  *)

LEMMA InvInit == Init => Inv
<1> SUFFICES ASSUME Init PROVE Inv
    OBVIOUS
<1>1. TableTypeOK
    <2>1. PICK version \in Versions : game = Setup(version)
        BY DEF Init
    <2>2. Setup(version) \in State
        BY TileAssumption, NoPlayType DEF Setup, State, Untossed, Player, Initiator
    <2>3. deal \in DealState
        BY TileAssumption DEF Init, NewDeal, DealState
    <2> QED
        BY <2>1, <2>2, <2>3 DEF Init, TableTypeOK
<1>2. Opening
    <2>1. /\ game.step = 0 /\ game.turn = Initiator /\ game.ending = FALSE
          /\ game.scoreless = 0 /\ game.pointer = 0
          /\ game.pending[Initiator] = 0 /\ game.pending[Claimer] = 0
        BY DEF Init, Setup, Player, Initiator, Claimer
    <2>2. deal.keys = {} /\ deal.shuffled = {}
        BY DEF Init, NewDeal
    <2> QED
        BY <2>1, <2>2 DEF Opening
<1>3. Holding
    BY DEF Init, Setup, NewDeal, Holding, InStep, Player, Initiator, Claimer, Other
<1>4. Openings
    BY DEF Init, Setup, Openings, NoPlay
<1> QED
    BY <1>1, <1>2, <1>3, <1>4 DEF Inv, Three, Init

\* Which version a game is under never changes.
LEMMA SameVersion ==
    ASSUME TableTypeOK, Next PROVE game'.version = game.version
<1>1. game \in State /\ Me \in Player /\ Me = game.turn
    BY DEF TableTypeOK, State, Me
<1>2. ASSUME NEW g \in State PROVE Ended(g).version = g.version
    BY EndedFields
<1>3. CASE Key
    <2> DEFINE g == AfterKey(game, Half(Me))
    <2>1. Half(Me) \in SUBSET (Position \cup {-1})
        BY <1>1, ReadableType DEF Half, TableTypeOK
    <2>2. g \in State
        BY <1>1, <2>1, AfterKeyType
    <2>3. g.version = game.version
        BY <1>1 DEF AfterKey, State
    <2> QED
        BY <1>2, <1>3, <2>2, <2>3 DEF Key, Entry
<1>4. CASE Shuffle
    <2>1. PICK first \in Player : game' = Ended(AfterShuffle(game, first))
        BY <1>4 DEF Shuffle, Entry
    <2>2. AfterShuffle(game, first) \in State
        BY <1>1, AfterShuffleType
    <2>3. AfterShuffle(game, first).version = game.version
        BY <1>1 DEF AfterShuffle, State
    <2> QED
        BY <1>2, <2>1, <2>2, <2>3
<1>5. CASE DealRack
    BY <1>1, <1>2, <1>5 DEF DealRack, Entry
<1>6. CASE Yield \/ Forfeit
    <2>1. AfterForfeit(game) \in State /\ AfterForfeit(game).version = game.version
        BY <1>1, AfterForfeitType DEF AfterForfeit, State
    <2> QED
        BY <1>2, <1>6, <2>1 DEF Yield, Forfeit, Entry
<1>7. CASE OpenRack
    <2>1. AfterOpen(game) \in State /\ AfterOpen(game).version = game.version
        BY <1>1, AfterOpenType DEF AfterOpen, State
    <2> QED
        BY <1>2, <1>7, <2>1 DEF OpenRack, Entry
<1>8. CASE Place
    <2>1. PICK spent \in SUBSET game.racks[Me], real \in BOOLEAN :
            game' = Ended(AfterPlace(game, spent, real))
        BY <1>8 DEF Place, Entry
    <2>2. spent \in SUBSET Position
        BY <1>1, <2>1 DEF State
    <2>3. AfterPlace(game, spent, real) \in State
        BY <1>1, <2>2, AfterPlaceType
    <2>4. AfterPlace(game, spent, real).version = game.version
        BY <1>1 DEF AfterPlace, State
    <2> QED
        BY <1>2, <2>1, <2>3, <2>4
<1>9. CASE Exchange
    <2>1. PICK returned \in SUBSET game.racks[Me] : game' = Ended(AfterExchange(game, returned))
        BY <1>9 DEF Exchange, Entry
    <2>2. returned \in SUBSET Position
        BY <1>1, <2>1 DEF State
    <2>3. AfterExchange(game, returned) \in State
        BY <1>1, <2>2, AfterExchangeType
    <2>4. AfterExchange(game, returned).version = game.version
        BY <1>1 DEF AfterExchange, State
    <2> QED
        BY <1>2, <2>1, <2>3, <2>4
<1>10. CASE Pass
    <2>1. AfterPass(game) \in State /\ AfterPass(game).version = game.version
        BY <1>1, AfterPassType DEF AfterPass, State
    <2> QED
        BY <1>2, <1>10, <2>1 DEF Pass, Entry
<1>11. CASE Challenge
    <2> DEFINE g == AfterChallenge(game)
               upheld == ~game.lastPlay.real
    <2>1. g \in State
        BY <1>1, <1>11, Others, AfterChallengeType DEF Challenge, CanChallenge
    <2>2. g.version = game.version
        BY <1>1 DEF AfterChallenge, TakenBack, State
    <2>3. game' = ChallengeEnded(g, upheld)
        BY <1>11 DEF Challenge, Entry
    <2> HIDE DEF g, upheld
    <2>4. Handed(g) \in State /\ Handed(g).version = g.version
        BY <2>1, HandedType DEF Handed, State
    <2> DEFINE h == IF upheld THEN g ELSE Handed(g)
    <2>5. h \in State /\ h.version = g.version
        BY <2>1, <2>4
    <2> HIDE DEF h
    <2> DEFINE finished == h.finished \/ h.opened = Player
    <2>6. Settled(h) = [h EXCEPT !.finished = finished]
        BY DEF Settled
    <2> HIDE DEF finished
    <2>7. Settled(h).version = h.version
        BY <2>5, <2>6 DEF State
    <2>8. Settled(h) \in State
        BY <2>5, SettledType
    <2>9. Advanced(Settled(h)).version = Settled(h).version
        BY <2>8 DEF Advanced, State
    <2>10. game' = Advanced(Settled(h))
        BY <2>3 DEF ChallengeEnded, h
    <2> QED
        BY <2>2, <2>5, <2>7, <2>9, <2>10
<1> QED
    BY <1>3, <1>4, <1>5, <1>6, <1>7, <1>8, <1>9, <1>10, <1>11 DEF Next

LEMMA InvStep == Inv /\ [Next]_vars => Inv'
<1> SUFFICES ASSUME Inv, [Next]_vars PROVE Inv'
    OBVIOUS
<1>1. TableTypeOK /\ TableTypeOK'
    BY TypeStep DEF Inv
<1>2. CASE UNCHANGED vars
    BY <1>1, <1>2 DEF vars, Inv, Three, Opening, Holding, InStep, Openings, Ready
<1>3. CASE Next /\ game.version # 3
    BY <1>1, <1>3, SameVersion DEF Inv, Three
<1>4. CASE Next /\ game.version = 3
    <2>1. ~refused /\ Opening /\ Holding /\ Openings
        BY <1>4 DEF Inv, Three
    <2>2. ~Forfeit
        BY <1>1, <2>1, Waiting DEF Forfeit
    <2>3. ~Challenge
        BY <1>4 DEF Challenge, CanChallenge
    <2>4. Three'
        BY <1>1, <1>4, <2>1, <2>2, <2>3, KeyStep, ShuffleStep, PlayStep, OpenRackStep DEF Next
    <2> QED
        BY <1>1, <2>4 DEF Inv
<1> QED
    BY <1>2, <1>3, <1>4

LEMMA Invariant == Spec => []Inv
    BY InvInit, InvStep, PTL DEF Spec

\* What a player holds, the other having published shares of it, can be read.
LEMMA ReadsOwnRack ==
    ASSUME TableTypeOK, Holding, NEW p \in Player
    PROVE  game.racks[p] \subseteq Readable(deal, p)
    BY DEF Holding, InStep, Readable

\* Under version 3 the rules and the deal agree, after every entry, on how much
\* of the deck has been dealt, and to whom: so what the rules next say is owed
\* is what the deal's next positions are for.
THEOREM InStepThroughout == Spec => []ThreeInStep
<1>1. Inv => ThreeInStep
    BY DEF Inv, Three, Holding, ThreeInStep
<1> QED
    BY <1>1, Invariant, PTL

\* Under version 3 no device ever refuses the payload of an entry the client
\* has built, and the moves the rules wait for can be made.
THEOREM NeverStuckThroughout == Spec => []ThreeNeverStuck
<1>1. Inv => ThreeNeverStuck
    <2> SUFFICES ASSUME Inv, game.version = 3 PROVE NeverStuck
        BY DEF ThreeNeverStuck
    <2>1. /\ TableTypeOK /\ ~refused /\ Opening /\ Holding /\ Openings
          /\ Me \in Player /\ Me = game.turn
        BY DEF Inv, Three, TableTypeOK, State, Me
    <2>2. ASSUME Expected(game) = "shuffle" PROVE CanShuffle(game, Half(Me))
        <3>1. game.step = 2
            BY <2>1, <2>2, Waiting
        <3>2. game.toss[Initiator] = {} /\ deal.pointer = 0
            BY <2>1, <3>1 DEF Opening, Holding, InStep
        <3>3. Half(Me) = {}
            BY <2>1, <3>2, NothingRead DEF Half
        <3> QED
            BY <2>2, <3>2, <3>3 DEF CanShuffle
    <2>3. ASSUME Expected(game) = "open" PROVE CanOpen(game, Named)
        <3>1. ~game.finished /\ game.ending
            BY <2>1, <2>3, Waiting
        <3>2. Me \notin game.opened
            BY <2>1, <3>1, Others DEF Openings
        <3>3. Named = game.racks[Me]
            BY <2>1, <3>1, <3>2, ReadsOwnRack DEF Named, ToOpen
        <3> QED
            BY <2>1, <2>3, <3>3 DEF CanOpen
    <2> QED
        BY <2>1, <2>2, <2>3 DEF NeverStuck
<1> QED
    BY <1>1, Invariant, PTL

\* Under version 3 a rack is read by its holder alone until it is opened, a tile
\* of it stops being secret only by being played, and nobody reads a tile that
\* is still in the bag.
THEOREM RackSecrecyThroughout == Spec => []ThreeRackSecrecy
<1>1. Inv => ThreeRackSecrecy
    <2> SUFFICES ASSUME Inv, game.version = 3 PROVE RackSecrecy
        BY DEF ThreeRackSecrecy
    <2>1. TableTypeOK /\ Holding
        BY DEF Inv, Three
    <2>2. \A p \in Player : game.racks[p] \subseteq Readable(deal, p)
        BY <2>1, ReadsOwnRack
    <2>3. ASSUME NEW p \in Player \ game.opened
          PROVE  game.racks[p] \cap Readable(deal, Other(p)) = {}
        <3>1. deal.dealt[p] \cap deal.dealt[Other(p)] = {}
            BY <2>1 DEF Holding, Player, Initiator, Claimer, Other
        <3>2. game.racks[p] \subseteq deal.dealt[p] /\ game.racks[p] \cap deal.public = {}
            BY <2>1 DEF Holding, InStep
        <3> QED
            BY <3>1, <3>2 DEF Readable
    <2>4. ASSUME NEW p \in Player, NEW i \in Readable(deal, p) PROVE i < deal.pointer
        BY <2>1, <2>4 DEF Holding, Readable, Player
    <2> QED
        BY <2>2, <2>3, <2>4 DEF RackSecrecy
<1> QED
    BY <1>1, Invariant, PTL
-----------------------------------------------------------------------------
(* Racks and the end of a game, under either version: no tile is owed that is *)
(* not paid while there is one to pay with, though a challenge takes back a   *)
(* play and the refill it had earned, and a game ends for one of two reasons. *)

\* Handing over adds to the opponent's rack alone, and takes it off the bag and
\* off what they are owed.
LEMMA HandedFields ==
    ASSUME NEW g \in State, NEW owed, owed = Owed(g, g.turn)
    PROVE  /\ Handed(g).racks =
                [g.racks EXCEPT ![Other(g.turn)] = @ \cup Positions(g.pointer, owed)]
           /\ Handed(g).pointer = g.pointer + owed
           /\ Handed(g).pending = [g.pending EXCEPT ![Other(g.turn)] = @ - owed]
           /\ Handed(g).turn = g.turn /\ Handed(g).step = g.step
           /\ Handed(g).ending = g.ending /\ Handed(g).wentOut = g.wentOut
           /\ Handed(g).scoreless = g.scoreless
           /\ Handed(g).lastPlay = g.lastPlay /\ Handed(g).mustForfeit = g.mustForfeit
<1>1. Handed(g) = [g EXCEPT !.racks[Other(g.turn)] = @ \cup Positions(g.pointer, owed),
                            !.pointer = @ + owed,
                            !.pending[Other(g.turn)] = @ - owed]
    BY DEF Handed
<1> QED
    BY <1>1 DEF State

\* The end of an entry settles who went out, and nothing else does.
LEMMA EndedWentOut ==
    ASSUME NEW g \in State
    PROVE  Ended(g).wentOut = (IF PlayedOut(Handed(g)) THEN g.turn ELSE g.wentOut)
<1> DEFINE h == Handed(g)
           c == Checked(h)
           s == Settled(c)
<1>1. h \in State /\ c \in State /\ s \in State /\ h.turn = g.turn /\ h.wentOut = g.wentOut
    BY HandedType, CheckedType, SettledType, HandedFields
<1> HIDE DEF h
<1>2. c.wentOut = (IF PlayedOut(h) THEN h.turn ELSE h.wentOut)
    BY <1>1 DEF Checked, State
<1> HIDE DEF c
<1>3. s.wentOut = c.wentOut
    BY <1>1 DEF Settled, State
<1> HIDE DEF s
<1>4. Advanced(s).wentOut = s.wentOut
    BY <1>1 DEF Advanced, State
<1>5. Ended(g) = Advanced(s)
    BY DEF Ended, s, c, h
<1> QED
    BY <1>1, <1>2, <1>3, <1>4, <1>5 DEF h
-----------------------------------------------------------------------------
(* The end of a game.                                                        *)

\* A game that is ending has its reason.
Reason(g) ==
    g.ending =>
        \/ g.scoreless >= SCORELESS_LIMIT
        \/ /\ g.wentOut # Nobody
           /\ g.racks[g.wentOut] = {}
           /\ InBag(g) = 0

\* The end of an entry starts a game ending for a reason, and a reason stands:
\* the rack of a player who went out is not refilled, for the bag is empty.
LEMMA EndedForAReason == ASSUME NEW g \in State, Reason(g) PROVE Reason(Ended(g))
<1> DEFINE owed == Owed(g, g.turn)
           h == Handed(g)
           e == Ended(g)
<1>1. /\ g.turn \in Player /\ Other(g.turn) \in Player /\ Other(g.turn) # g.turn
      /\ Nobody \notin Player
    BY Others DEF State, Player, Initiator, Claimer, Nobody
<1>2. /\ owed \in 0 .. TILE_TOTAL /\ g.pointer + owed <= TILE_TOTAL
      /\ g.pointer \in 0 .. TILE_TOTAL /\ TILE_TOTAL \in Nat
    BY <1>1, OwedIsThere, TileAssumption DEF State
<1>3. /\ h.racks = [g.racks EXCEPT ![Other(g.turn)] = @ \cup Positions(g.pointer, owed)]
      /\ h.pointer = g.pointer + owed /\ h.turn = g.turn
    BY HandedFields
<1>4. /\ e.racks = h.racks /\ e.pointer = h.pointer /\ e.scoreless = g.scoreless
      /\ e.ending = (g.ending \/ PlayedOut(h) \/ g.scoreless >= SCORELESS_LIMIT)
    BY <1>3, EndedFields
<1>5. e.wentOut = (IF PlayedOut(h) THEN g.turn ELSE g.wentOut)
    BY EndedWentOut
<1> SUFFICES Reason(e)
    OBVIOUS
<1> HIDE DEF h, e, owed
<1>6. CASE g.scoreless >= SCORELESS_LIMIT
    BY <1>4, <1>6 DEF Reason
<1>7. CASE PlayedOut(h)
    <2>1. h.racks[g.turn] = {} /\ InBag(h) = 0
        BY <1>3, <1>7 DEF PlayedOut
    <2>2. InBag(e) = 0
        BY <1>4, <2>1 DEF InBag
    <2> QED
        BY <1>1, <1>4, <1>5, <1>7, <2>1, <2>2 DEF Reason
<1>8. CASE ~PlayedOut(h) /\ ~(g.scoreless >= SCORELESS_LIMIT) /\ g.ending
    <2>1. g.wentOut \in Player /\ g.racks[g.wentOut] = {} /\ InBag(g) = 0
        BY <1>8 DEF Reason, State
    <2>2. owed = 0
        BY <1>2, <2>1 DEF InBag
    <2>3. Positions(g.pointer, owed) = {}
        BY <1>2, <2>2 DEF Positions
    <2>4. e.racks[g.wentOut] = {}
        BY <1>1, <1>3, <1>4, <2>1, <2>3 DEF State
    <2>5. InBag(e) = 0
        BY <1>2, <1>3, <1>4, <2>1, <2>2 DEF InBag
    <2> QED
        BY <1>1, <1>4, <1>5, <1>8, <2>1, <2>4, <2>5 DEF Reason
<1>9. CASE ~PlayedOut(h) /\ ~(g.scoreless >= SCORELESS_LIMIT) /\ ~g.ending
    BY <1>4, <1>9 DEF Reason
<1> QED
    BY <1>6, <1>7, <1>8, <1>9

\* A challenge neither starts nor settles an ending.
LEMMA ChallengeEndedFields ==
    ASSUME NEW g \in State, NEW upheld \in BOOLEAN,
           NEW h, h = (IF upheld THEN g ELSE Handed(g))
    PROVE  /\ ChallengeEnded(g, upheld).racks = h.racks
           /\ ChallengeEnded(g, upheld).pointer = h.pointer
           /\ ChallengeEnded(g, upheld).pending = h.pending
           /\ ChallengeEnded(g, upheld).ending = g.ending
           /\ ChallengeEnded(g, upheld).step = Least(g.step + 1, 5)
           /\ ChallengeEnded(g, upheld).turn = Other(g.turn)
           /\ ChallengeEnded(g, upheld).lastPlay = g.lastPlay
           /\ ChallengeEnded(g, upheld).mustForfeit = g.mustForfeit
<1> DEFINE s == Settled(h)
<1>1. /\ h \in State /\ s \in State /\ h.turn = g.turn /\ h.step = g.step
      /\ h.ending = g.ending /\ h.lastPlay = g.lastPlay /\ h.mustForfeit = g.mustForfeit
    BY HandedType, SettledType, HandedFields
<1>2. /\ s.racks = h.racks /\ s.pointer = h.pointer /\ s.pending = h.pending
      /\ s.ending = h.ending /\ s.step = h.step /\ s.turn = h.turn
      /\ s.lastPlay = h.lastPlay /\ s.mustForfeit = h.mustForfeit
    BY <1>1 DEF Settled, State
<1>3. ChallengeEnded(g, upheld) = Advanced(s)
    BY DEF ChallengeEnded
<1> HIDE DEF s
<1> QED
    BY <1>1, <1>2, <1>3 DEF Advanced, State

\* Of a game that is ending, the moves made change neither racks nor turns
\* without a play before the end of the entry.
LEMMA ReasonStands ==
    ASSUME NEW g \in State, Reason(g), NEW half \in SUBSET (Position \cup {-1}),
           NEW first \in Player
    PROVE  Reason(AfterKey(g, half)) /\ Reason(AfterShuffle(g, first))
           /\ Reason(AfterForfeit(g)) /\ Reason(AfterOpen(g))
<1>1. ASSUME NEW k \in State, k.ending = g.ending, k.scoreless = g.scoreless,
             k.wentOut = g.wentOut, k.racks = g.racks, k.pointer = g.pointer
      PROVE  Reason(k)
    BY <1>1 DEF Reason, InBag
<1>2. Reason(AfterKey(g, half))
    <2> DEFINE k == AfterKey(g, half)
    <2>1. k \in State
        BY AfterKeyType
    <2>2. /\ k.ending = g.ending /\ k.scoreless = g.scoreless /\ k.wentOut = g.wentOut
          /\ k.racks = g.racks /\ k.pointer = g.pointer
        BY DEF AfterKey, State
    <2> QED
        BY <1>1, <2>1, <2>2
<1>3. Reason(AfterShuffle(g, first))
    <2> DEFINE k == AfterShuffle(g, first)
    <2>1. k \in State
        BY AfterShuffleType
    <2>2. /\ k.ending = g.ending /\ k.scoreless = g.scoreless /\ k.wentOut = g.wentOut
          /\ k.racks = g.racks /\ k.pointer = g.pointer
        BY DEF AfterShuffle, State
    <2> QED
        BY <1>1, <2>1, <2>2
<1>4. Reason(AfterForfeit(g))
    <2> DEFINE k == AfterForfeit(g)
    <2>1. k \in State
        BY AfterForfeitType
    <2>2. /\ k.ending = g.ending /\ k.scoreless = g.scoreless /\ k.wentOut = g.wentOut
          /\ k.racks = g.racks /\ k.pointer = g.pointer
        BY DEF AfterForfeit, State
    <2> QED
        BY <1>1, <2>1, <2>2
<1>5. Reason(AfterOpen(g))
    <2> DEFINE k == AfterOpen(g)
    <2>1. k \in State
        BY AfterOpenType
    <2>2. /\ k.ending = g.ending /\ k.scoreless = g.scoreless /\ k.wentOut = g.wentOut
          /\ k.racks = g.racks /\ k.pointer = g.pointer
        BY DEF AfterOpen, State
    <2> QED
        BY <1>1, <2>1, <2>2
<1> QED
    BY <1>2, <1>3, <1>4, <1>5

\* Whether a turn can be played says whether the game is ending.
LEMMA PlayWaits ==
    ASSUME NEW g \in State, Expected(g) = "play"
    PROVE  ~g.finished /\ ~g.ending /\ g.step \in {4, 5} /\ g.mustForfeit # g.turn
<1>1. ~g.finished /\ g.mustForfeit # g.turn
    BY DEF Expected
<1>2. g.step \notin {0, 1, 2, 3}
    BY <1>1 DEF Expected
<1>3. g.step \in {4, 5}
    BY <1>2 DEF State
<1> QED
    BY <1>1, <1>3 DEF Expected

LEMMA ReasonStep == TableTypeOK /\ Reason(game) /\ [Next]_vars => Reason(game)'
<1> SUFFICES ASSUME TableTypeOK, Reason(game), [Next]_vars PROVE Reason(game')
    BY DEF Reason, InBag
<1>1. game \in State /\ Me \in Player /\ Me = game.turn
    BY DEF TableTypeOK, State, Me
<1>2. Half(Me) \in SUBSET (Position \cup {-1})
    BY <1>1, ReadableType DEF Half, TableTypeOK
<1>3. ASSUME NEW k \in State, ~k.ending, game' = Ended(k) PROVE Reason(game')
    BY <1>3, EndedForAReason DEF Reason
<1>4. ASSUME Expected(game) = "play" PROVE ~game.ending /\ game.racks[Me] \in SUBSET Position
    BY <1>1, <1>4, PlayWaits DEF State
<1>5. CASE Key
    BY <1>1, <1>2, <1>5, ReasonStands, AfterKeyType, EndedForAReason DEF Key, Entry
<1>6. CASE Shuffle
    BY <1>1, <1>2, <1>6, ReasonStands, AfterShuffleType, EndedForAReason DEF Shuffle, Entry
<1>7. CASE DealRack
    BY <1>1, <1>7, EndedForAReason DEF DealRack, Entry
<1>8. CASE Yield
    BY <1>1, <1>2, <1>8, ReasonStands, AfterForfeitType, EndedForAReason DEF Yield, Entry
<1>9. CASE Forfeit
    BY <1>1, <1>2, <1>9, ReasonStands, AfterForfeitType, EndedForAReason DEF Forfeit, Entry
<1>10. CASE OpenRack
    BY <1>1, <1>2, <1>10, ReasonStands, AfterOpenType, EndedForAReason DEF OpenRack, Entry
<1>11. CASE Place
    <2>1. PICK spent \in SUBSET (game.racks[Me] \cap Readable(deal, Me)), real \in BOOLEAN :
            CanPlace(game, spent) /\ game' = Ended(AfterPlace(game, spent, real))
        BY <1>11 DEF Place, Entry
    <2>2. ~game.ending /\ spent \in SUBSET Position
        BY <1>4, <2>1 DEF CanPlace
    <2>3. AfterPlace(game, spent, real) \in State
        BY <1>1, <2>2, AfterPlaceType
    <2>4. AfterPlace(game, spent, real).ending = game.ending
        BY <1>1 DEF AfterPlace, State
    <2> QED
        BY <1>3, <2>1, <2>2, <2>3, <2>4
<1>12. CASE Exchange
    <2>1. PICK returned \in SUBSET game.racks[Me] :
            CanExchange(game, returned) /\ game' = Ended(AfterExchange(game, returned))
        BY <1>12 DEF Exchange, Entry
    <2>2. ~game.ending /\ returned \in SUBSET Position
        BY <1>4, <2>1 DEF CanExchange
    <2>3. AfterExchange(game, returned) \in State
        BY <1>1, <2>2, AfterExchangeType
    <2>4. AfterExchange(game, returned).ending = game.ending
        BY <1>1 DEF AfterExchange, State
    <2> QED
        BY <1>3, <2>1, <2>2, <2>3, <2>4
<1>13. CASE Pass
    <2>1. ~game.ending /\ game' = Ended(AfterPass(game))
        BY <1>4, <1>13 DEF Pass, Entry
    <2>2. AfterPass(game) \in State /\ AfterPass(game).ending = game.ending
        BY <1>1, AfterPassType DEF AfterPass, State
    <2> QED
        BY <1>3, <2>1, <2>2
<1>14. CASE Challenge
    <2> DEFINE upheld == ~game.lastPlay.real
               k == AfterChallenge(game)
    <2>1. ~game.ending /\ game' = ChallengeEnded(k, upheld)
        BY <1>4, <1>14 DEF Challenge, Entry
    <2>2. k \in State
        BY <1>1, <1>14, Others, AfterChallengeType DEF Challenge, CanChallenge, Me
    <2>3. k.ending = game.ending
        BY <1>1 DEF AfterChallenge, TakenBack, State
    <2>4. ChallengeEnded(k, upheld).ending = k.ending
        BY <2>2, ChallengeEndedFields
    <2> QED
        BY <2>1, <2>3, <2>4 DEF Reason
<1>15. CASE UNCHANGED vars
    BY <1>15 DEF vars
<1> QED
    BY <1>5, <1>6, <1>7, <1>8, <1>9, <1>10, <1>11, <1>12, <1>13, <1>14, <1>15 DEF Next

\* A game starts ending, and is over, because too many turns have gone by
\* without a play, or because a player has no tiles left and the bag none; while
\* the racks are opened nothing makes that untrue.
THEOREM EndsForAReasonThroughout == Spec => []EndsForAReason
<1>1. Init => Reason(game)
    BY DEF Init, Setup, Reason
<1>2. TableTypeOK /\ Reason(game) => EndsForAReason
    BY DEF Reason, EndsForAReason
<1> QED
    BY <1>1, <1>2, ReasonStep, TableTypes, PTL DEF Spec
-----------------------------------------------------------------------------
(* Racks, and what is owed.  A rack and what its holder is owed make up a     *)
(* full one: that is inductive once it is said of the tiles a challenge may   *)
(* give back too, which the holder is owed a refill for until then.           *)

\* Nobody holds what has not been dealt.
Drawn(g) == \A p \in Player : \A i \in g.racks[p] : i < g.pointer

Sums(g) == \A p \in Player : Cardinality(g.racks[p]) + g.pending[p] = RACK

\* Nothing has been dealt before the toss, and only the claimer is owed a rack.
Undealt(g) ==
    g.step <= 2 =>
        /\ \A p \in Player : g.racks[p] = {}
        /\ g.pending = [p \in Player |-> IF p = Claimer /\ g.step = 2 THEN RACK ELSE 0]
        /\ g.step = 0 => g.turn = Initiator
        /\ g.step = 1 => g.turn = Claimer

\* From then on the books balance, and the player to move has been paid.
Balanced(g) ==
    g.step >= 3 => Sums(g) /\ (g.pending[g.turn] > 0 => InBag(g) = 0)

\* The play of a player: out of the rack, and the refill it has earned owed.
PlayOf(g, p) ==
    /\ g.lastPlay.spent \cap g.racks[p] = {}
    /\ \A i \in g.lastPlay.spent : i < g.pointer
    /\ Cardinality(g.lastPlay.spent) <= g.pending[p]
    /\ Cardinality(g.lastPlay.spent) < g.pending[p] => InBag(g) = 0

\* The play that may be disputed is the opponent's last, and has not been paid
\* for; whoever lost a challenge forfeits at once.
Disputable(g) ==
    /\ g.mustForfeit \in {Nobody, g.turn}
    /\ g.mustForfeit # Nobody => g.lastPlay.by = Nobody
    /\ g.step <= 4 => g.lastPlay.by = Nobody /\ g.mustForfeit = Nobody
    /\ ~g.ending /\ g.lastPlay.by # Nobody =>
        g.lastPlay.by = Other(g.turn) /\ PlayOf(g, Other(g.turn))

Books(g) == Drawn(g) /\ Undealt(g) /\ Balanced(g) /\ Disputable(g)

\* The same between a move and the end of its entry.
Left(g) ==
    /\ Drawn(g) /\ Sums(g)
    /\ g.mustForfeit \in {Nobody, Other(g.turn)}
    /\ g.mustForfeit # Nobody => g.lastPlay.by = Nobody
    /\ g.step <= 3 => g.lastPlay.by = Nobody /\ g.mustForfeit = Nobody
    /\ ~g.ending /\ g.lastPlay.by # Nobody =>
        g.lastPlay.by = g.turn /\ PlayOf(g, g.turn)

\* Sets of positions, counted.
LEMMA Finite == ASSUME NEW S \in SUBSET Position PROVE IsFiniteSet(S)
<1>1. 0 \in Int /\ TILE_TOTAL - 1 \in Int
    BY TileAssumption
<1>2. IsFiniteSet(Position)
    BY <1>1, FS_Interval, Zenon DEF Position
<1> QED
    BY <1>2, FS_Subset, Zenon

\* Disjoint sets of tiles add up, and what is taken from one is missing there.
LEMMA CountUnion ==
    ASSUME NEW S \in SUBSET Position, NEW T \in SUBSET Position, S \cap T = {}
    PROVE  Cardinality(S \cup T) = Cardinality(S) + Cardinality(T)
<1>1. IsFiniteSet(S) /\ IsFiniteSet(T)
    BY Finite
<1>2. Cardinality(S \cup T) = Cardinality(S) + Cardinality(T) - Cardinality(S \cap T)
    BY <1>1, FS_Union, Zenon
<1>3. Cardinality(S \cap T) = 0
    BY FS_EmptySet
<1>4. Cardinality(S) \in Nat /\ Cardinality(T) \in Nat
    BY Countable
<1> QED
    BY <1>2, <1>3, <1>4

LEMMA CountTaken ==
    ASSUME NEW S \in SUBSET Position, NEW T \in SUBSET S
    PROVE  /\ Cardinality(S \ T) = Cardinality(S) - Cardinality(T)
           /\ Cardinality(S \ T) \in Nat /\ Cardinality(T) \in Nat
<1>1. IsFiniteSet(S)
    BY Finite
<1>2. Cardinality(S \ T) = Cardinality(S) - Cardinality(S \cap T)
    BY <1>1, FS_Difference, Zenon
<1>3. S \cap T = T
    OBVIOUS
<1>4. S \ T \in SUBSET Position /\ T \in SUBSET Position
    OBVIOUS
<1> QED
    BY <1>2, <1>3, <1>4, Countable

\* So many tiles off the top of the deck are so many tiles.
LEMMA CountPositions ==
    ASSUME NEW from \in Nat, NEW count \in Nat
    PROVE  Cardinality(Positions(from, count)) = count
<1>1. from \in Int /\ from + count - 1 \in Int
    OBVIOUS
<1>2. \A a, b \in Int : Cardinality(a .. b) = (IF a > b THEN 0 ELSE b - a + 1)
    BY FS_Interval, Zenon
<1> QED
    BY <1>1, <1>2 DEF Positions

\* Handing over keeps the books, and leaves the opponent owed only what the bag
\* does not have.
LEMMA HandedBooks ==
    ASSUME NEW k \in State, Drawn(k), Sums(k), NEW h, h = Handed(k)
    PROVE  /\ Drawn(h) /\ Sums(h)
           /\ h.pending[Other(k.turn)] > 0 => InBag(h) = 0
           /\ InBag(k) = 0 => InBag(h) = 0
           /\ k.pointer <= h.pointer
           /\ h.racks[k.turn] = k.racks[k.turn] /\ h.pending[k.turn] = k.pending[k.turn]
<1> DEFINE them == Other(k.turn)
           owed == Owed(k, k.turn)
           new == Positions(k.pointer, owed)
<1>1. /\ k.turn \in Player /\ them \in Player /\ them # k.turn
      /\ Player = {k.turn, them}
    BY Others DEF State, Player, Initiator, Claimer, Other
<1>2. /\ owed \in Nat /\ owed <= k.pending[them] /\ k.pointer + owed <= TILE_TOTAL
      /\ k.pointer \in Nat /\ k.pointer <= TILE_TOTAL /\ TILE_TOTAL \in Nat
      /\ k.pending[them] \in Nat /\ RACK \in Nat
    BY <1>1, OwedIsThere, TileAssumption DEF State
<1>3. owed < k.pending[them] => owed = TILE_TOTAL - k.pointer
    BY <1>2 DEF Owed, Least, InBag
<1>4. /\ h.racks = [k.racks EXCEPT ![them] = @ \cup new]
      /\ h.pointer = k.pointer + owed
      /\ h.pending = [k.pending EXCEPT ![them] = @ - owed]
    BY HandedFields
<1>5. /\ h.racks[them] = k.racks[them] \cup new /\ h.racks[k.turn] = k.racks[k.turn]
      /\ h.pending[them] = k.pending[them] - owed /\ h.pending[k.turn] = k.pending[k.turn]
    BY <1>1, <1>4 DEF State
<1>6. /\ new \in SUBSET Position /\ \A i \in new : i >= k.pointer /\ i < k.pointer + owed
      /\ k.racks[them] \in SUBSET Position /\ k.racks[k.turn] \in SUBSET Position
    BY <1>1, <1>2 DEF Positions, Position, State
<1>7. Cardinality(new) = owed
    BY <1>2, CountPositions
<1> HIDE DEF them, owed, new
<1>8. k.racks[them] \cap new = {}
    BY <1>1, <1>2, <1>6 DEF Drawn, Position
<1>9. Cardinality(h.racks[them]) = Cardinality(k.racks[them]) + owed
    BY <1>5, <1>6, <1>7, <1>8, CountUnion
<1>10. Drawn(h)
    <2>1. \A i \in k.racks[them] \cup k.racks[k.turn] : i \in Nat /\ i < k.pointer
        BY <1>1, <1>6, TileAssumption DEF Drawn, Position
    <2>2. \A i \in h.racks[them] : i < h.pointer
        BY <1>2, <1>4, <1>5, <1>6, <2>1
    <2>3. \A i \in h.racks[k.turn] : i < h.pointer
        BY <1>2, <1>4, <1>5, <2>1
    <2> QED
        BY <1>1, <2>2, <2>3 DEF Drawn
<1>11. Sums(h)
    <2>1. Cardinality(k.racks[them]) \in Nat
        BY <1>6, Countable
    <2>2. Cardinality(k.racks[them]) + k.pending[them] = RACK
        BY <1>1 DEF Sums
    <2>3. Cardinality(h.racks[them]) + h.pending[them] = RACK
        BY <1>2, <1>5, <1>9, <2>1, <2>2
    <2>4. Cardinality(h.racks[k.turn]) + h.pending[k.turn] = RACK
        BY <1>1, <1>5 DEF Sums
    <2> QED
        BY <1>1, <2>3, <2>4 DEF Sums
<1>12. h.pending[them] > 0 => InBag(h) = 0
    BY <1>2, <1>3, <1>4, <1>5 DEF InBag
<1>13. (InBag(k) = 0 => InBag(h) = 0) /\ k.pointer <= h.pointer
    BY <1>2, <1>4 DEF InBag
<1> QED
    BY <1>5, <1>10, <1>11, <1>12, <1>13 DEF them

\* The end of an entry that hands tiles over keeps the books.
LEMMA SettledBooks ==
    ASSUME NEW k \in State, k.step >= 2, Left(k), NEW h, h = Handed(k),
           NEW e, e.racks = h.racks, e.pointer = h.pointer, e.pending = h.pending,
           e.turn = Other(k.turn), e.step = Least(k.step + 1, 5),
           e.lastPlay = k.lastPlay, e.mustForfeit = k.mustForfeit,
           ~e.ending => ~k.ending
    PROVE  Books(e)
<1>1. /\ k.turn \in Player /\ Other(k.turn) \in Player /\ Other(Other(k.turn)) = k.turn
      /\ k.step \in 0 .. 5 /\ k.pointer \in Nat /\ k.lastPlay.spent \in SUBSET Position
    BY Others, TileAssumption DEF State
<1>2. /\ Drawn(h) /\ Sums(h)
      /\ h.pending[Other(k.turn)] > 0 => InBag(h) = 0
      /\ InBag(k) = 0 => InBag(h) = 0
      /\ k.pointer <= h.pointer
      /\ h.racks[k.turn] = k.racks[k.turn] /\ h.pending[k.turn] = k.pending[k.turn]
    BY HandedBooks DEF Left
<1>3. h.pointer \in Nat
    BY HandedType, TileAssumption DEF State
<1>4. /\ e.racks = h.racks /\ e.pointer = h.pointer /\ e.pending = h.pending
    OBVIOUS
<1>5. /\ e.turn = Other(k.turn) /\ e.step = Least(k.step + 1, 5)
      /\ e.lastPlay = k.lastPlay /\ e.mustForfeit = k.mustForfeit
      /\ ~e.ending => ~k.ending
    OBVIOUS
<1>6. e.step \in {3, 4, 5} /\ (e.step <= 4 => k.step <= 3)
    BY <1>1, <1>5 DEF Least
<1>7. Drawn(e) /\ Undealt(e) /\ Balanced(e)
    BY <1>2, <1>4, <1>5, <1>6 DEF Drawn, Undealt, Balanced, Sums, InBag
<1>8. PlayOf(k, k.turn) => PlayOf(e, k.turn)
    <2> SUFFICES ASSUME PlayOf(k, k.turn) PROVE PlayOf(e, k.turn)
        OBVIOUS
    <2>1. e.lastPlay.spent \cap e.racks[k.turn] = {}
        BY <1>2, <1>4, <1>5 DEF PlayOf
    <2>2. \A i \in e.lastPlay.spent : i < e.pointer
        BY <1>1, <1>2, <1>3, <1>4, <1>5 DEF PlayOf, Position
    <2>3. /\ Cardinality(e.lastPlay.spent) <= e.pending[k.turn]
          /\ Cardinality(e.lastPlay.spent) < e.pending[k.turn] => InBag(k) = 0
        BY <1>2, <1>4, <1>5 DEF PlayOf
    <2>4. InBag(h) = 0 => InBag(e) = 0
        BY <1>4 DEF InBag
    <2> QED
        BY <1>2, <2>1, <2>2, <2>3, <2>4 DEF PlayOf
<1>9. Disputable(e)
    BY <1>1, <1>5, <1>6, <1>8 DEF Disputable, Left
<1> QED
    BY <1>7, <1>9 DEF Books

LEMMA EndedBooks ==
    ASSUME NEW k \in State, k.step >= 2, Left(k)
    PROVE  Books(Ended(k))
<1> DEFINE owed == Owed(k, k.turn)
           h == Handed(k)
           e == Ended(k)
<1>1. /\ e.racks = [k.racks EXCEPT ![Other(k.turn)] = @ \cup Positions(k.pointer, owed)]
      /\ e.pointer = k.pointer + owed
      /\ e.pending = [k.pending EXCEPT ![Other(k.turn)] = @ - owed]
    BY EndedFields
<1>2. /\ h.racks = [k.racks EXCEPT ![Other(k.turn)] = @ \cup Positions(k.pointer, owed)]
      /\ h.pointer = k.pointer + owed
      /\ h.pending = [k.pending EXCEPT ![Other(k.turn)] = @ - owed]
    BY HandedFields
<1>3. /\ e.turn = Other(k.turn) /\ e.step = Least(k.step + 1, 5)
      /\ e.lastPlay = k.lastPlay /\ e.mustForfeit = k.mustForfeit
      /\ ~e.ending => ~k.ending
    BY EndedFields
<1> SUFFICES Books(e)
    OBVIOUS
<1> HIDE DEF e, h, owed
<1>4. e.racks = h.racks /\ e.pointer = h.pointer /\ e.pending = h.pending
    BY <1>1, <1>2
<1>5. h = Handed(k)
    BY DEF h
<1> QED
    BY <1>3, <1>4, <1>5, SettledBooks

\* A challenge keeps the books: a play that stands is paid for, and one taken
\* back goes back to the rack it came out of with the refill it had earned
\* struck off, which it always covers.
LEMMA ChallengeBooks ==
    ASSUME NEW g \in State, Books(g), Expected(g) = "play", CanChallenge(g)
    PROVE  Books(ChallengeEnded(AfterChallenge(g), ~g.lastPlay.real))
<1> DEFINE them == Other(g.turn)
           spent == g.lastPlay.spent
           k == AfterChallenge(g)
           e == ChallengeEnded(k, ~g.lastPlay.real)
<1>1. /\ g.turn \in Player /\ them \in Player /\ them # g.turn /\ them # Nobody
      /\ Player = {g.turn, them}
      /\ g.lastPlay.by = them /\ ~g.ending /\ g.mustForfeit # g.turn
      /\ g.step \in 0 .. 5 /\ spent \in SUBSET Position
      /\ g.lastPlay.real \in BOOLEAN
    BY Others, PlayWaits DEF State, Player, Initiator, Claimer, Other, Nobody, CanChallenge
<1>2. /\ PlayOf(g, them) /\ g.step = 5 /\ g.mustForfeit = Nobody
    BY <1>1 DEF Books, Disputable
<1>3. Drawn(g) /\ Sums(g)
    BY <1>2 DEF Books, Balanced
<1>4. k \in State
    BY <1>1, AfterChallengeType
<1>5. /\ k.pointer = g.pointer /\ k.turn = g.turn /\ k.step = g.step /\ k.ending = g.ending
      /\ k.lastPlay = NoPlay
    BY <1>1 DEF AfterChallenge, TakenBack, State
<1>6. k.lastPlay.by = Nobody
    BY <1>5 DEF NoPlay
<1> SUFFICES Books(e)
    OBVIOUS
<1>7. CASE g.lastPlay.real
    <2>1. /\ k.racks = g.racks /\ k.pending = g.pending /\ k.mustForfeit = g.mustForfeit
        BY <1>7 DEF AfterChallenge, State
    <2>2. Left(k)
        BY <1>2, <1>3, <1>5, <1>6, <2>1 DEF Left, Drawn, Sums
    <2> DEFINE h == Handed(k)
    <2>3. /\ e.racks = h.racks /\ e.pointer = h.pointer /\ e.pending = h.pending
          /\ e.turn = Other(k.turn) /\ e.step = Least(k.step + 1, 5)
          /\ e.lastPlay = k.lastPlay /\ e.mustForfeit = k.mustForfeit /\ e.ending = k.ending
        BY <1>4, <1>7, ChallengeEndedFields
    <2>4. k.step >= 2 /\ h = Handed(k)
        BY <1>2, <1>5
    <2> HIDE DEF e, k, h
    <2> QED
        BY <1>4, <2>2, <2>3, <2>4, SettledBooks
<1>8. CASE ~g.lastPlay.real
    <2> DEFINE left == g.pending[them] - Cardinality(spent)
    <2>1. /\ Cardinality(spent) \in Nat /\ g.pending[them] \in Nat
          /\ Cardinality(spent) <= g.pending[them]
        BY <1>1, <1>2, Countable DEF PlayOf, State
    <2>2. left \in Nat /\ (left > 0 => InBag(g) = 0)
        BY <1>2, <2>1 DEF PlayOf
    <2>3. /\ k.racks = [g.racks EXCEPT ![them] = @ \cup spent]
          /\ k.pending = [g.pending EXCEPT ![them] = IF left < 0 THEN 0 ELSE left]
          /\ k.mustForfeit = them
        BY <1>1, <1>8 DEF AfterChallenge, TakenBack, State
    <2>4. /\ k.racks[them] = g.racks[them] \cup spent /\ k.racks[g.turn] = g.racks[g.turn]
          /\ k.pending[them] = left /\ k.pending[g.turn] = g.pending[g.turn]
        BY <1>1, <2>2, <2>3 DEF State
    <2>5. /\ e.racks = k.racks /\ e.pointer = k.pointer /\ e.pending = k.pending
          /\ e.turn = them /\ e.step = Least(k.step + 1, 5)
          /\ e.lastPlay = k.lastPlay /\ e.mustForfeit = k.mustForfeit
        BY <1>4, <1>5, <1>8, ChallengeEndedFields
    <2>6. Cardinality(k.racks[them]) = Cardinality(g.racks[them]) + Cardinality(spent)
        <3>1. g.racks[them] \in SUBSET Position /\ g.racks[them] \cap spent = {}
            BY <1>1, <1>2 DEF PlayOf, State
        <3> QED
            BY <1>1, <2>4, <3>1, CountUnion
    <2>7. Cardinality(g.racks[them]) \in Nat
        BY <1>1, Countable DEF State
    <2>8. e.step = 5
        BY <1>2, <1>5, <2>5 DEF Least
    <2> HIDE DEF e, k, left
    <2>9. Drawn(e)
        BY <1>1, <1>2, <1>3, <1>5, <2>4, <2>5 DEF Drawn, PlayOf
    <2>10. Sums(e)
        <3>1. Cardinality(g.racks[them]) + g.pending[them] = RACK
            BY <1>1, <1>3 DEF Sums
        <3>2. Cardinality(e.racks[them]) + e.pending[them] = RACK
            <4>1. Cardinality(e.racks[them]) = Cardinality(g.racks[them]) + Cardinality(spent)
                BY <2>5, <2>6
            <4>2. e.pending[them] = g.pending[them] - Cardinality(spent)
                BY <2>4, <2>5 DEF left
            <4> QED
                BY <2>1, <2>7, <3>1, <4>1, <4>2
        <3>3. Cardinality(e.racks[g.turn]) + e.pending[g.turn] = RACK
            BY <1>1, <1>3, <2>4, <2>5 DEF Sums
        <3> QED
            BY <1>1, <3>2, <3>3 DEF Sums
    <2>11. e.pending[e.turn] > 0 => InBag(e) = 0
        BY <1>5, <2>2, <2>4, <2>5 DEF InBag
    <2> QED
        BY <1>6, <2>3, <2>5, <2>8, <2>9, <2>10, <2>11 DEF Books, Undealt, Balanced, Disputable
<1> QED
    BY <1>7, <1>8

\* A move that takes nothing out of a rack, and leaves no play to be disputed or
\* is made while the game is ending, leaves the books as they were.
LEMMA QuietLeft ==
    ASSUME NEW g \in State, Books(g), g.step >= 3, NEW k,
           k.racks = g.racks, k.pointer = g.pointer, k.pending = g.pending,
           k.turn = g.turn, k.step = g.step, k.ending = g.ending,
           k.mustForfeit = Nobody, k.lastPlay.by = Nobody \/ k.ending,
           k.lastPlay = g.lastPlay \/ k.lastPlay.by = Nobody
    PROVE  Left(k)
    BY DEF Left, Books, Balanced, Disputable, Drawn, Sums, State

\* So does one that puts tiles down or gives them back, for which a refill is
\* owed.
LEMMA SpentLeft ==
    ASSUME NEW g \in State, Books(g), Expected(g) = "play",
           NEW spent \in SUBSET g.racks[g.turn], NEW k,
           k.racks = [g.racks EXCEPT ![g.turn] = @ \ spent],
           k.pending = [g.pending EXCEPT ![g.turn] = @ + Cardinality(spent)],
           k.pointer = g.pointer, k.turn = g.turn, k.step = g.step, k.ending = g.ending,
           k.mustForfeit = g.mustForfeit,
           k.lastPlay.by = Nobody \/ (k.lastPlay.by = g.turn /\ k.lastPlay.spent = spent)
    PROVE  Left(k)
<1> DEFINE me == g.turn
           them == Other(g.turn)
<1>1. /\ me \in Player /\ them \in Player /\ them # me /\ Player = {me, them}
      /\ ~g.ending /\ g.step \in {4, 5} /\ g.mustForfeit # g.turn
      /\ g.racks[me] \in SUBSET Position /\ g.pending[me] \in Nat
      /\ g.pointer \in Nat
    BY Others, PlayWaits, TileAssumption DEF State, Player, Initiator, Claimer, Other
<1>2. /\ Drawn(g) /\ Sums(g) /\ g.mustForfeit = Nobody
      /\ g.pending[me] > 0 => InBag(g) = 0
    BY <1>1 DEF Books, Balanced, Disputable
<1>3. /\ k.racks[me] = g.racks[me] \ spent /\ k.racks[them] = g.racks[them]
      /\ k.pending[me] = g.pending[me] + Cardinality(spent) /\ k.pending[them] = g.pending[them]
    BY <1>1 DEF State
<1>4. /\ Cardinality(k.racks[me]) = Cardinality(g.racks[me]) - Cardinality(spent)
      /\ Cardinality(spent) \in Nat
    BY <1>1, <1>3, CountTaken
<1>5. Cardinality(g.racks[me]) \in Nat /\ Cardinality(g.racks[me]) + g.pending[me] = RACK
    BY <1>1, <1>2, Countable DEF Sums
<1> HIDE DEF me, them
<1>6. Sums(k)
    <2>1. Cardinality(k.racks[me]) + k.pending[me] = RACK
        BY <1>1, <1>3, <1>4, <1>5
    <2>2. Cardinality(k.racks[them]) + k.pending[them] = RACK
        BY <1>1, <1>2, <1>3 DEF Sums
    <2> QED
        BY <1>1, <2>1, <2>2 DEF Sums
<1>7. Drawn(k)
    BY <1>1, <1>2, <1>3 DEF Drawn
<1>8. ASSUME k.lastPlay.spent = spent PROVE PlayOf(k, me)
    <2>1. k.lastPlay.spent \cap k.racks[me] = {}
        BY <1>3, <1>8
    <2>2. \A i \in k.lastPlay.spent : i < k.pointer
        BY <1>1, <1>2, <1>8 DEF Drawn, me
    <2>3. Cardinality(k.lastPlay.spent) <= k.pending[me]
        BY <1>1, <1>3, <1>4, <1>8
    <2>4. Cardinality(k.lastPlay.spent) < k.pending[me] => InBag(k) = 0
        BY <1>1, <1>2, <1>3, <1>4, <1>8 DEF InBag
    <2> QED
        BY <2>1, <2>2, <2>3, <2>4 DEF PlayOf
<1>9. ~k.ending /\ k.lastPlay.by # Nobody => k.lastPlay.by = k.turn /\ PlayOf(k, k.turn)
    BY <1>8 DEF me
<1> QED
    BY <1>1, <1>2, <1>6, <1>7, <1>9 DEF Left

\* Until the toss, entries hand nothing over.
LEMMA KeyBooks ==
    ASSUME NEW g \in State, Books(g), Expected(g) = "key",
           NEW half \in SUBSET (Position \cup {-1})
    PROVE  Books(Ended(AfterKey(g, half)))
<1> DEFINE k == AfterKey(g, half)
           owed == Owed(k, k.turn)
           e == Ended(k)
<1>1. g.step \in {0, 1} /\ g.turn \in Player /\ Other(g.turn) \in Player
    <2>1. ~g.finished /\ g.mustForfeit # g.turn
        BY DEF Expected
    <2>2. g.step \in 0 .. 5
        BY DEF State
    <2> QED
        BY <2>1, <2>2, Others DEF Expected, State
<1>2. /\ \A p \in Player : g.racks[p] = {}
      /\ g.pending = [p \in Player |-> 0]
      /\ g.turn = (IF g.step = 0 THEN Initiator ELSE Claimer)
      /\ g.lastPlay.by = Nobody /\ g.mustForfeit = Nobody
    BY <1>1 DEF Books, Undealt, Disputable
<1>3. /\ k \in State /\ k.racks = g.racks /\ k.pointer = g.pointer /\ k.turn = g.turn
      /\ k.step = g.step /\ k.lastPlay = g.lastPlay /\ k.mustForfeit = g.mustForfeit
      /\ k.pending = [g.pending EXCEPT ![Claimer] = IF g.turn = Claimer THEN RACK ELSE @]
    <2>1. k \in State
        BY AfterKeyType
    <2>2. /\ k.racks = g.racks /\ k.pointer = g.pointer /\ k.turn = g.turn
          /\ k.step = g.step /\ k.lastPlay = g.lastPlay /\ k.mustForfeit = g.mustForfeit
          /\ k.pending = [g.pending EXCEPT ![Claimer] = IF g.turn = Claimer THEN RACK ELSE @]
        BY DEF AfterKey, State
    <2> QED
        BY <2>1, <2>2
<1>4. k.pending = [p \in Player |-> IF p = Claimer /\ g.step = 1 THEN RACK ELSE 0]
    BY <1>1, <1>2, <1>3 DEF Player, Initiator, Claimer
<1>5. owed = 0
    <2>1. k.pending[Other(k.turn)] = 0
        BY <1>1, <1>2, <1>3, <1>4 DEF Initiator, Claimer, Other
    <2>2. InBag(k) \in Nat
        BY <1>3, TileAssumption DEF State, InBag
    <2> QED
        BY <2>1, <2>2 DEF Owed, Least
<1>6. /\ e.racks = [k.racks EXCEPT ![Other(k.turn)] = @ \cup Positions(k.pointer, owed)]
      /\ e.pending = [k.pending EXCEPT ![Other(k.turn)] = @ - owed]
      /\ e.turn = Other(k.turn) /\ e.step = Least(k.step + 1, 5)
      /\ e.lastPlay = k.lastPlay /\ e.mustForfeit = k.mustForfeit
    BY <1>3, EndedFields
<1> SUFFICES Books(e)
    OBVIOUS
<1> HIDE DEF e, k, owed
<1>7. Positions(k.pointer, owed) = {}
    BY <1>3, <1>5, TileAssumption DEF Positions, State
<1>8. \A p \in Player : e.racks[p] = {}
    BY <1>1, <1>2, <1>3, <1>6, <1>7 DEF State
<1>9. e.pending = [p \in Player |-> IF p = Claimer /\ g.step = 1 THEN RACK ELSE 0]
    BY <1>1, <1>3, <1>4, <1>5, <1>6, TileAssumption
<1>10. /\ e.step = g.step + 1 /\ e.step \in {1, 2}
       /\ e.step = 1 => e.turn = Claimer
    BY <1>1, <1>2, <1>3, <1>6 DEF Least, Initiator, Claimer, Other
<1>11. e.pending = [p \in Player |-> IF p = Claimer /\ e.step = 2 THEN RACK ELSE 0]
    BY <1>1, <1>9, <1>10
<1> QED
    BY <1>2, <1>3, <1>6, <1>8, <1>10, <1>11
       DEF Books, Drawn, Undealt, Balanced, Disputable

\* The toss puts the initiator too in line for an opening rack.
LEMMA ShuffleBooks ==
    ASSUME NEW g \in State, Books(g), Expected(g) = "shuffle", NEW first \in Player
    PROVE  Books(Ended(AfterShuffle(g, first)))
<1> DEFINE k == AfterShuffle(g, first)
<1>1. g.step = 2
    <2>1. ~g.finished /\ g.mustForfeit # g.turn /\ g.step \in 0 .. 5
        BY DEF Expected, State
    <2> QED
        BY <2>1 DEF Expected
<1>2. /\ k \in State /\ k.racks = g.racks /\ k.pointer = g.pointer /\ k.turn = g.turn
      /\ k.step = g.step /\ k.lastPlay = g.lastPlay /\ k.mustForfeit = g.mustForfeit
      /\ k.pending = [g.pending EXCEPT ![Initiator] = RACK]
    <2>1. k \in State
        BY AfterShuffleType
    <2>2. /\ k.racks = g.racks /\ k.pointer = g.pointer /\ k.turn = g.turn
          /\ k.step = g.step /\ k.lastPlay = g.lastPlay /\ k.mustForfeit = g.mustForfeit
          /\ k.pending = [g.pending EXCEPT ![Initiator] = RACK]
        BY DEF AfterShuffle, State
    <2> QED
        BY <2>1, <2>2
<1>3. /\ \A p \in Player : g.racks[p] = {}
      /\ g.pending = [p \in Player |-> IF p = Claimer THEN RACK ELSE 0]
      /\ g.lastPlay.by = Nobody /\ g.mustForfeit = Nobody
    BY <1>1 DEF Books, Undealt, Disputable
<1>4. \A p \in Player : k.pending[p] = RACK /\ Cardinality(k.racks[p]) = 0
    BY <1>2, <1>3, FS_EmptySet DEF Player, Initiator, Claimer
<1> HIDE DEF k
<1>5. Left(k)
    BY <1>2, <1>3, <1>4, TileAssumption DEF Left, Drawn, Sums
<1> QED
    BY <1>1, <1>2, <1>5, EndedBooks DEF k

LEMMA BooksStep == TableTypeOK /\ Books(game) /\ [Next]_vars => Books(game)'
<1> SUFFICES ASSUME TableTypeOK, Books(game), [Next]_vars PROVE Books(game')
    BY DEF Books, Drawn, Undealt, Balanced, Sums, Disputable, PlayOf, InBag
<1>1. /\ game \in State /\ Me \in Player /\ Me = game.turn
      /\ game.step \in 0 .. 5 /\ game.racks[Me] \in SUBSET Position
    BY DEF TableTypeOK, State, Me
<1>2. Half(Me) \in SUBSET (Position \cup {-1})
    BY <1>1, ReadableType DEF Half, TableTypeOK
<1>3. /\ game.mustForfeit \in {Nobody, game.turn} /\ Nobody \notin Player
      /\ game.mustForfeit # Nobody => game.lastPlay.by = Nobody
      /\ game.step <= 4 => game.lastPlay.by = Nobody /\ game.mustForfeit = Nobody
    BY DEF Books, Disputable, Player, Initiator, Claimer, Nobody
<1>4. CASE Key
    BY <1>1, <1>2, <1>4, KeyBooks DEF Key, Entry
<1>5. CASE Shuffle
    BY <1>1, <1>5, ShuffleBooks DEF Shuffle, CanShuffle, Entry
<1>6. CASE DealRack
    <2>1. game.step = 3 /\ game' = Ended(game)
        BY <1>1, <1>6 DEF DealRack, Entry, Expected
    <2>2. Left(game)
        BY <1>1, <1>3, <2>1, QuietLeft
    <2> QED
        BY <1>1, <2>1, <2>2, EndedBooks
<1>7. CASE Yield \/ Forfeit
    <2> DEFINE k == AfterForfeit(game)
    <2>1. /\ game' = Ended(k)
          /\ game.step >= 3 /\ game.lastPlay.by = Nobody
        <3>1. game' = Ended(k) /\ Expected(game) \in {"yield", "forfeit"}
            BY <1>7 DEF Yield, Forfeit, Entry
        <3>2. CASE Expected(game) = "forfeit"
            <4>1. game.mustForfeit = game.turn
                BY <3>2 DEF Expected
            <4> QED
                BY <1>1, <1>3, <3>1, <4>1
        <3>3. CASE Expected(game) = "yield"
            <4>1. game.step = 4
                BY <1>1, <3>3 DEF Expected
            <4> QED
                BY <1>3, <3>1, <4>1
        <3> QED
            BY <3>1, <3>2, <3>3
    <2>2. k \in State
        BY <1>1, AfterForfeitType
    <2>3. /\ k.racks = game.racks /\ k.pointer = game.pointer /\ k.pending = game.pending
          /\ k.turn = game.turn /\ k.step = game.step /\ k.ending = game.ending
          /\ k.mustForfeit = Nobody /\ k.lastPlay = game.lastPlay
        BY <1>1 DEF AfterForfeit, State
    <2> HIDE DEF k
    <2>4. Left(k)
        BY <1>1, <2>1, <2>3, QuietLeft
    <2> QED
        BY <1>1, <2>1, <2>2, <2>3, <2>4, EndedBooks
<1>8. CASE OpenRack
    <2> DEFINE k == AfterOpen(game)
    <2>1. /\ game' = Ended(k) /\ game.step >= 3 /\ game.ending
          /\ game.mustForfeit # game.turn
        <3>1. game' = Ended(k) /\ Expected(game) = "open"
            BY <1>8 DEF OpenRack, CanOpen, Entry
        <3>2. ~game.finished /\ game.mustForfeit # game.turn
            BY <3>1 DEF Expected
        <3> QED
            BY <1>1, <3>1, <3>2 DEF Expected
    <2>2. k \in State
        BY <1>1, AfterOpenType
    <2>3. /\ k.racks = game.racks /\ k.pointer = game.pointer /\ k.pending = game.pending
          /\ k.turn = game.turn /\ k.step = game.step /\ k.ending = game.ending
          /\ k.mustForfeit = game.mustForfeit /\ k.lastPlay = game.lastPlay
        BY <1>1 DEF AfterOpen, State
    <2> HIDE DEF k
    <2>4. Left(k)
        BY <1>1, <1>3, <2>1, <2>3, QuietLeft
    <2> QED
        BY <1>1, <2>1, <2>2, <2>3, <2>4, EndedBooks
<1>9. CASE Place
    <2>1. PICK spent \in SUBSET (game.racks[Me] \cap Readable(deal, Me)), real \in BOOLEAN :
            CanPlace(game, spent) /\ game' = Ended(AfterPlace(game, spent, real))
        BY <1>9 DEF Place, Entry
    <2> DEFINE k == AfterPlace(game, spent, real)
    <2>2. spent \in SUBSET Position /\ spent \in SUBSET game.racks[game.turn]
        BY <1>1, <2>1
    <2>3. k \in State
        BY <1>1, <2>2, AfterPlaceType
    <2>4. /\ k.racks = [game.racks EXCEPT ![game.turn] = @ \ spent]
          /\ k.pending = [game.pending EXCEPT ![game.turn] = @ + Cardinality(spent)]
          /\ k.pointer = game.pointer /\ k.turn = game.turn /\ k.step = game.step
          /\ k.ending = game.ending /\ k.mustForfeit = game.mustForfeit
          /\ k.lastPlay = IF game.version = 2 THEN [by |-> game.turn, spent |-> spent, real |-> real]
                                              ELSE NoPlay
        BY <1>1 DEF AfterPlace, State
    <2>5. k.lastPlay.by = Nobody \/ (k.lastPlay.by = game.turn /\ k.lastPlay.spent = spent)
        BY <2>4 DEF NoPlay
    <2>6. Expected(game) = "play" /\ game.step \in {4, 5}
        BY <1>1, <2>1, PlayWaits DEF CanPlace
    <2> HIDE DEF k
    <2>7. Left(k)
        BY <1>1, <2>2, <2>4, <2>5, <2>6, SpentLeft
    <2> QED
        BY <2>1, <2>3, <2>4, <2>6, <2>7, EndedBooks DEF k
<1>10. CASE Exchange
    <2>1. PICK returned \in SUBSET game.racks[Me] :
            CanExchange(game, returned) /\ game' = Ended(AfterExchange(game, returned))
        BY <1>10 DEF Exchange, Entry
    <2> DEFINE k == AfterExchange(game, returned)
    <2>2. returned \in SUBSET Position /\ returned \in SUBSET game.racks[game.turn]
        BY <1>1, <2>1
    <2>3. k \in State
        BY <1>1, <2>2, AfterExchangeType
    <2>4. /\ k.racks = [game.racks EXCEPT ![game.turn] = @ \ returned]
          /\ k.pending = [game.pending EXCEPT ![game.turn] = @ + Cardinality(returned)]
          /\ k.pointer = game.pointer /\ k.turn = game.turn /\ k.step = game.step
          /\ k.ending = game.ending /\ k.mustForfeit = game.mustForfeit
          /\ k.lastPlay = NoPlay
        BY <1>1 DEF AfterExchange, State
    <2>5. k.lastPlay.by = Nobody
        BY <2>4 DEF NoPlay
    <2>6. Expected(game) = "play" /\ game.step \in {4, 5}
        BY <1>1, <2>1, PlayWaits DEF CanExchange
    <2> HIDE DEF k
    <2>7. Left(k)
        BY <1>1, <2>2, <2>4, <2>5, <2>6, SpentLeft
    <2> QED
        BY <2>1, <2>3, <2>4, <2>6, <2>7, EndedBooks DEF k
<1>11. CASE Pass
    <2> DEFINE k == AfterPass(game)
    <2>1. game' = Ended(k) /\ Expected(game) = "play"
        BY <1>11 DEF Pass, Entry
    <2>2. game.step \in {4, 5} /\ game.mustForfeit = Nobody
        BY <1>1, <1>3, <2>1, PlayWaits
    <2>3. k \in State
        BY <1>1, AfterPassType
    <2>4. /\ k.racks = game.racks /\ k.pointer = game.pointer /\ k.pending = game.pending
          /\ k.turn = game.turn /\ k.step = game.step /\ k.ending = game.ending
          /\ k.mustForfeit = game.mustForfeit /\ k.lastPlay = NoPlay
        BY <1>1 DEF AfterPass, State
    <2>5. k.lastPlay.by = Nobody
        BY <2>4 DEF NoPlay
    <2> HIDE DEF k
    <2>6. Left(k)
        BY <1>1, <2>2, <2>4, <2>5, QuietLeft
    <2> QED
        BY <2>1, <2>2, <2>3, <2>4, <2>6, EndedBooks
<1>12. CASE Challenge
    BY <1>1, <1>12, ChallengeBooks DEF Challenge, Entry
<1>13. CASE UNCHANGED vars
    BY <1>13 DEF vars
<1> QED
    BY <1>4, <1>5, <1>6, <1>7, <1>8, <1>9, <1>10, <1>11, <1>12, <1>13 DEF Next

\* Past the opening, a rack and what its holder is owed make up a full one, and a
\* player starts a turn short only if the bag is empty, whatever is put down,
\* given back, passed or taken back by a challenge.
THEOREM FullOrOwedThroughout == Spec => []FullOrOwed
<1>1. Init => Books(game)
    BY DEF Init, Setup, NoPlay, Books, Drawn, Undealt, Balanced, Disputable,
           Player, Initiator, Claimer
<1>2. TableTypeOK /\ Books(game) => FullOrOwed
    BY DEF TableTypeOK, State, Books, Balanced, Sums, FullOrOwed
<1> QED
    BY <1>1, <1>2, BooksStep, TableTypes, PTL DEF Spec
=============================================================================
