------------------------------- MODULE Letras -------------------------------
(***************************************************************************)
(* The course of the word game, versions 2 and 3 of its rules:              *)
(* rust/crates/tabla-letras/src/v2/game.rs and v3/game.rs.                  *)
(*                                                                          *)
(* The rules are pure: a state, a legal move, the next state.  A rack is    *)
(* the positions of the deck a player holds.  Where on the board a play     *)
(* goes, the letters, the words and the points are left out; of a play only *)
(* the positions it spends remain and, for the challenge of version 2,      *)
(* whether its words are real.  In version 3 a play of unreal words is not  *)
(* legal, so every play there is real.                                      *)
(***************************************************************************)
EXTENDS Tiles

CONSTANTS
    Versions,           \* of the rules, that a game may be under
    SCORELESS_LIMIT     \* turns in a row without a play that end the game

ASSUME RulesAssumption == Versions \subseteq {2, 3} /\ SCORELESS_LIMIT \in Nat \ {0}

Nobody == -1

NoPlay == [by |-> Nobody, spent |-> {}, real |-> TRUE]

Untossed == {-1}

\* Past the opening only the parity of move_index matters, so it is kept as the
\* step of the opening reached and the player to move.
State ==
    [version : Versions,
     step : 0 .. 5,                         \* how far the opening is, 5 once over
     turn : Player,                         \* whose entry is next
     toss : [Player -> SUBSET (Position \cup {-1})],
     first : Player \cup {Nobody},          \* who opens, once tossed
     racks : [Player -> SUBSET Position],
     pointer : 0 .. TILE_TOTAL,             \* the next position to be dealt
     pending : [Player -> Nat],              \* positions a player is owed
     lastPlay : [by : Player \cup {Nobody}, spent : SUBSET Position, real : BOOLEAN],
     scoreless : Nat,
     ending : BOOLEAN, wentOut : Player \cup {Nobody},
     mustForfeit : Player \cup {Nobody},
     opened : SUBSET Player,                \* whose rack has been opened
     finished : BOOLEAN]

Setup(version) ==
    [version |-> version, step |-> 0, turn |-> Initiator, toss |-> [p \in Player |-> Untossed],
     first |-> Nobody, racks |-> [p \in Player |-> {}], pointer |-> 0,
     pending |-> [p \in Player |-> 0],
     lastPlay |-> NoPlay, scoreless |-> 0, ending |-> FALSE, wentOut |-> Nobody,
     mustForfeit |-> Nobody, opened |-> {}, finished |-> FALSE]

\* What the game is waiting for.
Expected(g) ==
    CASE g.finished -> "nothing"
      [] ~g.finished /\ g.mustForfeit = g.turn -> "forfeit"
      [] OTHER ->
            CASE g.step \in {0, 1} -> "key"
              [] g.step = 2 -> "shuffle"
              [] g.step = 3 -> "deal"
              [] g.step = 4 /\ g.first = Claimer -> "yield"
              [] OTHER -> IF g.ending THEN "open" ELSE "play"

InBag(g) == TILE_TOTAL - g.pointer

Least(a, b) == IF a < b THEN a ELSE b

\* A slip: more than the bag holds.
OwedInFull(g, p) == g.pending[Other(p)]

\* How many positions a player hands the other with their next entry.
Owed(g, p) == Least(g.pending[Other(p)], InBag(g))

\* A slip: at any time.
ToOpenAlways(g, p) == IF p \in g.opened THEN {} ELSE g.racks[p]

\* The positions a player has to open now the game is ending.
ToOpen(g, p) == IF ~g.ending \/ p \in g.opened THEN {} ELSE g.racks[p]

-----------------------------------------------------------------------------
(* Which moves are legal for the player to move.                             *)

CanPlace(g, spent) ==
    /\ Expected(g) = "play"
    /\ spent # {} /\ spent \subseteq g.racks[g.turn]

CanExchange(g, returned) ==
    /\ Expected(g) = "play"
    /\ returned # {} /\ returned \subseteq g.racks[g.turn]
    /\ Cardinality(returned) <= RACK
    /\ InBag(g) >= RACK

CanShuffle(g, half) == Expected(g) = "shuffle" /\ g.toss[Initiator] = half

CanOpen(g, named) == Expected(g) = "open" /\ named = g.racks[g.turn]

\* Version 2: what the opponent has just played may be disputed.
CanChallenge(g) ==
    g.version = 2 /\ ~g.finished /\ g.lastPlay.by = Other(g.turn)

-----------------------------------------------------------------------------
(* What each move does, before the end of the entry.                         *)

\* The claimer is owed an opening rack from here: the entry that deals it is
\* built before its own move is applied.
AfterKey(g, half) ==
    [g EXCEPT !.toss[g.turn] = half,
              !.pending[Claimer] = IF g.turn = Claimer THEN RACK ELSE @]

AfterShuffle(g, first) == [g EXCEPT !.first = first, !.pending[Initiator] = RACK]

AfterForfeit(g) == [g EXCEPT !.mustForfeit = Nobody]

\* A slip: not counted.
AfterPassFree(g) == [g EXCEPT !.lastPlay = NoPlay]

AfterPass(g) == [g EXCEPT !.scoreless = @ + 1, !.lastPlay = NoPlay]

\* Nothing but the challenge reads what the last play was.
AfterPlace(g, spent, real) ==
    [g EXCEPT !.racks[g.turn] = @ \ spent,
              !.pending[g.turn] = @ + Cardinality(spent),
              !.scoreless = 0,
              !.lastPlay = IF g.version = 2 THEN [by |-> g.turn, spent |-> spent, real |-> real]
                                          ELSE NoPlay]

\* A slip: what is given back is not replaced.
AfterExchangeLoses(g, returned) ==
    [g EXCEPT !.racks[g.turn] = @ \ returned, !.scoreless = @ + 1, !.lastPlay = NoPlay]

AfterExchange(g, returned) ==
    [g EXCEPT !.racks[g.turn] = @ \ returned,
              !.pending[g.turn] = @ + Cardinality(returned),
              !.scoreless = @ + 1,
              !.lastPlay = NoPlay]

AfterOpen(g) == [g EXCEPT !.opened = @ \cup {g.turn}]

\* A play that was no word comes off the board, with the refill it had earned.
TakenBack(g) ==
    LET them == g.lastPlay.by
        owed == g.pending[them] - Cardinality(g.lastPlay.spent)
    IN  [g EXCEPT !.racks[them] = @ \cup g.lastPlay.spent,
                  !.pending[them] = IF owed < 0 THEN 0 ELSE owed,
                  !.mustForfeit = them]

AfterChallenge(g) ==
    [(IF g.lastPlay.real THEN g ELSE TakenBack(g)) EXCEPT
        !.scoreless = @ + 1, !.lastPlay = NoPlay]

-----------------------------------------------------------------------------
(* The end of every entry: the other player is handed what they are owed,    *)
(* the game may start ending, or be over.                                    *)

\* A slip: the opponent's rack is filled whatever the bag holds.
HandedInFull(g) ==
    LET them == Other(g.turn)
        owed == g.pending[them]
    IN  [g EXCEPT !.racks[them] = @ \cup Positions(g.pointer, Owed(g, g.turn)),
                  !.pointer = @ + owed,
                  !.pending[them] = 0]

Handed(g) ==
    LET them == Other(g.turn)
        owed == Owed(g, g.turn)
    IN  [g EXCEPT !.racks[them] = @ \cup Positions(g.pointer, owed),
                  !.pointer = @ + owed,
                  !.pending[them] = @ - owed]

\* A slip: with tiles left to draw.
PlayedOutEarly(g) == g.racks[g.turn] = {}

PlayedOut(g) == g.racks[g.turn] = {} /\ InBag(g) = 0

Checked(g) ==
    [g EXCEPT !.ending = @ \/ PlayedOut(g) \/ g.scoreless >= SCORELESS_LIMIT,
              !.wentOut = IF PlayedOut(g) THEN g.turn ELSE @]

Settled(g) == [g EXCEPT !.finished = @ \/ g.opened = Player]

Advanced(g) == [g EXCEPT !.step = Least(@ + 1, 5), !.turn = Other(@)]

Ended(g) == Advanced(Settled(Checked(Handed(g))))

\* A challenge that succeeds hands nothing over, and no challenge ends the game.
ChallengeEnded(g, upheld) == Advanced(Settled(IF upheld THEN g ELSE Handed(g)))
=============================================================================
