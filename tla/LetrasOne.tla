------------------------------ MODULE LetrasOne ------------------------------
(* The rules of version 1 (tabla-letras v1/game.rs). There is no shared        *)
(* position: each device replays the log with its own seed, knows its own rack *)
(* and counts the opponent's, and the two must still agree on everything that  *)
(* is public. A play is the tiles it puts down and whether the dictionary has  *)
(* the words it makes; where they lie is the board's business.                 *)
EXTENDS DrawStream

CONSTANTS SCORELESS_LIMIT, \* turns without a play that end the game
          MaxEntries       \* bound: entries in a log

ASSUME OneAssumption ==
    /\ Kinds \in Nat \ {0} /\ RACK \in Nat \ {0} /\ Grain \in Nat \ {0}
    /\ Supply \in [Kind -> Nat]
    /\ SCORELESS_LIMIT \in Nat \ {0} /\ MaxEntries \in Nat

VARIABLES view, \* what each player's device makes of the log
          cheat \* who has changed its own rack, if anybody

Initiator == 0
Claimer == 1
Other(p) == 1 - p

\* An optional value is a sequence of at most one.
None == <<>>
Some(x) == <<x>>
Nobody == 2
Nonce == [1..RACK -> 0..(Grain - 1)]

Setup(seed) ==
    [seed |-> seed, me |-> Nobody, index |-> 0, scores |-> <<0, 0>>,
     board |-> NoTiles, rack |-> NoTiles, opponent_tiles |-> 0,
     bag |-> TILE_TOTAL, unseen |-> Supply, draws |-> 0, my_exchanges |-> 0,
     pending |-> [p \in Player |-> IF p = Initiator THEN RACK ELSE 0],
     owed |-> [p \in Player |-> FALSE], seed_hash |-> [p \in Player |-> None],
     toss |-> [p \in Player |-> None], first |-> Nobody, published |-> 0,
     events |-> <<>>, last_play |-> None, scoreless |-> 0, ending |-> FALSE,
     went_out |-> Nobody, must_forfeit |-> Nobody,
     reveals |-> [p \in Player |-> None], verdict |-> None,
     finished |-> "no", final |-> None]

ToMove(s) == s.index % 2

Expected(s) ==
    CASE s.finished # "no" -> "Nothing"
      [] s.finished = "no" /\ s.must_forfeit = ToMove(s) -> "Forfeit"
      [] s.finished = "no" /\ s.must_forfeit # ToMove(s) ->
             CASE s.index \in {0, 1} -> "Commit"
               [] s.index = 2 -> "Toss"
               [] s.index = 3 /\ s.first = Initiator -> "Yield"
               [] s.index > 2 /\ ~(s.index = 3 /\ s.first = Initiator) ->
                      IF s.ending THEN "Reveal" ELSE "Play"

CanChallenge(s, p) ==
    /\ s.finished = "no"
    /\ s.must_forfeit = Nobody
    /\ s.last_play # None /\ s.last_play[1].by # p

\* The promise the device's own next entry has to carry.
OwedCommitment(s) ==
    IF s.me # Nobody /\ s.owed[s.me] THEN Some(RackCommitment(s.seed, s.published, s.rack))
    ELSE None

------------------------------------------------------------------------------
(* What an entry may say                                                      *)

ValidMove(s, mv, p) ==
    /\ s.finished = "no"
    /\ p = ToMove(s)
    /\ (mv.promise # None) = s.owed[p]
    /\ s.me = p => mv.promise = OwedCommitment(s)
    /\ CASE mv.type = "Challenge" -> CanChallenge(s, p)
         [] mv.type = "Toss" ->
                /\ Expected(s) = "Toss"
                /\ s.toss[Initiator] = Some(mv.half)
         [] mv.type = "Place" ->
                /\ Expected(s) = "Play"
                /\ s.me = p => Holds(s.rack, mv.tiles)
         [] mv.type = "Exchange" ->
                /\ Expected(s) = "Play"
                /\ Size(mv.masked.tiles) \in 1..RACK
                /\ s.bag >= RACK
                /\ s.me = p => Size(mv.masked.tiles) <= Size(s.rack)
         [] mv.type = "Pass" -> Expected(s) = "Play"
         [] mv.type = "Reveal" ->
                /\ Expected(s) = "Reveal"
                /\ s.seed_hash[p] = Some(mv.seed)
         [] OTHER -> Expected(s) = mv.type

------------------------------------------------------------------------------
(* What an entry does                                                         *)

\* A play that is challenged off goes back to the rack it came from: its score
\* and its refill with it. Its tiles stay forgotten.
LastPlayed(s, by) ==
    CHOOSE i \in DOMAIN s.events :
        /\ s.events[i].type = "Played" /\ s.events[i].player = by
        /\ \A j \in DOMAIN s.events :
               (s.events[j].type = "Played" /\ s.events[j].player = by) => j <= i

Retract(s, play) ==
    LET mine == s.me = play.by
        back == s.went_out = play.by
    IN  [s EXCEPT
           !.board = Without(@, play.tiles),
           !.scores[play.by + 1] = @ - play.score,
           !.pending[play.by] = 0,
           !.rack = IF mine THEN Both(@, play.tiles) ELSE @,
           !.opponent_tiles = IF mine THEN @ ELSE @ + Size(play.tiles),
           !.events[LastPlayed(s, play.by)].type = "Seen",
           !.went_out = IF back THEN Nobody ELSE @,
           !.ending = IF back THEN FALSE ELSE @,
           !.must_forfeit = play.by]

Due(s, p) == IF s.pending[p] > s.bag THEN s.bag ELSE s.pending[p]

\* A slip: what is dealt is taken off the bag only by who draws it.
RefillOwnBag(s, p, nonce) ==
    LET count == Due(s, p)
    IN  [s EXCEPT !.pending[p] = 0, !.owed[p] = count > 0,
                  !.bag = IF s.me = p THEN @ - count ELSE @,
                  !.opponent_tiles = IF s.me = p THEN @ ELSE @ + count]

Refilled(s, p, nonce, count, got) ==
    LET mine == s.me = p
    IN  [s EXCEPT
           !.pending[p] = 0, !.bag = @ - count, !.owed[p] = TRUE,
           !.rack = IF mine THEN Both(@, got.tiles) ELSE @,
           !.unseen = IF mine THEN got.pool ELSE @,
           !.draws = IF mine THEN @ + Size(got.tiles) ELSE @,
           !.opponent_tiles = IF mine THEN @ ELSE @ + count,
           !.events = Append(@, [type |-> "Draw", player |-> p,
                                 nonce |-> nonce, count |-> count])]

\* What a player is owed is dealt against the opponent's next entry.
Refill(s, p, nonce) ==
    IF Due(s, p) = 0 THEN [s EXCEPT !.pending[p] = 0]
    ELSE Refilled(s, p, nonce, Due(s, p), Draw(nonce, s.draws, Due(s, p), s.unseen))

Publish(s, p, promise) ==
    IF promise = None THEN s
    ELSE [s EXCEPT !.published = IF s.me = p THEN @ + 1 ELSE @, !.owed[p] = FALSE,
                   !.events = Append(@, [type |-> "Commitment", player |-> p,
                                         hash |-> promise[1]])]

Commit(s, mv, p) ==
    [s EXCEPT !.seed_hash[p] = Some(mv.seed), !.toss[p] = Some(mv.half),
              !.me = IF mv.seed = s.seed THEN p ELSE @,
              !.pending[Claimer] = IF p = Claimer THEN RACK ELSE @]

Toss(s, mv) == [s EXCEPT !.first = FirstPlayer(mv.half, s.toss[Claimer][1])]

SaturatingSub(a, b) == IF b > a THEN 0 ELSE a - b

\* Tiles go down: out of the own rack, or out of what may still be drawn.
Place(s, mv, p) ==
    LET mine == s.me = p
        score == RackValue(mv.tiles)
        play == [by |-> p, tiles |-> mv.tiles, real |-> mv.real, score |-> score]
    IN  [s EXCEPT
           !.board = Both(@, mv.tiles), !.scores[p + 1] = @ + score,
           !.rack = IF mine THEN Without(@, mv.tiles) ELSE @,
           !.opponent_tiles = IF mine THEN @ ELSE SaturatingSub(@, Size(mv.tiles)),
           !.unseen = IF mine THEN @ ELSE Forget(@, mv.tiles),
           !.last_play = Some(play), !.pending[p] = Size(mv.tiles),
           !.events = Append(@, [type |-> "Played", player |-> p, tiles |-> mv.tiles]),
           !.scoreless = 0]

\* Tiles go back to the own pool; the bag is no smaller than it was.
Exchange(s, mv, p) ==
    LET mine == s.me = p
        count == Size(mv.masked.tiles)
    IN  [s EXCEPT
           !.rack = IF mine THEN Without(@, mv.masked.tiles) ELSE @,
           !.unseen = IF mine THEN Both(@, mv.masked.tiles) ELSE @,
           !.my_exchanges = IF mine THEN @ + 1 ELSE @,
           !.opponent_tiles = IF mine THEN @ ELSE SaturatingSub(@, count),
           !.bag = @ + count, !.pending[p] = count,
           !.events = Append(@, [type |-> "Exchanged", player |-> p, masked |-> mv.masked]),
           !.scoreless = @ + 1, !.last_play = None]

Scoreless(s) == [s EXCEPT !.scoreless = @ + 1, !.last_play = None]

Forfeit(s) == [Scoreless(s) EXCEPT !.must_forfeit = Nobody]

\* Once both racks are open: the audit first, then the scores.
Winner(a, b) == IF a > b THEN "initiator" ELSE IF b > a THEN "claimer" ELSE "draw"

FinalScores(s) ==
    LET held(p) == RackValue(s.reveals[p][1].rack)
        gain(p) == IF s.went_out = p THEN held(Other(p))
                   ELSE -held(p)
    IN  <<s.scores[1] + gain(Initiator), s.scores[2] + gain(Claimer)>>

Verdict(s) ==
    [p \in Player |-> Finding(p, s.events, s.reveals[p][1], s.seed_hash[p][1])]

Decided(s, verdict, final) ==
    LET passed(p) == verdict[p] = "none"
    IN  [s EXCEPT
           !.verdict = Some(verdict),
           !.final = IF passed(Initiator) /\ passed(Claimer) THEN Some(final) ELSE None,
           !.finished = CASE passed(Initiator) /\ passed(Claimer) -> Winner(final[1], final[2])
                          [] passed(Initiator) /\ ~passed(Claimer) -> "initiator"
                          [] ~passed(Initiator) /\ passed(Claimer) -> "claimer"
                          [] ~passed(Initiator) /\ ~passed(Claimer) -> "draw"]

Settle(s) ==
    IF None \in {s.reveals[p] : p \in Player} THEN s
    ELSE Decided(s, Verdict(s), FinalScores(s))

Reveal(s, mv, p) ==
    Settle([s EXCEPT !.reveals[p] = Some([seed |-> mv.seed, rack |-> mv.rack]),
                     !.unseen = IF s.me = p THEN @ ELSE Forget(@, mv.rack)])

CheckEnding(s, p) ==
    LET held == IF s.me = p THEN Size(s.rack) ELSE s.opponent_tiles
    IN  CASE s.ending -> s
          [] ~s.ending /\ s.scoreless >= SCORELESS_LIMIT -> [s EXCEPT !.ending = TRUE]
          [] ~s.ending /\ ~(s.scoreless >= SCORELESS_LIMIT) ->
                 IF s.bag = 0 /\ held = 0
                 THEN [s EXCEPT !.ending = TRUE, !.went_out = p] ELSE s

\* A challenge is settled before the refill it may cancel.
Settled(s, mv) ==
    IF mv.type = "Challenge" /\ ~s.last_play[1].real THEN Retract(s, s.last_play[1]) ELSE s

Dealt(s, mv, p) == Publish(Refill(s, Other(p), mv.nonce), p, mv.promise)

Done(s, mv, p) ==
    CASE mv.type = "Commit" -> Commit(s, mv, p)
      [] mv.type = "Toss" -> Toss(s, mv)
      [] mv.type = "Yield" -> s
      [] mv.type = "Place" -> Place(s, mv, p)
      [] mv.type = "Exchange" -> Exchange(s, mv, p)
      [] mv.type \in {"Pass", "Challenge"} -> Scoreless(s)
      [] mv.type = "Forfeit" -> Forfeit(s)
      [] mv.type = "Reveal" -> Reveal(s, mv, p)

ApplyMove(s, mv) ==
    LET p == ToMove(s)
    IN  [CheckEnding(Done(Dealt(Settled(s, mv), mv, p), mv, p), p) EXCEPT !.index = @ + 1]

------------------------------------------------------------------------------
(* The two devices                                                            *)

\* What a device says by itself.
Automatic(s, p) ==
    CASE Expected(s) = "Commit" ->
             {[type |-> "Commit", seed |-> s.seed, half |-> FirstEntropy(s.seed)]}
      [] Expected(s) = "Toss" -> {[type |-> "Toss", half |-> FirstEntropy(s.seed)]}
      [] Expected(s) \in {"Yield", "Forfeit"} -> {[type |-> Expected(s)]}
      [] Expected(s) = "Reveal" -> {[type |-> "Reveal", seed |-> s.seed, rack |-> s.rack]}
      [] OTHER -> {}

\* Some of the tiles of a rack.
Part(rack) == {t \in [Kind -> 0..RACK] : Holds(rack, t)} \ {NoTiles}

\* What its player may choose.
Choice(s) ==
    [type : {"Place"}, tiles : Part(s.rack), real : BOOLEAN]
        \cup {[type |-> "Exchange", masked |-> Mask(s.seed, s.my_exchanges, t)] : t \in Part(s.rack)}
        \cup [type : {"Pass", "Challenge"}]

\* A nonce is fresh; one that deals nothing need not be told from another.
Fresh(s, p) == IF s.pending[Other(p)] = 0 THEN {[i \in 1..RACK |-> 0]} ELSE Nonce

\* An action goes out with a nonce, and with the promise its player owes.
Move(action, nonce, promise) ==
    [field \in DOMAIN action \cup {"nonce", "promise"} |->
        CASE field = "nonce" -> nonce
          [] field = "promise" -> promise
          [] OTHER -> action[field]]

Signed(s, p) ==
    {Move(action, nonce, OwedCommitment(s)) :
        action \in Automatic(s, p) \cup Choice(s), nonce \in Fresh(s, p)}

OneInit ==
    /\ \E halves \in [Player -> {0, 1}] :
         view = [p \in Player |-> Setup([owner |-> p, half |-> halves[p]])]
    /\ cheat = Nobody

\* The device whose turn it is signs an entry its rules accept; both replay it
\* (a device whose rules refuse it stays where it is).
Enter(p) ==
    /\ ToMove(view[p]) = p
    /\ view[p].index < MaxEntries
    /\ \E mv \in Signed(view[p], p) :
         /\ ValidMove(view[p], mv, p)
         /\ view' = [d \in Player |-> IF ValidMove(view[d], mv, p)
                                      THEN ApplyMove(view[d], mv) ELSE view[d]]
    /\ UNCHANGED cheat

\* A device's own rack is a number it keeps to itself: it may come to hold
\* other tiles than it was dealt.
Swap(p) ==
    /\ cheat = Nobody /\ view[p].me = p /\ Expected(view[p]) = "Play"
    /\ \E rack \in [Kind -> 0..RACK] :
         /\ Size(rack) = Size(view[p].rack) /\ rack # view[p].rack
         /\ view' = [view EXCEPT ![p].rack = rack]
    /\ cheat' = p

OneNext == \E p \in Player : Enter(p) \/ Swap(p)

OneSpec == OneInit /\ [][OneNext]_<<view, cheat>>

------------------------------------------------------------------------------
(* Properties                                                                 *)

\* What both players are shown.
Public(s) == <<s.index, s.scores, s.bag, s.pending, s.owed, s.first, s.scoreless, s.ending,
               s.went_out, s.must_forfeit, s.events, s.last_play, s.finished, s.final, s.verdict>>

\* The tiles of a player that were taken back by challenges.
TakenBack(p) ==
    LET events == view[Initiator].events
        back == [i \in DOMAIN events |->
                    IF events[i].type = "Seen" /\ events[i].player = p
                    THEN Size(events[i].tiles) ELSE 0]
    IN  SumUpTo(back, Len(events))

\* The devices never differ in what is public (game.rs:3-5): whose turn it is,
\* the scores, the bag, whether somebody went out, the verdict; each counts the
\* tiles of the other rightly, and neither refuses what the other signs.
SameConclusions ==
    /\ Public(view[Initiator]) = Public(view[Claimer])
    /\ \A p \in Player : view[p].opponent_tiles = Size(view[Other(p)].rack)

\* They agree as long as no more than a rack of anybody's tiles has been taken
\* back: a pool that forgets a tile each time it is put down still covers the bag.
SameUntilTakenBack == (\A p \in Player : TakenBack(p) <= RACK) => SameConclusions

\* The audit at the end clears a player if and only if it played the tiles it
\* was dealt, whatever was challenged off, exchanged or left over.
AuditNamesTheCheat ==
    \A d \in Player : view[d].verdict # None =>
        \A p \in Player : (view[d].verdict[1][p] = "none") = (cheat # p)
==============================================================================
