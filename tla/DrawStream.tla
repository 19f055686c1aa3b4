------------------------------ MODULE DrawStream ------------------------------
(* Where the tiles of version 1 come from, and the check of it afterwards     *)
(* (tabla-letras v1/draw.rs and v1/audit.rs). Each player draws from a stream *)
(* of its own: SHA-256 of its seed, the nonce of the opponent's entry and the *)
(* index of the tile. A hash is ideal: a commitment is the committed value, a *)
(* mask is taken off only by the key that put it on, and what a nonce decides *)
(* is written into the nonce.                                                 *)
EXTENDS Integers, Sequences, Functions

CONSTANTS Kinds,  \* the kinds of tile are 1..Kinds
          Supply, \* how many tiles of each kind the bag starts with
          RACK,   \* tiles on a full rack
          Grain   \* a hash takes one of this many values

Kind == 1..Kinds
Player == {0, 1}

------------------------------------------------------------------------------
(* Tiles are counted by kind.                                                 *)

NoTiles == [k \in Kind |-> 0]

\* The sum of the first n values.
SumUpTo(f, n) ==
    LET sum[i \in 0..n] == IF i = 0 THEN 0 ELSE sum[i - 1] + f[i]
    IN  sum[n]

Size(tiles) == SumUpTo(tiles, Kinds)
Both(a, b) == [k \in Kind |-> a[k] + b[k]]
Without(a, b) == [k \in Kind |-> a[k] - b[k]]
Holds(rack, tiles) == \A k \in Kind : tiles[k] <= rack[k]

\* Tiles seen elsewhere leave the pool, if they are still in it.
Forget(pool, tiles) ==
    [k \in Kind |-> IF tiles[k] > pool[k] THEN 0 ELSE pool[k] - tiles[k]]

TILE_TOTAL == Size(Supply)

\* What tiles count at the end: the kind is the value.
RackValue(tiles) == FoldFunctionOnSet(+, 0, [k \in Kind |-> k * tiles[k]], Kind)

------------------------------------------------------------------------------
(* Draws                                                                      *)

\* The number a hash of seed, nonce and index gives; consecutive tiles of one
\* draw have hashes of their own.
Hash(nonce, index) == nonce[1 + (index % RACK)]

\* Multiply-shift: uniform over the tiles left.
DrawOne(nonce, index, pool) ==
    LET pick == (Hash(nonce, index) * Size(pool)) \div Grain
    IN  CHOOSE k \in Kind : LET below == SumUpTo(pool, k - 1)
                            IN  below <= pick /\ pick < below + pool[k]

Moved(got, k) == [tiles |-> [got.tiles EXCEPT ![k] = @ + 1],
                  pool  |-> [got.pool EXCEPT ![k] = @ - 1]]

\* An empty pool ends the draw early.
DrawNext(got, nonce, index) ==
    IF Size(got.pool) = 0 THEN got ELSE Moved(got, DrawOne(nonce, index, got.pool))

\* Up to count tiles.
Draw(nonce, from, count, pool) ==
    LET got[i \in 0..count] ==
            IF i = 0 THEN [tiles |-> NoTiles, pool |-> pool]
            ELSE DrawNext(got[i - 1], nonce, from + i - 1)
    IN  got[count]

\* A promise about a rack: the salt is the owner's and counts its promises.
RackCommitment(seed, index, rack) == [seed |-> seed, index |-> index, rack |-> rack]

\* Which tiles are exchanged is masked by the owner's keystream.
Mask(seed, index, tiles) == [key |-> <<seed, index>>, tiles |-> tiles]
Unmasks(seed, index, masked) == masked.key = <<seed, index>>

\* Who opens the game, from both halves of the toss.
FirstEntropy(seed) == seed.half
FirstPlayer(initiator, claimer) == (initiator + claimer) % 2

------------------------------------------------------------------------------
(* The audit: both devices rebuild both games from the public events.         *)

AuditStart == [pool |-> Supply, rack |-> NoTiles, draws |-> 0, promises |-> 0,
               exchanges |-> 0, finding |-> "none"]

Found(a, what) == [a EXCEPT !.finding = what]

AuditDrawn(a, got) ==
    [a EXCEPT !.pool = got.pool, !.draws = @ + Size(got.tiles),
              !.rack = Both(@, got.tiles)]
AuditDraw(a, e) == AuditDrawn(a, Draw(e.nonce, a.draws, e.count, a.pool))

\* A slip: a play that was challenged off spends its tiles too.
AuditPlayedSpends(a, e) ==
    IF ~Holds(a.rack, e.tiles) THEN Found(a, "TilesNotHeld")
    ELSE [a EXCEPT !.rack = Without(@, e.tiles)]

\* An own play spends tiles; one that was challenged off only has to be held.
AuditPlayed(a, e) ==
    IF ~Holds(a.rack, e.tiles) THEN Found(a, "TilesNotHeld")
    ELSE IF e.type = "Seen" THEN a
    ELSE [a EXCEPT !.rack = Without(@, e.tiles)]

AuditExchanged(a, e, seed) ==
    IF ~Unmasks(seed, a.exchanges, e.masked) THEN Found(a, "NotTiles")
    ELSE IF ~Holds(a.rack, e.masked.tiles) THEN Found(a, "TilesNotHeld")
    ELSE [a EXCEPT !.exchanges = @ + 1, !.rack = Without(@, e.masked.tiles),
                   !.pool = Both(@, e.masked.tiles)]

AuditCommitment(a, e, seed) ==
    IF e.hash # RackCommitment(seed, a.promises, a.rack) THEN Found(a, "BrokenPromise")
    ELSE [a EXCEPT !.promises = @ + 1]

AuditEvent(a, e, player, seed) ==
    IF a.finding # "none" THEN a
    ELSE CASE e.player # player /\ e.type \in {"Played", "Seen"} ->
                  [a EXCEPT !.pool = Forget(@, e.tiles)]
           [] e.player = player /\ e.type \in {"Played", "Seen"} -> AuditPlayed(a, e)
           [] e.player = player /\ e.type = "Draw" -> AuditDraw(a, e)
           [] e.player = player /\ e.type = "Exchanged" -> AuditExchanged(a, e, seed)
           [] e.player = player /\ e.type = "Commitment" -> AuditCommitment(a, e, seed)
           [] OTHER -> a

AuditEnd(player, events, seed) ==
    LET after[i \in 0..Len(events)] ==
            IF i = 0 THEN AuditStart
            ELSE AuditEvent(after[i - 1], events[i], player, seed)
    IN  after[Len(events)]

\* What the check of one player finds, given the seed and rack it revealed.
Finding(player, events, revealed, committed) ==
    LET end == AuditEnd(player, events, revealed.seed)
    IN  IF revealed.seed # committed THEN "WrongSeed"
        ELSE IF end.finding # "none" THEN end.finding
        ELSE IF end.rack # revealed.rack THEN "WrongFinalRack"
        ELSE "none"
==============================================================================
