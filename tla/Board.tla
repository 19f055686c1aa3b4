--------------------------------- MODULE Board ---------------------------------
(* The board of every version of the rules (tabla-letras board.rs): the        *)
(* premium squares, what a legal placement is, the words it makes and what it  *)
(* scores. Squares are numbered in reading order, and a line is walked by      *)
(* adding to the number, so its ends are where the edge of the board is.       *)
EXTENDS Integers, Sequences, FiniteSets, SequencesExt, FiniteSetsExt, Functions

CONSTANTS SIZE,        \* squares on a side, an odd number
          RACK,        \* tiles on a full rack
          OCTANT,      \* <<row, column, premium>> for one eighth of the board
          Value,       \* what each letter counts
          BINGO_BONUS  \* for a whole rack at once

CELLS == SIZE * SIZE
Cells == 0..(CELLS - 1)
CENTRE == (SIZE \div 2) * SIZE + SIZE \div 2
BLANK == 0
Letters == DOMAIN Value

\* An optional value is a sequence of at most one.
None == <<>>
Some(x) == <<x>>

Row(cell) == cell \div SIZE
Col(cell) == cell % SIZE

------------------------------------------------------------------------------
(* Premium squares                                                            *)

\* A slip: the octant is mirrored, and never turned over its diagonal.
OrbitNotTurned(r, c) ==
    LET last == SIZE - 1
    IN  {<<r, c>>, <<r, last - c>>, <<last - r, c>>, <<last - r, last - c>>}

\* The eight reflections of a square of the octant.
Orbit(r, c) ==
    LET last == SIZE - 1
    IN  {<<r, c>>, <<r, last - c>>, <<last - r, c>>, <<last - r, last - c>>,
         <<c, r>>, <<c, last - r>>, <<last - c, r>>, <<last - c, last - r>>}

\* No two squares of the octant share an orbit, so there is one kind at most.
Premium(cell) ==
    LET kinds == {o[3] : o \in {o \in OCTANT :
                                    <<Row(cell), Col(cell)>> \in Orbit(o[1], o[2])}}
    IN  IF kinds = {} THEN "None" ELSE CHOOSE kind \in kinds : TRUE

LetterMultiplier(premium) ==
    CASE premium = "DoubleLetter" -> 2
      [] premium = "TripleLetter" -> 3
      [] OTHER -> 1

WordMultiplier(premium) ==
    CASE premium \in {"DoubleWord", "Start"} -> 2
      [] premium = "TripleWord" -> 3
      [] OTHER -> 1

------------------------------------------------------------------------------
(* Tiles                                                                      *)

\* A tile going down: where, which tile, and what a blank reads as.
Cell(p) == p.row * SIZE + p.col

\* A blank needs a letter, and a letter cannot claim to be one.
Placed(p) ==
    CASE p.tile = BLANK /\ p.blank_as # None /\ p.blank_as[1] \in Letters ->
             Some([letter |-> p.blank_as[1], blank |-> TRUE])
      [] p.tile \in Letters /\ p.blank_as = None ->
             Some([letter |-> p.tile, blank |-> FALSE])
      [] OTHER -> None

TileScore(placed) == IF placed.blank THEN 0 ELSE Value[placed.letter]

EmptyBoard == [cell \in Cells |-> None]

WithPlacements(board, ps) ==
    [cell \in Cells |->
        IF \E p \in ps : Cell(p) = cell
        THEN Placed(CHOOSE p \in ps : Cell(p) = cell) ELSE board[cell]]

------------------------------------------------------------------------------
(* Whether a placement is legal. What it spells is not asked.                 *)

\* A slip: the square before the first of a row is the last of the row above.
TouchesRoundTheEdge(board, cell) ==
    \E step \in {-SIZE, SIZE, -1, 1} :
        cell + step \in Cells /\ board[cell + step] # None

Touches(board, cell) ==
    \/ Row(cell) > 0 /\ board[cell - SIZE] # None
    \/ Row(cell) + 1 < SIZE /\ board[cell + SIZE] # None
    \/ Col(cell) > 0 /\ board[cell - 1] # None
    \/ Col(cell) + 1 < SIZE /\ board[cell + 1] # None

SameRow(ps) == \A p, q \in ps : p.row = q.row
SameCol(ps) == \A p, q \in ps : p.col = q.col

\* Between the first tile and the last, every square is filled.
NoGap(board, ps) ==
    LET cells == {Cell(p) : p \in ps}
        step  == IF SameRow(ps) THEN 1 ELSE SIZE
    IN  \A at \in Min(cells)..Max(cells) :
            (at - Min(cells)) % step = 0 => at \in cells \/ board[at] # None

ValidPlacement(board, ps) ==
    LET cells == {Cell(p) : p \in ps}
    IN  /\ Cardinality(ps) \in 1..RACK
        /\ \A p \in ps : /\ p.row < SIZE /\ p.col < SIZE
                         /\ Placed(p) # None
                         /\ board[Cell(p)] = None
        /\ Cardinality(cells) = Cardinality(ps)
        /\ SameRow(ps) \/ SameCol(ps)
        /\ NoGap(board, ps)
        /\ IF board = EmptyBoard THEN CENTRE \in cells /\ Cardinality(ps) > 1
           ELSE \E cell \in cells : Touches(board, cell)

------------------------------------------------------------------------------
(* The words a play makes, and its score                                      *)

\* How far the tiles go on from a square, within so many steps.
Reach(board, cell, step, limit) ==
    Max({k \in 0..limit : \A j \in 1..k : board[cell + j * step] # None})

\* A slip: a run stops only where the tiles do.
RunOverTheEdge(board, cell, step) ==
    LET back == Reach(board, cell, -step, cell \div step)
        on   == Reach(board, cell, step, (CELLS - 1 - cell) \div step)
    IN  IF back + on = 0 THEN <<>>
        ELSE [i \in 1..(back + on + 1) |-> cell + (i - 1 - back) * step]

\* The unbroken run through a square, as its squares; one tile is no word.
RunThrough(board, cell, step) ==
    LET before == IF step = 1 THEN Col(cell) ELSE Row(cell)
        back   == Reach(board, cell, -step, before)
        on     == Reach(board, cell, step, SIZE - 1 - before)
    IN  IF back + on = 0 THEN <<>>
        ELSE [i \in 1..(back + on + 1) |-> cell + (i - 1 - back) * step]

\* Squares in reading order.
InOrder(squares) ==
    CHOOSE s \in [1..Cardinality(squares) -> squares] :
        \A i, j \in DOMAIN s : i < j => s[i] < s[j]

\* The runs that are words, in the order they were found.
Kept(runs) ==
    LET kept[i \in 0..Len(runs)] ==
            IF i = 0 THEN <<>>
            ELSE IF runs[i] = <<>> THEN kept[i - 1] ELSE Append(kept[i - 1], runs[i])
    IN  kept[Len(runs)]

\* A slip: the cross words are looked for along the line too.
WordsOneWay(board, ps) ==
    LET after == WithPlacements(board, ps)
        cells == InOrder({Cell(p) : p \in ps})
    IN  Kept(<<RunThrough(after, cells[1], 1)>>
             \o [i \in DOMAIN cells |-> RunThrough(after, cells[i], SIZE)])

\* The word along the line played, and the cross word of every tile.
WordsFormed(board, ps) ==
    LET after == WithPlacements(board, ps)
        cells == InOrder({Cell(p) : p \in ps})
        along == Len(cells) = 1 \/ cells[2] - cells[1] < SIZE
        main  == IF along THEN 1 ELSE SIZE
        cross == IF along THEN SIZE ELSE 1
    IN  Kept(<<RunThrough(after, cells[1], main)>>
             \o [i \in DOMAIN cells |-> RunThrough(after, cells[i], cross)])

Spelled(board, run) == [i \in DOMAIN run |-> board[run[i]][1].letter]

\* A premium counts once, for the tile that lands on it.
ScoreRun(after, fresh, run) ==
    LET letter(cell) ==
            TileScore(after[cell][1])
                * (IF cell \in fresh THEN LetterMultiplier(Premium(cell)) ELSE 1)
        word(cell) == IF cell \in fresh THEN WordMultiplier(Premium(cell)) ELSE 1
    IN  FoldLeft(LAMBDA sum, cell : sum + letter(cell), 0, run)
            * FoldLeft(LAMBDA by, cell : by * word(cell), 1, run)

ScorePlay(board, ps) ==
    LET after == WithPlacements(board, ps)
        fresh == {Cell(p) : p \in ps}
    IN  FoldLeft(LAMBDA total, run : total + ScoreRun(after, fresh, run),
                 0, WordsFormed(board, ps))
            + (IF Cardinality(ps) = RACK THEN BINGO_BONUS ELSE 0)
==============================================================================
