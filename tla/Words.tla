--------------------------------- MODULE Words ---------------------------------
(* A word list is compiled and a game is played with it: what the board says    *)
(* of a play meets what the dictionary says of its words. Under version 3 a     *)
(* play whose words are not all in the list is refused (the referee); under 1   *)
(* and 2 it stands until the opponent challenges it. Turns and racks are the    *)
(* business of LetrasOne and Table; here either player may always move.         *)
EXTENDS Board, TLC

CONSTANTS ALPHABET, MAX_UNITS,
          MaxWord,  \* bound: letters in a word of the list
          Played,   \* bound: the lists a game is played with
          TilesOut,  \* bound: a tile and what it reads as, as they may be put down
          MaxPlays  \* bound: plays in a game, by its rules

ASSUME WordsAssumption ==
    /\ SIZE \in Nat /\ SIZE % 2 = 1 /\ RACK \in Nat \ {0}
    /\ MaxPlays \in [{"referee", "challenge"} -> Nat]
    /\ ALPHABET = Cardinality(DOMAIN Value)

INSTANCE Dictionary

VARIABLES builder,   \* the list being compiled
          inserted,  \* history: the words put into it
          file,      \* the list as published, if it is
          rules,     \* how words are judged: by a referee or by challenge
          board,
          last_play, \* the play that may be challenged
          offered,   \* history: the words made by the plays so far
          plays

vars == <<builder, inserted, file, rules, board, last_play, offered, plays>>

Vocabulary == UNION {[1..n -> 0..(ALPHABET - 1)] : n \in 1..MaxWord}

\* A tile's letters are numbered from 1, the list's from 0.
Text(word) == [i \in DOMAIN word |-> word[i] - 1]

Spellings(after, runs) == [i \in DOMAIN runs |-> Spelled(after, runs[i])]

\* Every word a play made is in the list: nothing else is asked of a play.
EveryWordIsReal(words) ==
    /\ Parses(file[1])
    /\ \A i \in DOMAIN words : ContainsWord(file[1], Text(words[i]))

Init ==
    /\ builder = NewBuilder /\ inserted = {} /\ file = None
    /\ rules = "none"
    /\ board = EmptyBoard /\ last_play = None /\ offered = {} /\ plays = 0

Compile(word) ==
    /\ file = None
    /\ MayInsert(builder, word)
    /\ builder' = Insert(builder, word)
    /\ inserted' = inserted \cup {word}
    /\ UNCHANGED <<file, rules, board, last_play, offered, plays>>

\* The list is written out, and a game begins under one version or another.
Publish ==
    /\ file = None
    /\ inserted \in Played
    /\ Finish(builder) # None
    /\ file' = Finish(builder)
    /\ rules' \in {"referee", "challenge"}
    /\ UNCHANGED <<builder, inserted, board, last_play, offered, plays>>

Placements ==
    {[row |-> r, col |-> c, tile |-> t[1], blank_as |-> t[2]] :
        r \in 0..SIZE, c \in 0..SIZE, t \in TilesOut}

Place(ps) ==
    LET after == WithPlacements(board, ps)
        runs  == WordsFormed(board, ps)
        words == Spellings(after, runs)
    IN  /\ ValidPlacement(board, ps)
        /\ rules = "referee" => EveryWordIsReal(words)
        /\ board' = after
        /\ last_play' = Some([placements |-> ps, runs |-> runs, words |-> words,
                              score |-> ScorePlay(board, ps)])
        /\ offered' = offered \cup Range(words)
        /\ plays' = plays + 1
        /\ UNCHANGED <<builder, inserted, file, rules>>

Move ==
    /\ file # None /\ plays < MaxPlays[rules]
    /\ \E laid \in [1..RACK -> Placements] : Place(Range(laid))

\* The last play is taken back when one of its words is not in the list; right
\* or wrong, it cannot be disputed twice.
Challenge ==
    /\ rules = "challenge" /\ last_play # None
    /\ board' = IF EveryWordIsReal(last_play[1].words) THEN board
                ELSE [cell \in Cells |->
                         IF \E p \in last_play[1].placements : Cell(p) = cell
                         THEN None ELSE board[cell]]
    /\ last_play' = None
    /\ UNCHANGED <<builder, inserted, file, rules, offered, plays>>

Next ==
    \/ \E word \in Vocabulary : Compile(word)
    \/ Publish
    \/ Move
    \/ Challenge

Spec == Init /\ [][Next]_vars

------------------------------------------------------------------------------
(* What a word list promises                                                  *)

Compiled == IF file # None THEN file ELSE Finish(builder)

\* A word is found in the published list exactly when it was put in: no word
\* is lost where suffixes are folded together, and no prefix or mixture of two
\* words is found instead (build.rs insert and minimize, lib.rs contains).
ReadsBack ==
    Compiled # None =>
        /\ Parses(Compiled[1])
        /\ \A word \in Vocabulary : ContainsWord(Compiled[1], word) <=> word \in inserted

\* The graph is the smallest: two nodes that are written out differ in the
\* endings they accept (build.rs: "Two nodes with the same shape accept the
\* same suffixes and can be the same node").
Accepts(nodes, node, word) ==
    LET child(n, letter) == {e.child : e \in {e \in Range(nodes[n].edges) :
                                                  e.letter = letter}}
        end == FoldLeft(LAMBDA at, l : UNION {child(n, l) : n \in at}, {node}, word)
    IN  \E n \in end : nodes[n].terminal

SmallestGraph ==
    LET nodes == Minimize(builder, 0).nodes
        met   == Range(Order(nodes))
    IN  \A m, n \in met :
            m # n => \E word \in Vocabulary \cup {<<>>} :
                         Accepts(nodes, m, word) # Accepts(nodes, n, word)

------------------------------------------------------------------------------
(* What the board promises                                                    *)

At(r, c) == board[r * SIZE + c]
Side == 0..(SIZE - 1)

\* Every maximal line of two tiles or more, by rows and columns.
Lines ==
    {line \in [down : BOOLEAN, at : Side, from : Side, to : Side] :
        LET full(i) == i \in Side /\ (IF line.down THEN At(i, line.at)
                                      ELSE At(line.at, i)) # None
        IN  /\ line.from < line.to
            /\ \A i \in line.from..line.to : full(i)
            /\ ~full(line.from - 1) /\ ~full(line.to + 1)}

CellsOf(line) ==
    [i \in 1..(line.to - line.from + 1) |->
        IF line.down THEN (line.from + i - 1) * SIZE + line.at
        ELSE line.at * SIZE + line.from + i - 1]

\* A play is judged and scored by exactly the lines it made or made longer,
\* each of them once: a line that runs along the edge does not go on in the
\* next row, and no cross word is missed (board.rs words_formed, run_through).
JudgedByItsLines ==
    last_play # None =>
        LET runs  == last_play[1].runs
            fresh == {Cell(p) : p \in last_play[1].placements}
        IN  /\ Range(runs) = {run \in {CellsOf(line) : line \in Lines} :
                                  Range(run) \cap fresh # {}}
            /\ IsInjective(runs)

\* All that lies on the board hangs together and covers the centre, whatever
\* was challenged off it (board.rs: "must touch a tile already played").
Adjacent(c, d) ==
    \/ Row(c) = Row(d) /\ Col(c) - Col(d) \in {-1, 1}
    \/ Col(c) = Col(d) /\ Row(c) - Row(d) \in {-1, 1}

HangsTogether ==
    LET tiles == {cell \in Cells : board[cell] # None}
        wider(some) == some \cup {c \in tiles : \E d \in some : Adjacent(c, d)}
        group[n \in 0..CELLS] == IF n = 0 THEN {CENTRE} ELSE wider(group[n - 1])
    IN  tiles # {} => CENTRE \in tiles /\ group[CELLS] = tiles

\* Only a play's own words are ever judged, and yet every line on the board is
\* a word that was offered and could be disputed, and with a referee every line
\* is in the list (v3 first_unknown_word, v1 every_word_is_real).
NothingUnread ==
    \A line \in Lines :
        LET word == Spelled(board, CellsOf(line))
        IN  /\ word \in offered
            /\ rules = "referee" => Text(word) \in inserted

\* The board favours no direction: turned over in any of the eight ways, a play
\* is as legal and scores the same. (The layout "stays symmetric by
\* construction"; so must the rules that walk it.)
Turn(flip, across, down, cell) ==
    LET r == IF down THEN SIZE - 1 - Row(cell) ELSE Row(cell)
        c == IF across THEN SIZE - 1 - Col(cell) ELSE Col(cell)
    IN  IF flip THEN c * SIZE + r ELSE r * SIZE + c

NoDirection ==
    last_play # None =>
        LET ps == last_play[1].placements
            before == [cell \in Cells |-> IF \E p \in ps : Cell(p) = cell THEN None
                                          ELSE board[cell]]
        IN  \A flip, across, down \in BOOLEAN :
                LET turn(cell) == Turn(flip, across, down, cell)
                    turned == [cell \in Cells |->
                                  before[CHOOSE c \in Cells : turn(c) = cell]]
                    moved == {[p EXCEPT !.row = Row(turn(Cell(p))),
                                        !.col = Col(turn(Cell(p)))] : p \in ps}
                IN  /\ ValidPlacement(turned, moved)
                    /\ ScorePlay(turned, moved) = last_play[1].score
==============================================================================
