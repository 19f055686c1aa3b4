----------------------------- MODULE WordsProofs ------------------------------
(***************************************************************************)
(* What TLAPS proves of Words, for any odd size of board, any rack, any     *)
(* premium squares and any list: that the tiles on the board hang together, *)
(* that a play is judged by exactly the lines it made, and that no line is  *)
(* on the board that was not judged.                                        *)
(*                                                                          *)
(* That tiles hang together is kept as a closure: a set of them with the    *)
(* centre in it that takes in its neighbours is all of them. A play is such *)
(* a set when what was there was one and the play touches it, for a closed  *)
(* set spreads along the line of the play; and what is challenged off was   *)
(* joined to a board that hung together without it.                         *)
(*                                                                          *)
(* The code finds words by walking from each square of a play by adding to  *)
(* its number, once along the line and once across; the property speaks of  *)
(* lines by row and column. The lemmas put the two together: the run        *)
(* through a square is the line through it, and the line is the run through *)
(* each of its squares, so that the words of a play are the lines that meet *)
(* it, and none is found twice.                                             *)
(***************************************************************************)
EXTENDS Words, FiniteSetTheorems, SequenceTheorems, WellFoundedInduction, TLAPS

\* A set of naturals with something in it has a least element.
LEMMA LeastElement ==
    ASSUME NEW T, T \subseteq Nat, T # {}
    PROVE  \E n \in T : \A m \in T : n <= m
<1>1. IsWellFoundedOn(OpToRel(<, Nat), Nat)
    BY NatLessThanWellFounded
<1>2. PICK n \in T : \A m \in T : <<m, n>> \notin OpToRel(<, Nat)
    BY <1>1, WFMin
<1>3. \A m \in T : ~(m < n)
    BY <1>2 DEF OpToRel
<1> QED
    BY <1>3

------------------------------------------------------------------------------
(* Squares and their numbers                                                  *)

\* A row and a column make a square of the board, and are its row and column.
LEMMA RowCol ==
    ASSUME SIZE \in Nat, NEW r \in 0..(SIZE - 1), NEW c \in 0..(SIZE - 1)
    PROVE  /\ r * SIZE + c \in Cells
           /\ Row(r * SIZE + c) = r
           /\ Col(r * SIZE + c) = c
<1>1. r * SIZE + c \in Cells
    BY DEF Cells, CELLS
<1>2. Row(r * SIZE + c) = r
    BY DEF Row
<1>3. Col(r * SIZE + c) = c
    BY DEF Col
<1> QED
    BY <1>1, <1>2, <1>3

\* Every square of the board is made so.
LEMMA CellIs ==
    ASSUME SIZE \in Nat, NEW x \in Cells
    PROVE  /\ Row(x) \in 0..(SIZE - 1)
           /\ Col(x) \in 0..(SIZE - 1)
           /\ x = Row(x) * SIZE + Col(x)
<1>1. Row(x) \in 0..(SIZE - 1)
    BY DEF Row, Cells, CELLS
<1>2. Col(x) \in 0..(SIZE - 1)
    BY DEF Col, Cells, CELLS
<1>3. x = Row(x) * SIZE + Col(x)
    BY DEF Row, Col, Cells, CELLS
<1> QED
    BY <1>1, <1>2, <1>3

\* Some squares of the board have a first and a last among them.
LEMMA FirstAndLast ==
    ASSUME NEW F \in SUBSET Cells, F # {}, SIZE \in Nat
    PROVE  /\ Min(F) \in F /\ \A x \in F : Min(F) <= x
           /\ Max(F) \in F /\ \A x \in F : x <= Max(F)
<1>1. F \subseteq Nat /\ \A x \in F : x < CELLS
    BY DEF Cells, CELLS
<1>2. \E x \in F : \A y \in F : x <= y
    BY <1>1, LeastElement
<1> DEFINE Back == {CELLS - x : x \in F}
<1>a. CELLS \in Nat
    BY DEF CELLS
<1>b. \A x \in F : CELLS - x \in Nat
    BY <1>1, <1>a
<1>3. Back \subseteq Nat /\ Back # {}
    BY <1>b
<1>4. PICK b \in Back : \A c \in Back : b <= c
    BY <1>3, LeastElement
<1>5. PICK x \in F : b = CELLS - x
    BY <1>4
<1>6. \A y \in F : CELLS - x <= CELLS - y
    BY <1>4, <1>5
<1>7. \A y \in F : y <= x
    BY <1>1, <1>6, <1>5 DEF CELLS
<1> QED
    BY <1>2, <1>7 DEF Min, Max

------------------------------------------------------------------------------
(* What hangs together                                                        *)

TilesOn(b) == {cell \in Cells : b[cell] # None}

\* Every square of T beside one of S is in S.
Closed(S, T) == \A c \in T, d \in S : Adjacent(c, d) => c \in S

\* From the centre one gets everywhere.
Joined(T) ==
    T # {} => /\ CENTRE \in T
              /\ \A S \in SUBSET T : CENTRE \in S /\ Closed(S, T) => S = T

LEMMA AdjacentBack ==
    ASSUME SIZE \in Nat, NEW c \in Cells, NEW d \in Cells, Adjacent(c, d)
    PROVE  Adjacent(d, c)
    BY CellIs DEF Adjacent

\* Along a walk a closed set takes in all or nothing.
LEMMA Spreads ==
    ASSUME SIZE \in Nat, NEW T \in SUBSET Cells, NEW S \in SUBSET T, Closed(S, T),
           NEW n \in Nat, NEW walk \in [0..n -> T],
           \A k \in 1..n : Adjacent(walk[k], walk[k - 1]),
           NEW m \in 0..n, walk[m] \in S
    PROVE  \A k \in 0..n : walk[k] \in S
<1>1. \A k \in m..n : walk[k] \in S
    <2> DEFINE Bad == {k \in m..n : walk[k] \notin S}
    <2> SUFFICES ASSUME Bad # {} PROVE FALSE
        OBVIOUS
    <2>0. Bad \subseteq Nat
        OBVIOUS
    <2>1. PICK k \in Bad : \A j \in Bad : k <= j
        BY <2>0, LeastElement
    <2>2. k # m
        BY <2>1
    <2>3. k - 1 \in m..n /\ k - 1 \notin Bad
        BY <2>1, <2>2
    <2>4. walk[k - 1] \in S /\ k \in 1..n /\ walk[k] \in T
        BY <2>3
    <2>5. walk[k] \in S
        BY <2>4 DEF Closed
    <2> QED
        BY <2>1, <2>5
<1>2. \A k \in 0..m : walk[m - k] \in S
    <2> DEFINE Bad == {k \in 0..m : walk[m - k] \notin S}
    <2> SUFFICES ASSUME Bad # {} PROVE FALSE
        OBVIOUS
    <2>0. Bad \subseteq Nat
        OBVIOUS
    <2>1. PICK k \in Bad : \A j \in Bad : k <= j
        BY <2>0, LeastElement
    <2>2. k # 0
        BY <2>1
    <2>3. k - 1 \in 0..m /\ k - 1 \notin Bad
        BY <2>1, <2>2
    <2>4. walk[m - (k - 1)] \in S /\ m - k + 1 \in 1..n /\ m - (k - 1) = m - k + 1
        BY <2>3, <2>1, <2>2
    <2>5. Adjacent(walk[m - k + 1], walk[m - k + 1 - 1]) /\ m - k + 1 - 1 = m - k
        BY <2>4
    <2>6. Adjacent(walk[m - k], walk[m - k + 1]) /\ walk[m - k] \in T
        BY <2>5, <2>4, AdjacentBack
    <2>7. walk[m - k] \in S
        BY <2>6, <2>4 DEF Closed
    <2> QED
        BY <2>1, <2>7
<1> QED
    <2> TAKE k \in 0..n
    <2>1. CASE k >= m
        BY <1>1, <2>1
    <2>2. CASE k < m
        <3>1. m - k \in 0..m /\ m - (m - k) = k
            BY <2>2
        <3> QED
            BY <3>1, <1>2
    <2> QED
        BY <2>1, <2>2

------------------------------------------------------------------------------
(* A play                                                                     *)

\* The squares of a play.
Fresh(ps) == {Cell(p) : p \in ps}

\* Placements as the next-state relation enumerates them.
Laid(ps) == \A p \in ps : p.row \in Nat /\ p.col \in Nat

\* What passes the range check of a legal play is on the board.
LEMMA PlacedOnBoard ==
    ASSUME SIZE \in Nat, NEW ps, Laid(ps),
           \A p \in ps : p.row < SIZE /\ p.col < SIZE
    PROVE  /\ Fresh(ps) \in SUBSET Cells
           /\ \A p \in ps : /\ p.row \in 0..(SIZE - 1) /\ Row(Cell(p)) = p.row
                            /\ p.col \in 0..(SIZE - 1) /\ Col(Cell(p)) = p.col
<1>1. \A p \in ps : p.row \in 0..(SIZE - 1) /\ p.col \in 0..(SIZE - 1)
    BY DEF Laid
<1>2. \A p \in ps : /\ Cell(p) \in Cells
                    /\ Row(Cell(p)) = p.row /\ Col(Cell(p)) = p.col
    BY <1>1, RowCol DEF Cell
<1> QED
    BY <1>1, <1>2 DEF Fresh

\* One gets through all of F from square to square beside it, within T.
Walkable(T, F) ==
    \E n \in Nat : \E walk \in [0..n -> T] :
        /\ \A k \in 1..n : Adjacent(walk[k], walk[k - 1])
        /\ \A x \in F : \E k \in 0..n : walk[k] = x

\* The squares from the first tile of a play to the last, one beside the next,
\* are all filled.
LEMMA LineWalk ==
    ASSUME SIZE \in Nat, NEW b, NEW ps, ps # {}, Laid(ps),
           \A p \in ps : p.row < SIZE /\ p.col < SIZE,
           SameRow(ps) \/ SameCol(ps), NoGap(b, ps)
    PROVE  Walkable(TilesOn(b) \cup Fresh(ps), Fresh(ps))
<1> DEFINE F == Fresh(ps)
           lo == Min(F)
           hi == Max(F)
<1>1. F \in SUBSET Cells /\ F # {}
    BY PlacedOnBoard DEF Fresh
<1>2. lo \in F /\ hi \in F /\ \A x \in F : lo <= x /\ x <= hi
    BY <1>1, FirstAndLast
<1>3. PICK p \in ps, q \in ps : lo = Cell(p) /\ hi = Cell(q)
    BY <1>2 DEF Fresh
<1> HIDE DEF F, lo, hi
<1>4. Cells \subseteq Nat /\ lo \in Nat /\ hi \in Nat /\ lo <= hi
    BY <1>1, <1>2 DEF Cells, CELLS
<1>5. \A at \in lo..hi : at \in Cells
    <2>1. CELLS \in Nat
        BY DEF CELLS
    <2>2. hi <= CELLS - 1
        BY <1>1, <1>2, <2>1 DEF Cells
    <2> QED
        BY <1>4, <2>1, <2>2 DEF Cells
<1>6. \A r \in ps : /\ Cell(r) \in F /\ Cell(r) = r.row * SIZE + r.col
                    /\ r.row \in 0..(SIZE - 1) /\ Row(Cell(r)) = r.row
                    /\ r.col \in 0..(SIZE - 1) /\ Col(Cell(r)) = r.col
    BY PlacedOnBoard DEF F, Fresh, Cell
<1>7. CASE SameRow(ps)
    <2> DEFINE n == hi - lo
               walk == [k \in 0..n |-> lo + k]
    <2>1. n \in Nat
        BY <1>4
    <2>2. \A at \in lo..hi : at \in F \/ b[at] # None
        <3>1. \A at \in lo..hi : (at - lo) % 1 = 0
            BY <1>4
        <3> QED
            BY <3>1, <1>7 DEF NoGap, F, Fresh, lo, hi
    <2>3. walk \in [0..n -> TilesOn(b) \cup F]
        <3> SUFFICES ASSUME NEW k \in 0..n PROVE lo + k \in TilesOn(b) \cup F
            OBVIOUS
        <3>1. lo + k \in lo..hi
            BY <1>4
        <3> QED
            BY <3>1, <2>2, <1>5 DEF TilesOn
    <2>4. \A k \in 0..n : Row(lo + k) = p.row /\ Col(lo + k) = p.col + k
        <3> TAKE k \in 0..n
        <3>1. p.row = q.row
            BY <1>7 DEF SameRow
        <3>2. p.col + k \in 0..(SIZE - 1) /\ lo + k = p.row * SIZE + (p.col + k)
            BY <1>3, <1>6, <1>4, <3>1
        <3> QED
            BY <3>2, <1>6, RowCol
    <2>5. \A k \in 1..n : Adjacent(walk[k], walk[k - 1])
        <3> TAKE k \in 1..n
        <3>1. walk[k] = lo + k /\ walk[k - 1] = lo + (k - 1)
            BY <2>1
        <3>2. k \in 0..n /\ k - 1 \in 0..n
            BY <2>1
        <3>3. Col(lo + k) - Col(lo + (k - 1)) = 1 /\ Row(lo + k) = Row(lo + (k - 1))
            BY <3>2, <2>4, <1>6
        <3> QED
            BY <3>1, <3>3 DEF Adjacent
    <2>6. \A x \in F : \E k \in 0..n : walk[k] = x
        <3> TAKE x \in F
        <3>1. x - lo \in 0..n /\ walk[x - lo] = x
            BY <1>1, <1>2, <1>4
        <3> QED
            BY <3>1
    <2> HIDE DEF n, walk
    <2> QED
        BY <2>1, <2>3, <2>5, <2>6 DEF F, Walkable
<1>8. CASE ~SameRow(ps)
    <2> DEFINE n == q.row - p.row
               walk == [k \in 0..n |-> lo + k * SIZE]
    <2>0. SameCol(ps) /\ p.col = q.col
        BY <1>8 DEF SameCol
    <2>a. \A r \in ps : p.row <= r.row /\ r.row <= q.row /\ r.col = p.col
        <3> TAKE r \in ps
        <3>1. r.col = p.col /\ r.col = q.col
            BY <2>0 DEF SameCol
        <3>2. p.row * SIZE <= r.row * SIZE /\ r.row * SIZE <= q.row * SIZE
            BY <3>1, <1>3, <1>6, <1>2
        <3>3. SIZE > 0
            BY <1>6
        <3> QED
            BY <3>1, <3>2, <3>3, <1>6
    <2>1. n \in Nat
        BY <2>a, <1>6
    <2>2. \A k \in 0..n : /\ lo + k * SIZE \in lo..hi
                          /\ (lo + k * SIZE - lo) % SIZE = 0
                          /\ p.row + k \in 0..(SIZE - 1)
                          /\ lo + k * SIZE = (p.row + k) * SIZE + p.col
        <3> TAKE k \in 0..n
        <3>1. p.row + k \in 0..(SIZE - 1) /\ p.row + k <= q.row
            BY <1>6
        <3>2. lo + k * SIZE = (p.row + k) * SIZE + p.col
            BY <1>3, <1>6
        <3>3. (p.row + k) * SIZE <= q.row * SIZE
            BY <3>1, <1>6
        <3>4. lo + k * SIZE <= hi
            BY <3>2, <3>3, <1>3, <1>6, <2>0
        <3>5. k * SIZE \in Nat
            OBVIOUS
        <3>6. (k * SIZE) % SIZE = 0
            <4>1. SIZE > 0
                BY <1>6
            <4> QED
                BY <4>1
        <3>7. lo + k * SIZE - lo = k * SIZE
            BY <3>5, <1>4
        <3> QED
            BY <3>1, <3>2, <3>4, <3>5, <3>6, <3>7, <1>4
    <2>3. walk \in [0..n -> TilesOn(b) \cup F]
        <3> SUFFICES ASSUME NEW k \in 0..n PROVE lo + k * SIZE \in TilesOn(b) \cup F
            OBVIOUS
        <3>1. \A at \in lo..hi : (at - lo) % SIZE = 0 => at \in F \/ b[at] # None
            BY <1>8 DEF NoGap, F, Fresh, lo, hi
        <3>2. PICK at \in lo..hi : at = lo + k * SIZE
            BY <2>2
        <3>a. k * SIZE \in Nat /\ (k * SIZE) % SIZE = 0 /\ at - lo = k * SIZE
            <4>1. SIZE > 0
                BY <1>6
            <4> QED
                BY <4>1, <3>2, <1>4
        <3>3. at \in F \/ b[at] # None
            BY <3>1, <3>2, <3>a
        <3>4. at \in Cells
            BY <3>2, <1>5
        <3>5. at \in TilesOn(b) \cup F
            BY <3>3, <3>4 DEF TilesOn
        <3> QED
            BY <3>2, <3>5
    <2>4. \A k \in 0..n : Row(lo + k * SIZE) = p.row + k /\ Col(lo + k * SIZE) = p.col
        <3> TAKE k \in 0..n
        <3>1. /\ p.row + k \in 0..(SIZE - 1)
              /\ lo + k * SIZE = (p.row + k) * SIZE + p.col
            BY <2>2
        <3>2. p.col \in 0..(SIZE - 1)
            BY <1>6
        <3>3. /\ Row((p.row + k) * SIZE + p.col) = p.row + k
              /\ Col((p.row + k) * SIZE + p.col) = p.col
            BY <3>1, <3>2, RowCol
        <3> QED
            BY <3>1, <3>3
    <2>5. \A k \in 1..n : Adjacent(walk[k], walk[k - 1])
        <3> TAKE k \in 1..n
        <3>1. walk[k] = lo + k * SIZE /\ walk[k - 1] = lo + (k - 1) * SIZE
            BY <2>1
        <3>2. k \in 0..n /\ k - 1 \in 0..n
            BY <2>1
        <3>3. /\ Row(lo + k * SIZE) - Row(lo + (k - 1) * SIZE) = 1
              /\ Col(lo + k * SIZE) = Col(lo + (k - 1) * SIZE)
            BY <3>2, <2>4, <1>6
        <3> QED
            BY <3>1, <3>3 DEF Adjacent
    <2>6. \A x \in F : \E k \in 0..n : walk[k] = x
        <3> TAKE x \in F
        <3>1. PICK r \in ps : x = Cell(r)
            BY DEF F, Fresh
        <3>2. r.row - p.row \in 0..n
            BY <2>a, <1>6
        <3>3. lo + (r.row - p.row) * SIZE = (p.row + (r.row - p.row)) * SIZE + p.col
            BY <3>2, <2>2
        <3>4. p.row + (r.row - p.row) = r.row /\ r.col = p.col
            BY <1>6, <2>a
        <3>5. lo + (r.row - p.row) * SIZE = x
            BY <3>1, <3>3, <3>4, <1>6
        <3> QED
            BY <3>2, <3>5
    <2> HIDE DEF n, walk
    <2> QED
        BY <2>1, <2>3, <2>5, <2>6 DEF F, Walkable
<1> QED
    BY <1>7, <1>8

\* What validate_placement finds by row and column is a neighbour.
LEMMA TouchesBeside ==
    ASSUME SIZE \in Nat, NEW b, NEW x \in Cells, Touches(b, x)
    PROVE  \E y \in TilesOn(b) : Adjacent(x, y)
<1>1. /\ Row(x) \in 0..(SIZE - 1) /\ Col(x) \in 0..(SIZE - 1)
      /\ x = Row(x) * SIZE + Col(x)
    BY CellIs
<1>a. PICK r0 \in 0..(SIZE - 1), c0 \in 0..(SIZE - 1) :
        r0 = Row(x) /\ c0 = Col(x) /\ x = r0 * SIZE + c0
    BY <1>1
<1>2. ASSUME NEW r \in 0..(SIZE - 1), NEW c \in 0..(SIZE - 1), NEW y, y = r * SIZE + c,
             b[y] # None,
             \/ r = r0 /\ c0 - c \in {-1, 1}
             \/ c = c0 /\ r0 - r \in {-1, 1}
      PROVE  \E z \in TilesOn(b) : Adjacent(x, z)
    <2>1. y \in Cells /\ Row(y) = r /\ Col(y) = c
        BY <1>2, RowCol
    <2>2. y \in TilesOn(b) /\ Adjacent(x, y)
        BY <2>1, <1>2, <1>a DEF TilesOn, Adjacent
    <2> QED
        BY <2>2
<1>3. CASE r0 > 0 /\ b[x - SIZE] # None
    <2>1. r0 - 1 \in 0..(SIZE - 1) /\ x - SIZE = (r0 - 1) * SIZE + c0
        BY <1>a, <1>3
    <2>2. r0 - (r0 - 1) \in {-1, 1}
        BY <1>a
    <2> QED
        BY <2>1, <2>2, <1>a, <1>2, <1>3
<1>4. CASE r0 + 1 < SIZE /\ b[x + SIZE] # None
    <2>1. r0 + 1 \in 0..(SIZE - 1) /\ x + SIZE = (r0 + 1) * SIZE + c0
        BY <1>a, <1>4
    <2>2. r0 - (r0 + 1) \in {-1, 1}
        BY <1>a
    <2> QED
        BY <2>1, <2>2, <1>a, <1>2, <1>4
<1>5. CASE c0 > 0 /\ b[x - 1] # None
    <2>1. c0 - 1 \in 0..(SIZE - 1) /\ x - 1 = r0 * SIZE + (c0 - 1)
        BY <1>a, <1>5
    <2>2. c0 - (c0 - 1) \in {-1, 1}
        BY <1>a
    <2> QED
        BY <2>1, <2>2, <1>a, <1>2, <1>5
<1>6. CASE c0 + 1 < SIZE /\ b[x + 1] # None
    <2>1. c0 + 1 \in 0..(SIZE - 1) /\ x + 1 = r0 * SIZE + (c0 + 1)
        BY <1>a, <1>6
    <2>2. c0 - (c0 + 1) \in {-1, 1}
        BY <1>a
    <2> QED
        BY <2>1, <2>2, <1>a, <1>2, <1>6
<1> QED
    BY <1>3, <1>4, <1>5, <1>6, <1>a DEF Touches

\* A legal play leaves what hangs together hanging together.
LEMMA PlayJoins ==
    ASSUME SIZE \in Nat, RACK \in Nat, NEW b, b = [cell \in Cells |-> b[cell]],
           NEW ps, Laid(ps), ValidPlacement(b, ps), Joined(TilesOn(b))
    PROVE  Joined(TilesOn(b) \cup Fresh(ps))
<1> DEFINE T == TilesOn(b)
           F == Fresh(ps)
<1>1. /\ \A p \in ps : p.row < SIZE /\ p.col < SIZE
      /\ SameRow(ps) \/ SameCol(ps)
      /\ NoGap(b, ps)
      /\ ps # {}
    <2>1. ps # {}
        BY FS_EmptySet DEF ValidPlacement
    <2> QED
        BY <2>1 DEF ValidPlacement
<1>2. F \in SUBSET Cells /\ T \in SUBSET Cells
    BY <1>1, PlacedOnBoard DEF TilesOn
<1>3. PICK n \in Nat : \E walk \in [0..n -> T \cup F] :
                           /\ \A k \in 1..n : Adjacent(walk[k], walk[k - 1])
                           /\ \A x \in F : \E k \in 0..n : walk[k] = x
    <2>1. Walkable(T \cup F, F)
        BY <1>1, LineWalk
    <2> QED
        BY <2>1 DEF Walkable
<1>4. PICK walk \in [0..n -> T \cup F] :
               /\ \A k \in 1..n : Adjacent(walk[k], walk[k - 1])
               /\ \A x \in F : \E k \in 0..n : walk[k] = x
    BY <1>3
<1>5. ASSUME NEW S \in SUBSET (T \cup F), Closed(S, T \cup F), NEW x \in F, x \in S
      PROVE  F \subseteq S
    <2>1. PICK m \in 0..n : walk[m] = x
        BY <1>4, <1>5
    <2>2. \A k \in 0..n : walk[k] \in S
        BY <1>2, <1>4, <1>5, <2>1, Spreads
    <2> QED
        BY <2>2, <1>4
<1>6. CASE b = EmptyBoard
    <2>1. T = {}
        BY <1>6 DEF TilesOn, EmptyBoard
    <2>2. CENTRE \in F
        BY <1>6 DEF ValidPlacement, Fresh
    <2>3. ASSUME NEW S \in SUBSET (T \cup F), CENTRE \in S, Closed(S, T \cup F)
          PROVE  S = T \cup F
        BY <2>1, <2>2, <2>3, <1>5
    <2> QED
        BY <2>2, <2>3 DEF Joined
<1>7. CASE b # EmptyBoard
    <2>1. T # {}
        BY <1>7 DEF TilesOn, EmptyBoard
    <2>2. PICK x \in F : Touches(b, x)
        BY <1>7 DEF ValidPlacement, Fresh
    <2>3. PICK y \in T : Adjacent(x, y)
        BY <2>2, <1>2, TouchesBeside
    <2>4. ASSUME NEW S \in SUBSET (T \cup F), CENTRE \in S, Closed(S, T \cup F)
          PROVE  S = T \cup F
        <3>1. CENTRE \in S \cap T /\ S \cap T \in SUBSET T /\ Closed(S \cap T, T)
            <4>1. CENTRE \in T
                BY <2>1 DEF Joined
            <4>2. Closed(S \cap T, T)
                BY <2>4 DEF Closed
            <4> QED
                BY <2>4, <4>1, <4>2
        <3>2. T \subseteq S
            <4>1. Joined(T)
                OBVIOUS
            <4> HIDE DEF T
            <4>2. S \cap T = T
                BY <2>1, <3>1, <4>1 DEF Joined
            <4> QED
                BY <4>2
        <3>3. x \in S
            BY <3>2, <2>3, <2>4 DEF Closed
        <3> QED
            BY <3>2, <3>3, <2>4, <1>5
    <2> QED
        BY <2>1, <2>4 DEF Joined
<1> QED
    BY <1>6, <1>7


------------------------------------------------------------------------------
(* How far one gets from the centre in so many steps                          *)

Wider(some, T) == some \cup {c \in T : \E d \in some : Adjacent(c, d)}

IsGroup(g, n, T) ==
    g = [i \in 0..n |-> IF i = 0 THEN {CENTRE} ELSE Wider(g[i - 1], T)]

\* The recursion of HangsTogether defines a function.
LEMMA GroupExists ==
    ASSUME NEW T, NEW n \in Nat PROVE \E g : IsGroup(g, n, T)
<1> DEFINE Bad == {k \in Nat : ~\E g : IsGroup(g, k, T)}
<1> SUFFICES ASSUME Bad # {} PROVE FALSE
    OBVIOUS
<1>1. PICK k \in Bad : \A m \in Bad : k <= m
    BY LeastElement
<1>2. CASE k = 0
    <2> DEFINE h == [i \in 0..0 |-> {CENTRE}]
    <2>1. h = [i \in 0..k |-> IF i = 0 THEN {CENTRE} ELSE Wider(h[i - 1], T)]
        BY <1>2
    <2> QED
        BY <1>1, <2>1 DEF IsGroup
<1>3. CASE k # 0
    <2>1. k - 1 \in Nat /\ k - 1 \notin Bad
        BY <1>1, <1>3
    <2>2. PICK g : IsGroup(g, k - 1, T)
        BY <2>1
    <2> DEFINE h == [i \in 0..k |-> IF i = k THEN Wider(g[k - 1], T) ELSE g[i]]
    <2>3. \A i \in 0..(k - 1) : h[i] = g[i]
        BY <1>1, <1>3
    <2>4. \A i \in 0..(k - 1) : h[i] = IF i = 0 THEN {CENTRE} ELSE Wider(h[i - 1], T)
        <3> SUFFICES ASSUME NEW i \in 0..(k - 1)
                     PROVE  h[i] = IF i = 0 THEN {CENTRE} ELSE Wider(h[i - 1], T)
            OBVIOUS
        <3>1. g[i] = IF i = 0 THEN {CENTRE} ELSE Wider(g[i - 1], T)
            BY <2>2 DEF IsGroup
        <3>2. i # 0 => h[i - 1] = g[i - 1]
            BY <1>1, <2>3
        <3> QED
            BY <2>3, <3>1, <3>2
    <2>5. h[k] = Wider(h[k - 1], T)
        <3>1. k \in 0..k /\ k - 1 \in 0..(k - 1)
            BY <1>1, <1>3
        <3>2. h[k] = Wider(g[k - 1], T)
            BY <3>1
        <3> QED
            BY <2>3, <3>1, <3>2
    <2>6. \A i \in 0..k : i = k \/ i \in 0..(k - 1)
        BY <1>1
    <2>7. \A i \in 0..k : h[i] = IF i = 0 THEN {CENTRE} ELSE Wider(h[i - 1], T)
        BY <1>3, <2>4, <2>5, <2>6
    <2>8. h = [i \in 0..k |-> IF i = 0 THEN {CENTRE} ELSE Wider(h[i - 1], T)]
        <3>1. h = [i \in 0..k |-> h[i]]
            OBVIOUS
        <3> HIDE DEF h
        <3> QED
            BY <2>7, <3>1
    <2>9. IsGroup(h, k, T)
        BY <2>8 DEF IsGroup
    <2> QED
        BY <1>1, <2>9
<1> QED
    BY <1>2, <1>3

\* Each step takes in another square until there are none: from squares that are
\* joined it takes in all of them, and they are no more than the board has.
LEMMA GroupIsAll ==
    ASSUME SIZE \in Nat, NEW T \in SUBSET Cells, T # {}, Joined(T),
           NEW g, IsGroup(g, CELLS, T)
    PROVE  g[CELLS] = T
<1>1. CELLS \in Nat /\ IsFiniteSet(Cells) /\ Cardinality(Cells) = CELLS
    <2>1. CELLS \in Nat
        BY DEF CELLS
    <2>2. CELLS - 1 \in Int
        BY <2>1
    <2>3. /\ IsFiniteSet(0..(CELLS - 1))
          /\ Cardinality(0..(CELLS - 1)) = IF 0 > CELLS - 1 THEN 0 ELSE CELLS - 1 - 0 + 1
        BY <2>2, FS_Interval
    <2> QED
        BY <2>1, <2>3 DEF Cells
<1>2. IsFiniteSet(T) /\ Cardinality(T) <= CELLS /\ Cardinality(T) \in Nat
    BY <1>1, FS_Subset, FS_CardinalityType
<1> DEFINE Good(n) == /\ g[n] \in SUBSET T /\ CENTRE \in g[n]
                      /\ Closed(g[n], T) \/ Cardinality(g[n]) >= n + 1
           Bad == {n \in 0..CELLS : ~Good(n)}
<1>3. ASSUME Bad # {} PROVE FALSE
    <2>0. Bad \subseteq Nat
        BY <1>1
    <2>1. PICK n \in Bad : \A m \in Bad : n <= m
        BY <1>3, <2>0, LeastElement
    <2>2. n # 0
        <3> SUFFICES ASSUME n = 0 PROVE FALSE
            OBVIOUS
        <3>1. g[0] = {CENTRE}
            BY <1>1 DEF IsGroup
        <3>2. Cardinality({CENTRE}) = 1
            BY FS_Singleton
        <3>3. Good(0)
            BY <3>1, <3>2 DEF Joined
        <3> QED
            BY <2>1, <3>3
    <2>3. n - 1 \in 0..CELLS /\ n - 1 \notin Bad /\ n \in 0..CELLS
        BY <1>1, <2>1, <2>2
    <2>4. Good(n - 1)
        BY <2>3
    <2>5. g[n] = Wider(g[n - 1], T)
        BY <2>2, <2>3 DEF IsGroup
    <2>6. g[n] \in SUBSET T /\ CENTRE \in g[n] /\ g[n - 1] \subseteq g[n]
        BY <2>4, <2>5 DEF Wider
    <2>7. CASE Closed(g[n - 1], T)
        <3>1. g[n] = g[n - 1]
            BY <2>4, <2>5, <2>7 DEF Wider, Closed
        <3> QED
            BY <2>1, <2>6, <2>7, <3>1
    <2>8. CASE ~Closed(g[n - 1], T)
        <3>1. g[n] # g[n - 1]
            BY <2>5, <2>8 DEF Wider, Closed
        <3>2. IsFiniteSet(g[n])
            BY <1>2, <2>6, FS_Subset
        <3>3. /\ IsFiniteSet(g[n - 1]) /\ Cardinality(g[n - 1]) <= Cardinality(g[n])
              /\ Cardinality(g[n - 1]) # Cardinality(g[n])
            BY <2>6, <3>1, <3>2, FS_Subset
        <3>4. Cardinality(g[n]) \in Nat /\ Cardinality(g[n - 1]) \in Nat
            BY <3>2, <3>3, FS_CardinalityType
        <3>5. Cardinality(g[n]) >= n + 1
            BY <2>4, <2>8, <3>3, <3>4, <2>3
        <3> QED
            BY <2>1, <2>6, <3>5
    <2> QED
        BY <2>7, <2>8
<1>4. Good(CELLS)
    BY <1>1, <1>3
<1>5. Cardinality(g[CELLS]) <= CELLS /\ Cardinality(g[CELLS]) \in Nat
    <2>1. IsFiniteSet(g[CELLS]) /\ Cardinality(g[CELLS]) <= Cardinality(T)
        BY <1>2, <1>4, FS_Subset
    <2>2. Cardinality(g[CELLS]) \in Nat
        BY <2>1, FS_CardinalityType
    <2> QED
        BY <1>1, <1>2, <2>1, <2>2
<1>6. Closed(g[CELLS], T)
    BY <1>1, <1>4, <1>5
<1> QED
    BY <1>4, <1>6 DEF Joined

\* The closure is what HangsTogether computes.
LEMMA JoinedHangs ==
    ASSUME SIZE \in Nat, Joined(TilesOn(board))
    PROVE  HangsTogether
<1> DEFINE T == TilesOn(board)
           group == CHOOSE g : IsGroup(g, CELLS, T)
<1>1. CELLS \in Nat
    BY DEF CELLS
<1>2. IsGroup(group, CELLS, T)
    BY <1>1, GroupExists
<1>3. T # {} => CENTRE \in T /\ group[CELLS] = T
    BY <1>2, GroupIsAll DEF Joined, TilesOn
<1> QED
    BY <1>3 DEF HangsTogether, TilesOn, IsGroup, Wider

------------------------------------------------------------------------------
(* The board and the play that may still be challenged                        *)

\* The board hangs together, and so it did before the play that may still be
\* challenged off it.
JoinInv ==
    /\ board = [cell \in Cells |-> board[cell]]
    /\ Joined(TilesOn(board))
    /\ last_play # None =>
           Joined(TilesOn(board) \ Fresh(last_play[1].placements))

LEMMA RangeLaid ==
    ASSUME SIZE \in Nat, NEW laid \in [1..RACK -> Placements]
    PROVE  Laid(Range(laid))
<1>1. \A p \in Placements : p.row \in Nat /\ p.col \in Nat
    BY DEF Placements
<1>2. Range(laid) \subseteq Placements
    BY DEF Range
<1> QED
    BY <1>1, <1>2 DEF Laid

\* A legal play covers free squares, exactly its own.
LEMMA AfterIs ==
    ASSUME SIZE \in Nat, NEW b, b = [cell \in Cells |-> b[cell]],
           NEW ps, Laid(ps), ValidPlacement(b, ps)
    PROVE  /\ WithPlacements(b, ps) = [cell \in Cells |-> WithPlacements(b, ps)[cell]]
           /\ TilesOn(WithPlacements(b, ps)) = TilesOn(b) \cup Fresh(ps)
           /\ TilesOn(b) \cap Fresh(ps) = {}
<1>1. \A p \in ps : /\ p.row < SIZE /\ p.col < SIZE
                    /\ Placed(p) # None /\ b[Cell(p)] = None
    BY DEF ValidPlacement
<1>2. Fresh(ps) \in SUBSET Cells
    BY <1>1, PlacedOnBoard
<1>3. ASSUME NEW cell \in Cells
      PROVE  WithPlacements(b, ps)[cell] # None <=> b[cell] # None \/ cell \in Fresh(ps)
    <2>1. CASE \E p \in ps : Cell(p) = cell
        <3> DEFINE p == CHOOSE p \in ps : Cell(p) = cell
        <3>1. p \in ps /\ Cell(p) = cell
            BY <2>1
        <3>2. WithPlacements(b, ps)[cell] = Placed(p)
            BY <2>1 DEF WithPlacements
        <3> QED
            BY <3>1, <3>2, <1>1 DEF Fresh
    <2>2. CASE ~\E p \in ps : Cell(p) = cell
        BY <2>2 DEF WithPlacements, Fresh
    <2> QED
        BY <2>1, <2>2
<1> QED
    BY <1>1, <1>2, <1>3 DEF TilesOn, Fresh, WithPlacements

\* JoinInv is inductive: a play joins, a challenge goes back to before it.
LEMMA JoinAlways == Spec => []JoinInv
<1>0. SIZE \in Nat /\ RACK \in Nat
    BY WordsAssumption
<1>1. Init => JoinInv
    BY DEF Init, JoinInv, EmptyBoard, TilesOn, Joined
<1>2. JoinInv /\ [Next]_vars => JoinInv'
    <2> SUFFICES ASSUME JoinInv, [Next]_vars PROVE JoinInv'
        OBVIOUS
    <2>1. CASE UNCHANGED <<board, last_play>>
        BY <2>1 DEF JoinInv
    <2>2. CASE Move
        <3>1. PICK laid \in [1..RACK -> Placements] : Place(Range(laid))
            BY <2>2 DEF Move
        <3> DEFINE ps == Range(laid)
        <3>2. Laid(ps)
            BY <1>0, RangeLaid
        <3>3. /\ ValidPlacement(board, ps)
              /\ board' = WithPlacements(board, ps)
              /\ last_play' # None => last_play'[1].placements = ps
            BY <3>1 DEF Place, Some
        <3> HIDE DEF ps
        <3>4. /\ board' = [cell \in Cells |-> board'[cell]]
              /\ TilesOn(board') = TilesOn(board) \cup Fresh(ps)
              /\ TilesOn(board) \cap Fresh(ps) = {}
            BY <1>0, <3>2, <3>3, AfterIs DEF JoinInv
        <3>5. Joined(TilesOn(board'))
            BY <1>0, <3>2, <3>3, <3>4, PlayJoins DEF JoinInv
        <3>6. TilesOn(board') \ Fresh(ps) = TilesOn(board)
            BY <3>4
        <3> QED
            BY <3>3, <3>4, <3>5, <3>6 DEF JoinInv
    <2>3. CASE Challenge
        <3>1. last_play' = None /\ last_play # None
            BY <2>3 DEF Challenge
        <3>2. CASE board' = board
            BY <3>1, <3>2 DEF JoinInv
        <3>3. CASE board' # board
            <4> DEFINE ps == last_play[1].placements
            <4>1. board' = [cell \in Cells |->
                         IF \E p \in ps : Cell(p) = cell THEN None ELSE board[cell]]
                BY <2>3, <3>3 DEF Challenge
            <4>2. TilesOn(board') = TilesOn(board) \ Fresh(ps)
                BY <4>1 DEF TilesOn, Fresh
            <4> QED
                BY <3>1, <4>1, <4>2 DEF JoinInv
        <3> QED
            BY <3>2, <3>3
    <2> QED
        BY <2>1, <2>2, <2>3 DEF Next, Compile, Publish, vars
<1> QED
    BY <1>1, <1>2, PTL DEF Spec

\* However the tiles go down and are challenged off, all that lies on the board
\* hangs together and covers the centre: a play joins what is there or, alone,
\* the centre, and what is challenged off was the last to join (board.rs
\* validate_placement: "must touch a tile already played").
THEOREM HangsTogetherAlways == Spec => []HangsTogether
<1>1. JoinInv => HangsTogether
    BY JoinedHangs, WordsAssumption DEF JoinInv
<1> QED
    BY <1>1, JoinAlways, PTL

------------------------------------------------------------------------------
(* Squares in reading order                                                   *)

Rising(s) == \A i, j \in DOMAIN s : i < j => s[i] < s[j]

LEMMA CellsFinite ==
    ASSUME SIZE \in Nat, NEW F \in SUBSET Cells
    PROVE  IsFiniteSet(F) /\ Cardinality(F) \in Nat /\ F \in SUBSET Nat
<1>1. CELLS \in Nat /\ CELLS - 1 \in Int
    BY DEF CELLS
<1>2. IsFiniteSet(Cells)
    BY <1>1, FS_Interval DEF Cells
<1>3. IsFiniteSet(F)
    BY <1>2, FS_Subset
<1> QED
    BY <1>1, <1>3, FS_CardinalityType DEF Cells

\* Squares can be put in order, by taking the greatest off.
LEMMA RisingExists ==
    ASSUME SIZE \in Nat, NEW F \in SUBSET Cells
    PROVE  \E s \in [1..Cardinality(F) -> F] : Rising(s)
<1> DEFINE Orders(S) == \E s \in [1..Cardinality(S) -> S] : Rising(s)
           Bad == {n \in Nat : \E S \in SUBSET Cells : Cardinality(S) = n /\ ~Orders(S)}
<1>1. SUFFICES ASSUME Bad # {} PROVE FALSE
    BY CellsFinite
<1>2. PICK n \in Bad : \A m \in Bad : n <= m
    BY <1>1, LeastElement
<1>3. PICK S \in SUBSET Cells : Cardinality(S) = n /\ ~Orders(S)
    BY <1>2
<1>4. IsFiniteSet(S) /\ n \in Nat /\ S \in SUBSET Nat
    BY <1>2, <1>3, CellsFinite
<1>5. CASE n = 0
    <2>1. S = {}
        BY <1>3, <1>4, <1>5, FS_EmptySet
    <2>2. [i \in 1..0 |-> 0] \in [1..0 -> S] /\ Rising([i \in 1..0 |-> 0])
        BY DEF Rising
    <2> QED
        BY <1>3, <1>5, <2>2
<1>6. CASE n # 0
    <2>1. S # {}
        BY <1>3, <1>6, FS_EmptySet
    <2> DEFINE x == Max(S)
               R == S \ {x}
    <2>2. x \in S /\ \A y \in S : y <= x
        BY <2>1, FirstAndLast
    <2>3. Cardinality(R) = n - 1
        BY <1>3, <1>4, <2>2, FS_RemoveElement
    <2>4. n - 1 \in Nat /\ n - 1 \notin Bad
        <3> HIDE DEF Bad
        <3>1. n - 1 \in Nat /\ ~(n <= n - 1)
            BY <1>4, <1>6
        <3> QED
            BY <1>2, <3>1
    <2>5. PICK s \in [1..(n - 1) -> R] : Rising(s)
        BY <2>3, <2>4
    <2> HIDE DEF x
    <2> DEFINE t == [i \in 1..n |-> IF i = n THEN x ELSE s[i]]
    <2>6. t \in [1..n -> S]
        BY <1>4, <2>2, <2>4, <2>5
    <2>7. \A i \in 1..(n - 1) : s[i] < x
        <3> TAKE i \in 1..(n - 1)
        <3>1. s[i] \in S /\ s[i] # x
            BY <2>5
        <3>2. s[i] <= x /\ s[i] \in Nat /\ x \in Nat
            BY <1>4, <2>2, <3>1
        <3> QED
            BY <3>1, <3>2
    <2>8. Rising(t)
        <3> SUFFICES ASSUME NEW i \in 1..n, NEW j \in 1..n, i < j PROVE t[i] < t[j]
            BY <2>6 DEF Rising
        <3>1. i \in 1..(n - 1) /\ t[i] = s[i]
            BY <1>4
        <3>2. CASE j = n
            BY <3>1, <3>2, <2>7
        <3>3. CASE j # n
            <4>1. j \in 1..(n - 1) /\ t[j] = s[j]
                BY <1>4, <3>3
            <4> QED
                BY <3>1, <4>1, <2>5 DEF Rising
        <3> QED
            BY <3>2, <3>3
    <2> QED
        BY <1>3, <2>6, <2>8
<1> QED
    BY <1>5, <1>6

\* InOrder lists every square of the set once, rising.
LEMMA InOrderIs ==
    ASSUME SIZE \in Nat, NEW F \in SUBSET Cells
    PROVE  /\ InOrder(F) \in [1..Cardinality(F) -> F]
           /\ InOrder(F) \in Seq(F) /\ Len(InOrder(F)) = Cardinality(F)
           /\ \A i, j \in 1..Cardinality(F) : i < j => InOrder(F)[i] < InOrder(F)[j]
           /\ \A i, j \in 1..Cardinality(F) : InOrder(F)[i] = InOrder(F)[j] => i = j
           /\ \A x \in F : \E i \in 1..Cardinality(F) : InOrder(F)[i] = x
<1> DEFINE n == Cardinality(F)
           s == InOrder(F)
<1>1. n \in Nat /\ IsFiniteSet(F) /\ F \in SUBSET Nat
    BY CellsFinite
<1>2. s \in [1..n -> F] /\ Rising(s)
    BY RisingExists DEF InOrder, Rising
<1> HIDE DEF n, s
<1>3. \A i, j \in 1..n : i < j => s[i] < s[j]
    BY <1>2 DEF Rising
<1>4. \A i \in 1..n : s[i] \in Nat
    BY <1>1, <1>2
<1>5. \A i, j \in 1..n : s[i] = s[j] => i = j
    <2> TAKE i, j \in 1..n
    <2>1. i < j \/ j < i \/ i = j
        BY <1>1
    <2> QED
        BY <2>1, <1>3, <1>4
<1>6. s \in Injection(1..n, F)
    BY <1>2, <1>5 DEF Injection, IsInjective
<1>7. Cardinality(1..n) = n
    <2>1. Cardinality(1..n) = IF 1 > n THEN 0 ELSE n - 1 + 1
        BY <1>1, FS_Interval
    <2> QED
        BY <1>1, <2>1
<1>8. s \in Surjection(1..n, F)
    BY <1>1, <1>6, <1>7, FS_Injection DEF n
<1>9. \A x \in F : \E i \in 1..n : s[i] = x
    BY <1>8 DEF Surjection
<1>10. s \in Seq(F) /\ Len(s) = n
    BY <1>1, <1>2
<1> QED
    BY <1>2, <1>3, <1>5, <1>9, <1>10 DEF n, s

------------------------------------------------------------------------------
(* The runs that are words                                                    *)

KeepOne(list, run) == IF run = <<>> THEN list ELSE Append(list, run)

IsKept(g, n, runs) ==
    g = [i \in 0..n |-> IF i = 0 THEN <<>> ELSE KeepOne(g[i - 1], runs[i])]

\* The recursion of Kept defines a function.
LEMMA KeptExists ==
    ASSUME NEW runs, NEW n \in Nat PROVE \E g : IsKept(g, n, runs)
<1> DEFINE Bad == {k \in Nat : ~\E g : IsKept(g, k, runs)}
<1> SUFFICES ASSUME Bad # {} PROVE FALSE
    OBVIOUS
<1>1. PICK k \in Bad : \A m \in Bad : k <= m
    BY LeastElement
<1>2. CASE k = 0
    <2> DEFINE h == [i \in 0..0 |-> <<>>]
    <2>1. h = [i \in 0..k |-> IF i = 0 THEN <<>> ELSE KeepOne(h[i - 1], runs[i])]
        BY <1>2
    <2> QED
        BY <1>1, <2>1 DEF IsKept
<1>3. CASE k # 0
    <2>1. k - 1 \in Nat /\ k - 1 \notin Bad
        BY <1>1, <1>3
    <2>2. PICK g : IsKept(g, k - 1, runs)
        BY <2>1
    <2> DEFINE h == [i \in 0..k |-> IF i = k THEN KeepOne(g[k - 1], runs[k]) ELSE g[i]]
    <2>3. \A i \in 0..(k - 1) : h[i] = g[i]
        BY <1>1, <1>3
    <2>4. \A i \in 0..(k - 1) : h[i] = IF i = 0 THEN <<>> ELSE KeepOne(h[i - 1], runs[i])
        <3> SUFFICES ASSUME NEW i \in 0..(k - 1)
                     PROVE  h[i] = IF i = 0 THEN <<>> ELSE KeepOne(h[i - 1], runs[i])
            OBVIOUS
        <3>1. g[i] = IF i = 0 THEN <<>> ELSE KeepOne(g[i - 1], runs[i])
            BY <2>2 DEF IsKept
        <3>2. i # 0 => h[i - 1] = g[i - 1]
            BY <1>1, <2>3
        <3> QED
            BY <2>3, <3>1, <3>2
    <2>5. h[k] = KeepOne(h[k - 1], runs[k])
        <3>1. k \in 0..k /\ k - 1 \in 0..(k - 1)
            BY <1>1, <1>3
        <3>2. h[k] = KeepOne(g[k - 1], runs[k])
            BY <3>1
        <3> QED
            BY <2>3, <3>1, <3>2
    <2>6. \A i \in 0..k : i = k \/ i \in 0..(k - 1)
        BY <1>1
    <2>7. \A i \in 0..k : h[i] = IF i = 0 THEN <<>> ELSE KeepOne(h[i - 1], runs[i])
        BY <1>3, <2>4, <2>5, <2>6
    <2>8. h = [i \in 0..k |-> IF i = 0 THEN <<>> ELSE KeepOne(h[i - 1], runs[i])]
        <3>1. h = [i \in 0..k |-> h[i]]
            OBVIOUS
        <3> HIDE DEF h
        <3> QED
            BY <2>7, <3>1
    <2>9. IsKept(h, k, runs)
        BY <2>8 DEF IsKept
    <2> QED
        BY <1>1, <2>9
<1> QED
    BY <1>2, <1>3

\* They are all the runs but the empty ones, in their order and none twice.
LEMMA KeptIs ==
    ASSUME NEW S, NEW runs \in Seq(S)
    PROVE  /\ Kept(runs) \in Seq(S)
           /\ \A i \in DOMAIN Kept(runs) :
                  Kept(runs)[i] # <<>> /\ \E j \in DOMAIN runs : Kept(runs)[i] = runs[j]
           /\ \A j \in DOMAIN runs :
                  runs[j] # <<>> => \E i \in DOMAIN Kept(runs) : Kept(runs)[i] = runs[j]
           /\ (\A i, j \in DOMAIN runs : runs[i] = runs[j] /\ runs[i] # <<>> => i = j)
                  => IsInjective(Kept(runs))
<1> DEFINE n == Len(runs)
           kept == CHOOSE g : IsKept(g, n, runs)
<1>1. n \in Nat /\ DOMAIN runs = 1..n
    OBVIOUS
<1>2. IsKept(kept, n, runs)
    BY <1>1, KeptExists
<1>3. Kept(runs) = kept[n]
    BY DEF Kept, IsKept, KeepOne
<1> HIDE DEF kept, n
<1> DEFINE Right(i) ==
               /\ kept[i] \in Seq(S)
               /\ \A k \in 1..Len(kept[i]) :
                      kept[i][k] # <<>> /\ \E j \in 1..i : kept[i][k] = runs[j]
               /\ \A j \in 1..i :
                      runs[j] # <<>> => \E k \in 1..Len(kept[i]) : kept[i][k] = runs[j]
               /\ (\A j, k \in DOMAIN runs : runs[j] = runs[k] /\ runs[j] # <<>> => j = k)
                      => \A j, k \in 1..Len(kept[i]) : kept[i][j] = kept[i][k] => j = k
           Bad == {i \in 0..n : ~Right(i)}
<1>4. ASSUME Bad # {} PROVE FALSE
    <2>0. Bad \in SUBSET Nat
        BY <1>1
    <2>1. PICK i \in Bad : \A j \in Bad : i <= j
        BY <1>4, <2>0, LeastElement
    <2>2. i \in Nat /\ i \in 0..n /\ ~Right(i)
        BY <2>0, <2>1
    <2>3. CASE i = 0
        <3>1. kept[0] = <<>>
            BY <1>1, <1>2 DEF IsKept
        <3>2. Right(0)
            BY <3>1
        <3> QED
            BY <2>2, <2>3, <3>2
    <2>4. CASE i # 0
        <3>1. i - 1 \in 0..n /\ i - 1 \notin Bad /\ i \in 1..n
            <4> HIDE DEF Right
            <4>1. i - 1 \in 0..n /\ i \in 1..n /\ i - 1 < i
                BY <1>1, <2>2, <2>4
            <4>2. i - 1 \notin Bad
                <5> HIDE DEF Bad
                <5> QED
                    BY <2>1, <4>1
            <4> QED
                BY <4>1, <4>2
        <3>2. Right(i - 1)
            <4> HIDE DEF Right
            <4> QED
                BY <3>1
        <3>3. kept[i] = KeepOne(kept[i - 1], runs[i])
            BY <1>2, <2>4, <2>2 DEF IsKept
        <3>4. runs[i] \in S
            BY <1>1, <3>1
        <3>5. \A j : j \in 1..i <=> j \in 1..(i - 1) \/ j = i
            BY <3>1
        <3>6. CASE runs[i] = <<>>
            BY <3>2, <3>3, <3>5, <3>6, <2>2 DEF KeepOne
        <3>7. CASE runs[i] # <<>>
            <4> DEFINE p == kept[i - 1]
                       m == Len(kept[i - 1])
            <4>1. /\ kept[i] \in Seq(S) /\ Len(kept[i]) = m + 1 /\ m \in Nat
                  /\ \A k \in 1..m : kept[i][k] = p[k]
                  /\ kept[i][m + 1] = runs[i]
                BY <3>2, <3>3, <3>4, <3>7 DEF KeepOne
            <4>2. \A k : k \in 1..(m + 1) <=> k \in 1..m \/ k = m + 1
                BY <4>1
            <4>3. \A k \in 1..Len(kept[i]) :
                      kept[i][k] # <<>> /\ \E j \in 1..i : kept[i][k] = runs[j]
                <5> TAKE k \in 1..Len(kept[i])
                <5>1. CASE k = m + 1
                    BY <5>1, <4>1, <3>5, <3>7
                <5>2. CASE k \in 1..m
                    <6>1. p[k] # <<>> /\ \E j \in 1..(i - 1) : p[k] = runs[j]
                        BY <5>2, <3>2
                    <6>2. PICK j \in 1..(i - 1) : p[k] = runs[j]
                        BY <6>1
                    <6>3. kept[i][k] = p[k] /\ j \in 1..i
                        BY <5>2, <4>1, <3>5
                    <6> QED
                        BY <6>1, <6>2, <6>3
                <5> QED
                    BY <5>1, <5>2, <4>1, <4>2
            <4>4. \A j \in 1..i :
                      runs[j] # <<>> => \E k \in 1..Len(kept[i]) : kept[i][k] = runs[j]
                <5> TAKE j \in 1..i
                <5>1. CASE j = i
                    BY <5>1, <4>1
                <5>2. CASE j \in 1..(i - 1)
                    BY <5>2, <4>1, <4>2, <3>2
                <5> QED
                    BY <5>1, <5>2, <3>5
            <4>5. ASSUME \A j, k \in DOMAIN runs : runs[j] = runs[k] /\ runs[j] # <<>> => j = k,
                         NEW j \in 1..Len(kept[i]), NEW k \in 1..Len(kept[i]),
                         kept[i][j] = kept[i][k]
                  PROVE  j = k
                <5>1. \A l \in 1..m : kept[i][l] # runs[i]
                    <6> TAKE l \in 1..m
                    <6>1. p[l] # <<>> /\ \E j1 \in 1..(i - 1) : p[l] = runs[j1]
                        BY <3>2
                    <6>2. PICK j1 \in 1..(i - 1) : p[l] = runs[j1]
                        BY <6>1
                    <6>3. j1 \in DOMAIN runs /\ i \in DOMAIN runs /\ j1 # i
                        BY <1>1, <3>1, <6>2
                    <6> QED
                        BY <6>1, <6>2, <6>3, <4>1, <4>5
                <5>2. CASE j \in 1..m /\ k \in 1..m
                    BY <5>2, <4>1, <4>5, <3>2
                <5> QED
                    BY <5>1, <5>2, <4>1, <4>2, <4>5
            <4> QED
                BY <4>1, <4>3, <4>4, <4>5, <2>2
        <3> QED
            BY <3>6, <3>7
    <2> QED
        BY <2>3, <2>4
<1>5. Right(n)
    <2>1. n \in 0..n
        BY <1>1
    <2> HIDE DEF Right
    <2>2. \A i \in 0..n : Right(i)
        BY <1>4
    <2> QED
        BY <2>1, <2>2
<1>6. DOMAIN Kept(runs) = 1..Len(kept[n])
    BY <1>3, <1>5
<1>7. ASSUME \A i, j \in DOMAIN runs : runs[i] = runs[j] /\ runs[i] # <<>> => i = j
      PROVE  IsInjective(Kept(runs))
    BY <1>3, <1>5, <1>6, <1>7 DEF IsInjective
<1>8. /\ Kept(runs) \in Seq(S)
      /\ \A i \in DOMAIN Kept(runs) :
             Kept(runs)[i] # <<>> /\ \E j \in DOMAIN runs : Kept(runs)[i] = runs[j]
    <2>1. Kept(runs) \in Seq(S)
        BY <1>3, <1>5
    <2>2. \A i \in 1..Len(kept[n]) :
              kept[n][i] # <<>> /\ \E j \in 1..n : kept[n][i] = runs[j]
        BY <1>5
    <2> HIDE DEF Right
    <2> QED
        BY <1>1, <1>3, <1>6, <2>1, <2>2
<1>9. \A j \in DOMAIN runs :
          runs[j] # <<>> => \E i \in DOMAIN Kept(runs) : Kept(runs)[i] = runs[j]
    <2>1. \A j \in 1..n :
              runs[j] # <<>> => \E i \in 1..Len(kept[n]) : kept[n][i] = runs[j]
        BY <1>5
    <2> HIDE DEF Right
    <2> QED
        BY <1>1, <1>3, <1>6, <2>1
<1> QED
    BY <1>7, <1>8, <1>9

------------------------------------------------------------------------------
(* Lines                                                                      *)

\* The square at a position of the at-th column or row.
Sq(down, at, pos) == IF down THEN pos * SIZE + at ELSE at * SIZE + pos
Stride(down) == IF down THEN SIZE ELSE 1
Across(down, cell) == IF down THEN Col(cell) ELSE Row(cell)
Along(down, cell) == IF down THEN Row(cell) ELSE Col(cell)

Full(b, down, at, pos) == pos \in Side /\ b[Sq(down, at, pos)] # None

\* From one position to the other all is full, and it ends there.
Unbroken(b, down, at, from, to) ==
    /\ from \in Side /\ to \in Side /\ from <= to
    /\ \A pos \in from..to : Full(b, down, at, pos)
    /\ ~Full(b, down, at, from - 1) /\ ~Full(b, down, at, to + 1)

LinesOn(b) ==
    {line \in [down : BOOLEAN, at : Side, from : Side, to : Side] :
        line.from < line.to /\ Unbroken(b, line.down, line.at, line.from, line.to)}

\* A square has one place across and one along, each way.
LEMMA SqIs ==
    ASSUME SIZE \in Nat, NEW d \in BOOLEAN, NEW a \in Side, NEW p \in Side
    PROVE  /\ Sq(d, a, p) \in Cells
           /\ Across(d, Sq(d, a, p)) = a /\ Along(d, Sq(d, a, p)) = p
           /\ Across(~d, Sq(d, a, p)) = p /\ Along(~d, Sq(d, a, p)) = a
    BY RowCol DEF Side, Sq, Across, Along

LEMMA IsSq ==
    ASSUME SIZE \in Nat, NEW d \in BOOLEAN, NEW x \in Cells
    PROVE  /\ Across(d, x) \in Side /\ Along(d, x) \in Side
           /\ x = Sq(d, Across(d, x), Along(d, x))
    BY CellIs DEF Side, Sq, Across, Along

\* Neighbours along a line.
LEMMA SqStep ==
    ASSUME SIZE \in Nat, NEW d \in BOOLEAN, NEW a \in Int, NEW p \in Int, NEW k \in Int
    PROVE  Sq(d, a, p) + k * Stride(d) = Sq(d, a, p + k)
<1>1. CASE d
    BY <1>1 DEF Sq, Stride
<1>2. CASE ~d
    BY <1>2 DEF Sq, Stride
<1> QED
    BY <1>1, <1>2

LEMMA SqSteps ==
    ASSUME SIZE \in Nat, NEW d \in BOOLEAN, NEW a \in Int
    PROVE  \A k \in Int, i \in Int : Sq(d, a, i) + k * Stride(d) = Sq(d, a, i + k)
    BY SqStep

\* The lines of the properties are those of any board.
LEMMA LinesAre ==
    ASSUME SIZE \in Nat
    PROVE  Lines = LinesOn(board)
<1> DEFINE R == [down : BOOLEAN, at : Side, from : Side, to : Side]
           full(line, i) == i \in Side /\ (IF line.down THEN At(i, line.at)
                                          ELSE At(line.at, i)) # None
<1>1. \A line \in R : \A i : full(line, i) <=> Full(board, line.down, line.at, i)
    BY DEF Full, Sq, At
<1>2. Lines = {line \in R : /\ line.from < line.to
                            /\ \A i \in line.from..line.to : full(line, i)
                            /\ ~full(line, line.from - 1) /\ ~full(line, line.to + 1)}
    BY DEF Lines
<1>3. \A line \in R : line.from < line.to => line.from <= line.to
    BY DEF Side
<1> HIDE DEF full
<1> QED
    BY <1>1, <1>2, <1>3 DEF LinesOn, Unbroken

\* The squares of a line, which are two or more.
LEMMA CellsOfIs ==
    ASSUME SIZE \in Nat, NEW b, NEW line \in LinesOn(b)
    PROVE  LET n == line.to - line.from + 1
           IN  /\ n \in Nat /\ n >= 2
               /\ CellsOf(line) \in [1..n -> Cells]
               /\ DOMAIN CellsOf(line) = 1..n
               /\ \A i \in 1..n : /\ line.from + i - 1 \in line.from..line.to
                                  /\ line.from + i - 1 \in Side
                                  /\ CellsOf(line)[i] = Sq(line.down, line.at, line.from + i - 1)
<1> DEFINE n == line.to - line.from + 1
<1>1. /\ line.from \in Side /\ line.to \in Side /\ line.from < line.to
      /\ line.down \in BOOLEAN /\ line.at \in Side
    BY DEF LinesOn
<1>2. n \in Nat /\ n >= 2
    BY <1>1 DEF Side
<1>3. \A i \in 1..n : line.from + i - 1 \in Side /\ line.from + i - 1 \in line.from..line.to
    BY <1>1 DEF Side
<1>4. \A i \in 1..n : CellsOf(line)[i] = Sq(line.down, line.at, line.from + i - 1)
    BY <1>1 DEF CellsOf, Sq, Side
<1>5. \A i \in 1..n : Sq(line.down, line.at, line.from + i - 1) \in Cells
    BY <1>1, <1>3, SqIs
<1>6. CellsOf(line) = [i \in 1..n |-> CellsOf(line)[i]]
    BY DEF CellsOf
<1>7. CellsOf(line) \in [1..n -> Cells]
    BY <1>4, <1>5, <1>6
<1> QED
    BY <1>2, <1>3, <1>4, <1>7

\* Through a full square there is one line, at most, each way.
LEMMA LineUnique ==
    ASSUME SIZE \in Nat, NEW b, NEW d \in BOOLEAN, NEW a \in Side,
           NEW f1, NEW t1, NEW f2, NEW t2, NEW p \in Side,
           Unbroken(b, d, a, f1, t1), p \in f1..t1,
           Unbroken(b, d, a, f2, t2), p \in f2..t2
    PROVE  f1 = f2 /\ t1 = t2
<1>0. f1 \in Int /\ t1 \in Int /\ f2 \in Int /\ t2 \in Int /\ p \in Int
    BY DEF Unbroken, Side
<1>1. ~(f1 < f2)
    <2> SUFFICES ASSUME f1 < f2 PROVE FALSE
        OBVIOUS
    <2>1. f2 - 1 \in f1..t1
        BY <1>0
    <2> QED
        BY <2>1 DEF Unbroken
<1>2. ~(f2 < f1)
    <2> SUFFICES ASSUME f2 < f1 PROVE FALSE
        OBVIOUS
    <2>1. f1 - 1 \in f2..t2
        BY <1>0
    <2> QED
        BY <2>1 DEF Unbroken
<1>3. ~(t1 < t2)
    <2> SUFFICES ASSUME t1 < t2 PROVE FALSE
        OBVIOUS
    <2>1. t1 + 1 \in f2..t2
        BY <1>0
    <2> QED
        BY <2>1 DEF Unbroken
<1>4. ~(t2 < t1)
    <2> SUFFICES ASSUME t2 < t1 PROVE FALSE
        OBVIOUS
    <2>1. t2 + 1 \in f1..t1
        BY <1>0
    <2> QED
        BY <2>1 DEF Unbroken
<1> QED
    BY <1>0, <1>1, <1>2, <1>3, <1>4

LEMMA MaxUpTo ==
    ASSUME NEW n \in Nat, NEW S \in SUBSET (0..n), S # {}
    PROVE  Max(S) \in S /\ \A k \in S : k <= Max(S)
<1> DEFINE Back == {n - k : k \in S}
<1>1. \A k \in S : n - k \in Nat
    OBVIOUS
<1>2. Back \in SUBSET Nat /\ Back # {}
    BY <1>1
<1>3. PICK m \in Back : \A c \in Back : m <= c
    BY <1>2, LeastElement
<1>4. PICK k \in S : m = n - k
    BY <1>3
<1>5. \A j \in S : n - k <= n - j
    BY <1>3, <1>4
<1>6. \A j \in S : j <= k
    BY <1>5
<1> QED
    BY <1>6 DEF Max

\* How far the tiles go on: to the first free square or the limit.
LEMMA ReachIs ==
    ASSUME NEW b, NEW cell, NEW step, NEW limit \in Nat, NEW k, k = Reach(b, cell, step, limit)
    PROVE  /\ k \in 0..limit
           /\ \A j \in 1..k : b[cell + j * step] # None
           /\ k < limit => b[cell + (k + 1) * step] = None
<1> DEFINE S == {n \in 0..limit : \A j \in 1..n : b[cell + j * step] # None}
<1>1. S \in SUBSET (0..limit) /\ 0 \in S
    OBVIOUS
<1>2. k = Max(S)
    BY DEF Reach
<1>3. k \in S /\ \A n \in S : n <= k
    BY <1>1, <1>2, MaxUpTo
<1>4. ASSUME k < limit, b[cell + (k + 1) * step] # None PROVE FALSE
    <2>1. k \in Nat /\ k + 1 \in 0..limit
        BY <1>3, <1>4
    <2>2. \A j \in 1..(k + 1) : j \in 1..k \/ j = k + 1
        BY <2>1
    <2>3. k + 1 \in S
        BY <1>3, <1>4, <2>1, <2>2
    <2> QED
        BY <1>3, <2>1, <2>3
<1> QED
    BY <1>3, <1>4

\* The squares of the line on b through position p.
IsLine(b, d, a, p, run) ==
    \E line \in LinesOn(b) :
        /\ line.down = d /\ line.at = a /\ p \in line.from..line.to
        /\ run = CellsOf(line)

\* The run through a full square is the line through it that way, if there is one.
LEMMA RunIs ==
    ASSUME SIZE \in Nat, NEW b, NEW d \in BOOLEAN, NEW a \in Side, NEW p \in Side,
           Full(b, d, a, p)
    PROVE  \/ /\ RunThrough(b, Sq(d, a, p), Stride(d)) = <<>>
              /\ Unbroken(b, d, a, p, p)
           \/ IsLine(b, d, a, p, RunThrough(b, Sq(d, a, p), Stride(d)))
<1> DEFINE cell == Sq(d, a, p)
           step == Stride(d)
           back == Reach(b, cell, -step, p)
           on == Reach(b, cell, step, SIZE - 1 - p)
           from == p - back
           to == p + on
<1>1. p \in Nat /\ SIZE - 1 - p \in Nat /\ a \in Nat /\ step \in Int
    BY DEF Side, Stride
<1>2. (IF step = 1 THEN Col(cell) ELSE Row(cell)) = p
    <2>1. Along(d, cell) = p /\ Across(d, cell) = a
        BY SqIs
    <2>2. CASE ~d
        BY <2>1, <2>2 DEF Stride, Along
    <2>3. CASE d /\ SIZE # 1
        BY <2>1, <2>3 DEF Stride, Along
    <2>4. CASE d /\ SIZE = 1
        <3>1. a = 0 /\ p = 0 /\ step = 1
            BY <2>4 DEF Side, Stride
        <3>2. Col(cell) = a
            BY <2>1, <2>4 DEF Across
        <3> HIDE DEF step, cell
        <3> QED
            BY <3>1, <3>2
    <2> QED
        BY <2>2, <2>3, <2>4
<1>3. /\ back \in 0..p
      /\ \A j \in 1..back : b[cell + j * (-step)] # None
      /\ back < p => b[cell + (back + 1) * (-step)] = None
    BY <1>1, ReachIs
<1>4. /\ on \in 0..(SIZE - 1 - p)
      /\ \A j \in 1..on : b[cell + j * step] # None
      /\ on < SIZE - 1 - p => b[cell + (on + 1) * step] = None
    BY <1>1, ReachIs
<1>5. RunThrough(b, cell, step)
          = IF back + on = 0 THEN <<>>
            ELSE [i \in 1..(back + on + 1) |-> cell + (i - 1 - back) * step]
    BY <1>2 DEF RunThrough
<1>6. \A j \in Int : cell + j * step = Sq(d, a, p + j) /\ cell + j * (-step) = Sq(d, a, p - j)
    <2>0. a \in Int /\ p \in Int
        BY <1>1
    <2>a. \A k \in Int : Sq(d, a, p) + k * Stride(d) = Sq(d, a, p + k)
        BY <2>0, SqStep
    <2> TAKE j \in Int
    <2>1. cell + j * step = Sq(d, a, p + j)
        BY <2>a
    <2>2. -j \in Int /\ p + (-j) = p - j /\ j * (-step) = (-j) * step
        BY <1>1
    <2>3. cell + (-j) * step = Sq(d, a, p + (-j))
        BY <2>2, <2>a
    <2> QED
        BY <2>1, <2>2, <2>3
<1> HIDE DEF cell, step, back, on
<1>7. from \in Side /\ to \in Side /\ from <= to /\ p \in from..to
    BY <1>1, <1>3, <1>4 DEF Side
<1>8. \A pos \in from..to : Full(b, d, a, pos)
    <2> TAKE pos \in from..to
    <2>0. pos \in Side /\ pos \in Int
        BY <1>7 DEF Side
    <2>1. CASE pos = p
        BY <2>1
    <2>2. CASE pos < p
        <3>1. p - pos \in 1..back /\ p - (p - pos) = pos
            BY <1>1, <1>3, <2>0, <2>2
        <3>2. b[Sq(d, a, p - (p - pos))] # None
            BY <1>3, <1>6, <3>1
        <3> QED
            BY <2>0, <3>1, <3>2 DEF Full
    <2>3. CASE pos > p
        <3>1. pos - p \in 1..on /\ p + (pos - p) = pos
            BY <1>1, <1>4, <2>0, <2>3
        <3>2. b[Sq(d, a, p + (pos - p))] # None
            BY <1>4, <1>6, <3>1
        <3> QED
            BY <2>0, <3>1, <3>2 DEF Full
    <2> QED
        BY <1>1, <2>0, <2>1, <2>2, <2>3
<1>9. ~Full(b, d, a, from - 1)
    <2>1. CASE back < p
        <3>1. back + 1 \in Int /\ p - (back + 1) = from - 1
            BY <1>1, <1>3
        <3> QED
            BY <2>1, <3>1, <1>3, <1>6 DEF Full
    <2>2. CASE ~(back < p)
        BY <2>2, <1>1, <1>3 DEF Full, Side
    <2> QED
        BY <2>1, <2>2
<1>10. ~Full(b, d, a, to + 1)
    <2>1. CASE on < SIZE - 1 - p
        <3>1. on + 1 \in Int /\ p + (on + 1) = to + 1
            BY <1>1, <1>4
        <3> QED
            BY <2>1, <3>1, <1>4, <1>6 DEF Full
    <2>2. CASE ~(on < SIZE - 1 - p)
        BY <2>2, <1>1, <1>4 DEF Full, Side
    <2> QED
        BY <2>1, <2>2
<1>11. Unbroken(b, d, a, from, to)
    BY <1>7, <1>8, <1>9, <1>10 DEF Unbroken
<1>12. back \in Nat /\ on \in Nat
    BY <1>3, <1>4
<1>13. CASE back + on = 0
    <2>1. from = p /\ to = p
        BY <1>1, <1>12, <1>13
    <2> QED
        BY <2>1, <1>5, <1>11, <1>13 DEF cell, step
<1>14. CASE back + on # 0
    <2> DEFINE line == [down |-> d, at |-> a, from |-> from, to |-> to]
    <2>1. from < to
        BY <1>1, <1>12, <1>14
    <2>2. line \in LinesOn(b)
        BY <1>7, <1>11, <2>1 DEF LinesOn
    <2>3. back + on + 1 = to - from + 1
        BY <1>1, <1>12
    <2>4. \A i \in 1..(back + on + 1) :
              cell + (i - 1 - back) * step = Sq(d, a, from + i - 1)
        <3> TAKE i \in 1..(back + on + 1)
        <3>1. i - 1 - back \in Int /\ p + (i - 1 - back) = from + i - 1
            BY <1>1, <1>12
        <3> QED
            BY <3>1, <1>6
    <2>5. /\ CellsOf(line) \in [1..(back + on + 1) -> Cells]
          /\ \A i \in 1..(back + on + 1) : CellsOf(line)[i] = Sq(d, a, from + i - 1)
        BY <2>2, <2>3, CellsOfIs
    <2>6. RunThrough(b, cell, step) = CellsOf(line)
        BY <1>5, <1>14, <2>4, <2>5
    <2>7. line.down = d /\ line.at = a /\ p \in line.from..line.to
        BY <1>7
    <2> HIDE DEF line
    <2> QED
        BY <2>2, <2>6, <2>7 DEF cell, step, IsLine
<1> QED
    BY <1>13, <1>14

\* Every line is the run through each of its squares.
LEMMA LineIsRun ==
    ASSUME SIZE \in Nat, NEW b, NEW line \in LinesOn(b), NEW p \in line.from..line.to
    PROVE  /\ p \in Side /\ Full(b, line.down, line.at, p)
           /\ RunThrough(b, Sq(line.down, line.at, p), Stride(line.down)) = CellsOf(line)
<1> DEFINE d == line.down
           a == line.at
<1>1. /\ d \in BOOLEAN /\ a \in Side /\ line.from \in Side /\ line.to \in Side
      /\ line.from < line.to /\ Unbroken(b, d, a, line.from, line.to)
      /\ line = [down |-> d, at |-> a, from |-> line.from, to |-> line.to]
    BY DEF LinesOn
<1>2. p \in Side /\ Full(b, d, a, p)
    BY <1>1 DEF Unbroken, Side
<1>3. ~Unbroken(b, d, a, p, p)
    <2> SUFFICES ASSUME Unbroken(b, d, a, p, p) PROVE FALSE
        OBVIOUS
    <2>1. p \in p..p
        BY <1>2 DEF Side
    <2>2. line.from = p /\ line.to = p
        BY <1>1, <1>2, <2>1, LineUnique
    <2> QED
        BY <1>1, <2>2 DEF Side
<1>4. PICK l2 \in LinesOn(b) :
          /\ l2.down = d /\ l2.at = a /\ p \in l2.from..l2.to
          /\ RunThrough(b, Sq(d, a, p), Stride(d)) = CellsOf(l2)
    BY <1>1, <1>2, <1>3, RunIs DEF IsLine
<1>5. /\ Unbroken(b, d, a, l2.from, l2.to)
      /\ l2 = [down |-> d, at |-> a, from |-> l2.from, to |-> l2.to]
    BY <1>4 DEF LinesOn
<1>6. l2.from = line.from /\ l2.to = line.to
    BY <1>1, <1>2, <1>4, <1>5, LineUnique
<1>7. l2 = line
    BY <1>1, <1>5, <1>6
<1> QED
    BY <1>2, <1>4, <1>7

------------------------------------------------------------------------------
(* The words of a play                                                        *)

\* What is along one way is across the other.
LEMMA SqCross ==
    ASSUME SIZE \in Nat, NEW d \in BOOLEAN, NEW e \in BOOLEAN, d # e
    PROVE  /\ \A x : Across(e, x) = Along(d, x) /\ Along(e, x) = Across(d, x)
           /\ \A a, p \in Side : Across(e, Sq(d, a, p)) = p /\ Along(e, Sq(d, a, p)) = a
           /\ \A a, p : Sq(d, a, p) = Sq(e, p, a)
<1>1. \A x : Across(e, x) = Along(d, x) /\ Along(e, x) = Across(d, x)
    BY DEF Across, Along
<1>2. \A a, p : Sq(d, a, p) = Sq(e, p, a)
    BY DEF Sq
<1>3. \A a, p \in Side : Across(d, Sq(d, a, p)) = a /\ Along(d, Sq(d, a, p)) = p
    BY SqIs
<1> QED
    BY <1>1, <1>2, <1>3

\* A line's squares, by position.
LEMMA OnLine ==
    ASSUME SIZE \in Nat, NEW b, NEW line \in LinesOn(b), NEW x
    PROVE  x \in Range(CellsOf(line))
               <=> \E p \in line.from..line.to : x = Sq(line.down, line.at, p)
<1> DEFINE n == line.to - line.from + 1
<1>1. line.from \in Nat /\ line.to \in Nat
    BY DEF LinesOn, Side
<1>2. /\ DOMAIN CellsOf(line) = 1..n
      /\ \A i \in 1..n : /\ line.from + i - 1 \in line.from..line.to
                         /\ CellsOf(line)[i] = Sq(line.down, line.at, line.from + i - 1)
    BY CellsOfIs
<1>3. ASSUME x \in Range(CellsOf(line))
      PROVE  \E p \in line.from..line.to : x = Sq(line.down, line.at, p)
    BY <1>2, <1>3 DEF Range
<1>4. ASSUME NEW p \in line.from..line.to, x = Sq(line.down, line.at, p)
      PROVE  x \in Range(CellsOf(line))
    <2>1. p - line.from + 1 \in 1..n /\ line.from + (p - line.from + 1) - 1 = p
        BY <1>1
    <2>2. CellsOf(line)[p - line.from + 1] = Sq(line.down, line.at, line.from + (p - line.from + 1) - 1)
        BY <1>2, <2>1
    <2> QED
        BY <1>2, <1>4, <2>1, <2>2 DEF Range
<1> QED
    BY <1>3, <1>4

LEMMA Multiple ==
    ASSUME NEW k \in Int, NEW n \in Nat, n > 0
    PROVE  (k * n) % n = 0
    OBVIOUS

\* The way a play was laid, told from its first two squares: it has all tiles on
\* one row or column, and no gap between them.
LEMMA MainWay ==
    ASSUME SIZE \in Nat, RACK \in Nat, NEW b, b = [cell \in Cells |-> b[cell]],
           NEW ps, Laid(ps), ValidPlacement(b, ps),
           NEW cells, cells = InOrder(Fresh(ps)),
           NEW m \in BOOLEAN, m = ~(Len(cells) = 1 \/ cells[2] - cells[1] < SIZE)
    PROVE  \E a \in Side :
               /\ \A x \in Fresh(ps) : Across(m, x) = a
               /\ \A x, y \in Fresh(ps) : \A pos \in Along(m, x)..Along(m, y) :
                      Full(WithPlacements(b, ps), m, a, pos)
<1> DEFINE F == Fresh(ps)
           n == Cardinality(F)
           after == WithPlacements(b, ps)
<1>1. /\ \A p \in ps : p.row < SIZE /\ p.col < SIZE
      /\ SameRow(ps) \/ SameCol(ps)
      /\ NoGap(b, ps)
      /\ ps # {}
    <2>1. ps # {}
        BY FS_EmptySet DEF ValidPlacement
    <2> QED
        BY <2>1 DEF ValidPlacement
<1>2. /\ F \in SUBSET Cells /\ F # {}
      /\ \A p \in ps : /\ p.row \in 0..(SIZE - 1) /\ Row(Cell(p)) = p.row
                       /\ p.col \in 0..(SIZE - 1) /\ Col(Cell(p)) = p.col
    BY <1>1, PlacedOnBoard DEF Fresh
<1>3. /\ cells \in [1..n -> F] /\ Len(cells) = n
      /\ \A i, j \in 1..n : i < j => cells[i] < cells[j]
      /\ \A x \in F : \E i \in 1..n : cells[i] = x
      /\ n \in Nat
    <2> HIDE DEF F
    <2>1. n \in Nat
        BY <1>2, CellsFinite
    <2>2. /\ InOrder(F) \in [1..n -> F] /\ Len(InOrder(F)) = n
          /\ \A i, j \in 1..n : i < j => InOrder(F)[i] < InOrder(F)[j]
          /\ \A x \in F : \E i \in 1..n : InOrder(F)[i] = x
        BY <1>2, InOrderIs
    <2>3. cells = InOrder(F)
        BY DEF F
    <2> QED
        BY <2>1, <2>2, <2>3
<1>4. n # 0
    BY <1>2, <1>3
<1>5. \A x \in F : x \in Nat /\ Row(x) \in Side /\ Col(x) \in Side /\ x = Row(x) * SIZE + Col(x)
    BY <1>2, CellIs, CellsFinite DEF Side
<1>6. SIZE > 0
    BY <1>2 DEF Fresh
<1> HIDE DEF n
<1>7. ASSUME SameRow(ps) PROVE ~m /\ \A x, y \in F : Row(x) = Row(y)
    <2>1. \A x, y \in F : Row(x) = Row(y)
        BY <1>2, <1>7 DEF SameRow, Fresh
    <2>2. n # 1 => cells[2] - cells[1] < SIZE
        <3> SUFFICES ASSUME n # 1 PROVE cells[2] - cells[1] < SIZE
            OBVIOUS
        <3>1. cells[1] \in F /\ cells[2] \in F
            BY <1>3, <1>4
        <3>2. PICK r \in Side, c1 \in Side, c2 \in Side :
                  cells[1] = r * SIZE + c1 /\ cells[2] = r * SIZE + c2
            BY <1>5, <2>1, <3>1
        <3> QED
            BY <3>2 DEF Side
    <2> QED
        BY <1>3, <2>1, <2>2
<1>8. ASSUME ~SameRow(ps) PROVE m /\ \A x, y \in F : Col(x) = Col(y)
    <2>1. \A x, y \in F : Col(x) = Col(y)
        BY <1>1, <1>2, <1>8 DEF SameCol, Fresh
    <2>2. PICK p \in ps, q \in ps : p.row # q.row
        BY <1>8 DEF SameRow
    <2>3. Cell(p) \in F /\ Cell(q) \in F /\ Cell(p) # Cell(q)
        BY <2>2, <1>2 DEF Fresh
    <2>4. n # 1
        <3> SUFFICES ASSUME n = 1 PROVE FALSE
            OBVIOUS
        <3>1. \A x \in F : x = cells[1]
            BY <1>3
        <3> QED
            BY <2>3, <3>1
    <2>5. cells[1] \in F /\ cells[2] \in F /\ cells[1] < cells[2]
        BY <1>3, <1>4, <2>4
    <2>6. PICK r1 \in Side, r2 \in Side, c \in Side :
              cells[1] = r1 * SIZE + c /\ cells[2] = r2 * SIZE + c
        BY <1>5, <2>1, <2>5
    <2>7. r1 < r2
        <3> SUFFICES ASSUME r2 <= r1 PROVE FALSE
            BY <2>6 DEF Side
        <3>1. r2 * SIZE <= r1 * SIZE
            BY <2>6 DEF Side
        <3> QED
            BY <3>1, <2>5, <2>6 DEF Side
    <2>8. cells[2] - cells[1] >= SIZE
        <3>1. r2 * SIZE >= (r1 + 1) * SIZE
            BY <2>6, <2>7 DEF Side
        <3>2. (r1 + 1) * SIZE = r1 * SIZE + SIZE
            BY <2>6 DEF Side
        <3> QED
            BY <3>1, <3>2, <2>6 DEF Side
    <2>9. ~(cells[2] - cells[1] < SIZE)
        BY <2>5, <2>8, <1>5
    <2> QED
        BY <1>3, <2>1, <2>4, <2>9
<1>9. \A x, y \in F : Across(m, x) = Across(m, y)
    BY <1>7, <1>8 DEF Across
<1>10. PICK x0 \in F : TRUE
    BY <1>2
<1> DEFINE a == Across(m, x0)
<1>11. a \in Side /\ \A x \in F : Across(m, x) = a /\ Along(m, x) \in Side
    BY <1>2, <1>9, IsSq
<1> HIDE DEF a
<1>12. Min(F) \in F /\ Max(F) \in F /\ \A x \in F : Min(F) <= x /\ x <= Max(F)
    BY <1>2, FirstAndLast
<1>13. \A at \in Min(F)..Max(F) : (at - Min(F)) % Stride(m) = 0 => at \in F \/ b[at] # None
    BY <1>1, <1>7, <1>8 DEF NoGap, Fresh, Stride
<1>14. \A x \in F : x = Sq(m, a, Along(m, x))
    BY <1>2, <1>11, IsSq
<1>15. \A x \in Cells : x \in F \/ b[x] # None => after[x] # None
    <2>1. TilesOn(after) = TilesOn(b) \cup F
        BY AfterIs
    <2> QED
        BY <2>1, <1>2 DEF TilesOn
<1>16. ASSUME NEW x \in F, NEW y \in F, NEW pos \in Along(m, x)..Along(m, y)
       PROVE  Full(after, m, a, pos)
    <2> DEFINE lo == Min(F)
               at == Sq(m, a, pos)
               pl == Along(m, lo)
               px == Along(m, x)
               py == Along(m, y)
    <2>1. pos \in Side /\ px \in Side /\ py \in Side /\ pl \in Side /\ px <= pos /\ pos <= py
        BY <1>11, <1>12, <1>16 DEF Side
    <2>2. at \in Cells /\ at \in Nat /\ Stride(m) \in Nat /\ Stride(m) > 0
        <3>1. at \in Cells
            BY <1>11, <2>1, SqIs
        <3>2. at \in Nat
            BY <3>1, CellsFinite
        <3>3. Stride(m) \in Nat /\ Stride(m) > 0
            BY <1>6 DEF Stride
        <3> QED
            BY <3>1, <3>2, <3>3
    <2>3. x = Sq(m, a, px) /\ y = Sq(m, a, py) /\ lo = Sq(m, a, pl)
        BY <1>12, <1>14
    <2> HIDE DEF lo, at, pl, px, py
    <2>4. \A k \in Int, i \in Int : Sq(m, a, i) + k * Stride(m) = Sq(m, a, i + k)
        <3>1. a \in Int
            BY <1>11 DEF Side
        <3>2. m \in BOOLEAN
            OBVIOUS
        <3> QED
            BY <3>1, <3>2, SqSteps
    <2>5. at = x + (pos - px) * Stride(m) /\ y = at + (py - pos) * Stride(m)
          /\ at = lo + (pos - pl) * Stride(m)
        BY <2>1, <2>3, <2>4 DEF Side, at
    <2>6. (pos - px) * Stride(m) >= 0 /\ (py - pos) * Stride(m) >= 0
        BY <2>1, <2>2 DEF Side
    <2>7. lo \in Nat /\ lo <= x /\ x \in Nat /\ y \in Nat /\ y <= Max(F) /\ Max(F) \in Nat
        BY <1>5, <1>12 DEF lo
    <2>8. x <= at /\ at <= y
        BY <2>1, <2>2, <2>5, <2>6, <2>7 DEF Side
    <2>9. at \in Min(F)..Max(F)
        BY <2>2, <2>7, <2>8 DEF lo
    <2>10. (at - Min(F)) % Stride(m) = 0
        <3>1. at - lo = (pos - pl) * Stride(m) /\ pos - pl \in Int
            BY <2>1, <2>2, <2>5, <2>7 DEF Side
        <3>2. ((pos - pl) * Stride(m)) % Stride(m) = 0
            BY <2>2, <3>1, Multiple
        <3> QED
            BY <3>1, <3>2 DEF lo
    <2>11. after[at] # None
        BY <1>13, <1>15, <2>2, <2>9, <2>10
    <2> QED
        BY <2>1, <2>11 DEF Full, at
<1> QED
    BY <1>11, <1>16

\* One put before many.
LEMMA OneAndMore ==
    ASSUME NEW S, NEW v \in Seq(S), Len(v) = 1, NEW w \in Seq(S)
    PROVE  /\ v \o w \in Seq(S) /\ Len(v \o w) = Len(w) + 1 /\ (v \o w)[1] = v[1]
           /\ \A i \in 1..Len(w) : (v \o w)[i + 1] = w[i]
<1>0. Len(w) \in Nat
    BY LenProperties
<1>1. v \o w \in Seq(S) /\ Len(v \o w) = Len(w) + 1
    <2>1. v \o w \in Seq(S) /\ Len(v \o w) = Len(v) + Len(w)
        BY ConcatProperties
    <2> QED
        BY <1>0, <2>1
<1>2. (v \o w)[1] = v[1]
    BY ConcatProperties
<1>3. \A i \in 1..Len(w) : (v \o w)[i + 1] = w[i]
    <2> TAKE i \in 1..Len(w)
    <2>1. i + 1 \in 1..(Len(v) + Len(w)) /\ i + 1 > Len(v) /\ i + 1 - Len(v) = i
        OBVIOUS
    <2>2. \A j \in 1..(Len(v) + Len(w)) :
              (v \o w)[j] = IF j <= Len(v) THEN v[j] ELSE w[j - Len(v)]
        BY ConcatProperties
    <2>3. (v \o w)[i + 1] = w[i + 1 - Len(v)]
        <3> DEFINE j == i + 1
        <3>1. j \in 1..(Len(v) + Len(w)) /\ ~(j <= Len(v))
            BY <2>1
        <3> HIDE DEF j
        <3>2. (v \o w)[j] = IF j <= Len(v) THEN v[j] ELSE w[j - Len(v)]
            BY <2>2, <3>1
        <3>3. (v \o w)[j] = w[j - Len(v)]
            BY <3>1, <3>2
        <3> QED
            BY <3>3 DEF j
    <2> QED
        BY <2>1, <2>3
<1> QED
    BY <1>1, <1>2, <1>3

\* The words of a play are the lines through its squares, each of them once.
LEMMA WordsAre ==
    ASSUME SIZE \in Nat, RACK \in Nat, NEW b, b = [cell \in Cells |-> b[cell]],
           NEW ps, Laid(ps), ValidPlacement(b, ps)
    PROVE  /\ Range(WordsFormed(b, ps))
                  = {run \in {CellsOf(line) : line \in LinesOn(WithPlacements(b, ps))} :
                         Range(run) \cap Fresh(ps) # {}}
           /\ IsInjective(WordsFormed(b, ps))
<1> DEFINE F == Fresh(ps)
           n == Cardinality(F)
           after == WithPlacements(b, ps)
           cells == InOrder(F)
           m == ~(Len(cells) = 1 \/ cells[2] - cells[1] < SIZE)
           c == ~m
<1>1. F \in SUBSET Cells /\ F # {}
    <2>1. ps # {}
        BY FS_EmptySet DEF ValidPlacement
    <2>2. \A p \in ps : p.row < SIZE /\ p.col < SIZE
        BY DEF ValidPlacement
    <2> QED
        BY <2>1, <2>2, PlacedOnBoard DEF Fresh
<1>2. /\ n \in Nat /\ n # 0
      /\ cells \in [1..n -> F] /\ cells \in Seq(F) /\ Len(cells) = n
      /\ \A i, j \in 1..n : cells[i] = cells[j] => i = j
      /\ \A x \in F : \E i \in 1..n : cells[i] = x
    <2> HIDE DEF F
    <2>1. n \in Nat
        BY <1>1, CellsFinite
    <2>2. /\ cells \in [1..n -> F] /\ cells \in Seq(F) /\ Len(cells) = n
          /\ \A i, j \in 1..n : cells[i] = cells[j] => i = j
          /\ \A x \in F : \E i \in 1..n : cells[i] = x
        BY <1>1, InOrderIs
    <2>3. n # 0
        BY <1>1, <2>2
    <2> QED
        BY <2>1, <2>2, <2>3
<1>3. m \in BOOLEAN /\ c \in BOOLEAN /\ m # c
    OBVIOUS
<1>4. PICK a \in Side :
          /\ \A x \in F : Across(m, x) = a
          /\ \A x, y \in F : \A pos \in Along(m, x)..Along(m, y) : Full(after, m, a, pos)
    BY MainWay
<1> DEFINE R == <<RunThrough(after, cells[1], Stride(m))>>
                \o [i \in DOMAIN cells |-> RunThrough(after, cells[i], Stride(c))]
           S == {RunThrough(after, x, Stride(d)) : x \in F, d \in BOOLEAN}
<1>5. WordsFormed(b, ps) = Kept(R)
    BY DEF WordsFormed, Stride, Fresh
<1> HIDE DEF F, n, after, cells, m, c
<1>6. /\ R \in Seq(S) /\ Len(R) = n + 1 /\ DOMAIN R = 1..(n + 1)
      /\ R[1] = RunThrough(after, cells[1], Stride(m))
      /\ \A i \in 1..n : R[i + 1] = RunThrough(after, cells[i], Stride(c))
    <2>1. DOMAIN cells = 1..n
        BY <1>2
    <2> DEFINE X == <<RunThrough(after, cells[1], Stride(m))>>
               Y == [i \in DOMAIN cells |-> RunThrough(after, cells[i], Stride(c))]
    <2>2. X \in Seq(S) /\ Len(X) = 1 /\ X[1] = RunThrough(after, cells[1], Stride(m))
        <3>1. cells[1] \in F
            BY <1>2
        <3>2. RunThrough(after, cells[1], Stride(m)) \in S
            BY <3>1, <1>3
        <3> QED
            BY <3>2
    <2>3. /\ Y \in Seq(S) /\ Len(Y) = n
          /\ \A i \in 1..n : Y[i] = RunThrough(after, cells[i], Stride(c))
        <3>1. \A i \in 1..n : RunThrough(after, cells[i], Stride(c)) \in S
            BY <1>2, <1>3
        <3>2. Y = [i \in 1..n |-> Y[i]] /\ \A i \in 1..n : Y[i] \in S
            BY <2>1, <3>1
        <3> HIDE DEF S, Y
        <3>a. Y \in [1..n -> S]
            BY <3>2
        <3>b. Y \in Seq(S)
            BY <1>2, <3>a, SeqDef
        <3>c. DOMAIN Y = 1..n /\ DOMAIN Y = 1..Len(Y) /\ Len(Y) \in Nat
            <4>1. DOMAIN Y = 1..n
                BY <3>a
            <4>2. DOMAIN Y = 1..Len(Y) /\ Len(Y) \in Nat
                BY <3>b, LenProperties
            <4> QED
                BY <4>1, <4>2
        <3>3. Y \in Seq(S) /\ Len(Y) = n
            BY <1>2, <3>b, <3>c
        <3> QED
            BY <2>1, <3>3 DEF Y
    <2> HIDE DEF X, Y, S
    <2>4. R = X \o Y
        BY DEF X, Y
    <2> HIDE DEF R
    <2>5. /\ R \in Seq(S) /\ Len(R) = n + 1 /\ R[1] = X[1]
          /\ \A i \in 1..n : R[i + 1] = Y[i]
        <3>1. /\ X \o Y \in Seq(S) /\ Len(X \o Y) = Len(Y) + 1 /\ (X \o Y)[1] = X[1]
              /\ \A i \in 1..Len(Y) : (X \o Y)[i + 1] = Y[i]
            BY <2>2, <2>3, OneAndMore
        <3> QED
            BY <2>3, <2>4, <3>1
    <2>6. DOMAIN R = 1..(n + 1)
        BY <2>5
    <2> QED
        BY <1>2, <2>2, <2>3, <2>5, <2>6
<1> HIDE DEF R, S
<1>7. \A x \in F : /\ x \in Cells /\ Along(m, x) \in Side /\ x = Sq(m, a, Along(m, x))
                   /\ x = Sq(c, Along(m, x), a)
                   /\ Full(after, m, a, Along(m, x)) /\ Full(after, c, Along(m, x), a)
    <2> TAKE x \in F
    <2>1. x \in Cells /\ Along(m, x) \in Side /\ x = Sq(m, a, Along(m, x))
        BY <1>1, <1>3, <1>4, IsSq
    <2>2. x = Sq(c, Along(m, x), a)
        BY <1>3, <2>1, SqCross
    <2>3. Along(m, x) \in Along(m, x)..Along(m, x)
        BY <2>1 DEF Side
    <2>4. Full(after, m, a, Along(m, x))
        BY <1>4, <2>3
    <2>5. Full(after, c, Along(m, x), a)
        BY <1>4, <2>1, <2>2, <2>4 DEF Full
    <2> QED
        BY <2>1, <2>2, <2>4, <2>5
\* What there is of the first square the main way and of the others across.
<1>8. R[1] # <<>> => \E line \in LinesOn(after) :
          line.down = m /\ line.at = a /\ R[1] = CellsOf(line)
                /\ cells[1] \in Range(CellsOf(line))
    <2> SUFFICES ASSUME R[1] # <<>>
                 PROVE  \E line \in LinesOn(after) :
                            line.down = m /\ line.at = a /\ R[1] = CellsOf(line)
                                /\ cells[1] \in Range(CellsOf(line))
        OBVIOUS
    <2>1. cells[1] \in F
        BY <1>2
    <2> DEFINE p == Along(m, cells[1])
    <2>2. p \in Side /\ cells[1] = Sq(m, a, p) /\ Full(after, m, a, p)
        BY <1>7, <2>1
    <2> HIDE DEF p
    <2>a. R[1] = RunThrough(after, Sq(m, a, p), Stride(m))
        BY <1>6, <2>2
    <2>3. PICK line \in LinesOn(after) :
              line.down = m /\ line.at = a /\ p \in line.from..line.to /\ R[1] = CellsOf(line)
        <3>1. IsLine(after, m, a, p, RunThrough(after, Sq(m, a, p), Stride(m)))
            BY <1>3, <1>4, <2>2, <2>a, RunIs
        <3> QED
            BY <2>a, <3>1 DEF IsLine
    <2>4. cells[1] \in Range(CellsOf(line))
        BY <2>2, <2>3, OnLine
    <2> QED
        BY <2>3, <2>4
<1>9. \A i \in 1..n : R[i + 1] # <<>> => \E line \in LinesOn(after) :
          line.down = c /\ line.at = Along(m, cells[i]) /\ R[i + 1] = CellsOf(line)
                /\ cells[i] \in Range(CellsOf(line))
    <2> SUFFICES ASSUME NEW i \in 1..n, R[i + 1] # <<>>
                 PROVE  \E line \in LinesOn(after) :
                            line.down = c /\ line.at = Along(m, cells[i])
                                /\ R[i + 1] = CellsOf(line)
                                /\ cells[i] \in Range(CellsOf(line))
        OBVIOUS
    <2>1. cells[i] \in F
        BY <1>2
    <2> DEFINE p == Along(m, cells[i])
    <2>2. p \in Side /\ cells[i] = Sq(c, p, a) /\ Full(after, c, p, a)
        BY <1>7, <2>1
    <2> HIDE DEF p
    <2>a. R[i + 1] = RunThrough(after, Sq(c, p, a), Stride(c))
        BY <1>6, <2>2
    <2>3. PICK line \in LinesOn(after) :
              line.down = c /\ line.at = p /\ a \in line.from..line.to /\ R[i + 1] = CellsOf(line)
        <3>1. IsLine(after, c, p, a, RunThrough(after, Sq(c, p, a), Stride(c)))
            BY <1>3, <1>4, <2>2, <2>a, RunIs
        <3> QED
            BY <2>a, <3>1 DEF IsLine
    <2>4. cells[i] \in Range(CellsOf(line))
        BY <2>2, <2>3, OnLine
    <2> QED
        BY <2>3, <2>4 DEF p
<1>10. ASSUME NEW line \in LinesOn(after), Range(CellsOf(line)) \cap F # {}
       PROVE  CellsOf(line) # <<>> /\ \E j \in 1..(n + 1) : R[j] = CellsOf(line)
    <2>1. PICK x \in F : x \in Range(CellsOf(line))
        BY <1>10
    <2>2. PICK p \in line.from..line.to : x = Sq(line.down, line.at, p)
        BY <2>1, OnLine
    <2>3. /\ line.down \in BOOLEAN /\ line.at \in Side /\ p \in Side
          /\ Unbroken(after, line.down, line.at, line.from, line.to)
          /\ line.from \in Int /\ line.to \in Int
        BY <2>2, LineIsRun DEF LinesOn, Side
    <2>4. CellsOf(line) # <<>>
        BY <2>1 DEF Range
    <2>5. PICK i \in 1..n : cells[i] = x
        BY <1>2
    <2>6. CASE line.down = c
        <3>1. line.at = Along(m, x)
            BY <1>3, <2>2, <2>3, <2>6, SqCross, SqIs
        <3>2. RunThrough(after, x, Stride(c)) = CellsOf(line)
            BY <2>2, <2>6, LineIsRun
        <3>3. R[i + 1] = CellsOf(line) /\ i + 1 \in 1..(n + 1)
            BY <1>2, <1>6, <2>5, <3>2
        <3> QED
            BY <2>4, <3>3
    <2>7. CASE line.down = m
        <3>1. line.at = a /\ p = Along(m, x)
            BY <1>4, <2>2, <2>3, <2>7, SqIs
        <3> DEFINE y == cells[1]
                   q == Along(m, y)
        <3>2. y \in F /\ q \in Side /\ y = Sq(m, a, q)
            BY <1>2, <1>7
        <3> HIDE DEF y, q
        <3>3. q \in Int /\ p \in Int
            BY <2>3, <3>2 DEF Side
        <3>4. ~(q < line.from)
            <4> SUFFICES ASSUME q < line.from PROVE FALSE
                OBVIOUS
            <4>1. line.from - 1 \in q..p
                BY <2>2, <2>3, <3>3
            <4>2. Full(after, m, a, line.from - 1)
                BY <1>4, <3>1, <3>2, <4>1 DEF q
            <4> QED
                BY <2>3, <2>7, <3>1, <4>2 DEF Unbroken
        <3>5. ~(line.to < q)
            <4> SUFFICES ASSUME line.to < q PROVE FALSE
                OBVIOUS
            <4>1. line.to + 1 \in p..q
                BY <2>2, <2>3, <3>3
            <4>2. Full(after, m, a, line.to + 1)
                BY <1>4, <3>1, <3>2, <4>1 DEF q
            <4> QED
                BY <2>3, <2>7, <3>1, <4>2 DEF Unbroken
        <3>6. q \in line.from..line.to
            BY <2>3, <3>3, <3>4, <3>5
        <3>7. RunThrough(after, y, Stride(m)) = CellsOf(line)
            BY <2>7, <3>1, <3>2, <3>6, LineIsRun
        <3> QED
            <4>1. R[1] = CellsOf(line) /\ 1 \in 1..(n + 1)
                BY <1>2, <1>6, <3>7 DEF y
            <4> QED
                BY <2>4, <4>1
    <2> QED
        BY <1>3, <2>3, <2>6, <2>7
<1>11. ASSUME NEW line \in LinesOn(after)
       PROVE  /\ line.down \in BOOLEAN /\ line.at \in Side
              /\ line.from \in Side /\ line.from + 1 \in Side
              /\ CellsOf(line)[1] = Sq(line.down, line.at, line.from)
              /\ CellsOf(line)[2] = Sq(line.down, line.at, line.from + 1)
    <2>1. line.down \in BOOLEAN /\ line.at \in Side /\ line.from \in Int
        BY DEF LinesOn, Side
    <2>2. 1 \in 1..(line.to - line.from + 1) /\ 2 \in 1..(line.to - line.from + 1)
        BY CellsOfIs
    <2>3. line.from + 1 - 1 = line.from /\ line.from + 2 - 1 = line.from + 1
        BY <2>1
    <2>4. \A i \in 1..(line.to - line.from + 1) :
              /\ line.from + i - 1 \in Side
              /\ CellsOf(line)[i] = Sq(line.down, line.at, line.from + i - 1)
        BY CellsOfIs
    <2> QED
        BY <2>1, <2>2, <2>3, <2>4
<1>12. \A i, j \in 1..n : R[i + 1] = R[j + 1] /\ R[i + 1] # <<>> => i = j
    <2> SUFFICES ASSUME NEW i \in 1..n, NEW j \in 1..n, R[i + 1] = R[j + 1], R[i + 1] # <<>>
                 PROVE  i = j
        OBVIOUS
    <2>1. PICK l \in LinesOn(after) :
              l.down = c /\ l.at = Along(m, cells[i]) /\ R[i + 1] = CellsOf(l)
        BY <1>9
    <2>2. PICK k \in LinesOn(after) :
              k.down = c /\ k.at = Along(m, cells[j]) /\ R[j + 1] = CellsOf(k)
        BY <1>9
    <2>3. Sq(c, l.at, l.from) = Sq(c, k.at, k.from)
        <3>1. CellsOf(l) = CellsOf(k)
            BY <2>1, <2>2
        <3>2. CellsOf(l)[1] = Sq(c, l.at, l.from)
            BY <1>11, <2>1
        <3>3. CellsOf(k)[1] = Sq(c, k.at, k.from)
            BY <1>11, <2>2
        <3> QED
            BY <3>1, <3>2, <3>3
    <2>4. l.at = k.at
        BY <1>3, <1>11, <2>1, <2>2, <2>3, SqIs
    <2>5. cells[i] = cells[j]
        <3>1. cells[i] \in F /\ cells[j] \in F
            BY <1>2
        <3>2. /\ cells[i] = Sq(m, a, Along(m, cells[i]))
              /\ cells[j] = Sq(m, a, Along(m, cells[j]))
            BY <1>7, <3>1
        <3> QED
            BY <2>1, <2>2, <2>4, <3>2
    <2> QED
        BY <1>2, <2>5
<1>13. \A j \in 1..n : R[1] # <<>> => R[1] # R[j + 1]
    <2> SUFFICES ASSUME NEW j \in 1..n, R[1] # <<>>, R[1] = R[j + 1] PROVE FALSE
        OBVIOUS
    <2>1. PICK l \in LinesOn(after) : l.down = m /\ l.at = a /\ R[1] = CellsOf(l)
        BY <1>8
    <2>2. PICK k \in LinesOn(after) : k.down = c /\ R[j + 1] = CellsOf(k)
        BY <1>9
    <2>3. /\ Sq(m, a, l.from) = Sq(c, k.at, k.from)
          /\ Sq(m, a, l.from + 1) = Sq(c, k.at, k.from + 1)
        BY <1>11, <2>1, <2>2
    <2>4. /\ l.from \in Side /\ l.from + 1 \in Side /\ k.at \in Side
          /\ k.from \in Side /\ k.from + 1 \in Side
        BY <1>11
    <2>5. Across(m, Sq(c, k.at, k.from)) = k.from /\ Across(m, Sq(c, k.at, k.from + 1)) = k.from + 1
        BY <1>3, <2>4, SqCross
    <2>6. Across(m, Sq(m, a, l.from)) = a /\ Across(m, Sq(m, a, l.from + 1)) = a
        BY <1>3, <2>4, SqIs
    <2>7. k.from = k.from + 1
        BY <2>3, <2>5, <2>6
    <2> QED
        BY <2>4, <2>7 DEF Side
<1>14. \A i \in 1..(n + 1) : i = 1 \/ \E k \in 1..n : i = k + 1
    <2> TAKE i \in 1..(n + 1)
    <2>1. i # 1 => i - 1 \in 1..n /\ i = (i - 1) + 1
        BY <1>2
    <2> QED
        BY <2>1
<1>15. \A i, j \in DOMAIN R : R[i] = R[j] /\ R[i] # <<>> => i = j
    <2> SUFFICES ASSUME NEW i \in 1..(n + 1), NEW j \in 1..(n + 1), R[i] = R[j], R[i] # <<>>
                 PROVE  i = j
        BY <1>6
    <2> QED
        BY <1>12, <1>13, <1>14
<1>16. /\ \A i \in DOMAIN Kept(R) :
              Kept(R)[i] # <<>> /\ \E j \in DOMAIN R : Kept(R)[i] = R[j]
       /\ \A j \in DOMAIN R :
              R[j] # <<>> => \E i \in DOMAIN Kept(R) : Kept(R)[i] = R[j]
       /\ IsInjective(Kept(R))
    BY <1>6, <1>15, KeptIs
<1> DEFINE Judged == {run \in {CellsOf(line) : line \in LinesOn(after)} : Range(run) \cap F # {}}
<1>17. \A run \in Range(Kept(R)) : run \in Judged
    <2> TAKE run \in Range(Kept(R))
    <2>1. PICK i \in DOMAIN Kept(R) : run = Kept(R)[i]
        BY DEF Range
    <2>2. PICK j \in 1..(n + 1) : run = R[j] /\ R[j] # <<>>
        BY <1>6, <1>16, <2>1
    <2>3. CASE j = 1
        <3>1. PICK line \in LinesOn(after) : R[1] = CellsOf(line) /\ cells[1] \in Range(CellsOf(line))
            BY <1>8, <2>2, <2>3
        <3>2. cells[1] \in F
            BY <1>2
        <3> QED
            BY <2>2, <2>3, <3>1, <3>2
    <2>4. ASSUME NEW k \in 1..n, j = k + 1 PROVE run \in Judged
        <3>1. PICK line \in LinesOn(after) :
                  R[k + 1] = CellsOf(line) /\ cells[k] \in Range(CellsOf(line))
            BY <1>9, <2>2, <2>4
        <3>2. cells[k] \in F
            BY <1>2
        <3> QED
            BY <2>2, <2>4, <3>1, <3>2
    <2> QED
        BY <1>14, <2>3, <2>4
<1>18. \A run \in Judged : run \in Range(Kept(R))
    <2> TAKE run \in Judged
    <2>1. PICK line \in LinesOn(after) : run = CellsOf(line) /\ Range(CellsOf(line)) \cap F # {}
        OBVIOUS
    <2>2. run # <<>> /\ \E j \in 1..(n + 1) : R[j] = run
        BY <1>10, <2>1
    <2> QED
        BY <1>6, <1>16, <2>2 DEF Range
<1> QED
    BY <1>5, <1>16, <1>17, <1>18 DEF F, after

\* The lines that a play with these squares made or made longer.
LinesThrough(b, squares) ==
    {run \in {CellsOf(line) : line \in LinesOn(b)} : Range(run) \cap squares # {}}

\* JudgedByItsLines, for the lines of a board that is an argument.
JudgedInv ==
    last_play # None =>
        /\ Range(last_play[1].runs) = LinesThrough(board, Fresh(last_play[1].placements))
        /\ IsInjective(last_play[1].runs)

\* A play is judged and scored by exactly the lines it made or made longer,
\* each of them once, on a board of any size: the run along the line from the
\* first of its squares, and the run across it through each (board.rs
\* words_formed, run_through).
THEOREM JudgedByItsLinesAlways == Spec => []JudgedByItsLines
<1>0. SIZE \in Nat /\ RACK \in Nat
    BY WordsAssumption
<1>1. Init => JudgedInv
    BY DEF Init, JudgedInv
<1>2. JoinInv /\ JudgedInv /\ [Next]_vars => JudgedInv'
    <2> SUFFICES ASSUME JoinInv, JudgedInv, [Next]_vars PROVE JudgedInv'
        OBVIOUS
    <2>1. CASE UNCHANGED <<board, last_play>>
        BY <2>1 DEF JudgedInv
    <2>2. CASE Move
        <3>1. PICK laid \in [1..RACK -> Placements] : Place(Range(laid))
            BY <2>2 DEF Move
        <3> DEFINE ps == Range(laid)
        <3>2. Laid(ps)
            BY <1>0, RangeLaid
        <3>3. /\ ValidPlacement(board, ps)
              /\ board' = WithPlacements(board, ps)
              /\ last_play'[1].placements = ps
              /\ last_play'[1].runs = WordsFormed(board, ps)
            BY <3>1 DEF Place, Some
        <3> HIDE DEF ps
        <3>4. /\ Range(WordsFormed(board, ps)) = LinesThrough(board', Fresh(ps))
              /\ IsInjective(WordsFormed(board, ps))
            BY <1>0, <3>2, <3>3, WordsAre DEF JoinInv, LinesThrough
        <3> QED
            BY <3>3, <3>4 DEF JudgedInv
    <2>3. CASE Challenge
        BY <2>3 DEF Challenge, JudgedInv
    <2> QED
        BY <2>1, <2>2, <2>3 DEF Next, Compile, Publish, vars
<1>3. JudgedInv => JudgedByItsLines
    BY <1>0, LinesAre DEF JudgedInv, JudgedByItsLines, LinesThrough, Fresh
<1> QED
    BY <1>1, <1>2, <1>3, JoinAlways, PTL DEF Spec

------------------------------------------------------------------------------
(* What is on the board was judged                                            *)

\* A line that takes no square of F was there before F was filled, and reads
\* the same.
LEMMA LineWasThere ==
    ASSUME SIZE \in Nat, NEW b, NEW b2, NEW F, NEW line \in LinesOn(b2),
           \A x \in Cells : x \in F => b[x] = None,
           \A x \in Cells : x \notin F => b2[x] = b[x],
           Range(CellsOf(line)) \cap F = {}
    PROVE  line \in LinesOn(b) /\ Spelled(b2, CellsOf(line)) = Spelled(b, CellsOf(line))
<1> DEFINE d == line.down
           a == line.at
<1>1. /\ line \in [down : BOOLEAN, at : Side, from : Side, to : Side]
      /\ d \in BOOLEAN /\ a \in Side /\ line.from \in Side /\ line.to \in Side
      /\ line.from < line.to /\ Unbroken(b2, d, a, line.from, line.to)
    BY DEF LinesOn
<1>2. \A p \in line.from..line.to :
          Sq(d, a, p) \in Cells /\ b2[Sq(d, a, p)] = b[Sq(d, a, p)]
    <2> TAKE p \in line.from..line.to
    <2>1. Sq(d, a, p) \in Range(CellsOf(line))
        BY OnLine
    <2>2. p \in Side
        BY <1>1 DEF Side
    <2>3. Sq(d, a, p) \in Cells
        BY <1>1, <2>2, SqIs
    <2> QED
        BY <2>1, <2>3
<1>3. \A p : Full(b, d, a, p) => Full(b2, d, a, p)
    <2> SUFFICES ASSUME NEW p, Full(b, d, a, p) PROVE Full(b2, d, a, p)
        OBVIOUS
    <2>1. p \in Side /\ b[Sq(d, a, p)] # None
        BY DEF Full
    <2>2. Sq(d, a, p) \in Cells
        BY <1>1, <2>1, SqIs
    <2> QED
        BY <2>1, <2>2 DEF Full
<1>4. \A p \in line.from..line.to : Full(b, d, a, p)
    BY <1>1, <1>2 DEF Full, Unbroken
<1>5. line \in LinesOn(b)
    BY <1>1, <1>3, <1>4 DEF LinesOn, Unbroken
<1>6. \A i \in DOMAIN CellsOf(line) : b2[CellsOf(line)[i]] = b[CellsOf(line)[i]]
    <2> TAKE i \in DOMAIN CellsOf(line)
    <2>1. CellsOf(line)[i] \in Range(CellsOf(line))
        BY DEF Range
    <2>2. PICK p \in line.from..line.to : CellsOf(line)[i] = Sq(d, a, p)
        BY <2>1, OnLine
    <2> QED
        BY <1>2, <2>2
<1> QED
    BY <1>5, <1>6 DEF Spelled

\* Every line on b reads as one of the words.
AllRead(b, words) == \A line \in LinesOn(b) : Spelled(b, CellsOf(line)) \in words

\* b without the squares.
Without(b, squares) == [cell \in Cells |-> IF cell \in squares THEN None ELSE b[cell]]

\* The published list has them.
AllListed(words) ==
    \A word \in words : Parses(file[1]) /\ ContainsWord(file[1], Text(word))

\* Every line was offered, also on the board a challenge would go back to; and
\* what was offered to a referee is listed.
ReadInv ==
    /\ AllRead(board, offered)
    /\ last_play # None =>
           AllRead(Without(board, Fresh(last_play[1].placements)), offered)
    /\ file = None => offered = {}
    /\ rules = "referee" => AllListed(offered)

\* What a play adds to a board of words it was judged by.
LEMMA PlayIsRead ==
    ASSUME SIZE \in Nat, RACK \in Nat, NEW b, b = [cell \in Cells |-> b[cell]],
           NEW ps, Laid(ps), ValidPlacement(b, ps), NEW words, AllRead(b, words)
    PROVE  LET after == WithPlacements(b, ps)
           IN  /\ AllRead(after, words \cup Range(Spellings(after, WordsFormed(b, ps))))
               /\ Without(after, Fresh(ps)) = b
<1> DEFINE after == WithPlacements(b, ps)
           runs == WordsFormed(b, ps)
           F == Fresh(ps)
<1>1. \A p \in ps : b[Cell(p)] = None
    BY DEF ValidPlacement
<1>2. \A x \in Cells : x \in F => b[x] = None
    BY <1>1 DEF Fresh
<1>3. \A x \in Cells : x \notin F => after[x] = b[x]
    BY DEF Fresh, WithPlacements
<1>4. Range(runs) = {run \in {CellsOf(line) : line \in LinesOn(after)} : Range(run) \cap F # {}}
    BY WordsAre
<1>5. Without(after, F) = b
    <2>1. \A x \in Cells : Without(after, F)[x] = b[x]
        BY <1>2, <1>3 DEF Without
    <2>2. Without(after, F) = [x \in Cells |-> Without(after, F)[x]]
        BY DEF Without
    <2> QED
        BY <2>1, <2>2
<1> HIDE DEF after, runs, F
<1>6. ASSUME NEW line \in LinesOn(after)
      PROVE  Spelled(after, CellsOf(line)) \in words \cup Range(Spellings(after, runs))
    <2>1. CASE Range(CellsOf(line)) \cap F = {}
        <3>1. /\ line \in LinesOn(b)
              /\ Spelled(after, CellsOf(line)) = Spelled(b, CellsOf(line))
            BY <1>2, <1>3, <2>1, LineWasThere
        <3> QED
            BY <3>1 DEF AllRead
    <2>2. CASE Range(CellsOf(line)) \cap F # {}
        <3>1. CellsOf(line) \in Range(runs)
            BY <1>4, <2>2
        <3>2. PICK i \in DOMAIN runs : CellsOf(line) = runs[i]
            BY <3>1 DEF Range
        <3>3. /\ DOMAIN Spellings(after, runs) = DOMAIN runs
              /\ Spellings(after, runs)[i] = Spelled(after, CellsOf(line))
            BY <3>2 DEF Spellings
        <3> QED
            BY <3>3 DEF Range
    <2> QED
        BY <2>1, <2>2
<1> QED
    BY <1>5, <1>6 DEF AllRead, after, runs, F

\* ReadInv is inductive, given what is known of the board.
LEMMA ReadAlways == Spec => []ReadInv
<1>0. SIZE \in Nat /\ RACK \in Nat
    BY WordsAssumption
<1>1. Init => ReadInv
    <2> SUFFICES ASSUME Init PROVE ReadInv
        OBVIOUS
    <2>1. board = EmptyBoard /\ last_play = None /\ offered = {} /\ rules = "none"
        BY DEF Init
    <2>2. ASSUME NEW line \in LinesOn(EmptyBoard) PROVE FALSE
        <3>1. /\ line.down \in BOOLEAN /\ line.at \in Side /\ line.from \in Side
              /\ line.to \in Side /\ line.from < line.to
              /\ Unbroken(EmptyBoard, line.down, line.at, line.from, line.to)
            BY DEF LinesOn
        <3>2. line.from \in line.from..line.to
            BY <3>1 DEF Side
        <3>3. EmptyBoard[Sq(line.down, line.at, line.from)] # None
            BY <3>1, <3>2 DEF Unbroken, Full
        <3>4. Sq(line.down, line.at, line.from) \in Cells
            BY <1>0, <3>1, SqIs
        <3> QED
            BY <3>3, <3>4 DEF EmptyBoard
    <2> QED
        BY <2>1, <2>2 DEF ReadInv, AllRead, AllListed
<1>2. JoinInv /\ ReadInv /\ [Next]_vars => ReadInv'
    <2> SUFFICES ASSUME JoinInv, ReadInv, [Next]_vars PROVE ReadInv'
        OBVIOUS
    <2>1. CASE UNCHANGED vars
        BY <2>1 DEF ReadInv, AllListed, vars
    <2>2. ASSUME NEW word \in Vocabulary, Compile(word) PROVE ReadInv'
        BY <2>2 DEF Compile, ReadInv, AllListed
    <2>3. CASE Publish
        <3>1. /\ offered = {} /\ file' # None
              /\ board' = board /\ last_play' = last_play /\ offered' = offered
            BY <2>3 DEF Publish, ReadInv
        <3>2. AllListed(offered)'
            BY <3>1 DEF AllListed
        <3> QED
            BY <3>1, <3>2 DEF ReadInv
    <2>4. CASE Move
        <3>1. PICK laid \in [1..RACK -> Placements] : Place(Range(laid))
            BY <2>4 DEF Move
        <3> DEFINE ps == Range(laid)
                   words == Spellings(WithPlacements(board, ps), WordsFormed(board, ps))
        <3>2. Laid(ps)
            BY <1>0, RangeLaid
        <3>3. /\ ValidPlacement(board, ps)
              /\ board' = WithPlacements(board, ps)
              /\ last_play'[1].placements = ps
              /\ offered' = offered \cup Range(words)
              /\ file' = file /\ rules' = rules
              /\ rules = "referee" => EveryWordIsReal(words)
            BY <3>1 DEF Place, Some
        <3>4. file # None
            BY <2>4 DEF Move
        <3> HIDE DEF ps
        <3>5. /\ AllRead(board', offered')
              /\ Without(board', Fresh(ps)) = board
            BY <1>0, <3>2, <3>3, PlayIsRead DEF JoinInv, ReadInv
        <3> HIDE DEF words
        <3>6. AllRead(board, offered')
            BY <3>3 DEF ReadInv, AllRead
        <3>7. rules' = "referee" => AllListed(offered)'
            <4> SUFFICES ASSUME rules' = "referee", NEW word \in offered'
                         PROVE  Parses(file[1]) /\ ContainsWord(file[1], Text(word))
                BY <3>3 DEF AllListed
            <4>1. CASE word \in offered
                BY <3>3, <4>1 DEF ReadInv, AllListed
            <4>2. CASE word \in Range(words)
                <5>1. PICK i \in DOMAIN words : word = words[i]
                    BY <4>2 DEF Range
                <5> QED
                    BY <3>3, <5>1 DEF EveryWordIsReal
            <4> QED
                BY <3>3, <4>1, <4>2
        <3> QED
            BY <3>3, <3>4, <3>5, <3>6, <3>7 DEF ReadInv
    <2>5. CASE Challenge
        <3>1. /\ last_play' = None /\ last_play # None /\ rules = "challenge"
              /\ file' = file /\ rules' = rules /\ offered' = offered
            BY <2>5 DEF Challenge
        <3>2. board' = board \/ board' = Without(board, Fresh(last_play[1].placements))
            BY <2>5 DEF Challenge, Without, Fresh
        <3>3. AllRead(board', offered)
            BY <3>1, <3>2 DEF ReadInv
        <3> QED
            BY <3>1, <3>3 DEF ReadInv
    <2> QED
        BY <2>1, <2>2, <2>3, <2>4, <2>5 DEF Next
<1> QED
    BY <1>1, <1>2, JoinAlways, PTL DEF Spec

\* Every line on the board was offered by a play as its word, and where a
\* referee judges, the published list has it.
EveryLineJudged ==
    \A line \in Lines :
        LET word == Spelled(board, CellsOf(line))
        IN  /\ word \in offered
            /\ rules = "referee" =>
                   Parses(file[1]) /\ ContainsWord(file[1], Text(word))

\* Only a play's own words are ever judged, and yet no line is on the board
\* that was not: one a play does not touch was a line before it, and what is
\* challenged off leaves the board as it was (v3 first_unknown_word, v1
\* every_word_is_real).
THEOREM EveryLineJudgedAlways == Spec => []EveryLineJudged
<1>1. ReadInv => EveryLineJudged
    BY LinesAre, WordsAssumption DEF ReadInv, AllRead, AllListed, EveryLineJudged
<1> QED
    BY <1>1, ReadAlways, PTL

\* The longest line is no longer than a word of the list may be, and the letters
\* of the tiles are the alphabet of the list.
WordsFit ==
    /\ MaxWord \in Nat /\ SIZE <= MaxWord
    /\ ALPHABET \in Nat /\ Letters = 1..ALPHABET

LettersOnBoard == \A cell \in Cells : board[cell] # None => board[cell][1].letter \in Letters

LEMMA PlacedLetter ==
    ASSUME NEW p \in Placements, Placed(p) # None
    PROVE  Placed(p)[1].letter \in Letters
<1> DEFINE Blank == p.tile = BLANK /\ p.blank_as # None /\ p.blank_as[1] \in Letters
<1>1. CASE Blank
    <2>1. Placed(p) = Some([letter |-> p.blank_as[1], blank |-> TRUE])
        BY <1>1 DEF Placed
    <2> QED
        BY <1>1, <2>1 DEF Some
<1>2. CASE ~Blank /\ p.tile \in Letters /\ p.blank_as = None
    <2>1. Placed(p) = Some([letter |-> p.tile, blank |-> FALSE])
        BY <1>2 DEF Placed
    <2> QED
        BY <1>2, <2>1 DEF Some
<1>3. CASE ~Blank /\ ~(p.tile \in Letters /\ p.blank_as = None)
    BY <1>3 DEF Placed
<1> QED
    BY <1>1, <1>2, <1>3

LEMMA LettersAlways == WordsFit /\ Spec => []LettersOnBoard
<1> SUFFICES ASSUME WordsFit PROVE Spec => []LettersOnBoard
    OBVIOUS
<1>1. Init => LettersOnBoard
    BY DEF Init, LettersOnBoard, EmptyBoard
<1>2. LettersOnBoard /\ [Next]_vars => LettersOnBoard'
    <2> SUFFICES ASSUME LettersOnBoard, [Next]_vars PROVE LettersOnBoard'
        OBVIOUS
    <2>1. CASE UNCHANGED board
        BY <2>1 DEF LettersOnBoard
    <2>2. CASE Move
        <3>1. PICK laid \in [1..RACK -> Placements] : Place(Range(laid))
            BY <2>2 DEF Move
        <3> DEFINE ps == Range(laid)
        <3>2. ps \subseteq Placements
            BY DEF Range
        <3>3. /\ board' = WithPlacements(board, ps)
              /\ \A p \in ps : Placed(p) # None
            BY <3>1 DEF Place, ValidPlacement
        <3> HIDE DEF ps
        <3>4. ASSUME NEW cell \in Cells, board'[cell] # None
              PROVE  board'[cell][1].letter \in Letters
            <4>1. CASE \E p \in ps : Cell(p) = cell
                <5> DEFINE p == CHOOSE p \in ps : Cell(p) = cell
                <5>1. p \in ps /\ board'[cell] = Placed(p)
                    BY <3>3, <4>1 DEF WithPlacements
                <5> QED
                    BY <3>2, <3>3, <5>1, PlacedLetter
            <4>2. CASE ~\E p \in ps : Cell(p) = cell
                <5>1. board'[cell] = board[cell]
                    BY <3>3, <4>2 DEF WithPlacements
                <5> QED
                    BY <3>4, <5>1 DEF LettersOnBoard
            <4> QED
                BY <4>1, <4>2
        <3> QED
            BY <3>4 DEF LettersOnBoard
    <2>3. CASE Challenge
        <3>1. CASE board' = board
            BY <3>1 DEF LettersOnBoard
        <3>2. CASE board' # board
            <4>1. board' = Without(board, Fresh(last_play[1].placements))
                BY <2>3, <3>2 DEF Challenge, Without, Fresh
            <4> QED
                BY <4>1 DEF LettersOnBoard, Without
        <3> QED
            BY <3>1, <3>2
    <2> QED
        BY <2>1, <2>2, <2>3 DEF Next, Compile, Publish, vars
<1> QED
    BY <1>1, <1>2, PTL DEF Spec

\* A line reads as something the list could contain.
LEMMA LineIsWord ==
    ASSUME WordsFit, LettersOnBoard, NEW line \in LinesOn(board)
    PROVE  Text(Spelled(board, CellsOf(line))) \in Vocabulary
<1> DEFINE n == line.to - line.from + 1
           word == Spelled(board, CellsOf(line))
<1>0. SIZE \in Nat /\ ALPHABET \in Nat
    BY WordsAssumption DEF WordsFit
<1>1. /\ line.from \in Side /\ line.to \in Side /\ line.down \in BOOLEAN /\ line.at \in Side
      /\ line.from < line.to /\ Unbroken(board, line.down, line.at, line.from, line.to)
    BY DEF LinesOn
<1>2. n \in 1..MaxWord
    BY <1>0, <1>1 DEF WordsFit, Side
<1>3. DOMAIN word = 1..n /\ \A i \in 1..n : word[i] \in 1..ALPHABET
    <2>1. /\ DOMAIN CellsOf(line) = 1..n
          /\ \A i \in 1..n : /\ line.from + i - 1 \in line.from..line.to
                             /\ line.from + i - 1 \in Side
                             /\ CellsOf(line)[i] = Sq(line.down, line.at, line.from + i - 1)
        BY <1>0, CellsOfIs
    <2>2. DOMAIN word = 1..n /\ \A i \in 1..n : word[i] = board[CellsOf(line)[i]][1].letter
        BY <2>1 DEF Spelled
    <2>3. ASSUME NEW i \in 1..n PROVE board[CellsOf(line)[i]][1].letter \in Letters
        <3>1. CellsOf(line)[i] \in Cells
            BY <1>0, <1>1, <2>1, SqIs
        <3>2. board[CellsOf(line)[i]] # None
            BY <1>1, <2>1 DEF Unbroken, Full
        <3> QED
            BY <3>1, <3>2 DEF LettersOnBoard
    <2> QED
        BY <2>2, <2>3 DEF WordsFit
<1> HIDE DEF n, word
<1>4. Text(word) \in [1..n -> 0..(ALPHABET - 1)]
    BY <1>0, <1>3 DEF Text
<1> QED
    BY <1>2, <1>4 DEF Vocabulary, word

\* The whole of NothingUnread, for a board of any size: if the list reads back
\* as it was compiled, every line on the board was offered, and under a referee
\* is in the list (v3 first_unknown_word, v1 every_word_is_real).
THEOREM NothingUnreadAlways == WordsFit /\ Spec /\ []ReadsBack => []NothingUnread
<1> SUFFICES ASSUME WordsFit PROVE Spec /\ []ReadsBack => []NothingUnread
    OBVIOUS
<1>1. ReadInv /\ LettersOnBoard /\ ReadsBack => NothingUnread
    <2> SUFFICES ASSUME ReadInv, LettersOnBoard, ReadsBack, NEW line \in Lines
                 PROVE  LET word == Spelled(board, CellsOf(line))
                        IN  /\ word \in offered
                            /\ rules = "referee" => Text(word) \in inserted
        BY DEF NothingUnread
    <2> DEFINE word == Spelled(board, CellsOf(line))
    <2>1. line \in LinesOn(board)
        BY LinesAre, WordsAssumption
    <2>2. word \in offered
        BY <2>1 DEF ReadInv, AllRead
    <2>3. file # None
        BY <2>2 DEF ReadInv
    <2>4. Text(word) \in Vocabulary
        BY <2>1, LineIsWord
    <2>5. \A w \in Vocabulary : ContainsWord(file[1], w) => w \in inserted
        BY <2>3 DEF ReadsBack, Compiled
    <2>6. ASSUME rules = "referee" PROVE ContainsWord(file[1], Text(word))
        BY <2>2, <2>6 DEF ReadInv, AllListed
    <2> HIDE DEF word
    <2>7. rules = "referee" => Text(word) \in inserted
        BY <2>4, <2>5, <2>6
    <2> QED
        BY <2>2, <2>7 DEF word
<1> QED
    BY <1>1, ReadAlways, LettersAlways, PTL
==============================================================================
