------------------------------ MODULE Dictionary ------------------------------
(* The word list of a game as a word graph (tabla-dawg): the builder that      *)
(* folds equal suffixes together word by word and writes the graph out, and    *)
(* the reader that walks what was written. Letters are numbered from 0.        *)
EXTENDS Integers, Sequences, FiniteSets, SequencesExt, FiniteSetsExt, Functions

CONSTANTS ALPHABET, \* letters are 0..ALPHABET - 1
          MAX_UNITS \* the largest index the child field of a unit can hold

------------------------------------------------------------------------------
(* Building. Nodes are numbered from 1, the root; an edge is a letter and the  *)
(* node it leads to.                                                           *)

NewNode == [terminal |-> FALSE, edges |-> <<>>]

NewBuilder == [nodes |-> <<NewNode>>, register |-> {}, unchecked |-> <<>>,
               previous |-> <<>>, words |-> 0]

\* Lexicographic order, a prefix first.
Before(v, w) ==
    \/ IsStrictPrefix(v, w)
    \/ \E i \in DOMAIN v \cap DOMAIN w :
           /\ SubSeq(v, 1, i - 1) = SubSeq(w, 1, i - 1)
           /\ v[i] < w[i]

Common(v, w) ==
    Max({n \in 0..Len(v) : n <= Len(w) /\ SubSeq(v, 1, n) = SubSeq(w, 1, n)})

Redirect(nodes, step, to) ==
    LET at == CHOOSE i \in DOMAIN nodes[step.parent].edges :
                  nodes[step.parent].edges[i].letter = step.letter
    IN  [nodes EXCEPT ![step.parent].edges[at].child = to]

\* A slip: a node that ends a word is taken for one that does not.
FoldByEdges(b, step) ==
    LET shape == b.nodes[step.child]
        known == {r \in b.register : r.shape.edges = shape.edges}
    IN  IF known # {}
        THEN [b EXCEPT !.nodes = Redirect(@, step, (CHOOSE r \in known : TRUE).node)]
        ELSE [b EXCEPT !.register = @ \cup {[shape |-> shape, node |-> step.child]}]

\* One node is final: the node of its shape that is registered stands for it,
\* or it is registered itself.
Fold(b, step) ==
    LET shape == b.nodes[step.child]
        known == {r \in b.register : r.shape = shape}
    IN  IF known # {}
        THEN [b EXCEPT !.nodes = Redirect(@, step, (CHOOSE r \in known : TRUE).node)]
        ELSE [b EXCEPT !.register = @ \cup {[shape |-> shape, node |-> step.child]}]

\* A slip: the node nearest the root first.
MinimizeFromTheTop(b, depth) ==
    LET tail == SubSeq(b.unchecked, depth + 1, Len(b.unchecked))
    IN  FoldLeft(Fold, [b EXCEPT !.unchecked = SubSeq(@, 1, depth)], tail)

\* The deepest node first: its children are final before it is looked up.
Minimize(b, depth) ==
    LET tail == SubSeq(b.unchecked, depth + 1, Len(b.unchecked))
    IN  FoldLeft(Fold, [b EXCEPT !.unchecked = SubSeq(@, 1, depth)], Reverse(tail))

Extend(b, letter) ==
    LET from == IF b.unchecked = <<>> THEN 1 ELSE Last(b.unchecked).child
        next == Len(b.nodes) + 1
    IN  [b EXCEPT
           !.nodes = Append([@ EXCEPT ![from].edges =
                                 Append(@, [letter |-> letter, child |-> next])], NewNode),
           !.unchecked = Append(@, [parent |-> from, letter |-> letter, child |-> next])]

\* Words come sorted and once.
MayInsert(b, word) ==
    /\ word # <<>> /\ \A i \in DOMAIN word : word[i] < ALPHABET
    /\ Before(b.previous, word)

Insert(b, word) ==
    LET common == Common(word, b.previous)
        grown  == FoldLeft(Extend, Minimize(b, common),
                           SubSeq(word, common + 1, Len(word)))
    IN  [grown EXCEPT !.nodes[Last(grown.unchecked).child].terminal = TRUE,
                      !.previous = word, !.words = @ + 1]

------------------------------------------------------------------------------
(* Writing. Unit 0 is no edge, so that a child of 0 means no children.        *)

\* One step of the depth-first walk, first letter first; a node is met once.
Walk(nodes, w) ==
    FoldLeft(LAMBDA v, e :
                 IF e.child \in v.seen THEN v
                 ELSE [v EXCEPT !.stack = Append(@, e.child), !.seen = @ \cup {e.child}],
             [w EXCEPT !.order = Append(@, Last(w.stack)), !.stack = Front(@)],
             Reverse(nodes[Last(w.stack)].edges))

Order(nodes) ==
    FoldLeft(LAMBDA w, i : IF w.stack = <<>> THEN w ELSE Walk(nodes, w),
             [order |-> <<>>, stack |-> <<1>>, seen |-> {1}],
             [i \in DOMAIN nodes |-> i]).order

\* Where each node's edges begin; a node without any is at 0.
Position(nodes) ==
    LET order == Order(nodes)
        before(i) == FoldLeft(LAMBDA sum, n : sum + Len(nodes[n].edges), 1,
                              SubSeq(order, 1, i - 1))
    IN  [node \in Range(order) |->
            IF nodes[node].edges = <<>> THEN 0
            ELSE before(CHOOSE i \in DOMAIN order : order[i] = node)]

\* The child field is as wide as MAX_UNITS: more is cut off.
PackUnit(letter, end, last, child) ==
    [letter |-> letter, end |-> end, last |-> last, child |-> child % (MAX_UNITS + 1)]

UnitsOf(nodes, position, node) ==
    [i \in DOMAIN nodes[node].edges |->
        LET e == nodes[node].edges[i]
        IN  PackUnit(e.letter, nodes[e.child].terminal,
                     i = Len(nodes[node].edges), position[e.child])]

Written(nodes) ==
    LET order    == Order(nodes)
        position == Position(nodes)
    IN  FoldLeft(LAMBDA units, node : units \o UnitsOf(nodes, position, node),
                 <<PackUnit(0, FALSE, FALSE, 0)>>, order)

\* The file, or nothing when the graph outgrew the child field.
Finish(b) ==
    LET nodes == Minimize(b, 0).nodes
        units == Written(nodes)
    IN  IF Len(units) > MAX_UNITS THEN <<>>
        ELSE <<[units |-> units, unit_count |-> Len(units),
                root |-> Position(nodes)[1], word_count |-> b.words]>>

------------------------------------------------------------------------------
(* Reading                                                                    *)

\* A file cut short, or whose root is outside it, is refused.
Parses(file) ==
    /\ file.unit_count <= Len(file.units)
    /\ file.root < file.unit_count \/ (file.root = 0 /\ file.unit_count = 0)

Unit(file, index) == file.units[index + 1]

\* The scan of one node's edges stops at the letter, past it, or at the last.
FindEdge(file, node, letter) ==
    LET stops(i) == Unit(file, i).letter >= letter \/ Unit(file, i).last
        at == {i \in node..(file.unit_count - 1) :
                   stops(i) /\ \A j \in node..(i - 1) : ~stops(j)}
    IN  {Unit(file, i) : i \in {i \in at : Unit(file, i).letter = letter}}

\* Letter by letter from the root; the last edge says whether a word ends.
ContainsWord(file, word) ==
    LET step(at, i) ==
            IF at = {} THEN {}
            ELSE LET found == FindEdge(file, Min(at), word[i])
                 IN  IF i = Len(word)
                     THEN IF \E u \in found : u.end THEN {0} ELSE {}
                     ELSE {u.child : u \in found} \ {0}
    IN  /\ word # <<>> /\ file.unit_count # 0
        /\ FoldLeft(step, {file.root}, [i \in DOMAIN word |-> i]) # {}
==============================================================================
