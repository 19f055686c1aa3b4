-------------------------------- MODULE Group --------------------------------
(* The arithmetic under the deal (tabla-deal elgamal.rs, generators.rs,       *)
(* transcript.rs and shuffle/commit.rs), over a toy group: a point is its     *)
(* logarithm, a number modulo the prime Q. What the code relies on beyond the *)
(* arithmetic - that logarithms are hard and hashes are random - is not in    *)
(* it, so nothing here uses the logarithm of a point it did not make.         *)
EXTENDS Integers, Sequences, SequencesExt, Functions

CONSTANTS Q,  \* the order of the group: a prime, small enough to multiply in
          BAG \* the kinds of the tiles, in canonical order

ASSUME GroupAssumption == Q \in Nat \ {0, 1} /\ BAG \in Seq(Nat)

Scalar == 0..(Q - 1)
Width == Len(BAG)

a ++ b == (a + b) % Q
a -- b == (a - b) % Q
a ** b == (a * b) % Q

Total(v) == FoldLeft(LAMBDA sum, x : sum ++ x, 0, v)
Product(v) == FoldLeft(LAMBDA product, x : product ** x, 1, v)

\* A value that is worked out once and used in several places.
Using(value, Body(_)) == Body(value)

\* The entries of two vectors, multiplied, and that summed.
Inner(u, v) == Total([i \in 1..Width |-> u[i] ** v[i]])

\* e.v + m, how every proof answers a challenge.
Answer(e, v, mask) == [i \in 1..Width |-> (e ** v[i]) ++ mask[i]]

------------------------------------------------------------------------------
(* Points that nobody chose, and scalars from entropy                         *)

G == 5
Point(x) == x ** G
H == 4211 % Q
Generators == [i \in 1..Width |-> (701 + 389 * i * i) % Q]
TilePoint(kind) == (97 + 1201 * kind) % Q

\* The kind of an opened point; a point that is no tile has none.
Kinds == {BAG[i] : i \in 1..Width}
IsTile(point) == \E kind \in Kinds : TilePoint(kind) = point
TileOf(point) == CHOOSE kind \in Kinds : TilePoint(kind) = point

\* One scalar per label and index of an entropy.
Labels == <<"pok", "dleq", "shuffle-rerandomize", "shuffle-blinding-a",
            "shuffle-blinding-b", "shuffle-permutation", "product-blinding",
            "multiexp-mask", "multiexp-blinding", "multiexp-randomizer",
            "bilinear-a", "bilinear-b", "bilinear-ra", "bilinear-rb">>

ScalarFromEntropy(label, entropy, index) ==
    LET code == CHOOSE i \in 1..Len(Labels) : Labels[i] = label
    IN  (((entropy * 613 + code * 127 + index * 31) % Q) ** (entropy + code)) ++ (index * index)

Scalars(label, entropy) ==
    [i \in 1..Width |-> ScalarFromEntropy(label, entropy, i - 1)]

------------------------------------------------------------------------------
(* The transcript: a running hash of all that was said. An item is a number;  *)
(* its label and length are left out. Cubing stands for the hash: it is one   *)
(* to one where 3 does not divide Q - 1, and follows no line.                 *)

Cube(x) == (x ** x) ** x
Write(t, item) == Cube((31 * t + item + 1) % Q)
Absorb(t, items) == FoldLeft(Write, t, items)

\* A slip: where in the log it is made for is left out.
NewTranscriptAnywhere(game, seq) == Absorb(0, <<game>>)

\* Opened for one entry of one game.
NewTranscript(game, seq) == Absorb(0, <<game, seq>>)

Challenge(t) == Cube(t) ++ 7

\* A challenge is folded back in, so that the next one differs.
Drawn(t) == Write(t, Challenge(t))

------------------------------------------------------------------------------
(* Commitments, and ElGamal under the sum of both players' keys               *)

Commit(values, blinding) == (blinding ** H) ++ Inner(values, Generators)

SumOfGenerators == Total(Generators)

Joint(a, b) == a ++ b

DecryptionShare(secret, c) == c.c1 ** secret

Trivial(message) == [c1 |-> 0, c2 |-> message]

Rerandomize(c, key, s) == [c1 |-> c.c1 ++ Point(s), c2 |-> c.c2 ++ (key ** s)]

Open(c, share, other) == c.c2 -- (share ++ other)

WeightedSum(deck, weights) ==
    [c1 |-> Inner([i \in 1..Width |-> deck[i].c1], weights),
     c2 |-> Inner([i \in 1..Width |-> deck[i].c2], weights)]

Flat(deck) == FlattenSeq([i \in 1..Width |-> <<deck[i].c1, deck[i].c2>>])

------------------------------------------------------------------------------
(* The two small proofs (proofs.rs). Each takes the transcript it is made     *)
(* against and leaves it where the other side's check leaves it.              *)

SaidKnowledge(t, public, commitment) == Absorb(t, <<public, commitment>>)

ProveKnowledge(t, secret, entropy) ==
    Using(ScalarFromEntropy("pok", entropy, 0), LAMBDA k :
        Using(SaidKnowledge(t, Point(secret), Point(k)), LAMBDA said :
            [t |-> Drawn(said),
             proof |-> [commitment |-> Point(k),
                        response |-> k ++ (Challenge(said) ** secret)]]))

VerifyKnowledge(t, proof, public) ==
    Using(SaidKnowledge(t, public, proof.commitment), LAMBDA said :
        [t |-> Drawn(said),
         ok |-> Point(proof.response) = proof.commitment ++ (public ** Challenge(said))])

SaidEquality(t, public, base, image, commitG, commitBase) ==
    Absorb(t, <<public, base, image, commitG, commitBase>>)

ProveEquality(t, secret, base, entropy, index) ==
    Using(ScalarFromEntropy("dleq", entropy, index), LAMBDA k :
        Using(SaidEquality(t, Point(secret), base, base ** secret, Point(k), base ** k),
            LAMBDA said :
                [t |-> Drawn(said),
                 proof |-> [challenge |-> Challenge(said),
                            response |-> k ++ (Challenge(said) ** secret)]]))

\* What the check hears: the commitments that the response answers.
Reheard(t, proof, public, base, image) ==
    SaidEquality(t, public, base, image,
        Point(proof.response) -- (public ** proof.challenge),
        (base ** proof.response) -- (image ** proof.challenge))

\* A slip: the check draws its challenge from a copy of the transcript.
VerifyEqualityApart(t, proof, public, base, image) ==
    [t |-> t, ok |-> Challenge(Reheard(t, proof, public, base, image)) = proof.challenge]

VerifyEquality(t, proof, public, base, image) ==
    Using(Reheard(t, proof, public, base, image), LAMBDA said :
        [t |-> Drawn(said), ok |-> Challenge(said) = proof.challenge])
==============================================================================
