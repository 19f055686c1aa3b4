--------------------------- MODULE ShuffleArgument ---------------------------
(* Proving that a deck was shuffled (tabla-deal shuffle/): the prover and the *)
(* verifier of the shuffle argument and of the three it rests on, step for    *)
(* step over the toy group. A prover returns its proof, a verifier whether it *)
(* holds, and both the transcript as they leave it.                           *)
EXTENDS Group, TLC

\* x, x^2, ..., x^n.
PowersOf(x) == LET power[i \in 1..Width] == IF i = 1 THEN x ELSE power[i - 1] ** x IN power

------------------------------------------------------------------------------
(* bilinear.rs: <a o scale, b> + <linear, a> = target                         *)

Form(scale, a, b) == Inner(scale, [i \in 1..Width |-> a[i] ** b[i]])

SaidBilinear(t, st, m) ==
    LET indexed(v) == FlattenSeq([i \in 1..Width |-> <<i - 1, v[i]>>])
    IN  Absorb(t, <<st.commitmentA, st.commitmentB>> \o indexed(st.scale)
                  \o indexed(st.linear)
                  \o <<st.target, m.maskA, m.maskB, m.crossLinear, m.crossQuadratic>>)

BilinearMask(entropy) ==
    [a |-> Scalars("bilinear-a", entropy), b |-> Scalars("bilinear-b", entropy),
     blindingA |-> ScalarFromEntropy("bilinear-ra", entropy, 0),
     blindingB |-> ScalarFromEntropy("bilinear-rb", entropy, 0)]

BilinearMasks(st, witness, mask) ==
    [maskA |-> Commit(mask.a, mask.blindingA),
     maskB |-> Commit(mask.b, mask.blindingB),
     crossLinear |-> Form(st.scale, witness.a, mask.b) ++ Form(st.scale, mask.a, witness.b)
                     ++ Inner(st.linear, mask.a),
     crossQuadratic |-> Form(st.scale, mask.a, mask.b)]

BilinearAnswers(e, witness, mask, masks) ==
    [masks |-> masks,
     responseA |-> Answer(e, witness.a, mask.a),
     responseB |-> Answer(e, witness.b, mask.b),
     blindingA |-> (e ** witness.blindingA) ++ mask.blindingA,
     blindingB |-> (e ** witness.blindingB) ++ mask.blindingB]

ProveBilinear(t, st, witness, entropy) ==
    Using(BilinearMask(entropy), LAMBDA mask :
        Using(BilinearMasks(st, witness, mask), LAMBDA masks :
            Using(SaidBilinear(t, st, masks), LAMBDA said :
                [t |-> Drawn(said),
                 proof |-> BilinearAnswers(Challenge(said), witness, mask, masks)])))

BilinearHolds(e, proof, st) ==
    LET m == proof.masks
    IN  /\ Commit(proof.responseA, proof.blindingA) = (st.commitmentA ** e) ++ m.maskA
        /\ Commit(proof.responseB, proof.blindingB) = (st.commitmentB ** e) ++ m.maskB
        /\ Form(st.scale, proof.responseA, proof.responseB)
               ++ (e ** Inner(st.linear, proof.responseA))
           = ((e ** e) ** st.target) ++ (e ** m.crossLinear) ++ m.crossQuadratic

VerifyBilinear(t, proof, st) ==
    Using(SaidBilinear(t, st, proof.masks), LAMBDA said :
        [t |-> Drawn(said), ok |-> BilinearHolds(Challenge(said), proof, st)])

------------------------------------------------------------------------------
(* product.rs: the entries of a committed vector multiply out to target       *)

\* The chain q[i].d[i] = q[i + 1] and its start, folded into one equation.
FoldedStatement(commitment, running, target, weights, first) ==
    [commitmentA |-> running, commitmentB |-> commitment,
     scale |-> weights,
     linear |-> [i \in 1..Width |-> IF i = 1 THEN first ELSE 0 -- weights[i - 1]],
     target |-> (weights[Width] ** target) ++ first]

Folded(t, commitment, running, target) ==
    Using(Absorb(t, <<Width, commitment, running, target>>), LAMBDA said :
        [t |-> Drawn(Drawn(said)),
         statement |-> FoldedStatement(commitment, running, target,
                           PowersOf(Challenge(said)), Challenge(Drawn(said)))])

\* The running products of the entries, which the prover commits to.
Running(values) == [i \in 1..Width |-> Product(SubSeq(values, 1, i - 1))]

ProveFolded(fold, commitment, witness, entropy) ==
    Using(ProveBilinear(fold.t, fold.statement, witness, entropy), LAMBDA inner :
        [t |-> inner.t, proof |-> [running |-> commitment, inner |-> inner.proof]])

ProveProduct(t, commitment, values, target, blinding, entropy) ==
    Using([a |-> Running(values), blindingA |-> ScalarFromEntropy("product-blinding", entropy, 0),
           b |-> values, blindingB |-> blinding], LAMBDA witness :
        Using(Commit(witness.a, witness.blindingA), LAMBDA running :
            ProveFolded(Folded(t, commitment, running, target), running, witness, entropy)))

VerifyProduct(t, proof, commitment, target) ==
    Using(Folded(t, commitment, proof.running, target), LAMBDA fold :
        VerifyBilinear(fold.t, proof.inner, fold.statement))

------------------------------------------------------------------------------
(* multiexp.rs: the output, weighted by the committed exponents, is the input *)
(* weighted by the powers of x, re-randomised                                 *)

Offset(c, key, r) == [c1 |-> c.c1 -- Point(r), c2 |-> c.c2 -- (key ** r)]

SaidMultiexp(t, st, commitment, c) ==
    Absorb(t, <<st.commitment, st.key, Width>> \o Flat(st.output)
              \o <<st.input.c1, st.input.c2, commitment, c.c1, c.c2>>)

MultiexpMask(entropy) ==
    [exponents |-> Scalars("multiexp-mask", entropy),
     blinding |-> ScalarFromEntropy("multiexp-blinding", entropy, 0),
     randomizer |-> ScalarFromEntropy("multiexp-randomizer", entropy, 0)]

MultiexpMasks(st, mask) ==
    [commitment |-> Commit(mask.exponents, mask.blinding),
     ciphertext |-> Offset(WeightedSum(st.output, mask.exponents), st.key, mask.randomizer)]

MultiexpAnswers(e, exponents, blinding, randomizer, mask, masks) ==
    [maskCommitment |-> masks.commitment, maskCiphertext |-> masks.ciphertext,
     response |-> Answer(e, exponents, mask.exponents),
     blinding |-> (e ** blinding) ++ mask.blinding,
     randomizer |-> (e ** randomizer) ++ mask.randomizer]

ProveMultiexp(t, st, exponents, blinding, randomizer, entropy) ==
    Using(MultiexpMask(entropy), LAMBDA mask :
        Using(MultiexpMasks(st, mask), LAMBDA masks :
            Using(SaidMultiexp(t, st, masks.commitment, masks.ciphertext), LAMBDA said :
                [t |-> Drawn(said),
                 proof |-> MultiexpAnswers(Challenge(said), exponents, blinding, randomizer,
                                           mask, masks)])))

ExponentsOpen(e, proof, st) ==
    Commit(proof.response, proof.blinding) = (st.commitment ** e) ++ proof.maskCommitment

DeckWeighs(e, proof, st) ==
    Offset(WeightedSum(st.output, proof.response), st.key, proof.randomizer)
    = [c1 |-> (st.input.c1 ** e) ++ proof.maskCiphertext.c1,
       c2 |-> (st.input.c2 ** e) ++ proof.maskCiphertext.c2]

\* A slip: the exponents are checked, the deck is not.
VerifyMultiexpOpens(t, proof, st) ==
    Using(SaidMultiexp(t, st, proof.maskCommitment, proof.maskCiphertext), LAMBDA said :
        [t |-> Drawn(said), ok |-> ExponentsOpen(Challenge(said), proof, st)])

VerifyMultiexp(t, proof, st) ==
    Using(SaidMultiexp(t, st, proof.maskCommitment, proof.maskCiphertext), LAMBDA said :
        [t |-> Drawn(said),
         ok |-> /\ ExponentsOpen(Challenge(said), proof, st)
                /\ DeckWeighs(Challenge(said), proof, st)])

------------------------------------------------------------------------------
(* shuffle/mod.rs                                                             *)

SaidShuffle(t, input, output, key, commitment) ==
    Absorb(t, <<Width, key>> \o Flat(input) \o Flat(output) \o <<commitment>>)

\* y.a + b - z, out of the commitments to a and b.
CommitmentD(a, b, y, z) == (a ** y) ++ (b -- (SumOfGenerators ** z))

\* Fisher-Yates, driven by the entropy; it counts from 1 here.
PermutationFromEntropy(entropy) ==
    FoldLeft(LAMBDA order, i :
                 LET j == 1 + (ScalarFromEntropy("shuffle-permutation", entropy, i - 1) % i)
                 IN  [order EXCEPT ![i] = order[j], ![j] = order[i]],
             [i \in 1..Width |-> i],
             [k \in 1..(Width - 1) |-> Width + 1 - k])

\* What the product has to be for a permutation.
Target(powers, y, z) == Product([j \in 1..Width |-> (y ** j) ++ (powers[j] -- z)])

\* What is said of the deck: first the ordering, and, weighted by the powers of
\* a challenge x, the same again; then y and z are drawn.
Heard(saidX, commitmentB) ==
    Using(Write(Drawn(saidX), commitmentB), LAMBDA saidY :
        [t |-> Drawn(Drawn(saidY)), powers |-> PowersOf(Challenge(saidX)),
         y |-> Challenge(saidY), z |-> Challenge(Drawn(saidY))])

\* The prover does what it is told: an ordering that repeats a tile, a deck that
\* is not the one ordered, a product that is claimed and not computed.
ProveOrdering(w, heard, bluff, entropy) ==
    Using([i \in 1..Width |-> (heard.y ** w.a[i]) ++ (w.b[i] -- heard.z)], LAMBDA d :
        ProveProduct(heard.t, CommitmentD(w.commitmentA, w.commitmentB, heard.y, heard.z), d,
            IF bluff THEN Target(heard.powers, heard.y, heard.z) ELSE Product(d),
            (heard.y ** w.blindingA) ++ w.blindingB, entropy))

ProveDeck(t, w, heard, deck, output, key, s, entropy) ==
    ProveMultiexp(t, [commitment |-> w.commitmentB, output |-> output,
                      input |-> WeightedSum(deck, heard.powers), key |-> key],
                  w.b, w.blindingB, Inner(w.b, s), entropy)

Ordered(ordering, entropy) ==
    Using(ScalarFromEntropy("shuffle-blinding-a", entropy, 0), LAMBDA blinding :
        [a |-> ordering, blindingA |-> blinding, commitmentA |-> Commit(ordering, blinding)])

Weighted(w, powers, entropy) ==
    Using([i \in 1..Width |-> powers[w.a[i]]], LAMBDA b :
        Using(ScalarFromEntropy("shuffle-blinding-b", entropy, 0), LAMBDA blinding :
            [b |-> b, blindingB |-> blinding, commitmentB |-> Commit(b, blinding)] @@ w))

ProveShuffle(saidX, w, deck, output, key, s, bluff, entropy) ==
    Using(Heard(saidX, w.commitmentB), LAMBDA heard :
        Using(ProveOrdering(w, heard, bluff, entropy), LAMBDA product :
            Using(ProveDeck(product.t, w, heard, deck, output, key, s, entropy), LAMBDA multiexp :
                [t |-> multiexp.t, deck |-> output,
                 proof |-> [a |-> w.commitmentA, b |-> w.commitmentB,
                            product |-> product.proof, multiexp |-> multiexp.proof]])))

ShuffleBy(t, deck, key, entropy, ordering, taken, bluff) ==
    Using(Scalars("shuffle-rerandomize", entropy), LAMBDA s :
    Using([i \in 1..Width |-> Rerandomize(deck[taken[i]], key, s[i])], LAMBDA output :
    Using(Ordered(ordering, entropy), LAMBDA w :
    Using(SaidShuffle(t, deck, output, key, w.commitmentA), LAMBDA saidX :
        ProveShuffle(saidX, Weighted(w, PowersOf(Challenge(saidX)), entropy),
                     deck, output, key, s, bluff, entropy)))))

Shuffle(t, deck, key, entropy) ==
    Using(PermutationFromEntropy(entropy), LAMBDA order :
        ShuffleBy(t, deck, key, entropy, order, order, FALSE))

VerifyShuffle(t, proof, input, output, key) ==
    Using(Heard(SaidShuffle(t, input, output, key, proof.a), proof.b), LAMBDA heard :
    Using(VerifyProduct(heard.t, proof.product,
              CommitmentD(proof.a, proof.b, heard.y, heard.z),
              Target(heard.powers, heard.y, heard.z)), LAMBDA product :
    Using(VerifyMultiexp(product.t, proof.multiexp,
              [commitment |-> proof.b, output |-> output,
               input |-> WeightedSum(input, heard.powers), key |-> key]), LAMBDA multiexp :
        [t |-> multiexp.t, ok |-> product.ok /\ multiexp.ok])))
==============================================================================
