----------------------------- MODULE SealedDeal ------------------------------
(* The deal with its cryptography in it (tabla-deal state.rs, reached through *)
(* tabla-wasm deal.rs): what each device holds, the payloads it builds and    *)
(* the proofs it checks, over the toy group. Module Deal is what this         *)
(* promises, and each device is shown to keep it.                             *)
EXTENDS ShuffleArgument, TLC

CONSTANTS GAME,      \* the game's id
          SECRET,    \* the secret share of each player
          ENTROPY,   \* what a device may draw for one entry
          HAND,      \* tiles dealt with one entry
          MaxEntries \* bound: entries in the log

TILE_TOTAL == Width
RACK == HAND
Promise == INSTANCE Deal

VARIABLES deal, \* what each player's device holds
          seq,  \* entries in the log
          last  \* the last entry: whether it was honest, and who took it

Player == Promise!Player
Other(p) == Promise!Other(p)
None == <<>>
Some(x) == <<x>>

New(me) ==
    [me |-> me, public_shares |-> [p \in Player |-> None],
     shuffled |-> [p \in Player |-> FALSE],
     deck |-> [i \in 1..Width |-> Trivial(TilePoint(BAG[i]))],
     pointer |-> 0,
     dealt |-> <<>>,  \* position :> who it was dealt to
     shares |-> <<>>, \* <<position, whose>> :> decryption share
     public |-> <<>>] \* position :> kind

Ciphertext(s, position) == s.deck[position + 1]

Ready(s) == \A p \in Player : s.public_shares[p] # None /\ s.shuffled[p]

HasJointKey(s) == \A p \in Player : s.public_shares[p] # None
JointKey(s) == Joint(s.public_shares[0][1], s.public_shares[1][1])

\* What the position opens to on this device, with the other's share.
OpenWith(s, position, other) ==
    LET c == Ciphertext(s, position)
    IN  Open(c, DecryptionShare(SECRET[s.me], c), other)

\* The positions a device can read, with the tiles in them.
VisibleTiles(s) ==
    LET held == {pos \in DOMAIN s.dealt : s.dealt[pos] = s.me /\ pos \notin DOMAIN s.public}
        opened(pos) == OpenWith(s, pos, s.shares[<<pos, Other(s.me)>>])
        readable == {pos \in held : <<pos, Other(s.me)>> \in DOMAIN s.shares /\ IsTile(opened(pos))}
    IN  s.public @@ [pos \in readable |-> TileOf(opened(pos))]

------------------------------------------------------------------------------
(* Applying a payload: its parts in order, against one transcript             *)

Refused(a) == [a EXCEPT !.ok = FALSE]
Taken(a, t, draft) == [ok |-> TRUE, t |-> t, draft |-> draft]

\* A slip: a key share is taken without its proof.
ApplyKeyUnproven(a, author, part) ==
    LET check == VerifyKnowledge(a.t, part.proof, part.share)
    IN  IF a.draft.public_shares[author] # None THEN Refused(a)
        ELSE Taken(a, check.t, [a.draft EXCEPT !.public_shares[author] = Some(part.share)])

ApplyKey(a, author, part) ==
    LET check == VerifyKnowledge(a.t, part.proof, part.share)
    IN  IF a.draft.public_shares[author] # None \/ ~check.ok THEN Refused(a)
        ELSE Taken(a, check.t, [a.draft EXCEPT !.public_shares[author] = Some(part.share)])

\* Against the deck as it stands, and never after a tile was dealt.
ApplyShuffle(a, author, part) ==
    IF ~HasJointKey(a.draft) \/ a.draft.shuffled[author] \/ a.draft.pointer > 0 THEN Refused(a)
    ELSE Using(VerifyShuffle(a.t, part.proof, a.draft.deck, part.deck, JointKey(a.draft)),
             LAMBDA check :
                 IF ~check.ok THEN Refused(a)
                 ELSE Taken(a, check.t, [a.draft EXCEPT !.deck = part.deck,
                                                        !.shuffled[author] = TRUE]))

\* One decryption share, against the key its author published.
CheckShare(a, author, item, index) ==
    VerifyEquality(Absorb(a.t, <<item.position, index>>), item.proof,
        a.draft.public_shares[author][1], Ciphertext(a.draft, item.position).c1, item.share)

WithShare(draft, author, item) ==
    [draft EXCEPT !.shares = (<<item.position, author>> :> item.share) @@ @]

\* Strictly from the top of the deck.
DealOne(a, author, item, index, me) ==
    IF ~a.ok \/ item.position # a.draft.pointer \/ a.draft.pointer >= Width THEN Refused(a)
    ELSE LET check == CheckShare(a, author, item, index)
             draft == [WithShare(a.draft, author, item) EXCEPT
                           !.dealt = (item.position :> Other(author)) @@ @, !.pointer = @ + 1]
         IN  IF \/ ~check.ok
                \/ me # author /\ ~IsTile(OpenWith(draft, item.position, item.share))
             THEN Refused(a) ELSE Taken(a, check.t, draft)

ApplyDeal(a, author, part, me) ==
    IF ~Ready(a.draft) THEN Refused(a)
    ELSE FoldLeft(LAMBDA b, i : DealOne(b, author, part.items[i], i - 1, me),
                  a, [i \in 1..Len(part.items) |-> i])

\* Only its holder opens a tile, and only once.
RevealOne(a, author, item, index) ==
    IF \/ ~a.ok \/ item.position \notin DOMAIN a.draft.dealt
       \/ item.position \in DOMAIN a.draft.public THEN Refused(a)
    ELSE IF a.draft.dealt[item.position] # author THEN Refused(a)
    ELSE LET check == CheckShare(a, author, item, index)
             other == a.draft.shares[<<item.position, Other(author)>>]
             opened == Open(Ciphertext(a.draft, item.position), item.share, other)
         IN  IF ~check.ok \/ ~IsTile(opened) THEN Refused(a)
             ELSE Taken(a, check.t, [WithShare(a.draft, author, item) EXCEPT
                           !.public = (item.position :> TileOf(opened)) @@ @])

ApplyReveal(a, author, part) ==
    FoldLeft(LAMBDA b, i : RevealOne(b, author, part.items[i], i - 1),
             a, [i \in 1..Len(part.items) |-> i])

ApplyPart(a, author, part, me) ==
    CASE ~a.ok -> a
      [] a.ok /\ part.kind = "key" -> ApplyKey(a, author, part)
      [] a.ok /\ part.kind = "shuffle" -> ApplyShuffle(a, author, part)
      [] a.ok /\ part.kind = "deal" -> ApplyDeal(a, author, part, me)
      [] a.ok /\ part.kind = "reveal" -> ApplyReveal(a, author, part)

\* All of it, on a copy: the outcome is taken whole or not at all.
Applied(s, author, at, payload) ==
    FoldLeft(LAMBDA a, part : ApplyPart(a, author, part, s.me),
             [ok |-> TRUE, t |-> NewTranscript(GAME, at), draft |-> s], payload)

Apply(s, author, at, payload) ==
    LET a == Applied(s, author, at, payload) IN IF a.ok THEN a.draft ELSE s

------------------------------------------------------------------------------
(* Building a payload: the same parts in the same order                       *)

Build(s, at) == [s |-> s, t |-> NewTranscript(GAME, at), deck |-> s.deck,
                 pointer |-> s.pointer, key |-> s.public_shares, parts |-> <<>>]

PutKey(b, entropy) ==
    LET share == Point(SECRET[b.s.me])
    IN  Using(ProveKnowledge(b.t, SECRET[b.s.me], entropy), LAMBDA known :
            [b EXCEPT !.t = known.t, !.key[b.s.me] = Some(share),
                      !.parts = Append(@, [kind |-> "key", share |-> share,
                                           proof |-> known.proof])])

\* how chooses the ordering committed to, the deck published and the claim.
PutShuffle(b, entropy, how) ==
    Using(ShuffleBy(b.t, b.deck, Joint(b.key[0][1], b.key[1][1]), entropy,
                    how.order, how.taken, how.bluff), LAMBDA done :
        [b EXCEPT !.t = done.t, !.deck = done.deck,
                  !.parts = Append(@, [kind |-> "shuffle", deck |-> done.deck,
                                       proof |-> done.proof])])

\* One share per position, each proven at its place in the payload.
PutShare(secret, c, cipher, position, entropy) ==
    Using(ProveEquality(Absorb(c.t, <<position, Len(c.items)>>), secret, cipher.c1,
                        entropy, position), LAMBDA proven :
        [t |-> proven.t,
         items |-> Append(c.items, [position |-> position,
                                    share |-> DecryptionShare(secret, cipher),
                                    proof |-> proven.proof])])

PutShares(b, kind, positions, entropy) ==
    Using(FoldLeft(LAMBDA c, pos : PutShare(SECRET[b.s.me], c, b.deck[pos + 1], pos, entropy),
                   [t |-> b.t, items |-> <<>>], positions), LAMBDA all :
        [b EXCEPT !.t = all.t, !.parts = Append(@, [kind |-> kind, items |-> all.items])])

PutDeal(b, count, entropy) ==
    PutShares([b EXCEPT !.pointer = @ + count], "deal",
              [i \in 1..count |-> b.pointer + i - 1], entropy)

PutReveal(b, positions, entropy) == PutShares(b, "reveal", positions, entropy)

\* The payloads the app asks for: module Deal names them by what they carry.
Honest(entropy) ==
    LET order == PermutationFromEntropy(entropy)
    IN  [order |-> order, taken |-> order, bluff |-> FALSE]

Built(s, at, load, entropy, how) ==
    LET keyed(b) == IF load.key THEN PutKey(b, entropy) ELSE b
        shuffled(b) == IF load.shuffle THEN PutShuffle(b, entropy, how) ELSE b
        opened(b) == IF load.reveal = {} THEN b ELSE PutReveal(b, SetToSeq(load.reveal), entropy)
        dealt(b) == IF load.count = 0 THEN b ELSE PutDeal(b, load.count, entropy)
    IN  dealt(opened(shuffled(keyed(Build(s, at))))).parts

------------------------------------------------------------------------------
(* Snapshots                                                                  *)

\* What is there is flagged, and the keys that are there follow one another.
Save(s) ==
    [flags |-> {<<"key", p>> : p \in {q \in Player : s.public_shares[q] # None}}
               \cup {<<"shuffled", p>> : p \in {q \in Player : s.shuffled[q]}},
     keys |-> s.public_shares[0] \o s.public_shares[1], deck |-> s.deck,
     pointer |-> s.pointer, dealt |-> s.dealt, shares |-> s.shares, public |-> s.public]

\* A slip: the first key of the snapshot is whoever's is asked for.
LoadedKeyFirst(snapshot, p) ==
    IF <<"key", p>> \in snapshot.flags THEN Some(snapshot.keys[1]) ELSE None

LoadedKey(snapshot, p) ==
    IF <<"key", p>> \notin snapshot.flags THEN None
    ELSE IF p = 1 /\ <<"key", 0>> \in snapshot.flags THEN Some(snapshot.keys[2])
    ELSE Some(snapshot.keys[1])

Load(me, snapshot) ==
    [me |-> me, public_shares |-> [p \in Player |-> LoadedKey(snapshot, p)],
     shuffled |-> [p \in Player |-> <<"shuffled", p>> \in snapshot.flags],
     deck |-> snapshot.deck, pointer |-> snapshot.pointer, dealt |-> snapshot.dealt,
     shares |-> snapshot.shares, public |-> snapshot.public]

------------------------------------------------------------------------------
(* Two devices and one log                                                    *)

\* What module Deal keeps of a device's state.
Abstract(s) ==
    [keys |-> {p \in Player : s.public_shares[p] # None},
     shuffled |-> {p \in Player : s.shuffled[p]},
     pointer |-> s.pointer,
     dealt |-> [p \in Player |-> {pos \in DOMAIN s.dealt : s.dealt[pos] = p}],
     shares |-> [p \in Player |-> {pos \in 0..(Width - 1) : <<pos, p>> \in DOMAIN s.shares}],
     public |-> DOMAIN s.public]

\* A key, a key and a shuffle, a shuffle and a hand, or a turn.
Loads(s) ==
    [key : {TRUE}, shuffle : BOOLEAN, reveal : {{}}, from : {s.pointer}, count : {0}]
        \cup [key : {FALSE}, shuffle : {TRUE}, reveal : {{}}, from : {s.pointer}, count : {0, HAND}]
        \cup [key : {FALSE}, shuffle : {FALSE}, from : {s.pointer}, count : {0, HAND},
              reveal : {{}} \cup {{pos} : pos \in DOMAIN s.dealt}]

Asked(s, author) == {load \in Loads(s) : Promise!Accepts(Abstract(s), author, load)}

Init == /\ deal = [p \in Player |-> New(p)]
        /\ seq = 0
        /\ last = [author |-> 0, asked |-> {}, took |-> {}]

\* Both devices are handed the payload; a log keeps what they take. An honest
\* entry is one that was asked for.
Handed(author, payload, asked) ==
    LET took == {p \in Player : Applied(deal[p], author, seq, payload).ok}
    IN  /\ deal' = [p \in Player |-> Apply(deal[p], author, seq, payload)]
        /\ seq' = IF took = {} THEN seq ELSE seq + 1
        /\ last' = [author |-> author, asked |-> asked, took |-> took]

Entry(author) ==
    /\ seq < MaxEntries
    /\ \E load \in Asked(deal[author], author), entropy \in ENTROPY :
         /\ load # Promise!Nothing(Abstract(deal[author]))
         /\ Handed(author, Built(deal[author], seq, load, entropy, Honest(entropy)), {load})

\* What the repository's own tests hand a device besides (shuffle/mod.rs, from
\* 577): a deck with a tile in it twice, committed to, or published under an
\* honest commitment, with the product computed or claimed.
Twice(order) == [order EXCEPT ![1] = order[Width]]
Faults(s, entropy) ==
    LET order == PermutationFromEntropy(entropy)
    IN  [order : {Twice(order)}, taken : {Twice(order)}, bluff : BOOLEAN]
            \cup {how \in {[order |-> order, taken |-> Twice(order), bluff |-> FALSE]} :
                      s.deck[order[1]] # s.deck[order[Width]]}

FaultyShuffle(author) ==
    /\ seq < MaxEntries
    /\ \E load \in Asked(deal[author], author), entropy \in ENTROPY :
         /\ load.shuffle
         /\ \E how \in Faults(deal[author], entropy) :
              Handed(author, Built(deal[author], seq, load, entropy, how), {})

\* A share or a key that is not the one its proof is for, in any part: what
\* went before it in the payload may not stay (state.rs, from 1078).
Bent(part) == IF part.kind = "key" THEN [part EXCEPT !.share = @ ++ G]
              ELSE [part EXCEPT !.items[1].share = @ ++ G]

FaultyShare(author) ==
    /\ seq < MaxEntries
    /\ \E load \in Asked(deal[author], author), entropy \in ENTROPY :
         \E parts \in {Built(deal[author], seq, load, entropy, Honest(entropy))} :
             \E i \in DOMAIN parts :
               /\ parts[i].kind # "shuffle"
               /\ Handed(author, [parts EXCEPT ![i] = Bent(@)], {})

\* An entry made for another place in the log (state.rs, from 1108).
Replay(author) ==
    /\ seq < MaxEntries
    /\ \E load \in Asked(deal[author], author), entropy \in ENTROPY :
         \E parts \in {Built(deal[author], seq + 1, load, entropy, Honest(entropy))} :
             parts # <<>> /\ Handed(author, parts, {})

Next == \E author \in Player :
    Entry(author) \/ FaultyShuffle(author) \/ FaultyShare(author) \/ Replay(author)

Spec == Init /\ [][Next]_<<deal, seq, last>>

------------------------------------------------------------------------------
(* Properties                                                                 *)

\* Whatever a device builds as the app asks it to, both devices take.
HonestTaken == last.asked # {} => last.took = Player

\* What was not made as the protocol says, or not for here, neither takes
\* (state.rs:194-196, transcript.rs:17-20).
FaultyRefused == last.asked = {} => last.took = {}

\* The deck is the bag throughout, under the keys both players really hold, and
\* every tile a device can read is the one in that place (shuffle/mod.rs:38-44).
JointSecret == SECRET[0] ++ SECRET[1]
Plain(s, position) ==
    LET c == Ciphertext(s, position) IN c.c2 -- (c.c1 ** JointSecret)

DeckIsTheBag ==
    \A p \in Player :
        /\ \A k \in Kinds :
             Len(SelectSeq(BAG, LAMBDA x : x = k))
             = Len(SelectSeq([i \in 1..Width |-> Plain(deal[p], i - 1)], LAMBDA x : x = TilePoint(k)))
        /\ LET read == VisibleTiles(deal[p])
           IN  /\ DOMAIN read = Promise!Readable(Abstract(deal[p]), p)
               /\ \A pos \in DOMAIN read : TilePoint(read[pos]) = Plain(deal[p], pos)

\* A device that is closed and opened again is where it was.
RestoredIsTheSame == \A p \in Player : Load(p, Save(deal[p])) = deal[p]

\* What module Deal promises, and Table relies on: an entry the app asks for does
\* to either device what that module says, and any other changes nothing.
KeepsThePromise ==
    [][\A p \in Player :
         Abstract(deal[p])' = FoldSet(LAMBDA load, d : Promise!Apply(d, last'.author, load),
                                     Abstract(deal[p]), last'.asked)]_<<deal, seq, last>>
==============================================================================
