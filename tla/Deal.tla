-------------------------------- MODULE Deal --------------------------------
(***************************************************************************)
(* Dealing tiles from a deck neither player can read:                       *)
(* rust/crates/tabla-deal/src/state.rs, reached by the app through          *)
(* rust/crates/tabla-wasm/src/deal.rs and app/src/lib/deal.ts.              *)
(*                                                                          *)
(* A tile is read by whoever has both players' shares of its position, and  *)
(* a player can always compute a share of their own.  A deal is therefore   *)
(* which shares have been published: the tiles themselves never matter.  A  *)
(* proof is an oracle, good exactly for the game, the entry, the deck and   *)
(* the position it was made for; both devices hold the same deal, so one    *)
(* record stands for it.  A payload is built by one of the five builders,   *)
(* whose parts come in a fixed order: key, shuffle, reveal, deal.           *)
(***************************************************************************)
EXTENDS Tiles

DealState ==
    [keys : SUBSET Player,                  \* who has published a key share
     shuffled : SUBSET Player,
     pointer : 0 .. TILE_TOTAL,                    \* the next position to be dealt
     dealt : [Player -> SUBSET Position],   \* the positions given to a player
     shares : [Player -> SUBSET Position],  \* the positions a player has published a share of
     public : SUBSET Position]              \* the positions both have opened

Payload ==
    [key : BOOLEAN, shuffle : BOOLEAN, reveal : SUBSET Position,
     from : 0 .. TILE_TOTAL, count : 0 .. TILE_TOTAL]     \* deals count positions, the first of them from

NewDeal ==
    [keys |-> {}, shuffled |-> {}, pointer |-> 0,
     dealt |-> [p \in Player |-> {}], shares |-> [p \in Player |-> {}], public |-> {}]

Ready(d) == d.keys = Player /\ d.shuffled = Player

\* What this player still owes the ceremony.
Step(d, me) ==
    CASE me \notin d.keys -> "key"
      [] d.keys = Player /\ me \notin d.shuffled -> "shuffle"
      [] OTHER -> "play"

ReadyForShuffleAfterKey(d, me) ==
    me \notin d.keys /\ Other(me) \in d.keys /\ me \notin d.shuffled

\* The positions a player can read: the public ones, and those dealt to them
\* that the other has published a share of.
Readable(d, me) == d.public \cup (d.dealt[me] \cap d.shares[Other(me)])

-----------------------------------------------------------------------------
(* Applying a payload, part by part: what each part is refused for, and what *)
(* it changes.                                                               *)

KeyOK(d, author) == author \notin d.keys

WithKey(d, author) == [d EXCEPT !.keys = @ \cup {author}]

ShuffleOK(d, author) == d.keys = Player /\ author \notin d.shuffled /\ d.pointer = 0

WithShuffle(d, author) == [d EXCEPT !.shuffled = @ \cup {author}]

RevealOK(d, author, opened) ==
    /\ author \in d.keys
    /\ opened \subseteq d.dealt[author] \ d.public
    /\ opened \subseteq d.shares[Other(author)]

WithReveal(d, author, opened) ==
    [d EXCEPT !.shares[author] = @ \cup opened, !.public = @ \cup opened]

\* Dealing is from the top of the deck, to the other player, and only once both
\* have shuffled.
DealOK(d, author, from, count) ==
    Ready(d) /\ from = d.pointer /\ from + count <= TILE_TOTAL

WithDeal(d, author, from, count) ==
    [d EXCEPT !.shares[author] = @ \cup Positions(from, count),
              !.dealt[Other(author)] = @ \cup Positions(from, count),
              !.pointer = from + count]

\* The drafts a payload passes through.
Keyed(d, author, load) == IF load.key THEN WithKey(d, author) ELSE d

Shuffled(d, author, load) ==
    LET k == Keyed(d, author, load) IN IF load.shuffle THEN WithShuffle(k, author) ELSE k

Revealed(d, author, load) == WithReveal(Shuffled(d, author, load), author, load.reveal)

Accepts(d, author, load) ==
    /\ load.key => KeyOK(d, author)
    /\ load.shuffle => ShuffleOK(Keyed(d, author, load), author)
    /\ load.reveal # {} => RevealOK(Shuffled(d, author, load), author, load.reveal)
    /\ load.count > 0 => DealOK(Revealed(d, author, load), author, load.from, load.count)

\* A payload is applied whole or not at all.
Apply(d, author, load) ==
    IF ~Accepts(d, author, load) THEN d
    ELSE IF load.count = 0 THEN Revealed(d, author, load)
    ELSE WithDeal(Revealed(d, author, load), author, load.from, load.count)

-----------------------------------------------------------------------------
(* Building one.                                                             *)

Nothing(d) == [key |-> FALSE, shuffle |-> FALSE, reveal |-> {}, from |-> d.pointer, count |-> 0]

\* A slip: the claimer's shuffle is left to an entry of its own.
PayloadKeyAlone(d, me, owed, reveal) ==
    CASE Step(d, me) = "key" -> [Nothing(d) EXCEPT !.key = TRUE]
      [] Step(d, me) = "shuffle" -> [Nothing(d) EXCEPT !.shuffle = TRUE, !.count = owed]
      [] OTHER -> [Nothing(d) EXCEPT !.reveal = reveal, !.count = owed]

\* Deal.payload: the deal says what the ceremony still owes, the rules how many
\* tiles to hand over and what to open.
PayloadFor(d, me, owed, reveal) ==
    CASE Step(d, me) = "key" ->
            [Nothing(d) EXCEPT !.key = TRUE, !.shuffle = ReadyForShuffleAfterKey(d, me)]
      [] Step(d, me) = "shuffle" -> [Nothing(d) EXCEPT !.shuffle = TRUE, !.count = owed]
      [] OTHER -> [Nothing(d) EXCEPT !.reveal = reveal, !.count = owed]
=============================================================================
