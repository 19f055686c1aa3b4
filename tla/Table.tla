------------------------------- MODULE Table --------------------------------
(***************************************************************************)
(* A game of Letras as the app plays it: every entry carries a move of the  *)
(* rules (Letras) and a payload of the deal (Deal), put together by the     *)
(* author's device (app/src/lib/game-session.ts: wrap, opened, play,        *)
(* driveAutomatic) from the view of the log as it stands, and applied by    *)
(* both devices alike.  The log alternates strictly, so there is one game   *)
(* and one deal to speak of, and they move together, an entry at a time.    *)
(*                                                                          *)
(* The rules and the deal know nothing of each other: that what the rules   *)
(* ask for is what the deal will accept is what has to be shown.            *)
(***************************************************************************)
EXTENDS Deal, Letras

VARIABLES
    game,       \* the rules' state
    deal,       \* the deal
    refused     \* an entry has been written whose payload no device accepts

vars == <<game, deal, refused>>

Init ==
    /\ \E version \in Versions : game = Setup(version)
    /\ deal = NewDeal
    /\ refused = FALSE

Me == game.turn

\* An entry leaves the rules in state next, and opens these positions.  The
\* rules go by the move, the deal by the payload.
Entry(next, opening) ==
    LET load == PayloadFor(deal, Me, Owed(game, Me), opening)
    IN  /\ ~refused
        /\ game' = next
        /\ deal' = Apply(deal, Me, load)
        /\ refused' = ~Accepts(deal, Me, load)

\* What the author can read is what the rules are told; the toss is drawn from
\* it.
Half(p) == Readable(deal, p)

\* The moves the client makes on the player's behalf.  Any entry but a play
\* opens what the rules say is to be opened, which is nothing before the end.
Key == Expected(game) = "key" /\ Entry(Ended(AfterKey(game, Half(Me))), ToOpen(game, Me))

Shuffle ==
    /\ CanShuffle(game, Half(Me))
    /\ \E first \in Player :
        Entry(Ended(AfterShuffle(game, first)), ToOpen(game, Me))

DealRack == Expected(game) = "deal" /\ Entry(Ended(game), ToOpen(game, Me))

Yield == Expected(game) = "yield" /\ Entry(Ended(AfterForfeit(game)), ToOpen(game, Me))

Forfeit == Expected(game) = "forfeit" /\ Entry(Ended(AfterForfeit(game)), ToOpen(game, Me))

\* The rack is named as far as its holder can read it.
Named == ToOpen(game, Me) \cap Readable(deal, Me)

OpenRack == CanOpen(game, Named) /\ Entry(Ended(AfterOpen(game)), Named)

\* The moves a player chooses.  Only a tile one can read can be put down.
Place ==
    \E spent \in SUBSET (game.racks[Me] \cap Readable(deal, Me)), real \in BOOLEAN :
        /\ CanPlace(game, spent)
        /\ game.version = 3 => real
        /\ Entry(Ended(AfterPlace(game, spent, real)), spent)

Exchange ==
    \E returned \in SUBSET game.racks[Me] :
        /\ CanExchange(game, returned)
        /\ Entry(Ended(AfterExchange(game, returned)), ToOpen(game, Me))

Pass == Expected(game) = "play" /\ Entry(Ended(AfterPass(game)), ToOpen(game, Me))

\* The client makes a move it owes before the player can choose one.
Challenge ==
    /\ Expected(game) = "play"
    /\ CanChallenge(game)
    /\ Entry(ChallengeEnded(AfterChallenge(game), ~game.lastPlay.real), ToOpen(game, Me))

Next ==
    \/ Key \/ Shuffle \/ DealRack \/ Yield \/ Forfeit \/ OpenRack
    \/ Place \/ Exchange \/ Pass \/ Challenge

Spec == Init /\ [][Next]_vars

\* As long as either has a move to make, they go on making them.
FairSpec == Spec /\ WF_vars(Next)

-----------------------------------------------------------------------------
\* The two states stay within what their modules say they are.
TableTypeOK == game \in State /\ deal \in DealState /\ refused \in BOOLEAN

\* The rules and the deal count the same tiles as dealt, and what the rules say
\* a player holds is what the deal gave them, though neither can ask the other.
InStep ==
    /\ game.pointer = deal.pointer
    /\ \A p \in Player : game.racks[p] \subseteq deal.dealt[p]

\* No device refuses the payload of an entry the client has built, and a move
\* the rules are waiting for is one the client can make: it opens the toss it
\* committed to, and names the whole of the rack it has to open.
NeverStuck ==
    /\ ~refused
    /\ Expected(game) = "shuffle" => CanShuffle(game, Half(Me))
    /\ Expected(game) = "open" => CanOpen(game, Named)

\* A tile in a rack is read by its holder and, until it is put down or the rack
\* is opened, by nobody else; a tile still in the bag is read by nobody at all.
RackSecrecy ==
    /\ \A p \in Player : game.racks[p] \subseteq Readable(deal, p)
    /\ \A p \in Player \ game.opened : game.racks[p] \cap Readable(deal, Other(p)) = {}
    /\ \A p \in Player : \A i \in Readable(deal, p) : i < deal.pointer

\* They hold of version 3, where nothing takes a play back.
ThreeInStep == game.version = 3 => InStep
ThreeNeverStuck == game.version = 3 => NeverStuck
ThreeRackSecrecy == game.version = 3 => RackSecrecy

\* Once dealt an opening rack, a player has a full one or is owed what it lacks,
\* and starts a turn short only if the bag is empty.
FullOrOwed ==
    game.step >= 4 => \A p \in Player :
        /\ Cardinality(game.racks[p]) + game.pending[p] = RACK
        /\ (p = game.turn /\ game.pending[p] > 0) => InBag(game) = 0

\* A game comes to its end only for one of the two reasons there are, and that
\* reason still holds while the racks are opened and when it is over.
EndsForAReason ==
    game.ending =>
        \/ game.scoreless >= SCORELESS_LIMIT
        \/ /\ game.wentOut # Nobody
           /\ game.racks[game.wentOut] = {}
           /\ InBag(game) = 0

\* Under version 3, two players who go on playing finish the game.
GameEnds == (game.version = 3) ~> game.finished
=============================================================================
