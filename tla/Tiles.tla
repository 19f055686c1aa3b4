------------------------------- MODULE Tiles --------------------------------
(***************************************************************************)
(* What the deal and the rules of Letras both speak of: the two players     *)
(* (rust/crates/tabla-plugin-api/src/lib.rs), and the positions of the deck *)
(* (rust/crates/tabla-letras/src/tiles.rs).                                 *)
(***************************************************************************)
EXTENDS Integers, FiniteSets

CONSTANTS
    TILE_TOTAL,     \* how many tiles the deck holds
    RACK            \* how many a player holds, and is dealt to start

\* There are tiles for both opening racks.
ASSUME TileAssumption ==
    TILE_TOTAL \in Nat /\ RACK \in Nat \ {0} /\ 2 * RACK <= TILE_TOTAL

Initiator == 0
Claimer == 1
Player == {Initiator, Claimer}

Other(p) == 1 - p

Position == 0 .. TILE_TOTAL - 1

\* The next so many positions off the top of a deck dealt as far as from.
Positions(from, count) == from .. from + count - 1
=============================================================================
