------------------------------- MODULE History -------------------------------
(***************************************************************************)
(* What a game is to its two players, whatever the relay, the connections   *)
(* and the devices do: one record of play that both can replay, to which    *)
(* entries are added in turn, and from which none is ever taken away.       *)
(***************************************************************************)
EXTENDS Session

VARIABLE history

HistoryInit == Replays(history)

\* One entry more, or several that a device had ready.
Play ==
    /\ history' # history
    /\ IsPrefixOf(history, history')
    /\ Replays(history')

HistorySpec == HistoryInit /\ [][Play]_history
=============================================================================
