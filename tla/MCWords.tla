------------------------------- MODULE MCWords -------------------------------
(* Three squares on a side, two letters and a blank, lists of words up to      *)
(* three letters.                                                             *)
EXTENDS Words

MCOctant == {<<0, 0, "TripleLetter">>, <<0, 1, "DoubleWord">>, <<1, 1, "Start">>}
MCValue == <<1, 3>>
MCTilesOut == {<<1, None>>, <<2, None>>, <<BLANK, Some(1)>>, <<BLANK, Some(3)>>}
MCPlayed == {{<<0, 0>>, <<0, 1>>, <<0, 1, 0>>},
             {<<0, 1>>, <<1, 0>>, <<1, 1>>, <<0, 1, 0>>, <<1, 1, 0>>}}
MCMaxPlays == [referee |-> 3, challenge |-> 2]
==============================================================================
