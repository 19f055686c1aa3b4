----------------------------- MODULE MCGameRoom -----------------------------
(* One room and two devices that upload whatever runs of entries they like.  *)
EXTENDS GameRoom

\* Every history over two payloads, up to MaxDepth entries.
CONSTANT MaxDepth
Histories == UNION {[1 .. n -> Body] : n \in 1 .. MaxDepth}

\* The entries of a history from its k-th on, as a client's flush sends them.
RunOf(h, k) == [i \in 1 .. (Len(h) - k + 1) |-> SubSeq(h, 1, k + i - 1)]

MCBatch == {RunOf(h, k) : h \in Histories, k \in 1 .. MaxDepth} \ {<<>>}

\* One entry is too large for the relay.
MCOversized == {<<"b", "b">>}
=============================================================================
