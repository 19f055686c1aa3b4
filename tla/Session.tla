------------------------------- MODULE Session -------------------------------
(***************************************************************************)
(* What the two players' key reads in a log: who may write what, and when   *)
(* (tabla-core session.rs).  The payload of an entry is sealed; opened, it  *)
(* says what kind of entry it is, and it opens only at the sequence it was  *)
(* sealed for.  Bodies are records with the role of the writer (by), the    *)
(* kind (kind) and that sequence (at); nothing else of them matters here.   *)
(***************************************************************************)
EXTENDS Chain

Role == {"initiator", "claimer"}
Kind == {"join", "setup", "move", "resign"}

\* Session::expected_author: after the prologue the initiator moves first.
ExpectedAuthor(seq) ==
    IF seq = 0 \/ (seq > 1 /\ seq % 2 = 1) THEN "claimer" ELSE "initiator"

\* The body of the entry at a sequence of a history.
BodyAt(h, seq) == h[seq + 1]

ResignedBefore(h, seq) == \E i \in 0 .. (seq - 1) : BodyAt(h, i).kind = "resign"

\* Session::replay, one entry: it opens; the prologue is a join and a setup; from
\* then on moves are written in turn, a resignation by either, and nothing after
\* it.
Replayable(h, seq) ==
    /\ BodyAt(h, seq).at = seq
    /\ ~ResignedBefore(h, seq)
    /\ CASE seq = 0 -> BodyAt(h, 0).kind = "join"
         [] seq = 1 -> BodyAt(h, 1).kind = "setup"
         [] OTHER   -> BodyAt(h, seq).kind \in {"move", "resign"}
    /\ BodyAt(h, seq).kind = "resign" \/ BodyAt(h, seq).by = ExpectedAuthor(seq)

\* Session::replay accepts the log that ends in this history.
Replays(h) == \A i \in DOMAIN h : Replayable(h, i - 1)
=============================================================================
