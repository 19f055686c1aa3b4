-------------------------------- MODULE Chain --------------------------------
(***************************************************************************)
(* The signed, hash-chained game log (tabla-core log.rs, and the framing    *)
(* the relay reads, shared/src/framing.ts).                                 *)
(*                                                                          *)
(* An entry's hash covers its payload and the hash of the entry before it,  *)
(* so, hashes being collision free, a hash stands for everything up to and  *)
(* including the entry.  An entry is therefore modelled as the history it   *)
(* ends: the sequence of sealed payloads from sequence 0 to its own.  A     *)
(* payload is a value of Body; it is sealed under a fresh random nonce, so  *)
(* two entries written separately never carry the same one.                 *)
(***************************************************************************)
EXTENDS Integers, Sequences

CONSTANT Body           \* sealed, signed payloads

Entry == Seq(Body) \ {<<>>}

SeqOf(e) == Len(e) - 1                      \* EntryHeader.seq, counted from 0
PrevOf(e) == SubSeq(e, 1, Len(e) - 1)       \* EntryHeader.prev_hash
HashOf(e) == e                              \* Entry::hash
GenesisPrevHash == <<>>                     \* the all-zero prevHash

Hash == Entry \cup {GenesisPrevHash}

\* The hash a log's next entry must name as its predecessor.
TipHash(log) == IF log = <<>> THEN GenesisPrevHash ELSE HashOf(log[Len(log)])

\* The tip's sequence, -1 for an empty log.
TipSeq(log) == Len(log) - 1

\* A slip: the sequence is checked and the chaining is not.
ContinuesUnchained(log, e) == SeqOf(e) = Len(log)

\* Log::append, and verify_suffix on one entry: contiguous and chained.
Continues(log, e) == SeqOf(e) = Len(log) /\ PrevOf(e) = TipHash(log)

\* Log::append_signed: our own entry, at the next sequence, naming the tip.
Signed(log, body) == Append(TipHash(log), body)

\* What verify_chain accepts: every entry at its own sequence, the first on
\* the genesis hash and every other on the hash of the one before it.
Linked(log) ==
    \A i \in DOMAIN log :
        /\ SeqOf(log[i]) = i - 1
        /\ PrevOf(log[i]) = IF i = 1 THEN GenesisPrevHash ELSE HashOf(log[i - 1])

\* Tombstone::check_extends: the log holds an entry with the tombstoned hash.
CheckExtends(log, tipHash) == \E i \in DOMAIN log : HashOf(log[i]) = tipHash

\* A history is a prefix of another (and so are the logs that end in them).
IsPrefixOf(h, g) == Len(h) <= Len(g) /\ h = SubSeq(g, 1, Len(h))

\* One of two histories goes on where the other stops: no fork between them.
Comparable(h, g) == IsPrefixOf(h, g) \/ IsPrefixOf(g, h)

\* The entries of a history, as the log that ends in it.
LogOf(h) == [i \in 1 .. Len(h) |-> SubSeq(h, 1, i)]

\* What a run of entries holds from sequence n on.
Beyond(b, n) ==
    IF b = <<>> \/ n <= SeqOf(b[1]) THEN b ELSE SubSeq(b, n - SeqOf(b[1]) + 1, Len(b))

\* Entries with consecutive sequences, as the wire carries them.
IsRun(b) == \A k \in DOMAIN b : SeqOf(b[k]) = SeqOf(b[1]) + k - 1
=============================================================================
