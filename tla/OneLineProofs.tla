---------------------------- MODULE OneLineProofs -----------------------------
(***************************************************************************)
(* A game whose players have one device each, make one move at a time and   *)
(* do not resign: no two copies of it ever fork, every one of them replays, *)
(* and it is one record of play, as History says.                           *)
(*                                                                          *)
(* Moves alternate, so a device that may write the next one has every entry *)
(* written so far: all there is of the game, anywhere, is a prefix of one   *)
(* history, the line, to which only the device whose turn it is can add.    *)
(* The invariant says so of every log, of the tombstone and of every        *)
(* message, and that a device has all that its player wrote; on a line no   *)
(* append is ever refused for its chain, so that nothing is taken back.     *)
(*                                                                          *)
(* A player who thinks about a move does so at the end of the line, and it  *)
(* cannot go on before the move is made: the move finds the place it was    *)
(* sealed for.                                                              *)
(*                                                                          *)
(* With a second device of a player, or with a resignation, which may cross *)
(* a move, the game does fork (the runs OfflineRace and Siblings); with a   *)
(* board that takes a second tap, a log is spoilt (Siblings).               *)
(***************************************************************************)
EXTENDS SyncProofs

\* No player has two devices with the game open.
OneDeviceEach == \A c, d \in Device : PlayerOf[c] = PlayerOf[d] => c = d

\* No board takes a move while it still plays another.
OnePlayAtATime == \A p \in Plans : p.hasty = {}

\* A history without a resignation.
Line == {M \in Seq(Body) : Replays(M) /\ ~ResignedBefore(M, Len(M))}

\* The entries up to which it is the history.
OnLine(M) == {e \in Good : IsPrefixOf(e, M)}

\* Messages whose entries are some of these, and that refuse none of them.
Asking(H)    == {m \in GoodClientMessage : m.t = "append" => m.entries \in Seq(H)}
Answering(H) == {m \in Bearing(H) : m.t = "err" => m.code # "chain_mismatch"}

\* The devices keep to the line, each has all its player wrote, and whoever thinks
\* about a move has all of the line.
DevicesOn(M) ==
    \A d \in Device :
        /\ dlog[d] \in Seq(OnLine(M))
        /\ \A i \in 1 .. Len(M) : M[i].by = PlayerOf[d] => i <= Len(dlog[d])
        /\ playing[d] = <<>> \/ (playing[d] = <<Len(M)>> /\ Len(dlog[d]) = Len(M))

RoomOn(M) ==
    /\ log \in Seq(OnLine(M))
    /\ tombstone \in OnLine(M) \cup {GenesisPrevHash}
    /\ \A p \in pushing : p.entries \in Seq(OnLine(M))

MessagesOn(M) ==
    /\ up \in [Socket -> Seq(Asking(OnLine(M)))]
    /\ down \in [Socket -> Seq(Answering(OnLine(M)))]

OneLine ==
    /\ NobodyResigns /\ OnePlayAtATime
    /\ \E M \in Line : DevicesOn(M) /\ RoomOn(M) /\ MessagesOn(M)

-----------------------------------------------------------------------------
(* Prefixes of one history.                                                  *)

LEMMA PrefixesOfOne ==
    ASSUME NEW M \in Seq(Body), NEW f \in Seq(Body), NEW g \in Seq(Body),
           IsPrefixOf(f, M), IsPrefixOf(g, M), Len(f) <= Len(g)
    PROVE  IsPrefixOf(f, g)
<1>1. Len(f) \in Nat /\ Len(g) \in Nat /\ Len(M) \in Nat
    BY LenProperties
<1>2. /\ Len(g) <= Len(M)
      /\ f = SubSeq(M, 1, Len(f)) /\ g = SubSeq(M, 1, Len(g))
    BY DEF IsPrefixOf
<1>3. Len(g) \in 0 .. Len(M) /\ Len(f) \in 0 .. Len(g)
    BY <1>1, <1>2
<1>4. SubSeq(SubSeq(M, 1, Len(g)), 1, Len(f)) = SubSeq(M, 1, Len(f))
    BY <1>3, CutTwice
<1> QED
    BY <1>2, <1>4 DEF IsPrefixOf

LEMMA SameLength ==
    ASSUME NEW M, NEW f, NEW g, IsPrefixOf(f, M), IsPrefixOf(g, M), Len(f) = Len(g)
    PROVE  f = g
    BY DEF IsPrefixOf

LEMMA LineFacts ==
    ASSUME NEW M \in Line
    PROVE  /\ M \in Seq(Body) /\ Len(M) \in Nat /\ DOMAIN M = 1 .. Len(M) /\ Replays(M)
           /\ \A i \in 1 .. Len(M) :
                M[i].kind # "resign" /\ M[i].by = ExpectedAuthor(i - 1) /\ M[i].at = i - 1
<1>1. M \in Seq(Body) /\ Len(M) \in Nat /\ DOMAIN M = 1 .. Len(M) /\ Replays(M)
    BY LenProperties DEF Line
<1>2. ASSUME NEW i \in 1 .. Len(M)
      PROVE  M[i].kind # "resign" /\ M[i].by = ExpectedAuthor(i - 1) /\ M[i].at = i - 1
    <2>1. i - 1 \in 0 .. (Len(M) - 1) /\ (i - 1) + 1 = i
        BY <1>1
    <2>2. BodyAt(M, i - 1) = M[i]
        BY <2>1 DEF BodyAt
    <2>3. M[i].kind # "resign"
        BY <2>1, <2>2 DEF Line, ResignedBefore
    <2>4. Replayable(M, i - 1)
        BY <1>1 DEF Replays
    <2> QED
        BY <2>2, <2>3, <2>4 DEF Replayable
<1> QED
    BY <1>1, <1>2

LEMMA OnLineFacts ==
    ASSUME NEW M \in Seq(Body), NEW e \in OnLine(M)
    PROVE  /\ e \in Good /\ e \in Entry /\ e \in Seq(Body) /\ Len(e) \in Nat \ {0}
           /\ SeqOf(e) \in Nat /\ Len(e) = SeqOf(e) + 1 /\ IsPrefixOf(e, M)
           /\ PrevOf(e) \in Seq(Body) /\ Len(PrevOf(e)) = SeqOf(e) /\ IsPrefixOf(PrevOf(e), M)
<1>1. e \in Good /\ e \in Entry /\ IsPrefixOf(e, M)
    BY GoodAreEntries DEF OnLine
<1>2. /\ e \in Seq(Body) /\ Len(e) \in Nat \ {0} /\ SeqOf(e) \in Nat /\ SeqOf(e) = Len(e) - 1
    BY <1>1, EntryFacts
<1> DEFINE p == PrevOf(e)
           n == Len(e) - 1
<1>3. n \in Nat /\ n <= Len(e) /\ 1 <= n + 1 /\ p = SubSeq(e, 1, n)
    BY <1>2 DEF PrevOf
<1> HIDE DEF n, p
<1>4. p \in Seq(Body) /\ Len(p) = n
    <2>1. SubSeq(e, 1, n) \in Seq(Body) /\ Len(SubSeq(e, 1, n)) = n - 1 + 1
        BY <1>2, <1>3, Stretch
    <2> QED
        BY <1>3, <2>1
<1>5. IsPrefixOf(p, e)
    BY <1>3, <1>4 DEF IsPrefixOf
<1>6. IsPrefixOf(p, M)
    BY <1>1, <1>2, <1>4, <1>5, PrefixTransitive
<1> QED
    BY <1>1, <1>2, <1>4, <1>6 DEF n, p

\* The history a log on the line ends in.
LEMMA TipOnLine ==
    ASSUME NEW M \in Seq(Body), NEW l \in Seq(OnLine(M)), Linked(l)
    PROVE  /\ l \in Seq(Good) /\ Len(l) \in Nat
           /\ TipHash(l) \in OnLine(M) \cup {GenesisPrevHash}
           /\ TipHash(l) \in Seq(Body) /\ IsPrefixOf(TipHash(l), M)
           /\ Len(TipHash(l)) = Len(l) /\ Len(l) <= Len(M)
           /\ \A i \in 1 .. Len(l) : l[i] \in OnLine(M) /\ Len(l[i]) = i
<1>1. l \in Seq(Good) /\ Len(l) \in Nat
    BY SeqMonotonic, LenProperties DEF OnLine
<1>2. \A i \in 1 .. Len(l) : l[i] \in OnLine(M) /\ Len(l[i]) = i
    BY <1>1, ElementOfSeq, EntryOfTip
<1>3. TipHash(l) \in Seq(Body) /\ Len(TipHash(l)) = Len(l)
    BY <1>1, TipOf
<1>4. TipHash(l) \in OnLine(M) \cup {GenesisPrevHash}
    <2>1. CASE l = <<>>
        BY <2>1 DEF TipHash
    <2>2. CASE l # <<>>
        <3>1. Len(l) \in 1 .. Len(l) /\ TipHash(l) = l[Len(l)]
            BY <1>1, <2>2, EmptySeq DEF TipHash, HashOf
        <3> QED
            BY <1>2, <3>1
    <2> QED
        BY <2>1, <2>2
<1>5. IsPrefixOf(TipHash(l), M)
    BY <1>4, PrefixReflexive DEF OnLine, GenesisPrevHash
<1> QED
    BY <1>1, <1>2, <1>3, <1>4, <1>5 DEF IsPrefixOf

\* On the line all stands where it was sealed for, so that every log replays.
LEMMA ReplaysOnLine ==
    ASSUME NobodyResigns, NEW M \in Line, NEW l \in Seq(OnLine(M)), Linked(l)
    PROVE  InPlace(TipHash(l)) /\ Replays(TipHash(l))
<1> DEFINE h == TipHash(l)
<1>1. M \in Seq(Body) /\ Len(M) \in Nat
    BY LineFacts
<1>2. /\ l \in Seq(Good) /\ h \in Seq(Body) /\ IsPrefixOf(h, M)
      /\ Len(h) = Len(l) /\ Len(l) \in Nat /\ Len(l) <= Len(M)
    BY <1>1, TipOnLine
<1>3. Sound(h)
    BY <1>2, TipOf
<1> HIDE DEF h
<1>4. InPlace(h)
    <2> SUFFICES ASSUME NEW i \in DOMAIN h PROVE h[i].at = i - 1
        BY DEF InPlace
    <2>1. i \in 1 .. Len(M) /\ i \in 1 .. Len(h)
        BY <1>1, <1>2, LenProperties
    <2>2. h[i] = M[i]
        <3>1. 1 <= Len(h) + 1 /\ Len(h) \in Nat /\ Len(h) <= Len(M)
            BY <1>1, <1>2
        <3>2. \A k \in 1 .. (Len(h) - 1 + 1) : SubSeq(M, 1, Len(h))[k] = M[1 + k - 1]
            BY <1>1, <3>1, Stretch
        <3>3. h = SubSeq(M, 1, Len(h))
            BY <1>2 DEF IsPrefixOf
        <3>4. SubSeq(M, 1, Len(h))[i] = M[1 + i - 1] /\ 1 + i - 1 = i
            BY <2>1, <3>1, <3>2
        <3> QED
            BY <3>3, <3>4
    <2> QED
        BY <2>1, <2>2, LineFacts
<1> QED
    BY <1>3, <1>4 DEF Sound, h

\* A line that goes on has every entry it had.
LEMMA OnLineGrows ==
    ASSUME NEW M \in Seq(Body), NEW N \in Seq(Body), IsPrefixOf(M, N)
    PROVE  /\ OnLine(M) \subseteq OnLine(N)
           /\ Asking(OnLine(M)) \subseteq Asking(OnLine(N))
           /\ Answering(OnLine(M)) \subseteq Answering(OnLine(N))
<1>1. ASSUME NEW e \in OnLine(M) PROVE e \in OnLine(N)
    <2>1. e \in Good /\ e \in Seq(Body) /\ IsPrefixOf(e, M)
        BY OnLineFacts
    <2>2. IsPrefixOf(e, N)
        BY <2>1, PrefixTransitive
    <2> QED
        BY <2>1, <2>2 DEF OnLine
<1>2. OnLine(M) \subseteq OnLine(N)
    BY <1>1
<1>3. \A b \in Seq(OnLine(M)) : b \in Seq(OnLine(N))
    BY <1>2, SeqMonotonic
<1> QED
    BY <1>2, <1>3 DEF Asking, Answering, Bearing
-----------------------------------------------------------------------------
(* Nothing on the line is refused for its chain, nor taken back.             *)

\* An entry of the line that does not fit is too large, or comes too early.
LEMMA FitsOnLine ==
    ASSUME Inv, NEW M \in Seq(Body), log \in Seq(OnLine(M)),
           NEW b \in Run, b \in Seq(OnLine(M)), NEW k \in DOMAIN b, ~Fits(b, k)
    PROVE  b[k] \in Oversized \/ SeqOf(b[k]) > Expected(b, k).seq
<1> DEFINE n == Len(log)
           e == b[k]
           q == Expected(b, k).seq
<1>1. /\ Linked(log) /\ n \in Nat /\ Len(b) \in Nat /\ DOMAIN b = 1 .. Len(b)
      /\ IsRun(b) /\ k \in 1 .. Len(b)
    BY LenProperties DEF Inv, Copies, GoodRoom, Run
<1>2. /\ TipHash(log) \in Seq(Body) /\ IsPrefixOf(TipHash(log), M) /\ Len(TipHash(log)) = n
      /\ \A i \in 1 .. n : log[i] \in OnLine(M) /\ Len(log[i]) = i
    BY <1>1, TipOnLine
<1>3. \A i \in 1 .. Len(b) :
        /\ b[i] \in OnLine(M) /\ SeqOf(b[i]) \in Nat /\ Len(b[i]) = SeqOf(b[i]) + 1
        /\ IsPrefixOf(b[i], M)
        /\ IsPrefixOf(PrevOf(b[i]), M) /\ Len(PrevOf(b[i])) = SeqOf(b[i])
    BY <1>1, ElementOfSeq, OnLineFacts
<1>4. SeqOf(e) \in Nat /\ Len(e) = SeqOf(e) + 1 /\ IsPrefixOf(e, M)
      /\ IsPrefixOf(PrevOf(e), M) /\ Len(PrevOf(e)) = SeqOf(e)
    BY <1>1, <1>3
<1>5. CASE SeqOf(e) < n
    <2>1. SeqOf(e) + 1 \in 1 .. n
        BY <1>1, <1>4, <1>5
    <2>2. log[SeqOf(e) + 1] \in OnLine(M) /\ Len(log[SeqOf(e) + 1]) = SeqOf(e) + 1
        BY <1>2, <2>1
    <2>3. IsPrefixOf(log[SeqOf(e) + 1], M)
        BY <2>2 DEF OnLine
    <2>4. log[SeqOf(e) + 1] = e
        BY <1>4, <2>2, <2>3, SameLength
    <2> QED
        BY <1>5, <2>4 DEF Fits
<1>6. CASE ~(SeqOf(e) < n) /\ k > 1 /\ SeqOf(b[k - 1]) >= n
    <2>1. k - 1 \in 1 .. Len(b) /\ 1 \in 1 .. Len(b)
        BY <1>1, <1>6
    <2>2. SeqOf(b[k - 1]) \in Nat /\ SeqOf(e) = SeqOf(b[k - 1]) + 1
        <3>1. SeqOf(b[k - 1]) = SeqOf(b[1]) + (k - 1) - 1 /\ SeqOf(e) = SeqOf(b[1]) + k - 1
            BY <1>1, <2>1 DEF IsRun
        <3>2. SeqOf(b[1]) \in Nat /\ SeqOf(b[k - 1]) \in Nat
            BY <1>3, <2>1
        <3> QED
            BY <1>1, <3>1, <3>2
    <2>3. Expected(b, k) = [seq |-> SeqOf(b[k - 1]) + 1, prev |-> b[k - 1]]
        BY <1>6 DEF Expected, HashOf
    <2>4. IsPrefixOf(b[k - 1], M) /\ Len(b[k - 1]) = SeqOf(b[k - 1]) + 1
        BY <1>3, <2>1
    <2>5. PrevOf(e) = b[k - 1]
        BY <1>4, <2>2, <2>4, SameLength
    <2> QED
        BY <2>2, <2>3, <2>5 DEF Fits
<1>7. CASE ~(SeqOf(e) < n) /\ ~(k > 1 /\ SeqOf(b[k - 1]) >= n)
    <2>1. Expected(b, k) = [seq |-> n, prev |-> TipHash(log)]
        BY <1>7 DEF Expected
    <2>2. CASE SeqOf(e) = n
        <3>1. PrevOf(e) = TipHash(log)
            BY <1>2, <1>4, <2>2, SameLength
        <3> QED
            BY <2>1, <2>2, <3>1 DEF Fits
    <2>3. CASE SeqOf(e) # n
        BY <1>1, <1>4, <1>7, <2>1, <2>3
    <2> QED
        BY <2>2, <2>3
<1> QED
    BY <1>5, <1>6, <1>7

LEMMA RefusalOnLine ==
    ASSUME Inv, NEW M \in Seq(Body), log \in Seq(OnLine(M)),
           NEW b \in Run, b \in Seq(OnLine(M)), ~Accepts(b)
    PROVE  Refusal(b) # "chain_mismatch"
<1> DEFINE T == {k \in DOMAIN b : ~Fits(b, k)}
           First(k) == ~Fits(b, k) /\ \A j \in 1 .. (k - 1) : Fits(b, j)
           k == CHOOSE k \in DOMAIN b : First(k)
<1>1. DOMAIN b = 1 .. Len(b) /\ Len(b) \in Nat
    BY LenProperties DEF Run
<1>2. \E i \in DOMAIN b : First(i)
    <2>1. T # {} /\ T \in SUBSET Nat
        BY <1>1 DEF Accepts
    <2>2. PICK i \in T : \A m \in T : i <= m
        BY <2>1, LeastElement
    <2>3. ASSUME NEW j \in 1 .. (i - 1) PROVE Fits(b, j)
        <3>1. i \in 1 .. Len(b)
            BY <1>1, <2>2
        <3>2. j \in DOMAIN b /\ ~(i <= j)
            BY <1>1, <3>1
        <3> QED
            BY <2>2, <3>2
    <2> QED
        BY <2>2, <2>3
<1>3. k \in DOMAIN b /\ ~Fits(b, k)
    BY <1>2
<1>4. Refusal(b) = IF b[k] \in Oversized THEN "entry_too_large"
                   ELSE IF SeqOf(b[k]) > Expected(b, k).seq THEN "seq_gap"
                   ELSE "chain_mismatch"
    BY DEF Refusal
<1> HIDE DEF k
<1>5. b[k] \in Oversized \/ SeqOf(b[k]) > Expected(b, k).seq
    BY <1>3, FitsOnLine
<1> QED
    BY <1>4, <1>5

LEMMA NobodyRetracts ==
    ASSUME Inv, NEW H, down \in [Socket -> Seq(Answering(H))], NEW d \in Device
    PROVE  ~RollBack(d)
<1> SUFFICES ASSUME RollBack(d) PROVE FALSE
    OBVIOUS
<1>1. /\ sock[d] \in Socket /\ down[sock[d]] # <<>> /\ Incoming(d).t = "err"
      /\ Incoming(d).code = "chain_mismatch"
    BY DEF RollBack, LostRace, Waiting, Incoming, Inv, Copies, GoodSockets
<1>2. down[sock[d]] \in Seq(Answering(H))
    BY <1>1
<1>3. Incoming(d) \in Answering(H)
    BY <1>1, <1>2, HeadTailProperties DEF Incoming
<1> QED
    BY <1>1, <1>3 DEF Answering
-----------------------------------------------------------------------------
(* Who may write the next entry has all of the line.                         *)

LEMMA WriterHasItAll ==
    ASSUME NEW M \in Line, DevicesOn(M), NEW d \in Device,
           NEW l \in Seq(OnLine(M)), Linked(l), Len(dlog[d]) <= Len(l), Len(dlog[d]) \in Nat,
           PlayerOf[d] = ExpectedAuthor(Len(l))
    PROVE  TipHash(l) = M /\ Len(l) = Len(M)
<1> DEFINE h == TipHash(l)
           n == Len(h)
<1>1. M \in Seq(Body) /\ Len(M) \in Nat
    BY LineFacts
<1>2. h \in Seq(Body) /\ IsPrefixOf(h, M) /\ n = Len(l) /\ n \in Nat /\ n <= Len(M)
    BY <1>1, TipOnLine
<1>3. PlayerOf[d] = ExpectedAuthor(n)
    BY <1>2
<1> HIDE DEF h
<1>4. CASE n < Len(M)
    <2>1. n + 1 \in 1 .. Len(M) /\ (n + 1) - 1 = n
        BY <1>1, <1>2, <1>4
    <2>2. M[n + 1].by = ExpectedAuthor(n)
        BY <2>1, LineFacts
    <2>3. n + 1 <= Len(dlog[d])
        BY <1>3, <2>1, <2>2 DEF DevicesOn
    <2> QED
        BY <1>2, <2>3
<1>5. CASE n = Len(M)
    BY <1>1, <1>2, <1>5, PrefixReflexive, SameLength DEF h
<1> QED
    BY <1>1, <1>2, <1>4, <1>5

\* Who thinks about a move has it all, for it is that device's turn.
LEMMA ThinkerHasItAll ==
    ASSUME Inv, NobodyResigns, NEW M \in Line, DevicesOn(M),
           NEW d \in Device, playing[d] # <<>>
    PROVE  /\ playing[d] = <<Len(M)>> /\ Len(dlog[d]) = Len(M) /\ Len(M) >= 2
           /\ PlayerOf[d] = ExpectedAuthor(Len(M))
           /\ Head(playing[d]) = Len(M) /\ Tail(playing[d]) = <<>>
<1>1. /\ playing[d] = <<Len(M)>> /\ Len(dlog[d]) = Len(M)
      /\ playing[d] \in Seq(Turns(d))
    BY DEF DevicesOn, Inv, GoodPlays
<1>2. Head(playing[d]) \in Turns(d) /\ Head(playing[d]) = Len(M)
    <2>1. Head(playing[d]) \in Turns(d)
        BY <1>1, HeadTailProperties
    <2> QED
        BY <1>1, <2>1
<1>3. Tail(playing[d]) = <<>>
    BY <1>1
<1> QED
    BY <1>1, <1>2, <1>3 DEF Turns

\* What a device signs is in its place and in its player's turn, at the line's end.
LEMMA SignsAtTheEnd ==
    ASSUME Inv, NobodyResigns, NEW M \in Line, DevicesOn(M),
           NEW d \in Device, NEW l \in Seq(OnLine(M)), Linked(l),
           Len(dlog[d]) <= Len(l), Len(dlog[d]) \in Nat,
           NEW kind, NEW new, Signs(d, l, kind, new)
    PROVE  /\ kind \in Kind \ {"resign"}
           /\ kind = "move" => Move(d)
           /\ kind # "move" => Len(M) \in {0, 1}
           /\ new = Append(l, Signed(l, Draft(d, kind, Len(M))))
           /\ TipHash(l) = M /\ Len(l) = Len(M)
           /\ PlayerOf[d] = ExpectedAuthor(Len(M))
<1>1. PICK at \in Nat :
          /\ kind \in Kind
          /\ Writable(TipHash(l), PlayerOf[d], kind, at)
          /\ Sealed(d, l, kind, at)
          /\ new = Append(l, Signed(l, Draft(d, kind, at)))
    BY DEF Signs
<1>2. kind # "resign"
    BY <1>1 DEF Writable
<1>3. Len(TipHash(l)) = Len(l) /\ InPlace(TipHash(l))
    BY LineFacts, TipOnLine, ReplaysOnLine
<1>4. at = Len(l)
    <2>1. CASE kind = "move"
        <3>1. Move(d) /\ l = dlog[d] /\ at = Head(playing[d])
            BY <1>1, <2>1 DEF Sealed
        <3>2. playing[d] # <<>>
            BY <3>1 DEF Move
        <3> QED
            BY <3>1, <3>2, ThinkerHasItAll
    <2>2. CASE kind # "move"
        BY <1>1, <1>2, <2>2 DEF Sealed
    <2> QED
        BY <2>1, <2>2
<1>5. PlayerOf[d] = ExpectedAuthor(Len(l))
    BY <1>1, <1>3, <1>4 DEF Writable
<1>6. TipHash(l) = M /\ Len(l) = Len(M)
    BY <1>5, WriterHasItAll
<1>7. IF kind = "move" THEN Move(d) ELSE Len(l) \in {0, 1}
    BY <1>1, <1>2 DEF Sealed
<1> QED
    BY <1>1, <1>2, <1>4, <1>5, <1>6, <1>7

\* What it writes makes the line one longer.
LEMMA LineGoesOn ==
    ASSUME NobodyResigns,
           NEW M \in Line, NEW body \in Body, body.kind # "resign", body.at = Len(M),
           NEW l, l \in Seq(OnLine(M)), Linked(l), TipHash(l) = M,
           Append(l, Append(M, body)) \in Seq(Good)
    PROVE  /\ Append(M, body) \in Line /\ IsPrefixOf(M, Append(M, body))
           /\ Len(Append(M, body)) = Len(M) + 1
           /\ \A i \in 1 .. Len(M) : Append(M, body)[i] = M[i]
           /\ Append(M, body)[Len(M) + 1] = body
           /\ Append(l, Append(M, body)) \in Seq(OnLine(Append(M, body)))
           /\ Len(Append(l, Append(M, body))) = Len(M) + 1
<1> PICK N : N = Append(M, body)
    OBVIOUS
<1> PICK new : new = Append(l, N)
    OBVIOUS
<1>0. new \in Seq(Good)
    OBVIOUS
<1>1. M \in Seq(Body) /\ Len(M) \in Nat
    BY LineFacts
<1>2. /\ N \in Seq(Body) /\ Len(N) = Len(M) + 1 /\ N[Len(M) + 1] = body
      /\ \A i \in 1 .. Len(M) : N[i] = M[i]
    BY <1>1, AppendProperties
<1>3. Len(l) = Len(M) /\ Len(l) \in Nat
    BY <1>1, TipOnLine
<1>4. new = Append(l, N)
    OBVIOUS
<1>5. Len(new) = Len(l) + 1 /\ new[Len(l) + 1] = N /\ new # <<>>
    <2>1. l \in Seq(OnLine(M) \cup {N})
        BY SeqMonotonic
    <2>2. Len(new) = Len(l) + 1 /\ new[Len(l) + 1] = N
        BY <1>4, <2>1, AppendProperties
    <2> QED
        BY <1>3, <2>2, EmptySeq
<1>6. N \in Good
    <2>1. Len(l) + 1 \in 1 .. Len(new)
        BY <1>3, <1>5
    <2> QED
        BY <1>0, <1>5, <2>1, ElementOfSeq
<1>7. IsPrefixOf(M, N)
    <2>1. SubSeq(N, 1, Len(M)) = M
        <3>1. 1 <= Len(M) + 1 /\ Len(M) <= Len(N)
            BY <1>1, <1>2
        <3>2. /\ SubSeq(N, 1, Len(M)) \in Seq(Body)
              /\ Len(SubSeq(N, 1, Len(M))) = Len(M) - 1 + 1
              /\ \A k \in 1 .. (Len(M) - 1 + 1) : SubSeq(N, 1, Len(M))[k] = N[1 + k - 1]
            BY <1>1, <1>2, <3>1, Stretch
        <3> QED
            BY <1>1, <1>2, <3>2, SeqEqual
    <2> QED
        BY <1>1, <1>2, <2>1 DEF IsPrefixOf
<1>8. ~ResignedBefore(N, Len(N))
    <2> SUFFICES ASSUME NEW i \in 0 .. (Len(N) - 1) PROVE BodyAt(N, i).kind # "resign"
        BY DEF ResignedBefore
    <2>1. CASE i = Len(M)
        BY <1>2, <2>1 DEF BodyAt
    <2>2. CASE i # Len(M)
        <3>1. i + 1 \in 1 .. Len(M)
            BY <1>1, <1>2, <2>2
        <3> QED
            BY <1>2, <3>1, LineFacts DEF BodyAt
    <2> QED
        BY <2>1, <2>2
<1>9. N \in Line
    <2>1. DOMAIN N = 1 .. Len(M) + 1
        BY <1>1, <1>2, LenProperties
    <2>2. \A i \in 1 .. Len(M) : N[i].at = i - 1
        BY <1>2, LineFacts
    <2>3. N[Len(M) + 1].at = (Len(M) + 1) - 1
        BY <1>1, <1>2
    <2>4. InPlace(N)
        BY <1>1, <2>1, <2>2, <2>3 DEF InPlace
    <2>5. Replays(N)
        BY <1>6, <2>4 DEF Good, Sound
    <2> QED
        BY <1>2, <1>8, <2>5 DEF Line
<1>10. N \in OnLine(N)
    BY <1>2, <1>6, PrefixReflexive DEF OnLine
<1>11. new \in Seq(OnLine(N))
    <2>1. l \in Seq(OnLine(N))
        BY <1>1, <1>2, <1>7, OnLineGrows, SeqMonotonic
    <2> QED
        BY <1>4, <1>10, <2>1, AppendProperties
<1> QED
    BY <1>2, <1>3, <1>5, <1>7, <1>9, <1>11

\* What a device is handed is on the line, and the log grown by it stays so.
LEMMA GrownOnLine ==
    ASSUME Inv, NEW M \in Line, DevicesOn(M), MessagesOn(M),
           NEW d \in Device, NEW l, Grown(d, l)
    PROVE  l \in Seq(OnLine(M)) /\ Linked(l) /\ Len(dlog[d]) \in Nat /\ Len(dlog[d]) <= Len(l)
<1>1. PICK t \in Seq(Handed(d)) : l = dlog[d] \o t /\ l \in Seq(Good) /\ Linked(l)
    BY DEF Grown
<1>2. Handed(d) \subseteq OnLine(M)
    <2>1. Answering(OnLine(M)) \subseteq Bearing(OnLine(M))
        BY DEF Answering
    <2>2. down \in [Socket -> Seq(Bearing(OnLine(M)))]
        BY <2>1, SeqMonotonic DEF MessagesOn
    <2> QED
        BY <2>2, HandedWithin
<1>3. t \in Seq(OnLine(M)) /\ dlog[d] \in Seq(OnLine(M))
    BY <1>2, SeqMonotonic DEF DevicesOn
<1>4. l \in Seq(OnLine(M)) /\ Len(l) = Len(dlog[d]) + Len(t)
    BY <1>1, <1>3, ConcatProperties
<1>5. Len(t) \in Nat /\ Len(dlog[d]) \in Nat
    BY <1>3, LenProperties
<1> QED
    BY <1>1, <1>4, <1>5

\* A device that ends its play signs a move at the end of its log.
LEMMA MoveSigns ==
    ASSUME Inv, NobodyResigns, NEW d \in Device, Move(d)
    PROVE  /\ Signs(d, dlog[d], "move", dlog'[d])
           /\ \A c \in Device \ {d} : dlog'[c] = dlog[c] /\ playing'[c] = playing[c]
           /\ playing[d] # <<>> /\ playing'[d] = Tail(playing[d])
<1> DEFINE e == Engine(d)
<1>1. /\ GoodEngine(e) /\ e.log = dlog[d] /\ e.signed = signed[d] /\ Greets(e)
    BY EngineGood, EngineGreets DEF Engine
<1>2. PICK kind \in {"move", "resign"}, at \in Nat :
          /\ Writable(TipHash(dlog[d]), PlayerOf[d], kind, at)
          /\ Become(d, AppendLocal(d, e, kind, at))
          /\ IF kind = "move" THEN Move(d) /\ at = Head(playing[d])
             ELSE d \in plan.resigns /\ at = Len(dlog[d])
    BY PlayDue
<1>3. kind = "move"
    BY <1>2 DEF Writable
<1>4. kind \in Kind /\ Sealed(d, dlog[d], kind, at)
    BY <1>2, <1>3 DEF Kind, Sealed
<1> HIDE DEF e
<1>5. Signs(d, dlog[d], kind, AppendLocal(d, e, kind, at).log)
    BY <1>1, <1>2, <1>4, AppendLocalSends
<1>6. /\ dlog'[d] = AppendLocal(d, e, kind, at).log
      /\ \A c \in Device \ {d} : dlog'[c] = dlog[c]
    BY <1>2 DEF Become, Inv, Copies, GoodDevices
<1>7. /\ playing[d] # <<>> /\ playing'[d] = Tail(playing[d])
      /\ \A c \in Device \ {d} : playing'[c] = playing[c]
    BY DEF Move, Inv, GoodPlays
<1> QED
    BY <1>3, <1>5, <1>6, <1>7

\* The line once a device has signed, and where the devices are on it.
LEMMA SignedOnLine ==
    ASSUME Inv, OneDeviceEach, NobodyResigns, [Next]_syncVars,
           NEW M \in Line, DevicesOn(M), MessagesOn(M),
           NEW d \in Device, NEW l, Grown(d, l), NEW kind, Signs(d, l, kind, dlog'[d]),
           \A c \in Device \ {d} : dlog'[c] = dlog[c],
           playing' = playing \/ Move(d)
    PROVE  /\ \A c \in Device : Len(dlog[c]) <= Len(dlog'[c])
           /\ \E N \in Line : IsPrefixOf(M, N) /\ DevicesOn(N)'
<1>1. M \in Seq(Body) /\ Len(M) \in Nat
    BY LineFacts
<1>2. \A c \in Device : Len(dlog[c]) \in Nat
    BY LenProperties DEF Inv, Copies, GoodDevices
<1>3. /\ l \in Seq(OnLine(M)) /\ Linked(l) /\ Len(dlog[d]) <= Len(l)
    BY GrownOnLine
<1> PICK new : new = dlog'[d]
    OBVIOUS
<1> PICK body : body = Draft(d, kind, Len(M))
    OBVIOUS
<1>4. /\ kind \in Kind \ {"resign"}
      /\ kind = "move" => Move(d)
      /\ kind # "move" => Len(M) \in {0, 1}
      /\ new = Append(l, Signed(l, body))
      /\ TipHash(l) = M /\ Len(l) = Len(M)
      /\ PlayerOf[d] = ExpectedAuthor(Len(M))
    BY <1>2, <1>3, SignsAtTheEnd
<1>5. body \in Body /\ body.kind # "resign" /\ body.by = PlayerOf[d] /\ body.at = Len(M)
    BY <1>1, <1>4 DEF Draft, Inv, Copies, SealsAll, GoodDevices
<1>6. new \in Seq(Good) /\ Linked(new)
    BY InvKept DEF Inv, Copies, GoodDevices
<1> PICK N : N = Append(M, body)
    OBVIOUS
<1>7. /\ N \in Line /\ IsPrefixOf(M, N) /\ Len(N) = Len(M) + 1
      /\ \A i \in 1 .. Len(M) : N[i] = M[i]
      /\ N[Len(N)] = body
      /\ new \in Seq(OnLine(N)) /\ Len(new) = Len(N)
    <2>1. new = Append(l, Append(M, body)) /\ Append(l, Append(M, body)) \in Seq(Good)
        BY <1>4, <1>6 DEF Signed
    <2> QED
        BY <1>3, <1>4, <1>5, <2>1, LineGoesOn
<1>8. \A c \in Device : Len(dlog[c]) <= Len(dlog'[c]) /\ Len(dlog'[c]) \in Nat
    <2>1. dlog'[d] = new /\ Len(dlog[d]) <= Len(M) /\ Len(new) = Len(M) + 1
        BY <1>3, <1>4, <1>7
    <2> TAKE c \in Device
    <2>2. CASE c = d
        BY <1>1, <1>2, <2>1, <2>2
    <2>3. CASE c # d
        <3>1. dlog'[c] = dlog[c] /\ Len(dlog[c]) \in Nat
            BY <1>2, <2>3
        <3> QED
            BY <3>1
    <2> QED
        BY <2>2, <2>3
<1>9. \A c \in Device : dlog'[c] \in Seq(OnLine(N))
    <2>1. OnLine(M) \subseteq OnLine(N)
        BY <1>1, <1>7, OnLineGrows, LineFacts
    <2>2. \A c \in Device : dlog[c] \in Seq(OnLine(N))
        BY <2>1, SeqMonotonic DEF DevicesOn
    <2> QED
        BY <1>7, <2>2
<1>10. ASSUME NEW c \in Device, NEW i \in 1 .. Len(N), N[i].by = PlayerOf[c]
       PROVE  i <= Len(dlog'[c])
    <2>1. CASE i \in 1 .. Len(M)
        <3>1. M[i].by = PlayerOf[c]
            BY <1>7, <1>10, <2>1
        <3>2. i <= Len(dlog[c])
            BY <2>1, <3>1 DEF DevicesOn
        <3> QED
            BY <1>2, <1>8, <3>2
    <2>2. CASE i = Len(N)
        <3>1. PlayerOf[c] = PlayerOf[d]
            BY <1>5, <1>7, <1>10, <2>2
        <3>2. c = d
            BY <3>1 DEF OneDeviceEach
        <3> QED
            BY <1>1, <1>7, <2>2, <3>2
    <2> QED
        BY <1>1, <1>7, <2>1, <2>2
<1>11. ASSUME NEW c \in Device PROVE playing'[c] = <<>>
    <2>1. CASE c = d
        <3>1. CASE Move(d)
            BY <2>1, <3>1, MoveSigns, ThinkerHasItAll
        <3>2. CASE ~Move(d)
            <4>1. playing[d] = <<>>
                BY <1>1, <1>4, <3>2, ThinkerHasItAll
            <4> QED
                BY <2>1, <3>2, <4>1
        <3> QED
            BY <3>1, <3>2
    <2>2. CASE c # d
        <3>1. playing[c] = <<>>
            BY <1>4, <2>2, ThinkerHasItAll DEF OneDeviceEach
        <3> QED
            BY <2>2, <3>1, MoveSigns
    <2> QED
        BY <2>1, <2>2
<1>12. DevicesOn(N)'
    BY <1>9, <1>10, <1>11 DEF DevicesOn, OnLine, Good, NobodyResigns
<1> QED
    BY <1>7, <1>8, <1>12

\* The line once any step is done, and where the devices are on it.
LEMMA DevicesStayOn ==
    ASSUME Inv, OneDeviceEach, NobodyResigns, OnePlayAtATime, [Next]_syncVars,
           NEW M \in Line, DevicesOn(M), MessagesOn(M)
    PROVE  /\ \A d \in Device : Len(dlog[d]) <= Len(dlog'[d])
           /\ \E N \in Line : IsPrefixOf(M, N) /\ DevicesOn(N)'
<1>1. M \in Seq(Body) /\ Len(M) \in Nat /\ IsPrefixOf(M, M)
    BY LineFacts, PrefixReflexive
<1>2. \A d \in Device : Len(dlog[d]) \in Nat
    BY LenProperties DEF Inv, Copies, GoodDevices
<1>3. CASE UNCHANGED <<dlog, playing>>
    <2>1. DevicesOn(M)'
        BY <1>3 DEF DevicesOn, OnLine, Good, NobodyResigns
    <2> QED
        BY <1>1, <1>2, <1>3, <2>1
<1>4. ASSUME NEW d \in Device, Play(d)
      PROVE  /\ \A c \in Device : Len(dlog[c]) <= Len(dlog'[c])
             /\ \E N \in Line : IsPrefixOf(M, N) /\ DevicesOn(N)'
    <2>1. dlog' = dlog /\ playing' = [playing EXCEPT ![d] = Append(playing[d], Len(dlog[d]))]
        BY <1>4 DEF Play
    <2>2. playing[d] = <<>>
        BY <1>4 DEF Play, OnePlayAtATime, Inv, GoodPlays
    <2>3. Len(dlog[d]) = Len(M)
        <3>1. ExpectedAuthor(Len(dlog[d])) = PlayerOf[d]
            BY <1>4, BegunInTurn DEF Turns
        <3>2. dlog[d] \in Seq(OnLine(M)) /\ Linked(dlog[d])
            BY DEF DevicesOn, Inv, Copies, GoodDevices
        <3>3. Len(dlog[d]) <= Len(dlog[d])
            BY <1>2
        <3> QED
            BY <1>2, <3>1, <3>2, <3>3, WriterHasItAll
    <2>4. playing'[d] = <<Len(M)>> /\ \A c \in Device \ {d} : playing'[c] = playing[c]
        BY <2>1, <2>2, <2>3 DEF Inv, GoodPlays
    <2>5. DevicesOn(M)'
        BY <2>1, <2>3, <2>4 DEF DevicesOn, OnLine, Good, NobodyResigns
    <2> QED
        BY <1>1, <1>2, <2>1, <2>5
<1>5. ASSUME NEW d \in Device, Move(d)
      PROVE  /\ \A c \in Device : Len(dlog[c]) <= Len(dlog'[c])
             /\ \E N \in Line : IsPrefixOf(M, N) /\ DevicesOn(N)'
    <2>1. Grown(d, dlog[d])
        BY GrownByNothing
    <2>2. /\ Signs(d, dlog[d], "move", dlog'[d])
          /\ \A c \in Device \ {d} : dlog'[c] = dlog[c]
        BY <1>5, MoveSigns
    <2> QED
        BY <1>5, <2>1, <2>2, SignedOnLine
<1>6. ASSUME playing' = playing, NEW d \in Device, DeviceStep(d)
      PROVE  /\ \A c \in Device : Len(dlog[c]) <= Len(dlog'[c])
             /\ \E N \in Line : IsPrefixOf(M, N) /\ DevicesOn(N)'
    <2>1. ~Retracts(d, dlog'[d])
        BY NobodyRetracts DEF Retracts, MessagesOn
    <2>2. PICK l : Grown(d, l) /\ (dlog'[d] = l \/ \E kind : Signs(d, l, kind, dlog'[d]))
        BY <1>6, <2>1 DEF DeviceStep, Lengthens
    <2>3. \A c \in Device \ {d} : dlog'[c] = dlog[c]
        BY <1>6 DEF DeviceStep
    <2>4. CASE dlog'[d] = l
        <3>1. /\ l \in Seq(OnLine(M)) /\ Linked(l) /\ Len(l) \in Nat /\ Len(dlog[d]) <= Len(l)
              /\ Len(l) <= Len(M)
            BY <1>1, <2>2, GrownOnLine, LenProperties, TipOnLine
        <3>2. \A c \in Device : /\ dlog'[c] \in Seq(OnLine(M))
                                /\ Len(dlog[c]) <= Len(dlog'[c]) /\ Len(dlog'[c]) \in Nat
            BY <1>2, <2>3, <2>4, <3>1 DEF DevicesOn
        <3>3. \A c \in Device, i \in 1 .. Len(M) :
                  M[i].by = PlayerOf[c] => i <= Len(dlog'[c])
            BY <1>1, <1>2, <3>2 DEF DevicesOn
        <3>4. \A c \in Device :
                  playing[c] = <<>> \/ (playing[c] = <<Len(M)>> /\ Len(dlog'[c]) = Len(M))
            BY <1>1, <1>2, <2>3, <2>4, <3>1 DEF DevicesOn
        <3>5. DevicesOn(M)'
            BY <1>6, <3>2, <3>3, <3>4 DEF DevicesOn, OnLine, Good, NobodyResigns
        <3> QED
            BY <1>1, <3>2, <3>5
    <2>5. ASSUME NEW kind, Signs(d, l, kind, dlog'[d])
          PROVE  /\ \A c \in Device : Len(dlog[c]) <= Len(dlog'[c])
                 /\ \E N \in Line : IsPrefixOf(M, N) /\ DevicesOn(N)'
        BY <1>6, <2>2, <2>3, <2>5, SignedOnLine
    <2> QED
        BY <2>2, <2>4, <2>5
<1>7. CASE playing' = playing
    BY <1>3, <1>6, <1>7, WhoseStep
<1> QED
    BY <1>4, <1>5, <1>7, PlayingStep
-----------------------------------------------------------------------------
(* The room, and the messages.                                               *)

LEMMA OfferedWithin ==
    ASSUME NEW H, up \in [Socket -> Seq(Asking(H))], NEW s \in Socket, NEW b, Offered(s, b)
    PROVE  b \in Seq(H)
<1>1. up[s] \in Seq(Asking(H)) /\ up[s] # <<>>
    BY DEF Offered
<1>2. Head(up[s]) \in Asking(H)
    BY <1>1, HeadTailProperties
<1> QED
    BY <1>2 DEF Offered, Asking

\* What the room has stays on the line.
LEMMA RoomStaysOn ==
    ASSUME Inv, [Next]_syncVars, NEW M \in Line, RoomOn(M), MessagesOn(M)
    PROVE  RoomOn(M)'
<1>1. M \in Seq(Body) /\ log \in Seq(OnLine(M)) /\ Linked(log) /\ Len(log) \in Nat
    BY LineFacts, LenProperties DEF RoomOn, Inv, Copies, GoodRoom
<1>2. CASE UNCHANGED <<log, tombstone, evictions>> /\ pushing' \subseteq pushing
    BY <1>2 DEF RoomOn, OnLine, Good, NobodyResigns
<1>3. ASSUME NEW s \in Socket, NEW b \in Run, Offered(s, b), AppendCommit(s, b)
      PROVE  RoomOn(M)'
    <2>1. b \in Seq(OnLine(M)) /\ b \in Seq(Entry)
        BY <1>3, OfferedWithin, GoodAreEntries DEF MessagesOn, Run
    <2>2. Staged(b) \in Seq(OnLine(M))
        BY <1>1, <2>1, BeyondWithin DEF Staged
    <2>3. log' \in Seq(OnLine(M))
        BY <1>1, <1>3, <2>2, ConcatProperties DEF AppendCommit
    <2>4. \A p \in pushing' : p.entries \in Seq(OnLine(M))
        BY <1>3, <2>1 DEF AppendCommit, RoomOn
    <2>5. tombstone' = tombstone
        BY <1>3 DEF AppendCommit
    <2> QED
        BY <2>3, <2>4, <2>5 DEF RoomOn, OnLine, Good, NobodyResigns
<1>4. CASE RoomEvict
    <2>1. /\ tombstone' = IF log = <<>> THEN tombstone ELSE TipHash(log)
          /\ log' = <<>> /\ pushing' = pushing
        BY <1>4 DEF RoomEvict, Evict
    <2>2. tombstone' \in OnLine(M) \cup {GenesisPrevHash}
        BY <1>1, <2>1, TipOnLine DEF RoomOn
    <2>3. log' \in Seq(OnLine(M))
        BY <2>1, EmptySeq
    <2> QED
        BY <2>1, <2>2, <2>3 DEF RoomOn, OnLine, Good, NobodyResigns
<1> QED
    BY <1>2, <1>3, <1>4, RoomStep

\* The room answers with what is on the line, and refuses none of it.
LEMMA RoomSaysOn ==
    ASSUME Inv, NEW M \in Line, RoomOn(M), MessagesOn(M)
    PROVE  RoomSays(Answering(OnLine(M)))
<1> DEFINE A == Answering(OnLine(M))
<1>0. /\ M \in Seq(Body) /\ log \in Seq(OnLine(M)) /\ log \in Seq(Good)
      /\ OnLine(M) \subseteq Good
    BY LineFacts DEF RoomOn, Inv, Copies, GoodRoom, OnLine
<1>1. ASSUME NEW b \in Seq(OnLine(M)) PROVE [t |-> "entries", entries |-> b] \in A
    <2>1. b \in Seq(Good)
        BY <1>0, SeqMonotonic
    <2> QED
        BY <2>1, GoodMessages DEF Answering, Bearing
<1>2. StateMessage \in A /\ Appended(TipSeq(log)) \in A
    BY GoodMessages DEF Answering, Bearing, StateMessage, Appended
<1>3. ASSUME NEW c \in ErrorCode, c # "chain_mismatch" PROVE [t |-> "err", code |-> c] \in A
    BY <1>3, GoodMessages DEF Answering, Bearing
<1>4. [t |-> "err", code |-> "bad_message"] \in A
    BY <1>3 DEF ErrorCode
<1>5. \A n \in Nat \ {0} : [t |-> "entries", entries |-> SubSeq(log, n, Len(log))] \in A
    BY <1>0, <1>1, TailWithin
<1>6. \A p \in pushing : [t |-> "entries", entries |-> p.entries] \in A
    BY <1>1 DEF RoomOn
<1>7. ASSUME NEW s \in Socket, NEW b \in Run, Offered(s, b)
      PROVE  /\ ~Accepts(b) => [t |-> "err", code |-> Refusal(b)] \in A
             /\ [t |-> "entries", entries |-> b] \in A
    <2>1. b \in Seq(OnLine(M))
        BY <1>7, OfferedWithin DEF MessagesOn
    <2>2. ~Accepts(b) => Refusal(b) # "chain_mismatch"
        BY <1>0, <2>1, RefusalOnLine
    <2>3. Refusal(b) \in ErrorCode
        BY RefusalType
    <2> QED
        BY <1>1, <1>3, <2>1, <2>2, <2>3
<1> HIDE DEF A
<1>8. RoomSays(A)
    BY <1>2, <1>4, <1>5, <1>6, <1>7 DEF RoomSays
<1> QED
    BY <1>8 DEF A

\* What is on its way stays on the line.
LEMMA MessagesStayOn ==
    ASSUME Inv, [Next]_syncVars, NEW M \in Line, NEW N \in Line, IsPrefixOf(M, N),
           RoomOn(M), MessagesOn(M), DevicesOn(N)'
    PROVE  MessagesOn(N)'
<1> DEFINE U == Asking(OnLine(N))
           D == Answering(OnLine(N))
<1>1. M \in Seq(Body) /\ N \in Seq(Body)
    BY LineFacts
<1>2. /\ Asking(OnLine(M)) \subseteq U
      /\ Answering(OnLine(M)) \subseteq D
    BY <1>1, OnLineGrows
<1>3. up \in [Socket -> Seq(U)] /\ down \in [Socket -> Seq(D)]
    BY <1>2, SeqMonotonic DEF MessagesOn
<1>4. Polite(U)
    BY DEF Polite, Asking, GoodClientMessage
<1>5. ASSUME NEW d \in Device PROVE Uploads(dlog'[d], 1, U) /\ Uploads(dlog'[d], 2, U)
    <2>1. dlog'[d] \in Seq(Good) /\ Linked(dlog'[d]) /\ dlog'[d] \in Seq(OnLine(N))
        BY <1>5, InvKept DEF Inv, Copies, GoodDevices, DevicesOn, OnLine, Good, NobodyResigns
    <2> SUFFICES ASSUME NEW m \in Nat \ {0}, NEW n \in Nat, n <= Len(dlog'[d])
                 PROVE  [t |-> "append", entries |-> SubSeq(dlog'[d], m, n)] \in U
        BY DEF Uploads
    <2> DEFINE b == SubSeq(dlog'[d], m, n)
    <2>2. b \in Run
        BY <2>1, StretchIsRun
    <2>3. b \in Seq(OnLine(N))
        <3>1. CASE m <= n + 1
            BY <2>1, <3>1, Stretch
        <3>2. CASE ~(m <= n + 1)
            <4>1. b = <<>>
                BY <3>2, SubSeqEmpty
            <4> QED
                BY <4>1, EmptySeq
        <3> QED
            BY <3>1, <3>2
    <2> HIDE DEF b
    <2>4. [t |-> "append", entries |-> b] \in U
        BY <2>2, <2>3 DEF Asking, GoodClientMessage
    <2> QED
        BY <2>4 DEF b
<1>6. RoomSays(D)
    <2>1. RoomSays(Answering(OnLine(M)))
        BY RoomSaysOn
    <2> HIDE DEF D
    <2> QED
        BY <1>2, <2>1 DEF RoomSays
<1> HIDE DEF U, D
<1>7. up' \in [Socket -> Seq(U)]
    BY <1>3, <1>4, <1>5, UpStep
<1>8. down' \in [Socket -> Seq(D)]
    BY <1>3, <1>6, DownStep
<1> QED
    BY <1>7, <1>8 DEF U, D, MessagesOn, Asking, Answering, Bearing, OnLine, Good, NobodyResigns,
                      GoodClientMessage, GoodMessage, Run
-----------------------------------------------------------------------------
(* The invariant, and what it says.                                          *)

LEMMA OneLineKept ==
    ASSUME Inv, OneDeviceEach, OneLine, [Next]_syncVars PROVE OneLine'
<1>1. PICK M \in Line : DevicesOn(M) /\ RoomOn(M) /\ MessagesOn(M)
    BY DEF OneLine
<1>2. NobodyResigns /\ OnePlayAtATime /\ NobodyResigns' /\ OnePlayAtATime'
    BY DEF OneLine, NobodyResigns, OnePlayAtATime
<1>3. PICK N \in Line : IsPrefixOf(M, N) /\ DevicesOn(N)'
    BY <1>1, <1>2, DevicesStayOn
<1>4. MessagesOn(N)'
    BY <1>1, <1>3, MessagesStayOn
<1>5. RoomOn(N)'
    <2>1. RoomOn(M)'
        BY <1>1, RoomStaysOn
    <2>2. OnLine(M) \subseteq OnLine(N)
        BY <1>3, LineFacts, OnLineGrows
    <2>3. log' \in Seq(OnLine(M)) /\ tombstone' \in OnLine(M) \cup {GenesisPrevHash}
          /\ \A p \in pushing' : p.entries \in Seq(OnLine(M))
        BY <2>1 DEF RoomOn, OnLine, Good, NobodyResigns
    <2>4. log' \in Seq(OnLine(N)) /\ tombstone' \in OnLine(N) \cup {GenesisPrevHash}
          /\ \A p \in pushing' : p.entries \in Seq(OnLine(N))
        BY <2>2, <2>3, SeqMonotonic
    <2> QED
        BY <2>4 DEF RoomOn, OnLine, Good, NobodyResigns
<1>6. Line' = Line
    BY DEF Line
<1> QED
    BY <1>2, <1>3, <1>4, <1>5, <1>6 DEF OneLine

LEMMA OneLineAtStart ==
    ASSUME SealsAll, NobodyResigns, OnePlayAtATime, Init PROVE OneLine
<1> DEFINE M == plan.start
           l == LogOf(M)
<1>1. M \in Seq(Body) /\ Replays(M) /\ ~ResignedBefore(M, Len(M))
    BY PlanAssumption DEF Init, NobodyResigns
<1>2. dlog = [d \in Device |-> l] /\ log = l /\ \A d \in Device : playing[d] = <<>>
    BY DEF Init
<1> HIDE DEF M
<1>3. M \in Line /\ Len(M) \in Nat
    BY <1>1, LenProperties DEF Line
<1>4. /\ l = [i \in 1 .. Len(M) |-> SubSeq(M, 1, i)]
    BY DEF LogOf
<1>5. l \in Seq(Good)
    BY <1>1, StartGood
<1> HIDE DEF l
<1>6. Len(l) = Len(M)
    BY <1>3, <1>4, <1>5, LenProperties
<1>7. ASSUME NEW i \in DOMAIN l PROVE l[i] \in OnLine(M)
    <2>1. i \in 1 .. Len(M) /\ l[i] = SubSeq(M, 1, i)
        BY <1>4
    <2>2. l[i] \in Good
        BY <1>3, <1>5, <1>6, <2>1, ElementOfSeq
    <2>3. 1 <= i + 1 /\ i \in Nat /\ i <= Len(M)
        BY <1>3, <2>1
    <2>4. Len(l[i]) = i
        <3>1. Len(SubSeq(M, 1, i)) = i - 1 + 1
            BY <1>1, <2>3, Stretch
        <3> QED
            BY <2>1, <2>3, <3>1
    <2> QED
        BY <2>1, <2>2, <2>3, <2>4 DEF OnLine, IsPrefixOf
<1>8. l \in Seq(OnLine(M))
    BY <1>5, <1>7, AllWithin
<1>9. DevicesOn(M)
    BY <1>2, <1>3, <1>6, <1>8 DEF DevicesOn
<1>10. RoomOn(M)
    BY <1>2, <1>8 DEF RoomOn, Init, RoomInit
<1>11. MessagesOn(M)
    BY EmptySeq DEF MessagesOn, Init, RoomInit
<1> QED
    BY <1>1, <1>3, <1>9, <1>10, <1>11 DEF OneLine

LEMMA OneLineAlways ==
    SealsAll /\ OneDeviceEach /\ NobodyResigns /\ OnePlayAtATime /\ Spec => [](Inv /\ OneLine)
<1>1. SealsAll /\ NobodyResigns /\ OnePlayAtATime /\ Init => OneLine
    BY OneLineAtStart
<1>2. Inv /\ OneDeviceEach /\ OneLine /\ [Next]_syncVars => OneLine'
    BY OneLineKept
<1>3. OneDeviceEach => OneDeviceEach'
    BY DEF OneDeviceEach
<1> QED
    BY <1>1, <1>2, <1>3, InvAlways, PTL DEF Spec

\* Where players have one device each, make one move at a time and do not resign,
\* no device ever holds a log its session refuses to replay: a move is only sealed
\* for the place it then takes, whatever comes between the play and its signature.
THEOREM LogsReplayAlways ==
    SealsAll /\ OneDeviceEach /\ NobodyResigns /\ OnePlayAtATime /\ Spec => []LogsReplay
<1>1. ASSUME Inv, OneLine PROVE LogsReplay
    <2>1. PICK M \in Line : DevicesOn(M)
        BY <1>1 DEF OneLine
    <2>2. \A d \in Device : dlog[d] \in Seq(OnLine(M)) /\ Linked(dlog[d])
        BY <1>1, <2>1 DEF DevicesOn, Inv, Copies, GoodDevices
    <2>3. NobodyResigns
        BY <1>1 DEF OneLine
    <2> QED
        BY <2>2, <2>3, ReplaysOnLine DEF LogsReplay
<1> QED
    BY <1>1, OneLineAlways, PTL

\* A game of two players with one device each, who make one move at a time and of
\* whom none resigns, never forks: whatever is lost, delayed or refused, and however often the room is
\* evicted, of any two copies one goes on where the other stops, so that every
\* device only ever has to catch up.
THEOREM NoForkAlways ==
    SealsAll /\ OneDeviceEach /\ NobodyResigns /\ OnePlayAtATime /\ Spec => []NoFork
<1>1. ASSUME Inv, OneLine PROVE NoFork
    <2>1. PICK M \in Line : DevicesOn(M) /\ RoomOn(M)
        BY <1>1 DEF OneLine
    <2>2. M \in Seq(Body)
        BY <2>1, LineFacts
    <2>3. \A l \in Seq(OnLine(M)) :
            Linked(l) => TipHash(l) \in Seq(Body) /\ IsPrefixOf(TipHash(l), M)
        BY <2>2, TipOnLine
    <2>4. tombstone \in Seq(Body) /\ IsPrefixOf(tombstone, M)
        BY <2>1, <2>2, OnLineFacts, PrefixReflexive, EmptySeq DEF RoomOn, GenesisPrevHash
    <2>5. \A h \in {TipHash(dlog[d]) : d \in Device} \cup {TipHash(log), tombstone} :
            h \in Seq(Body) /\ IsPrefixOf(h, M) /\ Len(h) \in Nat
        <3>1. \A d \in Device : dlog[d] \in Seq(OnLine(M)) /\ Linked(dlog[d])
            BY <1>1, <2>1 DEF DevicesOn, Inv, Copies, GoodDevices
        <3>2. log \in Seq(OnLine(M)) /\ Linked(log)
            BY <1>1, <2>1 DEF RoomOn, Inv, Copies, GoodRoom
        <3> QED
            BY <2>3, <2>4, <3>1, <3>2, LenProperties
    <2>6. ASSUME NEW h \in Seq(Body), NEW g \in Seq(Body), IsPrefixOf(h, M), IsPrefixOf(g, M),
                 Len(h) \in Nat, Len(g) \in Nat
          PROVE  Comparable(h, g)
        <3>1. Len(h) <= Len(g) \/ Len(g) <= Len(h)
            BY <2>6
        <3> QED
            BY <2>2, <2>6, <3>1, PrefixesOfOne DEF Comparable
    <2> QED
        BY <2>5, <2>6 DEF NoFork
<1> QED
    BY <1>1, OneLineAlways, PTL

\* In such a game no move is ever taken back: what a device shows stays, whatever
\* becomes of the messages, and later steps only add to it.
OnlyAddedTo ==
    [][\A d \in Device : IsPrefixOf(TipHash(dlog[d]), TipHash(dlog'[d]))]_dlog

\* So no device takes back an entry that the relay holds: there, an append is
\* never refused for a race, and the roll-back never happens.
THEOREM HeldIsKeptAlways ==
    SealsAll /\ OneDeviceEach /\ NobodyResigns /\ OnePlayAtATime /\ Spec => OnlyAddedTo /\ HeldIsKept
<1>1. ASSUME Inv, OneDeviceEach, OneLine, [Next]_syncVars, NEW d \in Device
      PROVE  /\ Len(dlog[d]) <= Len(dlog'[d])
             /\ IsPrefixOf(TipHash(dlog[d]), TipHash(dlog'[d]))
    <2>1. PICK M \in Line : DevicesOn(M) /\ MessagesOn(M)
        BY <1>1 DEF OneLine
    <2>2. /\ Len(dlog[d]) <= Len(dlog'[d])
          /\ \E N \in Line : IsPrefixOf(M, N) /\ DevicesOn(N)'
        BY <1>1, <2>1, DevicesStayOn DEF OneLine
    <2>3. PICK N \in Line : IsPrefixOf(M, N) /\ DevicesOn(N)'
        BY <2>2
    <2>4. /\ M \in Seq(Body) /\ N \in Seq(Body)
          /\ dlog[d] \in Seq(OnLine(M)) /\ dlog'[d] \in Seq(OnLine(N))
          /\ Linked(dlog[d]) /\ Linked(dlog'[d])
        BY <1>1, <2>1, <2>3, LineFacts, InvKept DEF DevicesOn, OnLine, Good, NobodyResigns,
               Inv, Copies, GoodDevices
    <2>5. /\ TipHash(dlog[d]) \in Seq(Body) /\ IsPrefixOf(TipHash(dlog[d]), M)
          /\ Len(TipHash(dlog[d])) = Len(dlog[d])
          /\ TipHash(dlog'[d]) \in Seq(Body) /\ IsPrefixOf(TipHash(dlog'[d]), N)
          /\ Len(TipHash(dlog'[d])) = Len(dlog'[d])
        BY <2>4, TipOnLine
    <2>6. IsPrefixOf(TipHash(dlog[d]), N)
        BY <2>3, <2>4, <2>5, PrefixTransitive
    <2> QED
        BY <2>2, <2>4, <2>5, <2>6, PrefixesOfOne
<1>2. ASSUME Inv, OneDeviceEach, OneLine, [Next]_syncVars
      PROVE  /\ \A d \in Device : IsPrefixOf(TipHash(dlog[d]), TipHash(dlog'[d]))
             /\ \A d \in Device :
                    Len(dlog'[d]) < Len(dlog[d]) /\ ~Unheard(d) =>
                        ~Held(TipHash(SubSeq(dlog[d], 1, Len(dlog'[d]) + 1)))
    <2>1. \A d \in Device : Len(dlog[d]) \in Nat /\ Len(dlog'[d]) \in Nat
        BY <1>2, InvKept, LenProperties DEF Inv, Copies, GoodDevices
    <2>2. \A d \in Device : ~(Len(dlog'[d]) < Len(dlog[d]))
        BY <1>1, <1>2, <2>1
    <2> QED
        BY <1>1, <1>2, <2>2
<1>3. OneDeviceEach => OneDeviceEach'
    BY DEF OneDeviceEach
<1> QED
    BY <1>2, <1>3, OneLineAlways, PTL DEF Spec, OnlyAddedTo, HeldIsKept
-----------------------------------------------------------------------------
(* One record of play.                                                       *)

\* History reads a log as Session does.
LEMMA SameReading ==
    /\ \A h : Game!Replays(h) = Replays(h)
    /\ \A h, g : Game!IsPrefixOf(h, g) = IsPrefixOf(h, g)
    BY DEF Game!Replays, Replays, Game!Replayable, Replayable, Game!ResignedBefore,
           ResignedBefore, Game!BodyAt, BodyAt, Game!ExpectedAuthor, ExpectedAuthor,
           Game!IsPrefixOf, IsPrefixOf

\* A step adds to the game's history or leaves it, unless it evicts a room that
\* has not caught up with its own tombstone.
LEMMA HistoryStep ==
    ASSUME Inv, OneLine, [Next]_syncVars, RoomEvict => RestoreExtendsTombstone
    PROVE  [Game!Play]_GameHistory
<1>1. PICK M \in Line : RoomOn(M) /\ RoomOn(M)'
    BY RoomStaysOn DEF OneLine
<1>0. NobodyResigns
    BY DEF OneLine
<1> DEFINE h == TipHash(log)
           T == tombstone
<1>2. /\ M \in Seq(Body) /\ M \in Seq(Body)
      /\ log \in Seq(Good) /\ Linked(log) /\ log' \in Seq(Good) /\ Linked(log')
    BY InvKept, LineFacts DEF Inv, Copies, GoodRoom
<1>3. /\ h \in Seq(Body) /\ IsPrefixOf(h, M) /\ Len(h) \in Nat /\ Len(h) = Len(log)
      /\ h' \in Seq(Body) /\ IsPrefixOf(h', M) /\ Len(h') \in Nat /\ Len(h') = Len(log')
      /\ Replays(h')
    <2>1. log \in Seq(OnLine(M)) /\ log' \in Seq(OnLine(M))
        BY <1>1 DEF RoomOn, OnLine, Good, NobodyResigns
    <2>2. Replays(h')
        BY <1>0, <1>2, <2>1, ReplaysOnLine
    <2> QED
        BY <1>2, <2>1, <2>2, TipOnLine
<1>4. T \in Seq(Body) /\ IsPrefixOf(T, M) /\ Len(T) \in Nat
    <2>1. CASE T = <<>>
        BY <1>2, <2>1, EmptySeq, PrefixReflexive
    <2>2. CASE T # <<>>
        BY <1>1, <1>2, <2>2, OnLineFacts DEF RoomOn, GenesisPrevHash
    <2> QED
        BY <2>1, <2>2
<1>5. CASE UNCHANGED <<log, tombstone, evictions>>
    BY <1>5 DEF GameHistory
<1>6. ASSUME NEW s \in Socket, NEW b \in Run, AppendCommit(s, b)
      PROVE  [Game!Play]_GameHistory
    <2>1. log' = log \o Staged(b) /\ Staged(b) # <<>> /\ T' = T
        BY <1>6 DEF AppendCommit
    <2>2. IsPrefixOf(h, h')
        <3>1. log \in Seq(Entry) /\ Staged(b) \in Seq(Entry)
            BY <1>2, GoodAreEntries, StagedType, LenProperties DEF Run, Staged
        <3> QED
            BY <1>2, <2>1, <3>1, TipExtends
    <2>3. Len(h) <= Len(h')
        BY <2>2 DEF IsPrefixOf
    <2>4. CASE Len(h) >= Len(T)
        <3>1. GameHistory = h /\ GameHistory' = h'
            BY <1>3, <1>4, <2>1, <2>3, <2>4 DEF GameHistory
        <3> QED
            BY <1>3, <2>2, <3>1, SameReading DEF Game!Play
    <2>5. CASE ~(Len(h) >= Len(T)) /\ Len(h') >= Len(T)
        <3>1. GameHistory = T /\ GameHistory' = h'
            BY <2>1, <2>5 DEF GameHistory
        <3>2. IsPrefixOf(T, h')
            BY <1>2, <1>3, <1>4, <2>5, PrefixesOfOne
        <3> QED
            BY <1>3, <3>1, <3>2, SameReading DEF Game!Play
    <2>6. CASE ~(Len(h) >= Len(T)) /\ ~(Len(h') >= Len(T))
        BY <2>1, <2>6 DEF GameHistory
    <2> QED
        BY <2>4, <2>5, <2>6
<1>7. CASE RoomEvict
    <2>1. T' = (IF log = <<>> THEN T ELSE h) /\ log' = <<>>
        BY <1>7 DEF RoomEvict, Evict
    <2>2. h' = <<>> /\ Len(h') = 0
        BY <2>1, EmptySeq DEF TipHash, GenesisPrevHash
    <2>3. CASE log = <<>>
        BY <2>1, <2>3 DEF GameHistory
    <2>4. CASE log # <<>>
        <3>1. Len(T) <= Len(h) /\ T' = h
            BY <1>7, <2>1, <2>4 DEF RestoreExtendsTombstone, IsPrefixOf
        <3>2. Len(h) # 0
            BY <1>2, <1>3, <2>4, EmptySeq
        <3>3. GameHistory = h /\ GameHistory' = h
            BY <1>3, <1>4, <2>2, <3>1, <3>2 DEF GameHistory
        <3> QED
            BY <3>3
    <2> QED
        BY <2>3, <2>4
<1> QED
    BY <1>5, <1>6, <1>7, RoomStep

LEMMA HistoryStarts ==
    ASSUME SealsAll, NobodyResigns, OnePlayAtATime, Init PROVE Game!HistoryInit
<1>1. Inv /\ tombstone = <<>>
    BY InvAtStart DEF Init, RoomInit, GenesisPrevHash
<1>2. Len(TipHash(log)) \in Nat /\ Replays(TipHash(log)) /\ Len(<<>>) = 0
    <2>1. PICK M \in Line : log \in Seq(OnLine(M))
        BY OneLineAtStart DEF OneLine, RoomOn
    <2> QED
        BY <1>1, <2>1, TipOf, ReplaysOnLine, EmptySeq DEF Inv, Copies, GoodRoom
<1>3. GameHistory = TipHash(log)
    BY <1>1, <1>2 DEF GameHistory
<1> QED
    BY <1>2, <1>3, SameReading DEF Game!HistoryInit

\* The devices and the room together implement History, as long as the room is
\* evicted once at most: one record of play, which both players can replay, to
\* which entries are added and from which none is ever taken away, though every
\* copy of it may be behind, one is deleted, and the devices restore it.
THEOREM OneHistoryOnce ==
    /\ SealsAll /\ OneDeviceEach /\ NobodyResigns /\ OnePlayAtATime
    /\ MaxEvictions \in {0, 1}
    /\ Spec
    => OneHistory
<1> DEFINE Once == evictions \in Nat /\ (evictions = 0 => tombstone = GenesisPrevHash)
<1>1. SealsAll /\ NobodyResigns /\ OnePlayAtATime /\ Init => Game!HistoryInit /\ Once
    <2>1. ASSUME Init PROVE Once
        BY <2>1 DEF Init, RoomInit
    <2> HIDE DEF Once
    <2> QED
        BY <2>1, HistoryStarts
<1>2. Inv /\ Once /\ [Next]_syncVars => Once'
    BY RoomStep DEF RoomEvict, AppendCommit
<1>3. ASSUME MaxEvictions \in {0, 1}, Inv, OneLine, Once, [Next]_syncVars
      PROVE  [Game!Play]_GameHistory
    <2>1. ASSUME RoomEvict PROVE RestoreExtendsTombstone
        <3>1. tombstone = <<>>
            BY <1>3, <2>1 DEF RoomEvict, GenesisPrevHash
        <3>2. TipHash(log) \in Seq(Body)
            BY <1>3, TipOf DEF Inv, Copies, GoodRoom
        <3> QED
            BY <3>1, <3>2, PrefixReflexive DEF RestoreExtendsTombstone
    <2> QED
        BY <1>3, <2>1, HistoryStep
<1>4. MaxEvictions \in {0, 1} => (MaxEvictions \in {0, 1})'
    OBVIOUS
<1> HIDE DEF Once
<1> QED
    BY <1>1, <1>2, <1>3, <1>4, OneLineAlways, PTL DEF Spec, OneHistory, Game!HistorySpec
-----------------------------------------------------------------------------
(* An evicted room is restored from all of what it had.                      *)

\* One append carries a whole log.
ShortLogs == \A d \in Device : Len(dlog[d]) <= MAX_APPEND_ENTRIES

\* The messages that tell devices of this tombstone, and the appends that restore
\* no less than n entries, if they start an empty room again.
Telling(T) == {m \in GoodMessage : m.t = "state" => m.tombstone = T}

Restoring(n) ==
    {m \in GoodClientMessage :
        m.t = "append" /\ m.entries # <<>> /\ SeqOf(m.entries[1]) = 0 =>
            n <= Len(m.entries)}

\* The room has caught up with its tombstone, or is empty, and stays so.
CaughtUp ==
    /\ log # <<>> => Len(tombstone) <= Len(log)
    /\ up \in [Socket -> Seq(Restoring(Len(tombstone)))]
    /\ down \in [Socket -> Seq(Telling(tombstone))]

\* Whoever has cause to send its log from the start has all that was evicted.
LEMMA WhoBeginsHasItAll ==
    ASSUME Inv, OneDeviceEach, OneLine, CaughtUp, [Next]_syncVars,
           NEW d \in Device, Begins(d), dlog'[d] # <<>>
    PROVE  Len(tombstone) <= Len(dlog'[d])
<1>1. PICK M \in Line : DevicesOn(M) /\ RoomOn(M) /\ MessagesOn(M)
    BY DEF OneLine
<1>2. M \in Seq(Body) /\ Len(M) \in Nat
    BY LineFacts
<1>3. Len(tombstone) \in Nat /\ Len(tombstone) <= Len(M)
    <2>1. CASE tombstone = <<>>
        BY <1>2, <2>1, EmptySeq
    <2>2. CASE tombstone # <<>>
        BY <1>1, <1>2, <2>2, OnLineFacts DEF RoomOn, GenesisPrevHash, IsPrefixOf
    <2> QED
        BY <2>1, <2>2
<1>4. ASSUME NEW l, NEW kind, Grown(d, l), Signs(d, l, kind, dlog'[d])
      PROVE  Len(tombstone) <= Len(dlog'[d])
    <2>1. l \in Seq(OnLine(M)) /\ Linked(l) /\ Len(dlog[d]) \in Nat /\ Len(dlog[d]) <= Len(l)
        BY <1>1, <1>4, GrownOnLine
    <2>4. /\ Len(l) = Len(M)
          /\ dlog'[d] = Append(l, Signed(l, Draft(d, kind, Len(M))))
        BY <1>1, <1>4, <2>1, SignsAtTheEnd DEF OneLine
    <2>5. Len(dlog'[d]) = Len(l) + 1
        <3> PICK g : g = Signed(l, Draft(d, kind, Len(M)))
            OBVIOUS
        <3>1. dlog'[d] = Append(l, g)
            BY <2>4
        <3>2. l \in Seq(OnLine(M) \cup {g})
            BY <2>1, SeqMonotonic
        <3> QED
            BY <3>1, <3>2, AppendProperties
    <2> QED
        BY <1>2, <1>3, <2>4, <2>5
<1>5. CASE OnStateAhead(d) /\ Incoming(d).tipSeq < 0 /\ dlog'[d] = dlog[d]
    <2>1. /\ sock[d] \in Socket /\ down[sock[d]] # <<>> /\ Incoming(d).t = "state"
          /\ ~RefusesTombstone(d, Incoming(d))
        BY <1>5 DEF OnStateAhead, Waiting, Incoming, Inv, Copies, GoodSockets
    <2>2. Incoming(d) \in Telling(tombstone)
        BY <2>1, HeadTailProperties DEF Incoming, CaughtUp
    <2>3. Incoming(d).tombstone = tombstone
        BY <2>1, <2>2 DEF Telling
    <2>4. tombstone = <<>> \/ CheckExtends(dlog[d], tombstone)
        BY <1>5, <2>1, <2>3 DEF RefusesTombstone, GenesisPrevHash
    <2>5. /\ dlog[d] \in Seq(OnLine(M)) /\ Linked(dlog[d]) /\ Len(dlog[d]) \in Nat
          /\ DOMAIN dlog[d] = 1 .. Len(dlog[d])
        BY <1>1, LenProperties DEF DevicesOn, Inv, Copies, GoodDevices
    <2>6. CASE tombstone = <<>>
        BY <1>5, <2>5, <2>6, EmptySeq
    <2>7. ASSUME NEW i \in DOMAIN dlog[d], HashOf(dlog[d][i]) = tombstone
          PROVE  Len(tombstone) <= Len(dlog[d])
        <3>1. Len(dlog[d][i]) = i
            BY <1>2, <2>5, <2>7, TipOnLine
        <3> QED
            BY <2>5, <2>7, <3>1 DEF HashOf
    <2> QED
        BY <1>5, <2>4, <2>6, <2>7 DEF CheckExtends
<1> QED
    BY <1>4, <1>5 DEF Begins

\* The messages stay such, unless the room is evicted meanwhile.
LEMMA UploadsRestore ==
    ASSUME Inv, OneDeviceEach, OneLine, CaughtUp, ShortLogs', [Next]_syncVars,
           tombstone' = tombstone
    PROVE  up' \in [Socket -> Seq(Restoring(Len(tombstone)))]
<1> PICK n : n = Len(tombstone)
    OBVIOUS
<1>1. up \in [Socket -> Seq(Restoring(n))]
    BY DEF CaughtUp
<1>2. Polite(Restoring(n))
    BY DEF Polite, Restoring, GoodClientMessage
<1>3. ASSUME NEW d \in Device, NEW m \in Nat \ {0}, NEW k \in Nat, k <= Len(dlog'[d]),
             m # 1 \/ (k = Len(dlog'[d]) /\ (dlog'[d] # <<>> => n <= Len(dlog'[d])))
      PROVE  [t |-> "append", entries |-> SubSeq(dlog'[d], m, k)] \in Restoring(n)
    <2> PICK l : l = dlog'[d]
        OBVIOUS
    <2> DEFINE b == SubSeq(l, m, k)
    <2>1. l \in Seq(Good) /\ Linked(l) /\ Len(l) \in Nat /\ DOMAIN l = 1 .. Len(l) /\ k <= Len(l)
        BY <1>3, InvKept, LenProperties DEF Inv, Copies, GoodDevices
    <2>2. b \in Run
        BY <2>1, StretchIsRun
    <2>3. CASE ~(m <= k)
        <3>1. b = <<>>
            BY <2>3, SubSeqEmpty
        <3> HIDE DEF b
        <3>2. [t |-> "append", entries |-> b] \in Restoring(n)
            BY <2>2, <3>1 DEF Restoring, GoodClientMessage
        <3> QED
            BY <3>2 DEF b
    <2>4. CASE m <= k
        <3>1. m <= k + 1
            BY <2>4
        <3>2. /\ Len(b) = k - m + 1
              /\ \A i \in 1 .. (k - m + 1) : b[i] = l[m + i - 1]
            BY <2>1, <3>1, Stretch
        <3>3. 1 \in 1 .. (k - m + 1) /\ m + 1 - 1 = m /\ m \in DOMAIN l
            BY <2>1, <2>4
        <3> HIDE DEF b
        <3>4. b[1] = l[m] /\ SeqOf(l[m]) = m - 1
            <4>1. b[1] = l[m + 1 - 1]
                BY <3>2, <3>3
            <4>2. SeqOf(l[m]) = m - 1
                BY <2>1, <3>3 DEF Linked
            <4> QED
                BY <3>3, <4>1, <4>2
        <3>5. CASE m = 1
            <4>1. Len(b) = Len(l) /\ l # <<>>
                BY <1>3, <2>1, <2>4, <3>2, <3>5, EmptySeq
            <4>2. n <= Len(b)
                BY <1>3, <3>5, <4>1
            <4>3. [t |-> "append", entries |-> b] \in Restoring(n)
                BY <2>2, <4>2 DEF Restoring, GoodClientMessage
            <4> QED
                BY <4>3 DEF b
        <3>6. CASE m # 1
            <4>1. SeqOf(b[1]) # 0
                BY <3>4, <3>6
            <4>2. [t |-> "append", entries |-> b] \in Restoring(n)
                BY <2>2, <4>1 DEF Restoring, GoodClientMessage
            <4> QED
                BY <4>2 DEF b
        <3> QED
            BY <3>5, <3>6
    <2> QED
        BY <2>3, <2>4
<1>4. ASSUME NEW d \in Device PROVE Uploads(dlog'[d], 2, Restoring(n))
    <2>1. \A m \in Nat \ {0} : 2 <= m => m # 1
        OBVIOUS
    <2> QED
        BY <1>3, <2>1 DEF Uploads
<1>5. ASSUME NEW d \in Device, Begins(d) PROVE Uploads(dlog'[d], 1, Restoring(n))
    <2>1. dlog'[d] # <<>> => n <= Len(dlog'[d])
        BY <1>5, WhoBeginsHasItAll
    <2>2. Len(dlog'[d]) \in Nat /\ Len(dlog'[d]) <= MAX_APPEND_ENTRIES
        BY InvKept, LenProperties DEF Inv, Copies, GoodDevices, ShortLogs
    <2>3. ASSUME NEW m \in Nat \ {0}, NEW k \in Nat, k <= Len(dlog'[d]),
                 k \in {Len(dlog'[d]), m - 1 + MAX_APPEND_ENTRIES}
          PROVE  m # 1 \/ k = Len(dlog'[d])
        BY <2>2, <2>3, DeviceAssumption
    <2> QED
        BY <1>3, <2>1, <2>3 DEF Uploads
<1>6. up' \in [Socket -> Seq(Restoring(n))]
    BY <1>1, <1>2, <1>4, <1>5, UpStep
<1> QED
    BY <1>6

LEMMA StatesTell ==
    ASSUME Inv, CaughtUp, [Next]_syncVars
    PROVE  down' \in [Socket -> Seq(Telling(tombstone))]
<1> DEFINE A == Telling(tombstone)
<1>1. down \in [Socket -> Seq(A)]
    BY DEF CaughtUp
<1>2. StateMessage \in A
    BY GoodMessages DEF Telling, StateMessage
<1>3. \A m \in GoodMessage : m.t # "state" => m \in A
    BY DEF Telling
<1>4. Appended(TipSeq(log)) \in A
    BY <1>3, GoodMessages DEF Appended
<1>5. \A b \in Seq(Good) : [t |-> "entries", entries |-> b] \in A
    BY <1>3, GoodMessages
<1>6. \A c \in ErrorCode : [t |-> "err", code |-> c] \in A
    BY <1>3, GoodMessages
<1>7. "bad_message" \in ErrorCode /\ \A b \in Run : b \in Seq(Good) /\ Refusal(b) \in ErrorCode
    BY RefusalType DEF ErrorCode, Run
<1>8. \A n \in Nat \ {0} : SubSeq(log, n, Len(log)) \in Seq(Good)
    BY TailWithin DEF Inv, Copies, GoodRoom
<1>9. \A p \in pushing : p.entries \in Seq(Good)
    BY DEF Inv, Copies, GoodRoom
<1> HIDE DEF A
<1>10. RoomSays(A)
    BY <1>2, <1>4, <1>5, <1>6, <1>7, <1>8, <1>9 DEF RoomSays
<1>11. down' \in [Socket -> Seq(A)]
    BY <1>1, <1>10, DownStep
<1> QED
    BY <1>11 DEF A

\* The first batch an empty room takes is at least as long as its tombstone.
LEMMA RestoredInFull ==
    ASSUME Inv, CaughtUp, NEW s \in Socket, NEW b \in Run, Offered(s, b), AppendCommit(s, b)
    PROVE  Len(tombstone) <= Len(log')
<1>1. /\ log' = log \o Staged(b) /\ Staged(b) # <<>> /\ Accepts(b)
      /\ b \in Seq(Good) /\ b \in Seq(Entry) /\ log \in Seq(Good) /\ Len(log) \in Nat
      /\ Len(b) \in Nat /\ DOMAIN b = 1 .. Len(b)
    BY GoodAreEntries, LenProperties DEF AppendCommit, Run, Inv, Copies, GoodRoom
<1>2. CASE log # <<>>
    <2>1. Staged(b) \in Seq(Good)
        BY <1>1, BeyondGood DEF Staged
    <2>2. Len(log') = Len(log) + Len(Staged(b)) /\ Len(Staged(b)) \in Nat
        BY <1>1, <2>1, ConcatProperties, LenProperties
    <2>3. Len(tombstone) \in Nat
        BY LenProperties DEF Inv, Copies, GoodRoom, Hash
    <2> QED
        BY <1>1, <1>2, <2>2, <2>3 DEF CaughtUp
<1>3. CASE log = <<>>
    <2>1. Len(log) = 0
        BY <1>3, EmptySeq
    <2>2. b # <<>>
        <3>1. b = <<>> => Staged(b) = b
            BY DEF Staged, Beyond
        <3> QED
            BY <1>1, <3>1
    <2>3. 1 \in DOMAIN b /\ SeqOf(b[1]) \in Nat
        <3>1. 1 \in 1 .. Len(b)
            BY <1>1, <2>2, EmptySeq
        <3>2. b[1] \in Entry
            BY <1>1, <3>1, ElementOfSeq
        <3> QED
            BY <1>1, <3>1, <3>2, EntryFacts
    <2>4. SeqOf(b[1]) = 0
        <3>1. Expected(b, 1).seq = 0
            BY <2>1 DEF Expected
        <3>2. Fits(b, 1)
            BY <1>1, <2>3 DEF Accepts
        <3> QED
            BY <2>1, <2>3, <3>1, <3>2 DEF Fits
    <2>5. Staged(b) = b
        BY <2>1, <2>4 DEF Staged, Beyond
    <2>6. log' = b
        BY <1>1, <1>3, <2>5, ConcatEmptySeq
    <2>7. Head(up[s]) \in Restoring(Len(tombstone))
        BY HeadTailProperties DEF Offered, CaughtUp
    <2> QED
        BY <2>2, <2>4, <2>6, <2>7 DEF Offered, Restoring
<1> QED
    BY <1>2, <1>3

LEMMA CaughtUpKept ==
    ASSUME Inv, OneDeviceEach, OneLine, CaughtUp, ShortLogs', [Next]_syncVars
    PROVE  CaughtUp'
<1>1. CASE RoomEvict
    <2>1. /\ log' = <<>> /\ up' = up /\ down' = down
          /\ \A s \in Socket : up[s] = <<>> /\ down[s] = <<>>
        BY <1>1 DEF RoomEvict, Evict, socketVars
    <2>2. \A S : up \in [Socket -> Seq(S)] /\ down \in [Socket -> Seq(S)]
        <3>1. up = [s \in Socket |-> up[s]] /\ down = [s \in Socket |-> down[s]]
            BY DEF Inv, Copies, GoodRoom, GoodDevices
        <3> QED
            BY <2>1, <3>1, EmptySeq
    <2> QED
        BY <2>1, <2>2 DEF CaughtUp
<1>2. CASE tombstone' = tombstone /\ (log' # <<>> => Len(tombstone) <= Len(log'))
    <2>1. /\ up' \in [Socket -> Seq(Restoring(Len(tombstone)))]
          /\ down' \in [Socket -> Seq(Telling(tombstone))]
        BY <1>2, UploadsRestore, StatesTell
    <2> QED
        BY <1>2, <2>1 DEF CaughtUp, Restoring, Telling, GoodClientMessage, GoodMessage, Run, Good, NobodyResigns
<1>3. CASE UNCHANGED <<log, tombstone, evictions>>
    BY <1>2, <1>3 DEF CaughtUp
<1>4. ASSUME NEW s \in Socket, NEW b \in Run, Offered(s, b), AppendCommit(s, b) PROVE CaughtUp'
    <2>1. tombstone' = tombstone
        BY <1>4 DEF AppendCommit
    <2> QED
        BY <1>2, <1>4, <2>1, RestoredInFull
<1> QED
    BY <1>1, <1>3, <1>4, RoomStep

LEMMA CaughtUpMeans ==
    ASSUME Inv, OneLine, CaughtUp PROVE RestoreExtendsTombstone
<1> SUFFICES ASSUME log # <<>> PROVE IsPrefixOf(tombstone, TipHash(log))
    BY DEF RestoreExtendsTombstone
<1>1. PICK M \in Line : RoomOn(M)
    BY DEF OneLine
<1>2. M \in Seq(Body) /\ log \in Seq(OnLine(M)) /\ Linked(log)
    BY <1>1, LineFacts DEF RoomOn, Inv, Copies, GoodRoom
<1>3. TipHash(log) \in Seq(Body) /\ IsPrefixOf(TipHash(log), M) /\ Len(TipHash(log)) = Len(log)
    BY <1>2, TipOnLine
<1>4. tombstone \in Seq(Body) /\ IsPrefixOf(tombstone, M)
    BY <1>1, <1>2, OnLineFacts, PrefixReflexive, EmptySeq DEF RoomOn, GenesisPrevHash
<1>5. Len(tombstone) <= Len(TipHash(log))
    BY <1>3 DEF CaughtUp
<1> QED
    BY <1>2, <1>3, <1>4, <1>5, PrefixesOfOne

LEMMA CaughtUpAlways ==
    SealsAll /\ OneDeviceEach /\ NobodyResigns /\ OnePlayAtATime /\ Spec /\ []ShortLogs
        => [](Inv /\ OneLine /\ CaughtUp)
<1>1. SealsAll /\ Init => CaughtUp
    <2> SUFFICES ASSUME SealsAll, Init PROVE CaughtUp
        OBVIOUS
    <2>1. /\ tombstone = <<>> /\ up = [s \in Socket |-> <<>>] /\ down = [s \in Socket |-> <<>>]
        BY DEF Init, RoomInit, GenesisPrevHash
    <2>2. Len(<<>>) = 0 /\ Len(log) \in Nat
        BY InvAtStart, LenProperties, EmptySeq DEF Inv, Copies, GoodRoom
    <2> QED
        BY <2>1, <2>2, EmptySeq DEF CaughtUp
<1>2. Inv /\ OneDeviceEach /\ OneLine /\ CaughtUp /\ ShortLogs' /\ [Next]_syncVars => CaughtUp'
    BY CaughtUpKept
<1>3. OneDeviceEach => OneDeviceEach'
    BY DEF OneDeviceEach
<1> QED
    BY <1>1, <1>2, <1>3, OneLineAlways, PTL DEF Spec

\* An evicted room is only ever restored from a log that goes on from what was
\* evicted: no player rolls the game back, however often the room is evicted, as
\* long as one append carries a whole log.
THEOREM RestoreExtendsAlways ==
    SealsAll /\ OneDeviceEach /\ NobodyResigns /\ OnePlayAtATime /\ Spec /\ []ShortLogs
        => []RestoreExtendsTombstone
<1>1. Inv /\ OneLine /\ CaughtUp => RestoreExtendsTombstone
    BY CaughtUpMeans
<1> QED
    BY <1>1, CaughtUpAlways, PTL

\* And the game is then one record of play, however often that happens.
THEOREM OneHistoryAlways ==
    SealsAll /\ OneDeviceEach /\ NobodyResigns /\ OnePlayAtATime /\ Spec /\ []ShortLogs => OneHistory
<1>1. SealsAll /\ NobodyResigns /\ OnePlayAtATime /\ Init => Game!HistoryInit
    BY HistoryStarts
<1>2. Inv /\ OneLine /\ CaughtUp /\ [Next]_syncVars => [Game!Play]_GameHistory
    BY CaughtUpMeans, HistoryStep
<1> QED
    BY <1>1, <1>2, CaughtUpAlways, PTL DEF Spec, OneHistory, Game!HistorySpec
=============================================================================
