----------------------------- MODULE SyncProofs ------------------------------
(***************************************************************************)
(* What TLAPS proves of Sync, for any devices, connections, plans and       *)
(* bounds: the types; that every copy of the log, on a device or in the     *)
(* room, is a chain; that where nobody resigns only an overtaken play can   *)
(* keep the players' sessions from replaying it; and that what a device     *)
(* shows of another's was in the room first.                                *)
(*                                                                          *)
(* An entry is the history it ends, so that a session accepts the log up to *)
(* it is a fact about the entry alone, settled when it was signed: the      *)
(* invariant says that every entry anywhere, stored or on its way, is such  *)
(* an entry, if all stands where it was sealed for, that every log is       *)
(* linked, and that a player only thinks about a move of its own turn.      *)
(***************************************************************************)
EXTENDS Sync, GameRoomProofs

\* A device can seal whatever it has to write.
SealsAll ==
    \A d \in Device, n \in Nat, kind \in Kind, at \in Nat :
        [dev |-> d, n |-> n, by |-> PlayerOf[d], kind |-> kind, at |-> at] \in Body

\* Nobody resigns, and nobody had when the game began.
NobodyResigns ==
    \A p \in Plans : p.resigns = {} /\ ~ResignedBefore(p.start, Len(p.start))

\* A history nobody resigns in, that replays if everything is in its place.
Sound(h) ==
    /\ \A i \in DOMAIN h : h[i].kind # "resign"
    /\ InPlace(h) => Replays(h)

\* The entries that end such a history, where nobody resigns.
Good == {e \in Entry : NobodyResigns => Sound(e)}

\* Sequences of a tip, of an empty log too.
Tip == {n \in Int : n >= -1}

GoodMessage ==
         [t : {"state"}, tipSeq : Tip, tipHash : Hash, tombstone : Hash]
    \cup [t : {"entries"}, entries : Seq(Good)]
    \cup [t : {"appended"}, tipSeq : Tip]
    \cup [t : {"err"}, code : ErrorCode]

Run == {b \in Seq(Good) : IsRun(b)}

GoodClientMessage ==
         [t : {"hello"}, keyHash : Participant]
    \cup [t : {"append"}, entries : Run]
    \cup [t : {"req"}, fromSeq : Nat]

\* The room's part of the invariant.
GoodRoom ==
    /\ log \in Seq(Good) /\ Linked(log)
    /\ tombstone \in Hash
    /\ lastAuthor \in Participant \cup {NoOne}
    /\ reminderAt \in BOOLEAN /\ retentionAt \in BOOLEAN /\ nudging \in BOOLEAN
    /\ alarm \in {"none", "reminder", "retention"}
    /\ keyHash \in [Socket -> Participant \cup {NoOne}]
    /\ open \in SUBSET Socket /\ gone \in SUBSET open
    /\ pushing \in SUBSET [sock : Socket, entries : Seq(Good)]
    /\ down \in [Socket -> Seq(GoodMessage)]

\* The devices', and what they have sent.
GoodDevices ==
    /\ dlog \in [Device -> Seq(Good)] /\ \A d \in Device : Linked(dlog[d])
    /\ relayTipSeq \in [Device -> Tip]
    /\ status \in [Device -> Status]
    /\ rolledBack \in [Device -> BOOLEAN]
    /\ signed \in [Device -> Nat]
    /\ up \in [Socket -> Seq(GoodClientMessage)]

\* A device's connection is one the room has, and is the device's alone.
GoodSockets ==
    /\ sock \in [Device -> Socket \cup {NoSocket}]
    /\ \A d \in Device :
        sock[d] # NoSocket => sock[d] \in open \ gone /\ DeviceOf[sock[d]] = d

Copies == GoodRoom /\ GoodDevices /\ GoodSockets

\* The sequences at which it is this device's turn, if nobody resigns.
Turns(d) == {n \in Nat : n >= 2 /\ (NobodyResigns => ExpectedAuthor(n) = PlayerOf[d])}

\* What waits for the worker was begun in turn.
GoodPlays ==
    /\ plan \in Plans
    /\ playing = [d \in Device |-> playing[d]]
    /\ \A d \in Device : playing[d] \in Seq(Turns(d))

Inv == SealsAll /\ Copies /\ GoodPlays

-----------------------------------------------------------------------------
(* Entries, runs and logs.                                                   *)

LEMMA GoodAreEntries ==
    /\ Good \subseteq Entry
    /\ \A l \in Seq(Good) : l \in Seq(Entry)
<1>1. Good \subseteq Entry
    BY DEF Good
<1> QED
    BY <1>1, SeqMonotonic

LEMMA MessagesAreMessages ==
    /\ \A q \in Seq(GoodMessage) : q \in Seq(Message)
    /\ \A q \in Seq(GoodClientMessage) : q \in Seq(ClientMessage)
<1>1. GoodMessage \subseteq Message
    BY GoodAreEntries DEF GoodMessage, Message, Tip
<1>2. GoodClientMessage \subseteq ClientMessage
    BY GoodAreEntries DEF GoodClientMessage, ClientMessage, Run
<1> QED
    BY <1>1, <1>2, SeqMonotonic

\* The tip of a linked log is the history of the log: a good one.
LEMMA TipOf ==
    ASSUME NEW l \in Seq(Good), Linked(l)
    PROVE  /\ Len(l) \in Nat /\ TipSeq(l) \in Tip
           /\ TipHash(l) \in Hash /\ TipHash(l) \in Seq(Body)
           /\ Len(TipHash(l)) = Len(l) /\ (NobodyResigns => Sound(TipHash(l)))
<1>1. l \in Seq(Entry) /\ Len(l) \in Nat /\ DOMAIN l = 1 .. Len(l)
    BY GoodAreEntries, LenProperties
<1>2. CASE l = <<>>
    <2>1. TipHash(l) = <<>> /\ <<>> \in Seq(Body) /\ Len(<<>>) = 0 /\ Len(l) = 0
        BY <1>2, EmptySeq DEF TipHash, GenesisPrevHash
    <2>2. Sound(<<>>)
        BY DEF Sound, Replays
    <2> QED
        BY <2>1, <2>2 DEF TipSeq, Tip, Hash, GenesisPrevHash
<1>3. CASE l # <<>>
    <2> DEFINE e == l[Len(l)]
    <2>1. Len(l) \in 1 .. Len(l)
        BY <1>1, <1>3, EmptySeq
    <2>2. e \in Good /\ e \in Entry
        BY <2>1, ElementOfSeq, GoodAreEntries
    <2>3. e \in Seq(Body) /\ Len(e) \in Nat /\ SeqOf(e) = Len(e) - 1
        BY <2>2, EntryFacts
    <2>4. SeqOf(e) = Len(l) - 1
        BY <1>1, <2>1 DEF Linked
    <2>5. TipHash(l) = e
        BY <1>3 DEF TipHash, HashOf
    <2> HIDE DEF e
    <2>6. NobodyResigns => Sound(e)
        BY <2>2 DEF Good
    <2>7. Len(e) = Len(l)
        BY <1>1, <2>3, <2>4
    <2> QED
        BY <1>1, <2>1, <2>2, <2>3, <2>5, <2>6, <2>7 DEF TipSeq, Tip, Hash
<1> QED
    BY <1>2, <1>3

\* What a run holds from a sequence on is made of its entries.
LEMMA BeyondGood ==
    ASSUME NEW b \in Seq(Good), NEW n \in Nat
    PROVE  Beyond(b, n) \in Seq(Good)
BY GoodAreEntries, BeyondWithin

\* The first entries of a linked log are one too, and any stretch is a run.
LEMMA CutLinked ==
    ASSUME NEW l \in Seq(Good), Linked(l), NEW n \in Nat, n <= Len(l)
    PROVE  SubSeq(l, 1, n) \in Seq(Good) /\ Linked(SubSeq(l, 1, n))
<1> DEFINE c == SubSeq(l, 1, n)
<1>1. /\ c \in Seq(Good) /\ Len(c) = n
      /\ \A k \in 1 .. n : c[k] = l[k]
    <2>1. 1 <= n + 1
        OBVIOUS
    <2>2. /\ c \in Seq(Good) /\ Len(c) = n - 1 + 1
          /\ \A k \in 1 .. (n - 1 + 1) : c[k] = l[1 + k - 1]
        BY <2>1, Stretch
    <2> QED
        BY <2>2
<1>2. Len(l) \in Nat /\ DOMAIN l = 1 .. Len(l) /\ DOMAIN c = 1 .. n
    BY <1>1, LenProperties
<1> HIDE DEF c
<1>3. ASSUME NEW k \in 1 .. n
      PROVE  SeqOf(c[k]) = k - 1 /\ PrevOf(c[k]) = IF k = 1 THEN GenesisPrevHash ELSE HashOf(c[k - 1])
    <2>1. k \in 1 .. Len(l) /\ c[k] = l[k] /\ (k # 1 => c[k - 1] = l[k - 1])
        BY <1>1, <1>2
    <2> QED
        BY <1>2, <2>1 DEF Linked
<1> QED
    BY <1>1, <1>2, <1>3 DEF Linked, c

LEMMA StretchIsRun ==
    ASSUME NEW l \in Seq(Good), Linked(l), NEW m \in Nat \ {0}, NEW n \in Nat, n <= Len(l)
    PROVE  SubSeq(l, m, n) \in Run
<1> DEFINE b == SubSeq(l, m, n)
<1>0. Len(l) \in Nat /\ DOMAIN l = 1 .. Len(l)
    BY LenProperties
<1>1. CASE m <= n
    <2>1. m <= n + 1
        BY <1>1
    <2>2. /\ b \in Seq(Good) /\ Len(b) = n - m + 1
          /\ \A k \in 1 .. (n - m + 1) : b[k] = l[m + k - 1]
        BY <2>1, Stretch
    <2>3. DOMAIN b = 1 .. (n - m + 1)
        BY <2>2, LenProperties
    <2> HIDE DEF b
    <2>4. ASSUME NEW k \in 1 .. (n - m + 1) PROVE SeqOf(b[k]) = m + k - 2
        <3>1. m + k - 1 \in 1 .. Len(l)
            BY <1>0
        <3>2. SeqOf(l[m + k - 1]) = (m + k - 1) - 1
            BY <1>0, <3>1 DEF Linked
        <3> QED
            BY <2>2, <3>2
    <2>5. SeqOf(b[1]) = m - 1
        BY <1>1, <2>4
    <2>6. IsRun(b)
        BY <2>3, <2>4, <2>5 DEF IsRun
    <2> QED
        BY <2>2, <2>6 DEF Run, b
<1>2. CASE ~(m <= n)
    <2>1. b = <<>>
        BY <1>2, SubSeqEmpty
    <2>2. <<>> \in Seq(Good) /\ IsRun(<<>>)
        BY EmptySeq DEF IsRun
    <2> QED
        BY <2>1, <2>2 DEF Run
<1> QED
    BY <1>1, <1>2

\* How many entries of a batch a log takes: as many as continue it.
LEMMA TakenStops ==
    ASSUME NEW l \in Seq(Good), NEW b \in Seq(Good), NEW k, k = Taken(l, b)
    PROVE  /\ k \in 0 .. Len(b)
           /\ \A j \in 1 .. k : Continues(l \o SubSeq(b, 1, j - 1), b[j])
           /\ k < Len(b) => ~Continues(l \o SubSeq(b, 1, k), b[k + 1])
<1> DEFINE Follows(j) == Continues(l \o SubSeq(b, 1, j - 1), b[j])
           Stops(i) == /\ \A j \in 1 .. i : Follows(j)
                       /\ i < Len(b) => ~Continues(l \o SubSeq(b, 1, i), b[i + 1])
<1>1. /\ l \in Seq(Entry) /\ b \in Seq(Entry) /\ Len(l) \in Nat /\ Len(b) \in Nat
    BY GoodAreEntries, LenProperties
<1>2. \E i \in 0 .. Len(b) : Stops(i)
    <2> DEFINE T == {i \in 0 .. Len(b) - 1 : ~Follows(i + 1)}
    <2>1. CASE T = {}
        <3>1. \A j \in 1 .. Len(b) : Follows(j)
            <4> SUFFICES ASSUME NEW j \in 1 .. Len(b) PROVE Follows(j)
                OBVIOUS
            <4>1. j - 1 \in 0 .. Len(b) - 1 /\ (j - 1) + 1 = j
                BY <1>1
            <4> QED
                BY <2>1, <4>1
        <3>2. Stops(Len(b)) /\ Len(b) \in 0 .. Len(b)
            BY <1>1, <3>1
        <3> QED
            BY <3>2
    <2>2. CASE T # {}
        <3>1. T \in SUBSET Nat
            BY <1>1
        <3>2. PICK i \in T : \A m \in T : i <= m
            BY <2>2, <3>1, LeastElement
        <3>3. \A j \in 1 .. i : Follows(j)
            <4> SUFFICES ASSUME NEW j \in 1 .. i PROVE Follows(j)
                OBVIOUS
            <4>1. j - 1 \in 0 .. Len(b) - 1 /\ (j - 1) + 1 = j /\ ~(i <= j - 1)
                BY <1>1, <3>2
            <4> QED
                BY <3>2, <4>1
        <3>4. ~Follows(i + 1) /\ i \in 0 .. Len(b) /\ (i + 1) - 1 = i
            BY <1>1, <3>2
        <3> QED
            BY <3>3, <3>4
    <2> QED
        BY <2>1, <2>2
<1> QED
    BY <1>2 DEF Taken

\* What a log takes of a batch leaves it linked.
LEMMA TakenLinked ==
    ASSUME NEW l \in Seq(Good), Linked(l), NEW b \in Seq(Good), NEW k, k = Taken(l, b)
    PROVE  /\ k \in 0 .. Len(b)
           /\ l \o SubSeq(b, 1, k) \in Seq(Good) /\ Linked(l \o SubSeq(b, 1, k))
<1>1. /\ l \in Seq(Entry) /\ b \in Seq(Entry) /\ Len(l) \in Nat /\ Len(b) \in Nat
    BY GoodAreEntries, LenProperties
<1>2. k \in 0 .. Len(b) /\ \A j \in 1 .. k : Continues(l \o SubSeq(b, 1, j - 1), b[j])
    BY TakenStops
<1> DEFINE t == SubSeq(b, 1, k)
<1>4. /\ t \in Seq(Good) /\ Len(t) = k /\ \A j \in 1 .. k : t[j] = b[j]
    <2>1. 1 <= k + 1 /\ k \in Nat /\ k <= Len(b)
        BY <1>1, <1>2
    <2>2. /\ t \in Seq(Good) /\ Len(t) = k - 1 + 1
          /\ \A j \in 1 .. (k - 1 + 1) : t[j] = b[1 + j - 1]
        BY <2>1, Stretch
    <2> QED
        BY <2>1, <2>2
<1>5. ASSUME NEW j \in 1 .. k
      PROVE  /\ SeqOf(t[j]) = Len(l) + j - 1
             /\ PrevOf(t[j]) = IF j = 1 THEN TipHash(l) ELSE HashOf(t[j - 1])
    <2> DEFINE a == SubSeq(b, 1, j - 1)
    <2>1. Continues(l \o a, b[j]) /\ t[j] = b[j]
        BY <1>2, <1>4
    <2>2. /\ a \in Seq(Entry) /\ Len(a) = j - 1 /\ \A i \in 1 .. (j - 1) : a[i] = b[i]
        <3>1. 1 <= (j - 1) + 1 /\ j - 1 \in Nat /\ j - 1 <= Len(b)
            BY <1>1, <1>2
        <3>2. /\ a \in Seq(Entry) /\ Len(a) = (j - 1) - 1 + 1
              /\ \A i \in 1 .. ((j - 1) - 1 + 1) : a[i] = b[1 + i - 1]
            BY <1>1, <3>1, Stretch
        <3> QED
            BY <3>1, <3>2
    <2> HIDE DEF a
    <2>3. /\ Len(l \o a) = Len(l) + (j - 1)
          /\ \A i \in 1 .. Len(l) + (j - 1) :
                (l \o a)[i] = IF i <= Len(l) THEN l[i] ELSE a[i - Len(l)]
        <3>1. /\ Len(l \o a) = Len(l) + Len(a)
              /\ \A i \in 1 .. Len(l) + Len(a) :
                    (l \o a)[i] = IF i <= Len(l) THEN l[i] ELSE a[i - Len(l)]
            BY <1>1, <2>2, ConcatProperties
        <3> QED
            BY <2>2, <3>1
    <2>4. SeqOf(t[j]) = Len(l) + j - 1 /\ PrevOf(t[j]) = TipHash(l \o a)
        BY <1>1, <1>2, <2>1, <2>3 DEF Continues
    <2>5. CASE j = 1
        <3>1. a = <<>>
            BY <2>2, <2>5, EmptySeq
        <3>2. l \o a = l
            BY <1>1, <3>1, ConcatEmptySeq
        <3> QED
            BY <2>4, <2>5, <3>2
    <2>6. CASE j # 1
        <3>1. /\ Len(l) + (j - 1) \in 1 .. Len(l) + (j - 1) /\ ~(Len(l) + (j - 1) <= Len(l))
              /\ (Len(l) + (j - 1)) - Len(l) = j - 1 /\ j - 1 \in 1 .. k /\ j - 1 \in 1 .. (j - 1)
            BY <1>1, <1>2, <2>6
        <3>2. (l \o a)[Len(l \o a)] = a[j - 1] /\ Len(l \o a) # 0
            BY <1>1, <2>3, <3>1
        <3>3. l \o a # <<>>
            BY <3>2, EmptySeq
        <3>4. TipHash(l \o a) = a[j - 1]
            BY <3>2, <3>3 DEF TipHash, HashOf
        <3>5. a[j - 1] = t[j - 1]
            BY <1>4, <2>2, <3>1
        <3> QED
            BY <2>4, <2>6, <3>4, <3>5 DEF HashOf
    <2> QED
        BY <2>5, <2>6
<1> HIDE DEF t
<1>6. Linked(l \o t)
    BY <1>1, <1>4, <1>5, LinkedExtends, GoodAreEntries
<1>7. l \o t \in Seq(Good)
    BY <1>4, ConcatProperties
<1> QED
    BY <1>2, <1>6, <1>7 DEF t

\* A body this player may write next: nobody resigns, and what is sealed for this
\* place is what belongs there.
Writable(h, by, kind, at) ==
    NobodyResigns =>
        /\ kind # "resign"
        /\ InPlace(h) /\ at = Len(h) =>
              /\ Len(h) = 0 => kind = "join"
              /\ Len(h) = 1 => kind = "setup"
              /\ Len(h) >= 2 => kind = "move"
              /\ by = ExpectedAuthor(Len(h))

\* Where nobody resigns, an entry replays if its kind and its writer are right.
LEMMA ReplaysNext ==
    ASSUME NEW h \in Seq(Body), NEW body \in Body, NobodyResigns, Sound(h),
           Writable(h, body.by, body.kind, body.at)
    PROVE  Sound(Append(h, body))
<1> DEFINE n == Len(h)
           g == Append(h, body)
<1>1. /\ n \in Nat /\ DOMAIN h = 1 .. n
      /\ Len(g) = n + 1 /\ DOMAIN g = 1 .. n + 1
      /\ \A i \in 1 .. n : g[i] = h[i]
      /\ g[n + 1] = body
    BY AppendProperties, LenProperties
<1> HIDE DEF g, n
<1>2. \A i \in 1 .. n + 1 : g[i].kind # "resign"
    <2> TAKE i \in 1 .. n + 1
    <2>1. CASE i \in 1 .. n
        BY <1>1, <2>1 DEF Sound
    <2>2. CASE i = n + 1
        BY <1>1, <2>2 DEF Writable
    <2> QED
        BY <1>1, <2>1, <2>2
<1>3. ASSUME InPlace(g), NEW i \in 1 .. n + 1 PROVE Replayable(g, i - 1)
    <2>1. \A j \in 0 .. n : BodyAt(g, j) = g[j + 1] /\ j + 1 \in 1 .. n + 1
        BY <1>1 DEF BodyAt
    <2>2. \A j \in 1 .. n + 1 : ~ResignedBefore(g, j - 1)
        <3> TAKE j \in 1 .. n + 1
        <3>1. \A m \in 0 .. ((j - 1) - 1) : m \in 0 .. n
            BY <1>1
        <3> QED
            BY <1>2, <2>1, <3>1 DEF ResignedBefore
    <2>3. InPlace(h)
        BY <1>1, <1>3 DEF InPlace
    <2>4. CASE i \in 1 .. n
        <3>1. Replayable(h, i - 1)
            BY <1>1, <2>3, <2>4 DEF Sound, Replays
        <3>2. \A j \in 0 .. n - 1 : BodyAt(g, j) = BodyAt(h, j)
            BY <1>1 DEF BodyAt
        <3>3. i - 1 \in 0 .. n - 1
            BY <1>1, <2>4
        <3>4. BodyAt(g, i - 1) = BodyAt(h, i - 1)
            BY <3>2, <3>3
        <3>5. ~ResignedBefore(g, i - 1)
            BY <2>2
        <3> QED
            BY <3>1, <3>4, <3>5 DEF Replayable
    <2>5. CASE i = n + 1
        <3>1. i - 1 = n /\ n \in 0 .. n /\ g[n + 1] = body /\ n + 1 \in DOMAIN g
            BY <1>1, <2>5
        <3>2. BodyAt(g, n) = body /\ body.at = n
            <4>1. g[n + 1].at = (n + 1) - 1
                BY <1>3, <3>1 DEF InPlace
            <4> QED
                BY <1>1, <3>1, <4>1 DEF BodyAt
        <3>3. /\ n = 0 => body.kind = "join"
              /\ n = 1 => body.kind = "setup"
              /\ n >= 2 => body.kind = "move"
              /\ body.by = ExpectedAuthor(n)
            BY <2>3, <3>2 DEF Writable, n
        <3>4. ~ResignedBefore(g, n)
            BY <2>2, <3>1
        <3>5. n = 0 \/ n = 1 \/ n >= 2
            BY <1>1
        <3>6. Replayable(g, n)
            BY <3>2, <3>3, <3>4, <3>5 DEF Replayable
        <3> QED
            BY <3>1, <3>6
    <2> QED
        BY <1>1, <2>4, <2>5
<1>4. InPlace(g) => Replays(g)
    BY <1>1, <1>3 DEF Replays
<1> QED
    BY <1>1, <1>2, <1>4 DEF Sound, g

\* Signing one makes a good entry, and a linked log.
LEMMA SignedGood ==
    ASSUME NEW l \in Seq(Good), Linked(l), NEW body \in Body,
           Writable(TipHash(l), body.by, body.kind, body.at)
    PROVE  /\ Append(l, Signed(l, body)) \in Seq(Good)
           /\ Linked(Append(l, Signed(l, body)))
<1> DEFINE h == TipHash(l)
           n == Len(h)
           g == Append(h, body)
<1>1. h \in Seq(Body) /\ n \in Nat /\ n = Len(l) /\ (NobodyResigns => Sound(h))
      /\ DOMAIN h = 1 .. n /\ Len(l) \in Nat /\ DOMAIN l = 1 .. Len(l)
    BY TipOf, LenProperties
<1>2. Writable(h, body.by, body.kind, body.at) /\ g = Signed(l, body)
    BY DEF Signed
<1>6. NobodyResigns => Sound(g)
    BY <1>1, <1>2, ReplaysNext
<1> HIDE DEF h
<1>3. /\ g \in Seq(Body) /\ Len(g) = n + 1 /\ DOMAIN g = 1 .. n + 1
      /\ \A i \in 1 .. n : g[i] = h[i]
      /\ g[n + 1] = body
    BY <1>1, AppendProperties, LenProperties
<1> HIDE DEF g
<1>7. g \in Good
    <2>1. g # <<>>
        BY <1>1, <1>3, EmptySeq
    <2> QED
        BY <1>3, <1>6, <2>1 DEF Good, Entry
<1>8. SeqOf(g) = Len(l) /\ PrevOf(g) = h
    <2>1. SeqOf(g) = n
        BY <1>1, <1>3 DEF SeqOf
    <2>2. PrevOf(g) = SubSeq(g, 1, n)
        BY <1>1, <1>3 DEF PrevOf
    <2>3. 1 <= n + 1 /\ n <= Len(g)
        BY <1>1, <1>3
    <2>4. /\ SubSeq(g, 1, n) \in Seq(Body) /\ Len(SubSeq(g, 1, n)) = n - 1 + 1
          /\ \A i \in 1 .. (n - 1 + 1) : SubSeq(g, 1, n)[i] = g[1 + i - 1]
        BY <1>1, <1>3, <2>3, Stretch
    <2>5. SubSeq(g, 1, n) = h
        BY <1>1, <1>3, <2>4, SeqEqual
    <2> QED
        BY <1>1, <2>1, <2>2, <2>5
<1> DEFINE c == Append(l, g)
<1>9. /\ c \in Seq(Good) /\ Len(c) = Len(l) + 1 /\ DOMAIN c = 1 .. Len(l) + 1
      /\ \A i \in 1 .. Len(l) : c[i] = l[i]
      /\ c[Len(l) + 1] = g
    BY <1>1, <1>7, AppendProperties, LenProperties
<1> HIDE DEF c
<1>10. ASSUME NEW i \in 1 .. Len(l) + 1
       PROVE  /\ SeqOf(c[i]) = i - 1
              /\ PrevOf(c[i]) = IF i = 1 THEN GenesisPrevHash ELSE HashOf(c[i - 1])
    <2>1. CASE i \in 1 .. Len(l)
        <3>1. c[i] = l[i] /\ (i # 1 => c[i - 1] = l[i - 1])
            BY <1>1, <1>9, <2>1
        <3> QED
            BY <1>1, <2>1, <3>1 DEF Linked
    <2>2. CASE i = Len(l) + 1
        <3>1. CASE l = <<>>
            <4>1. Len(l) = 0 /\ h = GenesisPrevHash
                BY <3>1, EmptySeq DEF h, TipHash
            <4> QED
                BY <1>8, <1>9, <2>2, <4>1
        <3>2. CASE l # <<>>
            <4>1. Len(l) # 0 /\ h = HashOf(l[Len(l)])
                BY <3>2, EmptySeq DEF h, TipHash
            <4>2. i # 1 /\ i - 1 = Len(l) /\ c[i - 1] = l[Len(l)] /\ c[i] = g
                BY <1>1, <1>9, <2>2, <4>1
            <4> QED
                BY <1>1, <1>8, <4>1, <4>2
        <3> QED
            BY <3>1, <3>2
    <2>3. i \in 1 .. Len(l) \/ i = Len(l) + 1
        BY <1>1
    <2> QED
        BY <2>1, <2>2, <2>3
<1>11. Linked(c)
    BY <1>9, <1>10 DEF Linked
<1> QED
    BY <1>2, <1>9, <1>11 DEF c
-----------------------------------------------------------------------------
(* One device's engine.                                                      *)

GoodEngine(e) ==
    /\ e \in [log : Seq(Good), relayTip : Tip, status : Status, signed : Nat,
              connected : BOOLEAN, out : Seq(GoodClientMessage)]
    /\ Linked(e.log)

LEMMA EngineGood == ASSUME Inv, NEW d \in Device PROVE GoodEngine(Engine(d))
<1>1. <<>> \in Seq(GoodClientMessage)
    BY EmptySeq
<1> QED
    BY <1>1 DEF Inv, Copies, GoodDevices, GoodEngine, Engine

LEMMA SendGood ==
    ASSUME NEW e, GoodEngine(e), NEW m \in GoodClientMessage
    PROVE  GoodEngine(Send(e, m)) /\ Send(e, m).connected = e.connected
<1>1. Append(e.out, m) \in Seq(GoodClientMessage)
    BY AppendProperties DEF GoodEngine
<1> QED
    BY <1>1 DEF GoodEngine, Send

LEMMA FlushGood ==
    ASSUME NEW e, GoodEngine(e)
    PROVE  GoodEngine(Flush(e)) /\ Flush(e).connected = e.connected
<1> DEFINE last == IF Len(e.log) < e.relayTip + 1 + MAX_APPEND_ENTRIES
                   THEN Len(e.log) ELSE e.relayTip + 1 + MAX_APPEND_ENTRIES
<1>1. e.log \in Seq(Good) /\ Linked(e.log) /\ e.relayTip \in Tip
    BY DEF GoodEngine
<1>2. /\ e.relayTip + 2 \in Nat \ {0} /\ last \in Nat /\ last <= Len(e.log)
    BY <1>1, LenProperties, DeviceAssumption DEF Tip
<1> HIDE DEF last
<1>3. SubSeq(e.log, e.relayTip + 2, last) \in Run
    BY <1>1, <1>2, StretchIsRun
<1>4. Unconfirmed(e) \in Run
    BY <1>3 DEF Unconfirmed, last
<1>5. [t |-> "append", entries |-> Unconfirmed(e)] \in GoodClientMessage
    BY <1>4 DEF GoodClientMessage
<1> QED
    BY <1>5, SendGood DEF Flush

LEMMA SettleGood ==
    ASSUME NEW e, GoodEngine(e)
    PROVE  GoodEngine(Settle(e)) /\ Settle(e).connected = e.connected
    BY DEF GoodEngine, Settle, Status

LEMMA ConfirmGood ==
    ASSUME NEW e, GoodEngine(e), NEW seq \in Tip
    PROVE  GoodEngine(Confirm(e, seq)) /\ Confirm(e, seq).connected = e.connected
    BY DEF GoodEngine, Confirm, Tip

\* What a device may write next of its own log, its log takes and it sends.
LEMMA AppendLocalGood ==
    ASSUME Inv, NEW d \in Device, NEW e, GoodEngine(e), NEW kind \in Kind, NEW at \in Nat,
           Writable(TipHash(e.log), PlayerOf[d], kind, at)
    PROVE  /\ GoodEngine(AppendLocal(d, e, kind, at))
           /\ AppendLocal(d, e, kind, at).connected = e.connected
<1> DEFINE body == [dev |-> d, n |-> e.signed, by |-> PlayerOf[d], kind |-> kind,
                    at |-> at]
           l == Append(e.log, Signed(e.log, body))
           n == e.signed + 1
           f == [e EXCEPT !.log = l, !.signed = n]
<1>1. e.log \in Seq(Good) /\ Linked(e.log) /\ e.signed \in Nat /\ n \in Nat
    BY DEF GoodEngine
<1>2. body \in Body /\ body.by = PlayerOf[d] /\ body.kind = kind /\ body.at = at
    BY <1>1 DEF Inv, SealsAll
<1> HIDE DEF body
<1>3. l \in Seq(Good) /\ Linked(l)
    BY <1>1, <1>2, SignedGood
<1>4. AppendLocal(d, e, kind, at) = Flush(f)
    BY DEF AppendLocal, body
<1> HIDE DEF l, n
<1>5. GoodEngine(f) /\ f.connected = e.connected
    BY <1>1, <1>3 DEF GoodEngine
<1> HIDE DEF f
<1> QED
    BY <1>4, <1>5, FlushGood

\* The prologue is written by the player whose entry it is, when it is due.
LEMMA PrologueDue ==
    ASSUME NEW d \in Device, NEW e, GoodEngine(e), WritePrologueEntry(d, e) # e
    PROVE  \E kind \in {"join", "setup"} :
              /\ Len(e.log) \in {0, 1}
              /\ Writable(TipHash(e.log), PlayerOf[d], kind, Len(e.log))
              /\ WritePrologueEntry(d, e) = AppendLocal(d, e, kind, Len(e.log))
<1>1. Len(TipHash(e.log)) = Len(e.log)
    BY TipOf DEF GoodEngine
<1>2. CASE e.log = <<>> /\ PlayerOf[d] = "claimer"
    <2>1. Len(e.log) = 0
        BY <1>2, EmptySeq
    <2>2. Writable(TipHash(e.log), PlayerOf[d], "join", 0)
        BY <1>1, <1>2, <2>1 DEF Writable, ExpectedAuthor
    <2>3. WritePrologueEntry(d, e) = AppendLocal(d, e, "join", 0)
        BY <1>2 DEF WritePrologueEntry
    <2> QED
        BY <2>1, <2>2, <2>3
<1>3. CASE ~(e.log = <<>> /\ PlayerOf[d] = "claimer") /\ Len(e.log) = 1 /\ PlayerOf[d] = "initiator"
    <2>1. Writable(TipHash(e.log), PlayerOf[d], "setup", 1)
        BY <1>1, <1>3 DEF Writable, ExpectedAuthor
    <2>2. WritePrologueEntry(d, e) = AppendLocal(d, e, "setup", 1)
        BY <1>3 DEF WritePrologueEntry
    <2> QED
        BY <1>3, <2>1, <2>2
<1> QED
    BY <1>2, <1>3 DEF WritePrologueEntry

LEMMA WritePrologueGood ==
    ASSUME Inv, NEW d \in Device, NEW e, GoodEngine(e)
    PROVE  /\ GoodEngine(WritePrologueEntry(d, e))
           /\ WritePrologueEntry(d, e).connected = e.connected
<1>1. CASE WritePrologueEntry(d, e) # e
    <2>1. PICK kind \in {"join", "setup"} :
              /\ Len(e.log) \in {0, 1}
              /\ Writable(TipHash(e.log), PlayerOf[d], kind, Len(e.log))
              /\ WritePrologueEntry(d, e) = AppendLocal(d, e, kind, Len(e.log))
        BY <1>1, PrologueDue
    <2>2. kind \in Kind /\ Len(e.log) \in Nat
        BY <2>1 DEF Kind
    <2> QED
        BY <2>1, <2>2, AppendLocalGood
<1> QED
    BY <1>1

\* The devices' part of the invariant once a device has become another engine.
LEMMA BecomeGood ==
    ASSUME Inv, NEW d \in Device, NEW e, GoodEngine(e),
           e.connected => sock[d] # NoSocket,
           Become(d, e), rolledBack' \in [Device -> BOOLEAN]
    PROVE  GoodDevices'
<1>1. /\ e.log \in Seq(Good) /\ Linked(e.log) /\ e.relayTip \in Tip
      /\ e.status \in Status /\ e.signed \in Nat /\ e.out \in Seq(GoodClientMessage)
    BY DEF GoodEngine
<1>2. dlog' \in [Device -> Seq(Good)] /\ \A c \in Device : Linked(dlog'[c])
    BY <1>1 DEF Become, Inv, Copies, GoodDevices
<1>3. /\ relayTipSeq' \in [Device -> Tip] /\ status' \in [Device -> Status]
      /\ signed' \in [Device -> Nat]
    BY <1>1 DEF Become, Inv, Copies, GoodDevices
<1>4. up' \in [Socket -> Seq(GoodClientMessage)]
    <2>1. CASE e.connected
        <3>1. sock[d] \in Socket /\ up \in [Socket -> Seq(GoodClientMessage)]
            BY <2>1 DEF Inv, Copies, GoodSockets, GoodDevices
        <3>2. up[sock[d]] \o e.out \in Seq(GoodClientMessage)
            BY <1>1, <3>1, ConcatProperties
        <3>3. up' = [up EXCEPT ![sock[d]] = @ \o e.out]
            BY <2>1 DEF Become
        <3> QED
            BY <3>1, <3>2, <3>3
    <2>2. CASE ~e.connected
        BY <2>2 DEF Become, Inv, Copies, GoodDevices
    <2> QED
        BY <2>1, <2>2
<1> QED
    BY <1>2, <1>3, <1>4 DEF GoodDevices
-----------------------------------------------------------------------------
(* What a device does of its own accord.                                     *)

LEMMA LocalStep ==
    ASSUME Inv, NEW d \in Device, NEW e, GoodEngine(e), e.connected = (sock[d] # NoSocket),
           Become(d, e), rolledBack' \in [Device -> BOOLEAN], UNCHANGED <<roomVars, sock>>
    PROVE  Copies'
<1>1. GoodDevices'
    BY BecomeGood
<1>2. GoodRoom' /\ GoodSockets'
    BY DEF Inv, Copies, GoodRoom, GoodSockets, roomVars, logVars, scheduleVars, socketVars
<1> QED
    BY <1>1, <1>2 DEF Copies

\* A player ends a play it began in turn, or resigns where players may.
LEMMA PlayDue ==
    ASSUME Inv, NEW d \in Device, Move(d) \/ Resign(d)
    PROVE  \E kind \in {"move", "resign"}, at \in Nat :
              /\ Writable(TipHash(dlog[d]), PlayerOf[d], kind, at)
              /\ Become(d, AppendLocal(d, Engine(d), kind, at))
              /\ IF kind = "move" THEN Move(d) /\ at = Head(playing[d])
                 ELSE d \in plan.resigns /\ at = Len(dlog[d])
<1>1. Len(TipHash(dlog[d])) = Len(dlog[d]) /\ Len(dlog[d]) \in Nat
    BY TipOf DEF Inv, Copies, GoodDevices
<1>2. CASE Move(d)
    <2>1. playing[d] # <<>> /\ playing[d] \in Seq(Turns(d))
        BY <1>2 DEF Move, Inv, GoodPlays
    <2>2. Head(playing[d]) \in Turns(d)
        BY <2>1, HeadTailProperties
    <2>3. Head(playing[d]) \in Nat /\ Head(playing[d]) >= 2
        BY <2>2 DEF Turns
    <2>4. Writable(TipHash(dlog[d]), PlayerOf[d], "move", Head(playing[d]))
        <3> DEFINE h == TipHash(dlog[d])
                   at == Head(playing[d])
        <3>1. Len(h) \in Nat /\ at \in Nat /\ at >= 2
            BY <1>1, <2>3
        <3>2. NobodyResigns => ExpectedAuthor(at) = PlayerOf[d]
            BY <2>2 DEF Turns
        <3> HIDE DEF h, at
        <3>3. Writable(h, PlayerOf[d], "move", at)
            BY <3>1, <3>2 DEF Writable
        <3> QED
            BY <3>3 DEF h, at
    <2>5. Become(d, AppendLocal(d, Engine(d), "move", Head(playing[d])))
        BY <1>2 DEF Move
    <2> QED
        BY <1>2, <2>3, <2>4, <2>5
<1>3. CASE Resign(d)
    <2>1. d \in plan.resigns /\ Become(d, AppendLocal(d, Engine(d), "resign", Len(dlog[d])))
        BY <1>3 DEF Resign
    <2>2. ~NobodyResigns
        BY <2>1 DEF Inv, GoodPlays, NobodyResigns
    <2>3. Writable(TipHash(dlog[d]), PlayerOf[d], "resign", Len(dlog[d]))
        BY <2>2 DEF Writable
    <2> QED
        BY <1>1, <2>1, <2>3
<1> QED
    BY <1>2, <1>3

LEMMA MoveStep == ASSUME Inv, NEW d \in Device, Move(d) \/ Resign(d) PROVE Copies'
<1> DEFINE e == Engine(d)
<1>1. GoodEngine(e) /\ e.connected = (sock[d] # NoSocket) /\ e.log = dlog[d]
    BY EngineGood DEF Engine
<1>2. PICK kind \in {"move", "resign"}, at \in Nat :
          /\ Writable(TipHash(dlog[d]), PlayerOf[d], kind, at)
          /\ Become(d, AppendLocal(d, e, kind, at))
    BY PlayDue
<1>3. kind \in Kind
    BY DEF Kind
<1>4. rolledBack' \in [Device -> BOOLEAN] /\ UNCHANGED <<roomVars, sock>>
    BY DEF Move, Resign, Inv, Copies, GoodDevices
<1> HIDE DEF e
<1>5. /\ GoodEngine(AppendLocal(d, e, kind, at))
      /\ AppendLocal(d, e, kind, at).connected = e.connected
    BY <1>1, <1>2, <1>3, AppendLocalGood
<1> QED
    BY <1>1, <1>2, <1>4, <1>5, LocalStep

LEMMA AfterRollBackStep == ASSUME Inv, NEW d \in Device, AfterRollBack(d) PROVE Copies'
<1> DEFINE e == WritePrologueEntry(d, Engine(d))
<1>1. GoodEngine(Engine(d)) /\ Engine(d).connected = (sock[d] # NoSocket)
    BY EngineGood DEF Engine
<1>2. GoodEngine(e) /\ e.connected = (sock[d] # NoSocket)
    BY <1>1, WritePrologueGood
<1> HIDE DEF e
<1>3. /\ Become(d, e) /\ rolledBack' \in [Device -> BOOLEAN]
      /\ UNCHANGED <<roomVars, sock>>
    BY DEF AfterRollBack, Inv, Copies, GoodDevices, e
<1> QED
    BY <1>2, <1>3, LocalStep

\* Connecting takes a slot no device has.
LEMMA ConnectStep ==
    ASSUME Inv, NEW d \in Device, NEW s \in Socket, NEW opening \in BOOLEAN,
           Connect(d, s, opening)
    PROVE  Copies'
<1> DEFINE hello == [t |-> "hello", keyHash |-> PlayerOf[d]]
           new == [Engine(d) EXCEPT !.relayTip = -1, !.status = "syncing",
                                    !.connected = TRUE, !.out = <<hello>>]
           e == IF opening THEN WritePrologueEntry(d, new) ELSE new
<1>1. hello \in GoodClientMessage
    BY DeviceAssumption DEF GoodClientMessage
<1> HIDE DEF hello
<1>2. <<hello>> \in Seq(GoodClientMessage)
    BY <1>1
<1>3. GoodEngine(new)
    <2>1. -1 \in Tip /\ "syncing" \in Status
        BY DEF Tip, Status
    <2> DEFINE old == Engine(d)
    <2>2. GoodEngine(old) /\ new = [old EXCEPT !.relayTip = -1, !.status = "syncing",
                                              !.connected = TRUE, !.out = <<hello>>]
        BY EngineGood
    <2> HIDE DEF old, new
    <2> QED
        BY <1>2, <2>1, <2>2 DEF GoodEngine
<1> HIDE DEF new
<1>4. GoodEngine(e)
    BY <1>3, WritePrologueGood
<1> HIDE DEF e
<1>5. /\ sock' = [sock EXCEPT ![d] = s] /\ DeviceOf[s] = d
      /\ dlog' = [dlog EXCEPT ![d] = e.log]
      /\ relayTipSeq' = [relayTipSeq EXCEPT ![d] = e.relayTip]
      /\ status' = [status EXCEPT ![d] = e.status]
      /\ signed' = [signed EXCEPT ![d] = e.signed]
      /\ up' = [up EXCEPT ![s] = e.out]
      /\ UNCHANGED rolledBack
    BY DEF Connect, e, new, hello
<1>6. /\ e.log \in Seq(Good) /\ Linked(e.log) /\ e.relayTip \in Tip
      /\ e.status \in Status /\ e.signed \in Nat /\ e.out \in Seq(GoodClientMessage)
    BY <1>4 DEF GoodEngine
<1>7. GoodDevices'
    BY <1>5, <1>6 DEF Inv, Copies, GoodDevices
<1>8. Accept(s)
    BY DEF Connect
<1>9. GoodRoom'
    <2>1. down' \in [Socket -> Seq(GoodMessage)]
        BY <1>8, EmptySeq DEF Accept, Inv, Copies, GoodRoom
    <2> QED
        BY <1>8, <2>1 DEF Accept, Inv, Copies, GoodRoom, logVars, scheduleVars
<1>10. GoodSockets'
    BY <1>5, <1>8, DeviceAssumption DEF Accept, Inv, Copies, GoodSockets, GoodRoom
<1> QED
    BY <1>7, <1>9, <1>10 DEF Copies

\* A connection that goes is the device's no more.
LEMMA DropStep == ASSUME Inv, NEW d \in Device, Drop(d) PROVE Copies'
<1> DEFINE s == sock[d]
<1>1. s \in Socket /\ s # NoSocket
    BY DEF Drop, Inv, Copies, GoodSockets
<1> HIDE DEF s
<1>2. /\ Vanish(s) /\ sock' = [sock EXCEPT ![d] = NoSocket]
      /\ status' = [status EXCEPT
                    ![d] = IF @ \in {"diverged", "refused"} THEN @ ELSE "offline"]
      /\ UNCHANGED <<dlog, relayTipSeq, rolledBack, signed, up>>
    BY DEF Drop, s
<1>3. GoodRoom'
    <2>1. down' \in [Socket -> Seq(GoodMessage)]
        BY <1>2, EmptySeq DEF Vanish, Inv, Copies, GoodRoom
    <2> QED
        BY <1>2, <2>1 DEF Vanish, Inv, Copies, GoodRoom, logVars, scheduleVars
<1>4. GoodDevices'
    BY <1>2 DEF Inv, Copies, GoodDevices, Status
<1>5. \A c \in Device : c # d /\ sock[c] # NoSocket => sock[c] # s
    BY <1>1 DEF Inv, Copies, GoodSockets, s
<1>6. GoodSockets'
    BY <1>2, <1>5 DEF Vanish, Inv, Copies, GoodSockets
<1> QED
    BY <1>3, <1>4, <1>6 DEF Copies

LEMMA CloseGood == ASSUME Inv, NEW s \in Socket, Close(s) PROVE GoodRoom'
<1>1. down' \in [Socket -> Seq(GoodMessage)]
    BY EmptySeq DEF Close, Inv, Copies, GoodRoom
<1> QED
    BY <1>1 DEF Close, Inv, Copies, GoodRoom, logVars, scheduleVars

LEMMA DisconnectStep == ASSUME Inv, NEW d \in Device, Disconnect(d) PROVE Copies'
<1> DEFINE s == sock[d]
<1>1. s \in Socket /\ s # NoSocket
    BY DEF Disconnect, Quiet, Inv, Copies, GoodSockets
<1> HIDE DEF s
<1>2. /\ Close(s) /\ sock' = [sock EXCEPT ![d] = NoSocket]
      /\ status' = [status EXCEPT ![d] = "idle"]
      /\ UNCHANGED <<dlog, relayTipSeq, rolledBack, signed, up>>
    BY DEF Disconnect, s
<1>3. GoodRoom'
    BY <1>1, <1>2, CloseGood
<1>4. GoodDevices'
    BY <1>2 DEF Inv, Copies, GoodDevices, Status
<1>5. \A c \in Device : c # d /\ sock[c] # NoSocket => sock[c] # s
    BY <1>1 DEF Inv, Copies, GoodSockets, s
<1>6. GoodSockets'
    BY <1>2, <1>5 DEF Close, Inv, Copies, GoodSockets
<1> QED
    BY <1>3, <1>4, <1>6 DEF Copies

LEMMA RoomCloseStep == ASSUME Inv, NEW s \in Socket, RoomClose(s) PROVE Copies'
<1>1. GoodRoom'
    BY CloseGood DEF RoomClose
<1>2. GoodDevices'
    BY EmptySeq DEF RoomClose, engineVars, Inv, Copies, GoodDevices
<1>3. GoodSockets'
    BY DEF RoomClose, Close, Inv, Copies, GoodSockets
<1> QED
    BY <1>1, <1>2, <1>3 DEF Copies
-----------------------------------------------------------------------------
(* What the room does.                                                       *)

LEMMA RoomTyped ==
    ASSUME Inv PROVE RoomTypeOK /\ LogLinked
<1>1. [sock : Socket, entries : Seq(Good)] \subseteq [sock : Socket, entries : Seq(Entry)]
    BY GoodAreEntries
<1>2. down \in [Socket -> Seq(Message)]
    BY MessagesAreMessages DEF Inv, Copies, GoodRoom
<1> QED
    BY <1>1, <1>2, GoodAreEntries DEF Inv, Copies, GoodRoom, RoomTypeOK, LogLinked

LEMMA GoodMessages ==
    /\ Inv => StateMessage \in GoodMessage
    /\ Inv => Appended(TipSeq(log)) \in GoodMessage
    /\ \A b \in Seq(Good) : [t |-> "entries", entries |-> b] \in GoodMessage
    /\ \A c \in ErrorCode : [t |-> "err", code |-> c] \in GoodMessage
<1>1. Inv => StateMessage \in GoodMessage
    BY TipOf DEF Inv, Copies, GoodRoom, StateMessage, GoodMessage
<1>2. Inv => Appended(TipSeq(log)) \in GoodMessage
    BY TipOf DEF Inv, Copies, GoodRoom, Appended, GoodMessage
<1>3. \A b \in Seq(Good) : [t |-> "entries", entries |-> b] \in GoodMessage
    BY DEF GoodMessage
<1>4. \A c \in ErrorCode : [t |-> "err", code |-> c] \in GoodMessage
    BY DEF GoodMessage
<1> QED
    BY <1>1, <1>2, <1>3, <1>4

LEMMA SentGood ==
    ASSUME Inv, NEW s \in Socket, NEW m \in GoodMessage
    PROVE  Sent(s, m) \in [Socket -> Seq(GoodMessage)]
<1>1. down \in [Socket -> Seq(GoodMessage)]
    BY DEF Inv, Copies, GoodRoom
<1>2. Append(down[s], m) \in Seq(GoodMessage)
    BY <1>1, AppendProperties
<1> QED
    BY <1>1, <1>2 DEF Sent

LEMMA FanoutGood ==
    ASSUME Inv, NEW s \in Socket, NEW m \in GoodMessage, NEW b \in Seq(Good)
    PROVE  Fanout(s, b, m) \in [Socket -> Seq(GoodMessage)]
<1>1. down \in [Socket -> Seq(GoodMessage)]
    BY DEF Inv, Copies, GoodRoom
<1> DEFINE handed(r) == IF r = s THEN m ELSE [t |-> "entries", entries |-> b]
<1>2. \A r \in Socket : handed(r) \in GoodMessage
    BY GoodMessages
<1> HIDE DEF handed
<1>3. \A r \in Socket : Append(down[r], handed(r)) \in Seq(GoodMessage)
    BY <1>1, <1>2, AppendProperties
<1>4. Fanout(s, b, m) =
        [r \in Socket |-> IF r \notin open \/ r \in gone THEN down[r]
                          ELSE Append(down[r], handed(r))]
    BY DEF Fanout, handed
<1> QED
    BY <1>1, <1>3, <1>4

\* A handler that only sends.
LEMMA OnlySends ==
    ASSUME Inv, down' \in [Socket -> Seq(GoodMessage)],
           UNCHANGED <<logVars, scheduleVars, open, gone, pushing>>,
           keyHash' \in [Socket -> Participant \cup {NoOne}]
    PROVE  GoodRoom'
    BY DEF Inv, Copies, GoodRoom, logVars, scheduleVars

\* What a committed batch adds are good entries, each on the one before it.
LEMMA CommitGood ==
    ASSUME Inv, NEW s \in Socket, NEW b \in Run, AppendCommit(s, b)
    PROVE  GoodRoom'
<1>1. b \in Seq(Good) /\ b \in Seq(Entry) /\ IsRun(b)
    BY GoodAreEntries DEF Run
<1>2. Linked(log')
    BY <1>1, RoomTyped, CommitLinks DEF LogLinked
<1>3. Staged(b) \in Seq(Good)
    BY <1>1, BeyondGood, LenProperties DEF Staged, Inv, Copies, GoodRoom
<1>4. log' \in Seq(Good)
    BY <1>3, ConcatProperties DEF AppendCommit, Inv, Copies, GoodRoom
<1>5. /\ pushing' = pushing \cup {[sock |-> s, entries |-> b]}
      /\ lastAuthor' = keyHash[s]
      /\ reminderAt' \in BOOLEAN /\ retentionAt' \in BOOLEAN /\ nudging' = nudging
      /\ alarm' \in {"none", "reminder", "retention"}
      /\ UNCHANGED <<tombstone, keyHash, open, gone, down>>
    BY DEF AppendCommit, ScheduleTurnReminder, Earliest, socketVars
<1>6. pushing' \in SUBSET [sock : Socket, entries : Seq(Good)]
    BY <1>1, <1>5 DEF Inv, Copies, GoodRoom
<1> QED
    BY <1>2, <1>4, <1>5, <1>6 DEF Inv, Copies, GoodRoom

LEMMA AppendGood ==
    ASSUME Inv, NEW s \in Socket, NEW b \in Run, OnAppend(s, b)
    PROVE  GoodRoom'
<1>1. CASE AppendUnbound(s, b)
    <2>1. [t |-> "err", code |-> "bad_message"] \in GoodMessage
        BY GoodMessages DEF ErrorCode
    <2>2. down' \in [Socket -> Seq(GoodMessage)]
        BY <1>1, <2>1, SentGood DEF AppendUnbound, Fail
    <2> QED
        BY <1>1, <2>2, OnlySends DEF AppendUnbound, Inv, Copies, GoodRoom
<1>2. CASE AppendRefused(s, b)
    <2>1. [t |-> "err", code |-> Refusal(b)] \in GoodMessage
        BY GoodMessages, RefusalType
    <2>2. down' \in [Socket -> Seq(GoodMessage)]
        BY <1>2, <2>1, SentGood DEF AppendRefused, Fail
    <2> QED
        BY <1>2, <2>2, OnlySends DEF AppendRefused, Inv, Copies, GoodRoom
<1>3. CASE AppendKnown(s, b)
    <2>1. b \in Seq(Good)
        BY DEF Run
    <2>2. down' \in [Socket -> Seq(GoodMessage)]
        BY <1>3, <2>1, GoodMessages, FanoutGood DEF AppendKnown
    <2> QED
        BY <1>3, <2>2, OnlySends DEF AppendKnown, Inv, Copies, GoodRoom
<1>4. CASE AppendCommit(s, b)
    BY <1>4, CommitGood
<1> QED
    BY <1>1, <1>2, <1>3, <1>4 DEF OnAppend

LEMMA RoomReceiveStep == ASSUME Inv, NEW s \in Socket, RoomReceive(s) PROVE Copies'
<1> DEFINE m == Head(up[s])
<1>1. up \in [Socket -> Seq(GoodClientMessage)] /\ up[s] # <<>>
    BY DEF RoomReceive, Inv, Copies, GoodDevices
<1>2. m \in GoodClientMessage /\ Tail(up[s]) \in Seq(GoodClientMessage)
    BY <1>1, HeadTailProperties
<1> HIDE DEF m
<1>3. \/ m.t = "hello" /\ OnHello(s, m.keyHash)
      \/ m.t = "append" /\ OnAppend(s, m.entries)
      \/ m.t = "req" /\ OnReq(s, m.fromSeq)
    BY DEF RoomReceive, m
<1>4. /\ up' = [up EXCEPT ![s] = Tail(@)]
      /\ UNCHANGED <<dlog, relayTipSeq, status, rolledBack, signed, sock>>
    BY DEF RoomReceive, engineVars
<1>5. GoodDevices'
    BY <1>1, <1>2, <1>4 DEF Inv, Copies, GoodDevices
<1>6. GoodRoom' /\ UNCHANGED <<open, gone>>
    <2>1. CASE m.t = "hello" /\ OnHello(s, m.keyHash)
        <3>1. m.keyHash \in Participant
            BY <1>2, <2>1 DEF GoodClientMessage
        <3>2. down' \in [Socket -> Seq(GoodMessage)]
            BY <2>1, GoodMessages, SentGood DEF OnHello
        <3>3. keyHash' \in [Socket -> Participant \cup {NoOne}]
            BY <2>1, <3>1 DEF OnHello, Inv, Copies, GoodRoom
        <3> QED
            BY <2>1, <3>2, <3>3, OnlySends DEF OnHello
    <2>2. CASE m.t = "append" /\ OnAppend(s, m.entries)
        <3>1. m.entries \in Run
            BY <1>2, <2>2 DEF GoodClientMessage
        <3>2. UNCHANGED <<open, gone>>
            BY <2>2 DEF OnAppend, AppendUnbound, AppendRefused, AppendKnown,
                        AppendCommit, socketVars
        <3> QED
            BY <2>2, <3>1, <3>2, AppendGood
    <2>3. CASE m.t = "req" /\ OnReq(s, m.fromSeq)
        <3> DEFINE n == m.fromSeq + 1
        <3>1. n \in Nat \ {0}
            BY <1>2, <2>3 DEF GoodClientMessage
        <3>2. log \in Seq(Good) /\ Len(log) \in Nat
            BY LenProperties DEF Inv, Copies, GoodRoom
        <3> HIDE DEF n
        <3>3. \A i \in n .. Len(log) : log[i] \in Good
            BY <3>1, <3>2, ElementOfSeq
        <3>4. SubSeq(log, n, Len(log)) \in Seq(Good)
            BY <3>1, <3>2, <3>3, SubSeqProperties
        <3>5. down' \in [Socket -> Seq(GoodMessage)]
            BY <2>3, <3>4, GoodMessages, SentGood DEF OnReq, n
        <3> QED
            BY <2>3, <3>5, OnlySends DEF OnReq, Inv, Copies, GoodRoom
    <2> QED
        BY <1>3, <2>1, <2>2, <2>3
<1>7. GoodSockets'
    BY <1>4, <1>6 DEF Inv, Copies, GoodSockets
<1> QED
    BY <1>5, <1>6, <1>7 DEF Copies

LEMMA RoomFinishStep == ASSUME Inv, RoomFinish PROVE Copies'
<1>1. PICK p \in pushing : FinishAppend(p) \/ AbortAppend(p)
    BY DEF RoomFinish
<1>2. p \in [sock : Socket, entries : Seq(Good)]
    BY DEF Inv, Copies, GoodRoom
<1>3. GoodRoom'
    <2>1. down' \in [Socket -> Seq(GoodMessage)]
        <3>1. CASE FinishAppend(p)
            BY <1>2, <3>1, GoodMessages, FanoutGood DEF FinishAppend
        <3>2. CASE AbortAppend(p)
            BY <3>2 DEF AbortAppend, socketVars, Inv, Copies, GoodRoom
        <3> QED
            BY <1>1, <3>1, <3>2
    <2>2. /\ pushing' = pushing \ {p}
          /\ UNCHANGED <<logVars, scheduleVars, keyHash, open, gone>>
        BY <1>1 DEF FinishAppend, AbortAppend, socketVars
    <2> QED
        BY <2>1, <2>2 DEF Inv, Copies, GoodRoom, logVars, scheduleVars
<1>4. GoodDevices' /\ GoodSockets'
    BY <1>1 DEF RoomFinish, engineVars, Inv, Copies, GoodDevices, GoodSockets,
                FinishAppend, AbortAppend, socketVars
<1> QED
    BY <1>3, <1>4 DEF Copies

LEMMA RoomEvictStep == ASSUME Inv, RoomEvict PROVE Copies'
<1>1. Evict /\ UNCHANGED <<engineVars, sock, up>>
    BY DEF RoomEvict
<1>2. log' = <<>> /\ log' \in Seq(Good) /\ Linked(log')
    BY <1>1, EmptySeq DEF Evict, Linked
<1>3. tombstone' \in Hash
    BY <1>1, TipOf DEF Evict, Inv, Copies, GoodRoom
<1>4. GoodRoom'
    BY <1>1, <1>2, <1>3 DEF Evict, socketVars, Inv, Copies, GoodRoom
<1>5. GoodDevices' /\ GoodSockets'
    BY <1>1 DEF Evict, socketVars, engineVars, Inv, Copies, GoodDevices, GoodSockets
<1> QED
    BY <1>4, <1>5 DEF Copies
-----------------------------------------------------------------------------
(* What a device receives.                                                   *)

\* A device that takes a message and becomes a good engine.
LEMMA TakeStep ==
    ASSUME Inv, NEW d \in Device, sock[d] # NoSocket, NEW e, GoodEngine(e),
           Take(d, e), rolledBack' \in [Device -> BOOLEAN]
    PROVE  Copies'
<1> DEFINE s == sock[d]
<1>1. s \in Socket
    BY DEF Inv, Copies, GoodSockets
<1> HIDE DEF s
<1>2. Become(d, e) /\ Delivered(s) /\ UNCHANGED sock
    BY DEF Take, s
<1>3. GoodDevices'
    BY <1>2, BecomeGood
<1>4. GoodRoom'
    <2>1. Tail(down[s]) \in Seq(GoodMessage)
        BY <1>1, <1>2, HeadTailProperties DEF Delivered, Inv, Copies, GoodRoom
    <2>2. down' \in [Socket -> Seq(GoodMessage)]
        BY <1>2, <2>1 DEF Delivered, Inv, Copies, GoodRoom
    <2> QED
        BY <1>2, <2>2 DEF Delivered, Inv, Copies, GoodRoom, logVars, scheduleVars
<1>5. GoodSockets'
    BY <1>2 DEF Delivered, Inv, Copies, GoodSockets
<1> QED
    BY <1>3, <1>4, <1>5 DEF Copies

LEMMA IncomingGood ==
    ASSUME Inv, NEW d \in Device, NEW t, Waiting(d, t)
    PROVE  sock[d] # NoSocket /\ Incoming(d) \in GoodMessage /\ Incoming(d).t = t
<1>1. /\ sock[d] # NoSocket /\ sock[d] \in Socket /\ down[sock[d]] # <<>>
      /\ Incoming(d).t = t
    BY DEF Waiting, Incoming, Inv, Copies, GoodSockets
<1>2. down[sock[d]] \in Seq(GoodMessage)
    BY <1>1 DEF Inv, Copies, GoodRoom
<1> QED
    BY <1>1, <1>2, HeadTailProperties DEF Incoming

\* What a device is told of the room's tip.
LEMMA ToldGood ==
    ASSUME Inv, NEW d \in Device, Waiting(d, "state")
    PROVE  GoodEngine(Told(d)) /\ sock[d] # NoSocket
<1>1. sock[d] # NoSocket /\ Incoming(d).tipSeq \in Tip
    BY IncomingGood DEF GoodMessage
<1> DEFINE e == Engine(d)
           seq == Incoming(d).tipSeq
<1>2. GoodEngine(e) /\ seq \in Tip /\ Told(d) = [e EXCEPT !.relayTip = seq]
    BY <1>1, EngineGood DEF Told
<1> HIDE DEF e, seq
<1> QED
    BY <1>1, <1>2 DEF GoodEngine

LEMMA StatusGood ==
    ASSUME NEW e, GoodEngine(e), NEW st \in Status
    PROVE  GoodEngine([e EXCEPT !.status = st])
    BY DEF GoodEngine

LEMMA StateStep ==
    ASSUME Inv, NEW d \in Device,
           OnStateRefused(d) \/ OnStateAhead(d) \/ OnStateBehind(d) \/ OnStateLevel(d)
    PROVE  Copies'
<1> DEFINE e == Told(d)
<1>1. GoodEngine(e) /\ sock[d] # NoSocket
    BY ToldGood DEF OnStateRefused, OnStateAhead, OnStateBehind, OnStateLevel
<1>2. rolledBack' \in [Device -> BOOLEAN]
    BY DEF OnStateRefused, OnStateAhead, OnStateBehind, OnStateLevel, Inv, Copies, GoodDevices
<1>3. "refused" \in Status /\ "diverged" \in Status
    BY DEF Status
<1> HIDE DEF e
<1>4. CASE OnStateRefused(d)
    <2>1. Take(d, [e EXCEPT !.status = "refused"])
        BY <1>4 DEF OnStateRefused, e
    <2> QED
        BY <1>1, <1>2, <1>3, <2>1, StatusGood, TakeStep
<1>5. CASE OnStateAhead(d)
    <2>1. Take(d, Settle(Flush(e)))
        BY <1>5 DEF OnStateAhead, e
    <2>2. GoodEngine(Settle(Flush(e)))
        BY <1>1, FlushGood, SettleGood
    <2> QED
        BY <1>1, <1>2, <2>1, <2>2, TakeStep
<1>6. CASE OnStateBehind(d)
    <2> DEFINE m == [t |-> "req", fromSeq |-> Len(dlog[d])]
    <2>1. Take(d, Send(e, m))
        BY <1>6 DEF OnStateBehind, e
    <2>2. m \in GoodClientMessage
        BY LenProperties DEF GoodClientMessage, Inv, Copies, GoodDevices
    <2> HIDE DEF m
    <2>3. GoodEngine(Send(e, m))
        BY <1>1, <2>2, SendGood
    <2> QED
        BY <1>1, <1>2, <2>1, <2>3, TakeStep
<1>7. CASE OnStateLevel(d)
    <2> DEFINE f == IF Incoming(d).tipHash = TipHash(dlog[d]) THEN Settle(e)
                    ELSE [e EXCEPT !.status = "diverged"]
    <2>1. Take(d, f)
        BY <1>7 DEF OnStateLevel, e
    <2>2. GoodEngine(Settle(e)) /\ GoodEngine([e EXCEPT !.status = "diverged"])
        BY <1>1, <1>3, SettleGood, StatusGood
    <2>3. GoodEngine(f)
        BY <2>2
    <2> HIDE DEF f
    <2> QED
        BY <1>1, <1>2, <2>1, <2>3, TakeStep
<1> QED
    BY <1>4, <1>5, <1>6, <1>7

\* Of the entries handed to it, a log takes a linked stretch.
LEMMA EntriesStep ==
    ASSUME Inv, NEW d \in Device, OnEntriesRefused(d) \/ OnEntries(d) PROVE Copies'
<1> DEFINE b == Beyond(Incoming(d).entries, Len(dlog[d]))
           k == Taken(dlog[d], b)
           old == Engine(d)
           l == dlog[d] \o SubSeq(b, 1, k)
<1>1. sock[d] # NoSocket /\ Incoming(d).entries \in Seq(Good)
    BY IncomingGood DEF OnEntriesRefused, OnEntries, GoodMessage
<1>2. rolledBack' \in [Device -> BOOLEAN]
    BY DEF OnEntriesRefused, OnEntries, Inv, Copies, GoodDevices
<1>3. dlog[d] \in Seq(Good) /\ Linked(dlog[d]) /\ Len(dlog[d]) \in Nat
    BY LenProperties DEF Inv, Copies, GoodDevices
<1>4. b \in Seq(Good)
    BY <1>1, <1>3, BeyondGood
<1>5. GoodEngine(old) /\ old.log = dlog[d]
    BY EngineGood DEF Engine
<1>6. CASE OnEntriesRefused(d)
    <2>1. Take(d, [old EXCEPT !.log = @ \o SubSeq(b, 1, k), !.status = "refused"])
        BY <1>6 DEF OnEntriesRefused
    <2> HIDE DEF b, k, old
    <2>2. Take(d, [old EXCEPT !.log = l, !.status = "refused"])
        BY <1>5, <2>1 DEF GoodEngine
    <2>3. l \in Seq(Good) /\ Linked(l)
        BY <1>3, <1>4, TakenLinked DEF k
    <2> HIDE DEF l
    <2>4. GoodEngine([old EXCEPT !.log = l, !.status = "refused"])
        BY <1>5, <2>3 DEF GoodEngine, Status
    <2> QED
        BY <1>1, <1>2, <2>2, <2>4, TakeStep
<1>7. CASE OnEntries(d)
    <2> DEFINE got == [old EXCEPT !.log = @ \o b]
               known == Confirm(got, TipSeq(got.log))
               e == IF b = <<>> THEN known ELSE WritePrologueEntry(d, known)
    <2>1. k = Len(b) /\ Take(d, Settle(Flush(e)))
        BY <1>7 DEF OnEntries
    <2> HIDE DEF b, k, old
    <2>2. SubSeq(b, 1, Len(b)) = b
        BY <1>4, SubSeqFull
    <2>3. dlog[d] \o b \in Seq(Good) /\ Linked(dlog[d] \o b)
        <3>1. l \in Seq(Good) /\ Linked(l)
            BY <1>3, <1>4, TakenLinked DEF k
        <3> QED
            BY <2>1, <2>2, <3>1
    <2>4. GoodEngine(got) /\ got.log = dlog[d] \o b
        BY <1>5, <2>3 DEF GoodEngine
    <2>5. TipSeq(got.log) \in Tip
        BY <2>3, <2>4, TipOf
    <2> HIDE DEF got
    <2>6. GoodEngine(known)
        BY <2>4, <2>5, ConfirmGood
    <2> HIDE DEF known
    <2>7. GoodEngine(e)
        BY <2>6, WritePrologueGood
    <2> HIDE DEF e
    <2>8. GoodEngine(Settle(Flush(e)))
        BY <2>7, FlushGood, SettleGood
    <2> QED
        BY <1>1, <1>2, <2>1, <2>8, TakeStep
<1> QED
    BY <1>6, <1>7

LEMMA AppendedStep == ASSUME Inv, NEW d \in Device, OnAppended(d) PROVE Copies'
<1> DEFINE old == Engine(d)
           seq == Incoming(d).tipSeq
           e == IF seq < 0 THEN old ELSE Settle(Flush(Confirm(old, seq)))
<1>1. sock[d] # NoSocket /\ seq \in Tip
    BY IncomingGood DEF OnAppended, GoodMessage
<1>2. Take(d, e) /\ rolledBack' \in [Device -> BOOLEAN]
    BY DEF OnAppended, Inv, Copies, GoodDevices
<1>3. GoodEngine(old)
    BY EngineGood
<1> HIDE DEF old, seq
<1>4. GoodEngine(e)
    BY <1>1, <1>3, ConfirmGood, FlushGood, SettleGood
<1> HIDE DEF e
<1> QED
    BY <1>1, <1>2, <1>4, TakeStep

\* What was confirmed stays; it is a log of its own.
LEMMA RollBackStep == ASSUME Inv, NEW d \in Device, RollBack(d) PROVE Copies'
<1> DEFINE old == Engine(d)
           n == relayTipSeq[d] + 1
           l == SubSeq(dlog[d], 1, n)
           e == [old EXCEPT !.log = l, !.status = "syncing"]
           m == [t |-> "req", fromSeq |-> n]
<1>1. sock[d] # NoSocket
    BY IncomingGood DEF RollBack
<1>2. dlog[d] \in Seq(Good) /\ Linked(dlog[d]) /\ Len(dlog[d]) \in Nat
    BY LenProperties DEF Inv, Copies, GoodDevices
<1>3. n \in Nat /\ n <= Len(dlog[d])
    BY <1>2 DEF RollBack, LostRace, TipSeq, Tip, Inv, Copies, GoodDevices
<1>4. GoodEngine(old) /\ old.log = dlog[d]
    BY EngineGood DEF Engine
<1>5. /\ Take(d, Send([old EXCEPT !.log = SubSeq(@, 1, n), !.status = "syncing"], m))
      /\ rolledBack' \in [Device -> BOOLEAN]
    BY DEF RollBack, Inv, Copies, GoodDevices
<1> HIDE DEF old, n, m
<1>6. [old EXCEPT !.log = SubSeq(@, 1, n), !.status = "syncing"] = e
    BY <1>4 DEF GoodEngine
<1>7. l \in Seq(Good) /\ Linked(l)
    BY <1>2, <1>3, CutLinked
<1> HIDE DEF l
<1>8. GoodEngine(e)
    BY <1>4, <1>7 DEF GoodEngine, Status
<1> HIDE DEF e
<1>9. m \in GoodClientMessage
    BY <1>3 DEF m, GoodClientMessage
<1>10. GoodEngine(Send(e, m)) /\ Take(d, Send(e, m))
    BY <1>5, <1>6, <1>8, <1>9, SendGood
<1> QED
    BY <1>1, <1>5, <1>10, TakeStep

LEMMA ErrorStep == ASSUME Inv, NEW d \in Device, OnError(d) PROVE Copies'
<1>1. sock[d] # NoSocket
    BY IncomingGood DEF OnError
<1>2. GoodEngine([Engine(d) EXCEPT !.status = "refused"])
    <2>1. "refused" \in Status
        BY DEF Status
    <2> QED
        BY <2>1, EngineGood, StatusGood
<1>3. /\ Take(d, [Engine(d) EXCEPT !.status = "refused"])
      /\ rolledBack' \in [Device -> BOOLEAN]
    BY DEF OnError, Inv, Copies, GoodDevices
<1> QED
    BY <1>1, <1>2, <1>3, TakeStep
-----------------------------------------------------------------------------
(* The invariant.                                                            *)

\* The log a game begins with.
LEMMA StartGood ==
    ASSUME NEW h \in Seq(Body), Replays(h), NobodyResigns => ~ResignedBefore(h, Len(h))
    PROVE  LogOf(h) \in Seq(Good) /\ Linked(LogOf(h))
<1> DEFINE l == LogOf(h)
<1>1. Len(h) \in Nat /\ DOMAIN h = 1 .. Len(h)
    BY LenProperties
<1>2. ASSUME NEW n \in 1 .. Len(h)
      PROVE  /\ SubSeq(h, 1, n) \in Seq(Body) /\ Len(SubSeq(h, 1, n)) = n
             /\ \A i \in 1 .. n : SubSeq(h, 1, n)[i] = h[i]
    <2>1. n \in Nat /\ n <= Len(h) /\ 1 <= n + 1
        BY <1>1
    <2>2. /\ SubSeq(h, 1, n) \in Seq(Body) /\ Len(SubSeq(h, 1, n)) = n - 1 + 1
          /\ \A i \in 1 .. (n - 1 + 1) : SubSeq(h, 1, n)[i] = h[1 + i - 1]
        BY <2>1, Stretch
    <2> QED
        BY <2>1, <2>2
<1>3. ASSUME NEW n \in 1 .. Len(h) PROVE SubSeq(h, 1, n) \in Good
    <2> DEFINE g == SubSeq(h, 1, n)
    <2>1. /\ g \in Seq(Body) /\ Len(g) = n /\ DOMAIN g = 1 .. n
          /\ \A i \in 1 .. n : g[i] = h[i]
        BY <1>2, LenProperties
    <2> HIDE DEF g
    <2>2. ASSUME NEW i \in 1 .. n PROVE Replayable(g, i - 1)
        <3>0. i \in DOMAIN h
            BY <1>1
        <3>1. Replayable(h, i - 1)
            BY <3>0 DEF Replays
        <3>2. \A j \in 0 .. i - 1 : BodyAt(g, j) = BodyAt(h, j)
            BY <2>1 DEF BodyAt
        <3>3. i - 1 \in 0 .. i - 1 /\ \A j \in 0 .. ((i - 1) - 1) : j \in 0 .. i - 1
            OBVIOUS
        <3>4. ResignedBefore(g, i - 1) = ResignedBefore(h, i - 1)
            BY <3>2, <3>3 DEF ResignedBefore
        <3>5. BodyAt(g, i - 1) = BodyAt(h, i - 1)
            BY <3>2, <3>3
        <3> QED
            BY <3>1, <3>4, <3>5 DEF Replayable
    <2>3. Replays(g)
        BY <2>1, <2>2 DEF Replays
    <2>4. g # <<>>
        BY <2>1, EmptySeq
    <2>5. ASSUME NobodyResigns, NEW i \in 1 .. n PROVE g[i].kind # "resign"
        <3>1. i - 1 \in 0 .. (Len(h) - 1) /\ (i - 1) + 1 = i
            BY <1>1
        <3>2. BodyAt(h, i - 1).kind # "resign"
            BY <2>5, <3>1 DEF ResignedBefore
        <3> QED
            BY <2>1, <3>1, <3>2 DEF BodyAt
    <2> QED
        BY <2>1, <2>3, <2>4, <2>5 DEF Good, Sound, Entry, g
<1>4. /\ l \in Seq(Good) /\ Len(l) = Len(h) /\ DOMAIN l = 1 .. Len(h)
      /\ \A n \in 1 .. Len(h) : l[n] = SubSeq(h, 1, n)
    <2>1. l = [n \in 1 .. Len(h) |-> SubSeq(h, 1, n)]
        BY DEF LogOf
    <2>2. l \in [1 .. Len(h) -> Good]
        BY <1>3, <2>1
    <2>3. l \in Seq(Good)
        BY <1>1, <2>2, SeqDef
    <2> QED
        BY <1>1, <2>1, <2>2, <2>3, LenProperties
<1> HIDE DEF l
<1>5. ASSUME NEW n \in 1 .. Len(h)
      PROVE  /\ SeqOf(l[n]) = n - 1
             /\ PrevOf(l[n]) = IF n = 1 THEN GenesisPrevHash ELSE HashOf(l[n - 1])
    <2>1. Len(l[n]) = n /\ l[n] = SubSeq(h, 1, n) /\ n \in Nat
        BY <1>1, <1>2, <1>4
    <2>2. SeqOf(l[n]) = n - 1
        BY <2>1 DEF SeqOf
    <2>3. PrevOf(l[n]) = SubSeq(SubSeq(h, 1, n), 1, n - 1)
        BY <2>1 DEF PrevOf
    <2>4. n \in 0 .. Len(h) /\ n - 1 \in 0 .. n
        BY <1>1
    <2>5. PrevOf(l[n]) = SubSeq(h, 1, n - 1)
        BY <2>3, <2>4, CutTwice
    <2>6. CASE n = 1
        <3>1. SubSeq(h, 1, 0) = <<>>
            BY SubSeqEmpty
        <3> QED
            BY <2>2, <2>5, <2>6, <3>1 DEF GenesisPrevHash
    <2>7. CASE n # 1
        <3>1. n - 1 \in 1 .. Len(h)
            BY <1>1, <2>7
        <3> QED
            BY <1>4, <2>2, <2>5, <2>7, <3>1 DEF HashOf
    <2> QED
        BY <2>6, <2>7
<1> QED
    BY <1>4, <1>5 DEF Linked, l

LEMMA InvAtStart == ASSUME SealsAll, Init PROVE Inv
<1> DEFINE l == LogOf(plan.start)
<1>0. /\ plan \in Plans /\ plan.start \in Seq(Body) /\ Replays(plan.start)
      /\ NobodyResigns => ~ResignedBefore(plan.start, Len(plan.start))
    BY PlanAssumption DEF Init, NobodyResigns
<1>1. l \in Seq(Good) /\ Linked(l)
    BY <1>0, StartGood
<1> HIDE DEF l
<1>2. /\ <<>> \in Seq(GoodMessage) /\ <<>> \in Seq(GoodClientMessage)
      /\ GenesisPrevHash \in Hash /\ -1 \in Tip /\ "idle" \in Status
    BY EmptySeq DEF Hash, Tip, Status
<1>3. GoodRoom
    BY <1>1, <1>2 DEF Init, RoomInit, GoodRoom, l
<1>4. GoodDevices
    BY <1>1, <1>2 DEF Init, GoodDevices, l
<1>5. GoodSockets
    BY DEF Init, GoodSockets
<1>6. GoodPlays
    BY <1>0, EmptySeq DEF Init, GoodPlays
<1> QED
    BY <1>3, <1>4, <1>5, <1>6 DEF Inv, Copies

\* Beginning a play changes no copy of the log, and none of the messages.
LEMMA PlayStep == ASSUME Inv, NEW d \in Device, Play(d) PROVE Copies'
    BY DEF Play, roomVars, logVars, scheduleVars, socketVars,
           Inv, Copies, GoodRoom, GoodDevices, GoodSockets

LEMMA StutterStep == ASSUME Inv, UNCHANGED syncVars PROVE Copies'
<1>1. /\ UNCHANGED <<log, tombstone, lastAuthor, reminderAt, retentionAt, alarm, nudging>>
      /\ UNCHANGED <<keyHash, open, gone, down, pushing>>
      /\ UNCHANGED <<dlog, relayTipSeq, status, rolledBack, signed, up, sock>>
    BY DEF syncVars, roomVars, logVars, scheduleVars, socketVars, engineVars
<1>2. GoodRoom'
    BY <1>1 DEF Inv, Copies, GoodRoom
<1>3. GoodDevices' /\ GoodSockets'
    BY <1>1 DEF Inv, Copies, GoodDevices, GoodSockets
<1> QED
    BY <1>2, <1>3 DEF Copies

\* A device takes a message as it is.
LEMMA ReceiveTakes ==
    ASSUME NEW d \in Device, Receive(d) PROVE \E e : Take(d, e)
    BY DEF Receive, OnStateRefused, OnStateAhead, OnStateBehind, OnStateLevel,
           OnEntriesRefused, OnEntries, OnAppended, RollBack, OnError

\* A step begins a play, ends one, or leaves them all; nobody's plan changes.
LEMMA PlayingStep ==
    ASSUME [Next]_syncVars
    PROVE  /\ plan' = plan
           /\ \/ playing' = playing
              \/ \E d \in Device : Play(d) \/ Move(d)
<1> DEFINE Still == plan' = plan /\ playing' = playing
<1>1. ASSUME NEW d \in Device, Connecting(d) \/ Drop(d) \/ Disconnect(d) PROVE Still
    BY <1>1 DEF Connecting, Connect, Drop, Disconnect
<1>2. ASSUME NEW d \in Device, Resign(d) \/ AfterRollBack(d) PROVE Still
    BY <1>2 DEF Resign, AfterRollBack
<1>3. ASSUME NEW d \in Device, Receive(d) PROVE Still
    BY <1>3, ReceiveTakes DEF Take
<1>4. ASSUME NEW s \in Socket, RoomReceive(s) \/ RoomClose(s) PROVE Still
    BY <1>4 DEF RoomReceive, RoomClose, engineVars
<1>5. CASE RoomFinish \/ RoomEvict \/ UNCHANGED syncVars
    BY <1>5 DEF RoomFinish, RoomEvict, syncVars, engineVars
<1>6. ASSUME NEW d \in Device, Play(d) \/ Move(d) PROVE plan' = plan
    BY <1>6 DEF Play, Move
<1> QED
    BY <1>1, <1>2, <1>3, <1>4, <1>5, <1>6 DEF Next

\* It is a device's turn at the end of its log when it begins a play.
LEMMA BegunInTurn ==
    ASSUME Inv, NEW d \in Device, Play(d) PROVE Len(dlog[d]) \in Turns(d)
<1> DEFINE h == TipHash(dlog[d])
<1>1. /\ Len(h) = Len(dlog[d]) /\ Len(dlog[d]) \in Nat /\ h \in Seq(Body)
      /\ NobodyResigns => Sound(h)
    BY TipOf DEF Inv, Copies, GoodDevices
<1>2. Len(dlog[d]) >= 2 /\ ToMove(h) = PlayerOf[d]
    BY DEF Play
<1> HIDE DEF h
<1>3. ASSUME NobodyResigns PROVE ExpectedAuthor(Len(dlog[d])) = PlayerOf[d]
    <2>1. DOMAIN h = 1 .. Len(h)
        BY <1>1, LenProperties
    <2>2. \A i \in 0 .. (Len(h) - 1) : i + 1 \in 1 .. Len(h)
        BY <1>1
    <2>3. ~ResignedBefore(h, Len(h))
        BY <1>1, <1>3, <2>1, <2>2 DEF Sound, ResignedBefore, BodyAt
    <2> QED
        BY <1>1, <1>2, <2>3 DEF ToMove
<1> QED
    BY <1>1, <1>2, <1>3 DEF Turns

LEMMA PlaysKept == ASSUME Inv, [Next]_syncVars PROVE GoodPlays'
<1>1. plan' \in Plans
    BY PlayingStep DEF Inv, GoodPlays
<1>2. /\ playing = [d \in Device |-> playing[d]]
      /\ \A d \in Device : playing[d] \in Seq(Turns(d))
    BY DEF Inv, GoodPlays
<1>3. CASE playing' = playing
    BY <1>1, <1>2, <1>3 DEF GoodPlays, Turns
<1>4. ASSUME NEW d \in Device, NEW q \in Seq(Turns(d)), playing' = [playing EXCEPT ![d] = q]
      PROVE  GoodPlays'
    <2>1. playing' = [c \in Device |-> playing'[c]]
        BY <1>2, <1>4
    <2>2. \A c \in Device : playing'[c] \in Seq(Turns(c))
        BY <1>2, <1>4
    <2> QED
        BY <1>1, <2>1, <2>2 DEF GoodPlays, Turns
<1>5. ASSUME NEW d \in Device, Play(d) PROVE GoodPlays'
    <2>1. playing' = [playing EXCEPT ![d] = Append(playing[d], Len(dlog[d]))]
        BY <1>5 DEF Play
    <2>2. Append(playing[d], Len(dlog[d])) \in Seq(Turns(d))
        BY <1>2, <1>5, BegunInTurn, AppendProperties
    <2> QED
        BY <1>4, <2>1, <2>2
<1>6. ASSUME NEW d \in Device, Move(d) PROVE GoodPlays'
    <2>1. playing' = [playing EXCEPT ![d] = Tail(playing[d])] /\ playing[d] # <<>>
        BY <1>6 DEF Move
    <2>2. Tail(playing[d]) \in Seq(Turns(d))
        BY <1>2, <2>1, HeadTailProperties
    <2> QED
        BY <1>4, <2>1, <2>2
<1> QED
    BY <1>3, <1>5, <1>6, PlayingStep

LEMMA InvKept == ASSUME Inv, [Next]_syncVars PROVE Inv'
<1>1. ASSUME NEW d \in Device, Connecting(d) \/ Drop(d) \/ Disconnect(d) PROVE Copies'
    BY <1>1, ConnectStep, DropStep, DisconnectStep DEF Connecting
<1>2. ASSUME NEW d \in Device, Receive(d) PROVE Copies'
    BY <1>2, StateStep, EntriesStep, AppendedStep, RollBackStep, ErrorStep DEF Receive
<1>3. ASSUME NEW d \in Device, Play(d) \/ Move(d) \/ Resign(d) \/ AfterRollBack(d)
      PROVE  Copies'
    BY <1>3, PlayStep, MoveStep, AfterRollBackStep
<1>4. ASSUME NEW s \in Socket, RoomReceive(s) \/ RoomClose(s) PROVE Copies'
    BY <1>4, RoomReceiveStep, RoomCloseStep
<1>5. ASSUME RoomFinish \/ RoomEvict PROVE Copies'
    BY <1>5, RoomFinishStep, RoomEvictStep
<1>6. ASSUME UNCHANGED syncVars PROVE Copies'
    BY <1>6, StutterStep
<1>7. Copies'
    BY <1>1, <1>2, <1>3, <1>4, <1>5, <1>6 DEF Next
<1>8. GoodPlays'
    BY PlaysKept
<1>9. SealsAll'
    BY DEF Inv, SealsAll
<1> QED
    BY <1>7, <1>8, <1>9 DEF Inv

LEMMA InvAlways == SealsAll /\ Spec => []Inv
<1>1. SealsAll /\ Init => Inv
    BY InvAtStart
<1>2. Inv /\ [Next]_syncVars => Inv'
    BY InvKept
<1> QED
    BY <1>1, <1>2, PTL DEF Spec

\* Every variable of the composition keeps its type, whatever the devices send
\* and in whatever order they and the room handle it, provided a device can
\* seal whatever it has to write.
THEOREM SyncTypes == SealsAll /\ Spec => []SyncTypeOK
<1>1. Inv => SyncTypeOK
    <2> SUFFICES ASSUME Inv PROVE SyncTypeOK
        OBVIOUS
    <2>1. dlog \in [Device -> Seq(Entry)]
        BY GoodAreEntries DEF Inv, Copies, GoodDevices
    <2>2. up \in [Socket -> Seq(ClientMessage)]
        BY MessagesAreMessages DEF Inv, Copies, GoodDevices
    <2>3. playing \in [Device -> Seq(Nat)]
        <3>1. \A d \in Device : Turns(d) \subseteq Nat /\ playing[d] \in Seq(Turns(d))
            BY DEF Turns, Inv, GoodPlays
        <3>2. \A d \in Device : playing[d] \in Seq(Nat)
            BY <3>1, SeqMonotonic
        <3> QED
            BY <3>2 DEF Inv, GoodPlays
    <2> QED
        BY <2>1, <2>2, <2>3 DEF Inv, Copies, GoodDevices, GoodSockets, SyncTypeOK, Tip
<1> QED
    BY <1>1, InvAlways, PTL

\* Where nobody resigns, however plays, races, rollbacks, evictions and lost
\* connections interleave, whatever devices the players have and however hastily
\* they use them: a log is linked, and up to the first move that was sealed for
\* another place than it was signed in, both sessions replay it.
THEOREM OnlyOvertakenAlways == SealsAll /\ NobodyResigns /\ Spec => []OnlyOvertaken
<1>1. ASSUME Inv, NobodyResigns PROVE OnlyOvertaken
    <2>1. ASSUME NEW d \in Device, NEW i \in DOMAIN dlog[d], InPlace(dlog[d][i])
          PROVE  Replays(dlog[d][i])
        <3>1. dlog[d] \in Seq(Good)
            BY <1>1 DEF Inv, Copies, GoodDevices
        <3>2. dlog[d][i] \in Good
            BY <3>1, ElementOfSeq, LenProperties
        <3> QED
            BY <1>1, <2>1, <3>2 DEF Good, Sound
    <2>2. \A d \in Device : Linked(dlog[d])
        BY <1>1 DEF Inv, Copies, GoodDevices
    <2> QED
        BY <2>1, <2>2 DEF OnlyOvertaken
<1>2. NobodyResigns => NobodyResigns'
    BY DEF NobodyResigns
<1> QED
    BY <1>1, <1>2, InvAlways, PTL

\* The room's log stays one chain from genesis when the batches are those that
\* the engines of racing devices send.
THEOREM RoomLogLinked == SealsAll /\ Spec => []LogLinked
<1>1. Inv => LogLinked
    BY RoomTyped
<1> QED
    BY <1>1, InvAlways, PTL

(***************************************************************************)
(* What one step of Sync may do to the logs and to the messages, whichever  *)
(* step it is, and the first property that rests on it: a device shows      *)
(* another's entry only once the room holds it.                             *)
(*                                                                          *)
(* Every entry is signed by one device, and reaches another only through    *)
(* the room's log: the invariant follows it there, into the appends that    *)
(* wait for their push and the messages on their way down, all of which     *)
(* carry entries the room holds, and nothing else.                          *)
(***************************************************************************)

\* The stretches of a log that one append may carry, from its k-th entry on or a
\* later one, are among these messages.
Uploads(l, k, A) ==
    \A m \in Nat \ {0}, n \in Nat :
        k <= m /\ n <= Len(l) /\ n \in {Len(l), m - 1 + MAX_APPEND_ENTRIES} =>
            [t |-> "append", entries |-> SubSeq(l, m, n)] \in A

\* The messages that carry no entries are all among these.
Polite(A) ==
    /\ \A who \in Participant : [t |-> "hello", keyHash |-> who] \in A
    /\ \A n \in Nat : [t |-> "req", fromSeq |-> n] \in A

\* What an engine sends: no entries yet, or stretches of its log from the k-th
\* entry on and nothing else.
Greets(e) == \A A : Polite(A) => e.out \in Seq(A)
SendsItsLog(e, k) == \A A : Polite(A) /\ Uploads(e.log, k, A) => e.out \in Seq(A)

\* What a device would sign next.
Draft(d, kind, at) ==
    [dev |-> d, n |-> signed[d], by |-> PlayerOf[d], kind |-> kind, at |-> at]

\* The entries in the message a device takes next.
Handed(d) ==
    IF Waiting(d, "entries")
    THEN {Incoming(d).entries[i] : i \in DOMAIN Incoming(d).entries} ELSE {}

\* Its log, with some of the entries handed to it.
Grown(d, l) ==
    \E t \in Seq(Handed(d)) : l = dlog[d] \o t /\ l \in Seq(Good) /\ Linked(l)

\* What it signs is sealed for: a move for the sequence its play took, all else for
\* the end of the log, of which the prologue is the first two entries.
Sealed(d, l, kind, at) ==
    CASE kind = "move"   -> Move(d) /\ l = dlog[d] /\ at = Head(playing[d])
      [] kind = "resign" -> d \in plan.resigns /\ at = Len(l)
      [] OTHER           -> Len(l) \in {0, 1} /\ at = Len(l)

\* A log that goes on from another by an entry the device signs.
Signs(d, l, kind, new) ==
    \E at \in Nat :
        /\ kind \in Kind
        /\ Writable(TipHash(l), PlayerOf[d], kind, at)
        /\ Sealed(d, l, kind, at)
        /\ new = Append(l, Signed(l, Draft(d, kind, at)))

\* The log a device is left with, if it takes nothing back.
Lengthens(d, new) ==
    \E l : Grown(d, l) /\ (new = l \/ \E kind : Signs(d, l, kind, new))

\* It takes back what the relay had not confirmed.
Retracts(d, new) ==
    RollBack(d) /\ \E n \in 0 .. Len(dlog[d]) : new = SubSeq(dlog[d], 1, n)

\* It has cause to send its log from the first entry on: it has signed one, or
\* the room has told it that it holds nothing.
Begins(d) ==
    \/ \E l, kind : Grown(d, l) /\ Signs(d, l, kind, dlog'[d])
    \/ OnStateAhead(d) /\ Incoming(d).tipSeq < 0 /\ dlog'[d] = dlog[d]

\* What has been sent stays sent, and more may follow.
SendsMore == \A s \in Socket : \E o \in Seq(GoodClientMessage) : up'[s] = up[s] \o o

\* A step of one device: its log, and what it sends.
DeviceStep(d) ==
    /\ Lengthens(d, dlog'[d]) \/ Retracts(d, dlog'[d])
    /\ \A c \in Device \ {d} : dlog'[c] = dlog[c]
    /\ \A s \in Socket : DeviceOf[s] # d => up'[s] = up[s]
    /\ Connecting(d) \/ SendsMore
    /\ \E k \in {1, 2} :
        /\ k = 1 => Begins(d)
        /\ \A A : Polite(A) /\ Uploads(dlog'[d], k, A) =>
              /\ up \in [Socket -> Seq(A)] => up' \in [Socket -> Seq(A)]
              /\ \A s \in Socket : up[s] \in Seq(A) => up'[s] \in Seq(A)

-----------------------------------------------------------------------------
(* What an engine sends: stretches of the log it is left with.               *)

LEMMA EngineGreets ==
    ASSUME Inv, NEW d \in Device PROVE Greets(Engine(d)) /\ Engine(d).log = dlog[d]
BY EmptySeq DEF Greets, Engine

LEMMA GreetsSendsItsLog == ASSUME NEW e, Greets(e), NEW k PROVE SendsItsLog(e, k)
    BY DEF Greets, SendsItsLog

LEMMA SendSends ==
    ASSUME NEW e, GoodEngine(e), NEW k, SendsItsLog(e, k),
           NEW m, \A A : Polite(A) => m \in A
    PROVE  SendsItsLog(Send(e, m), k) /\ Send(e, m).log = e.log
<1>1. Send(e, m).log = e.log
    BY DEF GoodEngine, Send
<1>2. ASSUME NEW A, Polite(A), Uploads(e.log, k, A) PROVE Send(e, m).out \in Seq(A)
    <2>1. e.out \in Seq(A) /\ m \in A
        BY <1>2 DEF SendsItsLog
    <2>2. Append(e.out, m) \in Seq(A)
        BY <2>1, AppendProperties
    <2> QED
        BY <2>1, <2>2 DEF GoodEngine, Send
<1> QED
    BY <1>1, <1>2 DEF SendsItsLog

LEMMA FlushSends ==
    ASSUME NEW e, GoodEngine(e), NEW k \in {1, 2}, SendsItsLog(e, k),
           k <= e.relayTip + 2 \/ Unconfirmed(e) = <<>>
    PROVE  SendsItsLog(Flush(e), k) /\ Flush(e).log = e.log
<1> DEFINE first == e.relayTip + 2
           last == IF Len(e.log) < first - 1 + MAX_APPEND_ENTRIES
                   THEN Len(e.log) ELSE first - 1 + MAX_APPEND_ENTRIES
           m == [t |-> "append", entries |-> Unconfirmed(e)]
<1>1. e.log \in Seq(Good) /\ e.relayTip \in Tip
    BY DEF GoodEngine
<1>2. first \in Nat \ {0} /\ e.relayTip + 1 = first - 1 /\ e.relayTip \in Int
    BY <1>1 DEF Tip
<1>3. Unconfirmed(e) = SubSeq(e.log, first, last)
    BY <1>2 DEF Unconfirmed
<1>4. k <= first \/ Unconfirmed(e) = <<>>
    OBVIOUS
<1> HIDE DEF first
<1>5. /\ last \in Nat /\ last <= Len(e.log)
      /\ last \in {Len(e.log), first - 1 + MAX_APPEND_ENTRIES}
    BY <1>1, <1>2, LenProperties, DeviceAssumption
<1> HIDE DEF last
<1>6. ASSUME NEW A, Polite(A), Uploads(e.log, k, A) PROVE Flush(e).out \in Seq(A)
    <2>1. e.out \in Seq(A)
        BY <1>6 DEF SendsItsLog
    <2>2. CASE Unconfirmed(e) = <<>>
        BY <2>1, <2>2 DEF Flush
    <2>3. CASE k <= first
        <3>1. m \in A
            BY <1>2, <1>3, <1>5, <1>6, <2>3 DEF Uploads
        <3>2. Append(e.out, m) \in Seq(A)
            BY <2>1, <3>1, AppendProperties
        <3> QED
            BY <2>1, <3>2 DEF GoodEngine, Flush, Send
    <2> QED
        BY <1>4, <2>2, <2>3
<1>7. Flush(e).log = e.log
    BY DEF Flush, Send, GoodEngine
<1> QED
    BY <1>6, <1>7 DEF SendsItsLog

LEMMA SettleSends ==
    ASSUME NEW e, GoodEngine(e), NEW k, SendsItsLog(e, k)
    PROVE  SendsItsLog(Settle(e), k) /\ Settle(e).log = e.log
<1>1. Settle(e).out = e.out /\ Settle(e).log = e.log
    BY DEF GoodEngine, Settle
<1> QED
    BY <1>1 DEF SendsItsLog

LEMMA ConfirmGreets ==
    ASSUME NEW e, GoodEngine(e), Greets(e), NEW seq
    PROVE  Greets(Confirm(e, seq)) /\ Confirm(e, seq).log = e.log
<1>1. Confirm(e, seq).out = e.out /\ Confirm(e, seq).log = e.log
    BY DEF GoodEngine, Confirm
<1> QED
    BY <1>1 DEF Greets

\* Signing an entry: the log once that is done, and what goes out.
LEMMA AppendLocalSends ==
    ASSUME Inv, NEW d \in Device, NEW e, GoodEngine(e), Greets(e), e.signed = signed[d],
           NEW kind \in Kind, NEW at \in Nat,
           Writable(TipHash(e.log), PlayerOf[d], kind, at), Sealed(d, e.log, kind, at)
    PROVE  /\ SendsItsLog(AppendLocal(d, e, kind, at), 1)
           /\ Signs(d, e.log, kind, AppendLocal(d, e, kind, at).log)
<1> DEFINE l == Append(e.log, Signed(e.log, Draft(d, kind, at)))
           n == e.signed + 1
           f == [e EXCEPT !.log = l, !.signed = n]
<1>1. e.log \in Seq(Good) /\ Linked(e.log) /\ e.signed \in Nat /\ n \in Nat
    BY DEF GoodEngine
<1>2. /\ Draft(d, kind, at) \in Body /\ Draft(d, kind, at).by = PlayerOf[d]
      /\ Draft(d, kind, at).kind = kind /\ Draft(d, kind, at).at = at
    BY <1>1 DEF Inv, SealsAll, Draft
<1>3. l \in Seq(Good) /\ Linked(l)
    BY <1>1, <1>2, SignedGood
<1>4. AppendLocal(d, e, kind, at) = Flush(f)
    BY DEF AppendLocal, Draft
<1>5. Signs(d, e.log, kind, l)
    BY DEF Signs
<1> HIDE DEF l, n
<1>6. GoodEngine(f) /\ f.log = l /\ f.out = e.out
    BY <1>1, <1>3 DEF GoodEngine
<1> HIDE DEF f
<1>7. SendsItsLog(f, 1)
    BY <1>6 DEF Greets, SendsItsLog
<1>8. 1 <= f.relayTip + 2
    BY <1>6 DEF GoodEngine, Tip
<1> QED
    BY <1>4, <1>5, <1>6, <1>7, <1>8, FlushSends

\* And writing the prologue's entry, when it is due.
LEMMA WritePrologueSends ==
    ASSUME Inv, NEW d \in Device, NEW e, GoodEngine(e), Greets(e), e.signed = signed[d]
    PROVE  \/ WritePrologueEntry(d, e) = e /\ SendsItsLog(WritePrologueEntry(d, e), 2)
           \/ /\ \E kind : Signs(d, e.log, kind, WritePrologueEntry(d, e).log)
              /\ SendsItsLog(WritePrologueEntry(d, e), 1)
<1>1. CASE WritePrologueEntry(d, e) # e
    <2>1. PICK kind \in {"join", "setup"} :
              /\ Len(e.log) \in {0, 1}
              /\ Writable(TipHash(e.log), PlayerOf[d], kind, Len(e.log))
              /\ WritePrologueEntry(d, e) = AppendLocal(d, e, kind, Len(e.log))
        BY <1>1, PrologueDue
    <2>2. kind \in Kind /\ Len(e.log) \in Nat /\ Sealed(d, e.log, kind, Len(e.log))
        BY <2>1 DEF Kind, Sealed
    <2> QED
        BY <2>1, <2>2, AppendLocalSends
<1>2. CASE WritePrologueEntry(d, e) = e
    BY <1>2, GreetsSendsItsLog
<1> QED
    BY <1>1, <1>2
-----------------------------------------------------------------------------
(* The steps of one device.                                                  *)

LEMMA GrownByNothing ==
    ASSUME Inv, NEW d \in Device PROVE Grown(d, dlog[d])
<1>1. <<>> \in Seq(Handed(d)) /\ dlog[d] \in Seq(Good) /\ Linked(dlog[d])
    BY EmptySeq DEF Inv, Copies, GoodDevices
<1>2. dlog[d] \o <<>> = dlog[d]
    BY <1>1, ConcatEmptySeq
<1> QED
    BY <1>1, <1>2 DEF Grown

\* A log that stays as it is.
LEMMA Stays ==
    ASSUME Inv, NEW d \in Device PROVE Lengthens(d, dlog[d])
    BY GrownByNothing DEF Lengthens

LEMMA SendsNothing ==
    ASSUME Inv, NEW s \in Socket
    PROVE  \E o \in Seq(GoodClientMessage) : up[s] = up[s] \o o
<1>1. up[s] \in Seq(GoodClientMessage) /\ <<>> \in Seq(GoodClientMessage)
    BY EmptySeq DEF Inv, Copies, GoodDevices
<1>2. up[s] \o <<>> = up[s]
    BY <1>1, ConcatEmptySeq
<1> QED
    BY <1>1, <1>2

\* A step that touches neither the logs nor what the devices have sent.
LEMMA IdleStep ==
    ASSUME Inv, NEW d \in Device, UNCHANGED <<dlog, up>> PROVE DeviceStep(d)
<1>1. SendsMore
    BY SendsNothing DEF SendsMore
<1> QED
    BY <1>1, Stays DEF DeviceStep

LEMMA EngineStep ==
    ASSUME Inv, NEW d \in Device, NEW e, GoodEngine(e),
           NEW k \in {1, 2}, SendsItsLog(e, k), k = 1 => Begins(d),
           e.connected => sock[d] # NoSocket, Become(d, e),
           Lengthens(d, e.log) \/ Retracts(d, e.log)
    PROVE  DeviceStep(d)
<1>1. dlog' = [dlog EXCEPT ![d] = e.log]
    BY DEF Become
<1>2. dlog'[d] = e.log /\ \A c \in Device \ {d} : dlog'[c] = dlog[c]
    BY <1>1 DEF Inv, Copies, GoodDevices
<1>3. \/ up' = up
      \/ /\ sock[d] \in Socket /\ DeviceOf[sock[d]] = d
         /\ up' = [up EXCEPT ![sock[d]] = @ \o e.out]
    BY DEF Become, Inv, Copies, GoodSockets
<1>4. up \in [Socket -> Seq(GoodClientMessage)]
    BY DEF Inv, Copies, GoodDevices
<1>5. \A s \in Socket : DeviceOf[s] # d => up'[s] = up[s]
    BY <1>3, <1>4
<1>6. ASSUME NEW A, Polite(A), Uploads(dlog'[d], k, A)
      PROVE  /\ up \in [Socket -> Seq(A)] => up' \in [Socket -> Seq(A)]
             /\ \A s \in Socket : up[s] \in Seq(A) => up'[s] \in Seq(A)
    <2>1. e.out \in Seq(A)
        BY <1>2, <1>6 DEF SendsItsLog
    <2>2. \A s \in Socket : up[s] \in Seq(A) => up[s] \o e.out \in Seq(A)
        BY <2>1, ConcatProperties
    <2>3. \A s \in Socket : up[s] \in Seq(A) => up'[s] \in Seq(A)
        BY <1>3, <1>4, <2>2
    <2>4. up' \in [Socket -> {up'[s] : s \in Socket}]
        BY <1>3, <1>4
    <2> QED
        BY <2>3, <2>4
<1>7. SendsMore
    <2>1. \A s \in Socket : up'[s] = up[s] \/ up'[s] = up[s] \o e.out
        BY <1>3, <1>4
    <2>2. e.out \in Seq(GoodClientMessage)
        BY DEF GoodEngine
    <2> QED
        BY <2>1, <2>2, SendsNothing DEF SendsMore
<1> QED
    BY <1>2, <1>5, <1>6, <1>7 DEF DeviceStep

LEMMA PlayLog == ASSUME Inv, NEW d \in Device, Move(d) \/ Resign(d) PROVE DeviceStep(d)
<1> DEFINE e == Engine(d)
<1>1. /\ GoodEngine(e) /\ e.connected = (sock[d] # NoSocket) /\ e.log = dlog[d]
      /\ e.signed = signed[d] /\ Greets(e)
    BY EngineGood, EngineGreets DEF Engine
<1>2. PICK kind \in {"move", "resign"}, at \in Nat :
          /\ Writable(TipHash(dlog[d]), PlayerOf[d], kind, at)
          /\ Become(d, AppendLocal(d, e, kind, at))
          /\ IF kind = "move" THEN Move(d) /\ at = Head(playing[d])
             ELSE d \in plan.resigns /\ at = Len(dlog[d])
    BY PlayDue
<1>3. kind \in Kind /\ Sealed(d, dlog[d], kind, at)
    BY <1>2 DEF Kind, Sealed
<1> HIDE DEF e
<1>4. /\ GoodEngine(AppendLocal(d, e, kind, at))
      /\ AppendLocal(d, e, kind, at).connected = e.connected
    BY <1>1, <1>2, <1>3, AppendLocalGood
<1>5. /\ SendsItsLog(AppendLocal(d, e, kind, at), 1)
      /\ Signs(d, dlog[d], kind, AppendLocal(d, e, kind, at).log)
    BY <1>1, <1>2, <1>3, AppendLocalSends
<1>6. Lengthens(d, AppendLocal(d, e, kind, at).log)
    BY <1>5, GrownByNothing DEF Lengthens
<1>7. Begins(d)
    <2>1. dlog'[d] = AppendLocal(d, e, kind, at).log
        BY <1>2 DEF Become, Inv, Copies, GoodDevices
    <2> QED
        BY <1>5, <2>1, GrownByNothing DEF Begins
<1> QED
    BY <1>1, <1>2, <1>4, <1>5, <1>6, <1>7, EngineStep

LEMMA AfterRollBackLog == ASSUME Inv, NEW d \in Device, AfterRollBack(d) PROVE DeviceStep(d)
<1> DEFINE e == Engine(d)
           w == WritePrologueEntry(d, e)
<1>1. /\ GoodEngine(e) /\ e.connected = (sock[d] # NoSocket) /\ e.log = dlog[d]
      /\ e.signed = signed[d] /\ Greets(e) /\ Become(d, w)
    BY EngineGood, EngineGreets DEF Engine, AfterRollBack
<1> HIDE DEF e
<1>2. /\ GoodEngine(w) /\ w.connected = e.connected
      /\ \/ w.log = dlog[d] /\ SendsItsLog(w, 2)
         \/ (\E kind : Signs(d, dlog[d], kind, w.log)) /\ SendsItsLog(w, 1)
    BY <1>1, WritePrologueGood, WritePrologueSends
<1> HIDE DEF w
<1>3. Lengthens(d, w.log)
    BY <1>2, GrownByNothing DEF Lengthens
<1>4. dlog'[d] = w.log
    BY <1>1 DEF Become, Inv, Copies, GoodDevices
<1>5. (\E kind : Signs(d, dlog[d], kind, w.log)) => Begins(d)
    BY <1>4, GrownByNothing DEF Begins
<1>6. \E k \in {1, 2} : SendsItsLog(w, k) /\ (k = 1 => Begins(d))
    BY <1>2, <1>5
<1> QED
    BY <1>1, <1>2, <1>3, <1>6, EngineStep

LEMMA ConnectLog ==
    ASSUME Inv, NEW d \in Device, NEW s \in Socket, NEW opening \in BOOLEAN,
           Connect(d, s, opening)
    PROVE  DeviceStep(d)
<1> DEFINE hello == [t |-> "hello", keyHash |-> PlayerOf[d]]
           old == Engine(d)
           new == [old EXCEPT !.relayTip = -1, !.status = "syncing",
                              !.connected = TRUE, !.out = <<hello>>]
           e == IF opening THEN WritePrologueEntry(d, new) ELSE new
<1>1. /\ GoodEngine(old) /\ old.log = dlog[d] /\ old.signed = signed[d]
    BY EngineGood DEF Engine
<1>2. PlayerOf[d] \in Participant /\ hello \in GoodClientMessage
    BY DeviceAssumption DEF GoodClientMessage
<1>3. dlog' = [dlog EXCEPT ![d] = e.log] /\ up' = [up EXCEPT ![s] = e.out]
    BY DEF Connect
<1>4. \A A : Polite(A) => hello \in A
    BY <1>2 DEF Polite
<1> HIDE DEF hello, old
<1>5. <<hello>> \in Seq(GoodClientMessage) /\ \A A : Polite(A) => <<hello>> \in Seq(A)
    BY <1>2, <1>4
<1>6. /\ GoodEngine(new) /\ new.log = dlog[d] /\ new.signed = signed[d] /\ new.out = <<hello>>
    <2>1. -1 \in Tip /\ "syncing" \in Status
        BY DEF Tip, Status
    <2> QED
        BY <1>1, <1>5, <2>1 DEF GoodEngine
<1> HIDE DEF new
<1>7. Greets(new)
    BY <1>5, <1>6 DEF Greets
<1>8. \/ e.log = dlog[d] /\ SendsItsLog(e, 2)
      \/ (\E kind : Signs(d, dlog[d], kind, e.log)) /\ SendsItsLog(e, 1)
    <2>1. CASE opening
        BY <1>6, <1>7, <2>1, WritePrologueSends
    <2>2. CASE ~opening
        BY <1>6, <1>7, <2>2, GreetsSendsItsLog
    <2> QED
        BY <2>1, <2>2
<1> HIDE DEF e
<1>9. dlog'[d] = e.log /\ \A c \in Device \ {d} : dlog'[c] = dlog[c]
    BY <1>3 DEF Inv, Copies, GoodDevices
<1>10. ASSUME NEW k, SendsItsLog(e, k), NEW A, Polite(A), Uploads(dlog'[d], k, A)
       PROVE  /\ up \in [Socket -> Seq(A)] => up' \in [Socket -> Seq(A)]
              /\ \A r \in Socket : up[r] \in Seq(A) => up'[r] \in Seq(A)
    <2>1. e.out \in Seq(A)
        BY <1>9, <1>10 DEF SendsItsLog
    <2> QED
        BY <1>3, <2>1 DEF Inv, Copies, GoodDevices
<1>11. Lengthens(d, e.log) /\ ((\E kind : Signs(d, dlog[d], kind, e.log)) => Begins(d))
    BY <1>8, <1>9, GrownByNothing DEF Lengthens, Begins
<1>12. \E k \in {1, 2} : SendsItsLog(e, k) /\ (k = 1 => Begins(d))
    BY <1>8, <1>11
<1>13. \A r \in Socket : DeviceOf[r] # d => up'[r] = up[r]
    BY <1>3 DEF Connect, Inv, Copies, GoodDevices
<1>14. Connecting(d)
    BY DEF Connecting
<1> QED
    BY <1>9, <1>10, <1>11, <1>12, <1>13, <1>14 DEF DeviceStep

LEMMA TakeLog ==
    ASSUME Inv, NEW d \in Device, NEW t, Waiting(d, t), NEW e, GoodEngine(e),
           NEW k \in {1, 2}, SendsItsLog(e, k), k = 1 => Begins(d),
           Take(d, e), Lengthens(d, e.log) \/ Retracts(d, e.log)
    PROVE  DeviceStep(d)
    BY IncomingGood, EngineStep DEF Take

LEMMA StateLog ==
    ASSUME Inv, NEW d \in Device,
           OnStateRefused(d) \/ OnStateAhead(d) \/ OnStateBehind(d) \/ OnStateLevel(d)
    PROVE  DeviceStep(d)
<1> DEFINE e == Told(d)
           old == Engine(d)
           seq == Incoming(d).tipSeq
<1>1. Waiting(d, "state")
    BY DEF OnStateRefused, OnStateAhead, OnStateBehind, OnStateLevel
<1>2. GoodEngine(e) /\ GoodEngine(old) /\ e = [old EXCEPT !.relayTip = seq]
      /\ Greets(old) /\ old.log = dlog[d]
    BY <1>1, ToldGood, EngineGood, EngineGreets DEF Told
<1> HIDE DEF e, old, seq
<1>3. e.out = old.out /\ e.log = dlog[d]
    BY <1>2 DEF GoodEngine
<1>4. \A k : SendsItsLog(e, k)
    BY <1>2, <1>3 DEF Greets, SendsItsLog
<1>5. \A st \in Status : /\ GoodEngine([e EXCEPT !.status = st])
                         /\ [e EXCEPT !.status = st].log = dlog[d]
                         /\ SendsItsLog([e EXCEPT !.status = st], 2)
    BY <1>2, <1>3, <1>4 DEF GoodEngine, SendsItsLog
<1>6. "refused" \in Status /\ "diverged" \in Status
    BY DEF Status
<1>7. Lengthens(d, dlog[d])
    BY Stays
<1>8. CASE OnStateRefused(d)
    <2>1. Take(d, [e EXCEPT !.status = "refused"])
        BY <1>8 DEF OnStateRefused, e
    <2> DEFINE f == [e EXCEPT !.status = "refused"]
    <2>2. GoodEngine(f) /\ SendsItsLog(f, 2) /\ f.log = dlog[d]
        BY <1>5, <1>6
    <2> HIDE DEF f
    <2>3. Take(d, f)
        BY <2>1 DEF f
    <2> QED
        BY <1>1, <1>7, <2>2, <2>3, TakeLog
<1>9. CASE OnStateAhead(d)
    <2>1. Take(d, Settle(Flush(e)))
        BY <1>9 DEF OnStateAhead, e
    <2>2. GoodEngine(Flush(e)) /\ GoodEngine(Settle(Flush(e)))
        BY <1>2, FlushGood, SettleGood
    <2>3. e.relayTip = seq /\ seq \in Tip
        BY <1>2 DEF GoodEngine
    <2>4. \E k \in {1, 2} : k <= e.relayTip + 2 /\ (k = 1 => seq < 0)
        BY <2>3 DEF Tip
    <2>5. PICK k \in {1, 2} : k <= e.relayTip + 2 /\ (k = 1 => seq < 0)
        BY <2>4
    <2>6. SendsItsLog(Settle(Flush(e)), k) /\ Settle(Flush(e)).log = dlog[d]
        BY <1>2, <1>3, <1>4, <2>2, <2>5, FlushSends, SettleSends
    <2>7. dlog'[d] = dlog[d]
        BY <2>1, <2>6 DEF Take, Become, Inv, Copies, GoodDevices
    <2>8. k = 1 => Begins(d)
        BY <1>9, <2>5, <2>7 DEF Begins, seq
    <2> QED
        BY <1>1, <1>7, <2>1, <2>2, <2>6, <2>8, TakeLog
<1>10. CASE OnStateBehind(d)
    <2> DEFINE m == [t |-> "req", fromSeq |-> Len(dlog[d])]
    <2>1. Take(d, Send(e, m))
        BY <1>10 DEF OnStateBehind, e
    <2>2. Len(dlog[d]) \in Nat
        BY LenProperties DEF Inv, Copies, GoodDevices
    <2>3. m \in GoodClientMessage /\ \A A : Polite(A) => m \in A
        BY <2>2 DEF GoodClientMessage, Polite
    <2> HIDE DEF m
    <2>4. GoodEngine(Send(e, m)) /\ SendsItsLog(Send(e, m), 2) /\ Send(e, m).log = dlog[d]
        BY <1>2, <1>3, <1>4, <2>3, SendGood, SendSends
    <2> QED
        BY <1>1, <1>7, <2>1, <2>4, TakeLog
<1>11. CASE OnStateLevel(d)
    <2>1. \/ Take(d, Settle(e))
          \/ Take(d, [e EXCEPT !.status = "diverged"])
        BY <1>11 DEF OnStateLevel, e
    <2>2. GoodEngine(Settle(e)) /\ SendsItsLog(Settle(e), 2) /\ Settle(e).log = dlog[d]
        BY <1>2, <1>3, <1>4, SettleGood, SettleSends
    <2> DEFINE f == [e EXCEPT !.status = "diverged"]
    <2>3. GoodEngine(f) /\ SendsItsLog(f, 2) /\ f.log = dlog[d]
        BY <1>5, <1>6
    <2> HIDE DEF f
    <2>4. Take(d, Settle(e)) \/ Take(d, f)
        BY <2>1 DEF f
    <2> QED
        BY <1>1, <1>7, <2>2, <2>3, <2>4, TakeLog
<1> QED
    BY <1>8, <1>9, <1>10, <1>11

\* A sequence is one over the values it has.
LEMMA SeqOfItsOwn ==
    ASSUME NEW S, NEW b \in Seq(S)
    PROVE  b \in Seq({b[i] : i \in DOMAIN b})
<1>1. Len(b) \in Nat /\ DOMAIN b = 1 .. Len(b) /\ b = [i \in 1 .. Len(b) |-> b[i]]
    BY LenProperties, SeqDef
<1>2. b \in [1 .. Len(b) -> {b[i] : i \in DOMAIN b}]
    BY <1>1
<1> QED
    BY <1>1, <1>2, SeqDef

\* Once all of a log is confirmed, nothing is left to send.
LEMMA ConfirmedAll ==
    ASSUME NEW e, GoodEngine(e)
    PROVE  Unconfirmed(Confirm(e, TipSeq(e.log))) = <<>>
<1> DEFINE c == Confirm(e, TipSeq(e.log))
           last == IF Len(c.log) < c.relayTip + 1 + MAX_APPEND_ENTRIES
                   THEN Len(c.log) ELSE c.relayTip + 1 + MAX_APPEND_ENTRIES
<1>1. /\ e.log \in Seq(Good) /\ e.relayTip \in Int /\ Len(e.log) \in Nat
      /\ TipSeq(e.log) = Len(e.log) - 1
    BY LenProperties DEF GoodEngine, Tip, TipSeq
<1>2. c.log = e.log /\ c.relayTip \in Int /\ c.relayTip >= Len(e.log) - 1
    BY <1>1 DEF Confirm, GoodEngine
<1>3. Unconfirmed(c) = SubSeq(c.log, c.relayTip + 2, last)
    BY DEF Unconfirmed
<1> HIDE DEF c
<1>4. last \in Int /\ ~(c.relayTip + 2 <= last) /\ c.relayTip + 2 \in Int
    BY <1>1, <1>2, DeviceAssumption
<1> QED
    BY <1>3, <1>4, SubSeqEmpty DEF c

\* Of the entries handed to it, a log takes a linked stretch.
LEMMA EntriesLog ==
    ASSUME Inv, NEW d \in Device, OnEntriesRefused(d) \/ OnEntries(d)
    PROVE  DeviceStep(d)
<1> DEFINE b == Beyond(Incoming(d).entries, Len(dlog[d]))
           k == Taken(dlog[d], b)
           t == SubSeq(b, 1, k)
           l == dlog[d] \o t
           old == Engine(d)
<1>1. Waiting(d, "entries") /\ Incoming(d).entries \in Seq(Good)
    BY IncomingGood DEF OnEntriesRefused, OnEntries, GoodMessage
<1>2. dlog[d] \in Seq(Good) /\ Linked(dlog[d]) /\ Len(dlog[d]) \in Nat
    BY LenProperties DEF Inv, Copies, GoodDevices
<1>3. Incoming(d).entries \in Seq(Handed(d))
    BY <1>1, SeqOfItsOwn DEF Handed
<1>4. b \in Seq(Good) /\ b \in Seq(Handed(d))
    BY <1>1, <1>2, <1>3, GoodAreEntries, BeyondWithin
<1>5. /\ GoodEngine(old) /\ old.log = dlog[d] /\ old.signed = signed[d]
      /\ Greets(old)
    BY EngineGood, EngineGreets DEF Engine
<1> HIDE DEF b, old
<1>6. k \in 0 .. Len(b) /\ l \in Seq(Good) /\ Linked(l)
    BY <1>2, <1>4, TakenLinked
<1>7. t \in Seq(Handed(d))
    <2>1. k \in Nat /\ k <= Len(b) /\ 1 <= k + 1
        BY <1>4, <1>6, LenProperties
    <2> QED
        BY <1>4, <2>1, Stretch
<1>8. Grown(d, l)
    BY <1>6, <1>7 DEF Grown
<1>9. CASE OnEntriesRefused(d)
    <2> DEFINE e == [old EXCEPT !.log = l, !.status = "refused"]
    <2>1. Take(d, [old EXCEPT !.log = @ \o t, !.status = "refused"])
        BY <1>9 DEF OnEntriesRefused, old, b
    <2>2. Take(d, e)
        BY <1>5, <2>1 DEF GoodEngine
    <2> HIDE DEF l
    <2>3. GoodEngine(e) /\ e.out = old.out /\ e.log = l
        BY <1>5, <1>6 DEF GoodEngine, Status
    <2> HIDE DEF e
    <2>4. SendsItsLog(e, 2)
        BY <1>5, <2>3 DEF Greets, SendsItsLog
    <2>5. Lengthens(d, l)
        BY <1>8 DEF Lengthens
    <2> QED
        BY <1>1, <2>2, <2>3, <2>4, <2>5, TakeLog
<1>10. CASE OnEntries(d)
    <2> DEFINE got == [old EXCEPT !.log = @ \o b]
               known == Confirm(got, TipSeq(got.log))
               e == IF b = <<>> THEN known ELSE WritePrologueEntry(d, known)
    <2>1. k = Len(b) /\ Take(d, Settle(Flush(e)))
        BY <1>10 DEF OnEntries, old, b
    <2>2. l = dlog[d] \o b
        BY <1>4, <2>1, SubSeqFull
    <2> HIDE DEF l
    <2>3. GoodEngine(got) /\ got.log = l /\ got.out = old.out /\ got.signed = signed[d]
        BY <1>5, <1>6, <2>2 DEF GoodEngine
    <2>4. TipSeq(got.log) \in Tip /\ Greets(got)
        BY <1>5, <1>6, <2>3, TipOf DEF Greets
    <2> HIDE DEF got
    <2>5. GoodEngine(known) /\ Greets(known) /\ known.log = l
        BY <2>3, <2>4, ConfirmGood, ConfirmGreets
    <2>6. known.signed = signed[d]
        BY <2>3 DEF Confirm, GoodEngine
    <2> HIDE DEF known
    <2>7. GoodEngine(e)
        BY <2>5, WritePrologueGood
    <2>8. \/ e = known /\ SendsItsLog(e, 2)
          \/ (\E kind : Signs(d, l, kind, e.log)) /\ SendsItsLog(e, 1)
        <3>1. CASE b = <<>>
            BY <2>5, <3>1, GreetsSendsItsLog
        <3>2. CASE b # <<>>
            BY <2>5, <2>6, <3>2, WritePrologueSends
        <3> QED
            BY <3>1, <3>2
    <2>9. Unconfirmed(known) = <<>>
        BY <2>3, <2>4, <2>5, ConfirmedAll DEF known
    <2> HIDE DEF e
    <2>10. GoodEngine(Flush(e)) /\ GoodEngine(Settle(Flush(e)))
        BY <2>7, FlushGood, SettleGood
    <2>11. 1 <= e.relayTip + 2
        BY <2>7 DEF GoodEngine, Tip
    <2>12. \/ SendsItsLog(Settle(Flush(e)), 2)
           \/ (\E kind : Signs(d, l, kind, e.log)) /\ SendsItsLog(Settle(Flush(e)), 1)
        BY <2>7, <2>8, <2>9, <2>10, <2>11, FlushSends, SettleSends
    <2>13. Settle(Flush(e)).log = e.log /\ Lengthens(d, e.log)
        <3>1. \E k1 \in {1, 2} : SendsItsLog(e, k1)
                               /\ (k1 <= e.relayTip + 2 \/ Unconfirmed(e) = <<>>)
            BY <2>8, <2>9, <2>11
        <3>2. Settle(Flush(e)).log = e.log
            BY <2>7, <2>10, <3>1, FlushSends, SettleSends
        <3> QED
            BY <1>8, <2>5, <2>8, <3>2 DEF Lengthens
    <2>14. dlog'[d] = e.log
        BY <2>1, <2>13 DEF Take, Become, Inv, Copies, GoodDevices
    <2>15. (\E kind : Signs(d, l, kind, e.log)) => Begins(d)
        BY <1>8, <2>14 DEF Begins
    <2>16. \E k1 \in {1, 2} : SendsItsLog(Settle(Flush(e)), k1) /\ (k1 = 1 => Begins(d))
        BY <2>12, <2>15
    <2> QED
        BY <1>1, <2>1, <2>10, <2>13, <2>16, TakeLog
<1> QED
    BY <1>9, <1>10

LEMMA AppendedLog == ASSUME Inv, NEW d \in Device, OnAppended(d) PROVE DeviceStep(d)
<1> DEFINE old == Engine(d)
           seq == Incoming(d).tipSeq
           c == Confirm(old, seq)
<1>1. Waiting(d, "appended") /\ (seq < 0 \/ seq \in Tip)
    BY IncomingGood DEF OnAppended, GoodMessage
<1>2. Take(d, IF seq < 0 THEN old ELSE Settle(Flush(c)))
    BY DEF OnAppended
<1>3. GoodEngine(old) /\ Greets(old) /\ old.log = dlog[d] /\ Lengthens(d, dlog[d])
    BY EngineGood, EngineGreets, Stays
<1> HIDE DEF old, seq
<1>4. CASE seq < 0
    <2>1. SendsItsLog(old, 2)
        BY <1>3, GreetsSendsItsLog
    <2> QED
        BY <1>1, <1>2, <1>3, <1>4, <2>1, TakeLog
<1>5. CASE ~(seq < 0)
    <2>1. GoodEngine(c) /\ SendsItsLog(c, 2) /\ c.log = dlog[d]
        BY <1>1, <1>3, <1>5, ConfirmGood, ConfirmGreets, GreetsSendsItsLog
    <2>4. 2 <= c.relayTip + 2
        BY <1>1, <1>3, <1>5 DEF Confirm, GoodEngine, Tip
    <2> HIDE DEF c
    <2>2. GoodEngine(Flush(c)) /\ GoodEngine(Settle(Flush(c)))
        BY <2>1, FlushGood, SettleGood
    <2>3. SendsItsLog(Settle(Flush(c)), 2) /\ Settle(Flush(c)).log = dlog[d]
        BY <2>1, <2>2, <2>4, FlushSends, SettleSends
    <2> QED
        BY <1>1, <1>2, <1>3, <1>5, <2>2, <2>3, TakeLog
<1> QED
    BY <1>4, <1>5

LEMMA RollBackLog == ASSUME Inv, NEW d \in Device, RollBack(d) PROVE DeviceStep(d)
<1> DEFINE old == Engine(d)
           n == relayTipSeq[d] + 1
           l == SubSeq(dlog[d], 1, n)
           e == [old EXCEPT !.log = l, !.status = "syncing"]
           m == [t |-> "req", fromSeq |-> n]
<1>1. Waiting(d, "err")
    BY DEF RollBack
<1>2. dlog[d] \in Seq(Good) /\ Linked(dlog[d]) /\ Len(dlog[d]) \in Nat
    BY LenProperties DEF Inv, Copies, GoodDevices
<1>3. n \in 0 .. Len(dlog[d]) /\ n \in Nat
    BY <1>2 DEF RollBack, LostRace, TipSeq, Tip, Inv, Copies, GoodDevices
<1>4. GoodEngine(old) /\ old.log = dlog[d] /\ Greets(old)
    BY EngineGood, EngineGreets
<1>5. Take(d, Send([old EXCEPT !.log = SubSeq(@, 1, n), !.status = "syncing"], m))
    BY DEF RollBack
<1>6. m \in GoodClientMessage /\ \A A : Polite(A) => m \in A
    BY <1>3 DEF GoodClientMessage, Polite
<1>7. l \in Seq(Good) /\ Linked(l) /\ Retracts(d, l)
    BY <1>2, <1>3, CutLinked DEF Retracts
<1> HIDE DEF old, n, m
<1>8. [old EXCEPT !.log = SubSeq(@, 1, n), !.status = "syncing"] = e
    BY <1>4 DEF GoodEngine
<1> HIDE DEF l
<1>9. GoodEngine(e) /\ e.log = l /\ e.out = old.out
    BY <1>4, <1>7 DEF GoodEngine, Status
<1>10. SendsItsLog(e, 2)
    BY <1>4, <1>9 DEF Greets, SendsItsLog
<1> HIDE DEF e
<1>11. GoodEngine(Send(e, m)) /\ SendsItsLog(Send(e, m), 2) /\ Send(e, m).log = l
    BY <1>6, <1>9, <1>10, SendGood, SendSends
<1> QED
    BY <1>1, <1>5, <1>7, <1>8, <1>11, TakeLog

LEMMA ErrorLog == ASSUME Inv, NEW d \in Device, OnError(d) PROVE DeviceStep(d)
<1> DEFINE old == Engine(d)
           e == [old EXCEPT !.status = "refused"]
<1>1. Waiting(d, "err") /\ Take(d, e)
    BY DEF OnError
<1>2. GoodEngine(old) /\ Greets(old) /\ old.log = dlog[d] /\ Lengthens(d, dlog[d])
    BY EngineGood, EngineGreets, Stays
<1> HIDE DEF old
<1>3. GoodEngine(e) /\ e.log = dlog[d] /\ e.out = old.out
    BY <1>2 DEF GoodEngine, Status
<1>4. SendsItsLog(e, 2)
    BY <1>2, <1>3 DEF Greets, SendsItsLog
<1> HIDE DEF e
<1> QED
    BY <1>1, <1>2, <1>3, <1>4, TakeLog
-----------------------------------------------------------------------------
(* Any step.                                                                 *)

\* The room reads what the devices have sent, and forgets what it cannot read.
LEMMA RoomReads ==
    ASSUME Inv, NEW s \in Socket, RoomReceive(s) \/ RoomClose(s),
           NEW A
    PROVE  /\ up \in [Socket -> Seq(A)] => up' \in [Socket -> Seq(A)]
           /\ \A r \in Socket : up[r] \in Seq(A) => up'[r] \in Seq(A)
<1>1. up \in [Socket -> Seq(GoodClientMessage)]
    BY DEF Inv, Copies, GoodDevices
<1>2. PICK q : up' = [up EXCEPT ![s] = q] /\ (q = <<>> \/ (up[s] # <<>> /\ q = Tail(up[s])))
    <2>1. CASE RoomReceive(s)
        <3>1. up' = [up EXCEPT ![s] = Tail(up[s])] /\ up[s] # <<>>
            BY <2>1 DEF RoomReceive
        <3> QED
            BY <3>1
    <2>2. CASE RoomClose(s)
        BY <2>2 DEF RoomClose
    <2> QED
        BY <2>1, <2>2
<1>3. up[s] \in Seq(A) => q \in Seq(A)
    BY <1>2, EmptySeq, HeadTailProperties
<1> QED
    BY <1>1, <1>2, <1>3

\* A step is a device's, or leaves every device's log as it is.
LEMMA WhoseStep ==
    ASSUME Inv, [Next]_syncVars
    PROVE  \/ \E d \in Device : DeviceStep(d)
           \/ /\ UNCHANGED dlog
              /\ \A A : /\ up \in [Socket -> Seq(A)] => up' \in [Socket -> Seq(A)]
                        /\ \A s \in Socket : up[s] \in Seq(A) => up'[s] \in Seq(A)
<1>1. ASSUME NEW d \in Device, Connecting(d) PROVE DeviceStep(d)
    BY <1>1, ConnectLog DEF Connecting
<1>2. ASSUME NEW d \in Device, Receive(d) PROVE DeviceStep(d)
    BY <1>2, StateLog, EntriesLog, AppendedLog, RollBackLog, ErrorLog DEF Receive
<1>3. ASSUME NEW d \in Device, Drop(d) \/ Disconnect(d) \/ Play(d) PROVE DeviceStep(d)
    BY <1>3, IdleStep DEF Drop, Disconnect, Play
<1>4. ASSUME NEW s \in Socket, RoomReceive(s) \/ RoomClose(s)
      PROVE  /\ UNCHANGED dlog
             /\ \A A : /\ up \in [Socket -> Seq(A)] => up' \in [Socket -> Seq(A)]
                       /\ \A r \in Socket : up[r] \in Seq(A) => up'[r] \in Seq(A)
    <2>1. UNCHANGED dlog
        BY <1>4 DEF RoomReceive, RoomClose, engineVars
    <2> QED
        BY <1>4, <2>1, RoomReads
<1>5. CASE RoomFinish \/ RoomEvict \/ UNCHANGED syncVars
    BY <1>5 DEF RoomFinish, RoomEvict, syncVars, engineVars
<1> QED
    BY <1>1, <1>2, <1>3, <1>4, <1>5, PlayLog, AfterRollBackLog DEF Next

\* What any step does to a log.
LEMMA LogStep ==
    ASSUME Inv, [Next]_syncVars, NEW d \in Device
    PROVE  Lengthens(d, dlog'[d]) \/ Retracts(d, dlog'[d])
<1>1. CASE UNCHANGED dlog
    BY <1>1, Stays
<1>2. ASSUME NEW c \in Device, DeviceStep(c)
      PROVE  Lengthens(d, dlog'[d]) \/ Retracts(d, dlog'[d])
    <2>1. CASE c = d
        BY <1>2, <2>1 DEF DeviceStep
    <2>2. CASE c # d
        BY <1>2, <2>2, Stays DEF DeviceStep
    <2> QED
        BY <2>1, <2>2
<1> QED
    BY <1>1, <1>2, WhoseStep

\* No step changes the logs of two devices.
LEMMA OneAtATime ==
    ASSUME Inv, [Next]_syncVars, NEW c \in Device, NEW d \in Device, c # d
    PROVE  dlog'[c] = dlog[c] \/ dlog'[d] = dlog[d]
    BY WhoseStep DEF DeviceStep

\* What is on its way to the room was sent as such, or is a stretch of a log.
LEMMA UpStep ==
    ASSUME Inv, [Next]_syncVars, NEW A, Polite(A), up \in [Socket -> Seq(A)],
           \A d \in Device : Uploads(dlog'[d], 2, A),
           \A d \in Device : Begins(d) => Uploads(dlog'[d], 1, A)
    PROVE  up' \in [Socket -> Seq(A)]
    BY WhoseStep DEF DeviceStep

\* The batch in the append the room reads next from a socket.
Offered(s, b) == up[s] # <<>> /\ Head(up[s]) = [t |-> "append", entries |-> b]

\* Whatever the room may send in one step is among these messages.
RoomSays(A) ==
    /\ StateMessage \in A
    /\ Appended(TipSeq(log)) \in A
    /\ [t |-> "err", code |-> "bad_message"] \in A
    /\ \A n \in Nat \ {0} : [t |-> "entries", entries |-> SubSeq(log, n, Len(log))] \in A
    /\ \A p \in pushing : [t |-> "entries", entries |-> p.entries] \in A
    /\ \A s \in Socket, b \in Run : Offered(s, b) =>
            /\ ~Accepts(b) => [t |-> "err", code |-> Refusal(b)] \in A
            /\ Accepts(b) /\ Staged(b) = <<>> => [t |-> "entries", entries |-> b] \in A

LEMMA SentWithin ==
    ASSUME Inv, NEW A, down \in [Socket -> Seq(A)], NEW s \in Socket, NEW m \in A
    PROVE  Sent(s, m) \in [Socket -> Seq(A)]
<1>1. Append(down[s], m) \in Seq(A)
    BY AppendProperties
<1> QED
    BY <1>1 DEF Sent

LEMMA FanoutWithin ==
    ASSUME Inv, NEW A, down \in [Socket -> Seq(A)], NEW s \in Socket, NEW m \in A, NEW b,
           [t |-> "entries", entries |-> b] \in A
    PROVE  Fanout(s, b, m) \in [Socket -> Seq(A)]
<1> DEFINE handed(r) == IF r = s THEN m ELSE [t |-> "entries", entries |-> b]
<1>1. \A r \in Socket : handed(r) \in A
    OBVIOUS
<1> HIDE DEF handed
<1>2. \A r \in Socket : Append(down[r], handed(r)) \in Seq(A)
    BY <1>1, AppendProperties
<1>3. Fanout(s, b, m) =
        [r \in Socket |-> IF r \notin open \/ r \in gone THEN down[r]
                          ELSE Append(down[r], handed(r))]
    BY DEF Fanout, handed
<1> QED
    BY <1>2, <1>3

\* The first message of a socket, as the room takes it.
LEMMA FirstMessage ==
    ASSUME Inv, NEW s \in Socket, RoomReceive(s)
    PROVE  \/ \E who \in Participant : OnHello(s, who)
           \/ \E b \in Run : Offered(s, b) /\ OnAppend(s, b)
           \/ \E n \in Nat : OnReq(s, n)
<1> DEFINE m == Head(up[s])
<1>1. up \in [Socket -> Seq(GoodClientMessage)] /\ up[s] # <<>>
    BY DEF RoomReceive, Inv, Copies, GoodDevices
<1>2. m \in GoodClientMessage
    BY <1>1, HeadTailProperties
<1>3. \/ m.t = "hello" /\ OnHello(s, m.keyHash)
      \/ m.t = "append" /\ OnAppend(s, m.entries)
      \/ m.t = "req" /\ OnReq(s, m.fromSeq)
    BY DEF RoomReceive
<1> HIDE DEF m
<1>4. CASE m.t = "hello" /\ OnHello(s, m.keyHash)
    BY <1>2, <1>4 DEF GoodClientMessage
<1>5. CASE m.t = "append" /\ OnAppend(s, m.entries)
    <2>1. m.entries \in Run /\ m = [t |-> "append", entries |-> m.entries]
        BY <1>2, <1>5 DEF GoodClientMessage
    <2> QED
        BY <1>1, <1>5, <2>1 DEF Offered, m
<1>6. CASE m.t = "req" /\ OnReq(s, m.fromSeq)
    BY <1>2, <1>6 DEF GoodClientMessage
<1> QED
    BY <1>3, <1>4, <1>5, <1>6

\* What is on its way to the devices was so already, or the room sends it now.
LEMMA DownStep ==
    ASSUME Inv, [Next]_syncVars, NEW A, down \in [Socket -> Seq(A)], RoomSays(A)
    PROVE  down' \in [Socket -> Seq(A)]
<1>1. ASSUME NEW s \in Socket, Accept(s) \/ Vanish(s) \/ Close(s)
      PROVE  down' \in [Socket -> Seq(A)]
    BY <1>1, EmptySeq DEF Accept, Vanish, Close
<1>2. ASSUME NEW s \in Socket, Delivered(s) PROVE down' \in [Socket -> Seq(A)]
    BY <1>2, HeadTailProperties DEF Delivered
<1>3. ASSUME NEW s \in Socket, RoomReceive(s) PROVE down' \in [Socket -> Seq(A)]
    <2>1. ASSUME NEW who \in Participant, OnHello(s, who) PROVE down' \in [Socket -> Seq(A)]
        BY <2>1, SentWithin DEF OnHello, RoomSays
    <2>2. ASSUME NEW b \in Run, Offered(s, b), OnAppend(s, b)
          PROVE  down' \in [Socket -> Seq(A)]
        <3>1. Accepts(b) /\ Staged(b) = <<>> => [t |-> "entries", entries |-> b] \in A
            BY <2>2 DEF RoomSays
        <3>2. ~Accepts(b) => [t |-> "err", code |-> Refusal(b)] \in A
            BY <2>2 DEF RoomSays
        <3>3. CASE AppendUnbound(s, b)
            BY <3>3, SentWithin DEF AppendUnbound, Fail, RoomSays
        <3>4. CASE AppendRefused(s, b)
            BY <3>2, <3>4, SentWithin DEF AppendRefused, Fail
        <3>5. CASE AppendKnown(s, b)
            BY <3>1, <3>5, FanoutWithin DEF AppendKnown, RoomSays
        <3>6. CASE AppendCommit(s, b)
            BY <3>6 DEF AppendCommit, socketVars
        <3> QED
            BY <2>2, <3>3, <3>4, <3>5, <3>6 DEF OnAppend
    <2>3. ASSUME NEW n \in Nat, OnReq(s, n) PROVE down' \in [Socket -> Seq(A)]
        <3>1. n + 1 \in Nat \ {0}
            OBVIOUS
        <3>2. [t |-> "entries", entries |-> SubSeq(log, n + 1, Len(log))] \in A
            BY <3>1 DEF RoomSays
        <3> QED
            BY <2>3, <3>2, SentWithin DEF OnReq
    <2> QED
        BY <1>3, <2>1, <2>2, <2>3, FirstMessage
<1>4. CASE RoomFinish
    <2>1. PICK p \in pushing : FinishAppend(p) \/ AbortAppend(p)
        BY <1>4 DEF RoomFinish
    <2>2. p.sock \in Socket
        BY DEF Inv, Copies, GoodRoom
    <2>3. CASE FinishAppend(p)
        BY <2>2, <2>3, FanoutWithin DEF FinishAppend, RoomSays
    <2>4. CASE AbortAppend(p)
        BY <2>4 DEF AbortAppend, socketVars
    <2> QED
        BY <2>1, <2>3, <2>4
<1>5. CASE RoomEvict \/ UNCHANGED syncVars
    BY <1>5 DEF RoomEvict, Evict, syncVars, roomVars, socketVars
<1>6. ASSUME NEW d \in Device,
             Connecting(d) \/ Drop(d) \/ Disconnect(d) \/ Receive(d)
      PROVE  down' \in [Socket -> Seq(A)]
    <2>1. sock[d] # NoSocket => sock[d] \in Socket
        BY DEF Inv, Copies, GoodSockets
    <2>2. \/ \E s \in Socket : Accept(s)
          \/ sock[d] # NoSocket /\ (Vanish(sock[d]) \/ Close(sock[d]) \/ Delivered(sock[d]))
        BY <1>6 DEF Connecting, Connect, Drop, Disconnect, Quiet, Receive, Take, Waiting,
                    OnStateRefused, OnStateAhead, OnStateBehind, OnStateLevel,
                    OnEntriesRefused, OnEntries, OnAppended, RollBack, OnError
    <2> QED
        BY <1>1, <1>2, <2>1, <2>2
<1>7. ASSUME NEW d \in Device, Play(d) \/ Move(d) \/ Resign(d) \/ AfterRollBack(d)
      PROVE  down' \in [Socket -> Seq(A)]
    BY <1>7 DEF Play, Move, Resign, AfterRollBack, roomVars, socketVars
<1>8. ASSUME NEW s \in Socket, RoomClose(s) PROVE down' \in [Socket -> Seq(A)]
    BY <1>1, <1>8 DEF RoomClose
<1> QED
    BY <1>3, <1>4, <1>5, <1>6, <1>7, <1>8 DEF Next

\* What any step does to the room's copy, and to the appends under way.
LEMMA RoomStep ==
    ASSUME Inv, [Next]_syncVars
    PROVE  \/ UNCHANGED <<log, tombstone, evictions>> /\ pushing' \subseteq pushing
           \/ /\ \E s \in Socket, b \in Run : Offered(s, b) /\ AppendCommit(s, b)
              /\ UNCHANGED evictions
           \/ RoomEvict
<1> DEFINE Quietly == UNCHANGED <<log, tombstone, evictions>> /\ pushing' \subseteq pushing
<1>1. ASSUME NEW s \in Socket, RoomReceive(s)
      PROVE  \/ Quietly
             \/ /\ \E b \in Run : Offered(s, b) /\ AppendCommit(s, b)
                /\ UNCHANGED evictions
    <2>1. UNCHANGED evictions
        BY <1>1 DEF RoomReceive
    <2>2. ASSUME NEW who \in Participant, OnHello(s, who) PROVE Quietly
        BY <2>1, <2>2 DEF OnHello, logVars
    <2>3. ASSUME NEW n \in Nat, OnReq(s, n) PROVE Quietly
        BY <2>1, <2>3 DEF OnReq, logVars
    <2>4. ASSUME NEW b \in Run, AppendUnbound(s, b) \/ AppendRefused(s, b) \/ AppendKnown(s, b)
          PROVE  Quietly
        BY <2>1, <2>4 DEF AppendUnbound, AppendRefused, AppendKnown, logVars
    <2> HIDE DEF Quietly
    <2> QED
        BY <1>1, <2>1, <2>2, <2>3, <2>4, FirstMessage DEF OnAppend
<1>2. CASE RoomFinish
    BY <1>2 DEF RoomFinish, FinishAppend, AbortAppend, logVars
<1>3. ASSUME NEW d \in Device,
             Connecting(d) \/ Drop(d) \/ Disconnect(d) \/ Receive(d)
      PROVE  Quietly
    <2>1. UNCHANGED evictions
        BY <1>3 DEF Connecting, Connect, Drop, Disconnect, Receive, Take,
                    OnStateRefused, OnStateAhead, OnStateBehind, OnStateLevel,
                    OnEntriesRefused, OnEntries, OnAppended, RollBack, OnError
    <2>2. \E s : Accept(s) \/ Vanish(s) \/ Close(s) \/ Delivered(s)
        BY <1>3 DEF Connecting, Connect, Drop, Disconnect, Receive, Take,
                    OnStateRefused, OnStateAhead, OnStateBehind, OnStateLevel,
                    OnEntriesRefused, OnEntries, OnAppended, RollBack, OnError
    <2> QED
        BY <2>1, <2>2 DEF Accept, Vanish, Close, Delivered, logVars
<1>4. ASSUME NEW d \in Device, Play(d) \/ Move(d) \/ Resign(d) \/ AfterRollBack(d)
      PROVE  Quietly
    BY <1>4 DEF Play, Move, Resign, AfterRollBack, roomVars, logVars
<1>5. ASSUME NEW s \in Socket, RoomClose(s) PROVE Quietly
    BY <1>5 DEF RoomClose, Close, logVars
<1>6. CASE UNCHANGED syncVars
    BY <1>6 DEF syncVars, roomVars, logVars
<1> HIDE DEF Quietly
<1>7. CASE Quietly
    BY <1>7 DEF Quietly
<1> QED
    BY <1>1, <1>2, <1>3, <1>4, <1>5, <1>6, <1>7 DEF Next, Quietly
-----------------------------------------------------------------------------
(* Prefixes.                                                                 *)

LEMMA PrefixTransitive ==
    ASSUME NEW f \in Seq(Body), NEW g \in Seq(Body), NEW h \in Seq(Body),
           IsPrefixOf(f, g), IsPrefixOf(g, h)
    PROVE  IsPrefixOf(f, h)
<1>1. Len(f) \in Nat /\ Len(g) \in Nat /\ Len(h) \in Nat
    BY LenProperties
<1>2. /\ Len(f) <= Len(g) /\ Len(g) <= Len(h)
      /\ f = SubSeq(g, 1, Len(f)) /\ g = SubSeq(h, 1, Len(g))
    BY DEF IsPrefixOf
<1>3. Len(g) \in 0 .. Len(h) /\ Len(f) \in 0 .. Len(g)
    BY <1>1, <1>2
<1>4. SubSeq(SubSeq(h, 1, Len(g)), 1, Len(f)) = SubSeq(h, 1, Len(f))
    BY <1>3, CutTwice
<1> QED
    BY <1>1, <1>2, <1>4 DEF IsPrefixOf

LEMMA PrefixReflexive ==
    ASSUME NEW h \in Seq(Body) PROVE IsPrefixOf(h, h) /\ IsPrefixOf(<<>>, h)
<1>1. Len(h) \in Nat /\ SubSeq(h, 1, Len(h)) = h
    BY LenProperties, SubSeqFull
<1>2. Len(<<>>) = 0 /\ SubSeq(h, 1, 0) = <<>>
    BY EmptySeq, SubSeqEmpty
<1> QED
    BY <1>1, <1>2 DEF IsPrefixOf

\* An entry of a linked log is a prefix of the history the log ends in.
LEMMA EntryOfTip ==
    ASSUME NEW l \in Seq(Good), Linked(l), NEW j \in 1 .. Len(l)
    PROVE  /\ l[j] \in Good /\ Len(l[j]) = j
           /\ l[j] = SubSeq(TipHash(l), 1, j) /\ IsPrefixOf(l[j], TipHash(l))
<1>1. l \in Seq(Entry) /\ Len(l) \in Nat /\ DOMAIN l = 1 .. Len(l)
    BY GoodAreEntries, LenProperties
<1>2. l[j] \in Good /\ l[j] \in Entry
    BY ElementOfSeq, GoodAreEntries
<1>3. SeqOf(l[j]) = j - 1 /\ SeqOf(l[j]) = Len(l[j]) - 1 /\ Len(l[j]) \in Nat
    BY <1>1, <1>2, EntryFacts DEF Linked
<1>4. l # <<>> /\ Len(l) \in 1 .. Len(l) /\ j \in 1 .. Len(l)
    BY <1>1, EmptySeq
<1>5. l[j] = SubSeq(l[Len(l)], 1, j) /\ TipHash(l) = l[Len(l)]
    BY <1>1, <1>4, Nested DEF TipHash, HashOf
<1>6. Len(TipHash(l)) = Len(l)
    BY TipOf
<1> QED
    BY <1>1, <1>2, <1>3, <1>4, <1>5, <1>6 DEF IsPrefixOf

\* The tail of a sequence has no other elements.
LEMMA TailWithin ==
    ASSUME NEW S, NEW l \in Seq(S), NEW n \in Nat \ {0}
    PROVE  SubSeq(l, n, Len(l)) \in Seq(S)
<1>1. Len(l) \in Nat /\ \A i \in n .. Len(l) : l[i] \in S
    BY LenProperties, ElementOfSeq
<1> QED
    BY <1>1, SubSeqProperties

\* Every entry of a batch the room accepts is in its log once it has it.
LEMMA AcceptedIsHeld ==
    ASSUME Inv, NEW b \in Run, Accepts(b), NEW k \in DOMAIN b
    PROVE  \E j \in DOMAIN (log \o Staged(b)) : (log \o Staged(b))[j] = b[k]
<1> DEFINE n == Len(log)
           q == SeqOf(b[1])
           t == Staged(b)
<1>1. /\ b \in Seq(Good) /\ b \in Seq(Entry) /\ IsRun(b) /\ DOMAIN b = 1 .. Len(b)
      /\ Len(b) \in Nat /\ n \in Nat /\ log \in Seq(Good) /\ k \in 1 .. Len(b)
    BY GoodAreEntries, LenProperties DEF Run, Inv, Copies, GoodRoom
<1>2. /\ \A i \in 1 .. Len(b) : b[i] \in Entry /\ SeqOf(b[i]) \in Nat /\ SeqOf(b[i]) = q + i - 1
      /\ q \in Nat
    <2>1. \A i \in 1 .. Len(b) : b[i] \in Entry /\ SeqOf(b[i]) \in Nat
        BY <1>1, ElementOfSeq, EntryFacts
    <2>2. 1 \in 1 .. Len(b)
        BY <1>1
    <2> QED
        BY <1>1, <2>1, <2>2 DEF IsRun
<1>3. t \in Seq(Good) /\ Len(t) \in Nat
    BY <1>1, BeyondGood, LenProperties DEF Staged
<1>4. /\ DOMAIN (log \o t) = 1 .. n + Len(t)
      /\ \A i \in 1 .. n + Len(t) : (log \o t)[i] = IF i <= n THEN log[i] ELSE t[i - n]
    BY <1>1, <1>3, ConcatProperties, LenProperties
<1> HIDE DEF n, q
<1>5. CASE SeqOf(b[k]) < n
    <2>1. log[SeqOf(b[k]) + 1] = b[k]
        <3>1. Fits(b, k)
            BY <1>1 DEF Accepts
        <3>2. Expected(b, k).seq >= n
            <4>1. CASE k > 1 /\ SeqOf(b[k - 1]) >= Len(log)
                <5>1. k - 1 \in 1 .. Len(b)
                    BY <1>1, <4>1
                <5>2. SeqOf(b[k - 1]) \in Nat
                    BY <1>2, <5>1
                <5> QED
                    BY <1>1, <4>1, <5>2 DEF Expected, n
            <4>2. CASE ~(k > 1 /\ SeqOf(b[k - 1]) >= Len(log))
                BY <1>1, <4>2 DEF Expected, n
            <4> QED
                BY <4>1, <4>2
        <3>3. SeqOf(b[k]) # Expected(b, k).seq
            <4>1. Expected(b, k).seq \in Int
                <5>1. CASE k > 1 /\ SeqOf(b[k - 1]) >= Len(log)
                    <6>1. k - 1 \in 1 .. Len(b)
                        BY <1>1, <5>1
                    <6>2. SeqOf(b[k - 1]) \in Nat
                        BY <1>2, <6>1
                    <6> QED
                        BY <5>1, <6>2 DEF Expected
                <5>2. CASE ~(k > 1 /\ SeqOf(b[k - 1]) >= Len(log))
                    BY <1>1, <5>2 DEF Expected, n
                <5> QED
                    BY <5>1, <5>2
            <4>2. SeqOf(b[k]) \in Int
                BY <1>1, <1>2
            <4> QED
                BY <1>1, <1>5, <3>2, <4>1, <4>2
        <3> QED
            BY <3>1, <3>3 DEF Fits
    <2>2. SeqOf(b[k]) + 1 \in 1 .. n
        BY <1>1, <1>2, <1>5
    <2> QED
        BY <1>1, <1>3, <1>4, <2>1, <2>2
<1>6. CASE ~(SeqOf(b[k]) < n) /\ n <= q
    <2>1. t = b
        BY <1>6 DEF Staged, Beyond, n, q
    <2>2. n + k \in 1 .. n + Len(t) /\ ~(n + k <= n) /\ (n + k) - n = k
        BY <1>1, <2>1
    <2>3. (log \o t)[n + k] = b[k]
        BY <1>4, <2>1, <2>2
    <2> QED
        BY <1>4, <2>2, <2>3
<1>7. CASE ~(SeqOf(b[k]) < n) /\ ~(n <= q)
    <2> DEFINE m == n - q + 1
    <2>1. t = SubSeq(b, m, Len(b))
        <3>1. b # <<>>
            BY <1>1, EmptySeq
        <3> QED
            BY <1>7, <3>1 DEF Staged, Beyond, n, q
    <2>2. m \in Nat \ {0} /\ m <= k /\ m <= Len(b) + 1
        BY <1>1, <1>2, <1>7
    <2>3. /\ Len(t) = Len(b) - m + 1
          /\ \A i \in 1 .. (Len(b) - m + 1) : t[i] = b[m + i - 1]
        BY <1>1, <2>1, <2>2, Stretch
    <2> HIDE DEF m
    <2> DEFINE i == k - m + 1
    <2>4. i \in 1 .. (Len(b) - m + 1) /\ m + i - 1 = k
        BY <1>1, <2>2
    <2>5. n + i \in 1 .. n + Len(t) /\ ~(n + i <= n) /\ (n + i) - n = i
        BY <1>1, <2>3, <2>4
    <2>6. (log \o t)[n + i] = b[k]
        BY <1>4, <2>3, <2>4, <2>5
    <2> QED
        BY <1>4, <2>5, <2>6
<1> QED
    BY <1>5, <1>6, <1>7
-----------------------------------------------------------------------------
(* Seen is held.                                                             *)

\* The entries the room stores or vouches for, those a device has signed, and
\* the messages that carry no entries but some of these.
HeldEntries == {e \in Good : Held(e)}
SignedBy(d) == {e \in Good : e[Len(e)].dev = d}
Bearing(H)  == {m \in GoodMessage : m.t = "entries" => m.entries \in Seq(H)}

\* While one eviction at most has happened: what leaves the room is held, and a
\* log has nothing but what is held and what its device has signed.
SeenInv ==
    /\ evictions = 0 => tombstone = GenesisPrevHash
    /\ \A p \in pushing : p.entries \in Seq(HeldEntries)
    /\ down \in [Socket -> Seq(Bearing(HeldEntries))]
    /\ \A d \in Device : dlog[d] \in Seq(HeldEntries \cup SignedBy(d))

LEMMA AllWithin ==
    ASSUME NEW S, NEW H, NEW b \in Seq(S), \A k \in DOMAIN b : b[k] \in H
    PROVE  b \in Seq(H)
<1>1. b \in Seq({b[k] : k \in DOMAIN b}) /\ {b[k] : k \in DOMAIN b} \subseteq H
    BY SeqOfItsOwn
<1> QED
    BY <1>1, SeqMonotonic

\* The room's own log is held.
LEMMA LogIsHeld ==
    ASSUME Inv, NEW j \in DOMAIN log PROVE log[j] \in HeldEntries
<1>1. log \in Seq(Good) /\ Linked(log) /\ j \in 1 .. Len(log)
    BY LenProperties DEF Inv, Copies, GoodRoom
<1>2. log[j] \in Good /\ IsPrefixOf(log[j], TipHash(log))
    BY <1>1, EntryOfTip
<1> QED
    BY <1>2 DEF HeldEntries, Held

\* Nothing that is held is lost: an eviction leaves a tombstone that vouches for
\* it, unless an earlier tombstone gives way to it.
LEMMA HeldGrows ==
    ASSUME Inv, [Next]_syncVars, evictions \in Nat, evictions' <= 1,
           evictions = 0 => tombstone = GenesisPrevHash
    PROVE  HeldEntries \subseteq HeldEntries'
<1> SUFFICES ASSUME NEW e \in Good, Held(e) PROVE Held(e)'
    BY DEF HeldEntries, Good
<1>1. e \in Entry /\ e \in Seq(Body) /\ Len(e) \in Nat \ {0}
    BY GoodAreEntries, EntryFacts
<1>2. Inv'
    BY InvKept
<1>3. log \in Seq(Good) /\ Linked(log) /\ log' \in Seq(Good) /\ Linked(log')
    BY <1>2 DEF Inv, Copies, GoodRoom
<1>4. TipHash(log) \in Seq(Body) /\ TipHash(log') \in Seq(Body)
    BY <1>3, TipOf
<1>5. CASE UNCHANGED <<log, tombstone, evictions>>
    BY <1>5 DEF Held
<1>6. ASSUME NEW s \in Socket, NEW b \in Run, AppendCommit(s, b) PROVE Held(e)'
    <2>1. log' = log \o Staged(b) /\ Staged(b) # <<>> /\ UNCHANGED tombstone
        BY <1>6 DEF AppendCommit
    <2>2. log \in Seq(Entry) /\ Staged(b) \in Seq(Entry)
        BY <1>3, GoodAreEntries, StagedType, LenProperties DEF Run, Staged
    <2>3. IsPrefixOf(TipHash(log), TipHash(log'))
        BY <1>3, <2>1, <2>2, TipExtends
    <2>4. IsPrefixOf(e, TipHash(log)) => IsPrefixOf(e, TipHash(log'))
        BY <1>1, <1>4, <2>3, PrefixTransitive
    <2> QED
        BY <2>1, <2>4 DEF Held
<1>7. CASE RoomEvict
    <2>1. /\ tombstone' = IF log = <<>> THEN tombstone ELSE TipHash(log)
          /\ evictions' = evictions + 1
        BY <1>7 DEF RoomEvict, Evict
    <2>2. tombstone = <<>>
        BY <2>1 DEF GenesisPrevHash
    <2>3. ~IsPrefixOf(e, <<>>)
        BY <1>1, EmptySeq DEF IsPrefixOf
    <2>4. IsPrefixOf(e, TipHash(log))
        BY <2>2, <2>3 DEF Held
    <2>5. log # <<>>
        BY <2>3, <2>4 DEF TipHash, GenesisPrevHash
    <2> QED
        BY <2>1, <2>4, <2>5 DEF Held
<1> QED
    BY <1>5, <1>6, <1>7, RoomStep

\* What a device signs is signed by it.
LEMMA SignsItsOwn ==
    ASSUME NEW d \in Device, NEW l \in Seq(Good), Linked(l), NEW kind, NEW new \in Seq(Good),
           Signs(d, l, kind, new)
    PROVE  new \in Seq({l[i] : i \in DOMAIN l} \cup SignedBy(d))
<1> PICK at \in Nat : new = Append(l, Signed(l, Draft(d, kind, at)))
    BY DEF Signs
<1> DEFINE h == TipHash(l)
           body == Draft(d, kind, at)
           g == Append(h, body)
<1>1. h \in Seq(Body) /\ l \in Seq({l[i] : i \in DOMAIN l}) /\ Len(l) \in Nat
    BY TipOf, SeqOfItsOwn, LenProperties
<1>2. new = Append(l, g)
    BY DEF Signed
<1>3. body.dev = d
    BY DEF Draft
<1> HIDE DEF h, body
<1>4. g[Len(g)] = body
    <2>1. h \in Seq(Body \cup {body})
        BY <1>1, SeqMonotonic
    <2>2. Len(h) \in Nat /\ Len(g) = Len(h) + 1 /\ g[Len(h) + 1] = body
        BY <2>1, AppendProperties, LenProperties
    <2> QED
        BY <2>2
<1> HIDE DEF g
<1>5. g \in Good
    <2>1. l \in Seq(Good \cup {g})
        BY SeqMonotonic
    <2>2. Len(new) = Len(l) + 1 /\ new[Len(l) + 1] = g
        BY <1>2, <2>1, AppendProperties
    <2>3. Len(l) + 1 \in 1 .. Len(new)
        BY <1>1, <2>2
    <2> QED
        BY <2>2, <2>3, ElementOfSeq
<1>6. g \in SignedBy(d)
    BY <1>3, <1>4, <1>5 DEF SignedBy
<1>7. l \in Seq({l[i] : i \in DOMAIN l} \cup SignedBy(d))
    BY <1>1, SeqMonotonic
<1> QED
    BY <1>2, <1>6, <1>7, AppendProperties

\* What a log gets it is handed or signs itself.
LEMMA LogWithin ==
    ASSUME Inv, [Next]_syncVars, NEW d \in Device, NEW H,
           dlog[d] \in Seq(H \cup SignedBy(d)), Handed(d) \subseteq H
    PROVE  dlog'[d] \in Seq(H \cup SignedBy(d))
<1> DEFINE S == H \cup SignedBy(d)
<1>1. dlog'[d] \in Seq(Good) /\ dlog[d] \in Seq(S)
    BY InvKept DEF Inv, Copies, GoodDevices
<1> HIDE DEF S
<1>2. CASE Retracts(d, dlog'[d])
    <2>1. PICK n \in 0 .. Len(dlog[d]) : dlog'[d] = SubSeq(dlog[d], 1, n)
        BY <1>2 DEF Retracts
    <2>2. n \in Nat /\ n <= Len(dlog[d]) /\ 1 <= n + 1
        BY <1>1, LenProperties
    <2> QED
        BY <1>1, <2>1, <2>2, Stretch DEF S
<1>3. CASE Lengthens(d, dlog'[d])
    <2>1. PICK l : Grown(d, l) /\ (dlog'[d] = l \/ \E kind : Signs(d, l, kind, dlog'[d]))
        BY <1>3 DEF Lengthens
    <2>2. PICK t \in Seq(Handed(d)) : l = dlog[d] \o t /\ l \in Seq(Good) /\ Linked(l)
        BY <2>1 DEF Grown
    <2>3. t \in Seq(S)
        BY SeqMonotonic DEF S
    <2>4. l \in Seq(S)
        BY <1>1, <2>2, <2>3, ConcatProperties
    <2>5. ASSUME NEW kind, Signs(d, l, kind, dlog'[d]) PROVE dlog'[d] \in Seq(S)
        <3>1. dlog'[d] \in Seq({l[i] : i \in DOMAIN l} \cup SignedBy(d))
            BY <1>1, <2>2, <2>5, SignsItsOwn
        <3>2. \A i \in DOMAIN l : l[i] \in S
            BY <2>4, ElementOfSeq, LenProperties
        <3>3. {l[i] : i \in DOMAIN l} \cup SignedBy(d) \subseteq S
            BY <3>2 DEF S
        <3> QED
            BY <3>1, <3>3, SeqMonotonic
    <2> QED
        BY <2>1, <2>4, <2>5 DEF S
<1> QED
    BY <1>2, <1>3, LogStep

\* The entries a device is handed are carried by the message they are in.
LEMMA HandedWithin ==
    ASSUME Inv, NEW d \in Device, NEW H, down \in [Socket -> Seq(Bearing(H))]
    PROVE  Handed(d) \subseteq H
<1> SUFFICES ASSUME Waiting(d, "entries") PROVE {Incoming(d).entries[i] : i \in DOMAIN Incoming(d).entries} \subseteq H
    BY DEF Handed
<1>1. sock[d] \in Socket /\ down[sock[d]] # <<>> /\ Incoming(d).t = "entries"
    BY DEF Waiting, Incoming, Inv, Copies, GoodSockets
<1>2. down[sock[d]] \in Seq(Bearing(H))
    BY <1>1
<1>3. Incoming(d) \in Bearing(H)
    BY <1>1, <1>2, HeadTailProperties DEF Incoming
<1>4. Incoming(d).entries \in Seq(H)
    BY <1>1, <1>3 DEF Bearing
<1> QED
    BY <1>4, ElementOfSeq, LenProperties

\* Whatever the room says, the entries in it are held.
LEMMA RoomSaysHeld ==
    ASSUME Inv, SeenInv, NEW H, HeldEntries \subseteq H
    PROVE  RoomSays(Bearing(H))
<1>0. log \in Seq(Good) /\ Len(log) \in Nat
    BY LenProperties DEF Inv, Copies, GoodRoom
<1>1. log \in Seq(H)
    BY <1>0, LogIsHeld, AllWithin, SeqMonotonic
<1>2. ASSUME NEW b \in Seq(Good), b \in Seq(H)
      PROVE  [t |-> "entries", entries |-> b] \in Bearing(H)
    BY <1>2, GoodMessages DEF Bearing
<1>3. StateMessage \in Bearing(H) /\ Appended(TipSeq(log)) \in Bearing(H)
    BY GoodMessages DEF Bearing, StateMessage, Appended
<1>4. \A c \in ErrorCode : [t |-> "err", code |-> c] \in Bearing(H)
    BY GoodMessages DEF Bearing
<1>5. ASSUME NEW n \in Nat \ {0}
      PROVE  [t |-> "entries", entries |-> SubSeq(log, n, Len(log))] \in Bearing(H)
    BY <1>0, <1>1, <1>2, TailWithin
<1>6. ASSUME NEW p \in pushing PROVE [t |-> "entries", entries |-> p.entries] \in Bearing(H)
    <2>1. p.entries \in Seq(Good) /\ p.entries \in Seq(HeldEntries)
        BY DEF Inv, Copies, GoodRoom, SeenInv
    <2>2. p.entries \in Seq(H)
        BY <2>1, SeqMonotonic
    <2> QED
        BY <1>2, <2>1, <2>2
<1>7. ASSUME NEW b \in Run, Accepts(b), Staged(b) = <<>>
      PROVE  [t |-> "entries", entries |-> b] \in Bearing(H)
    <2>1. log \o Staged(b) = log /\ b \in Seq(Good)
        BY <1>0, <1>7, ConcatEmptySeq DEF Run
    <2>2. \A k \in DOMAIN b : \E j \in DOMAIN log : log[j] = b[k]
        BY <1>7, <2>1, AcceptedIsHeld
    <2>3. \A k \in DOMAIN b : b[k] \in HeldEntries
        BY <2>2, LogIsHeld
    <2>4. b \in Seq(H)
        BY <2>1, <2>3, AllWithin
    <2> QED
        BY <1>2, <2>1, <2>4
<1>8. \A b \in Run : Refusal(b) \in ErrorCode
    BY RefusalType
<1>9. "bad_message" \in ErrorCode
    BY DEF ErrorCode
<1> QED
    BY <1>3, <1>4, <1>5, <1>6, <1>7, <1>8, <1>9 DEF RoomSays

\* The appends under way once a step is done carry held entries only.
LEMMA PushingHeld ==
    ASSUME Inv, SeenInv, [Next]_syncVars, HeldEntries \subseteq HeldEntries'
    PROVE  \A p \in pushing' : p.entries \in Seq(HeldEntries')
<1> PICK H : H = HeldEntries'
    OBVIOUS
<1>1. \A p \in pushing : p.entries \in Seq(H)
    BY SeqMonotonic DEF SeenInv
<1>2. CASE pushing' \subseteq pushing
    BY <1>1, <1>2
<1>3. ASSUME NEW s \in Socket, NEW b \in Run, AppendCommit(s, b)
      PROVE  \A p \in pushing' : p.entries \in Seq(H)
    <2>1. /\ pushing' = pushing \cup {[sock |-> s, entries |-> b]}
          /\ log' = log \o Staged(b) /\ Accepts(b)
        BY <1>3 DEF AppendCommit
    <2>2. log' \in Seq(Good) /\ Linked(log') /\ b \in Seq(Good)
        BY InvKept DEF Inv, Copies, GoodRoom, Run
    <2>3. ASSUME NEW k \in DOMAIN b PROVE b[k] \in H
        <3>1. PICK j \in DOMAIN log' : log'[j] = b[k]
            BY <2>1, AcceptedIsHeld
        <3>2. j \in 1 .. Len(log')
            BY <2>2, LenProperties
        <3>3. b[k] \in Good /\ IsPrefixOf(b[k], TipHash(log'))
            BY <2>2, <3>1, <3>2, EntryOfTip
        <3> QED
            BY <3>3 DEF HeldEntries, Held
    <2>4. b \in Seq(H)
        BY <2>2, <2>3, AllWithin
    <2> QED
        BY <1>1, <2>1, <2>4
<1>4. CASE RoomEvict
    BY <1>1, <1>4 DEF RoomEvict, Evict
<1> QED
    BY <1>2, <1>3, <1>4, RoomStep

\* The invariant holds as long as no more than one eviction has happened.
LEMMA SeenKept ==
    ASSUME Inv, evictions \in Nat, evictions <= 1 => SeenInv, [Next]_syncVars
    PROVE  evictions' \in Nat /\ (evictions' <= 1 => SeenInv')
<1>1. evictions' \in Nat /\ evictions <= evictions'
    BY RoomStep DEF RoomEvict
<1> SUFFICES ASSUME evictions' <= 1 PROVE SeenInv'
    BY <1>1
<1>2. SeenInv
    BY <1>1
<1>3. HeldEntries \subseteq HeldEntries'
    BY <1>2, HeldGrows DEF SeenInv
<1> PICK H : H = HeldEntries'
    OBVIOUS
<1>4. (evictions = 0 => tombstone = GenesisPrevHash)'
    <2>1. CASE UNCHANGED <<tombstone, evictions>>
        BY <1>2, <2>1 DEF SeenInv
    <2>2. CASE RoomEvict
        BY <2>2 DEF RoomEvict
    <2> QED
        BY <2>1, <2>2, RoomStep DEF AppendCommit
<1>5. down' \in [Socket -> Seq(Bearing(H))]
    <2>1. Bearing(HeldEntries) \subseteq Bearing(H)
        BY <1>3, SeqMonotonic DEF Bearing
    <2>2. down \in [Socket -> Seq(Bearing(HeldEntries))]
        BY <1>2 DEF SeenInv
    <2>3. down \in [Socket -> Seq(Bearing(H))]
        BY <2>1, <2>2, SeqMonotonic
    <2>4. RoomSays(Bearing(H))
        BY <1>2, <1>3, RoomSaysHeld
    <2> QED
        BY <2>3, <2>4, DownStep
<1>6. ASSUME NEW d \in Device PROVE dlog'[d] \in Seq(H \cup SignedBy(d))
    <2>1. dlog[d] \in Seq(HeldEntries \cup SignedBy(d))
        BY <1>2 DEF SeenInv
    <2>2. dlog[d] \in Seq(H \cup SignedBy(d))
        BY <1>3, <2>1, SeqMonotonic
    <2>3. Handed(d) \subseteq HeldEntries
        BY <1>2, HandedWithin DEF SeenInv
    <2> QED
        BY <1>3, <2>2, <2>3, LogWithin
<1>7. \A p \in pushing' : p.entries \in Seq(HeldEntries')
    BY <1>2, <1>3, PushingHeld
<1>8. \A d \in Device : SignedBy(d)' = SignedBy(d)
    BY DEF SignedBy, Good, NobodyResigns
<1> QED
    BY <1>4, <1>5, <1>6, <1>7, <1>8 DEF SeenInv

LEMMA SeenAtStart == ASSUME SealsAll, Init PROVE evictions \in Nat /\ SeenInv
<1>1. Inv /\ log \in Seq(Good) /\ Linked(log)
    BY InvAtStart DEF Inv, Copies, GoodRoom
<1>2. log \in Seq(HeldEntries)
    BY <1>1, LogIsHeld, AllWithin
<1>3. \A d \in Device : dlog[d] = log
    BY DEF Init
<1>4. \A d \in Device : dlog[d] \in Seq(HeldEntries \cup SignedBy(d))
    BY <1>2, <1>3, SeqMonotonic
<1>5. down \in [Socket -> Seq(Bearing(HeldEntries))]
    BY EmptySeq DEF Init, RoomInit
<1> QED
    BY <1>4, <1>5 DEF Init, RoomInit, SeenInv

LEMMA SeenInvMeans == ASSUME Inv, SeenInv PROVE SeenIsHeld
<1> SUFFICES ASSUME NEW d \in Device, NEW i \in DOMAIN dlog[d], dlog[d][i][i].dev # d
             PROVE  Held(dlog[d][i])
    BY DEF SeenIsHeld
<1>1. dlog[d] \in Seq(Good) /\ Linked(dlog[d]) /\ i \in 1 .. Len(dlog[d])
      /\ dlog[d] \in Seq(HeldEntries \cup SignedBy(d))
    BY LenProperties DEF Inv, Copies, GoodDevices, SeenInv
<1>2. Len(dlog[d][i]) = i
    BY <1>1, EntryOfTip
<1>3. dlog[d][i] \in HeldEntries \cup SignedBy(d)
    BY <1>1, ElementOfSeq
<1>4. dlog[d][i] \notin SignedBy(d)
    BY <1>2 DEF SignedBy
<1> QED
    BY <1>3, <1>4 DEF HeldEntries

\* No player ever sees a move that goes back to its maker's rack: what a device
\* shows of another's is in the room, or its tombstone vouches for it, however
\* connections break, devices race and uploads are refused, until the room has
\* been evicted a second time.  (A log that does not go on from what was evicted
\* first may have been stored in between: the second tombstone is then its tip.)
THEOREM SeenIsHeldAlways == SealsAll /\ Spec => [](evictions <= 1 => SeenIsHeld)
<1> DEFINE Seen == evictions \in Nat /\ (evictions <= 1 => SeenInv)
<1>1. SealsAll /\ Init => Seen
    BY SeenAtStart
<1>2. Inv /\ Seen /\ [Next]_syncVars => Seen'
    BY SeenKept
<1>3. Inv /\ Seen => (evictions <= 1 => SeenIsHeld)
    BY SeenInvMeans
<1>4. SealsAll /\ Spec => []Inv
    BY InvAlways
<1> QED
    BY <1>1, <1>2, <1>3, <1>4, PTL DEF Spec
=============================================================================
