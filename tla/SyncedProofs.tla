---------------------------- MODULE SyncedProofs -----------------------------
(***************************************************************************)
(* In a game whose players have one device each, make one move at a time    *)
(* and do not resign, what a device shows as in sync is held by the room,   *)
(* until the room is evicted; and as long as no connection breaks it is all *)
(* the room has, so that the boards agree.                                  *)
(*                                                                          *)
(* A device confirms more than it was told: entries that reach it make it   *)
(* take all of its log for sent (engine.ts onEntries).  So that relayTipSeq  *)
(* is right says nothing, and the invariant follows what is on its way on   *)
(* each connection instead: the greeting, then the answer to it, and from   *)
(* then on appends that take the room from where it is to all the device    *)
(* has.  The other way it is the same: an entry that a device lacks is on   *)
(* its way to it, has been asked for, or waits for a push to end.           *)
(***************************************************************************)
EXTENDS OneLineProofs

\* No entry that a session accepts is too large for the room.
NothingOversized == Oversized \cap Good = {}

\* An append has room for the two entries the initiator writes in a row.
SeveralAtOnce == MAX_APPEND_ENTRIES >= 2

\* What a device sends but the greeting, and what it receives but the answer.
Plain   == {m \in GoodClientMessage : m.t # "hello"}
NoState == {m \in GoodMessage : m.t # "state"}

\* Messages that tell of no more than n entries.
Within(n) ==
    {m \in GoodMessage :
        /\ m.t \in {"state", "appended"} => m.tipSeq < n
        /\ m.t = "state" => m.tombstone = GenesisPrevHash
        /\ m.t = "entries" => m.entries \in Run}

\* Of the first l entries, those the other player writes are among the first t.
TheirsUpTo(d, l, t) ==
    \A j \in 1 .. l : ExpectedAuthor(j - 1) # PlayerOf[d] => j <= t

\* An append that takes a log of a entries to one of b at least.
Bridges(m, a, b) ==
    /\ m.t = "append" /\ m.entries # <<>>
    /\ SeqOf(m.entries[1]) <= a /\ b <= SeqOf(m.entries[1]) + Len(m.entries)

\* Once the room, with n entries, has read these messages it has l.
Covers(u, n, l) ==
    \/ l <= n
    \/ \E i \in DOMAIN u : Bridges(u[i], n, l)
    \/ l = n + 2 /\ \E i, k \in DOMAIN u :
                        i < k /\ Bridges(u[i], n, n + 1) /\ Bridges(u[k], n + 1, l)

Asks(u, dn) ==
    /\ u # <<>> /\ Head(u).t = "hello" /\ Tail(u) \in Seq(Plain)
    /\ dn \in Seq(NoState)

\* The state the i-th message tells of is the only one.
TellsAt(d, dn, i, l) ==
    /\ dn[i].t = "state"
    /\ \A j \in DOMAIN dn : dn[j].t = "state" => j = i
    /\ \A j \in 1 .. (i - 1) : dn[j].t = "entries" =>
            \A x \in DOMAIN dn[j].entries : Len(dn[j].entries[x]) <= dn[i].tipSeq + 1
    /\ TheirsUpTo(d, l, dn[i].tipSeq + 1)

Learns(d, u, dn, l) == u \in Seq(Plain) /\ \E i \in DOMAIN dn : TellsAt(d, dn, i, l)

Sure(d, u, l, r, n) ==
    /\ r + 1 <= n \/ r + 1 <= l
    /\ TheirsUpTo(d, l, r + 1)
    /\ Covers(u, n, l)

Knows(d, u, dn, l, r, n) == u \in Seq(Plain) /\ dn \in Seq(NoState) /\ Sure(d, u, l, r, n)

Phase(d, u, dn, k, l, r, n) ==
    \/ Asks(u, dn)
    \/ k # NoOne /\ (Learns(d, u, dn, l) \/ Knows(d, u, dn, l, r, n))

Heard ==
    /\ \A p \in pushing : p.entries \in Run
    /\ down \in [Socket -> Seq(Within(Len(log)))]
    /\ \A d \in Device : TheirsUpTo(d, Len(dlog[d]), Len(log))

InPhase(d) ==
    sock[d] # NoSocket =>
        Phase(d, up[sock[d]], down[sock[d]], keyHash[sock[d]],
              Len(dlog[d]), relayTipSeq[d], Len(log))

Connected == Heard /\ \A d \in Device : InPhase(d)
-----------------------------------------------------------------------------
(* What the room has once it has read a device's messages.                   *)

LEMMA BridgeFacts ==
    ASSUME NEW m \in GoodClientMessage, m.t = "append", m.entries # <<>>
    PROVE  /\ m.entries \in Run /\ SeqOf(m.entries[1]) \in Nat /\ Len(m.entries) \in Nat \ {0}
           /\ m.entries[1] \in Good /\ 1 \in DOMAIN m.entries
<1>1. m.entries \in Run
    BY DEF GoodClientMessage
<1>2. m.entries \in Seq(Good) /\ 1 \in DOMAIN m.entries /\ Len(m.entries) \in Nat \ {0}
    BY <1>1, LenProperties, EmptySeq DEF Run
<1>3. m.entries[1] \in Good
    BY <1>2, ElementOfSeq
<1>4. SeqOf(m.entries[1]) \in Nat
    BY <1>3, LenProperties, EmptySeq DEF Good, Entry, SeqOf
<1> QED
    BY <1>1, <1>2, <1>3, <1>4

\* A bridge to where the room is or beyond, from there.
LEMMA BridgeFromLater ==
    ASSUME NEW m \in GoodClientMessage, NEW a \in Nat, NEW b \in Nat, NEW c \in Nat,
           Bridges(m, a, b), a <= c
    PROVE  Bridges(m, c, b)
    BY BridgeFacts DEF Bridges

LEMMA CoversMore ==
    ASSUME NEW u \in Seq(GoodClientMessage), NEW o \in Seq(GoodClientMessage),
           NEW n \in Nat, NEW l \in Nat, Covers(u, n, l)
    PROVE  Covers(u \o o, n, l)
<1>1. \A i \in DOMAIN u : i \in DOMAIN (u \o o) /\ (u \o o)[i] = u[i]
    BY ConcatProperties, LenProperties
<1> QED
    BY <1>1 DEF Covers

LEMMA CoversFromLater ==
    ASSUME NEW u \in Seq(GoodClientMessage), NEW n \in Nat, NEW l \in Nat, Covers(u, n, l),
           NEW m \in Nat, n <= m
    PROVE  Covers(u, m, l)
<1>1. \A i \in DOMAIN u : u[i] \in GoodClientMessage
    BY ElementOfSeq, LenProperties
<1>2. CASE l <= n
    BY <1>2 DEF Covers
<1>3. CASE \E i \in DOMAIN u : Bridges(u[i], n, l)
    BY <1>1, <1>3, BridgeFromLater DEF Covers
<1>4. CASE /\ l = n + 2
           /\ \E i, k \in DOMAIN u :
                 i < k /\ Bridges(u[i], n, n + 1) /\ Bridges(u[k], n + 1, l)
    <2>1. PICK k \in DOMAIN u : Bridges(u[k], n + 1, l)
        BY <1>4
    <2>2. CASE m = n
        BY <1>4, <2>2 DEF Covers
    <2>3. CASE m > n
        <3>1. n + 1 \in Nat /\ n + 1 <= m
            BY <2>3
        <3>2. Bridges(u[k], m, l)
            BY <1>1, <2>1, <3>1, BridgeFromLater
        <3> QED
            BY <3>2 DEF Covers
    <2> QED
        BY <2>2, <2>3
<1> QED
    BY <1>2, <1>3, <1>4 DEF Covers

\* The room has read the first message, and has all it bridges to.
LEMMA CoversTail ==
    ASSUME NEW u \in Seq(GoodClientMessage), u # <<>>, NEW n \in Nat, NEW l \in Nat,
           Covers(u, n, l), NEW m \in Nat, n <= m,
           \A b \in Nat : Bridges(Head(u), n, b) => b <= m
    PROVE  Covers(Tail(u), m, l)
<1> DEFINE w == Tail(u)
<1>1. \A i \in DOMAIN u : u[i] \in GoodClientMessage
    BY ElementOfSeq, LenProperties
<1>2. /\ Head(u) = u[1] /\ w \in Seq(GoodClientMessage)
      /\ \A i \in DOMAIN u : i # 1 => i - 1 \in DOMAIN w /\ u[i] = w[i - 1] /\ i \in Nat
    BY HeadTailProperties, LenProperties
<1>3. \A i \in DOMAIN w : w[i] \in GoodClientMessage
    BY <1>2, ElementOfSeq, LenProperties
<1> HIDE DEF w
<1>4. CASE l <= n
    BY <1>4 DEF Covers
<1>5. CASE \E i \in DOMAIN u : Bridges(u[i], n, l)
    <2>1. PICK i \in DOMAIN u : Bridges(u[i], n, l)
        BY <1>5
    <2>2. CASE i = 1
        BY <1>2, <2>1, <2>2 DEF Covers
    <2>3. CASE i # 1
        <3>1. Bridges(w[i - 1], m, l) /\ i - 1 \in DOMAIN w
            BY <1>2, <1>3, <2>1, <2>3, BridgeFromLater
        <3> QED
            BY <3>1 DEF Covers, w
    <2> QED
        BY <2>2, <2>3
<1>6. CASE /\ l = n + 2
           /\ \E i, k \in DOMAIN u :
                 i < k /\ Bridges(u[i], n, n + 1) /\ Bridges(u[k], n + 1, l)
    <2>1. PICK i \in DOMAIN u, k \in DOMAIN u :
             i < k /\ Bridges(u[i], n, n + 1) /\ Bridges(u[k], n + 1, l)
        BY <1>6
    <2>2. k # 1 /\ k \in Nat /\ i \in Nat
        BY <2>1, LenProperties
    <2>3. k - 1 \in DOMAIN w /\ Bridges(w[k - 1], n + 1, l)
        BY <1>2, <2>1, <2>2
    <2>4. CASE n + 1 <= m
        <3>1. Bridges(w[k - 1], m, l)
            BY <1>3, <2>3, <2>4, BridgeFromLater
        <3> QED
            BY <2>3, <3>1 DEF Covers, w
    <2>5. CASE m = n
        <3>1. i # 1
            BY <1>2, <2>1, <2>5
        <3>2. i - 1 \in DOMAIN w /\ Bridges(w[i - 1], n, n + 1) /\ i - 1 < k - 1
            BY <1>2, <2>1, <2>2, <3>1
        <3> QED
            BY <1>6, <2>3, <2>5, <3>2 DEF Covers, w
    <2> QED
        BY <2>4, <2>5
<1> QED
    BY <1>4, <1>5, <1>6 DEF Covers

\* A message further back that bridges all there is left.
LEMMA CoversSent ==
    ASSUME NEW u \in Seq(GoodClientMessage), NEW o \in Seq(GoodClientMessage),
           NEW n \in Nat, NEW l \in Nat, NEW i \in DOMAIN o, Bridges(o[i], n, l)
    PROVE  Covers(u \o o, n, l)
<1>1. Len(u) + i \in DOMAIN (u \o o) /\ (u \o o)[Len(u) + i] = o[i]
    BY ConcatProperties, LenProperties
<1> QED
    BY <1>1 DEF Covers

\* One that takes the room to one more entry than those before it do.
LEMMA CoversNext ==
    ASSUME NEW u \in Seq(GoodClientMessage), NEW o \in Seq(GoodClientMessage),
           NEW n \in Nat, NEW l \in Nat, n <= l, l <= n + 1, Covers(u, n, l),
           NEW i \in DOMAIN o, Bridges(o[i], l, l + 1)
    PROVE  Covers(u \o o, n, l + 1)
<1>1. CASE l = n
    BY <1>1, CoversSent
<1>2. CASE l = n + 1
    <2>1. PICK j \in DOMAIN u : Bridges(u[j], n, n + 1)
        BY <1>2 DEF Covers
    <2>2. /\ Len(u) + i \in DOMAIN (u \o o) /\ (u \o o)[Len(u) + i] = o[i]
          /\ j \in DOMAIN (u \o o) /\ (u \o o)[j] = u[j] /\ j < Len(u) + i
        BY ConcatProperties, LenProperties
    <2>3. l + 1 = n + 2
        BY <1>2
    <2> QED
        BY <1>2, <2>1, <2>2, <2>3 DEF Covers
<1> QED
    BY <1>1, <1>2
-----------------------------------------------------------------------------
(* Whose entries a log ends in.                                              *)

\* Of three entries in a row each player writes one.
LEMMA OwnRun ==
    ASSUME NEW d \in Device, NEW l \in Nat, NEW t \in Nat, TheirsUpTo(d, l, t)
    PROVE  l <= t + 2
<1>1. PlayerOf[d] \in {"initiator", "claimer"}
    BY DeviceAssumption DEF Role
<1> SUFFICES ASSUME l >= t + 3 PROVE FALSE
    OBVIOUS
<1>2. \A j \in {t + 1, t + 2, t + 3} : ExpectedAuthor(j - 1) = PlayerOf[d]
    BY DEF TheirsUpTo
<1>3. /\ ExpectedAuthor(t) = PlayerOf[d] /\ ExpectedAuthor(t + 1) = PlayerOf[d]
      /\ ExpectedAuthor(t + 2) = PlayerOf[d]
    <2>1. (t + 1) - 1 = t /\ (t + 2) - 1 = t + 1 /\ (t + 3) - 1 = t + 2
        OBVIOUS
    <2> QED
        BY <1>2, <2>1
<1>4. CASE t = 0
    <2>1. ExpectedAuthor(0) = "claimer" /\ ExpectedAuthor(1) = "initiator"
        BY DEF ExpectedAuthor
    <2> QED
        BY <1>3, <1>4, <2>1
<1>5. CASE t > 0
    <2>1. t + 1 > 1 /\ t + 2 > 1 /\ (t + 1) % 2 # (t + 2) % 2
        BY <1>5
    <2>2. (t + 1) % 2 \in {0, 1} /\ (t + 2) % 2 \in {0, 1}
        OBVIOUS
    <2>3. ExpectedAuthor(t + 1) # ExpectedAuthor(t + 2)
        BY <2>1, <2>2 DEF ExpectedAuthor
    <2> QED
        BY <1>3, <2>3
<1> QED
    BY <1>4, <1>5

LEMMA TheirsMore ==
    ASSUME NEW d \in Device, NEW l \in Nat, NEW t \in Int, TheirsUpTo(d, l, t),
           NEW x \in Int, t <= x
    PROVE  TheirsUpTo(d, l, x)
    BY DEF TheirsUpTo

\* All there is, told of.
LEMMA TheirsAll ==
    ASSUME NEW d \in Device, NEW l \in Nat, NEW x \in Int, l <= x
    PROVE  TheirsUpTo(d, l, x)
    BY DEF TheirsUpTo

\* Writing an entry adds none of the other player's.
LEMMA TheirsWrites ==
    ASSUME NEW d \in Device, NEW l \in Nat, NEW t \in Int, TheirsUpTo(d, l, t),
           ExpectedAuthor(l) = PlayerOf[d]
    PROVE  TheirsUpTo(d, l + 1, t)
<1> SUFFICES ASSUME NEW j \in 1 .. (l + 1), ExpectedAuthor(j - 1) # PlayerOf[d] PROVE j <= t
    BY DEF TheirsUpTo
<1>1. j # l + 1
    <2> SUFFICES ASSUME j = l + 1 PROVE FALSE
        OBVIOUS
    <2>1. j - 1 = l
        OBVIOUS
    <2> QED
        BY <2>1
<1>2. j \in 1 .. l
    BY <1>1
<1> QED
    BY <1>2 DEF TheirsUpTo
-----------------------------------------------------------------------------
(* What a device may be sure of.                                             *)

\* Sending more takes nothing from it, nor does the room's getting more.
LEMMA SureSends ==
    ASSUME NEW d \in Device, NEW u \in Seq(GoodClientMessage), NEW o \in Seq(GoodClientMessage),
           NEW l \in Nat, NEW r \in Tip, NEW n \in Nat, Sure(d, u, l, r, n)
    PROVE  Sure(d, u \o o, l, r, n)
    BY CoversMore DEF Sure

LEMMA SureLater ==
    ASSUME NEW d \in Device, NEW u \in Seq(GoodClientMessage),
           NEW l \in Nat, NEW r \in Tip, NEW n \in Nat, Sure(d, u, l, r, n),
           NEW m \in Nat, n <= m
    PROVE  Sure(d, u, l, r, m)
    BY CoversFromLater DEF Sure, Tip

\* What it sends at once: the end of its log, from the first unconfirmed entry on,
\* if that is not more than one append carries.
Brings(o, l, r) ==
    r + 1 < l /\ l <= r + 1 + MAX_APPEND_ENTRIES =>
        \E i \in DOMAIN o : \A a \in Nat : r + 1 <= a => Bridges(o[i], a, l)

\* It has written an entry, knowing of all the room has.
LEMMA SureWrites ==
    ASSUME SeveralAtOnce,
           NEW d \in Device, NEW u \in Seq(GoodClientMessage), NEW o \in Seq(GoodClientMessage),
           NEW l \in Nat, NEW r \in Tip, NEW n \in Nat, Sure(d, u, l, r, n), n <= l,
           TheirsUpTo(d, l, n), ExpectedAuthor(l) = PlayerOf[d], Brings(o, l + 1, r)
    PROVE  Sure(d, u \o o, l + 1, r, n)
<1>1. r + 1 \in Nat /\ r + 1 <= l /\ l + 1 \in Nat
    BY DEF Sure, Tip
<1>2. TheirsUpTo(d, l + 1, r + 1)
    BY <1>1, TheirsWrites DEF Sure
<1>3. l + 1 <= r + 3
    BY <1>1, <1>2, OwnRun DEF Tip
<1>4. r + 1 < l + 1 /\ l + 1 <= r + 1 + MAX_APPEND_ENTRIES
    BY <1>1, <1>3, DeviceAssumption DEF SeveralAtOnce, Tip
<1>5. PICK i \in DOMAIN o : \A a \in Nat : r + 1 <= a => Bridges(o[i], a, l + 1)
    BY <1>4 DEF Brings
<1>6. CASE n >= r + 1
    BY <1>1, <1>5, <1>6, CoversSent, <1>2 DEF Sure
<1>7. CASE n < r + 1
    <2>1. l <= n + 1
        <3>1. TheirsUpTo(d, l + 1, n)
            BY TheirsWrites
        <3> QED
            BY <1>1, <3>1, OwnRun
    <2> QED
        BY <1>1, <1>2, <1>5, <2>1, CoversNext DEF Sure
<1> QED
    BY <1>1, <1>6, <1>7 DEF Tip

\* It has been told where the room is, and sends the rest.
LEMMA SureTold ==
    ASSUME SeveralAtOnce,
           NEW d \in Device, NEW u \in Seq(GoodClientMessage), NEW o \in Seq(GoodClientMessage),
           NEW l \in Nat, NEW r \in Tip, NEW n \in Nat, r + 1 <= n,
           TheirsUpTo(d, l, r + 1), Brings(o, l, r)
    PROVE  Sure(d, u \o o, l, r, n)
<1>1. r + 1 \in Nat /\ l <= r + 3
    BY OwnRun DEF Tip
<1>2. CASE l <= n
    BY <1>2 DEF Sure, Covers
<1>3. CASE l > n
    <2>1. r + 1 < l /\ l <= r + 1 + MAX_APPEND_ENTRIES
        BY <1>1, <1>3, DeviceAssumption DEF SeveralAtOnce, Tip
    <2>2. PICK i \in DOMAIN o : \A a \in Nat : r + 1 <= a => Bridges(o[i], a, l)
        BY <2>1 DEF Brings
    <2> QED
        BY <2>2, CoversSent DEF Sure
<1> QED
    BY <1>2, <1>3

\* It takes more of its log for confirmed, of what the room has or of its own.
LEMMA SureConfirms ==
    ASSUME NEW d \in Device, NEW u, NEW l \in Nat, NEW r \in Tip, NEW n \in Nat,
           Sure(d, u, l, r, n), NEW x \in Tip, r <= x, x + 1 <= n \/ x + 1 <= l \/ x = r
    PROVE  Sure(d, u, l, x, n)
<1>1. TheirsUpTo(d, l, x + 1)
    BY TheirsMore DEF Sure, Tip
<1> QED
    BY <1>1 DEF Sure

\* What it has got from the room, the room has.
LEMMA SureHas ==
    ASSUME NEW d \in Device, NEW u, NEW l \in Nat, NEW r \in Tip, NEW n \in Nat,
           l <= n, l <= r + 1, r + 1 <= n \/ r + 1 <= l
    PROVE  Sure(d, u, l, r, n)
    BY TheirsAll DEF Sure, Covers, Tip
-----------------------------------------------------------------------------
(* What an engine sends.                                                     *)

\* A stretch of a log, as an append of it.
LEMMA StretchBrings ==
    ASSUME NEW l \in Seq(Good), Linked(l), NEW k \in Nat \ {0}, NEW n \in Nat,
           k <= n, n <= Len(l), NEW b, b = SubSeq(l, k, n),
           NEW m, m = [t |-> "append", entries |-> b]
    PROVE  /\ b # <<>> /\ m \in Plain
           /\ \A a \in Nat : k - 1 <= a => Bridges(m, a, n)
<1>1. b \in Run /\ Len(l) \in Nat
    BY StretchIsRun, LenProperties
<1>2. \A i \in k .. n : l[i] \in Good
    BY <1>1, ElementOfSeq
<1>3. Len(b) = n - k + 1 /\ \A i \in 1 .. (n - k + 1) : b[i] = l[k + i - 1]
    <2>1. /\ Len(SubSeq(l, k, n)) = IF k <= n THEN n - k + 1 ELSE 0
          /\ \A i \in 1 .. (n - k + 1) : SubSeq(l, k, n)[i] = l[k + i - 1]
        BY <1>2, SubSeqProperties
    <2> QED
        BY <2>1
<1>4. 1 \in 1 .. (n - k + 1) /\ k + 1 - 1 = k /\ k \in 1 .. Len(l)
    BY <1>1
<1>5. b[1] = l[k] /\ Len(l[k]) = k
    <2>1. Len(l[k]) = k
        BY <1>4, EntryOfTip
    <2> QED
        BY <1>3, <1>4, <2>1
<1>6. SeqOf(b[1]) = k - 1
    BY <1>5 DEF SeqOf
<1>7. b # <<>>
    BY <1>3, EmptySeq
<1>8. m \in Plain /\ m.t = "append" /\ m.entries = b
    BY <1>1 DEF Plain, GoodClientMessage
<1>9. SeqOf(b[1]) + Len(b) = n
    BY <1>3, <1>6
<1>10. ASSUME NEW a \in Nat, k - 1 <= a PROVE Bridges(m, a, n)
    <2>1. SeqOf(b[1]) <= a
        BY <1>6, <1>10
    <2>2. n <= SeqOf(b[1]) + Len(b)
        BY <1>9
    <2> QED
        BY <1>7, <1>8, <2>1, <2>2 DEF Bridges
<1> QED
    BY <1>7, <1>8, <1>10

LEMMA FlushSays ==
    ASSUME NEW e, GoodEngine(e), e.connected
    PROVE  /\ \E o \in Seq(Plain) :
                 Flush(e).out = e.out \o o /\ Brings(o, Len(e.log), e.relayTip)
           /\ Flush(e).log = e.log /\ Flush(e).relayTip = e.relayTip
           /\ Flush(e).connected
<1>1. /\ e.log \in Seq(Good) /\ Linked(e.log) /\ e.relayTip \in Tip
      /\ e.out \in Seq(GoodClientMessage) /\ Len(e.log) \in Nat
    BY LenProperties DEF GoodEngine
<1>2. PICK l, r, k : l = Len(e.log) /\ r = e.relayTip /\ k = r + 2
    OBVIOUS
<1>3. PICK n : n = IF l < r + 1 + MAX_APPEND_ENTRIES THEN l ELSE r + 1 + MAX_APPEND_ENTRIES
    OBVIOUS
<1>4. /\ l \in Nat /\ r \in Tip /\ r \in Int /\ k \in Nat \ {0} /\ n \in Nat /\ n <= l
      /\ l <= r + 1 + MAX_APPEND_ENTRIES => n = l
      /\ r + 1 < l => k <= n
      /\ k - 1 = r + 1
    <2>1. l \in Nat /\ r \in Tip /\ r \in Int /\ r >= -1
        BY <1>1, <1>2 DEF Tip
    <2>2. MAX_APPEND_ENTRIES \in Nat /\ MAX_APPEND_ENTRIES >= 1
        BY DeviceAssumption
    <2>3. k = r + 2
        BY <1>2
    <2>4. CASE l < r + 1 + MAX_APPEND_ENTRIES
        <3>1. n = l
            BY <1>3, <2>4
        <3> QED
            BY <2>1, <2>3, <3>1
    <2>5. CASE ~(l < r + 1 + MAX_APPEND_ENTRIES)
        <3>1. n = r + 1 + MAX_APPEND_ENTRIES
            BY <1>3, <2>5
        <3> QED
            BY <2>1, <2>2, <2>3, <2>5, <3>1
    <2> QED
        BY <2>4, <2>5
<1>5. PICK b, m : b = SubSeq(e.log, k, n) /\ m = [t |-> "append", entries |-> b]
    OBVIOUS
<1>6. Unconfirmed(e) = b
    BY <1>2, <1>3, <1>5 DEF Unconfirmed
<1>7. /\ Flush(e).log = e.log /\ Flush(e).relayTip = r /\ Flush(e).connected
      /\ b = <<>> => Flush(e).out = e.out
      /\ b # <<>> => Flush(e).out = Append(e.out, m)
    BY <1>2, <1>5, <1>6 DEF Flush, Send, GoodEngine
<1>8. CASE b = <<>>
    <2>1. ~(k <= n)
        BY <1>1, <1>2, <1>4, <1>5, <1>8, StretchBrings
    <2>2. ~(r + 1 < l)
        BY <1>4, <2>1
    <2>3. <<>> \in Seq(Plain) /\ e.out = e.out \o <<>>
        BY <1>1, EmptySeq, ConcatEmptySeq
    <2> QED
        BY <1>2, <1>7, <1>8, <2>2, <2>3 DEF Brings
<1>9. CASE b # <<>>
    <2>1. k <= n
        <3> SUFFICES ASSUME n < k PROVE FALSE
            BY <1>4
        <3> QED
            BY <1>4, <1>5, <1>9, SubSeqEmpty
    <2>2. m \in Plain /\ \A a \in Nat : k - 1 <= a => Bridges(m, a, n)
        BY <1>1, <1>2, <1>4, <1>5, <2>1, StretchBrings
    <2>3. PICK o : o = <<m>>
        OBVIOUS
    <2>4. /\ o \in Seq(Plain) /\ Append(e.out, m) = e.out \o o
          /\ 1 \in DOMAIN o /\ o[1] = m
        BY <1>1, <2>2, <2>3
    <2>5. Brings(o, l, r)
        BY <1>4, <2>2, <2>4 DEF Brings
    <2> QED
        BY <1>2, <1>7, <1>9, <2>4, <2>5
<1> QED
    BY <1>8, <1>9

LEMMA AppendLocalSays ==
    ASSUME Inv, NEW d \in Device, NEW e, GoodEngine(e), e.connected, NEW kind \in Kind,
           NEW at \in Nat, Writable(TipHash(e.log), PlayerOf[d], kind, at)
    PROVE  /\ \E o \in Seq(Plain) :
                 /\ AppendLocal(d, e, kind, at).out = e.out \o o
                 /\ Brings(o, Len(e.log) + 1, e.relayTip)
           /\ Len(AppendLocal(d, e, kind, at).log) = Len(e.log) + 1
           /\ AppendLocal(d, e, kind, at).relayTip = e.relayTip
           /\ AppendLocal(d, e, kind, at).connected
<1> DEFINE body == [dev |-> d, n |-> e.signed, by |-> PlayerOf[d], kind |-> kind, at |-> at]
           l == Append(e.log, Signed(e.log, body))
           n == e.signed + 1
           f == [e EXCEPT !.log = l, !.signed = n]
<1>1. e.log \in Seq(Good) /\ Linked(e.log) /\ e.signed \in Nat /\ n \in Nat
    BY DEF GoodEngine
<1>2. body \in Body /\ body.by = PlayerOf[d] /\ body.kind = kind /\ body.at = at
    BY <1>1 DEF Inv, Copies, SealsAll
<1> HIDE DEF body
<1>3. l \in Seq(Good) /\ Linked(l) /\ Len(l) = Len(e.log) + 1
    BY <1>1, <1>2, SignedGood
<1>4. AppendLocal(d, e, kind, at) = Flush(f)
    BY DEF AppendLocal, body
<1> HIDE DEF l, n
<1>5. /\ GoodEngine(f) /\ f.connected /\ f.out = e.out /\ f.log = l
      /\ f.relayTip = e.relayTip
    BY <1>1, <1>3 DEF GoodEngine
<1> HIDE DEF f
<1>6. /\ \E o \in Seq(Plain) : Flush(f).out = f.out \o o /\ Brings(o, Len(f.log), f.relayTip)
      /\ Flush(f).log = f.log /\ Flush(f).relayTip = f.relayTip /\ Flush(f).connected
    BY <1>5, FlushSays
<1>7. PICK o \in Seq(Plain) : Flush(f).out = e.out \o o /\ Brings(o, Len(f.log), e.relayTip)
    BY <1>5, <1>6
<1>8. Len(f.log) = Len(e.log) + 1
    BY <1>3, <1>5
<1>9. Brings(o, Len(e.log) + 1, e.relayTip)
    BY <1>7, <1>8
<1> QED
    BY <1>4, <1>5, <1>6, <1>7, <1>8, <1>9

LEMMA SettleSays ==
    ASSUME NEW e, GoodEngine(e)
    PROVE  /\ Settle(e).log = e.log /\ Settle(e).relayTip = e.relayTip
           /\ Settle(e).out = e.out /\ Settle(e).connected = e.connected
    BY DEF GoodEngine, Settle

LEMMA ConfirmSays ==
    ASSUME NEW e, GoodEngine(e), NEW seq \in Tip
    PROVE  /\ Confirm(e, seq).log = e.log /\ Confirm(e, seq).out = e.out
           /\ Confirm(e, seq).connected = e.connected
           /\ Confirm(e, seq).relayTip \in Tip
           /\ Confirm(e, seq).relayTip \in {seq, e.relayTip}
           /\ e.relayTip <= Confirm(e, seq).relayTip /\ seq <= Confirm(e, seq).relayTip
<1>1. e.relayTip \in Tip
    BY DEF GoodEngine
<1>2. PICK x : x = IF seq > e.relayTip THEN seq ELSE e.relayTip
    OBVIOUS
<1>3. /\ Confirm(e, seq).log = e.log /\ Confirm(e, seq).out = e.out
      /\ Confirm(e, seq).connected = e.connected /\ Confirm(e, seq).relayTip = x
    BY <1>2 DEF GoodEngine, Confirm
<1>4. x \in {seq, e.relayTip} /\ x \in Tip /\ e.relayTip <= x /\ seq <= x
    BY <1>1, <1>2 DEF Tip
<1> QED
    BY <1>3, <1>4
-----------------------------------------------------------------------------
(* What the steps do to the lengths.                                         *)

\* Until the room is evicted for the first time, what is held is in its log.
LEMMA HeldIsStored ==
    ASSUME Inv, SeenInv, evictions = 0, NEW e \in HeldEntries
    PROVE  Len(e) <= Len(log) /\ Len(e) \in Nat \ {0} /\ Len(log) \in Nat
<1>1. e \in Seq(Body) /\ e # <<>> /\ Len(e) \in Nat \ {0}
    BY LenProperties, EmptySeq DEF HeldEntries, Good, Entry
<1>2. Len(TipHash(log)) = Len(log) /\ Len(log) \in Nat
    BY TipOf DEF Inv, Copies, GoodRoom
<1>3. tombstone = <<>>
    BY DEF SeenInv, GenesisPrevHash
<1>4. IsPrefixOf(e, TipHash(log)) \/ IsPrefixOf(e, <<>>)
    BY <1>3 DEF HeldEntries, Held
<1>5. Len(<<>>) = 0
    BY EmptySeq
<1> QED
    BY <1>1, <1>2, <1>4, <1>5 DEF IsPrefixOf

LEMMA LogGrows ==
    ASSUME Inv, [Next]_syncVars, evictions \in Nat, evictions' = 0
    PROVE  Len(log) <= Len(log') /\ Len(log) \in Nat /\ Len(log') \in Nat
<1>1. Len(log) \in Nat /\ log \in Seq(Good)
    BY LenProperties DEF Inv, Copies, GoodRoom
<1>2. ~RoomEvict
    BY DEF RoomEvict
<1>3. CASE log' = log
    BY <1>1, <1>3
<1>4. ASSUME NEW s \in Socket, NEW b \in Run, AppendCommit(s, b)
      PROVE  Len(log) <= Len(log') /\ Len(log') \in Nat
    <2>1. Staged(b) \in Seq(Good)
        BY <1>1, BeyondGood DEF Staged, Run
    <2>2. log' = log \o Staged(b)
        BY <1>4 DEF AppendCommit
    <2>3. Len(log \o Staged(b)) = Len(log) + Len(Staged(b)) /\ Len(Staged(b)) \in Nat
        BY <1>1, <2>1, ConcatProperties, LenProperties
    <2> QED
        BY <1>1, <2>2, <2>3
<1> QED
    BY <1>1, <1>2, <1>3, <1>4, RoomStep

\* Who writes the next entry does so in turn, and has all the room has.
LEMMA WriterKnowsAll ==
    ASSUME Inv, OneLine, NEW d \in Device, NEW l, Grown(d, l),
           NEW kind, NEW new, Signs(d, l, kind, new)
    PROVE  Len(log) <= Len(l) /\ ExpectedAuthor(Len(l)) = PlayerOf[d]
<1>1. PICK M \in Line : DevicesOn(M) /\ RoomOn(M) /\ MessagesOn(M)
    BY DEF OneLine
<1>2. M \in Seq(Body)
    BY LineFacts
<1>3. l \in Seq(OnLine(M)) /\ Linked(l) /\ Len(dlog[d]) \in Nat /\ Len(dlog[d]) <= Len(l)
    BY <1>1, GrownOnLine
<1>4. Len(l) = Len(M) /\ PlayerOf[d] = ExpectedAuthor(Len(M))
    BY <1>1, <1>3, SignsAtTheEnd DEF OneLine
<1>5. Len(log) <= Len(M)
    BY <1>1, <1>2, TipOnLine DEF RoomOn, Inv, Copies, GoodRoom
<1> QED
    BY <1>4, <1>5

LEMMA SealerKnowsAll ==
    ASSUME Inv, OneLine, NEW d \in Device, NEW l, Grown(d, l),
           NEW kind \in Kind, NEW at \in Nat,
           Writable(TipHash(l), PlayerOf[d], kind, at), Sealed(d, l, kind, at)
    PROVE  Len(log) <= Len(l) /\ ExpectedAuthor(Len(l)) = PlayerOf[d]
<1>1. Signs(d, l, kind, Append(l, Signed(l, Draft(d, kind, at))))
    BY DEF Signs
<1> QED
    BY <1>1, WriterKnowsAll

\* What a log gets from others it is handed.
LEMMA TheirsGrow ==
    ASSUME Inv, OneLine, NEW d \in Device, NEW l, Lengthens(d, l),
           NEW t \in Int, TheirsUpTo(d, Len(dlog[d]), t), \A e \in Handed(d) : Len(e) <= t
    PROVE  TheirsUpTo(d, Len(l), t)
<1>1. ASSUME NEW g, Grown(d, g)
      PROVE  TheirsUpTo(d, Len(g), t) /\ g \in Seq(Good) /\ Linked(g) /\ Len(g) \in Nat
    <2>1. PICK h \in Seq(Handed(d)) : g = dlog[d] \o h /\ g \in Seq(Good) /\ Linked(g)
        BY <1>1 DEF Grown
    <2>2. dlog[d] \in Seq(Good)
        BY DEF Inv, Copies, GoodDevices
    <2>3. /\ Len(g) = Len(dlog[d]) + Len(h) /\ Len(g) \in Nat
          /\ Len(dlog[d]) \in Nat /\ Len(h) \in Nat
          /\ \A i \in 1 .. Len(h) : g[Len(dlog[d]) + i] = h[i]
        BY <2>1, <2>2, ConcatProperties, LenProperties
    <2>4. ASSUME NEW j \in 1 .. Len(g), ExpectedAuthor(j - 1) # PlayerOf[d] PROVE j <= t
        <3>1. CASE j <= Len(dlog[d])
            BY <2>3, <2>4, <3>1 DEF TheirsUpTo
        <3>2. CASE j > Len(dlog[d])
            <4>1. PICK i : i = j - Len(dlog[d])
                OBVIOUS
            <4>2. i \in 1 .. Len(h) /\ j = Len(dlog[d]) + i
                BY <2>3, <3>2, <4>1
            <4>3. h[i] \in Handed(d) /\ g[j] = h[i]
                BY <2>1, <2>3, <4>2, ElementOfSeq
            <4>4. Len(g[j]) = j
                BY <2>1, EntryOfTip
            <4> QED
                BY <4>3, <4>4
        <3> QED
            BY <2>3, <3>1, <3>2
    <2> QED
        BY <2>1, <2>3, <2>4 DEF TheirsUpTo
<1>2. PICK g : Grown(d, g) /\ (l = g \/ \E kind : Signs(d, g, kind, l))
    BY DEF Lengthens
<1>3. CASE l = g
    BY <1>1, <1>2, <1>3
<1>4. CASE \E kind : Signs(d, g, kind, l)
    <2>1. PICK kind : Signs(d, g, kind, l)
        BY <1>4
    <2>2. ExpectedAuthor(Len(g)) = PlayerOf[d]
        BY <1>2, <2>1, WriterKnowsAll
    <2>3. /\ TheirsUpTo(d, Len(g), t) /\ g \in Seq(Good) /\ Linked(g) /\ Len(g) \in Nat
        BY <1>1, <1>2
    <2>4. Len(l) = Len(g) + 1
        BY <2>1, <2>3 DEF Signs
    <2> QED
        BY <2>2, <2>3, <2>4, TheirsWrites
<1> QED
    BY <1>2, <1>3, <1>4
-----------------------------------------------------------------------------
(* The phases of a connection.                                               *)

LEMMA PlainMessages ==
    /\ \A u \in Seq(Plain) : u \in Seq(GoodClientMessage)
    /\ \A dn \in Seq(NoState) : dn \in Seq(GoodMessage)
<1>1. Plain \subseteq GoodClientMessage /\ NoState \subseteq GoodMessage
    BY DEF Plain, NoState
<1> QED
    BY <1>1, SeqMonotonic

\* Sending more of the like.
LEMMA SaysMore ==
    ASSUME NEW u \in Seq(GoodClientMessage), NEW o \in Seq(Plain)
    PROVE  /\ u \in Seq(Plain) => u \o o \in Seq(Plain)
           /\ \A dn : Asks(u, dn) => Asks(u \o o, dn)
<1>1. u \in Seq(Plain) => u \o o \in Seq(Plain)
    BY ConcatProperties
<1>2. ASSUME NEW dn, Asks(u, dn) PROVE Asks(u \o o, dn)
    <2>1. u # <<>> /\ Head(u).t = "hello" /\ Tail(u) \in Seq(Plain) /\ dn \in Seq(NoState)
        BY <1>2 DEF Asks
    <2>2. o \in Seq(GoodClientMessage)
        BY PlainMessages
    <2>3. /\ u \o o # <<>> /\ Head(u \o o) = Head(u) /\ Tail(u \o o) = Tail(u) \o o
        BY <2>1, <2>2
    <2>4. Tail(u) \o o \in Seq(Plain)
        BY <2>1, ConcatProperties
    <2> QED
        BY <2>1, <2>3, <2>4 DEF Asks
<1> QED
    BY <1>1, <1>2

\* The device writes, or sends, without having received anything.
LEMMA PhaseActs ==
    ASSUME NEW d \in Device, NEW u \in Seq(GoodClientMessage), NEW dn \in Seq(GoodMessage),
           NEW k, NEW l, NEW r, NEW n, NEW m, NEW x, NEW o \in Seq(Plain),
           Phase(d, u, dn, k, l, r, n),
           \A t \in Int : TheirsUpTo(d, l, t) => TheirsUpTo(d, m, t),
           u \in Seq(Plain) /\ Sure(d, u, l, r, n) => Sure(d, u \o o, m, x, n)
    PROVE  Phase(d, u \o o, dn, k, m, x, n)
<1>1. CASE Asks(u, dn)
    BY <1>1, SaysMore DEF Phase
<1>2. CASE k # NoOne /\ Learns(d, u, dn, l)
    <2>1. PICK i \in DOMAIN dn : TellsAt(d, dn, i, l)
        BY <1>2 DEF Learns
    <2>2. dn[i] \in GoodMessage /\ dn[i].t = "state"
        BY <2>1, ElementOfSeq, LenProperties DEF TellsAt
    <2>3. dn[i].tipSeq + 1 \in Int
        BY <2>2 DEF GoodMessage, Tip
    <2>4. TellsAt(d, dn, i, m)
        BY <2>1, <2>3 DEF TellsAt
    <2> QED
        BY <1>2, <2>4, SaysMore DEF Phase, Learns
<1>3. CASE k # NoOne /\ Knows(d, u, dn, l, r, n)
    BY <1>3, SaysMore DEF Phase, Knows
<1> QED
    BY <1>1, <1>2, <1>3 DEF Phase

\* The device handles a message that does not tell where the room's log ends.
LEMMA PhaseTakes ==
    ASSUME NEW d \in Device, NEW u \in Seq(GoodClientMessage), NEW dn \in Seq(GoodMessage),
           NEW k, NEW l, NEW r, NEW n, NEW m, NEW x, NEW o \in Seq(Plain),
           Phase(d, u, dn, k, l, r, n), dn # <<>>, Head(dn).t # "state",
           \A t \in Int :
              /\ TheirsUpTo(d, l, t)
              /\ Head(dn).t = "entries" =>
                    \A j \in DOMAIN Head(dn).entries : Len(Head(dn).entries[j]) <= t
              => TheirsUpTo(d, m, t),
           u \in Seq(Plain) /\ Sure(d, u, l, r, n) => Sure(d, u \o o, m, x, n)
    PROVE  Phase(d, u \o o, Tail(dn), k, m, x, n)
<1>1. /\ Head(dn) = dn[1] /\ Len(dn) \in Nat /\ DOMAIN dn = 1 .. Len(dn)
      /\ Tail(dn) \in Seq(GoodMessage) /\ DOMAIN Tail(dn) = 1 .. (Len(dn) - 1)
      /\ \A i \in 1 .. (Len(dn) - 1) : Tail(dn)[i] = dn[i + 1]
      /\ dn \in Seq(NoState) => Tail(dn) \in Seq(NoState)
    BY HeadTailProperties, LenProperties
<1>2. CASE Asks(u, dn)
    <2>1. Asks(u \o o, dn)
        BY <1>2, SaysMore
    <2>2. Asks(u \o o, Tail(dn))
        BY <1>1, <2>1 DEF Asks
    <2> QED
        BY <2>2 DEF Phase
<1>3. CASE k # NoOne /\ Learns(d, u, dn, l)
    <2>1. PICK i \in DOMAIN dn : TellsAt(d, dn, i, l)
        BY <1>3 DEF Learns
    <2>2. dn[i] \in GoodMessage /\ dn[i].t = "state" /\ i # 1 /\ i \in 1 .. Len(dn)
        BY <1>1, <2>1, ElementOfSeq, LenProperties DEF TellsAt
    <2>3. PICK t : t = dn[i].tipSeq + 1
        OBVIOUS
    <2>4. t \in Int
        BY <2>2, <2>3 DEF GoodMessage, Tip
    <2>5. PICK w, h : w = Tail(dn) /\ h = i - 1
        OBVIOUS
    <2>6. h \in DOMAIN w /\ w[h] = dn[i] /\ h + 1 = i /\ 1 \in 1 .. (i - 1)
        BY <1>1, <2>2, <2>5
    <2>7. TheirsUpTo(d, m, t)
        BY <1>1, <2>1, <2>3, <2>4, <2>6 DEF TellsAt
    <2>8. \A j \in DOMAIN w : w[j].t = "state" => j = h
        <3> SUFFICES ASSUME NEW j \in DOMAIN w, w[j].t = "state" PROVE j = h
            OBVIOUS
        <3>1. j + 1 \in DOMAIN dn /\ w[j] = dn[j + 1] /\ j \in Nat
            BY <1>1, <2>5
        <3>2. j + 1 = i
            BY <2>1, <3>1 DEF TellsAt
        <3> QED
            BY <2>6, <3>1, <3>2, <2>2, <2>5
    <2>9. \A j \in 1 .. (h - 1) : w[j].t = "entries" =>
              \A y \in DOMAIN w[j].entries : Len(w[j].entries[y]) <= t
        <3> SUFFICES ASSUME NEW j \in 1 .. (h - 1) PROVE
                w[j].t = "entries" => \A y \in DOMAIN w[j].entries : Len(w[j].entries[y]) <= t
            OBVIOUS
        <3>1. j + 1 \in 1 .. (i - 1) /\ w[j] = dn[j + 1]
            BY <1>1, <2>2, <2>5
        <3> QED
            BY <2>1, <2>3, <3>1 DEF TellsAt
    <2>10. TellsAt(d, w, h, m)
        BY <2>2, <2>3, <2>6, <2>7, <2>8, <2>9 DEF TellsAt
    <2> QED
        BY <1>3, <2>5, <2>6, <2>10, SaysMore DEF Phase, Learns
<1>4. CASE k # NoOne /\ Knows(d, u, dn, l, r, n)
    BY <1>1, <1>4, SaysMore DEF Phase, Knows
<1> QED
    BY <1>2, <1>3, <1>4 DEF Phase

\* The device handles the answer to its greeting.
LEMMA PhaseTold ==
    ASSUME NEW d \in Device, NEW u \in Seq(GoodClientMessage), NEW dn \in Seq(GoodMessage),
           NEW k, NEW l, NEW r, NEW n, NEW x, NEW o \in Seq(Plain),
           Phase(d, u, dn, k, l, r, n), dn # <<>>, Head(dn).t = "state",
           TheirsUpTo(d, l, Head(dn).tipSeq + 1) => Sure(d, u \o o, l, x, n)
    PROVE  Phase(d, u \o o, Tail(dn), k, l, x, n)
<1>1. /\ Head(dn) = dn[1] /\ Len(dn) \in Nat /\ DOMAIN dn = 1 .. Len(dn) /\ 1 \in DOMAIN dn
      /\ Tail(dn) \in Seq(GoodMessage) /\ DOMAIN Tail(dn) = 1 .. (Len(dn) - 1)
      /\ Len(Tail(dn)) = Len(dn) - 1
      /\ \A i \in 1 .. (Len(dn) - 1) : Tail(dn)[i] = dn[i + 1]
    BY HeadTailProperties, LenProperties, EmptySeq
<1>2. dn \notin Seq(NoState)
    <2> SUFFICES ASSUME dn \in Seq(NoState) PROVE FALSE
        OBVIOUS
    <2>1. dn[1] \in NoState
        BY <1>1, ElementOfSeq
    <2> QED
        BY <1>1, <2>1 DEF NoState
<1>3. k # NoOne /\ Learns(d, u, dn, l)
    BY <1>2 DEF Phase, Asks, Knows
<1>4. PICK i \in DOMAIN dn : TellsAt(d, dn, i, l)
    BY <1>3 DEF Learns
<1>5. i = 1
    BY <1>1, <1>4 DEF TellsAt
<1>6. TheirsUpTo(d, l, Head(dn).tipSeq + 1)
    BY <1>1, <1>4, <1>5 DEF TellsAt
<1>7. Tail(dn) \in Seq(NoState)
    <2>1. \A j \in 1 .. Len(Tail(dn)) : Tail(dn)[j] \in NoState
        <3> SUFFICES ASSUME NEW j \in 1 .. Len(Tail(dn)) PROVE Tail(dn)[j] \in NoState
            OBVIOUS
        <3>1. j + 1 \in DOMAIN dn /\ Tail(dn)[j] = dn[j + 1] /\ j + 1 # 1
            BY <1>1
        <3>2. dn[j + 1] \in GoodMessage /\ dn[j + 1].t # "state"
            BY <1>1, <1>4, <1>5, <3>1, ElementOfSeq DEF TellsAt
        <3> QED
            BY <3>1, <3>2 DEF NoState
    <2>2. \A j \in DOMAIN Tail(dn) : Tail(dn)[j] \in NoState
        BY <1>1, <2>1
    <2> QED
        BY <1>1, <2>2, AllWithin
<1> QED
    BY <1>3, <1>6, <1>7, SaysMore DEF Phase, Knows, Learns

\* What a device may find waiting once the room has said something else.
Hearing(dn, wn) == wn = dn \/ \E m \in NoState : wn = Append(dn, m)

LEMMA TellsStill ==
    ASSUME NEW d \in Device, NEW dn \in Seq(GoodMessage), NEW wn, Hearing(dn, wn),
           NEW l, Learns(d, <<>>, dn, l)
    PROVE  Learns(d, <<>>, wn, l)
<1>1. CASE wn = dn
    BY <1>1
<1>2. ASSUME NEW m \in NoState, wn = Append(dn, m) PROVE Learns(d, <<>>, wn, l)
    <2>1. /\ Len(dn) \in Nat /\ DOMAIN dn = 1 .. Len(dn) /\ DOMAIN wn = 1 .. (Len(dn) + 1)
          /\ \A i \in 1 .. Len(dn) : wn[i] = dn[i]
          /\ wn[Len(dn) + 1] = m /\ m.t # "state"
        BY <1>2, AppendProperties, LenProperties DEF NoState
    <2>2. PICK i \in DOMAIN dn : TellsAt(d, dn, i, l)
        BY DEF Learns
    <2>3. i \in DOMAIN wn /\ wn[i] = dn[i] /\ \A j \in 1 .. (i - 1) : wn[j] = dn[j]
        BY <2>1, <2>2
    <2>4. \A j \in DOMAIN wn : wn[j].t = "state" => j = i
        <3> SUFFICES ASSUME NEW j \in DOMAIN wn, wn[j].t = "state" PROVE j = i
            OBVIOUS
        <3>1. j \in 1 .. Len(dn)
            BY <2>1
        <3> QED
            BY <2>1, <2>2, <3>1 DEF TellsAt
    <2>5. TellsAt(d, wn, i, l)
        BY <2>2, <2>3, <2>4 DEF TellsAt
    <2> QED
        BY <2>3, <2>5 DEF Learns
<1> QED
    BY <1>1, <1>2 DEF Hearing

LEMMA NoStateStill ==
    ASSUME NEW dn \in Seq(NoState), NEW wn, Hearing(dn, wn) PROVE wn \in Seq(NoState)
    BY AppendProperties DEF Hearing

\* The room tells the device something else, or gets more entries.
LEMMA PhaseHears ==
    ASSUME NEW d \in Device, NEW u \in Seq(GoodClientMessage), NEW dn \in Seq(GoodMessage),
           NEW k, NEW l \in Nat, NEW r \in Tip, NEW n \in Nat, NEW x \in Nat, n <= x,
           NEW wn, Hearing(dn, wn), Phase(d, u, dn, k, l, r, n)
    PROVE  Phase(d, u, wn, k, l, r, x)
<1>1. CASE Asks(u, dn)
    BY <1>1, NoStateStill DEF Asks, Phase
<1>2. CASE k # NoOne /\ Learns(d, u, dn, l)
    BY <1>2, TellsStill DEF Phase, Learns
<1>3. CASE k # NoOne /\ Knows(d, u, dn, l, r, n)
    BY <1>3, NoStateStill, SureLater DEF Phase, Knows
<1> QED
    BY <1>1, <1>2, <1>3 DEF Phase

\* The room reads one of the device's other messages.
LEMMA PhaseRead ==
    ASSUME NEW d \in Device, NEW u \in Seq(GoodClientMessage), NEW dn \in Seq(GoodMessage),
           NEW k, NEW l \in Nat, NEW r \in Tip, NEW n \in Nat, NEW x \in Nat, n <= x,
           NEW wn, Hearing(dn, wn), Phase(d, u, dn, k, l, r, n),
           u # <<>>, Head(u).t # "hello",
           k # NoOne => \A b \in Nat : Bridges(Head(u), n, b) => b <= x
    PROVE  Phase(d, Tail(u), wn, k, l, r, x)
<1>1. ~Asks(u, dn)
    BY DEF Asks
<1>2. u \in Seq(Plain) => Tail(u) \in Seq(Plain)
    BY HeadTailProperties
<1>3. CASE k # NoOne /\ Learns(d, u, dn, l)
    BY <1>2, <1>3, TellsStill DEF Phase, Learns
<1>4. CASE k # NoOne /\ Knows(d, u, dn, l, r, n)
    <2>1. Covers(Tail(u), x, l)
        BY <1>4, CoversTail DEF Knows, Sure
    <2>2. Sure(d, Tail(u), l, r, x)
        BY <1>4, <2>1 DEF Knows, Sure, Tip
    <2> QED
        BY <1>2, <1>4, <2>2, NoStateStill DEF Phase, Knows
<1> QED
    BY <1>1, <1>3, <1>4 DEF Phase

\* The room reads its greeting.
LEMMA PhaseGreeted ==
    ASSUME NEW d \in Device, NEW u \in Seq(GoodClientMessage), NEW dn \in Seq(GoodMessage),
           NEW k, NEW l \in Nat, NEW r, NEW n \in Nat, NEW c, Phase(d, u, dn, c, l, r, n),
           u # <<>>, Head(u).t = "hello", k # NoOne, TheirsUpTo(d, l, n),
           NEW m, m.t = "state", m.tipSeq + 1 = n,
           \A i \in DOMAIN dn : dn[i].t = "entries" =>
               \A j \in DOMAIN dn[i].entries : Len(dn[i].entries[j]) <= n
    PROVE  Phase(d, Tail(u), Append(dn, m), k, l, r, n)
<1>1. u \notin Seq(Plain)
    <2> SUFFICES ASSUME u \in Seq(Plain) PROVE FALSE
        OBVIOUS
    <2>1. Head(u) \in Plain
        BY HeadTailProperties
    <2> QED
        BY <2>1 DEF Plain
<1>2. Tail(u) \in Seq(Plain) /\ dn \in Seq(NoState)
    BY <1>1 DEF Phase, Asks, Learns, Knows
<1>3. PICK wn, i : wn = Append(dn, m) /\ i = Len(dn) + 1
    OBVIOUS
<1>4. /\ Len(dn) \in Nat /\ DOMAIN dn = 1 .. Len(dn) /\ DOMAIN wn = 1 .. i /\ i \in DOMAIN wn
      /\ \A j \in 1 .. (i - 1) : j \in DOMAIN dn /\ wn[j] = dn[j]
      /\ wn[i] = m
    BY <1>3, AppendProperties, LenProperties
<1>5. \A j \in DOMAIN dn : dn[j].t # "state"
    BY <1>2, ElementOfSeq DEF NoState
<1>6. \A j \in DOMAIN wn : wn[j].t = "state" => j = i
    BY <1>4, <1>5
<1>7. TellsAt(d, wn, i, l)
    BY <1>4, <1>6 DEF TellsAt
<1> QED
    BY <1>2, <1>3, <1>4, <1>7 DEF Phase, Learns
-----------------------------------------------------------------------------
(* What the devices hear.                                                    *)

LEMMA OnlyLengthens ==
    ASSUME Inv, OneLine, [Next]_syncVars, NEW d \in Device
    PROVE  Lengthens(d, dlog'[d])
<1>1. PICK M \in Line : MessagesOn(M)
    BY DEF OneLine
<1>2. ~RollBack(d)
    BY <1>1, NobodyRetracts DEF MessagesOn
<1> QED
    BY <1>2, LogStep DEF Retracts

LEMMA HandedShort ==
    ASSUME Inv, SeenInv, evictions = 0, NEW d \in Device
    PROVE  \A e \in Handed(d) : Len(e) <= Len(log) /\ Len(e) \in Nat \ {0}
<1>1. Handed(d) \subseteq HeldEntries
    BY HandedWithin DEF SeenInv
<1> QED
    BY <1>1, HeldIsStored

LEMMA RoomSaysWithin ==
    ASSUME Inv, SeenInv, evictions = 0, \A p \in pushing : p.entries \in Run,
           NEW n \in Nat, Len(log) <= n
    PROVE  RoomSays(Within(n))
<1>1. log \in Seq(Good) /\ Linked(log) /\ Len(log) \in Nat /\ TipSeq(log) < n
    BY LenProperties DEF Inv, Copies, GoodRoom, TipSeq
<1>2. tombstone = GenesisPrevHash
    BY DEF SeenInv
<1>3. StateMessage \in Within(n)
    <2>1. /\ StateMessage \in GoodMessage /\ StateMessage.t = "state"
          /\ StateMessage.tipSeq = TipSeq(log) /\ StateMessage.tombstone = tombstone
        BY GoodMessages DEF StateMessage
    <2> QED
        BY <1>1, <1>2, <2>1 DEF Within
<1>4. Appended(TipSeq(log)) \in Within(n)
    <2>1. /\ Appended(TipSeq(log)) \in GoodMessage /\ Appended(TipSeq(log)).t = "appended"
          /\ Appended(TipSeq(log)).tipSeq = TipSeq(log)
        BY GoodMessages DEF Appended
    <2> QED
        BY <1>1, <2>1 DEF Within
<1>5. \A c \in ErrorCode : [t |-> "err", code |-> c] \in Within(n)
    BY GoodMessages DEF Within
<1>6. \A b \in Run : [t |-> "entries", entries |-> b] \in Within(n)
    <2> SUFFICES ASSUME NEW b \in Run PROVE [t |-> "entries", entries |-> b] \in Within(n)
        OBVIOUS
    <2>1. [t |-> "entries", entries |-> b] \in GoodMessage
        BY GoodMessages DEF Run
    <2> QED
        BY <2>1 DEF Within
<1>7. \A k \in Nat \ {0} : SubSeq(log, k, Len(log)) \in Run
    BY <1>1, StretchIsRun
<1>8. "bad_message" \in ErrorCode /\ \A b \in Run : Refusal(b) \in ErrorCode
    BY DEF ErrorCode, Refusal
<1> QED
    BY <1>3, <1>4, <1>5, <1>6, <1>7, <1>8 DEF RoomSays

LEMMA HeardKept ==
    ASSUME Inv, OneLine, SeenInv, [Next]_syncVars, evictions = 0, evictions' = 0, Heard
    PROVE  Heard'
<1>1. Len(log) <= Len(log') /\ Len(log) \in Nat /\ Len(log') \in Nat
    BY LogGrows
<1>2. PICK n : n = Len(log')
    OBVIOUS
<1>3. \A p \in pushing' : p.entries \in Run
    <2>1. ~RoomEvict
        BY DEF RoomEvict
    <2>2. CASE pushing' \subseteq pushing
        BY <2>2 DEF Heard
    <2>3. CASE \E s \in Socket, b \in Run : AppendCommit(s, b)
        BY <2>3 DEF Heard, AppendCommit
    <2> QED
        BY <2>1, <2>2, <2>3, RoomStep
<1>4. down' \in [Socket -> Seq(Within(n))]
    <2>1. RoomSays(Within(n))
        BY <1>1, <1>2, RoomSaysWithin DEF Heard
    <2>2. Within(Len(log)) \subseteq Within(n)
        <3> SUFFICES ASSUME NEW m \in Within(Len(log)) PROVE m \in Within(n)
            OBVIOUS
        <3>1. m \in GoodMessage
            BY DEF Within
        <3>2. m.t \in {"state", "appended"} => m.tipSeq \in Int
            BY <3>1 DEF GoodMessage, Tip
        <3> QED
            BY <1>1, <1>2, <3>2 DEF Within
    <2>3. \A q \in Seq(Within(Len(log))) : q \in Seq(Within(n))
        BY <2>2, SeqMonotonic
    <2>4. down \in [Socket -> Seq(Within(n))]
        BY <2>3 DEF Heard
    <2> QED
        BY <2>1, <2>4, DownStep
<1>5. \A d \in Device : TheirsUpTo(d, Len(dlog'[d]), n)
    <2> SUFFICES ASSUME NEW d \in Device PROVE TheirsUpTo(d, Len(dlog'[d]), n)
        OBVIOUS
    <2>1. TheirsUpTo(d, Len(dlog[d]), n)
        <3>1. TheirsUpTo(d, Len(dlog[d]), Len(log)) /\ Len(dlog[d]) \in Nat
            BY LenProperties DEF Heard, Inv, Copies, GoodDevices
        <3> QED
            BY <1>1, <1>2, <3>1, TheirsMore
    <2>2. \A e \in Handed(d) : Len(e) <= n
        BY <1>1, <1>2, HandedShort
    <2> QED
        BY <1>1, <1>2, <2>1, <2>2, OnlyLengthens, TheirsGrow
<1> QED
    BY <1>2, <1>3, <1>4, <1>5 DEF Heard, TheirsUpTo, Within
-----------------------------------------------------------------------------
(* What a device does on its connection.                                     *)

\* The connection of a device, and what it knows.
LEMMA ConnectionTyped ==
    ASSUME Inv, NEW d \in Device
    PROVE  /\ sock[d] # NoSocket =>
                 /\ sock[d] \in Socket /\ sock[d] \in open \ gone
                 /\ up[sock[d]] \in Seq(GoodClientMessage)
                 /\ down[sock[d]] \in Seq(GoodMessage)
                 /\ DeviceOf[sock[d]] = d
           /\ Len(dlog[d]) \in Nat /\ relayTipSeq[d] \in Tip /\ Len(log) \in Nat
           /\ dlog[d] \in Seq(Good) /\ Linked(dlog[d])
    BY LenProperties DEF Inv, Copies, GoodSockets, GoodDevices, GoodRoom

LEMMA EngineSays ==
    ASSUME Inv, NEW d \in Device, sock[d] # NoSocket
    PROVE  /\ GoodEngine(Engine(d)) /\ Engine(d).log = dlog[d]
           /\ Engine(d).relayTip = relayTipSeq[d] /\ Engine(d).out = <<>>
           /\ Engine(d).connected
    BY EngineGood DEF Engine

\* A device that has become e, on the connection it had.
LEMMA OwnTurn ==
    ASSUME Inv, NEW d \in Device, sock[d] # NoSocket, NEW e, Become(d, e), e.connected,
           UNCHANGED <<sock, log, keyHash>>,
           Phase(d, up[sock[d]] \o e.out, down'[sock[d]], keyHash[sock[d]],
                 Len(e.log), e.relayTip, Len(log))
    PROVE  InPhase(d)'
<1>1. sock[d] \in Socket
    BY ConnectionTyped
<1>2. /\ dlog'[d] = e.log /\ relayTipSeq'[d] = e.relayTip
      /\ up'[sock[d]] = up[sock[d]] \o e.out
    BY <1>1 DEF Become, Inv, Copies, GoodDevices
<1>3. sock'[d] = sock[d] /\ keyHash' = keyHash /\ log' = log
    OBVIOUS
<1>4. Phase(d, up'[sock'[d]], down'[sock'[d]], keyHash'[sock'[d]],
            Len(dlog'[d]), relayTipSeq'[d], Len(log'))
    BY <1>2, <1>3
<1> QED
    BY <1>4 DEF InPhase, Phase, Asks, Learns, Knows, TellsAt, Sure, TheirsUpTo, Covers, Bridges

\* A device that writes an entry.
LEMMA WriteOwn ==
    ASSUME Inv, OneLine, SeveralAtOnce, Heard, NEW d \in Device, sock[d] # NoSocket,
           InPhase(d), NEW kind \in Kind, NEW at \in Nat,
           Writable(TipHash(dlog[d]), PlayerOf[d], kind, at), Sealed(d, dlog[d], kind, at),
           Become(d, AppendLocal(d, Engine(d), kind, at)), UNCHANGED <<sock, roomVars>>
    PROVE  InPhase(d)'
<1>1. /\ GoodEngine(Engine(d)) /\ Engine(d).log = dlog[d]
      /\ Engine(d).relayTip = relayTipSeq[d] /\ Engine(d).out = <<>> /\ Engine(d).connected
    BY EngineSays
<1>2. PICK e : e = AppendLocal(d, Engine(d), kind, at)
    OBVIOUS
<1>3. /\ \E o \in Seq(Plain) :
            e.out = Engine(d).out \o o /\ Brings(o, Len(dlog[d]) + 1, relayTipSeq[d])
      /\ Len(e.log) = Len(dlog[d]) + 1 /\ e.relayTip = relayTipSeq[d] /\ e.connected
    <2>1. PICK g : g = Engine(d)
        OBVIOUS
    <2>2. /\ GoodEngine(g) /\ g.connected /\ g.log = dlog[d] /\ g.relayTip = relayTipSeq[d]
        BY <1>1, <2>1
    <2>3. Writable(TipHash(g.log), PlayerOf[d], kind, at)
        BY <2>2
    <2>4. /\ \E o \in Seq(Plain) :
                e.out = g.out \o o /\ Brings(o, Len(g.log) + 1, g.relayTip)
          /\ Len(e.log) = Len(g.log) + 1 /\ e.relayTip = g.relayTip /\ e.connected
        <3>1. e = AppendLocal(d, g, kind, at)
            BY <1>2, <2>1
        <3>2. /\ \E o \in Seq(Plain) :
                    /\ AppendLocal(d, g, kind, at).out = g.out \o o
                    /\ Brings(o, Len(g.log) + 1, g.relayTip)
              /\ Len(AppendLocal(d, g, kind, at).log) = Len(g.log) + 1
              /\ AppendLocal(d, g, kind, at).relayTip = g.relayTip
              /\ AppendLocal(d, g, kind, at).connected
            BY <2>2, <2>3, AppendLocalSays
        <3> QED
            BY <3>1, <3>2
    <2> QED
        BY <2>1, <2>2, <2>4
<1>4. PICK o \in Seq(Plain) : e.out = o /\ Brings(o, Len(dlog[d]) + 1, relayTipSeq[d])
    <2>1. \A o \in Seq(Plain) : <<>> \o o = o
        OBVIOUS
    <2> QED
        BY <1>1, <1>3, <2>1
<1>5. PICK u, dn, k, l, r, n :
          /\ u = up[sock[d]] /\ dn = down[sock[d]] /\ k = keyHash[sock[d]]
          /\ l = Len(dlog[d]) /\ r = relayTipSeq[d] /\ n = Len(log)
    OBVIOUS
<1>6. /\ u \in Seq(GoodClientMessage) /\ dn \in Seq(GoodMessage) /\ l \in Nat /\ r \in Tip
      /\ n \in Nat
    BY <1>5, ConnectionTyped
<1>7. n <= l /\ ExpectedAuthor(l) = PlayerOf[d]
    <2>1. Grown(d, dlog[d])
        BY GrownByNothing
    <2> QED
        BY <1>5, <2>1, SealerKnowsAll
<1>8. TheirsUpTo(d, l, n)
    BY <1>5 DEF Heard
<1>9. o \in Seq(GoodClientMessage)
    BY PlainMessages
<1>10. Sure(d, u, l, r, n) => Sure(d, u \o o, l + 1, r, n)
    BY <1>4, <1>5, <1>6, <1>7, <1>8, <1>9, SureWrites
<1>11. \A t \in Int : TheirsUpTo(d, l, t) => TheirsUpTo(d, l + 1, t)
    BY <1>6, <1>7, TheirsWrites
<1>12. Phase(d, u, dn, k, l, r, n)
    BY <1>5 DEF InPhase
<1>13. Phase(d, u \o o, dn, k, l + 1, r, n)
    BY <1>6, <1>10, <1>11, <1>12, PhaseActs
<1>14. down'[sock[d]] = dn /\ UNCHANGED <<log, keyHash>>
    BY <1>5 DEF roomVars, socketVars, logVars
<1>15. Phase(d, up[sock[d]] \o e.out, down'[sock[d]], keyHash[sock[d]],
             Len(e.log), e.relayTip, Len(log))
    BY <1>3, <1>4, <1>5, <1>13, <1>14
<1> QED
    BY <1>2, <1>3, <1>14, <1>15, OwnTurn

LEMMA PlayOwn ==
    ASSUME Inv, OneLine, SeveralAtOnce, Heard, NEW d \in Device, InPhase(d),
           Move(d) \/ Resign(d)
    PROVE  InPhase(d)'
<1>1. PICK kind \in {"move", "resign"}, at \in Nat :
          /\ Writable(TipHash(dlog[d]), PlayerOf[d], kind, at)
          /\ Become(d, AppendLocal(d, Engine(d), kind, at))
          /\ IF kind = "move" THEN Move(d) /\ at = Head(playing[d])
             ELSE d \in plan.resigns /\ at = Len(dlog[d])
    BY PlayDue
<1>2. kind \in Kind /\ Sealed(d, dlog[d], kind, at)
    BY <1>1 DEF Kind, Sealed
<1>3. UNCHANGED <<sock, roomVars>>
    BY DEF Move, Resign
<1>4. CASE sock[d] = NoSocket
    BY <1>3, <1>4 DEF InPhase
<1>5. CASE sock[d] # NoSocket
    BY <1>1, <1>2, <1>3, <1>5, WriteOwn
<1> QED
    BY <1>4, <1>5

LEMMA AfterRollBackOwn ==
    ASSUME Inv, OneLine, SeveralAtOnce, Heard, NEW d \in Device, InPhase(d), AfterRollBack(d)
    PROVE  InPhase(d)'
<1>1. UNCHANGED <<sock, roomVars>> /\ Become(d, WritePrologueEntry(d, Engine(d)))
    BY DEF AfterRollBack
<1>2. CASE sock[d] = NoSocket
    BY <1>1, <1>2 DEF InPhase
<1>3. CASE sock[d] # NoSocket /\ WritePrologueEntry(d, Engine(d)) # Engine(d)
    <2>1. GoodEngine(Engine(d)) /\ Engine(d).log = dlog[d]
        BY <1>3, EngineSays
    <2>2. PICK kind \in {"join", "setup"} :
              /\ Len(dlog[d]) \in {0, 1}
              /\ Writable(TipHash(dlog[d]), PlayerOf[d], kind, Len(dlog[d]))
              /\ WritePrologueEntry(d, Engine(d))
                    = AppendLocal(d, Engine(d), kind, Len(dlog[d]))
        BY <1>3, <2>1, PrologueDue
    <2>3. /\ kind \in Kind /\ Len(dlog[d]) \in Nat
          /\ Sealed(d, dlog[d], kind, Len(dlog[d]))
        BY <2>2 DEF Kind, Sealed
    <2> QED
        BY <1>1, <1>3, <2>2, <2>3, WriteOwn
<1>4. CASE sock[d] # NoSocket /\ WritePrologueEntry(d, Engine(d)) = Engine(d)
    <2>1. PICK e : e = Engine(d)
        OBVIOUS
    <2>2. /\ e.log = dlog[d] /\ e.relayTip = relayTipSeq[d] /\ e.out = <<>> /\ e.connected
        BY <1>4, <2>1, EngineSays
    <2>3. up[sock[d]] \o <<>> = up[sock[d]]
        BY <1>4, ConnectionTyped
    <2>4. UNCHANGED <<log, keyHash, down>>
        BY <1>1 DEF roomVars, socketVars, logVars
    <2>5. Phase(d, up[sock[d]] \o e.out, down'[sock[d]], keyHash[sock[d]],
                Len(e.log), e.relayTip, Len(log))
        BY <1>4, <2>2, <2>3, <2>4 DEF InPhase
    <2> QED
        BY <1>1, <1>4, <2>1, <2>2, <2>4, <2>5, OwnTurn
<1> QED
    BY <1>2, <1>3, <1>4

\* A device that greets the room.
LEMMA ConnectOwn ==
    ASSUME Inv, NEW d \in Device, NEW s \in Socket, NEW opening \in BOOLEAN,
           Connect(d, s, opening)
    PROVE  InPhase(d)'
<1> DEFINE hello == [t |-> "hello", keyHash |-> PlayerOf[d]]
           old == Engine(d)
           new == [old EXCEPT !.relayTip = -1, !.status = "syncing",
                              !.connected = TRUE, !.out = <<hello>>]
           e == IF opening THEN WritePrologueEntry(d, new) ELSE new
<1>1. GoodEngine(old)
    BY EngineGood
<1>2. hello \in GoodClientMessage /\ hello.t = "hello"
    BY DeviceAssumption DEF GoodClientMessage
<1>3. up' = [up EXCEPT ![s] = e.out] /\ sock' = [sock EXCEPT ![d] = s] /\ Accept(s)
    BY DEF Connect
<1> HIDE DEF hello, old
<1>4. GoodEngine(new) /\ new.out = <<hello>> /\ new.connected
    <2>1. -1 \in Tip /\ "syncing" \in Status /\ <<hello>> \in Seq(GoodClientMessage)
        BY <1>2 DEF Tip, Status
    <2> QED
        BY <1>1, <2>1 DEF GoodEngine
<1> HIDE DEF new
<1>5. \E o \in Seq(Plain) : e.out = <<hello>> \o o
    <2>1. CASE opening /\ WritePrologueEntry(d, new) # new
        <3>1. PICK kind \in {"join", "setup"} :
                  /\ Len(new.log) \in {0, 1}
                  /\ Writable(TipHash(new.log), PlayerOf[d], kind, Len(new.log))
                  /\ WritePrologueEntry(d, new) = AppendLocal(d, new, kind, Len(new.log))
            BY <1>4, <2>1, PrologueDue
        <3>2. kind \in Kind /\ Len(new.log) \in Nat
            BY <3>1 DEF Kind
        <3>3. \E o \in Seq(Plain) :
                  AppendLocal(d, new, kind, Len(new.log)).out = new.out \o o
            BY <1>4, <3>1, <3>2, AppendLocalSays
        <3> QED
            BY <1>4, <2>1, <3>1, <3>3
    <2>2. CASE ~(opening /\ WritePrologueEntry(d, new) # new)
        <3>1. e.out = <<hello>>
            BY <1>4, <2>2
        <3>2. <<>> \in Seq(Plain) /\ <<hello>> \o <<>> = <<hello>>
            OBVIOUS
        <3> QED
            BY <3>1, <3>2
    <2> QED
        BY <2>1, <2>2
<1> HIDE DEF e
<1>6. PICK o \in Seq(Plain) : e.out = <<hello>> \o o
    BY <1>5
<1>7. e.out # <<>> /\ Head(e.out) = hello /\ Tail(e.out) = o
    BY <1>6
<1>8. <<>> \in Seq(NoState)
    OBVIOUS
<1>9. Asks(e.out, <<>>)
    BY <1>2, <1>7, <1>8 DEF Asks
<1>10. up'[s] = e.out /\ down'[s] = <<>> /\ sock'[d] = s
    BY <1>3 DEF Accept, Inv, Copies, GoodDevices, GoodRoom, GoodSockets
<1>11. Asks(up'[s], down'[s])
    BY <1>9, <1>10
<1> QED
    BY <1>10, <1>11 DEF InPhase, Phase, Asks

LEMMA LeaveOwn ==
    ASSUME Inv, NEW d \in Device, Drop(d) \/ Disconnect(d) PROVE InPhase(d)'
<1>1. sock'[d] = NoSocket
    BY DEF Drop, Disconnect, Inv, Copies, GoodSockets
<1> QED
    BY <1>1 DEF InPhase
-----------------------------------------------------------------------------
(* What a device receives.                                                   *)

\* It handles a message other than the answer to its greeting.
LEMMA TakeOwn ==
    ASSUME Inv, SeenInv, OneLine, Heard, evictions = 0, [Next]_syncVars,
           NEW d \in Device, NEW t, t # "state", Waiting(d, t), InPhase(d),
           NEW e, Take(d, e), e.out \in Seq(Plain), e.connected,
           up[sock[d]] \in Seq(Plain)
           /\ Sure(d, up[sock[d]], Len(dlog[d]), relayTipSeq[d], Len(log))
           => Sure(d, up[sock[d]] \o e.out, Len(e.log), e.relayTip, Len(log))
    PROVE  InPhase(d)'
<1>1. sock[d] # NoSocket /\ sock[d] \in Socket /\ down[sock[d]] # <<>>
      /\ Incoming(d) = Head(down[sock[d]]) /\ Incoming(d).t = t
    BY ConnectionTyped DEF Waiting, Incoming
<1>2. Become(d, e) /\ Delivered(sock[d]) /\ UNCHANGED sock
    BY DEF Take
<1>3. dlog'[d] = e.log
    BY <1>2 DEF Become, Inv, Copies, GoodDevices
<1>4. down'[sock[d]] = Tail(down[sock[d]]) /\ UNCHANGED <<log, keyHash>>
    BY <1>1, <1>2 DEF Delivered, logVars, Inv, Copies, GoodRoom
<1>5. PICK u, dn, k, l, r, n :
          /\ u = up[sock[d]] /\ dn = down[sock[d]] /\ k = keyHash[sock[d]]
          /\ l = Len(dlog[d]) /\ r = relayTipSeq[d] /\ n = Len(log)
    OBVIOUS
<1>6. u \in Seq(GoodClientMessage) /\ dn \in Seq(GoodMessage) /\ Phase(d, u, dn, k, l, r, n)
    BY <1>1, <1>5, ConnectionTyped DEF InPhase
<1>7. ASSUME NEW x \in Int, TheirsUpTo(d, l, x),
             Head(dn).t = "entries" =>
                \A j \in DOMAIN Head(dn).entries : Len(Head(dn).entries[j]) <= x
      PROVE  TheirsUpTo(d, Len(e.log), x)
    <2>1. \A c \in Handed(d) : Len(c) <= x
        BY <1>1, <1>5, <1>7 DEF Handed, Waiting
    <2> QED
        BY <1>3, <1>5, <1>7, <2>1, OnlyLengthens, TheirsGrow
<1>8. Phase(d, u \o e.out, Tail(dn), k, Len(e.log), e.relayTip, n)
    BY <1>1, <1>5, <1>6, <1>7, PhaseTakes
<1>9. Phase(d, up[sock[d]] \o e.out, down'[sock[d]], keyHash[sock[d]],
            Len(e.log), e.relayTip, Len(log))
    BY <1>4, <1>5, <1>8
<1> QED
    BY <1>1, <1>2, <1>4, <1>9, OwnTurn

\* It handles the answer.
LEMMA ToldOwn ==
    ASSUME Inv, Heard, NEW d \in Device, Waiting(d, "state"), InPhase(d),
           NEW e, Take(d, e), e.out \in Seq(Plain), e.connected, Len(e.log) = Len(dlog[d]),
           TheirsUpTo(d, Len(dlog[d]), Incoming(d).tipSeq + 1)
           => Sure(d, up[sock[d]] \o e.out, Len(dlog[d]), e.relayTip, Len(log))
    PROVE  InPhase(d)'
<1>1. sock[d] # NoSocket /\ sock[d] \in Socket /\ down[sock[d]] # <<>>
      /\ Incoming(d) = Head(down[sock[d]]) /\ Incoming(d).t = "state"
    BY ConnectionTyped DEF Waiting, Incoming
<1>2. Become(d, e) /\ Delivered(sock[d]) /\ UNCHANGED sock
    BY DEF Take
<1>3. down'[sock[d]] = Tail(down[sock[d]]) /\ UNCHANGED <<log, keyHash>>
    BY <1>1, <1>2 DEF Delivered, logVars, Inv, Copies, GoodRoom
<1>4. PICK u, dn, k, l, r, n :
          /\ u = up[sock[d]] /\ dn = down[sock[d]] /\ k = keyHash[sock[d]]
          /\ l = Len(dlog[d]) /\ r = relayTipSeq[d] /\ n = Len(log)
    OBVIOUS
<1>5. u \in Seq(GoodClientMessage) /\ dn \in Seq(GoodMessage) /\ Phase(d, u, dn, k, l, r, n)
    BY <1>1, <1>4, ConnectionTyped DEF InPhase
<1>6. Phase(d, u \o e.out, Tail(dn), k, l, e.relayTip, n)
    BY <1>1, <1>4, <1>5, PhaseTold
<1>7. Phase(d, up[sock[d]] \o e.out, down'[sock[d]], keyHash[sock[d]],
            Len(e.log), e.relayTip, Len(log))
    BY <1>3, <1>4, <1>6
<1> QED
    BY <1>1, <1>2, <1>3, <1>7, OwnTurn

\* What the answer says, and the engine that has heard it.
LEMMA ToldSays ==
    ASSUME Inv, Heard, NEW d \in Device, Waiting(d, "state")
    PROVE  /\ Incoming(d).tipSeq \in Tip /\ Incoming(d).tipSeq < Len(log)
           /\ Incoming(d).tombstone = GenesisPrevHash
           /\ GoodEngine(Told(d)) /\ Told(d).log = dlog[d] /\ Told(d).out = <<>>
           /\ Told(d).relayTip = Incoming(d).tipSeq /\ Told(d).connected
<1>1. sock[d] # NoSocket /\ sock[d] \in Socket /\ down[sock[d]] # <<>>
      /\ Incoming(d) = Head(down[sock[d]]) /\ Incoming(d).t = "state"
    BY ConnectionTyped DEF Waiting, Incoming
<1>2. Incoming(d) \in Within(Len(log))
    <2>1. down[sock[d]] \in Seq(Within(Len(log)))
        BY <1>1 DEF Heard
    <2> QED
        BY <1>1, <2>1, HeadTailProperties
<1>3. Incoming(d).tipSeq \in Tip
    BY <1>1, IncomingGood DEF GoodMessage
<1>4. GoodEngine(Told(d))
    BY ToldGood
<1>5. /\ Told(d).log = dlog[d] /\ Told(d).out = <<>> /\ Told(d).connected
      /\ Told(d).relayTip = Incoming(d).tipSeq
    BY <1>1 DEF Told, Engine
<1> QED
    BY <1>1, <1>2, <1>3, <1>4, <1>5 DEF Within

LEMMA StateOwn ==
    ASSUME Inv, SeveralAtOnce, Heard, NEW d \in Device, InPhase(d),
           OnStateRefused(d) \/ OnStateAhead(d) \/ OnStateBehind(d) \/ OnStateLevel(d)
    PROVE  InPhase(d)'
<1>1. Waiting(d, "state")
    BY DEF OnStateRefused, OnStateAhead, OnStateBehind, OnStateLevel
<1>2. PICK g, r, u, l, n :
          /\ g = Told(d) /\ r = Incoming(d).tipSeq /\ u = up[sock[d]] /\ l = Len(dlog[d])
          /\ n = Len(log)
    OBVIOUS
<1>3. /\ r \in Tip /\ r < n /\ Incoming(d).tombstone = GenesisPrevHash
      /\ GoodEngine(g) /\ g.log = dlog[d] /\ g.out = <<>> /\ g.relayTip = r /\ g.connected
    BY <1>1, <1>2, ToldSays
<1>4. l \in Nat /\ n \in Nat /\ u \in Seq(GoodClientMessage) /\ sock[d] # NoSocket
    BY <1>1, <1>2, ConnectionTyped DEF Waiting
<1>5. ~OnStateRefused(d)
    BY <1>3 DEF OnStateRefused, RefusesTombstone
<1>6. r + 1 <= n
    BY <1>3, <1>4 DEF Tip
<1>7. CASE OnStateAhead(d)
    <2>1. Take(d, Settle(Flush(g)))
        BY <1>2, <1>7 DEF OnStateAhead
    <2>2. /\ GoodEngine(Flush(g)) /\ Flush(g).log = g.log /\ Flush(g).relayTip = r
          /\ Flush(g).connected
        BY <1>3, FlushGood, FlushSays
    <2>3. PICK o \in Seq(Plain) : Flush(g).out = g.out \o o /\ Brings(o, Len(g.log), g.relayTip)
        BY <1>3, FlushSays
    <2>4. Flush(g).out = o /\ Brings(o, l, r)
        BY <1>2, <1>3, <2>3
    <2>5. PICK e : e = Settle(Flush(g))
        OBVIOUS
    <2>6. /\ e.log = dlog[d] /\ e.relayTip = r /\ e.out = o /\ e.connected
        BY <1>3, <2>2, <2>4, <2>5, SettleSays
    <2>7. TheirsUpTo(d, l, r + 1) => Sure(d, u \o o, l, r, n)
        BY <1>3, <1>4, <1>6, <2>4, SureTold, PlainMessages
    <2> QED
        BY <1>1, <1>2, <2>1, <2>5, <2>6, <2>7, ToldOwn
<1>8. ASSUME NEW e, Take(d, e), e.log = dlog[d], e.relayTip = r, e.out \in Seq(Plain),
             e.connected, l <= r + 1
      PROVE  InPhase(d)'
    <2>1. Sure(d, u \o e.out, l, r, n)
        BY <1>3, <1>4, <1>6, <1>8, SureHas DEF Tip
    <2> QED
        BY <1>1, <1>2, <1>8, <2>1, ToldOwn
<1>9. TipSeq(dlog[d]) = l - 1
    BY <1>2 DEF TipSeq
<1>10. CASE OnStateBehind(d)
    <2>1. PICK m : m = [t |-> "req", fromSeq |-> Len(dlog[d])]
        OBVIOUS
    <2>2. Take(d, Send(g, m))
        BY <1>2, <1>10, <2>1 DEF OnStateBehind
    <2>3. m \in Plain
        BY <1>2, <1>4, <2>1 DEF Plain, GoodClientMessage
    <2>4. PICK e : e = Send(g, m)
        OBVIOUS
    <2>5. /\ e.log = dlog[d] /\ e.relayTip = r /\ e.out = Append(<<>>, m) /\ e.connected
        BY <1>3, <2>4 DEF Send, GoodEngine
    <2>6. e.out \in Seq(Plain)
        BY <2>3, <2>5
    <2>7. l <= r + 1
        BY <1>2, <1>3, <1>4, <1>9, <1>10 DEF OnStateBehind, Tip
    <2> QED
        BY <1>8, <2>2, <2>4, <2>5, <2>6, <2>7
<1>11. CASE OnStateLevel(d)
    <2>1. PICK e : e = IF Incoming(d).tipHash = TipHash(dlog[d]) THEN Settle(g)
                       ELSE [g EXCEPT !.status = "diverged"]
        OBVIOUS
    <2>2. Take(d, e)
        BY <1>2, <1>11, <2>1 DEF OnStateLevel
    <2>3. /\ e.log = dlog[d] /\ e.relayTip = r /\ e.out = <<>> /\ e.connected
        <3>1. CASE e = Settle(g)
            BY <1>3, <3>1, SettleSays
        <3>2. CASE e = [g EXCEPT !.status = "diverged"]
            BY <1>3, <3>2 DEF GoodEngine
        <3> QED
            BY <2>1, <3>1, <3>2
    <2>4. l <= r + 1 /\ <<>> \in Seq(Plain)
        BY <1>2, <1>3, <1>4, <1>9, <1>11 DEF OnStateLevel, Tip
    <2> QED
        BY <1>8, <2>2, <2>3, <2>4
<1> QED
    BY <1>5, <1>7, <1>10, <1>11

LEMMA AppendedOwn ==
    ASSUME Inv, SeenInv, OneLine, Heard, evictions = 0, [Next]_syncVars,
           NEW d \in Device, InPhase(d), OnAppended(d)
    PROVE  InPhase(d)'
<1>1. Waiting(d, "appended")
    BY DEF OnAppended
<1>2. PICK g, q, u, l, r, n :
          /\ g = Engine(d) /\ q = Incoming(d).tipSeq /\ u = up[sock[d]] /\ l = Len(dlog[d])
          /\ r = relayTipSeq[d] /\ n = Len(log)
    OBVIOUS
<1>3. /\ l \in Nat /\ n \in Nat /\ u \in Seq(GoodClientMessage) /\ sock[d] # NoSocket
      /\ sock[d] \in Socket /\ r \in Tip
    BY <1>1, <1>2, ConnectionTyped DEF Waiting
<1>4. GoodEngine(g) /\ g.log = dlog[d] /\ g.relayTip = r /\ g.out = <<>> /\ g.connected
    BY <1>2, <1>3, EngineSays
<1>5. q \in Tip /\ q < n
    <2>1. down[sock[d]] # <<>> /\ Incoming(d) = Head(down[sock[d]]) /\ Incoming(d).t = "appended"
        BY <1>1 DEF Waiting, Incoming
    <2>2. Incoming(d) \in Within(Len(log))
        <3>1. down[sock[d]] \in Seq(Within(Len(log)))
            BY <1>3 DEF Heard
        <3> QED
            BY <2>1, <3>1, HeadTailProperties
    <2>3. Incoming(d).tipSeq \in Tip
        BY <1>1, IncomingGood DEF GoodMessage
    <2> QED
        BY <1>2, <2>1, <2>2, <2>3 DEF Within
<1>6. PICK e : e = IF q < 0 THEN g ELSE Settle(Flush(Confirm(g, q)))
    OBVIOUS
<1>7. Take(d, e)
    BY <1>2, <1>6 DEF OnAppended
<1>8. CASE q < 0
    <2>1. e = g /\ <<>> \in Seq(Plain) /\ u \o <<>> = u
        BY <1>3, <1>6, <1>8
    <2> QED
        BY <1>1, <1>2, <1>4, <1>7, <2>1, TakeOwn
<1>9. CASE ~(q < 0)
    <2>1. PICK c : c = Confirm(g, q)
        OBVIOUS
    <2>2. /\ GoodEngine(c) /\ c.log = dlog[d] /\ c.out = <<>> /\ c.connected
          /\ c.relayTip \in Tip /\ c.relayTip \in {q, r} /\ r <= c.relayTip
        BY <1>4, <1>5, <2>1, ConfirmGood, ConfirmSays
    <2>3. PICK o \in Seq(Plain) : Flush(c).out = c.out \o o
        BY <2>2, FlushSays
    <2>4. /\ GoodEngine(Flush(c)) /\ Flush(c).log = dlog[d] /\ Flush(c).relayTip = c.relayTip
          /\ Flush(c).connected /\ Flush(c).out = o
        BY <2>2, <2>3, FlushSays, FlushGood
    <2>5. e = Settle(Flush(c))
        BY <1>6, <1>9, <2>1
    <2>6. /\ e.log = dlog[d] /\ e.relayTip = c.relayTip /\ e.out = o /\ e.connected
        BY <2>4, <2>5, SettleSays
    <2>7. c.relayTip + 1 <= n \/ c.relayTip = r
        BY <1>3, <1>5, <2>2 DEF Tip
    <2>8. ASSUME Sure(d, u, l, r, n) PROVE Sure(d, u \o o, l, c.relayTip, n)
        <3>1. Sure(d, u, l, c.relayTip, n)
            BY <1>3, <2>2, <2>7, <2>8, SureConfirms
        <3> QED
            BY <1>3, <2>2, <3>1, SureSends, PlainMessages
    <2> QED
        BY <1>1, <1>2, <1>7, <2>6, <2>8, TakeOwn
<1> QED
    BY <1>8, <1>9

LEMMA ErrorOwn ==
    ASSUME Inv, SeenInv, OneLine, Heard, evictions = 0, [Next]_syncVars,
           NEW d \in Device, InPhase(d), OnError(d)
    PROVE  InPhase(d)'
<1>1. Waiting(d, "err") /\ sock[d] # NoSocket
    BY DEF OnError, Waiting
<1>2. PICK g, e : g = Engine(d) /\ e = [g EXCEPT !.status = "refused"]
    OBVIOUS
<1>3. /\ GoodEngine(g) /\ g.log = dlog[d] /\ g.relayTip = relayTipSeq[d] /\ g.out = <<>>
      /\ g.connected
    BY <1>1, <1>2, EngineSays
<1>4. /\ e.log = dlog[d] /\ e.relayTip = relayTipSeq[d] /\ e.out = <<>> /\ e.connected
    BY <1>2, <1>3 DEF GoodEngine
<1>5. Take(d, e)
    BY <1>2 DEF OnError
<1>6. <<>> \in Seq(Plain) /\ up[sock[d]] \o <<>> = up[sock[d]]
    BY <1>1, ConnectionTyped
<1> QED
    BY <1>1, <1>4, <1>5, <1>6, TakeOwn

\* What a run holds from a sequence on is a run.
LEMMA BeyondRun ==
    ASSUME NEW b \in Run, NEW S, b \in Seq(S), NEW n \in Nat
    PROVE  Beyond(b, n) \in Seq(S) /\ Beyond(b, n) \in Run
<1>1. b \in Seq(Good) /\ b \in Seq(Entry) /\ IsRun(b) /\ Len(b) \in Nat /\ DOMAIN b = 1 .. Len(b)
    BY GoodAreEntries, LenProperties DEF Run
<1>2. Beyond(b, n) \in Seq(S) /\ Beyond(b, n) \in Seq(Good)
    BY <1>1, BeyondWithin
<1>3. CASE b = <<>> \/ n <= SeqOf(b[1])
    BY <1>2, <1>3 DEF Beyond
<1>4. CASE ~(b = <<>> \/ n <= SeqOf(b[1]))
    <2>1. 1 \in 1 .. Len(b)
        BY <1>1, <1>4, EmptySeq
    <2>2. SeqOf(b[1]) \in Nat
        BY <1>1, <2>1, ElementOfSeq, EntryFacts
    <2>3. PICK m : m = n - SeqOf(b[1]) + 1
        OBVIOUS
    <2>4. m \in Nat \ {0}
        BY <1>4, <2>2, <2>3
    <2>5. PICK c : c = SubSeq(b, m, Len(b))
        OBVIOUS
    <2>6. Beyond(b, n) = c
        BY <1>4, <2>3, <2>5 DEF Beyond
    <2>7. CASE m <= Len(b)
        <3>1. m <= Len(b) + 1
            BY <1>1, <2>4, <2>7
        <3>2. /\ Len(c) = Len(b) - m + 1
              /\ \A i \in 1 .. (Len(b) - m + 1) : c[i] = b[m + i - 1]
            BY <1>1, <2>4, <2>5, <3>1, Stretch
        <3>3. DOMAIN c = 1 .. (Len(b) - m + 1)
            BY <1>2, <2>6, <3>2, LenProperties
        <3>4. ASSUME NEW i \in 1 .. (Len(b) - m + 1)
              PROVE  SeqOf(c[i]) = SeqOf(b[1]) + (m + i - 1) - 1
            <4>1. m + i - 1 \in DOMAIN b
                BY <1>1, <2>4
            <4>2. c[i] = b[m + i - 1]
                BY <3>2
            <4> QED
                BY <1>1, <4>1, <4>2 DEF IsRun
        <3>5. SeqOf(c[1]) = SeqOf(b[1]) + (m + 1 - 1) - 1
            BY <1>1, <2>4, <2>7, <3>4
        <3>6. \A i \in DOMAIN c : SeqOf(c[i]) = SeqOf(c[1]) + i - 1
            BY <2>2, <2>4, <3>3, <3>4, <3>5
        <3> QED
            BY <1>2, <2>6, <3>6 DEF Run, IsRun
    <2>8. CASE ~(m <= Len(b))
        <3>1. c = <<>>
            BY <1>1, <2>4, <2>5, <2>8, SubSeqEmpty
        <3>2. <<>> \in Run
            BY EmptySeq DEF Run, IsRun
        <3> QED
            BY <1>2, <2>6, <3>1, <3>2
    <2> QED
        BY <2>7, <2>8
<1> QED
    BY <1>3, <1>4

\* Of a run of entries of the line, a log takes all or none.
LEMMA TakenAllOrNothing ==
    ASSUME NEW M \in Line, NEW l \in Seq(OnLine(M)), Linked(l),
           NEW b \in Run, b \in Seq(OnLine(M)), NEW k, k = Taken(l, b), k < Len(b)
    PROVE  k = 0
<1>1. /\ M \in Seq(Body) /\ l \in Seq(Good) /\ b \in Seq(Good) /\ IsRun(b)
      /\ Len(l) \in Nat /\ Len(b) \in Nat /\ DOMAIN b = 1 .. Len(b)
    BY LineFacts, SeqMonotonic, LenProperties DEF Run, OnLine
<1>2. /\ k \in 0 .. Len(b)
      /\ \A j \in 1 .. k : Continues(l \o SubSeq(b, 1, j - 1), b[j])
      /\ ~Continues(l \o SubSeq(b, 1, k), b[k + 1])
    BY <1>1, TakenStops
<1> SUFFICES ASSUME k # 0 PROVE FALSE
    OBVIOUS
<1>3. k \in Nat /\ k \in 1 .. Len(b) /\ k + 1 \in 1 .. Len(b) /\ 1 \in 1 .. k /\ 1 \in 1 .. Len(b)
    BY <1>1, <1>2
<1>4. SeqOf(b[1]) = Len(l)
    <2>1. Continues(l \o SubSeq(b, 1, 1 - 1), b[1])
        BY <1>2, <1>3
    <2>2. l \o SubSeq(b, 1, 1 - 1) = l
        BY SubSeqEmpty, ConcatEmptySeq, <1>1
    <2> QED
        BY <2>1, <2>2 DEF Continues
<1>5. PICK t, g : t = SubSeq(b, 1, k) /\ g = l \o t
    OBVIOUS
<1>6. t \in Seq(OnLine(M)) /\ Len(t) = k
    <2>1. 1 <= k + 1 /\ k <= Len(b)
        BY <1>1, <1>3
    <2>2. t \in Seq(OnLine(M)) /\ Len(t) = k - 1 + 1
        BY <1>3, <1>5, <2>1, Stretch
    <2> QED
        BY <1>3, <2>2
<1>7. g \in Seq(OnLine(M)) /\ Len(g) = Len(l) + k /\ Linked(g)
    <2>1. g \in Seq(OnLine(M)) /\ Len(g) = Len(l) + k
        BY <1>5, <1>6, ConcatProperties
    <2>2. Linked(g)
        BY <1>1, <1>5, TakenLinked
    <2> QED
        BY <2>1, <2>2
<1>8. IsPrefixOf(TipHash(g), M) /\ Len(TipHash(g)) = Len(l) + k
    BY <1>1, <1>7, TipOnLine
<1>9. SeqOf(b[k + 1]) = Len(l) + k
    <2>1. SeqOf(b[k + 1]) = SeqOf(b[1]) + (k + 1) - 1
        BY <1>1, <1>3 DEF IsRun
    <2> QED
        BY <1>1, <1>3, <1>4, <2>1
<1>10. IsPrefixOf(PrevOf(b[k + 1]), M) /\ Len(PrevOf(b[k + 1])) = SeqOf(b[k + 1])
    BY <1>1, <1>3, ElementOfSeq, OnLineFacts
<1>11. PrevOf(b[k + 1]) = TipHash(g)
    BY <1>8, <1>9, <1>10, SameLength
<1> QED
    BY <1>2, <1>5, <1>7, <1>9, <1>11 DEF Continues

\* The entries a device is handed are a run of the line.
LEMMA EntriesOnLine ==
    ASSUME Inv, Heard, NEW M \in Line, MessagesOn(M), NEW d \in Device, Waiting(d, "entries")
    PROVE  Incoming(d).entries \in Run /\ Incoming(d).entries \in Seq(OnLine(M))
<1>1. /\ sock[d] \in Socket /\ down[sock[d]] # <<>>
      /\ Incoming(d) = Head(down[sock[d]]) /\ Incoming(d).t = "entries"
    BY ConnectionTyped DEF Waiting, Incoming
<1>2. down[sock[d]] \in Seq(Within(Len(log))) /\ down[sock[d]] \in Seq(Answering(OnLine(M)))
    BY <1>1 DEF Heard, MessagesOn
<1>3. Incoming(d) \in Within(Len(log)) /\ Incoming(d) \in Answering(OnLine(M))
    BY <1>1, <1>2, HeadTailProperties
<1> QED
    BY <1>1, <1>3 DEF Within, Answering, Bearing

\* The last of them that a log takes tells how long it is then.
LEMMA TakenShort ==
    ASSUME Inv, SeenInv, evictions = 0, NEW d \in Device, NEW b \in Seq(Handed(d)), b # <<>>,
           NEW l, l = dlog[d] \o b, l \in Seq(Good), Linked(l)
    PROVE  Len(l) <= Len(log) /\ Len(dlog[d]) <= Len(l)
<1>1. dlog[d] \in Seq(Good) /\ Len(dlog[d]) \in Nat
    BY LenProperties DEF Inv, Copies, GoodDevices
<1>2. Len(b) \in Nat \ {0} /\ b[Len(b)] \in Handed(d)
    BY EmptySeq, LenProperties, ElementOfSeq
<1>3. Len(l) = Len(dlog[d]) + Len(b) /\ l[Len(dlog[d]) + Len(b)] = b[Len(b)]
    BY <1>1, <1>2, ConcatProperties
<1>4. Len(l) \in 1 .. Len(l)
    BY <1>1, <1>2, <1>3
<1>5. Len(l[Len(l)]) = Len(l)
    BY <1>4, EntryOfTip
<1>6. Len(b[Len(b)]) <= Len(log)
    BY <1>2, HandedShort
<1> QED
    BY <1>1, <1>2, <1>3, <1>5, <1>6

\* Going on with the prologue, on entries the room has.
LEMMA PrologueSays ==
    ASSUME Inv, OneLine, SeveralAtOnce, NEW d \in Device,
           NEW e, GoodEngine(e), e.connected, e.out = <<>>, Grown(d, e.log),
           NEW n, n = Len(log), Len(e.log) <= n,
           NEW u \in Seq(GoodClientMessage), NEW w, w = WritePrologueEntry(d, e)
    PROVE  /\ GoodEngine(w) /\ w.connected /\ w.out \in Seq(Plain)
           /\ Sure(d, u, Len(e.log), e.relayTip, n)
              => Sure(d, u \o w.out, Len(w.log), w.relayTip, n)
<1>1. GoodEngine(w) /\ w.connected
    BY WritePrologueGood
<1>2. CASE w = e
    <2>1. <<>> \in Seq(Plain) /\ u \o <<>> = u
        OBVIOUS
    <2> QED
        BY <1>1, <1>2, <2>1
<1>3. CASE w # e
    <2>1. PICK kind \in {"join", "setup"} :
              /\ Len(e.log) \in {0, 1}
              /\ Writable(TipHash(e.log), PlayerOf[d], kind, Len(e.log))
              /\ w = AppendLocal(d, e, kind, Len(e.log))
        BY <1>3, PrologueDue
    <2>2. kind \in Kind /\ Len(e.log) \in Nat /\ Sealed(d, e.log, kind, Len(e.log))
        BY <2>1 DEF Kind, Sealed
    <2>3. PICK l, r : l = Len(e.log) /\ r = e.relayTip
        OBVIOUS
    <2>4. /\ \E o \in Seq(Plain) :
                /\ AppendLocal(d, e, kind, Len(e.log)).out = e.out \o o
                /\ Brings(o, Len(e.log) + 1, e.relayTip)
          /\ Len(AppendLocal(d, e, kind, Len(e.log)).log) = Len(e.log) + 1
          /\ AppendLocal(d, e, kind, Len(e.log)).relayTip = e.relayTip
        BY <2>1, <2>2, AppendLocalSays
    <2>5. PICK o \in Seq(Plain) : w.out = <<>> \o o /\ Brings(o, l + 1, r)
        BY <2>1, <2>3, <2>4
    <2>6. w.out = o /\ Len(w.log) = l + 1 /\ w.relayTip = r
        BY <2>1, <2>3, <2>4, <2>5
    <2>7. l \in Nat /\ r \in Tip /\ n \in Nat
        BY <2>3, ConnectionTyped, LenProperties DEF GoodEngine
    <2>8. n <= l /\ ExpectedAuthor(l) = PlayerOf[d]
        BY <2>1, <2>2, <2>3, SealerKnowsAll
    <2>9. TheirsUpTo(d, l, n) /\ o \in Seq(GoodClientMessage)
        BY <2>3, <2>7, TheirsAll, PlainMessages
    <2>10. Sure(d, u, l, r, n) => Sure(d, u \o o, l + 1, r, n)
        BY <2>5, <2>7, <2>8, <2>9, SureWrites
    <2> QED
        BY <1>1, <2>3, <2>6, <2>10
<1> QED
    BY <1>2, <1>3

\* Sending what is left, and settling.
LEMMA FinishSays ==
    ASSUME NEW d \in Device, NEW e, GoodEngine(e), e.connected, e.out \in Seq(Plain),
           NEW n \in Nat, NEW u \in Seq(GoodClientMessage),
           NEW w, w = Settle(Flush(e))
    PROVE  /\ w.connected /\ w.out \in Seq(Plain) /\ w.log = e.log
           /\ Sure(d, u \o e.out, Len(e.log), e.relayTip, n)
              => Sure(d, u \o w.out, Len(w.log), w.relayTip, n)
<1>1. PICK f, q : f = Flush(e) /\ q = e.out
    OBVIOUS
<1>2. GoodEngine(f) /\ f.log = e.log /\ f.relayTip = e.relayTip /\ f.connected
    BY <1>1, FlushGood, FlushSays
<1>3. PICK o \in Seq(Plain) : f.out = q \o o
    BY <1>1, FlushSays
<1>4. /\ w.log = e.log /\ w.relayTip = e.relayTip /\ w.out = q \o o /\ w.connected
    BY <1>1, <1>2, <1>3, SettleSays
<1>5. q \in Seq(Plain) /\ q \in Seq(GoodClientMessage) /\ o \in Seq(GoodClientMessage)
    BY <1>1, PlainMessages
<1>6. w.out \in Seq(Plain)
    BY <1>4, <1>5, ConcatProperties
<1>7. u \o w.out = (u \o q) \o o /\ u \o q \in Seq(GoodClientMessage)
    BY <1>4, <1>5
<1>8. Len(e.log) \in Nat /\ e.relayTip \in Tip
    BY LenProperties DEF GoodEngine
<1>9. Sure(d, u \o q, Len(e.log), e.relayTip, n)
      => Sure(d, (u \o q) \o o, Len(e.log), e.relayTip, n)
    BY <1>5, <1>7, <1>8, SureSends
<1> QED
    BY <1>1, <1>4, <1>6, <1>7, <1>9

\* It is handed entries.
LEMMA EntriesOwn ==
    ASSUME Inv, SeenInv, OneLine, SeveralAtOnce, Heard, evictions = 0, [Next]_syncVars,
           NEW d \in Device, InPhase(d), OnEntriesRefused(d) \/ OnEntries(d)
    PROVE  InPhase(d)'
<1>1. Waiting(d, "entries")
    BY DEF OnEntriesRefused, OnEntries
<1>2. PICK M \in Line : DevicesOn(M) /\ MessagesOn(M)
    BY DEF OneLine
<1>3. PICK g, b, k, u, r, n :
          /\ g = Engine(d) /\ b = Beyond(Incoming(d).entries, Len(dlog[d]))
          /\ k = Taken(dlog[d], b) /\ u = up[sock[d]] /\ r = relayTipSeq[d] /\ n = Len(log)
    OBVIOUS
<1>4. /\ n \in Nat /\ u \in Seq(GoodClientMessage) /\ sock[d] # NoSocket /\ r \in Tip
      /\ dlog[d] \in Seq(Good) /\ Linked(dlog[d]) /\ Len(dlog[d]) \in Nat
    BY <1>1, <1>3, ConnectionTyped DEF Waiting
<1>5. GoodEngine(g) /\ g.log = dlog[d] /\ g.relayTip = r /\ g.out = <<>> /\ g.connected
    BY <1>3, <1>4, EngineSays
<1>6. b \in Run /\ b \in Seq(OnLine(M)) /\ b \in Seq(Handed(d)) /\ b \in Seq(Good)
    <2>1. Incoming(d).entries \in Run /\ Incoming(d).entries \in Seq(OnLine(M))
        BY <1>1, <1>2, EntriesOnLine
    <2>2. Incoming(d).entries \in Seq(Handed(d))
        BY <1>1, <2>1, SeqOfItsOwn DEF Handed
    <2> QED
        BY <1>3, <1>4, <2>1, <2>2, BeyondRun DEF Run
<1>7. k < Len(b) => k = 0
    BY <1>2, <1>3, <1>6, TakenAllOrNothing, <1>4 DEF DevicesOn
<1>8. ASSUME NEW e, Take(d, e), e.connected, e.out \in Seq(Plain),
             Sure(d, u, Len(dlog[d]), r, n) => Sure(d, u \o e.out, Len(e.log), e.relayTip, n)
      PROVE  InPhase(d)'
    BY <1>1, <1>3, <1>8, TakeOwn
<1>9. CASE OnEntriesRefused(d)
    <2>1. k < Len(b) /\ Take(d, [g EXCEPT !.log = @ \o SubSeq(b, 1, k), !.status = "refused"])
        BY <1>3, <1>9 DEF OnEntriesRefused
    <2>2. dlog[d] \o SubSeq(b, 1, k) = dlog[d]
        BY <1>4, <1>7, <2>1, SubSeqEmpty, ConcatEmptySeq
    <2>3. PICK e : e = [g EXCEPT !.log = @ \o SubSeq(b, 1, k), !.status = "refused"]
        OBVIOUS
    <2>4. /\ e.log = dlog[d] /\ e.relayTip = r /\ e.out = <<>> /\ e.connected
        BY <1>5, <2>2, <2>3 DEF GoodEngine
    <2>5. <<>> \in Seq(Plain) /\ u \o <<>> = u
        BY <1>4
    <2> QED
        BY <1>8, <2>1, <2>3, <2>4, <2>5
<1>10. CASE OnEntries(d)
    <2>1. PICK l : l = dlog[d] \o b
        OBVIOUS
    <2>2. PICK got : got = [g EXCEPT !.log = @ \o b]
        OBVIOUS
    <2>3. PICK known : known = Confirm(got, TipSeq(got.log))
        OBVIOUS
    <2>4. PICK e : e = IF b = <<>> THEN known ELSE WritePrologueEntry(d, known)
        OBVIOUS
    <2>5. k = Len(b) /\ Take(d, Settle(Flush(e)))
        BY <1>3, <1>10, <2>2, <2>3, <2>4 DEF OnEntries
    <2>6. l \in Seq(Good) /\ Linked(l) /\ Len(l) \in Nat /\ Grown(d, l)
        <3>1. SubSeq(b, 1, k) = b
            BY <1>6, <2>5, SubSeqFull
        <3>2. l \in Seq(Good) /\ Linked(l)
            BY <1>3, <1>4, <1>6, <2>1, <3>1, TakenLinked
        <3> QED
            BY <1>6, <2>1, <3>2, LenProperties DEF Grown
    <2>7. GoodEngine(got) /\ got.log = l /\ got.relayTip = r /\ got.out = <<>> /\ got.connected
        BY <1>5, <2>1, <2>2, <2>6 DEF GoodEngine
    <2>8. PICK q : q = TipSeq(got.log)
        OBVIOUS
    <2>9. q \in Tip /\ q = Len(l) - 1
        BY <2>6, <2>7, <2>8, TipOf DEF TipSeq
    <2>10. PICK x : x = known.relayTip
        OBVIOUS
    <2>11. /\ GoodEngine(known) /\ known.log = l /\ known.out = <<>> /\ known.connected
           /\ x \in Tip /\ x \in {q, r} /\ r <= x /\ q <= x
        <3>1. known = Confirm(got, q)
            BY <2>3, <2>8
        <3>2. GoodEngine(known) /\ known.connected
            BY <2>7, <2>9, <3>1, ConfirmGood
        <3>3. /\ known.log = got.log /\ known.out = got.out
              /\ known.relayTip \in Tip /\ known.relayTip \in {q, got.relayTip}
              /\ got.relayTip <= known.relayTip /\ q <= known.relayTip
            BY <2>7, <2>9, <3>1, ConfirmSays
        <3> QED
            BY <2>7, <2>10, <3>2, <3>3
    <2>12. /\ GoodEngine(e) /\ e.connected /\ e.out \in Seq(Plain)
           /\ Sure(d, u, Len(dlog[d]), r, n)
              => Sure(d, u \o e.out, Len(e.log), e.relayTip, n)
        <3>1. CASE b = <<>>
            <4>1. l = dlog[d] /\ e = known /\ <<>> \in Seq(Plain) /\ u \o <<>> = u
                BY <1>4, <2>1, <2>4, <3>1, ConcatEmptySeq
            <4>2. x + 1 <= Len(dlog[d]) \/ x = r
                BY <1>4, <2>9, <2>11, <4>1
            <4>3. Sure(d, u, Len(dlog[d]), r, n) => Sure(d, u, Len(dlog[d]), x, n)
                BY <1>4, <2>11, <4>2, SureConfirms
            <4> QED
                BY <2>10, <2>11, <4>1, <4>3
        <3>2. CASE b # <<>>
            <4>1. Len(l) <= n /\ Len(dlog[d]) <= Len(l)
                BY <1>3, <1>6, <2>1, <2>6, <3>2, TakenShort
            <4>2. Sure(d, u, Len(dlog[d]), r, n) => Sure(d, u, Len(l), x, n)
                <5> SUFFICES ASSUME Sure(d, u, Len(dlog[d]), r, n)
                             PROVE  Sure(d, u, Len(l), x, n)
                    OBVIOUS
                <5>1. r + 1 <= n \/ r + 1 <= Len(dlog[d])
                    BY DEF Sure
                <5>2. x + 1 <= n \/ x + 1 <= Len(l)
                    BY <1>4, <2>6, <2>9, <2>11, <4>1, <5>1 DEF Tip
                <5>3. Len(l) <= x + 1
                    BY <2>6, <2>9, <2>11 DEF Tip
                <5> QED
                    BY <1>4, <2>6, <2>11, <4>1, <5>2, <5>3, SureHas
            <4>3. e = WritePrologueEntry(d, known)
                BY <2>4, <3>2
            <4>4. Grown(d, known.log) /\ Len(known.log) <= n
                BY <2>6, <2>11, <4>1
            <4>5. /\ GoodEngine(e) /\ e.connected /\ e.out \in Seq(Plain)
                  /\ Sure(d, u, Len(known.log), known.relayTip, n)
                     => Sure(d, u \o e.out, Len(e.log), e.relayTip, n)
                BY <1>3, <1>4, <2>11, <4>3, <4>4, PrologueSays
            <4> QED
                BY <2>10, <2>11, <4>2, <4>5
        <3> QED
            BY <3>1, <3>2
    <2>13. PICK w : w = Settle(Flush(e))
        OBVIOUS
    <2>14. /\ w.connected /\ w.out \in Seq(Plain)
           /\ Sure(d, u \o e.out, Len(e.log), e.relayTip, n)
              => Sure(d, u \o w.out, Len(w.log), w.relayTip, n)
        BY <1>4, <2>12, <2>13, FinishSays
    <2> QED
        BY <1>8, <2>5, <2>12, <2>13, <2>14
<1> QED
    BY <1>9, <1>10
-----------------------------------------------------------------------------
(* What the room reads.                                                      *)

\* On the line, an append that leaves no gap is accepted.
LEMMA BridgeAccepted ==
    ASSUME Inv, NothingOversized, NEW M \in Seq(Body), log \in Seq(OnLine(M)),
           NEW b \in Run, b \in Seq(OnLine(M)), b # <<>>, SeqOf(b[1]) <= Len(log)
    PROVE  Accepts(b)
<1> SUFFICES ASSUME NEW k \in DOMAIN b, ~Fits(b, k) PROVE FALSE
    BY DEF Accepts
<1>1. /\ b \in Seq(Good) /\ IsRun(b) /\ Len(b) \in Nat /\ DOMAIN b = 1 .. Len(b)
      /\ k \in 1 .. Len(b) /\ Len(log) \in Nat
    BY LenProperties DEF Run
<1>2. b[k] \notin Oversized
    BY <1>1, ElementOfSeq DEF NothingOversized
<1>3. SeqOf(b[k]) > Expected(b, k).seq
    BY <1>2, FitsOnLine
<1>4. \A i \in 1 .. Len(b) : SeqOf(b[i]) \in Nat /\ SeqOf(b[i]) = SeqOf(b[1]) + i - 1
    BY <1>1, ElementOfSeq, OnLineFacts DEF IsRun
<1>5. CASE k > 1 /\ SeqOf(b[k - 1]) >= Len(log)
    <2>1. Expected(b, k).seq = SeqOf(b[k - 1]) + 1
        BY <1>5 DEF Expected
    <2>2. k - 1 \in 1 .. Len(b) /\ 1 \in 1 .. Len(b)
        BY <1>1, <1>5
    <2>3. SeqOf(b[k]) = SeqOf(b[k - 1]) + 1
        BY <1>1, <1>4, <2>2
    <2> QED
        BY <1>1, <1>3, <1>4, <2>1, <2>3
<1>6. CASE ~(k > 1 /\ SeqOf(b[k - 1]) >= Len(log))
    <2>1. Expected(b, k).seq = Len(log)
        BY <1>6 DEF Expected
    <2>2. SeqOf(b[k]) <= Len(log)
        <3>1. CASE k = 1
            BY <3>1
        <3>2. CASE k > 1
            <4>1. k - 1 \in 1 .. Len(b) /\ 1 \in 1 .. Len(b) /\ ~(SeqOf(b[k - 1]) >= Len(log))
                BY <1>1, <1>6, <3>2
            <4>2. SeqOf(b[k]) = SeqOf(b[k - 1]) + 1 /\ SeqOf(b[k - 1]) \in Nat
                BY <1>1, <1>4, <4>1
            <4> QED
                BY <1>1, <4>1, <4>2
        <3> QED
            BY <1>1, <3>1, <3>2
    <2>3. SeqOf(b[k]) \in Nat
        BY <1>1, <1>4
    <2> QED
        BY <1>1, <1>3, <2>1, <2>2, <2>3
<1> QED
    BY <1>5, <1>6

\* With what is staged of it, a log has all of an append.
LEMMA StagedReaches ==
    ASSUME NEW b \in Run, b # <<>>, NEW n \in Nat, SeqOf(b[1]) <= n
    PROVE  /\ Len(Beyond(b, n)) \in Nat
           /\ SeqOf(b[1]) + Len(b) <= n + Len(Beyond(b, n))
<1>1. /\ b \in Seq(Good) /\ Len(b) \in Nat /\ DOMAIN b = 1 .. Len(b) /\ 1 \in 1 .. Len(b)
    BY LenProperties, EmptySeq DEF Run
<1>2. SeqOf(b[1]) \in Nat
    BY <1>1, ElementOfSeq, EntryFacts, GoodAreEntries
<1>3. Beyond(b, n) \in Seq(Good) /\ Len(Beyond(b, n)) \in Nat
    BY <1>1, BeyondGood, LenProperties
<1>4. CASE n <= SeqOf(b[1])
    <2>1. Beyond(b, n) = b
        BY <1>4 DEF Beyond
    <2> QED
        BY <1>1, <1>2, <1>3, <1>4, <2>1
<1>5. CASE ~(n <= SeqOf(b[1]))
    <2>1. PICK m : m = n - SeqOf(b[1]) + 1
        OBVIOUS
    <2>2. m \in Nat \ {0}
        BY <1>2, <1>5, <2>1
    <2>3. PICK c : c = SubSeq(b, m, Len(b))
        OBVIOUS
    <2>4. Beyond(b, n) = c
        BY <1>5, <2>1, <2>3 DEF Beyond
    <2>5. CASE m <= Len(b)
        <3>1. m <= Len(b) + 1
            BY <1>1, <2>2, <2>5
        <3>2. Len(c) = Len(b) - m + 1
            BY <1>1, <2>2, <2>3, <3>1, Stretch
        <3> QED
            BY <1>1, <1>2, <1>3, <2>1, <2>4, <3>2
    <2>6. CASE ~(m <= Len(b))
        BY <1>1, <1>2, <1>3, <2>1, <2>4, <2>6
    <2> QED
        BY <2>5, <2>6
<1> QED
    BY <1>3, <1>4, <1>5

\* The message the room reads, and the handler it is for.
LEMMA ReadsHead ==
    ASSUME Inv, NEW s \in Socket, RoomReceive(s)
    PROVE  \/ Head(up[s]).t = "hello" /\ \E who \in Participant : OnHello(s, who)
           \/ /\ Head(up[s]).t = "append" /\ Head(up[s]).entries \in Run
              /\ OnAppend(s, Head(up[s]).entries)
           \/ Head(up[s]).t = "req" /\ \E n \in Nat : OnReq(s, n)
<1>1. up[s] \in Seq(GoodClientMessage) /\ up[s] # <<>>
    BY DEF RoomReceive, Inv, Copies, GoodDevices
<1>2. PICK m : m = Head(up[s])
    OBVIOUS
<1>3. m \in GoodClientMessage
    BY <1>1, <1>2, HeadTailProperties
<1>4. \/ m.t = "hello" /\ OnHello(s, m.keyHash)
      \/ m.t = "append" /\ OnAppend(s, m.entries)
      \/ m.t = "req" /\ OnReq(s, m.fromSeq)
    BY <1>2 DEF RoomReceive
<1>5. /\ m.t = "hello" => m.keyHash \in Participant
      /\ m.t = "append" => m.entries \in Run
      /\ m.t = "req" => m.fromSeq \in Nat
    BY <1>3 DEF GoodClientMessage
<1> QED
    BY <1>2, <1>4, <1>5

\* What a device behind an open connection gets to hear of it.
LEMMA SentHeard ==
    ASSUME Inv, NEW s \in open \ gone, NEW r \in Socket, NEW m, down' = Sent(r, m),
           m \in NoState \/ r # s
    PROVE  Hearing(down[s], down'[s])
<1>1. s \in Socket /\ down \in [Socket -> Seq(GoodMessage)]
    BY DEF Inv, Copies, GoodRoom
<1>2. CASE r = s
    <2>1. down'[s] = Append(down[s], m)
        BY <1>1, <1>2 DEF Sent
    <2> QED
        BY <1>2, <2>1 DEF Hearing
<1>3. CASE r # s
    <2>1. down'[s] = down[s]
        BY <1>1, <1>3 DEF Sent
    <2> QED
        BY <2>1 DEF Hearing
<1> QED
    BY <1>2, <1>3

LEMMA FanoutHeard ==
    ASSUME Inv, NEW s \in open \ gone, NEW r \in Socket, NEW b \in Seq(Good),
           down' = Fanout(r, b, Appended(TipSeq(log)))
    PROVE  Hearing(down[s], down'[s])
<1>1. s \in Socket
    BY DEF Inv, Copies, GoodRoom
<1>2. PICK m : m = IF s = r THEN Appended(TipSeq(log)) ELSE [t |-> "entries", entries |-> b]
    OBVIOUS
<1>3. m \in NoState
    BY <1>2, GoodMessages DEF NoState, Appended
<1>4. down'[s] = Append(down[s], m)
    BY <1>1, <1>2 DEF Fanout
<1> QED
    BY <1>3, <1>4 DEF Hearing

\* The room reads a message, not the device's greeting.
LEMMA RoomHeard ==
    ASSUME Inv, NEW s \in open \ gone, NEW r \in Socket, RoomReceive(r),
           r # s \/ Head(up[r]).t # "hello"
    PROVE  Hearing(down[s], down'[s]) /\ keyHash'[s] = keyHash[s]
<1>1. s \in Socket /\ keyHash \in [Socket -> Participant \cup {NoOne}]
    BY DEF Inv, Copies, GoodRoom
<1>2. ASSUME NEW who \in Participant, OnHello(r, who), r # s
      PROVE  Hearing(down[s], down'[s]) /\ keyHash'[s] = keyHash[s]
    BY <1>1, <1>2, SentHeard DEF OnHello
<1>3. ASSUME NEW n \in Nat, OnReq(r, n)
      PROVE  Hearing(down[s], down'[s]) /\ keyHash'[s] = keyHash[s]
    <2>1. PICK b : b = SubSeq(log, n + 1, Len(log))
        OBVIOUS
    <2>2. b \in Seq(Good)
        <3>1. n + 1 \in Nat \ {0} /\ log \in Seq(Good)
            BY DEF Inv, Copies, GoodRoom
        <3> QED
            BY <2>1, <3>1, TailWithin
    <2>3. [t |-> "entries", entries |-> b] \in NoState
        BY <2>2, GoodMessages DEF NoState
    <2> QED
        BY <1>3, <2>1, <2>3, SentHeard DEF OnReq
<1>4. ASSUME NEW b \in Run, OnAppend(r, b)
      PROVE  Hearing(down[s], down'[s]) /\ keyHash'[s] = keyHash[s]
    <2>1. \A c \in ErrorCode : [t |-> "err", code |-> c] \in NoState
        BY GoodMessages DEF NoState
    <2>2. "bad_message" \in ErrorCode /\ Refusal(b) \in ErrorCode
        BY DEF ErrorCode, Refusal
    <2>3. CASE AppendUnbound(r, b) \/ AppendRefused(r, b)
        BY <2>1, <2>2, <2>3, SentHeard DEF AppendUnbound, AppendRefused, Fail
    <2>4. CASE AppendKnown(r, b)
        BY <2>4, FanoutHeard DEF AppendKnown, Run
    <2>5. CASE AppendCommit(r, b)
        BY <2>5 DEF AppendCommit, socketVars, Hearing
    <2> QED
        BY <1>4, <2>3, <2>4, <2>5 DEF OnAppend
<1> QED
    BY <1>2, <1>3, <1>4, ReadsHead

\* A device whose connection and log stay as they are, while the room, which now
\* has n entries, has u still to read of it.
LEMMA PhaseStands ==
    ASSUME NEW d \in Device, sock[d] # NoSocket,
           sock'[d] = sock[d], dlog'[d] = dlog[d], relayTipSeq'[d] = relayTipSeq[d],
           NEW u, u = up'[sock[d]], NEW n, n = Len(log'),
           Phase(d, u, down'[sock[d]], keyHash'[sock[d]], Len(dlog[d]), relayTipSeq[d], n)
    PROVE  InPhase(d)'
<1>1. Phase(d, up'[sock'[d]], down'[sock'[d]], keyHash'[sock'[d]],
            Len(dlog'[d]), relayTipSeq'[d], Len(log'))
    OBVIOUS
<1> QED
    BY <1>1 DEF InPhase, Phase, Asks, Learns, Knows, TellsAt, Sure, TheirsUpTo, Covers, Bridges

\* The room reads what the device sent.
LEMMA RoomReadOwn ==
    ASSUME Inv, SeenInv, OneLine, NothingOversized, Heard, [Next]_syncVars,
           evictions = 0, evictions' = 0,
           NEW d \in Device, sock[d] # NoSocket, RoomReceive(sock[d]), InPhase(d)
    PROVE  InPhase(d)'
<1>1. PICK s, u, dn, k, l, r, n :
          /\ s = sock[d] /\ u = up[s] /\ dn = down[s] /\ k = keyHash[s]
          /\ l = Len(dlog[d]) /\ r = relayTipSeq[d] /\ n = Len(log)
    OBVIOUS
<1>2. /\ s \in Socket /\ s \in open \ gone /\ u \in Seq(GoodClientMessage)
      /\ dn \in Seq(GoodMessage) /\ l \in Nat /\ r \in Tip /\ n \in Nat /\ RoomReceive(s)
    BY <1>1, ConnectionTyped
<1>3. Phase(d, u, dn, k, l, r, n)
    BY <1>1 DEF InPhase
<1>4. u # <<>> /\ up'[s] = Tail(u) /\ UNCHANGED <<sock, dlog, relayTipSeq>>
    BY <1>1, <1>2 DEF RoomReceive, engineVars, Inv, Copies, GoodDevices
<1>5. PICK x : x = Len(log')
    OBVIOUS
<1>6. x \in Nat /\ n <= x
    BY <1>1, <1>5, LogGrows
<1>7. CASE Head(u).t = "hello"
    <2>1. PICK who \in Participant : OnHello(s, who)
        BY <1>1, <1>2, <1>7, ReadsHead
    <2>2. who # NoOne
        BY NoOneAssumption
    <2>3. PICK m : m = StateMessage
        OBVIOUS
    <2>4. keyHash'[s] = who /\ down'[s] = Append(dn, m) /\ log' = log
        BY <1>1, <1>2, <2>1, <2>3 DEF OnHello, Sent, logVars, Inv, Copies, GoodRoom
    <2>5. m.t = "state" /\ m.tipSeq + 1 = n
        BY <1>1, <1>2, <2>3 DEF StateMessage, TipSeq
    <2>6. TheirsUpTo(d, l, n)
        BY <1>1 DEF Heard
    <2>7. \A i \in DOMAIN dn : dn[i].t = "entries" =>
              \A j \in DOMAIN dn[i].entries : Len(dn[i].entries[j]) <= n
        <3> SUFFICES ASSUME NEW i \in DOMAIN dn, dn[i].t = "entries",
                            NEW j \in DOMAIN dn[i].entries
                     PROVE  Len(dn[i].entries[j]) <= n
            OBVIOUS
        <3>1. dn \in Seq(Bearing(HeldEntries))
            BY <1>1, <1>2 DEF SeenInv
        <3>2. dn[i] \in Bearing(HeldEntries)
            BY <3>1, ElementOfSeq, LenProperties
        <3>3. dn[i].entries \in Seq(HeldEntries)
            BY <3>2 DEF Bearing
        <3>4. dn[i].entries[j] \in HeldEntries
            BY <3>3, ElementOfSeq, LenProperties
        <3> QED
            BY <1>1, <3>4, HeldIsStored
    <2>8. Phase(d, Tail(u), Append(dn, m), who, l, r, n)
        BY <1>2, <1>3, <1>4, <1>7, <2>2, <2>5, <2>6, <2>7, PhaseGreeted
    <2> QED
        BY <1>1, <1>4, <2>4, <2>8, PhaseStands
<1>8. CASE Head(u).t # "hello"
    <2>1. PICK wn : wn = down'[s]
        OBVIOUS
    <2>2. Hearing(dn, wn) /\ keyHash'[s] = k
        BY <1>1, <1>2, <1>8, <2>1, RoomHeard
    <2>3. ASSUME k # NoOne, NEW b \in Nat, Bridges(Head(u), n, b) PROVE b <= x
        <3>1. PICK m, q : m = Head(u) /\ q = m.entries
            OBVIOUS
        <3>2. /\ m.t = "append" /\ q # <<>> /\ SeqOf(q[1]) <= n
              /\ b <= SeqOf(q[1]) + Len(q)
            BY <2>3, <3>1 DEF Bridges
        <3>3. q \in Run /\ OnAppend(s, q)
            BY <1>1, <1>2, <3>1, <3>2, ReadsHead
        <3>4. PICK M \in Line : RoomOn(M) /\ MessagesOn(M)
            BY DEF OneLine
        <3>5. q \in Seq(OnLine(M))
            <4>1. u \in Seq(Asking(OnLine(M)))
                BY <1>1, <1>2, <3>4 DEF MessagesOn
            <4>2. m \in Asking(OnLine(M))
                BY <1>4, <3>1, <4>1, HeadTailProperties
            <4> QED
                BY <3>1, <3>2, <4>2 DEF Asking
        <3>6. Accepts(q)
            BY <1>1, <3>2, <3>3, <3>4, <3>5, BridgeAccepted, LineFacts DEF RoomOn
        <3>7. AppendKnown(s, q) \/ AppendCommit(s, q)
            BY <1>1, <2>3, <3>3, <3>6 DEF OnAppend, AppendUnbound, AppendRefused
        <3>8. PICK t : t = Beyond(q, n)
            OBVIOUS
        <3>9. Staged(q) = t /\ Len(t) \in Nat /\ SeqOf(q[1]) + Len(q) <= n + Len(t)
            BY <1>1, <1>2, <3>2, <3>3, <3>8, StagedReaches DEF Staged
        <3>10. x = n + Len(t)
            <4>1. CASE AppendKnown(s, q)
                <5>1. log' = log /\ t = <<>>
                    BY <3>9, <4>1 DEF AppendKnown, logVars
                <5> QED
                    BY <1>1, <1>2, <1>5, <5>1, EmptySeq
            <4>2. CASE AppendCommit(s, q)
                <5>1. log' = log \o t /\ log \in Seq(Good)
                    BY <3>9, <4>2 DEF AppendCommit, Inv, Copies, GoodRoom
                <5>2. t \in Seq(Good)
                    BY <1>2, <3>3, <3>8, BeyondGood DEF Run
                <5> QED
                    BY <1>1, <1>5, <5>1, <5>2, ConcatProperties
            <4> QED
                BY <3>7, <4>1, <4>2
        <3>11. SeqOf(q[1]) \in Nat /\ Len(q) \in Nat
            <4>1. q \in Seq(Good) /\ Len(q) \in Nat /\ 1 \in 1 .. Len(q)
                BY <3>2, <3>3, LenProperties, EmptySeq DEF Run
            <4> QED
                BY <4>1, ElementOfSeq, EntryFacts, GoodAreEntries
        <3> QED
            BY <1>2, <1>6, <3>2, <3>9, <3>10, <3>11
    <2>4. Phase(d, Tail(u), wn, k, l, r, x)
        BY <1>2, <1>3, <1>4, <1>6, <1>8, <2>2, <2>3, PhaseRead
    <2> QED
        BY <1>1, <1>4, <1>5, <2>1, <2>2, <2>4, PhaseStands
<1> QED
    BY <1>7, <1>8
-----------------------------------------------------------------------------
(* What the others do.                                                       *)

\* A device that is left alone, and may get to hear of it.
LeftAlone(d) ==
    /\ sock'[d] = sock[d] /\ dlog'[d] = dlog[d] /\ relayTipSeq'[d] = relayTipSeq[d]
    /\ sock[d] # NoSocket =>
         /\ up'[sock[d]] = up[sock[d]] /\ keyHash'[sock[d]] = keyHash[sock[d]]
         /\ Hearing(down[sock[d]], down'[sock[d]])

LEMMA LeftAloneKept ==
    ASSUME Inv, [Next]_syncVars, evictions = 0, evictions' = 0,
           NEW d \in Device, InPhase(d), LeftAlone(d)
    PROVE  InPhase(d)'
<1>1. CASE sock[d] = NoSocket
    BY <1>1 DEF LeftAlone, InPhase
<1>2. CASE sock[d] # NoSocket
    <2>1. PICK s, u, dn, wn, k, l, r, n, x :
              /\ s = sock[d] /\ u = up[s] /\ dn = down[s] /\ wn = down'[s] /\ k = keyHash[s]
              /\ l = Len(dlog[d]) /\ r = relayTipSeq[d] /\ n = Len(log) /\ x = Len(log')
        OBVIOUS
    <2>2. /\ u \in Seq(GoodClientMessage) /\ dn \in Seq(GoodMessage) /\ l \in Nat
          /\ r \in Tip /\ n \in Nat /\ x \in Nat /\ n <= x
        BY <1>2, <2>1, ConnectionTyped, LogGrows
    <2>3. Hearing(dn, wn) /\ Phase(d, u, dn, k, l, r, n)
        BY <1>2, <2>1 DEF LeftAlone, InPhase
    <2>4. Phase(d, u, wn, k, l, r, x)
        BY <2>2, <2>3, PhaseHears
    <2>5. /\ sock'[d] = sock[d] /\ dlog'[d] = dlog[d] /\ relayTipSeq'[d] = relayTipSeq[d]
          /\ u = up'[sock[d]] /\ keyHash'[sock[d]] = k
        BY <1>2, <2>1 DEF LeftAlone
    <2> QED
        BY <1>2, <2>1, <2>4, <2>5, PhaseStands
<1> QED
    BY <1>1, <1>2

\* Another device's step.
LEMMA OtherDevice ==
    ASSUME Inv, NEW d \in Device, NEW c \in Device, c # d,
           \/ Connecting(c) \/ Drop(c) \/ Disconnect(c) \/ Play(c) \/ Move(c) \/ Resign(c)
           \/ Receive(c) \/ AfterRollBack(c)
    PROVE  LeftAlone(d)
<1>1. /\ sock \in [Device -> Socket \cup {NoSocket}] /\ dlog \in [Device -> Seq(Good)]
      /\ relayTipSeq \in [Device -> Tip]
      /\ up \in [Socket -> Seq(GoodClientMessage)] /\ down \in [Socket -> Seq(GoodMessage)]
      /\ keyHash \in [Socket -> Participant \cup {NoOne}]
    BY DEF Inv, Copies, GoodSockets, GoodDevices, GoodRoom
<1>2. sock[d] # NoSocket =>
         sock[d] \in Socket /\ sock[d] \in open \ gone /\ sock[c] # sock[d]
    BY DEF Inv, Copies, GoodSockets
<1>3. ASSUME NEW e, Become(c, e)
      PROVE  /\ dlog'[d] = dlog[d] /\ relayTipSeq'[d] = relayTipSeq[d]
             /\ sock[d] # NoSocket => up'[sock[d]] = up[sock[d]]
    BY <1>1, <1>2, <1>3 DEF Become
<1>4. CASE Connecting(c)
    <2>1. PICK s \in Socket, opening \in BOOLEAN : Connect(c, s, opening)
        BY <1>4 DEF Connecting
    <2>2. s \notin open /\ sock' = [sock EXCEPT ![c] = s] /\ Accept(s)
          /\ (\E q : up' = [up EXCEPT ![s] = q])
          /\ (\E q : dlog' = [dlog EXCEPT ![c] = q])
          /\ (\E q : relayTipSeq' = [relayTipSeq EXCEPT ![c] = q])
        BY <2>1 DEF Connect, Accept
    <2>3. sock[d] # NoSocket => s # sock[d]
        BY <1>2, <2>2
    <2>4. down' = [down EXCEPT ![s] = <<>>] /\ keyHash' = [keyHash EXCEPT ![s] = NoOne]
        BY <2>2 DEF Accept
    <2> QED
        BY <1>1, <1>2, <2>2, <2>3, <2>4 DEF LeftAlone, Hearing
<1>5. CASE Drop(c) \/ Disconnect(c)
    <2>1. /\ sock' = [sock EXCEPT ![c] = NoSocket] /\ UNCHANGED <<dlog, relayTipSeq, up>>
          /\ Vanish(sock[c]) \/ Close(sock[c])
        BY <1>5 DEF Drop, Disconnect
    <2>2. down' = [down EXCEPT ![sock[c]] = <<>>] /\ UNCHANGED keyHash
        BY <2>1 DEF Vanish, Close
    <2> QED
        BY <1>1, <1>2, <2>1, <2>2 DEF LeftAlone, Hearing
<1>6. CASE Play(c)
    BY <1>6 DEF Play, roomVars, socketVars, LeftAlone, Hearing
<1>7. CASE Move(c) \/ Resign(c) \/ AfterRollBack(c)
    <2>1. (\E e : Become(c, e)) /\ UNCHANGED <<sock, roomVars>>
        BY <1>7 DEF Move, Resign, AfterRollBack
    <2>2. UNCHANGED <<sock, keyHash, down>>
        BY <2>1 DEF roomVars, socketVars
    <2> QED
        BY <1>3, <2>1, <2>2 DEF LeftAlone, Hearing
<1>8. CASE Receive(c)
    <2>1. PICK e : Take(c, e)
        BY <1>8 DEF Receive, OnStateRefused, OnStateAhead, OnStateBehind, OnStateLevel,
                    OnEntriesRefused, OnEntries, OnAppended, RollBack, OnError
    <2>2. Become(c, e) /\ Delivered(sock[c]) /\ UNCHANGED sock
        BY <2>1 DEF Take
    <2>3. down' = [down EXCEPT ![sock[c]] = Tail(@)] /\ UNCHANGED keyHash
        BY <2>2 DEF Delivered
    <2> QED
        BY <1>1, <1>2, <1>3, <2>2, <2>3 DEF LeftAlone, Hearing
<1> QED
    BY <1>4, <1>5, <1>6, <1>7, <1>8

\* The room's step, unless it reads what the device sent.
LEMMA OtherRoom ==
    ASSUME Inv, NEW d \in Device,
           \/ \E r \in Socket : r # sock[d] /\ RoomReceive(r)
           \/ \E r \in Socket : RoomClose(r)
           \/ RoomFinish
           \/ UNCHANGED syncVars
    PROVE  LeftAlone(d)
<1>1. sock[d] # NoSocket => sock[d] \in Socket /\ sock[d] \in open \ gone
    BY DEF Inv, Copies, GoodSockets
<1>2. /\ up \in [Socket -> Seq(GoodClientMessage)] /\ down \in [Socket -> Seq(GoodMessage)]
    BY DEF Inv, Copies, GoodDevices, GoodRoom
<1>3. ASSUME NEW r \in Socket, r # sock[d], RoomReceive(r) PROVE LeftAlone(d)
    <2>1. up' = [up EXCEPT ![r] = Tail(@)] /\ UNCHANGED <<dlog, relayTipSeq, sock>>
        BY <1>3 DEF RoomReceive, engineVars
    <2>2. sock[d] # NoSocket =>
              Hearing(down[sock[d]], down'[sock[d]]) /\ keyHash'[sock[d]] = keyHash[sock[d]]
        BY <1>1, <1>3, RoomHeard
    <2> QED
        BY <1>1, <1>2, <1>3, <2>1, <2>2 DEF LeftAlone
<1>4. ASSUME NEW r \in Socket, RoomClose(r) PROVE LeftAlone(d)
    <2>1. r \in gone /\ Close(r) /\ up' = [up EXCEPT ![r] = <<>>]
          /\ UNCHANGED <<dlog, relayTipSeq, sock>>
        BY <1>4 DEF RoomClose, engineVars
    <2>2. down' = [down EXCEPT ![r] = <<>>] /\ UNCHANGED keyHash
        BY <2>1 DEF Close
    <2> QED
        BY <1>1, <1>2, <2>1, <2>2 DEF LeftAlone, Hearing
<1>5. CASE RoomFinish
    <2>1. PICK p \in pushing : FinishAppend(p) \/ AbortAppend(p)
        BY <1>5 DEF RoomFinish
    <2>2. p.sock \in Socket /\ p.entries \in Seq(Good)
        BY DEF Inv, Copies, GoodRoom
    <2>3. UNCHANGED <<dlog, relayTipSeq, sock, up, keyHash>>
        BY <1>5 DEF RoomFinish, engineVars, FinishAppend, AbortAppend, socketVars
    <2>4. sock[d] # NoSocket => Hearing(down[sock[d]], down'[sock[d]])
        <3>1. CASE FinishAppend(p)
            BY <1>1, <2>2, <3>1, FanoutHeard DEF FinishAppend
        <3>2. CASE AbortAppend(p)
            BY <3>2 DEF AbortAppend, socketVars, Hearing
        <3> QED
            BY <2>1, <3>1, <3>2
    <2> QED
        BY <2>3, <2>4 DEF LeftAlone
<1>6. CASE UNCHANGED syncVars
    BY <1>6 DEF syncVars, roomVars, socketVars, engineVars, LeftAlone, Hearing
<1> QED
    BY <1>3, <1>4, <1>5, <1>6
-----------------------------------------------------------------------------
(* The invariant.                                                            *)

LEMMA InPhaseKept ==
    ASSUME Inv, SeenInv, OneLine, NothingOversized, SeveralAtOnce, Heard, [Next]_syncVars,
           evictions = 0, evictions' = 0, NEW d \in Device, InPhase(d)
    PROVE  InPhase(d)'
<1>1. ~RoomEvict
    BY DEF RoomEvict
<1>2. ~RollBack(d)
    <2>1. PICK M \in Line : MessagesOn(M)
        BY DEF OneLine
    <2> QED
        BY <2>1, NobodyRetracts DEF MessagesOn
<1>3. CASE Connecting(d)
    BY <1>3, ConnectOwn DEF Connecting
<1>4. CASE Drop(d) \/ Disconnect(d)
    BY <1>4, LeaveOwn
<1>5. CASE Move(d) \/ Resign(d) \/ AfterRollBack(d)
    BY <1>5, PlayOwn, AfterRollBackOwn
<1>6. CASE Receive(d)
    BY <1>2, <1>6, StateOwn, EntriesOwn, AppendedOwn, ErrorOwn DEF Receive
<1>7. ASSUME NEW s \in Socket, RoomReceive(s), s = sock[d] PROVE InPhase(d)'
    <2>1. sock[d] # NoSocket /\ RoomReceive(sock[d])
        BY <1>7, DeviceAssumption
    <2> QED
        BY <2>1, RoomReadOwn
<1>8. CASE LeftAlone(d)
    BY <1>8, LeftAloneKept
<1>9. CASE Play(d)
    <2>1. LeftAlone(d)
        BY <1>9 DEF Play, roomVars, socketVars, LeftAlone, Hearing
    <2> QED
        BY <1>8, <2>1
<1> QED
    BY <1>1, <1>3, <1>4, <1>5, <1>6, <1>7, <1>8, <1>9, OtherDevice, OtherRoom DEF Next

LEMMA ConnectedKept ==
    ASSUME Inv, SeenInv, OneLine, NothingOversized, SeveralAtOnce, [Next]_syncVars,
           evictions = 0, evictions' = 0, Connected
    PROVE  Connected'
<1>1. Heard /\ \A d \in Device : InPhase(d)
    BY DEF Connected
<1>2. Heard'
    BY <1>1, HeardKept
<1>3. \A d \in Device : InPhase(d)'
    BY <1>1, InPhaseKept
<1> QED
    BY <1>2, <1>3 DEF Connected

LEMMA ConnectedAtStart == ASSUME SealsAll, Init PROVE Connected
<1>1. \A d \in Device : sock[d] = NoSocket /\ dlog[d] = log
    BY DEF Init
<1>2. Len(log) \in Nat /\ pushing = {}
    BY InvAtStart, LenProperties DEF Inv, Copies, GoodRoom, Init, RoomInit
<1>3. down \in [Socket -> Seq(Within(Len(log)))]
    BY EmptySeq DEF Init, RoomInit
<1>4. \A d \in Device : TheirsUpTo(d, Len(dlog[d]), Len(log))
    BY <1>1, <1>2, TheirsAll
<1> QED
    BY <1>1, <1>2, <1>3, <1>4 DEF Connected, Heard, InPhase

\* With nothing on its way on a connection, the room has all the device has.
LEMMA QuietIsStored ==
    ASSUME Connected, NEW d \in Device, Quiet(d) PROVE Len(dlog[d]) <= Len(log)
<1>1. sock[d] # NoSocket /\ up[sock[d]] = <<>> /\ down[sock[d]] = <<>>
    BY DEF Quiet
<1>2. PICK k : Phase(d, <<>>, <<>>, k, Len(dlog[d]), relayTipSeq[d], Len(log))
    BY <1>1 DEF Connected, InPhase
<1>3. DOMAIN <<>> = {}
    BY EmptySeq
<1>4. Sure(d, <<>>, Len(dlog[d]), relayTipSeq[d], Len(log))
    BY <1>2, <1>3 DEF Phase, Asks, Learns, Knows
<1> QED
    BY <1>3, <1>4 DEF Sure, Covers

LEMMA ConnectedMeans ==
    ASSUME Inv, OneLine, Connected PROVE SyncedIsHeld
<1> SUFFICES ASSUME NEW d \in Device, Quiet(d) PROVE Held(TipHash(dlog[d]))
    BY DEF SyncedIsHeld
<1>1. Len(dlog[d]) <= Len(log)
    BY QuietIsStored
<1>2. PICK M \in Line : DevicesOn(M) /\ RoomOn(M)
    BY DEF OneLine
<1>3. M \in Seq(Body)
    BY <1>2, LineFacts
<1>4. /\ dlog[d] \in Seq(OnLine(M)) /\ Linked(dlog[d])
      /\ log \in Seq(OnLine(M)) /\ Linked(log)
    BY <1>2 DEF DevicesOn, RoomOn, Inv, Copies, GoodDevices, GoodRoom
<1>5. /\ TipHash(dlog[d]) \in Seq(Body) /\ IsPrefixOf(TipHash(dlog[d]), M)
      /\ TipHash(log) \in Seq(Body) /\ IsPrefixOf(TipHash(log), M)
      /\ Len(TipHash(dlog[d])) = Len(dlog[d]) /\ Len(TipHash(log)) = Len(log)
    BY <1>3, <1>4, TipOnLine
<1>6. IsPrefixOf(TipHash(dlog[d]), TipHash(log))
    BY <1>1, <1>3, <1>5, PrefixesOfOne
<1> QED
    BY <1>6 DEF Held

\* In a game of two players with one device each, who make one move at a time and
\* do not resign, a device that shows itself in sync is right, until the room has been evicted: with
\* nothing under way on its connection, the room holds all the device has.
\* Nothing a player wrote is left behind on a device for having raced what came
\* in meanwhile, for a greeting answered late, or for a connection that broke
\* with an append on it.
THEOREM SyncedIsHeldAlways ==
    /\ SealsAll /\ OneDeviceEach /\ NobodyResigns /\ OnePlayAtATime
    /\ NothingOversized /\ SeveralAtOnce /\ Spec
    => [](evictions = 0 => SyncedIsHeld)
<1> DEFINE Fixed == SealsAll /\ NothingOversized /\ SeveralAtOnce
           Seen  == evictions \in Nat /\ (evictions <= 1 => SeenInv)
           IInv  == Seen /\ (evictions = 0 => Connected)
<1>1. SealsAll /\ Init => IInv
    BY SeenAtStart, ConnectedAtStart
<1>2. Inv /\ OneLine /\ Fixed /\ IInv /\ [Next]_syncVars => IInv'
    <2> SUFFICES ASSUME Inv, OneLine, Fixed, IInv, [Next]_syncVars PROVE IInv'
        OBVIOUS
    <2>1. Seen'
        BY SeenKept
    <2>2. ASSUME evictions' = 0 PROVE Connected'
        <3>1. evictions = 0
            BY <2>2, RoomStep DEF RoomEvict
        <3>2. SeenInv
            BY <3>1
        <3> QED
            BY <2>2, <3>1, <3>2, ConnectedKept
    <2> QED
        BY <2>1, <2>2
<1>3. Inv /\ OneLine /\ IInv => (evictions = 0 => SyncedIsHeld)
    BY ConnectedMeans
<1>4. Fixed => Fixed'
    BY DEF SealsAll, NothingOversized, SeveralAtOnce, Good, NobodyResigns
<1>5. SealsAll /\ OneDeviceEach /\ NobodyResigns /\ OnePlayAtATime /\ Spec => [](Inv /\ OneLine)
    BY OneLineAlways
<1> HIDE DEF IInv
<1>6. SealsAll /\ NothingOversized /\ SeveralAtOnce => Fixed
    OBVIOUS
<1> HIDE DEF Fixed
<1> QED
    BY <1>1, <1>2, <1>3, <1>4, <1>5, <1>6, PTL DEF Spec
-----------------------------------------------------------------------------
(* As long as no connection has broken, nothing gets lost on the way down    *)
(* either.  A device whose prologue is written is one entry behind at most,  *)
(* since the next is its own to write, and that one is on its way to it: it  *)
(* has asked for it, or will when it is told where the log ends; or it has   *)
(* been sent it, or will be once a push is over.                             *)

\* The players have written the prologue when the game begins.
Begun == \A p \in Plans : Len(p.start) >= 2

Prologued == \A d \in Device : Len(dlog[d]) >= 2

\* A device is no more than an entry behind.
CloseBehind == \A d \in Device : Len(log) <= Len(dlog[d]) + 1

\* These entries take a log of l entries further.
Has(b, l) == \E x \in DOMAIN b : Len(b[x]) = l + 1

\* The entry after the first l is asked for; it, or word of it, is on its way.
Asked(u, l) == \E i \in DOMAIN u : u[i].t = "hello" \/ (u[i].t = "req" /\ u[i].fromSeq <= l)
Brought(m, l) ==
    \/ m.t = "state" /\ m.tipSeq = l
    \/ m.t = "entries" /\ Has(m.entries, l)
Bound(dn, l) == \E i \in DOMAIN dn : Brought(dn[i], l)
Leaving(s, ps, l) == \E p \in ps : p.sock # s /\ Has(p.entries, l)

Served(s, u, dn, ps, l) == Asked(u, l) \/ Bound(dn, l) \/ Leaving(s, ps, l)

InTouch(d) ==
    sock[d] # NoSocket /\ Len(dlog[d]) < Len(log) =>
        Served(sock[d], up[sock[d]], down[sock[d]], pushing, Len(dlog[d]))

\* Messages that carry none of the entries after the first n.
Short(n) ==
    {m \in GoodClientMessage :
        m.t = "append" => \A x \in DOMAIN m.entries : Len(m.entries[x]) <= n}

\* A device sends what it has.
SendsOnly == \A s \in Socket : up[s] \in Seq(Short(Len(dlog[DeviceOf[s]])))

\* Nobody has gone without a word, and the room knows whom it pushes for.
Present == gone = {} /\ \A p \in pushing : p.sock \in open

Unbroken == Present /\ SendsOnly /\ \A d \in Device : InTouch(d)

LEMMA PrologueStays ==
    ASSUME Inv, OneDeviceEach, OneLine, Prologued, [Next]_syncVars
    PROVE  Prologued' /\ \A d \in Device : Len(dlog[d]) <= Len(dlog'[d])
<1>1. PICK M \in Line : DevicesOn(M) /\ MessagesOn(M)
    BY DEF OneLine
<1>2. \A d \in Device : Len(dlog[d]) <= Len(dlog'[d])
    BY <1>1, DevicesStayOn DEF OneLine
<1>3. \A d \in Device : Len(dlog[d]) \in Nat /\ Len(dlog'[d]) \in Nat
    <2>1. Inv'
        BY InvKept
    <2> QED
        BY <2>1, LenProperties DEF Inv, Copies, GoodDevices
<1> QED
    BY <1>2, <1>3 DEF Prologued

LEMMA MovesAlternate ==
    ASSUME NEW l \in Nat, l >= 2 PROVE ExpectedAuthor(l) # ExpectedAuthor(l + 1)
<1>1. l > 1 /\ l + 1 > 1 /\ l % 2 # (l + 1) % 2
    OBVIOUS
<1>2. l % 2 \in {0, 1} /\ (l + 1) % 2 \in {0, 1}
    OBVIOUS
<1> QED
    BY <1>1, <1>2 DEF ExpectedAuthor

\* Of two moves in a row each player makes one.
LEMMA NobodyFarBehind ==
    ASSUME Inv, OneLine, Prologued PROVE CloseBehind
<1> SUFFICES ASSUME NEW d \in Device PROVE Len(log) <= Len(dlog[d]) + 1
    BY DEF CloseBehind
<1>1. PICK M \in Line : DevicesOn(M) /\ RoomOn(M)
    BY DEF OneLine
<1>2. M \in Seq(Body) /\ Len(M) \in Nat /\ Len(dlog[d]) \in Nat /\ Len(dlog[d]) >= 2
    BY <1>1, LineFacts, ConnectionTyped DEF Prologued
<1>3. Len(log) <= Len(M) /\ Len(log) \in Nat
    BY <1>1, <1>2, TipOnLine DEF RoomOn, Inv, Copies, GoodRoom
<1>4. PICK l : l = Len(dlog[d])
    OBVIOUS
<1> SUFFICES ASSUME Len(log) >= l + 2 PROVE FALSE
    BY <1>2, <1>3, <1>4
<1>5. /\ l + 1 \in 1 .. Len(M) /\ (l + 1) - 1 = l /\ ~(l + 1 <= l)
      /\ l + 2 \in 1 .. Len(M) /\ (l + 2) - 1 = l + 1 /\ ~(l + 2 <= l)
    BY <1>2, <1>3, <1>4
<1>6. M[l + 1].by = ExpectedAuthor(l) /\ M[l + 2].by = ExpectedAuthor(l + 1)
    BY <1>1, <1>5, LineFacts
<1>7. PlayerOf[d] # ExpectedAuthor(l) /\ PlayerOf[d] # ExpectedAuthor(l + 1)
    BY <1>1, <1>4, <1>5, <1>6 DEF DevicesOn
<1>8. ExpectedAuthor(l) # ExpectedAuthor(l + 1)
    BY <1>2, <1>4, MovesAlternate
<1>9. \A n \in Nat : ExpectedAuthor(n) \in {"initiator", "claimer"}
    BY DEF ExpectedAuthor
<1>10. PlayerOf[d] \in {"initiator", "claimer"}
    BY DeviceAssumption DEF Role
<1> QED
    BY <1>2, <1>4, <1>7, <1>8, <1>9, <1>10
-----------------------------------------------------------------------------
(* What is asked for, on its way, or about to be sent, remains so.           *)

LEMMA AskedMore ==
    ASSUME NEW u \in Seq(GoodClientMessage), NEW o \in Seq(GoodClientMessage),
           NEW l, Asked(u, l)
    PROVE  Asked(u \o o, l)
<1>1. \A i \in DOMAIN u : i \in DOMAIN (u \o o) /\ (u \o o)[i] = u[i]
    BY ConcatProperties, LenProperties
<1> QED
    BY <1>1 DEF Asked

LEMMA AskedSent ==
    ASSUME NEW u \in Seq(GoodClientMessage), NEW l \in Nat,
           NEW m \in GoodClientMessage, m.t = "req", m.fromSeq = l
    PROVE  Asked(Append(u, m), l)
<1>1. Len(u) + 1 \in DOMAIN Append(u, m) /\ Append(u, m)[Len(u) + 1] = m
    BY AppendProperties, LenProperties
<1> QED
    BY <1>1 DEF Asked

\* The room has read the first message.
LEMMA AskedTail ==
    ASSUME NEW u \in Seq(GoodClientMessage), u # <<>>, NEW l, Asked(u, l)
    PROVE  \/ Asked(Tail(u), l) \/ Head(u).t = "hello"
           \/ Head(u).t = "req" /\ Head(u).fromSeq <= l
<1>1. \A i \in DOMAIN u : i # 1 => i - 1 \in DOMAIN Tail(u) /\ Tail(u)[i - 1] = u[i]
    BY HeadTailProperties, LenProperties
<1>2. PICK i \in DOMAIN u : u[i].t = "hello" \/ (u[i].t = "req" /\ u[i].fromSeq <= l)
    BY DEF Asked
<1>3. CASE i = 1
    BY <1>2, <1>3, HeadTailProperties
<1>4. CASE i # 1
    BY <1>1, <1>2, <1>4 DEF Asked
<1> QED
    BY <1>3, <1>4

LEMMA BoundStill ==
    ASSUME NEW dn \in Seq(GoodMessage), NEW wn, Hearing(dn, wn), NEW l, Bound(dn, l)
    PROVE  Bound(wn, l)
<1>1. CASE wn = dn
    BY <1>1
<1>2. ASSUME NEW m \in NoState, wn = Append(dn, m) PROVE Bound(wn, l)
    <2>1. \A i \in DOMAIN dn : i \in DOMAIN wn /\ wn[i] = dn[i]
        BY <1>2, AppendProperties, LenProperties DEF NoState
    <2> QED
        BY <2>1 DEF Bound
<1> QED
    BY <1>1, <1>2 DEF Hearing

LEMMA BoundSent ==
    ASSUME NEW dn \in Seq(GoodMessage), NEW l, NEW m \in GoodMessage, Brought(m, l)
    PROVE  Bound(Append(dn, m), l)
<1>1. Len(dn) + 1 \in DOMAIN Append(dn, m) /\ Append(dn, m)[Len(dn) + 1] = m
    BY AppendProperties, LenProperties
<1> QED
    BY <1>1 DEF Bound

\* The device has taken the first message.
LEMMA BoundTail ==
    ASSUME NEW dn \in Seq(GoodMessage), dn # <<>>, NEW l, Bound(dn, l)
    PROVE  Bound(Tail(dn), l) \/ Brought(Head(dn), l)
<1>1. \A i \in DOMAIN dn : i # 1 => i - 1 \in DOMAIN Tail(dn) /\ Tail(dn)[i - 1] = dn[i]
    BY HeadTailProperties, LenProperties
<1>2. PICK i \in DOMAIN dn : Brought(dn[i], l)
    BY DEF Bound
<1>3. CASE i = 1
    BY <1>2, <1>3, HeadTailProperties
<1>4. CASE i # 1
    BY <1>1, <1>2, <1>4 DEF Bound
<1> QED
    BY <1>3, <1>4

\* The end of a log, from the l-th entry or an earlier one on.
LEMMA StretchHas ==
    ASSUME NEW g \in Seq(Good), Linked(g), NEW l \in Nat, l < Len(g),
           NEW f \in Nat, f <= l
    PROVE  Has(SubSeq(g, f + 1, Len(g)), l)
<1> PICK b, m : b = SubSeq(g, f + 1, Len(g)) /\ m = f + 1
    OBVIOUS
<1>1. Len(g) \in Nat /\ m \in Nat \ {0} /\ m <= Len(g) + 1 /\ Len(g) <= Len(g)
    BY LenProperties
<1>2. /\ b \in Seq(Good) /\ Len(b) = Len(g) - m + 1
      /\ \A k \in 1 .. (Len(g) - m + 1) : b[k] = g[m + k - 1]
    BY <1>1, Stretch
<1>3. PICK x : x = l - f + 1
    OBVIOUS
<1>4. x \in 1 .. (Len(g) - m + 1) /\ m + x - 1 = l + 1 /\ l + 1 \in 1 .. Len(g)
    BY <1>1, <1>3
<1>5. b[x] = g[l + 1]
    BY <1>2, <1>4
<1>6. Len(g[l + 1]) = l + 1
    BY <1>4, EntryOfTip
<1>7. x \in DOMAIN b
    BY <1>2, <1>4, LenProperties
<1> QED
    BY <1>5, <1>6, <1>7 DEF Has

\* What a log takes of a run starts with the entry it lacks.
LEMMA BeyondStarts ==
    ASSUME NEW b \in Run, NEW l \in Nat, Has(b, l)
    PROVE  /\ Beyond(b, l) \in Run /\ Len(Beyond(b, l)) \in Nat \ {0}
           /\ SeqOf(Beyond(b, l)[1]) = l
<1>1. /\ b \in Seq(Good) /\ IsRun(b) /\ Len(b) \in Nat /\ DOMAIN b = 1 .. Len(b)
    BY LenProperties DEF Run
<1>2. PICK x \in 1 .. Len(b) : Len(b[x]) = l + 1
    BY <1>1 DEF Has
<1>3. 1 \in 1 .. Len(b) /\ b # <<>>
    BY <1>1, <1>2, EmptySeq
<1>4. SeqOf(b[x]) = l /\ SeqOf(b[1]) \in Nat
    <2>1. SeqOf(b[x]) = Len(b[x]) - 1
        BY DEF SeqOf
    <2> QED
        BY <1>1, <1>2, <1>3, <2>1, ElementOfSeq, EntryFacts, GoodAreEntries
<1>5. l = SeqOf(b[1]) + x - 1
    BY <1>1, <1>4 DEF IsRun
<1>6. Beyond(b, l) \in Run
    BY <1>1, BeyondRun
<1>7. CASE l <= SeqOf(b[1])
    <2>1. Beyond(b, l) = b /\ x = 1
        BY <1>2, <1>4, <1>5, <1>7 DEF Beyond
    <2> QED
        BY <1>1, <1>3, <1>4, <1>6, <2>1
<1>8. CASE ~(l <= SeqOf(b[1]))
    <2>1. l - SeqOf(b[1]) + 1 = x
        BY <1>4, <1>5
    <2>2. Beyond(b, l) = SubSeq(b, x, Len(b))
        BY <1>3, <1>8, <2>1 DEF Beyond
    <2>3. PICK c : c = SubSeq(b, x, Len(b))
        OBVIOUS
    <2>4. x \in Nat \ {0} /\ x <= Len(b) + 1
        BY <1>1, <1>2
    <2>5. /\ Len(c) = Len(b) - x + 1
          /\ \A k \in 1 .. (Len(b) - x + 1) : c[k] = b[x + k - 1]
        BY <1>1, <2>3, <2>4, Stretch
    <2>6. 1 \in 1 .. (Len(b) - x + 1) /\ x + 1 - 1 = x
        BY <1>1, <1>2
    <2>7. c[1] = b[x]
        BY <2>5, <2>6
    <2> QED
        BY <1>1, <1>2, <1>4, <1>6, <2>2, <2>3, <2>5, <2>7
<1> QED
    BY <1>7, <1>8
-----------------------------------------------------------------------------
(* Connections that do not break.                                            *)

LEMMA PresentKept ==
    ASSUME Inv, [Next]_syncVars, hangups = 0, hangups' = 0, Present PROVE Present'
<1>1. gone = {} /\ (\A p \in pushing : p.sock \in open) /\ open \in SUBSET Socket
    BY DEF Present, Inv, Copies, GoodRoom
<1>2. ASSUME NEW d \in Device, Connecting(d) PROVE Present'
    BY <1>1, <1>2 DEF Connecting, Connect, Accept, Present
<1>3. ASSUME NEW d \in Device PROVE ~Drop(d)
    BY DEF Drop
<1>4. ASSUME NEW d \in Device, Disconnect(d) PROVE Present'
    BY <1>1, <1>4 DEF Disconnect, Quiet, Close, Present
<1>5. ASSUME NEW d \in Device, Play(d) \/ Move(d) \/ Resign(d) \/ AfterRollBack(d)
      PROVE  Present'
    BY <1>1, <1>5 DEF Play, Move, Resign, AfterRollBack, roomVars, socketVars, Present
<1>6. ASSUME NEW d \in Device, Receive(d) PROVE Present'
    <2>1. PICK e : Take(d, e)
        BY <1>6 DEF Receive, OnStateRefused, OnStateAhead, OnStateBehind, OnStateLevel,
                    OnEntriesRefused, OnEntries, OnAppended, RollBack, OnError
    <2> QED
        BY <1>1, <2>1 DEF Take, Delivered, Present
<1>7. ASSUME NEW s \in Socket, RoomReceive(s) PROVE Present'
    <2>1. s \in open /\ UNCHANGED <<open, gone>>
          /\ \A p \in pushing' : p \in pushing \/ p.sock = s
        BY <1>7 DEF RoomReceive, OnHello, OnReq, OnAppend, AppendUnbound, AppendRefused,
                    AppendKnown, AppendCommit, socketVars
    <2> QED
        BY <1>1, <2>1 DEF Present
<1>8. ASSUME NEW s \in Socket PROVE ~RoomClose(s)
    BY <1>1 DEF RoomClose
<1>9. CASE RoomFinish
    BY <1>1, <1>9 DEF RoomFinish, FinishAppend, AbortAppend, socketVars, Present
<1>10. CASE RoomEvict
    BY <1>1, <1>10 DEF RoomEvict, Evict, socketVars, Present
<1>11. CASE UNCHANGED syncVars
    BY <1>1, <1>11 DEF syncVars, roomVars, socketVars, Present
<1> QED
    BY <1>2, <1>3, <1>4, <1>5, <1>6, <1>7, <1>8, <1>9, <1>10, <1>11 DEF Next

LEMMA ShortFits ==
    ASSUME NEW g \in Seq(Good), Linked(g)
    PROVE  Polite(Short(Len(g))) /\ Uploads(g, 1, Short(Len(g)))
<1>1. Polite(Short(Len(g)))
    BY DEF Polite, Short, GoodClientMessage
<1>2. ASSUME NEW m \in Nat \ {0}, NEW n \in Nat, n <= Len(g)
      PROVE  [t |-> "append", entries |-> SubSeq(g, m, n)] \in Short(Len(g))
    <2>1. PICK b : b = SubSeq(g, m, n)
        OBVIOUS
    <2>2. b \in Run
        BY <1>2, <2>1, StretchIsRun
    <2>3. ASSUME NEW x \in DOMAIN b PROVE Len(b[x]) <= Len(g)
        <3>1. m <= n
            <4> SUFFICES ASSUME ~(m <= n) PROVE FALSE
                OBVIOUS
            <4>1. b = <<>>
                BY <2>1, SubSeqEmpty
            <4> QED
                BY <2>3, <4>1, EmptySeq
        <3>2. m <= n + 1 /\ Len(g) \in Nat
            BY <3>1, LenProperties
        <3>3. /\ b \in Seq(Good) /\ Len(b) = n - m + 1
              /\ \A k \in 1 .. (n - m + 1) : b[k] = g[m + k - 1]
            BY <1>2, <2>1, <3>2, Stretch
        <3>4. x \in 1 .. (n - m + 1)
            BY <3>3, LenProperties
        <3>5. m + x - 1 \in 1 .. Len(g) /\ b[x] = g[m + x - 1]
            BY <1>2, <3>2, <3>3, <3>4
        <3>6. Len(g[m + x - 1]) = m + x - 1
            BY <3>5, EntryOfTip
        <3> QED
            BY <3>5, <3>6
    <2> QED
        BY <2>1, <2>2, <2>3 DEF Short, GoodClientMessage
<1> QED
    BY <1>1, <1>2 DEF Uploads

LEMMA ShortGrows ==
    ASSUME NEW n \in Nat, NEW m \in Nat, n <= m PROVE Short(n) \subseteq Short(m)
<1> SUFFICES ASSUME NEW c \in Short(n) PROVE c \in Short(m)
    OBVIOUS
<1>1. c \in GoodClientMessage
    BY DEF Short
<1>2. ASSUME c.t = "append", NEW x \in DOMAIN c.entries PROVE Len(c.entries[x]) <= m
    <2>1. c.entries \in Seq(Good) /\ Len(c.entries[x]) <= n
        BY <1>1, <1>2 DEF GoodClientMessage, Run, Short
    <2>2. c.entries[x] \in Good
        BY <1>2, <2>1, ElementOfSeq, LenProperties
    <2>3. Len(c.entries[x]) \in Nat
        BY <2>2, EntryFacts, GoodAreEntries
    <2> QED
        BY <2>1, <2>3
<1> QED
    BY <1>1, <1>2 DEF Short

LEMMA SendsOnlyKept ==
    ASSUME Inv, OneDeviceEach, OneLine, Prologued, [Next]_syncVars, SendsOnly
    PROVE  SendsOnly'
<1>1. \A d \in Device : Len(dlog[d]) <= Len(dlog'[d])
    BY PrologueStays
<1>2. \A d \in Device : /\ dlog'[d] \in Seq(Good) /\ Linked(dlog'[d])
                        /\ Len(dlog'[d]) \in Nat /\ Len(dlog[d]) \in Nat
    <2>1. Inv'
        BY InvKept
    <2> QED
        BY <2>1, LenProperties DEF Inv, Copies, GoodDevices
<1>3. ASSUME NEW s \in Socket PROVE up'[s] \in Seq(Short(Len(dlog'[DeviceOf[s]])))
    <2>1. PICK c, A : c = DeviceOf[s] /\ A = Short(Len(dlog'[c]))
        OBVIOUS
    <2>2. c \in Device
        BY <2>1, DeviceAssumption
    <2>3. up[s] \in Seq(A)
        <3>1. up[s] \in Seq(Short(Len(dlog[c])))
            BY <2>1 DEF SendsOnly
        <3> QED
            BY <1>1, <1>2, <2>1, <2>2, <3>1, ShortGrows, SeqMonotonic
    <2>4. Polite(A) /\ Uploads(dlog'[c], 1, A)
        BY <1>2, <2>1, <2>2, ShortFits
    <2>5. Uploads(dlog'[c], 2, A)
        <3> PICK l : l = dlog'[c]
            OBVIOUS
        <3>1. \A m \in Nat \ {0} : 2 <= m => 1 <= m
            OBVIOUS
        <3>2. Uploads(l, 2, A)
            BY <2>4, <3>1 DEF Uploads
        <3> QED
            BY <3>2
    <2>6. CASE up'[s] = up[s]
        BY <2>1, <2>3, <2>6
    <2>7. ASSUME NEW d \in Device, DeviceStep(d) PROVE up'[s] \in Seq(A)
        <3>1. CASE d # c
            BY <2>1, <2>3, <2>7, <3>1 DEF DeviceStep
        <3>2. CASE d = c
            BY <2>3, <2>4, <2>5, <2>7, <3>2 DEF DeviceStep
        <3> QED
            BY <3>1, <3>2
    <2>8. up'[s] \in Seq(A)
        BY <2>3, <2>7, WhoseStep
    <2> QED
        BY <2>1, <2>8
<1> QED
    BY <1>3 DEF SendsOnly, Short
-----------------------------------------------------------------------------
(* What a device does to what it is owed.                                    *)

\* Where a device's connection stands; nothing more is owed to it once its log is
\* longer.
LEMMA OwnKept ==
    ASSUME Inv, OneDeviceEach, OneLine, Prologued, CloseBehind, [Next]_syncVars,
           NEW d \in Device, sock[d] # NoSocket, UNCHANGED <<sock, log, pushing>>,
           DeviceStep(d), SendsMore, InTouch(d),
           Bound(down[sock[d]], Len(dlog[d])) /\ Len(dlog'[d]) = Len(dlog[d])
           /\ Len(dlog[d]) < Len(log) =>
               \/ Bound(down'[sock[d]], Len(dlog[d]))
               \/ Asked(up'[sock[d]], Len(dlog[d]))
    PROVE  InTouch(d)'
<1>1. PICK l, n, x : l = Len(dlog[d]) /\ n = Len(log) /\ x = Len(dlog'[d])
    OBVIOUS
<1>2. l \in Nat /\ n \in Nat /\ x \in Nat /\ l <= x /\ n <= l + 1
    <2>1. Inv' /\ Len(dlog[d]) <= Len(dlog'[d])
        BY InvKept, PrologueStays
    <2>2. dlog'[d] \in Seq(Good)
        BY <2>1 DEF Inv, Copies, GoodDevices
    <2> QED
        BY <1>1, <2>1, <2>2, LenProperties, ConnectionTyped DEF CloseBehind
<1>3. PICK s : s = sock[d]
    OBVIOUS
<1>4. s \in Socket /\ up[s] \in Seq(GoodClientMessage)
    BY <1>3, ConnectionTyped
<1>5. sock'[d] = s /\ log' = log /\ pushing' = pushing
    BY <1>3
<1>6. CASE x = l /\ l < n
    <2>1. Served(s, up[s], down[s], pushing, l)
        BY <1>1, <1>3, <1>6 DEF InTouch
    <2>2. Asked(up[s], l) => Asked(up'[s], l)
        BY <1>4, AskedMore DEF SendsMore
    <2>3. Bound(down[s], l) => Bound(down'[s], l) \/ Asked(up'[s], l)
        BY <1>1, <1>3, <1>6
    <2>4. Served(s, up'[s], down'[s], pushing', l)
        BY <1>5, <2>1, <2>2, <2>3 DEF Served
    <2> QED
        BY <1>1, <1>5, <1>6, <2>4 DEF InTouch, Served, Asked, Bound, Brought, Leaving, Has
<1>7. CASE ~(x < n)
    BY <1>1, <1>5, <1>7 DEF InTouch
<1> QED
    BY <1>2, <1>6, <1>7

\* It plays.
LEMMA PlayInTouch ==
    ASSUME Inv, OneDeviceEach, OneLine, Prologued, CloseBehind, [Next]_syncVars,
           NEW d \in Device, Play(d) \/ Move(d) \/ Resign(d) \/ AfterRollBack(d), InTouch(d)
    PROVE  InTouch(d)'
<1>1. DeviceStep(d)
    BY PlayLog, AfterRollBackLog, IdleStep DEF Play
<1>2. UNCHANGED <<sock, log, pushing, down>>
    BY DEF Play, Move, Resign, AfterRollBack, roomVars, logVars, socketVars
<1>3. CASE sock[d] = NoSocket
    BY <1>2, <1>3 DEF InTouch
<1>4. CASE sock[d] # NoSocket
    <2>1. ~Connecting(d)
        BY <1>4 DEF Connecting, Connect
    <2> QED
        BY <1>1, <1>2, <1>4, <2>1, OwnKept DEF DeviceStep
<1> QED
    BY <1>3, <1>4

\* It handles a message that says nothing of what it lacks.
LEMMA TakeInTouch ==
    ASSUME Inv, OneDeviceEach, OneLine, Prologued, CloseBehind, [Next]_syncVars,
           NEW d \in Device, NEW t, Waiting(d, t), NEW e, Take(d, e), DeviceStep(d), InTouch(d),
           Brought(Incoming(d), Len(dlog[d])) /\ Len(dlog'[d]) = Len(dlog[d])
           /\ Len(dlog[d]) < Len(log) => Asked(up'[sock[d]], Len(dlog[d]))
    PROVE  InTouch(d)'
<1>1. sock[d] # NoSocket /\ sock[d] \in Socket /\ down[sock[d]] # <<>>
      /\ Incoming(d) = Head(down[sock[d]]) /\ down[sock[d]] \in Seq(GoodMessage)
    BY ConnectionTyped DEF Waiting, Incoming
<1>2. Delivered(sock[d]) /\ UNCHANGED sock
    BY DEF Take
<1>3. down'[sock[d]] = Tail(down[sock[d]]) /\ UNCHANGED <<log, pushing>>
    BY <1>1, <1>2 DEF Delivered, logVars, Inv, Copies, GoodRoom
<1>4. ~Connecting(d)
    BY <1>1 DEF Connecting, Connect
<1>5. Bound(down[sock[d]], Len(dlog[d])) =>
          Bound(down'[sock[d]], Len(dlog[d])) \/ Brought(Incoming(d), Len(dlog[d]))
    BY <1>1, <1>3, BoundTail
<1> QED
    BY <1>1, <1>2, <1>3, <1>4, <1>5, OwnKept DEF DeviceStep

\* It is told where the log ends, beyond its own: it asks for the rest.
LEMMA StateInTouch ==
    ASSUME Inv, OneDeviceEach, OneLine, Prologued, CloseBehind, Heard, [Next]_syncVars,
           NEW d \in Device, InTouch(d),
           OnStateRefused(d) \/ OnStateAhead(d) \/ OnStateBehind(d) \/ OnStateLevel(d)
    PROVE  InTouch(d)'
<1>1. Waiting(d, "state") /\ (\E e : Take(d, e)) /\ Incoming(d).t = "state"
    BY DEF OnStateRefused, OnStateAhead, OnStateBehind, OnStateLevel, Waiting, Incoming
<1>2. DeviceStep(d)
    BY StateLog
<1>3. /\ Incoming(d).tipSeq \in Tip /\ GoodEngine(Told(d)) /\ Told(d).out = <<>>
      /\ Told(d).connected
    BY <1>1, ToldSays
<1>4. Len(dlog[d]) \in Nat /\ sock[d] # NoSocket /\ sock[d] \in Socket
      /\ up[sock[d]] \in Seq(GoodClientMessage)
    BY <1>1, ConnectionTyped DEF Waiting
<1>5. ASSUME Brought(Incoming(d), Len(dlog[d])) PROVE Asked(up'[sock[d]], Len(dlog[d]))
    <2>1. PICK l : l = Len(dlog[d])
        OBVIOUS
    <2>2. Incoming(d).tipSeq = l
        BY <1>1, <1>5, <2>1 DEF Brought
    <2>3. OnStateBehind(d)
        <3>1. TipSeq(dlog[d]) = l - 1 /\ l \in Nat
            BY <1>4, <2>1 DEF TipSeq
        <3>2. ~(l < 0) /\ ~(l < l - 1) /\ l # l - 1
            BY <3>1
        <3>3. ~OnStateRefused(d)
            BY <2>2, <3>2 DEF OnStateRefused, RefusesTombstone
        <3>4. ~OnStateAhead(d)
            BY <2>2, <3>1, <3>2 DEF OnStateAhead
        <3>5. ~OnStateLevel(d)
            BY <2>2, <3>1, <3>2 DEF OnStateLevel
        <3> QED
            BY <3>3, <3>4, <3>5
    <2>4. PICK m : m = [t |-> "req", fromSeq |-> l]
        OBVIOUS
    <2>5. m \in GoodClientMessage /\ m.t = "req" /\ m.fromSeq = l
        BY <1>4, <2>1, <2>4 DEF GoodClientMessage
    <2>6. Become(d, Send(Told(d), m))
        BY <2>1, <2>3, <2>4 DEF OnStateBehind, Take
    <2>7. Send(Told(d), m).out = Append(<<>>, m) /\ Send(Told(d), m).connected
        BY <1>3 DEF Send, GoodEngine
    <2>8. up'[sock[d]] = up[sock[d]] \o Append(<<>>, m)
        BY <1>4, <2>6, <2>7 DEF Become, Inv, Copies, GoodDevices
    <2>9. up'[sock[d]] = Append(up[sock[d]], m)
        BY <1>4, <2>5, <2>8
    <2> QED
        BY <1>4, <2>1, <2>5, <2>9, AskedSent
<1> QED
    BY <1>1, <1>2, <1>5, TakeInTouch

\* It is told of something else.
LEMMA OtherInTouch ==
    ASSUME Inv, OneDeviceEach, OneLine, Prologued, CloseBehind, [Next]_syncVars,
           NEW d \in Device, InTouch(d), OnAppended(d) \/ OnError(d)
    PROVE  InTouch(d)'
<1>1. PICK t \in {"appended", "err"} : Waiting(d, t)
    BY DEF OnAppended, OnError
<1>2. (\E e : Take(d, e)) /\ Incoming(d).t = t
    BY <1>1 DEF OnAppended, OnError, Waiting, Incoming
<1>3. DeviceStep(d)
    BY AppendedLog, ErrorLog
<1>4. ~Brought(Incoming(d), Len(dlog[d]))
    BY <1>2 DEF Brought
<1> QED
    BY <1>1, <1>2, <1>3, <1>4, TakeInTouch

\* On the line, an entry at the next sequence continues a log.
LEMMA NextContinues ==
    ASSUME NEW M \in Line, NEW l \in Seq(OnLine(M)), Linked(l),
           NEW e \in OnLine(M), SeqOf(e) = Len(l)
    PROVE  Continues(l, e)
<1>1. M \in Seq(Body)
    BY LineFacts
<1>2. IsPrefixOf(TipHash(l), M) /\ Len(TipHash(l)) = Len(l)
    BY <1>1, TipOnLine
<1>3. IsPrefixOf(PrevOf(e), M) /\ Len(PrevOf(e)) = SeqOf(e)
    BY <1>1, OnLineFacts
<1>4. PrevOf(e) = TipHash(l)
    BY <1>2, <1>3, SameLength
<1> QED
    BY <1>4 DEF Continues

\* It is handed what it lacks, and takes it.
LEMMA EntriesInTouch ==
    ASSUME Inv, OneDeviceEach, OneLine, Prologued, CloseBehind, Heard, [Next]_syncVars,
           NEW d \in Device, InTouch(d), OnEntriesRefused(d) \/ OnEntries(d)
    PROVE  InTouch(d)'
<1>1. Waiting(d, "entries") /\ (\E e : Take(d, e)) /\ Incoming(d).t = "entries"
    BY DEF OnEntriesRefused, OnEntries, Waiting, Incoming
<1>2. DeviceStep(d)
    BY EntriesLog
<1>3. PICK l, b, k, g :
          /\ l = Len(dlog[d]) /\ b = Beyond(Incoming(d).entries, l)
          /\ k = Taken(dlog[d], b) /\ g = Engine(d)
    OBVIOUS
<1>4. l \in Nat /\ l >= 2 /\ dlog[d] \in Seq(Good) /\ Linked(dlog[d]) /\ sock[d] # NoSocket
    BY <1>1, <1>3, ConnectionTyped DEF Prologued, Waiting
<1>5. PICK M \in Line : DevicesOn(M) /\ MessagesOn(M)
    BY DEF OneLine
<1>6. Incoming(d).entries \in Run /\ Incoming(d).entries \in Seq(OnLine(M))
    BY <1>1, <1>5, EntriesOnLine
<1>7. ASSUME Brought(Incoming(d), l), Len(dlog'[d]) = l PROVE FALSE
    <2>1. Has(Incoming(d).entries, l)
        BY <1>1, <1>7 DEF Brought
    <2>2. b \in Run /\ b \in Seq(OnLine(M)) /\ Len(b) \in Nat \ {0} /\ SeqOf(b[1]) = l
        BY <1>3, <1>4, <1>6, <2>1, BeyondStarts, BeyondRun
    <2>3. b \in Seq(Good) /\ dlog[d] \in Seq(OnLine(M)) /\ 1 \in 1 .. Len(b)
        BY <1>5, <2>2 DEF Run, DevicesOn
    <2>4. b[1] \in OnLine(M)
        BY <2>2, <2>3, ElementOfSeq
    <2>5. Continues(dlog[d], b[1])
        BY <1>3, <1>4, <2>2, <2>3, <2>4, NextContinues
    <2>6. CASE OnEntriesRefused(d)
        <3>1. k < Len(b)
            BY <1>3, <2>6 DEF OnEntriesRefused
        <3>2. k = 0
            BY <1>3, <1>4, <2>2, <2>3, <3>1, TakenAllOrNothing
        <3>3. ~Continues(dlog[d] \o SubSeq(b, 1, k), b[k + 1])
            BY <1>3, <1>4, <2>3, <3>1, TakenStops
        <3>4. dlog[d] \o SubSeq(b, 1, k) = dlog[d] /\ k + 1 = 1
            BY <1>4, <3>2, SubSeqEmpty, ConcatEmptySeq
        <3> QED
            BY <2>5, <3>3, <3>4
    <2>7. CASE OnEntries(d)
        <3>1. PICK got, known, w :
                  /\ got = [g EXCEPT !.log = @ \o b] /\ known = Confirm(got, TipSeq(got.log))
                  /\ w = Settle(Flush(known))
            OBVIOUS
        <3>2. PICK q : q = dlog[d] \o b
            OBVIOUS
        <3>3. q \in Seq(Good) /\ Linked(q) /\ Len(q) = l + Len(b) /\ q # <<>> /\ Len(q) # 1
            <4>1. k = Len(b)
                BY <1>3, <2>7 DEF OnEntries
            <4>2. SubSeq(b, 1, k) = b
                BY <2>3, <4>1, SubSeqFull
            <4>3. q \in Seq(Good) /\ Linked(q)
                BY <1>3, <1>4, <2>3, <3>2, <4>2, TakenLinked
            <4>4. Len(q) = l + Len(b)
                BY <1>3, <1>4, <2>3, <3>2, ConcatProperties
            <4> QED
                BY <1>4, <2>2, <4>3, <4>4, EmptySeq
        <3>4. GoodEngine(g) /\ g.log = dlog[d] /\ g.relayTip = relayTipSeq[d]
              /\ g.out = <<>> /\ g.connected
            BY <1>3, <1>4, EngineSays
        <3>5. GoodEngine(got) /\ got.log = q
            BY <3>1, <3>2, <3>3, <3>4 DEF GoodEngine
        <3>6. GoodEngine(known) /\ known.log = q
            <4>1. TipSeq(q) \in Tip
                BY <3>3, TipOf
            <4> QED
                BY <3>1, <3>5, <4>1, ConfirmGood, ConfirmSays
        <3>7. WritePrologueEntry(d, known) = known
            BY <3>3, <3>6 DEF WritePrologueEntry
        <3>8. b # <<>>
            BY <2>2, EmptySeq
        <3>9. Take(d, w)
            BY <1>3, <2>7, <3>1, <3>7, <3>8 DEF OnEntries
        <3>10. w.log = q
            <4>1. GoodEngine(Flush(known))
                BY <3>6, FlushGood
            <4>2. Flush(known).log = q
                BY <3>6 DEF Flush, Send, GoodEngine
            <4> QED
                BY <3>1, <4>1, <4>2, SettleSays
        <3>11. dlog'[d] = q
            BY <3>9, <3>10 DEF Take, Become, Inv, Copies, GoodDevices
        <3> QED
            BY <1>4, <1>7, <2>2, <3>3, <3>11
    <2> QED
        BY <2>6, <2>7
<1> QED
    BY <1>1, <1>2, <1>3, <1>7, TakeInTouch

\* It connects, and is owed an answer to its greeting; or it leaves.
LEMMA ConnectInTouch ==
    ASSUME Inv, NEW d \in Device, hangups = 0, hangups' = 0,
           Connecting(d) \/ Drop(d) \/ Disconnect(d)
    PROVE  InTouch(d)'
<1>1. CASE Connecting(d)
    <2>1. PICK s \in Socket, opening \in BOOLEAN : Connect(d, s, opening)
        BY <1>1 DEF Connecting
    <2>2. InPhase(d)'
        BY <2>1, ConnectOwn
    <2>3. sock'[d] = s /\ keyHash'[s] = NoOne /\ s # NoSocket
        BY <2>1, DeviceAssumption DEF Connect, Accept, Inv, Copies, GoodSockets, GoodRoom
    <2>4. Phase(d, up'[s], down'[s], keyHash'[s], Len(dlog'[d]), relayTipSeq'[d], Len(log'))
        BY <2>2, <2>3 DEF InPhase, Phase, Asks, Learns, Knows, TellsAt, Sure, TheirsUpTo,
                          Covers, Bridges
    <2>5. up'[s] # <<>> /\ Head(up'[s]).t = "hello"
        BY <2>3, <2>4 DEF Phase, Asks
    <2>6. up'[s] \in Seq(GoodClientMessage)
        <3>1. [Next]_syncVars
            BY <1>1 DEF Next
        <3> QED
            BY <3>1, InvKept DEF Inv, Copies, GoodDevices
    <2>7. 1 \in DOMAIN up'[s] /\ up'[s][1].t = "hello"
        BY <2>5, <2>6
    <2>8. Asked(up'[s], Len(dlog'[d]))
        BY <2>7 DEF Asked
    <2> QED
        BY <2>3, <2>8 DEF InTouch, Served, Asked
<1>2. ~Drop(d)
    BY DEF Drop
<1>3. CASE Disconnect(d)
    <2>1. sock'[d] = NoSocket
        BY <1>3 DEF Disconnect, Inv, Copies, GoodSockets
    <2> QED
        BY <2>1 DEF InTouch
<1> QED
    BY <1>1, <1>2, <1>3
-----------------------------------------------------------------------------
(* What the room does about what a device is owed.                           *)

\* A room that has grown has done so by the entries of an append, up to the last.
LEMMA CommitHas ==
    ASSUME Inv, Inv', NEW s \in Socket, NEW b \in Run, AppendCommit(s, b),
           NEW l \in Nat, l < Len(log'), Len(log) <= l, Len(log') <= l + 1
    PROVE  Has(b, l) /\ [sock |-> s, entries |-> b] \in pushing'
<1>1. PICK t : t = Staged(b)
    OBVIOUS
<1>2. log' = log \o t /\ t # <<>> /\ [sock |-> s, entries |-> b] \in pushing'
    BY <1>1 DEF AppendCommit
<1>3. log \in Seq(Good) /\ log' \in Seq(Good) /\ Linked(log') /\ Len(log) \in Nat
      /\ Len(log') \in Nat /\ b \in Seq(Good)
    BY LenProperties DEF Inv, Copies, GoodRoom, Run
<1>4. t \in Seq({b[x] : x \in DOMAIN b}) /\ t \in Seq(Good)
    <2>1. b \in Seq({b[x] : x \in DOMAIN b})
        BY <1>3, SeqOfItsOwn
    <2> QED
        BY <1>1, <1>3, <2>1, BeyondRun, BeyondGood DEF Staged
<1>5. Len(t) \in Nat \ {0} /\ Len(log') = Len(log) + Len(t)
      /\ log'[Len(log) + Len(t)] = t[Len(t)]
    <2>1. Len(t) \in Nat \ {0} /\ Len(t) \in 1 .. Len(t)
        BY <1>2, <1>4, LenProperties, EmptySeq
    <2> QED
        BY <1>2, <1>3, <1>4, <2>1, ConcatProperties
<1>6. Len(log') = l + 1 /\ Len(log') \in 1 .. Len(log')
    BY <1>3, <1>5
<1>7. Len(log'[Len(log')]) = Len(log')
    BY <1>3, <1>6, EntryOfTip
<1>8. Len(t[Len(t)]) = l + 1 /\ Len(t) \in 1 .. Len(t)
    BY <1>5, <1>6, <1>7
<1>9. PICK x \in DOMAIN b : t[Len(t)] = b[x]
    BY <1>4, <1>8, ElementOfSeq
<1> QED
    BY <1>2, <1>8, <1>9 DEF Has

\* A device the room leaves alone, but for what it tells it.
LEMMA StillServed ==
    ASSUME Inv, NEW d \in Device, InTouch(d), UNCHANGED <<sock, dlog, log>>,
           sock[d] # NoSocket =>
               /\ Asked(up[sock[d]], Len(dlog[d])) =>
                     Asked(up'[sock[d]], Len(dlog[d])) \/ Bound(down'[sock[d]], Len(dlog[d]))
               /\ Hearing(down[sock[d]], down'[sock[d]])
               /\ Leaving(sock[d], pushing, Len(dlog[d])) =>
                     \/ Leaving(sock[d], pushing', Len(dlog[d]))
                     \/ Bound(down'[sock[d]], Len(dlog[d]))
    PROVE  InTouch(d)'
<1>1. CASE ~(sock[d] # NoSocket /\ Len(dlog[d]) < Len(log))
    BY <1>1 DEF InTouch
<1>2. CASE sock[d] # NoSocket /\ Len(dlog[d]) < Len(log)
    <2>1. PICK s, l : s = sock[d] /\ l = Len(dlog[d])
        OBVIOUS
    <2>2. Served(s, up[s], down[s], pushing, l)
        BY <1>2, <2>1 DEF InTouch
    <2>3. down[s] \in Seq(GoodMessage)
        BY <1>2, <2>1, ConnectionTyped
    <2>4. Bound(down[s], l) => Bound(down'[s], l)
        BY <1>2, <2>1, <2>3, BoundStill
    <2>5. Served(s, up'[s], down'[s], pushing', l)
        BY <1>2, <2>1, <2>2, <2>4 DEF Served
    <2>6. sock'[d] = s /\ Len(dlog'[d]) = l
        BY <2>1
    <2> QED
        BY <2>5, <2>6 DEF InTouch, Served, Asked, Bound, Brought, Leaving, Has
<1> QED
    BY <1>1, <1>2

\* The room reads what the device itself has sent.
LEMMA OwnReadInTouch ==
    ASSUME Inv, Inv', CloseBehind, SendsOnly, NEW d \in Device, sock[d] # NoSocket,
           RoomReceive(sock[d]), InTouch(d)
    PROVE  InTouch(d)'
<1>1. PICK s, l, u : s = sock[d] /\ l = Len(dlog[d]) /\ u = up[s]
    OBVIOUS
<1>2. /\ s \in Socket /\ s \in open \ gone /\ l \in Nat /\ Len(log) \in Nat /\ Len(log) <= l + 1
      /\ u \in Seq(GoodClientMessage) /\ down[s] \in Seq(GoodMessage) /\ DeviceOf[s] = d
      /\ log \in Seq(Good) /\ Linked(log)
    BY <1>1, ConnectionTyped DEF CloseBehind, Inv, Copies, GoodRoom
<1>3. /\ UNCHANGED <<sock, dlog>> /\ u # <<>> /\ up'[s] = Tail(u)
    BY <1>1, <1>2 DEF RoomReceive, engineVars, Inv, Copies, GoodDevices
<1>4. down \in [Socket -> Seq(GoodMessage)]
    BY DEF Inv, Copies, GoodRoom
<1>5. ASSUME NEW m \in GoodMessage, down' = Sent(s, m), l < Len(log) => Brought(m, l)
      PROVE  l < Len(log) => Bound(down'[s], l)
    <2>1. down'[s] = Append(down[s], m)
        BY <1>2, <1>4, <1>5 DEF Sent
    <2> QED
        BY <1>2, <1>5, <2>1, BoundSent
<1>6. ASSUME l < Len(log), UNCHANGED log, Bound(down'[s], l) PROVE InTouch(d)'
    <2>1. sock'[d] = s /\ Len(dlog'[d]) = l
        BY <1>1, <1>3
    <2> QED
        BY <1>6, <2>1 DEF InTouch, Served, Bound, Brought, Has
<1>7. ASSUME ~(l < Len(log')) PROVE InTouch(d)'
    BY <1>1, <1>3, <1>7 DEF InTouch
<1>8. ASSUME UNCHANGED <<log, pushing>>, Hearing(down[s], down'[s]),
             Asked(u, l) => Asked(Tail(u), l)
      PROVE  InTouch(d)'
    BY <1>1, <1>3, <1>8, StillServed
<1>9. CASE \E who \in Participant : OnHello(s, who)
    <2>1. down' = Sent(s, StateMessage) /\ UNCHANGED log
        BY <1>9 DEF OnHello, logVars
    <2>2. StateMessage \in GoodMessage /\ StateMessage.t = "state"
          /\ StateMessage.tipSeq = TipSeq(log)
        BY GoodMessages DEF StateMessage
    <2>3. l < Len(log) => Brought(StateMessage, l)
        BY <1>2, <2>2 DEF Brought, TipSeq
    <2> QED
        BY <1>5, <1>6, <1>7, <2>1, <2>2, <2>3
<1>10. CASE /\ Head(u).t = "append" /\ Head(u).entries \in Run
            /\ OnAppend(s, Head(u).entries)
    <2>1. PICK b : b = Head(u).entries
        OBVIOUS
    <2>2. CASE AppendCommit(s, b)
        <3> SUFFICES ASSUME l < Len(log') PROVE FALSE
            BY <1>7
        <3>1. Head(u) \in Short(l)
            <4>1. u \in Seq(Short(l))
                BY <1>1, <1>2 DEF SendsOnly
            <4> QED
                BY <1>3, <4>1, HeadTailProperties
        <3>2. \A x \in DOMAIN b : Len(b[x]) <= l
            BY <1>10, <2>1, <3>1 DEF Short
        <3>3. log' = log \o Staged(b) /\ Staged(b) # <<>>
            BY <2>2 DEF AppendCommit
        <3>4. b \in Seq(Good) /\ b \in Run
            BY <1>10, <2>1 DEF Run
        <3>5. PICK t : t = Staged(b)
            OBVIOUS
        <3>6. t \in Seq({b[x] : x \in DOMAIN b}) /\ t \in Seq(Good)
            <4>1. b \in Seq({b[x] : x \in DOMAIN b})
                BY <3>4, SeqOfItsOwn
            <4> QED
                BY <1>2, <3>4, <3>5, <4>1, BeyondRun, BeyondGood DEF Staged
        <3>7. Len(t) \in Nat \ {0} /\ Len(t) \in 1 .. Len(t)
            BY <3>3, <3>5, <3>6, LenProperties, EmptySeq
        <3>8. Len(log') = Len(log) + Len(t) /\ log'[Len(log) + Len(t)] = t[Len(t)]
            BY <1>2, <3>3, <3>5, <3>6, <3>7, ConcatProperties
        <3>9. Len(log'[Len(log')]) = Len(log') /\ Len(log') \in Nat
            <4>1. Len(log') \in 1 .. Len(log') /\ log' \in Seq(Good) /\ Linked(log')
                BY <1>2, <3>7, <3>8 DEF Inv, Copies, GoodRoom
            <4> QED
                BY <1>2, <3>7, <3>8, <4>1, EntryOfTip
        <3>10. PICK x \in DOMAIN b : t[Len(t)] = b[x]
            BY <3>6, <3>7, ElementOfSeq
        <3> QED
            BY <1>2, <3>2, <3>8, <3>9, <3>10
    <2>3. CASE ~AppendCommit(s, b)
        <3>1. UNCHANGED <<log, pushing>>
            BY <1>10, <2>1, <2>3 DEF OnAppend, AppendUnbound, AppendRefused, AppendKnown, logVars
        <3>2. Hearing(down[s], down'[s])
            BY <1>1, <1>2, <1>10, RoomHeard
        <3>3. Asked(u, l) => Asked(Tail(u), l)
            BY <1>2, <1>3, <1>10, AskedTail
        <3> QED
            BY <1>8, <3>1, <3>2, <3>3
    <2> QED
        BY <2>2, <2>3
<1>11. ASSUME Head(u).t = "req", OnReq(s, Head(u).fromSeq), Head(u).fromSeq \in Nat
       PROVE  InTouch(d)'
    <2>1. PICK f, m : f = Head(u).fromSeq
                      /\ m = [t |-> "entries", entries |-> SubSeq(log, f + 1, Len(log))]
        OBVIOUS
    <2>2. down' = Sent(s, m) /\ UNCHANGED <<log, pushing>>
        BY <1>11, <2>1 DEF OnReq, logVars
    <2>3. CASE f <= l /\ l < Len(log)
        <3>1. Has(SubSeq(log, f + 1, Len(log)), l)
            BY <1>2, <1>11, <2>1, <2>3, StretchHas
        <3>2. SubSeq(log, f + 1, Len(log)) \in Seq(Good)
            <4>1. f + 1 \in Nat \ {0}
                BY <1>11, <2>1
            <4> QED
                BY <1>2, <4>1, TailWithin
        <3>3. m \in GoodMessage /\ Brought(m, l)
            BY <2>1, <3>1, <3>2, GoodMessages DEF Brought
        <3> QED
            BY <1>5, <1>6, <2>2, <2>3, <3>3
    <2>4. CASE ~(l < Len(log))
        BY <1>7, <2>2, <2>4
    <2>5. CASE ~(f <= l)
        <3>1. Asked(u, l) => Asked(Tail(u), l)
            BY <1>2, <1>3, <1>11, <2>1, <2>5, AskedTail
        <3>2. Hearing(down[s], down'[s])
            BY <1>1, <1>2, <1>11, RoomHeard
        <3> QED
            BY <1>8, <2>2, <3>1, <3>2
    <2> QED
        BY <2>3, <2>4, <2>5
<1> QED
    <2>1. PICK m : m = Head(u)
        OBVIOUS
    <2>2. m \in GoodClientMessage
        BY <1>2, <1>3, <2>1, HeadTailProperties
    <2>3. \/ m.t = "hello" /\ OnHello(s, m.keyHash)
          \/ m.t = "append" /\ OnAppend(s, m.entries)
          \/ m.t = "req" /\ OnReq(s, m.fromSeq)
        BY <1>1, <2>1 DEF RoomReceive
    <2>4. /\ m.t = "hello" => m.keyHash \in Participant
          /\ m.t = "append" => m.entries \in Run
          /\ m.t = "req" => m.fromSeq \in Nat
        BY <2>2 DEF GoodClientMessage
    <2> QED
        BY <1>9, <1>10, <1>11, <2>1, <2>3, <2>4

\* The room reads what another has sent.
LEMMA OtherReadInTouch ==
    ASSUME Inv, Inv', CloseBehind, CloseBehind', [Next]_syncVars,
           NEW d \in Device, NEW r \in Socket, r # sock[d], RoomReceive(r), InTouch(d)
    PROVE  InTouch(d)'
<1>1. LeftAlone(d)
    BY OtherRoom
<1>2. UNCHANGED <<sock, dlog>> /\ up[r] \in Seq(GoodClientMessage) /\ up[r] # <<>>
    BY DEF RoomReceive, engineVars, Inv, Copies, GoodDevices
<1>3. CASE UNCHANGED <<log, pushing>>
    BY <1>1, <1>2, <1>3, StillServed DEF LeftAlone
<1>4. ASSUME NEW b \in Run, AppendCommit(r, b), sock[d] # NoSocket PROVE InTouch(d)'
    <2>1. PICK s, l : s = sock[d] /\ l = Len(dlog[d])
        OBVIOUS
    <2>2. /\ l \in Nat /\ Len(log) \in Nat /\ Len(log') \in Nat /\ Len(log') <= l + 1
          /\ sock'[d] = s /\ Len(dlog'[d]) = l
        BY <1>2, <2>1, ConnectionTyped, LenProperties DEF CloseBehind, Inv, Copies, GoodRoom
    <2>3. CASE ~(l < Len(log'))
        BY <2>2, <2>3 DEF InTouch
    <2>4. CASE l < Len(log') /\ Len(log) <= l
        <3>1. Has(b, l) /\ [sock |-> r, entries |-> b] \in pushing'
            BY <1>4, <2>2, <2>4, CommitHas
        <3>2. Leaving(s, pushing', l)
            BY <2>1, <3>1 DEF Leaving
        <3> QED
            BY <2>2, <3>2 DEF InTouch, Served, Leaving, Has
    <2>5. CASE l < Len(log)
        <3>1. Served(s, up[s], down[s], pushing, l)
            BY <1>4, <2>1, <2>5 DEF InTouch
        <3>2. /\ up'[s] = up[s] /\ Hearing(down[s], down'[s])
              /\ down[s] \in Seq(GoodMessage) /\ pushing \subseteq pushing'
            BY <1>1, <1>4, <2>1, ConnectionTyped DEF LeftAlone, AppendCommit
        <3>3. Bound(down[s], l) => Bound(down'[s], l)
            BY <3>2, BoundStill
        <3>4. Served(s, up'[s], down'[s], pushing', l)
            BY <3>1, <3>2, <3>3 DEF Served, Leaving
        <3> QED
            BY <2>2, <3>4 DEF InTouch, Served, Asked, Bound, Brought, Leaving, Has
    <2> QED
        BY <2>2, <2>3, <2>4, <2>5
<1>5. CASE sock[d] = NoSocket
    BY <1>2, <1>5 DEF InTouch
<1>6. UNCHANGED <<log, pushing>> \/ \E b \in Run : AppendCommit(r, b)
    BY ReadsHead DEF OnHello, OnReq, OnAppend, AppendUnbound, AppendRefused, AppendKnown, logVars
<1> QED
    BY <1>3, <1>4, <1>5, <1>6

\* A push is over: those it was for are handed the entries.
LEMMA FinishInTouch ==
    ASSUME Inv, Present, [Next]_syncVars, NEW d \in Device, RoomFinish, InTouch(d)
    PROVE  InTouch(d)'
<1>1. LeftAlone(d)
    BY OtherRoom
<1>2. PICK p \in pushing : FinishAppend(p)
    BY DEF RoomFinish, AbortAppend, Present
<1>3. UNCHANGED <<sock, dlog, log>> /\ pushing' = pushing \ {p}
    BY <1>2 DEF RoomFinish, engineVars, FinishAppend, logVars
<1>4. p.sock \in Socket /\ p.entries \in Seq(Good)
    BY DEF Inv, Copies, GoodRoom
<1>5. ASSUME NEW l, NEW s, s = sock[d], s # NoSocket, Leaving(s, pushing, l)
      PROVE  Leaving(s, pushing', l) \/ Bound(down'[s], l)
    <2>1. PICK q \in pushing : q.sock # s /\ Has(q.entries, l)
        BY <1>5 DEF Leaving
    <2>2. CASE q # p
        BY <1>3, <2>1, <2>2 DEF Leaving
    <2>3. CASE q = p
        <3>1. s \in Socket /\ s \in open \ gone /\ down[s] \in Seq(GoodMessage)
            BY <1>5, ConnectionTyped
        <3>2. PICK m : m = [t |-> "entries", entries |-> p.entries]
            OBVIOUS
        <3>3. m \in GoodMessage /\ Brought(m, l)
            BY <1>4, <2>1, <2>3, <3>2, GoodMessages DEF Brought
        <3>4. down'[s] = Append(down[s], m)
            BY <1>2, <2>1, <2>3, <3>1, <3>2 DEF FinishAppend, Fanout
        <3> QED
            BY <3>1, <3>3, <3>4, BoundSent
    <2> QED
        BY <2>2, <2>3
<1> QED
    BY <1>1, <1>3, <1>5, StillServed DEF LeftAlone

\* Another device's step.
LEMMA OthersInTouch ==
    ASSUME Inv, NEW d \in Device, InTouch(d),
           \/ \E c \in Device \ {d} :
                \/ Connecting(c) \/ Drop(c) \/ Disconnect(c) \/ Play(c) \/ Move(c) \/ Resign(c)
                \/ Receive(c) \/ AfterRollBack(c)
           \/ UNCHANGED syncVars
    PROVE  InTouch(d)'
<1>1. CASE UNCHANGED syncVars
    BY <1>1 DEF syncVars, roomVars, logVars, socketVars, engineVars, InTouch,
                Served, Asked, Bound, Brought, Leaving, Has
<1>2. ASSUME NEW c \in Device \ {d},
             \/ Connecting(c) \/ Drop(c) \/ Disconnect(c) \/ Play(c) \/ Move(c) \/ Resign(c)
             \/ Receive(c) \/ AfterRollBack(c)
      PROVE  InTouch(d)'
    <2>1. LeftAlone(d)
        BY <1>2, OtherDevice
    <2>2. UNCHANGED <<log, pushing>>
        <3>1. CASE Receive(c)
            <4>1. PICK e : Take(c, e)
                BY <3>1 DEF Receive, OnStateRefused, OnStateAhead, OnStateBehind, OnStateLevel,
                            OnEntriesRefused, OnEntries, OnAppended, RollBack, OnError
            <4> QED
                BY <4>1 DEF Take, Delivered, logVars
        <3>2. CASE Connecting(c)
            BY <3>2 DEF Connecting, Connect, Accept, logVars
        <3>3. CASE Drop(c) \/ Disconnect(c)
            BY <3>3 DEF Drop, Disconnect, Vanish, Close, logVars
        <3>4. CASE Play(c) \/ Move(c) \/ Resign(c) \/ AfterRollBack(c)
            BY <3>4 DEF Play, Move, Resign, AfterRollBack, roomVars, logVars, socketVars
        <3> QED
            BY <1>2, <3>1, <3>2, <3>3, <3>4
    <2>3. /\ sock'[d] = sock[d] /\ dlog'[d] = dlog[d] /\ log' = log /\ pushing' = pushing
          /\ sock[d] # NoSocket =>
               up'[sock[d]] = up[sock[d]] /\ Hearing(down[sock[d]], down'[sock[d]])
        BY <2>1, <2>2 DEF LeftAlone
    <2>4. CASE ~(sock[d] # NoSocket /\ Len(dlog[d]) < Len(log))
        BY <2>3, <2>4 DEF InTouch
    <2>5. CASE sock[d] # NoSocket /\ Len(dlog[d]) < Len(log)
        <3>1. PICK s, l : s = sock[d] /\ l = Len(dlog[d])
            OBVIOUS
        <3>2. Served(s, up[s], down[s], pushing, l) /\ down[s] \in Seq(GoodMessage)
            BY <2>5, <3>1, ConnectionTyped DEF InTouch
        <3>3. Bound(down[s], l) => Bound(down'[s], l)
            BY <2>3, <2>5, <3>1, <3>2, BoundStill
        <3>4. Served(s, up'[s], down'[s], pushing', l) /\ sock'[d] = s /\ Len(dlog'[d]) = l
            BY <2>3, <2>5, <3>1, <3>2, <3>3 DEF Served
        <3> QED
            BY <3>4 DEF InTouch, Served, Asked, Bound, Brought, Leaving, Has
    <2> QED
        BY <2>4, <2>5
<1> QED
    BY <1>1, <1>2
-----------------------------------------------------------------------------
(* The invariant, as long as no connection has broken.                       *)

LEMMA InTouchKept ==
    ASSUME Inv, OneDeviceEach, OneLine, Heard, Prologued, CloseBehind, CloseBehind',
           Present, SendsOnly, [Next]_syncVars, hangups = 0, hangups' = 0,
           evictions = 0, evictions' = 0, NEW d \in Device, InTouch(d)
    PROVE  InTouch(d)'
<1>1. Inv'
    BY InvKept
<1>2. ~RoomEvict /\ \A s \in Socket : ~RoomClose(s)
    BY DEF RoomEvict, RoomClose, Present
<1>3. ~RollBack(d)
    <2>1. PICK M \in Line : MessagesOn(M)
        BY DEF OneLine
    <2> QED
        BY <2>1, NobodyRetracts DEF MessagesOn
<1>4. CASE Connecting(d) \/ Drop(d) \/ Disconnect(d)
    BY <1>4, ConnectInTouch
<1>5. CASE Play(d) \/ Move(d) \/ Resign(d) \/ AfterRollBack(d)
    BY <1>5, PlayInTouch
<1>6. CASE Receive(d)
    BY <1>3, <1>6, StateInTouch, EntriesInTouch, OtherInTouch DEF Receive
<1>7. ASSUME NEW s \in Socket, RoomReceive(s) PROVE InTouch(d)'
    <2>1. CASE s = sock[d]
        <3>1. sock[d] # NoSocket /\ RoomReceive(sock[d])
            BY <1>7, <2>1, DeviceAssumption
        <3> QED
            BY <1>1, <3>1, OwnReadInTouch
    <2>2. CASE s # sock[d]
        BY <1>1, <1>7, <2>2, OtherReadInTouch
    <2> QED
        BY <2>1, <2>2
<1>8. CASE RoomFinish
    BY <1>8, FinishInTouch
<1> QED
    BY <1>2, <1>4, <1>5, <1>6, <1>7, <1>8, OthersInTouch DEF Next

LEMMA UnbrokenKept ==
    ASSUME Inv, OneDeviceEach, OneLine, Heard, Prologued, CloseBehind, CloseBehind',
           Unbroken, [Next]_syncVars, hangups = 0, hangups' = 0, evictions = 0, evictions' = 0
    PROVE  Unbroken'
<1>1. Present /\ SendsOnly /\ \A d \in Device : InTouch(d)
    BY DEF Unbroken
<1>2. Present' /\ SendsOnly'
    BY <1>1, PresentKept, SendsOnlyKept
<1>3. \A d \in Device : InTouch(d)'
    BY <1>1, InTouchKept
<1> QED
    BY <1>2, <1>3 DEF Unbroken

LEMMA UnbrokenAtStart == ASSUME Begun, Init PROVE Prologued /\ Unbroken /\ hangups \in Nat
<1>1. \A d \in Device : sock[d] = NoSocket /\ dlog[d] = LogOf(plan.start)
    BY DEF Init
<1>2. Len(plan.start) \in Nat /\ Len(plan.start) >= 2
    BY PlanAssumption, LenProperties DEF Init, Begun
<1>3. Len(LogOf(plan.start)) = Len(plan.start)
    BY <1>2 DEF LogOf
<1>4. Prologued
    BY <1>1, <1>2, <1>3 DEF Prologued
<1>5. \A s \in Socket : up[s] = <<>>
    BY DEF Init
<1>6. SendsOnly
    BY <1>5, EmptySeq DEF SendsOnly
<1> QED
    BY <1>1, <1>4, <1>6 DEF Unbroken, Present, InTouch, Init, RoomInit

LEMMA HangupsGrow == ASSUME [Next]_syncVars, hangups \in Nat PROVE hangups' \in Nat /\ (hangups' = 0 => hangups = 0)
<1> DEFINE Counted == hangups' \in {hangups, hangups + 1}
<1>1. ASSUME NEW d \in Device, Connecting(d) \/ Drop(d) \/ Disconnect(d) PROVE Counted
    BY <1>1 DEF Connecting, Connect, Drop, Disconnect
<1>2. ASSUME NEW d \in Device, Play(d) \/ Move(d) \/ Resign(d) \/ AfterRollBack(d)
      PROVE  Counted
    BY <1>2 DEF Play, Move, Resign, AfterRollBack
<1>3. ASSUME NEW d \in Device, Receive(d) PROVE Counted
    <2>1. PICK e : Take(d, e)
        BY <1>3 DEF Receive, OnStateRefused, OnStateAhead, OnStateBehind, OnStateLevel,
                    OnEntriesRefused, OnEntries, OnAppended, RollBack, OnError
    <2> QED
        BY <2>1 DEF Take
<1>4. ASSUME (\E s \in Socket : RoomReceive(s) \/ RoomClose(s)) \/ RoomFinish \/ RoomEvict
      PROVE  Counted
    BY <1>4 DEF RoomReceive, RoomClose, RoomFinish, RoomEvict
<1>5. Counted
    BY <1>1, <1>2, <1>3, <1>4 DEF Next, syncVars
<1> QED
    BY <1>5

\* With nothing on its way, a device has all the room has, and the room all it has.
LEMMA UnbrokenMeans ==
    ASSUME Inv, OneLine, Connected, Unbroken PROVE LiveBoardsAgree
<1> SUFFICES ASSUME pushing = {}, NEW d \in Device, Quiet(d) PROVE dlog[d] = log
    BY DEF LiveBoardsAgree
<1>1. sock[d] # NoSocket /\ up[sock[d]] = <<>> /\ down[sock[d]] = <<>>
    BY DEF Quiet
<1>2. Len(dlog[d]) <= Len(log)
    BY QuietIsStored
<1>3. ~Served(sock[d], up[sock[d]], down[sock[d]], pushing, Len(dlog[d]))
    BY <1>1, EmptySeq DEF Served, Asked, Bound, Leaving
<1>4. Len(dlog[d]) = Len(log) /\ Len(log) \in Nat
    BY <1>1, <1>2, <1>3, ConnectionTyped DEF Unbroken, InTouch
<1>5. PICK M \in Line : DevicesOn(M) /\ RoomOn(M)
    BY DEF OneLine
<1>6. M \in Seq(Body)
    BY LineFacts
<1>7. /\ dlog[d] \in Seq(OnLine(M)) /\ Linked(dlog[d])
      /\ log \in Seq(OnLine(M)) /\ Linked(log)
    BY <1>5 DEF DevicesOn, RoomOn, Inv, Copies, GoodDevices, GoodRoom
<1>8. \A i \in 1 .. Len(log) :
          /\ dlog[d][i] \in OnLine(M) /\ Len(dlog[d][i]) = i
          /\ log[i] \in OnLine(M) /\ Len(log[i]) = i
    BY <1>4, <1>6, <1>7, TipOnLine
<1>9. \A i \in 1 .. Len(log) : dlog[d][i] = log[i]
    BY <1>8, SameLength DEF OnLine
<1> QED
    BY <1>4, <1>7, <1>9, SeqEqual

\* As long as no connection has broken and the room has not been evicted, boards
\* with nothing under way anywhere agree with the room, and so with each other:
\* in a game of two players with one device each, who make one move at a time and
\* do not resign, and whose prologue is written.  A fan-out that misses a board, an answer that comes in
\* between, a request that is overtaken by a new move: none leaves a board behind.
THEOREM StayersAgreeAlways ==
    /\ SealsAll /\ OneDeviceEach /\ NobodyResigns /\ OnePlayAtATime
    /\ NothingOversized /\ SeveralAtOnce /\ Begun /\ Spec
    => [](evictions = 0 => StayersAgree)
<1> DEFINE Fixed == SealsAll /\ OneDeviceEach /\ NothingOversized /\ SeveralAtOnce
           Seen  == evictions \in Nat /\ (evictions <= 1 => SeenInv)
           Conn  == evictions = 0 => Connected
           Whole == evictions = 0 /\ hangups = 0 => Unbroken
           IInv  == Seen /\ Conn /\ Whole /\ Prologued /\ hangups \in Nat
           Near  == Inv /\ OneLine /\ (Prologued => CloseBehind)
<1>1. SealsAll /\ Begun /\ Init => IInv
    BY SeenAtStart, ConnectedAtStart, UnbrokenAtStart
<1>2. Near /\ Fixed /\ Near' /\ IInv /\ [Next]_syncVars => IInv'
    <2> SUFFICES ASSUME Near, Fixed, Near', IInv, [Next]_syncVars PROVE IInv'
        OBVIOUS
    <2>1. Seen'
        BY SeenKept
    <2>2. Prologued' /\ hangups' \in Nat /\ (hangups' = 0 => hangups = 0)
        BY PrologueStays, HangupsGrow
    <2>3. evictions' = 0 => evictions = 0 /\ SeenInv
        <3>1. evictions' = 0 => evictions = 0
            BY RoomStep DEF RoomEvict
        <3> QED
            BY <3>1
    <2>4. Conn'
        <3> SUFFICES ASSUME evictions' = 0 PROVE Connected'
            OBVIOUS
        <3> QED
            BY <2>3, ConnectedKept
    <2>5. Whole'
        <3> SUFFICES ASSUME evictions' = 0, hangups' = 0 PROVE Unbroken'
            OBVIOUS
        <3>1. evictions = 0 /\ hangups = 0 /\ Heard /\ Unbroken
            BY <2>2, <2>3 DEF Connected
        <3>2. CloseBehind /\ CloseBehind'
            BY <2>2
        <3> QED
            BY <3>1, <3>2, UnbrokenKept
    <2> QED
        BY <2>1, <2>2, <2>4, <2>5
<1>3. Near /\ IInv => (evictions = 0 => StayersAgree)
    BY UnbrokenMeans DEF StayersAgree
<1>4. Fixed => Fixed'
    BY DEF SealsAll, OneDeviceEach, NothingOversized, SeveralAtOnce, Good, NobodyResigns
<1>5. SealsAll /\ OneDeviceEach /\ NobodyResigns /\ OnePlayAtATime /\ Spec => [](Inv /\ OneLine)
    BY OneLineAlways
<1>6. Inv /\ OneLine => Near
    BY NobodyFarBehind
<1> HIDE DEF IInv, Near
<1>7. SealsAll /\ OneDeviceEach /\ NothingOversized /\ SeveralAtOnce => Fixed
    OBVIOUS
<1> HIDE DEF Fixed
<1> QED
    BY <1>1, <1>2, <1>3, <1>4, <1>5, <1>6, <1>7, PTL DEF Spec
=============================================================================
