--------------------------- MODULE GameRoomProofs ---------------------------
(***************************************************************************)
(* What GameRoom promises, proved for every set of participants, sockets    *)
(* and payloads, and whatever runs of entries the clients append.           *)
(***************************************************************************)
EXTENDS GameRoom, SequenceTheorems, WellFoundedInduction, TLAPS

-----------------------------------------------------------------------------
(* Logs and histories.                                                       *)

\* Any non-empty set of naturals has a least element: induction over a log is
\* an argument about the first place where something would go wrong.
LEMMA LeastElement ==
    ASSUME NEW T \in SUBSET Nat, T # {}
    PROVE  \E n \in T : \A m \in T : n <= m
<1>1. IsWellFoundedOn(OpToRel(<, Nat), Nat)
    BY NatLessThanWellFounded
<1>2. PICK n \in T : \A m \in T : ~(<<m, n>> \in OpToRel(<, Nat))
    BY <1>1, WFMin
<1>3. \A m \in T : ~(m < n)
    BY <1>2 DEF OpToRel
<1> QED
    BY <1>3

\* An entry is a non-empty history; its hash and its predecessor's are hashes.
LEMMA EntryFacts ==
    ASSUME NEW e \in Entry
    PROVE  /\ e \in Seq(Body)
           /\ Len(e) \in Nat \ {0}
           /\ SeqOf(e) \in Nat
           /\ SeqOf(e) = Len(e) - 1
           /\ HashOf(e) \in Hash
<1>1. e \in Seq(Body) /\ e # <<>>
    BY DEF Entry
<1>2. Len(e) \in Nat \ {0}
    BY <1>1, EmptySeq
<1> QED
    BY <1>1, <1>2 DEF SeqOf, HashOf, Hash

LEMMA TipHashType ==
    ASSUME NEW l \in Seq(Entry)
    PROVE  /\ TipHash(l) \in Hash
           /\ TipSeq(l) \in Int
<1>1. Len(l) \in Nat
    BY LenProperties
<1>2. CASE l = <<>>
    BY <1>1, <1>2 DEF TipHash, Hash, TipSeq
<1>3. CASE l # <<>>
    <2>1. Len(l) \in 1 .. Len(l)
        BY <1>1, <1>3, EmptySeq
    <2>2. l[Len(l)] \in Entry
        BY <2>1, ElementOfSeq
    <2> QED
        BY <1>1, <1>3, <2>2 DEF TipHash, HashOf, Hash, TipSeq
<1> QED
    BY <1>2, <1>3

\* Cutting a history twice is cutting it once.
LEMMA CutTwice ==
    ASSUME NEW h \in Seq(Body), NEW n \in 0 .. Len(h), NEW m \in 0 .. n
    PROVE  SubSeq(SubSeq(h, 1, n), 1, m) = SubSeq(h, 1, m)
<1>0. Len(h) \in Nat /\ n \in Nat /\ m \in Nat
    BY LenProperties
<1>1. \A i \in 1 .. n : h[i] \in Body
    BY <1>0, ElementOfSeq
<1> DEFINE g == SubSeq(h, 1, n)
<1>2. /\ g \in Seq(Body)
      /\ Len(g) = n
      /\ \A i \in 1 .. n : g[i] = h[i]
    <2>1. /\ g \in Seq(Body)
          /\ Len(g) = IF 1 <= n THEN n - 1 + 1 ELSE 0
          /\ \A i \in 1 .. n - 1 + 1 : g[i] = h[1 + i - 1]
        BY <1>0, <1>1, SubSeqProperties
    <2> QED
        BY <1>0, <2>1
<1>3. /\ SubSeq(g, 1, m) \in Seq(Body)
      /\ Len(SubSeq(g, 1, m)) = m
      /\ \A i \in 1 .. m : SubSeq(g, 1, m)[i] = g[i]
    <2>1. \A i \in 1 .. m : g[i] \in Body
        BY <1>0, <1>1, <1>2
    <2>2. /\ SubSeq(g, 1, m) \in Seq(Body)
          /\ Len(SubSeq(g, 1, m)) = IF 1 <= m THEN m - 1 + 1 ELSE 0
          /\ \A i \in 1 .. m - 1 + 1 : SubSeq(g, 1, m)[i] = g[1 + i - 1]
        BY <1>0, <2>1, SubSeqProperties
    <2> QED
        BY <1>0, <2>2
<1>4. /\ SubSeq(h, 1, m) \in Seq(Body)
      /\ Len(SubSeq(h, 1, m)) = m
      /\ \A i \in 1 .. m : SubSeq(h, 1, m)[i] = h[i]
    <2>1. \A i \in 1 .. m : h[i] \in Body
        BY <1>0, <1>1
    <2>2. /\ SubSeq(h, 1, m) \in Seq(Body)
          /\ Len(SubSeq(h, 1, m)) = IF 1 <= m THEN m - 1 + 1 ELSE 0
          /\ \A i \in 1 .. m - 1 + 1 : SubSeq(h, 1, m)[i] = h[1 + i - 1]
        BY <1>0, <2>1, SubSeqProperties
    <2> QED
        BY <1>0, <2>2
<1>5. \A i \in 1 .. m : SubSeq(g, 1, m)[i] = SubSeq(h, 1, m)[i]
    BY <1>0, <1>2, <1>3, <1>4
<1> QED
    BY <1>3, <1>4, <1>5, SeqEqual

\* In a linked log every entry's history begins with each earlier entry's.
LEMMA Nested ==
    ASSUME NEW l \in Seq(Entry), Linked(l),
           NEW i \in 1 .. Len(l), NEW j \in 1 .. i
    PROVE  l[j] = SubSeq(l[i], 1, j)
<1>0. /\ Len(l) \in Nat
      /\ DOMAIN l = 1 .. Len(l)
      /\ i \in Nat /\ j \in Nat
    BY LenProperties
<1>1. \A k \in 1 .. Len(l) : l[k] \in Entry /\ l[k] \in Seq(Body) /\ Len(l[k]) = k
    <2> TAKE k \in 1 .. Len(l)
    <2>1. l[k] \in Entry
        BY ElementOfSeq
    <2>2. SeqOf(l[k]) = k - 1
        BY <1>0 DEF Linked
    <2> QED
        BY <1>0, <2>1, <2>2, EntryFacts
<1> DEFINE T == {k \in j .. Len(l) : l[j] # SubSeq(l[k], 1, j)}
<1>2. SUFFICES ASSUME T # {} PROVE FALSE
    BY <1>0
<1>3. T \in SUBSET Nat
    BY <1>0
<1>4. PICK n \in T : \A m \in T : n <= m
    BY <1>2, <1>3, LeastElement
<1>5. n \in j .. Len(l) /\ n \in 1 .. Len(l) /\ n \in Nat
    BY <1>0, <1>4
<1>6. CASE n = j
    <2>1. SubSeq(l[n], 1, n) = l[n]
        BY <1>1, <1>5, SubSeqFull
    <2> QED
        BY <1>4, <1>6, <2>1
<1>7. CASE n # j
    <2>1. n - 1 \in j .. Len(l) /\ n - 1 \in 1 .. Len(l) /\ n - 1 \in Nat
        BY <1>0, <1>5, <1>7
    <2>2. n - 1 \notin T
        BY <1>0, <1>4, <1>5, <2>1
    <2>3. l[j] = SubSeq(l[n - 1], 1, j)
        BY <2>1, <2>2
    <2>4. l[n - 1] = SubSeq(l[n], 1, n - 1)
        <3>1. n \in DOMAIN l /\ n # 1
            BY <1>0, <1>5, <1>7
        <3>2. PrevOf(l[n]) = l[n - 1]
            BY <3>1 DEF Linked, HashOf
        <3>3. Len(l[n]) = n
            BY <1>1, <1>5
        <3> QED
            BY <3>2, <3>3 DEF PrevOf
    <2>5. n - 1 \in 0 .. Len(l[n]) /\ j \in 0 .. n - 1
        BY <1>0, <1>1, <1>5, <2>1
    <2>6. SubSeq(SubSeq(l[n], 1, n - 1), 1, j) = SubSeq(l[n], 1, j)
        BY <1>1, <1>5, <2>5, CutTwice
    <2> QED
        BY <1>4, <2>3, <2>4, <2>6
<1> QED
    BY <1>6, <1>7
-----------------------------------------------------------------------------
(* Type correctness.                                                         *)

\* A stretch of a sequence.
LEMMA Stretch ==
    ASSUME NEW S, NEW b \in Seq(S), NEW m \in Nat \ {0}, NEW n \in Nat,
           m <= n + 1, n <= Len(b)
    PROVE  /\ SubSeq(b, m, n) \in Seq(S)
           /\ Len(SubSeq(b, m, n)) = n - m + 1
           /\ \A k \in 1 .. (n - m + 1) : SubSeq(b, m, n)[k] = b[m + k - 1]
<1>1. Len(b) \in Nat
    BY LenProperties
<1>2. \A i \in m .. n : b[i] \in S
    BY <1>1, ElementOfSeq
<1> QED
    BY <1>2, SubSeqProperties

\* What a run holds from a sequence on is made of its entries.
LEMMA BeyondWithin ==
    ASSUME NEW S, NEW b \in Seq(Entry), b \in Seq(S), NEW n \in Nat
    PROVE  Beyond(b, n) \in Seq(S)
<1>1. CASE b = <<>> \/ n <= SeqOf(b[1])
    BY <1>1 DEF Beyond
<1>2. CASE ~(b = <<>> \/ n <= SeqOf(b[1]))
    <2>1. Len(b) \in Nat \ {0}
        BY <1>2, EmptySeq
    <2>2. SeqOf(b[1]) \in Nat
        BY <2>1, ElementOfSeq, EntryFacts
    <2> DEFINE m == n - SeqOf(b[1]) + 1
    <2>3. m \in Nat \ {0} /\ m \in Int
        BY <1>2, <2>2
    <2>4. \A i \in m .. Len(b) : b[i] \in S
        BY <2>1, <2>3, ElementOfSeq
    <2>5. SubSeq(b, m, Len(b)) \in Seq(S)
        BY <2>1, <2>3, <2>4, SubSeqProperties
    <2> QED
        BY <1>2, <2>5 DEF Beyond
<1> QED
    BY <1>1, <1>2

\* What is staged of a batch is a sequence of entries.
LEMMA StagedType ==
    ASSUME NEW b \in Seq(Entry), NEW n \in Nat
    PROVE  Beyond(b, n) \in Seq(Entry)
BY BeyondWithin

\* The messages the handlers send.
LEMMA MessageTypes ==
    /\ RoomTypeOK => StateMessage \in Message
    /\ RoomTypeOK => Appended(TipSeq(log)) \in Message
    /\ \A b \in Seq(Entry) : [t |-> "entries", entries |-> b] \in Message
    /\ \A c \in ErrorCode : [t |-> "err", code |-> c] \in Message
<1>1. RoomTypeOK => StateMessage \in Message
    BY TipHashType DEF RoomTypeOK, StateMessage, Message
<1>2. RoomTypeOK => Appended(TipSeq(log)) \in Message
    BY TipHashType DEF RoomTypeOK, Appended, Message
<1>3. \A b \in Seq(Entry) : [t |-> "entries", entries |-> b] \in Message
    BY DEF Message
<1>4. \A c \in ErrorCode : [t |-> "err", code |-> c] \in Message
    BY DEF Message
<1> QED
    BY <1>1, <1>2, <1>3, <1>4

LEMMA RefusalType ==
    ASSUME NEW b PROVE Refusal(b) \in ErrorCode
BY DEF Refusal, ErrorCode

LEMMA SentType ==
    ASSUME RoomTypeOK, NEW s \in Socket, NEW m \in Message
    PROVE  Sent(s, m) \in [Socket -> Seq(Message)]
<1>1. down \in [Socket -> Seq(Message)]
    BY DEF RoomTypeOK
<1>2. Append(down[s], m) \in Seq(Message)
    BY <1>1, AppendProperties
<1> QED
    BY <1>1, <1>2 DEF Sent

LEMMA FanoutType ==
    ASSUME RoomTypeOK, NEW s \in Socket, NEW m \in Message, NEW b \in Seq(Entry)
    PROVE  Fanout(s, b, m) \in [Socket -> Seq(Message)]
<1>1. down \in [Socket -> Seq(Message)]
    BY DEF RoomTypeOK
<1> DEFINE handed(r) == IF r = s THEN m ELSE [t |-> "entries", entries |-> b]
<1>2. \A r \in Socket : handed(r) \in Message
    BY MessageTypes
<1> HIDE DEF handed
<1>3. \A r \in Socket : Append(down[r], handed(r)) \in Seq(Message)
    BY <1>1, <1>2, AppendProperties
<1>4. Fanout(s, b, m) =
        [r \in Socket |-> IF r \notin open \/ r \in gone THEN down[r]
                          ELSE Append(down[r], handed(r))]
    BY DEF Fanout, handed
<1> QED
    BY <1>1, <1>3, <1>4

LEMMA BatchType ==
    ASSUME NEW b \in Batch
    PROVE  b \in Seq(Entry) /\ IsRun(b)
BY BatchAssumption
\* Every handler keeps every variable in its type.
LEMMA TypeKept ==
    ASSUME RoomTypeOK, RoomNext
    PROVE  RoomTypeOK'
<1> USE DEF RoomTypeOK, logVars, scheduleVars, socketVars
<1>1. ASSUME NEW s \in Socket, Accept(s) PROVE RoomTypeOK'
    <2>1. down' \in [Socket -> Seq(Message)]
        BY <1>1, EmptySeq DEF Accept
    <2> QED
        BY <1>1, <2>1 DEF Accept
<1>2. ASSUME NEW s \in Socket, Vanish(s) PROVE RoomTypeOK'
    <2>1. down' \in [Socket -> Seq(Message)]
        BY <1>2, EmptySeq DEF Vanish
    <2> QED
        BY <1>2, <2>1 DEF Vanish
<1>3. ASSUME NEW s \in Socket, Close(s) PROVE RoomTypeOK'
    <2>1. down' \in [Socket -> Seq(Message)]
        BY <1>3, EmptySeq DEF Close
    <2> QED
        BY <1>3, <2>1 DEF Close
<1>4. ASSUME NEW s \in Socket, Delivered(s) PROVE RoomTypeOK'
    <2>1. Tail(down[s]) \in Seq(Message)
        BY <1>4, HeadTailProperties DEF Delivered
    <2> QED
        BY <1>4, <2>1 DEF Delivered
<1>5. ASSUME NEW s \in Socket, NEW who \in Participant, OnHello(s, who)
      PROVE  RoomTypeOK'
    <2>1. down' \in [Socket -> Seq(Message)]
        BY <1>5, MessageTypes, SentType DEF OnHello
    <2> QED
        BY <1>5, <2>1 DEF OnHello
<1>6. ASSUME NEW s \in Socket, NEW b \in Batch, OnAppend(s, b) PROVE RoomTypeOK'
    <2>1. CASE AppendUnbound(s, b)
        <3>1. [t |-> "err", code |-> "bad_message"] \in Message
            BY MessageTypes DEF ErrorCode
        <3>2. down' \in [Socket -> Seq(Message)]
            BY <2>1, <3>1, SentType DEF AppendUnbound, Fail
        <3> QED
            BY <2>1, <3>2 DEF AppendUnbound
    <2>2. CASE AppendRefused(s, b)
        <3>1. [t |-> "err", code |-> Refusal(b)] \in Message
            BY MessageTypes, RefusalType
        <3>2. down' \in [Socket -> Seq(Message)]
            BY <2>2, <3>1, SentType DEF AppendRefused, Fail
        <3> QED
            BY <2>2, <3>2 DEF AppendRefused
    <2>3. CASE AppendKnown(s, b)
        <3>1. down' \in [Socket -> Seq(Message)]
            BY <2>3, MessageTypes, FanoutType, BatchType DEF AppendKnown
        <3> QED
            BY <2>3, <3>1 DEF AppendKnown
    <2>4. CASE AppendCommit(s, b)
        <3>1. Staged(b) \in Seq(Entry)
            BY BatchType, StagedType, LenProperties DEF Staged
        <3>2. log' \in Seq(Entry)
            BY <2>4, <3>1, ConcatProperties DEF AppendCommit
        <3>3. pushing' \in SUBSET [sock : Socket, entries : Seq(Entry)]
            BY <2>4, BatchType DEF AppendCommit
        <3>4. /\ lastAuthor' \in Participant \cup {NoOne}
              /\ reminderAt' \in BOOLEAN
              /\ retentionAt' \in BOOLEAN
              /\ nudging' \in BOOLEAN
              /\ alarm' \in {"none", "reminder", "retention"}
            BY <2>4 DEF AppendCommit, ScheduleTurnReminder, Earliest
        <3> QED
            BY <2>4, <3>2, <3>3, <3>4 DEF AppendCommit
    <2> QED
        BY <1>6, <2>1, <2>2, <2>3, <2>4 DEF OnAppend
<1>7. ASSUME NEW s \in Socket, NEW n \in 0 .. Len(log), OnReq(s, n) PROVE RoomTypeOK'
    <2>1. SubSeq(log, n + 1, Len(log)) \in Seq(Entry)
        BY LenProperties, Stretch
    <2>2. down' \in [Socket -> Seq(Message)]
        BY <1>7, <2>1, MessageTypes, SentType DEF OnReq
    <2> QED
        BY <1>7, <2>2 DEF OnReq
<1>8. ASSUME NEW p \in pushing, FinishAppend(p) PROVE RoomTypeOK'
    <2>1. down' \in [Socket -> Seq(Message)]
        BY <1>8, MessageTypes, FanoutType DEF FinishAppend
    <2> QED
        BY <1>8, <2>1 DEF FinishAppend
<1>9. ASSUME NEW p \in pushing, AbortAppend(p) PROVE RoomTypeOK'
    BY <1>9 DEF AbortAppend
<1>10. ASSUME Evict PROVE RoomTypeOK'
    BY <1>10, TipHashType, EmptySeq DEF Evict
<1>11. ASSUME Remind PROVE RoomTypeOK'
    BY <1>11 DEF Remind
<1>12. ASSUME FinishRemind PROVE RoomTypeOK'
    BY <1>12 DEF FinishRemind, Earliest
<1> QED
    BY <1>1, <1>2, <1>3, <1>4, <1>5, <1>6, <1>7, <1>8, <1>9, <1>10, <1>11, <1>12
       DEF RoomNext

LEMMA TypeUnchanged ==
    ASSUME RoomTypeOK, UNCHANGED roomVars
    PROVE  RoomTypeOK'
BY DEF RoomTypeOK, roomVars, logVars, scheduleVars, socketVars

LEMMA TypeAtStart ==
    ASSUME RoomStart
    PROVE  RoomTypeOK
<1>1. <<>> \in Seq(Entry) /\ <<>> \in Seq(Message)
    BY EmptySeq
<1> QED
    BY <1>1 DEF RoomStart, RoomInit, RoomTypeOK, Hash

\* Every variable of a room keeps its type, whoever connects and whatever they
\* append: message handlers send well-formed messages only.
THEOREM TypeCorrect == RoomSpec => []RoomTypeOK
<1>1. RoomStart => RoomTypeOK
    BY TypeAtStart
<1>2. RoomTypeOK /\ [RoomNext]_roomVars => RoomTypeOK'
    BY TypeKept, TypeUnchanged
<1> QED
    BY <1>1, <1>2, PTL DEF RoomSpec
-----------------------------------------------------------------------------
(* The stored log is one chain.                                              *)

\* What an accepted batch adds goes on exactly where the log stops: entry by
\* entry at the next sequence, each on the hash of the one before it.
LEMMA StagedFollows ==
    ASSUME RoomTypeOK, NEW b \in Seq(Entry), IsRun(b), Accepts(b), Staged(b) # <<>>
    PROVE  \A k \in 1 .. Len(Staged(b)) :
              /\ SeqOf(Staged(b)[k]) = Len(log) + k - 1
              /\ PrevOf(Staged(b)[k]) =
                    IF k = 1 THEN TipHash(log) ELSE HashOf(Staged(b)[k - 1])
<1> DEFINE n == Len(log)
           q == SeqOf(b[1])
           t == Staged(b)
<1>1. /\ b \in Seq(Entry)
      /\ IsRun(b)
      /\ n \in Nat
    BY LenProperties DEF RoomTypeOK
<1>2. b # <<>>
    BY DEF Staged, Beyond
<1>3. Len(b) \in Nat \ {0} /\ DOMAIN b = 1 .. Len(b)
    BY <1>1, <1>2, EmptySeq, LenProperties
<1>4. q \in Nat
    BY <1>1, <1>3, ElementOfSeq, EntryFacts
<1>5. \A m \in 1 .. Len(b) : SeqOf(b[m]) = q + m - 1
    BY <1>1, <1>3 DEF IsRun
<1>6. \A m \in 1 .. Len(b) : Fits(b, m)
    BY <1>3 DEF Accepts
<1>7. q <= n
    <2>1. Fits(b, 1)
        BY <1>3, <1>6
    <2>2. Expected(b, 1).seq = n
        BY DEF Expected
    <2>3. q < n \/ q = n
        BY <2>1, <2>2 DEF Fits
    <2> QED
        BY <1>1, <1>4, <2>3
\* The k-th staged entry is the batch's (n - q + k)-th.
<1>8. /\ Len(t) = Len(b) - (n - q)
      /\ \A k \in 1 .. Len(t) : t[k] = b[n - q + k]
    <2>1. CASE n <= q
        <3>1. t = b /\ n = q
            BY <1>1, <1>4, <1>7, <2>1 DEF Staged, Beyond
        <3> QED
            BY <1>1, <1>3, <1>4, <3>1
    <2>2. CASE ~(n <= q)
        <3>1. t = SubSeq(b, n - q + 1, Len(b))
            BY <1>2, <2>2 DEF Staged, Beyond
        <3>2. n - q + 1 \in Nat \ {0} /\ n - q + 1 \in Int /\ Len(b) \in Int
            BY <1>1, <1>3, <1>4, <2>2
        <3>3. n - q + 1 <= Len(b)
            BY <1>3, <3>1, <3>2, SubSeqEmpty
        <3>4. /\ Len(t) = Len(b) - (n - q + 1) + 1
              /\ \A k \in 1 .. (Len(b) - (n - q + 1) + 1) : t[k] = b[(n - q + 1) + k - 1]
            <4> DEFINE f == n - q + 1
            <4>1. f \in Nat \ {0} /\ f <= Len(b) + 1 /\ Len(b) <= Len(b) /\ Len(b) \in Nat
                BY <1>3, <3>2, <3>3
            <4> HIDE DEF f
            <4>2. /\ Len(SubSeq(b, f, Len(b))) = Len(b) - f + 1
                  /\ \A k \in 1 .. (Len(b) - f + 1) : SubSeq(b, f, Len(b))[k] = b[f + k - 1]
                BY <1>1, <4>1, Stretch
            <4> QED
                BY <3>1, <4>2 DEF f
        <3>5. Len(b) - (n - q + 1) + 1 = Len(b) - (n - q)
            BY <1>1, <1>3, <1>4
        <3>6. \A k \in Nat : (n - q + 1) + k - 1 = n - q + k
            BY <1>1, <1>4
        <3>7. Len(b) - (n - q) \in Int
            BY <1>1, <1>3, <1>4
        <3> QED
            BY <3>4, <3>5, <3>6, <3>7
    <2> QED
        BY <2>1, <2>2
<1> HIDE DEF t
<1>9. SUFFICES ASSUME NEW k \in 1 .. Len(t)
               PROVE  /\ SeqOf(t[k]) = n + k - 1
                      /\ PrevOf(t[k]) = IF k = 1 THEN TipHash(log) ELSE HashOf(t[k - 1])
    BY DEF t
<1> DEFINE m == n - q + k
<1>10. /\ m \in 1 .. Len(b)
       /\ t[k] = b[m]
       /\ k \in Nat
    BY <1>1, <1>3, <1>4, <1>7, <1>8
<1>11. SeqOf(b[m]) = n + k - 1
    BY <1>1, <1>4, <1>5, <1>10
<1>12. PrevOf(b[m]) = Expected(b, m).prev
    <2>1. ~(SeqOf(b[m]) < n)
        BY <1>1, <1>10, <1>11
    <2> QED
        BY <1>6, <1>10, <2>1 DEF Fits
<1>13. CASE k = 1
    <2>1. CASE m = 1
        BY <1>10, <1>11, <1>12, <1>13, <2>1 DEF Expected
    <2>2. CASE m # 1
        <3>1. m - 1 \in 1 .. Len(b) /\ SeqOf(b[m - 1]) = n - 1
            <4>1. m - 1 \in 1 .. Len(b)
                BY <1>3, <1>10, <2>2
            <4>2. SeqOf(b[m - 1]) = q + (m - 1) - 1
                BY <1>5, <4>1
            <4>3. q + (m - 1) - 1 = n - 1
                BY <1>1, <1>4, <1>13
            <4> QED
                BY <4>1, <4>2, <4>3
        <3>2. ~(SeqOf(b[m - 1]) >= n)
            BY <1>1, <3>1
        <3> QED
            BY <1>10, <1>11, <1>12, <1>13, <3>2 DEF Expected
    <2> QED
        BY <2>1, <2>2
<1>14. CASE k # 1
    <2>1. /\ k - 1 \in 1 .. Len(t)
          /\ m - 1 \in 1 .. Len(b)
          /\ m > 1
          /\ n - q + (k - 1) = m - 1
        BY <1>1, <1>3, <1>4, <1>7, <1>8, <1>10, <1>14
    <2>2. t[k - 1] = b[m - 1]
        BY <1>8, <2>1
    <2>3. SeqOf(b[m - 1]) >= n
        <3>1. SeqOf(b[m - 1]) = q + (m - 1) - 1
            BY <1>5, <2>1
        <3>2. k \in Nat /\ k >= 2
            BY <1>10, <1>14
        <3>3. q + (m - 1) - 1 = n + k - 2
            BY <1>1, <1>4, <3>2
        <3> QED
            BY <1>1, <3>1, <3>2, <3>3
    <2>4. Expected(b, m).prev = HashOf(b[m - 1])
        BY <2>1, <2>3 DEF Expected
    <2> QED
        BY <1>10, <1>11, <1>12, <1>14, <2>2, <2>4
<1> QED
    BY <1>13, <1>14

\* A linked log with entries after it that follow on is linked.
LEMMA LinkedExtends ==
    ASSUME NEW l \in Seq(Entry), NEW t \in Seq(Entry), Linked(l),
           \A k \in 1 .. Len(t) :
              /\ SeqOf(t[k]) = Len(l) + k - 1
              /\ PrevOf(t[k]) = IF k = 1 THEN TipHash(l) ELSE HashOf(t[k - 1])
    PROVE  Linked(l \o t)
<1> DEFINE n == Len(l)
           c == l \o t
<1>1. /\ n \in Nat
      /\ Len(t) \in Nat
      /\ DOMAIN l = 1 .. n
    BY LenProperties
<1>2. /\ c \in Seq(Entry)
      /\ Len(c) = n + Len(t)
      /\ \A i \in 1 .. n + Len(t) : c[i] = IF i <= n THEN l[i] ELSE t[i - n]
    BY ConcatProperties
<1>3. DOMAIN c = 1 .. n + Len(t)
    BY <1>2, LenProperties
<1> HIDE DEF c
<1>4. SUFFICES ASSUME NEW i \in 1 .. n + Len(t)
               PROVE  /\ SeqOf(c[i]) = i - 1
                      /\ PrevOf(c[i]) = IF i = 1 THEN GenesisPrevHash ELSE HashOf(c[i - 1])
    BY <1>3 DEF Linked, c
<1>5. CASE i <= n
    <2>1. i \in 1 .. n /\ c[i] = l[i]
        BY <1>1, <1>2, <1>5
    <2>2. i # 1 => c[i - 1] = l[i - 1]
        BY <1>1, <1>2, <1>5
    <2>3. /\ SeqOf(l[i]) = i - 1
          /\ PrevOf(l[i]) = IF i = 1 THEN GenesisPrevHash ELSE HashOf(l[i - 1])
        BY <1>1, <2>1 DEF Linked
    <2> QED
        BY <2>1, <2>2, <2>3
<1>6. CASE i = n + 1
    <2>0. i \in Nat /\ ~(i <= n) /\ i - n = 1 /\ Len(t) >= 1
        BY <1>1, <1>6
    <2>1. c[i] = t[1] /\ 1 \in 1 .. Len(t)
        BY <1>1, <1>2, <2>0
    <2>2. SeqOf(c[i]) = i - 1 /\ PrevOf(c[i]) = TipHash(l)
        BY <1>1, <1>6, <2>1
    <2>3. CASE n = 0
        <3>1. l = <<>>
            BY <2>3, EmptySeq
        <3> QED
            BY <1>6, <2>2, <2>3, <3>1 DEF TipHash
    <2>4. CASE n # 0
        <3>1. c[i - 1] = l[n] /\ i # 1
            BY <1>1, <1>2, <1>6, <2>4
        <3>2. l # <<>>
            BY <2>4, EmptySeq
        <3> QED
            BY <2>2, <3>1, <3>2 DEF TipHash
    <2> QED
        BY <2>3, <2>4
<1>7. CASE i > n + 1
    <2>1. /\ i - n \in 1 .. Len(t)
          /\ i - n # 1
          /\ c[i] = t[i - n]
          /\ c[i - 1] = t[i - n - 1]
          /\ i # 1
        BY <1>1, <1>2, <1>7
    <2>2. SeqOf(t[i - n]) = n + (i - n) - 1 /\ PrevOf(t[i - n]) = HashOf(t[i - n - 1])
        BY <2>1
    <2> QED
        BY <1>1, <2>1, <2>2
<1> QED
    BY <1>1, <1>5, <1>6, <1>7

\* An append that commits leaves the log linked.
LEMMA CommitLinks ==
    ASSUME RoomTypeOK, LogLinked, NEW s \in Socket, NEW b \in Seq(Entry), IsRun(b),
           AppendCommit(s, b)
    PROVE  LogLinked'
<1>1. Staged(b) \in Seq(Entry)
    BY StagedType, LenProperties DEF RoomTypeOK, Staged
<1>2. \A k \in 1 .. Len(Staged(b)) :
          /\ SeqOf(Staged(b)[k]) = Len(log) + k - 1
          /\ PrevOf(Staged(b)[k]) =
                IF k = 1 THEN TipHash(log) ELSE HashOf(Staged(b)[k - 1])
    BY StagedFollows DEF AppendCommit
<1>3. Linked(log \o Staged(b))
    BY <1>1, <1>2, LinkedExtends DEF RoomTypeOK, LogLinked
<1> QED
    BY <1>3 DEF AppendCommit, LogLinked
\* Only a committing append and an eviction touch the log.
LEMMA LogChanges ==
    ASSUME [RoomNext]_roomVars
    PROVE  \/ UNCHANGED log
           \/ \E s \in Socket, b \in Batch : AppendCommit(s, b)
           \/ Evict
BY DEF RoomNext, roomVars, logVars, Accept, Vanish, Close, Delivered, OnHello,
       OnAppend, AppendUnbound, AppendRefused, AppendKnown, OnReq, FinishAppend,
       AbortAppend, Remind, FinishRemind

LEMMA LinkedKept ==
    ASSUME RoomTypeOK, LogLinked, [RoomNext]_roomVars
    PROVE  LogLinked'
<1>1. CASE UNCHANGED log
    BY <1>1 DEF LogLinked
<1>2. ASSUME NEW s \in Socket, NEW b \in Batch, AppendCommit(s, b) PROVE LogLinked'
    BY <1>2, BatchType, CommitLinks
<1>3. CASE Evict
    <2>1. log' = <<>>
        BY <1>3 DEF Evict
    <2> QED
        BY <2>1 DEF LogLinked, Linked
<1> QED
    BY <1>1, <1>2, <1>3, LogChanges

\* The log a room stores is one gapless chain from genesis, for every way in
\* which clients may race appends, re-send old entries or send forked ones, and
\* through every eviction (append, entryAt, evict).
THEOREM LogLinkedAlways == RoomSpec => []LogLinked
<1>1. RoomStart => LogLinked
    BY DEF RoomStart, LogLinked, Linked
<1>2. RoomTypeOK /\ LogLinked /\ [RoomNext]_roomVars => LogLinked'
    BY LinkedKept
<1> QED
    BY <1>1, <1>2, TypeCorrect, PTL DEF RoomSpec
-----------------------------------------------------------------------------
(* What is stored is only extended, or evicted as a whole.                   *)

\* The tip of a linked log that goes on from another extends the other's tip.
LEMMA TipExtends ==
    ASSUME NEW l \in Seq(Entry), NEW t \in Seq(Entry), Linked(l \o t), t # <<>>
    PROVE  l \o t # <<>> /\ IsPrefixOf(TipHash(l), TipHash(l \o t))
<1> DEFINE n == Len(l)
           c == l \o t
           z == Len(c)
<1>1. /\ n \in Nat
      /\ Len(t) \in Nat \ {0}
    BY LenProperties, EmptySeq
<1>2. /\ c \in Seq(Entry)
      /\ z = n + Len(t)
      /\ \A i \in 1 .. n + Len(t) : c[i] = IF i <= n THEN l[i] ELSE t[i - n]
    BY ConcatProperties
<1>3. c # <<>> /\ z \in 1 .. Len(c) /\ z \in Nat \ {0}
    BY <1>1, <1>2, EmptySeq
<1>4. /\ TipHash(c) = c[z]
      /\ c[z] \in Entry
    BY <1>2, <1>3, ElementOfSeq DEF TipHash, HashOf
<1>5. c[z] \in Seq(Body) /\ Len(c[z]) = z
    <2>1. SeqOf(c[z]) = z - 1
        BY <1>2, <1>3, LenProperties DEF Linked
    <2> QED
        BY <1>3, <1>4, <2>1, EntryFacts
<1>6. CASE n = 0
    <2>1. TipHash(l) = <<>>
        BY <1>6, EmptySeq DEF TipHash, GenesisPrevHash
    <2>2. SubSeq(c[z], 1, 0) = <<>>
        BY SubSeqEmpty
    <2> QED
        BY <1>3, <1>4, <1>5, <2>1, <2>2, EmptySeq DEF IsPrefixOf
<1>7. CASE n # 0
    <2>1. n \in 1 .. z /\ n \in 1 .. Len(c) /\ n \in 1 .. n
        BY <1>1, <1>2, <1>7
    <2>2. TipHash(l) = l[n] /\ l[n] = c[n]
        BY <1>1, <1>2, <1>7, <2>1, EmptySeq DEF TipHash, HashOf
    <2>3. c[n] = SubSeq(c[z], 1, n)
        BY <1>2, <1>3, <2>1, Nested
    <2>4. Len(c[n]) = n
        <3>1. SeqOf(c[n]) = n - 1 /\ c[n] \in Entry
            BY <1>2, <2>1, LenProperties, ElementOfSeq DEF Linked
        <3>2. /\ Len(c[n]) \in Nat \ {0}
              /\ SeqOf(c[n]) = Len(c[n]) - 1
            BY <3>1, EntryFacts
        <3>3. Len(c[n]) - 1 = n - 1
            BY <3>1, <3>2
        <3> HIDE DEF n, c
        <3> QED
            BY <1>1, <3>2, <3>3
    <2> QED
        BY <1>1, <1>2, <1>3, <1>4, <1>5, <2>2, <2>3, <2>4 DEF IsPrefixOf
<1> QED
    BY <1>6, <1>7

\* No step replaces or drops a stored entry: a log is extended by an append, or
\* evicted whole, and then its tip is what the tombstone keeps (append, evict).
THEOREM HistoryKeptAlways == RoomSpec => HistoryKept
<1> DEFINE Kept == \/ log' # <<>> /\ IsPrefixOf(TipHash(log), TipHash(log'))
                   \/ log' = <<>> /\ tombstone' = TipHash(log)
<1>1. RoomTypeOK /\ LogLinked /\ [RoomNext]_roomVars => [Kept]_log
    <2> SUFFICES ASSUME RoomTypeOK, LogLinked, [RoomNext]_roomVars, log' # log
                 PROVE  Kept
        OBVIOUS
    <2>1. ASSUME NEW s \in Socket, NEW b \in Batch, AppendCommit(s, b) PROVE Kept
        <3>1. log' = log \o Staged(b) /\ Staged(b) # <<>>
            BY <2>1 DEF AppendCommit
        <3>2. log \in Seq(Entry) /\ Staged(b) \in Seq(Entry)
            BY BatchType, StagedType, LenProperties DEF RoomTypeOK, Staged
        <3>3. Linked(log \o Staged(b))
            BY <2>1, <3>1, BatchType, CommitLinks DEF LogLinked
        <3> QED
            BY <3>1, <3>2, <3>3, TipExtends
    <2>2. CASE Evict
        BY <2>2 DEF Evict
    <2> QED
        BY <2>1, <2>2, LogChanges
<1> QED
    BY <1>1, TypeCorrect, LogLinkedAlways, PTL DEF RoomSpec, HistoryKept
-----------------------------------------------------------------------------
(* The one alarm.                                                            *)

LEMMA AlarmKept ==
    ASSUME RoomTypeOK, NoRoomForgotten, AlarmIsEarliest, [RoomNext]_roomVars
    PROVE  NoRoomForgotten' /\ AlarmIsEarliest'
<1> USE DEF NoRoomForgotten, AlarmIsEarliest, Earliest
<1>1. CASE UNCHANGED <<log, scheduleVars>>
    BY <1>1 DEF scheduleVars
<1>2. ASSUME NEW s \in Socket, NEW b \in Batch, AppendCommit(s, b)
      PROVE  NoRoomForgotten' /\ AlarmIsEarliest'
    BY <1>2 DEF AppendCommit, ScheduleTurnReminder
<1>3. CASE Evict
    BY <1>3 DEF Evict
<1>4. CASE Remind
    BY <1>4 DEF Remind, logVars
<1>5. CASE FinishRemind
    BY <1>5 DEF FinishRemind, logVars
<1>6. \/ UNCHANGED <<log, scheduleVars>>
      \/ \E s \in Socket, b \in Batch : AppendCommit(s, b)
      \/ Evict \/ Remind \/ FinishRemind
    BY DEF RoomNext, roomVars, logVars, scheduleVars, Accept, Vanish, Close, Delivered,
           OnHello, OnAppend, AppendUnbound, AppendRefused, AppendKnown, OnReq,
           FinishAppend, AbortAppend
<1> QED
    BY <1>1, <1>2, <1>3, <1>4, <1>5, <1>6

\* A stored log always has its retention date and an alarm that reaches it, and
\* the alarm is never later than the reminder, whatever append commits while a
\* reminder's push is awaited (rearm, scheduleTurnReminder, alarm, evict).
THEOREM AlarmAlways == RoomSpec => [](NoRoomForgotten /\ AlarmIsEarliest)
<1>1. RoomStart => NoRoomForgotten /\ AlarmIsEarliest
    BY DEF RoomStart, RoomInit, NoRoomForgotten, AlarmIsEarliest, Earliest
<1>2. RoomTypeOK /\ (NoRoomForgotten /\ AlarmIsEarliest) /\ [RoomNext]_roomVars
        => (NoRoomForgotten /\ AlarmIsEarliest)'
    BY AlarmKept
<1> QED
    BY <1>1, <1>2, TypeCorrect, PTL DEF RoomSpec

\* No reminder is slept through: the alarm is the earlier of the two dates.
COROLLARY AlarmIsEarliestAlways == RoomSpec => []AlarmIsEarliest
    BY AlarmAlways, PTL
=============================================================================
