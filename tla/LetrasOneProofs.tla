--------------------------- MODULE LetrasOneProofs ---------------------------
(* What TLAPS proves of version 1 of the rules: the audit at the end clears    *)
(* exactly the players who did not change their racks, and the devices agree   *)
(* until too much has been taken back.                                         *)
(* First what the recursions compute, of sums, draws and the audit; then the   *)
(* events, and how the audit of one follows a device that makes it (Tracks);   *)
(* then each stage of an entry on one device (Tiles, Control), what it leaves  *)
(* the same on both (Alike), and the invariant (OneInv). Last what each stage  *)
(* does to the number of tiles a device counts (Accounts), and the invariant   *)
(* of both (TwoInv).                                                           *)
EXTENDS LetrasOne, SequenceTheorems, WellFoundedInduction, TLAPS

\* Any non-empty set of naturals has a least element: what a recursion computes
\* is settled by looking at the first place where it would be otherwise.
LEMMA LeastElement ==
    ASSUME NEW T \in SUBSET Nat, T # {}
    PROVE  \E n \in T : \A m \in T : n <= m
<1>1. IsWellFoundedOn(OpToRel(<, Nat), Nat)
    BY NatLessThanWellFounded
<1>2. PICK n \in T : \A m \in T : ~(<<m, n>> \in OpToRel(<, Nat))
    BY <1>1, WFMin
<1>3. \A m \in T : ~(m < n)
    BY <1>2 DEF OpToRel
<1> QED
    BY <1>3
-----------------------------------------------------------------------------
(* Sums.                                                                     *)

IsSum(g, n, f) ==
    g = [i \in 0..n |-> IF i = 0 THEN 0 ELSE g[i - 1] + f[i]]

LEMMA SumExists ==
    ASSUME NEW f, NEW n \in Nat PROVE \E g : IsSum(g, n, f)
<1> DEFINE Bad == {k \in Nat : ~\E g : IsSum(g, k, f)}
<1> SUFFICES ASSUME Bad # {} PROVE FALSE
    OBVIOUS
<1>1. PICK k \in Bad : \A m \in Bad : k <= m
    BY LeastElement
<1>2. CASE k = 0
    <2> DEFINE h == [i \in 0..0 |-> 0]
    <2>1. h = [i \in 0..k |-> IF i = 0 THEN 0 ELSE h[i - 1] + f[i]]
        BY <1>2
    <2> QED
        BY <1>1, <2>1 DEF IsSum
<1>3. CASE k # 0
    <2>1. k - 1 \in Nat /\ k - 1 \notin Bad
        BY <1>1, <1>3
    <2>2. PICK g : IsSum(g, k - 1, f)
        BY <2>1
    <2> DEFINE h == [i \in 0..k |-> IF i = k THEN g[k - 1] + f[k] ELSE g[i]]
    <2>3. \A i \in 0..(k - 1) : h[i] = g[i]
        BY <1>1, <1>3
    <2>4. \A i \in 0..(k - 1) : h[i] = IF i = 0 THEN 0 ELSE h[i - 1] + f[i]
        <3> SUFFICES ASSUME NEW i \in 0..(k - 1)
                     PROVE  h[i] = IF i = 0 THEN 0 ELSE h[i - 1] + f[i]
            OBVIOUS
        <3>1. g[i] = IF i = 0 THEN 0 ELSE g[i - 1] + f[i]
            BY <2>2 DEF IsSum
        <3>2. i # 0 => h[i - 1] = g[i - 1]
            BY <1>1, <2>3
        <3> QED
            BY <2>3, <3>1, <3>2
    <2>5. h[k] = h[k - 1] + f[k]
        <3>1. k \in 0..k /\ k - 1 \in 0..(k - 1)
            BY <1>1, <1>3
        <3>2. h[k] = g[k - 1] + f[k]
            BY <3>1
        <3> QED
            BY <2>3, <3>1, <3>2
    <2>6. \A i \in 0..k : i = k \/ i \in 0..(k - 1)
        BY <1>1
    <2>7. \A i \in 0..k : h[i] = IF i = 0 THEN 0 ELSE h[i - 1] + f[i]
        BY <1>3, <2>4, <2>5, <2>6
    <2>8. h = [i \in 0..k |-> IF i = 0 THEN 0 ELSE h[i - 1] + f[i]]
        <3>1. h = [i \in 0..k |-> h[i]]
            OBVIOUS
        <3> HIDE DEF h
        <3> QED
            BY <2>7, <3>1
    <2>9. IsSum(h, k, f)
        BY <2>8 DEF IsSum
    <2> QED
        BY <1>1, <2>9
<1> QED
    BY <1>2, <1>3

\* What it is given up to n settles its values up to n.
LEMMA SumSame ==
    ASSUME NEW e, NEW f, NEW g, NEW h, NEW n \in Nat, NEW m \in Nat, n <= m,
           IsSum(g, n, e), IsSum(h, m, f), \A i \in 1..n : e[i] = f[i]
    PROVE  \A i \in 0..n : g[i] = h[i]
<1> DEFINE Bad == {i \in 0..n : g[i] # h[i]}
<1> SUFFICES ASSUME Bad # {} PROVE FALSE
    OBVIOUS
<1>1. PICK k \in Bad : \A i \in Bad : k <= i
    <2>1. Bad \in SUBSET Nat
        OBVIOUS
    <2> QED
        BY <2>1, LeastElement
<1>2. k \in 0..n /\ k \in 0..m /\ g[k] # h[k]
    BY <1>1
<1>3. /\ g[k] = IF k = 0 THEN 0 ELSE g[k - 1] + e[k]
      /\ h[k] = IF k = 0 THEN 0 ELSE h[k - 1] + f[k]
    BY <1>2 DEF IsSum
<1>4. k # 0
    BY <1>2, <1>3
<1>5. k - 1 \in 0..n /\ k - 1 \notin Bad /\ k \in 1..n
    BY <1>1, <1>2, <1>4
<1> QED
    BY <1>2, <1>3, <1>4, <1>5

LEMMA SumIsSum ==
    ASSUME NEW f, NEW n \in Nat PROVE \E g : IsSum(g, n, f) /\ SumUpTo(f, n) = g[n]
<1> DEFINE Chosen == CHOOSE sum : sum = [i \in 0..n |-> IF i = 0 THEN 0 ELSE sum[i - 1] + f[i]]
<1>1. IsSum(Chosen, n, f)
    BY SumExists DEF IsSum
<1>2. SumUpTo(f, n) = Chosen[n]
    BY DEF SumUpTo
<1> QED
    BY <1>1, <1>2

\* A sum goes on from the sum before.
LEMMA SumFacts ==
    ASSUME NEW f, NEW n \in Nat
    PROVE  SumUpTo(f, 0) = 0 /\ SumUpTo(f, n + 1) = SumUpTo(f, n) + f[n + 1]
<1>1. PICK z : IsSum(z, 0, f) /\ SumUpTo(f, 0) = z[0]
    BY SumIsSum
<1>2. PICK g : IsSum(g, n, f) /\ SumUpTo(f, n) = g[n]
    BY SumIsSum
<1>3. PICK m \in Nat : m = n + 1
    OBVIOUS
<1>4. PICK h : IsSum(h, m, f) /\ SumUpTo(f, m) = h[m]
    BY SumIsSum
<1>5. g[n] = h[n]
    <2>1. n <= m /\ n \in 0..n /\ m \in Nat /\ n \in Nat
        BY <1>3
    <2>2. \A i \in 1..n : f[i] = f[i]
        OBVIOUS
    <2>3. \A i \in 0..n : g[i] = h[i]
        BY <1>2, <1>4, <2>1, <2>2, SumSame
    <2> QED
        BY <2>1, <2>3
<1>6. h[m] = h[m - 1] + f[m] /\ m - 1 = n
    BY <1>3, <1>4 DEF IsSum
<1> QED
    BY <1>1, <1>2, <1>3, <1>4, <1>5, <1>6 DEF IsSum

LEMMA SumCongruent ==
    ASSUME NEW e, NEW f, NEW n \in Nat, \A i \in 1..n : e[i] = f[i]
    PROVE  SumUpTo(e, n) = SumUpTo(f, n)
<1>1. PICK g : IsSum(g, n, e) /\ SumUpTo(e, n) = g[n]
    BY SumIsSum
<1>2. PICK h : IsSum(h, n, f) /\ SumUpTo(f, n) = h[n]
    BY SumIsSum
<1>3. n <= n /\ n \in 0..n
    OBVIOUS
<1>4. \A i \in 0..n : g[i] = h[i]
    BY <1>1, <1>2, <1>3, SumSame
<1> QED
    BY <1>1, <1>2, <1>3, <1>4
-----------------------------------------------------------------------------
(* Draws.                                                                    *)

IsDraw(g, n, nonce, from, pool) ==
    g = [i \in 0..n |-> IF i = 0 THEN [tiles |-> NoTiles, pool |-> pool] ELSE DrawNext(g[i - 1], nonce, from + i - 1)]

LEMMA DrawExists ==
    ASSUME NEW nonce, NEW from, NEW pool, NEW n \in Nat PROVE \E g : IsDraw(g, n, nonce, from, pool)
<1> DEFINE Bad == {k \in Nat : ~\E g : IsDraw(g, k, nonce, from, pool)}
<1> SUFFICES ASSUME Bad # {} PROVE FALSE
    OBVIOUS
<1>1. PICK k \in Bad : \A m \in Bad : k <= m
    BY LeastElement
<1>2. CASE k = 0
    <2> DEFINE h == [i \in 0..0 |-> [tiles |-> NoTiles, pool |-> pool]]
    <2>1. h = [i \in 0..k |-> IF i = 0 THEN [tiles |-> NoTiles, pool |-> pool] ELSE DrawNext(h[i - 1], nonce, from + i - 1)]
        BY <1>2
    <2> QED
        BY <1>1, <2>1 DEF IsDraw
<1>3. CASE k # 0
    <2>1. k - 1 \in Nat /\ k - 1 \notin Bad
        BY <1>1, <1>3
    <2>2. PICK g : IsDraw(g, k - 1, nonce, from, pool)
        BY <2>1
    <2> DEFINE h == [i \in 0..k |-> IF i = k THEN DrawNext(g[k - 1], nonce, from + k - 1) ELSE g[i]]
    <2>3. \A i \in 0..(k - 1) : h[i] = g[i]
        BY <1>1, <1>3
    <2>4. \A i \in 0..(k - 1) : h[i] = IF i = 0 THEN [tiles |-> NoTiles, pool |-> pool] ELSE DrawNext(h[i - 1], nonce, from + i - 1)
        <3> SUFFICES ASSUME NEW i \in 0..(k - 1)
                     PROVE  h[i] = IF i = 0 THEN [tiles |-> NoTiles, pool |-> pool] ELSE DrawNext(h[i - 1], nonce, from + i - 1)
            OBVIOUS
        <3>1. g[i] = IF i = 0 THEN [tiles |-> NoTiles, pool |-> pool] ELSE DrawNext(g[i - 1], nonce, from + i - 1)
            BY <2>2 DEF IsDraw
        <3>2. i # 0 => h[i - 1] = g[i - 1]
            BY <1>1, <2>3
        <3> QED
            BY <2>3, <3>1, <3>2
    <2>5. h[k] = DrawNext(h[k - 1], nonce, from + k - 1)
        <3>1. k \in 0..k /\ k - 1 \in 0..(k - 1)
            BY <1>1, <1>3
        <3>2. h[k] = DrawNext(g[k - 1], nonce, from + k - 1)
            BY <3>1
        <3> QED
            BY <2>3, <3>1, <3>2
    <2>6. \A i \in 0..k : i = k \/ i \in 0..(k - 1)
        BY <1>1
    <2>7. \A i \in 0..k : h[i] = IF i = 0 THEN [tiles |-> NoTiles, pool |-> pool] ELSE DrawNext(h[i - 1], nonce, from + i - 1)
        BY <1>3, <2>4, <2>5, <2>6
    <2>8. h = [i \in 0..k |-> IF i = 0 THEN [tiles |-> NoTiles, pool |-> pool] ELSE DrawNext(h[i - 1], nonce, from + i - 1)]
        <3>1. h = [i \in 0..k |-> h[i]]
            OBVIOUS
        <3> HIDE DEF h
        <3> QED
            BY <2>7, <3>1
    <2>9. IsDraw(h, k, nonce, from, pool)
        BY <2>8 DEF IsDraw
    <2> QED
        BY <1>1, <2>9
<1> QED
    BY <1>2, <1>3

LEMMA DrawIsDraw ==
    ASSUME NEW nonce, NEW from, NEW pool, NEW n \in Nat
    PROVE  \E g : IsDraw(g, n, nonce, from, pool) /\ Draw(nonce, from, n, pool) = g[n]
<1> DEFINE Chosen == CHOOSE got : got = [i \in 0..n |-> IF i = 0 THEN [tiles |-> NoTiles, pool |-> pool]
                                                  ELSE DrawNext(got[i - 1], nonce, from + i - 1)]
<1>0. \E g : IsDraw(g, n, nonce, from, pool)
    BY DrawExists
<1>1. IsDraw(Chosen, n, nonce, from, pool)
    BY <1>0, Zenon DEF IsDraw
<1>2. Draw(nonce, from, n, pool) = Chosen[n]
    BY DEF Draw
<1> QED
    BY <1>1, <1>2
-----------------------------------------------------------------------------
(* The audit goes on from where it was.                                      *)

IsAudit(g, n, player, events, seed) ==
    g = [i \in 0..n |-> IF i = 0 THEN AuditStart ELSE AuditEvent(g[i - 1], events[i], player, seed)]

LEMMA AuditExists ==
    ASSUME NEW player, NEW events, NEW seed, NEW n \in Nat PROVE \E g : IsAudit(g, n, player, events, seed)
<1> DEFINE Bad == {k \in Nat : ~\E g : IsAudit(g, k, player, events, seed)}
<1> SUFFICES ASSUME Bad # {} PROVE FALSE
    OBVIOUS
<1>1. PICK k \in Bad : \A m \in Bad : k <= m
    BY LeastElement
<1>2. CASE k = 0
    <2> DEFINE h == [i \in 0..0 |-> AuditStart]
    <2>1. h = [i \in 0..k |-> IF i = 0 THEN AuditStart ELSE AuditEvent(h[i - 1], events[i], player, seed)]
        BY <1>2
    <2> QED
        BY <1>1, <2>1 DEF IsAudit
<1>3. CASE k # 0
    <2>1. k - 1 \in Nat /\ k - 1 \notin Bad
        BY <1>1, <1>3
    <2>2. PICK g : IsAudit(g, k - 1, player, events, seed)
        BY <2>1
    <2> DEFINE h == [i \in 0..k |-> IF i = k THEN AuditEvent(g[k - 1], events[k], player, seed) ELSE g[i]]
    <2>3. \A i \in 0..(k - 1) : h[i] = g[i]
        BY <1>1, <1>3
    <2>4. \A i \in 0..(k - 1) : h[i] = IF i = 0 THEN AuditStart ELSE AuditEvent(h[i - 1], events[i], player, seed)
        <3> SUFFICES ASSUME NEW i \in 0..(k - 1)
                     PROVE  h[i] = IF i = 0 THEN AuditStart ELSE AuditEvent(h[i - 1], events[i], player, seed)
            OBVIOUS
        <3>1. g[i] = IF i = 0 THEN AuditStart ELSE AuditEvent(g[i - 1], events[i], player, seed)
            BY <2>2 DEF IsAudit
        <3>2. i # 0 => h[i - 1] = g[i - 1]
            BY <1>1, <2>3
        <3> QED
            BY <2>3, <3>1, <3>2
    <2>5. h[k] = AuditEvent(h[k - 1], events[k], player, seed)
        <3>1. k \in 0..k /\ k - 1 \in 0..(k - 1)
            BY <1>1, <1>3
        <3>2. h[k] = AuditEvent(g[k - 1], events[k], player, seed)
            BY <3>1
        <3> QED
            BY <2>3, <3>1, <3>2
    <2>6. \A i \in 0..k : i = k \/ i \in 0..(k - 1)
        BY <1>1
    <2>7. \A i \in 0..k : h[i] = IF i = 0 THEN AuditStart ELSE AuditEvent(h[i - 1], events[i], player, seed)
        BY <1>3, <2>4, <2>5, <2>6
    <2>8. h = [i \in 0..k |-> IF i = 0 THEN AuditStart ELSE AuditEvent(h[i - 1], events[i], player, seed)]
        <3>1. h = [i \in 0..k |-> h[i]]
            OBVIOUS
        <3> HIDE DEF h
        <3> QED
            BY <2>7, <3>1
    <2>9. IsAudit(h, k, player, events, seed)
        BY <2>8 DEF IsAudit
    <2> QED
        BY <1>1, <2>9
<1> QED
    BY <1>2, <1>3

\* What it is given up to n settles its values up to n.
LEMMA AuditSame ==
    ASSUME NEW player, NEW d, NEW events, NEW seed, NEW g, NEW h,
           NEW n \in Nat, NEW m \in Nat, n <= m,
           IsAudit(g, n, player, d, seed), IsAudit(h, m, player, events, seed),
           \A i \in 1..n : d[i] = events[i]
    PROVE  \A i \in 0..n : g[i] = h[i]
<1> DEFINE Bad == {i \in 0..n : g[i] # h[i]}
<1> SUFFICES ASSUME Bad # {} PROVE FALSE
    OBVIOUS
<1>1. PICK k \in Bad : \A i \in Bad : k <= i
    <2>1. Bad \in SUBSET Nat
        OBVIOUS
    <2> QED
        BY <2>1, LeastElement
<1>2. k \in 0..n /\ k \in 0..m /\ g[k] # h[k]
    BY <1>1
<1>3. /\ g[k] = IF k = 0 THEN AuditStart ELSE AuditEvent(g[k - 1], d[k], player, seed)
      /\ h[k] = IF k = 0 THEN AuditStart ELSE AuditEvent(h[k - 1], events[k], player, seed)
    BY <1>2 DEF IsAudit
<1>4. k # 0
    BY <1>2, <1>3
<1>5. k - 1 \in 0..n /\ k - 1 \notin Bad /\ k \in 1..n
    BY <1>1, <1>2, <1>4
<1> QED
    BY <1>2, <1>3, <1>4, <1>5

LEMMA AuditIsAudit ==
    ASSUME NEW player, NEW events, Len(events) \in Nat, NEW seed
    PROVE  \E g : /\ IsAudit(g, Len(events), player, events, seed)
                  /\ AuditEnd(player, events, seed) = g[Len(events)]
<1> DEFINE n == Len(events)
           Chosen == CHOOSE after : after = [i \in 0..n |-> IF i = 0 THEN AuditStart
                                            ELSE AuditEvent(after[i - 1], events[i], player, seed)]
<1>1. IsAudit(Chosen, n, player, events, seed)
    BY AuditExists DEF IsAudit
<1>2. AuditEnd(player, events, seed) = Chosen[n]
    BY DEF AuditEnd
<1> QED
    BY <1>1, <1>2

\* An event more is a step more.
LEMMA AuditMore ==
    ASSUME NEW S, NEW events \in Seq(S), NEW e \in S, NEW player, NEW seed
    PROVE  AuditEnd(player, Append(events, e), seed)
               = AuditEvent(AuditEnd(player, events, seed), e, player, seed)
<1> DEFINE n == Len(events)
           more == Append(events, e)
<1>1. n \in Nat /\ Len(more) = n + 1 /\ more[n + 1] = e /\ \A i \in 1..n : events[i] = more[i]
    BY AppendProperties, LenProperties
<1>2. PICK g : IsAudit(g, n, player, events, seed) /\ AuditEnd(player, events, seed) = g[n]
    BY <1>1, AuditIsAudit
<1> HIDE DEF more
<1>0. PICK m \in Nat : m = n + 1
    BY <1>1
<1>3. PICK h : IsAudit(h, m, player, more, seed) /\ AuditEnd(player, more, seed) = h[m]
    <2>1. Len(more) = m
        BY <1>0, <1>1
    <2> QED
        BY <2>1, AuditIsAudit
<1>4. g[n] = h[n]
    <2>1. n <= m /\ n \in 0..n /\ m \in Nat /\ n \in Nat
        BY <1>0, <1>1
    <2>2. \A i \in 0..n : g[i] = h[i]
        BY <1>1, <1>2, <1>3, <2>1, AuditSame
    <2> QED
        BY <2>1, <2>2
<1>5. h[m] = AuditEvent(h[m - 1], more[m], player, seed) /\ m - 1 = n
    BY <1>0, <1>1, <1>3 DEF IsAudit
<1> QED
    BY <1>0, <1>1, <1>2, <1>3, <1>4, <1>5 DEF more

LEMMA AuditNothing ==
    ASSUME NEW player, NEW seed PROVE AuditEnd(player, <<>>, seed) = AuditStart
<1>1. Len(<<>>) = 0
    OBVIOUS
<1>2. PICK g : IsAudit(g, 0, player, <<>>, seed) /\ AuditEnd(player, <<>>, seed) = g[0]
    BY <1>1, AuditIsAudit
<1> QED
    BY <1>2 DEF IsAudit
-----------------------------------------------------------------------------
(* Sums of tiles.                                                            *)

\* Sums of integers are integers.
LEMMA SumInt ==
    ASSUME NEW K \in Nat, NEW f \in [1..K -> Int], NEW n \in 0..K
    PROVE  SumUpTo(f, n) \in Int
<1> DEFINE Bad == {i \in 0..n : ~(SumUpTo(f, i) \in Int)}
<1>0. n \in 0..n
    OBVIOUS
<1> SUFFICES ASSUME Bad # {} PROVE FALSE
    BY <1>0
<1>1. PICK k \in Bad : \A i \in Bad : k <= i
    <2>1. Bad \in SUBSET Nat
        OBVIOUS
    <2> QED
        BY <2>1, LeastElement
<1>2. k \in 0..n /\ ~(SumUpTo(f, k) \in Int)
    BY <1>1
<1>3. k # 0
    BY <1>2, SumFacts
<1>4. k - 1 \in Nat /\ k - 1 \in 0..n /\ k - 1 \in 0..K /\ k \in 1..n /\ k \in 1..K /\ (k - 1) + 1 = k
    BY <1>2, <1>3
<1>5. SumUpTo(f, (k - 1)) \in Int
    BY <1>1, <1>4
<1>6. SumUpTo(f, k) = SumUpTo(f, k - 1) + f[k] /\ f[k] \in Int
    <2>1. \A j \in Nat : SumUpTo(f, j + 1) = SumUpTo(f, j) + f[j + 1]
        BY SumFacts
    <2> QED
        BY <1>4, <2>1
<1> QED
    BY <1>2, <1>5, <1>6

\* A sum of sums.
LEMMA SumAdds ==
    ASSUME NEW K \in Nat, NEW a \in [1..K -> Int], NEW b \in [1..K -> Int], NEW c \in [1..K -> Int], NEW n \in 0..K,
           \A i \in 1..n : c[i] = a[i] + b[i]
    PROVE  SumUpTo(c, n) = SumUpTo(a, n) + SumUpTo(b, n)
<1> DEFINE Bad == {i \in 0..n : ~(SumUpTo(c, i) = SumUpTo(a, i) + SumUpTo(b, i))}
<1>0. n \in 0..n
    OBVIOUS
<1> SUFFICES ASSUME Bad # {} PROVE FALSE
    BY <1>0
<1>1. PICK k \in Bad : \A i \in Bad : k <= i
    <2>1. Bad \in SUBSET Nat
        OBVIOUS
    <2> QED
        BY <2>1, LeastElement
<1>2. k \in 0..n /\ ~(SumUpTo(c, k) = SumUpTo(a, k) + SumUpTo(b, k))
    BY <1>1
<1>3. k # 0
    BY <1>2, SumFacts
<1>4. k - 1 \in Nat /\ k - 1 \in 0..n /\ k - 1 \in 0..K /\ k \in 1..n /\ k \in 1..K /\ (k - 1) + 1 = k
    BY <1>2, <1>3
<1>5. SumUpTo(c, (k - 1)) = SumUpTo(a, (k - 1)) + SumUpTo(b, (k - 1))
    BY <1>1, <1>4
<1>6. SumUpTo(a, k) = SumUpTo(a, k - 1) + a[k] /\ a[k] \in Int
    <2>1. \A j \in Nat : SumUpTo(a, j + 1) = SumUpTo(a, j) + a[j + 1]
        BY SumFacts
    <2> QED
        BY <1>4, <2>1
<1>7. SumUpTo(b, k) = SumUpTo(b, k - 1) + b[k] /\ b[k] \in Int
    <2>1. \A j \in Nat : SumUpTo(b, j + 1) = SumUpTo(b, j) + b[j + 1]
        BY SumFacts
    <2> QED
        BY <1>4, <2>1
<1>8. SumUpTo(c, k) = SumUpTo(c, k - 1) + c[k] /\ c[k] \in Int
    <2>1. \A j \in Nat : SumUpTo(c, j + 1) = SumUpTo(c, j) + c[j + 1]
        BY SumFacts
    <2> QED
        BY <1>4, <2>1
<1>9. SumUpTo(a, k - 1) \in Int
    BY <1>4, SumInt
<1>10. SumUpTo(b, k - 1) \in Int
    BY <1>4, SumInt
<1>11. SumUpTo(c, k - 1) \in Int
    BY <1>4, SumInt
<1> QED
    BY <1>2, <1>4, <1>5, <1>6, <1>7, <1>8, <1>9, <1>10, <1>11

\* Where every value is larger the sum is.
LEMMA SumGrows ==
    ASSUME NEW K \in Nat, NEW a \in [1..K -> Int], NEW b \in [1..K -> Int], NEW n \in 0..K,
           \A i \in 1..n : a[i] <= b[i]
    PROVE  SumUpTo(a, n) <= SumUpTo(b, n)
<1> DEFINE Bad == {i \in 0..n : ~(SumUpTo(a, i) <= SumUpTo(b, i))}
<1>0. n \in 0..n
    OBVIOUS
<1> SUFFICES ASSUME Bad # {} PROVE FALSE
    BY <1>0
<1>1. PICK k \in Bad : \A i \in Bad : k <= i
    <2>1. Bad \in SUBSET Nat
        OBVIOUS
    <2> QED
        BY <2>1, LeastElement
<1>2. k \in 0..n /\ ~(SumUpTo(a, k) <= SumUpTo(b, k))
    BY <1>1
<1>3. k # 0
    BY <1>2, SumFacts
<1>4. k - 1 \in Nat /\ k - 1 \in 0..n /\ k - 1 \in 0..K /\ k \in 1..n /\ k \in 1..K /\ (k - 1) + 1 = k
    BY <1>2, <1>3
<1>5. SumUpTo(a, (k - 1)) <= SumUpTo(b, (k - 1))
    BY <1>1, <1>4
<1>6. SumUpTo(a, k) = SumUpTo(a, k - 1) + a[k] /\ a[k] \in Int
    <2>1. \A j \in Nat : SumUpTo(a, j + 1) = SumUpTo(a, j) + a[j + 1]
        BY SumFacts
    <2> QED
        BY <1>4, <2>1
<1>7. SumUpTo(b, k) = SumUpTo(b, k - 1) + b[k] /\ b[k] \in Int
    <2>1. \A j \in Nat : SumUpTo(b, j + 1) = SumUpTo(b, j) + b[j + 1]
        BY SumFacts
    <2> QED
        BY <1>4, <2>1
<1>8. SumUpTo(a, k - 1) \in Int
    BY <1>4, SumInt
<1>9. SumUpTo(b, k - 1) \in Int
    BY <1>4, SumInt
<1>10. a[k] <= b[k]
    BY <1>4
<1> QED
    BY <1>2, <1>5, <1>6, <1>7, <1>8, <1>9, <1>10

\* The sum of nothing is zero.
LEMMA SumNothing ==
    ASSUME NEW K \in Nat, NEW f \in [1..K -> Int], NEW n \in 0..K, \A i \in 1..n : f[i] = 0
    PROVE  SumUpTo(f, n) = 0
<1> DEFINE Bad == {i \in 0..n : ~(SumUpTo(f, i) = 0)}
<1>0. n \in 0..n
    OBVIOUS
<1> SUFFICES ASSUME Bad # {} PROVE FALSE
    BY <1>0
<1>1. PICK k \in Bad : \A i \in Bad : k <= i
    <2>1. Bad \in SUBSET Nat
        OBVIOUS
    <2> QED
        BY <2>1, LeastElement
<1>2. k \in 0..n /\ ~(SumUpTo(f, k) = 0)
    BY <1>1
<1>3. k # 0
    BY <1>2, SumFacts
<1>4. k - 1 \in Nat /\ k - 1 \in 0..n /\ k - 1 \in 0..K /\ k \in 1..n /\ k \in 1..K /\ (k - 1) + 1 = k
    BY <1>2, <1>3
<1>5. SumUpTo(f, (k - 1)) = 0
    BY <1>1, <1>4
<1>6. SumUpTo(f, k) = SumUpTo(f, k - 1) + f[k] /\ f[k] \in Int
    <2>1. \A j \in Nat : SumUpTo(f, j + 1) = SumUpTo(f, j) + f[j + 1]
        BY SumFacts
    <2> QED
        BY <1>4, <2>1
<1> QED
    BY <1>2, <1>4, <1>5, <1>6
-----------------------------------------------------------------------------
(* Tiles, counted by kind.                                                   *)

Counts == [Kind -> Nat]

LEMMA CountsAreInts == ASSUME NEW t \in Counts PROVE t \in [1..Kinds -> Int]
    BY DEF Counts, Kind

LEMMA SizeNat == ASSUME NEW t \in Counts PROVE Size(t) \in Nat
<1>1. t \in [1..Kinds -> Int] /\ NoTiles \in [1..Kinds -> Int] /\ Kinds \in Nat /\ Kinds \in 0..Kinds
    BY CountsAreInts, OneAssumption DEF NoTiles, Kind
<1>2. \A i \in 1..Kinds : NoTiles[i] <= t[i] /\ NoTiles[i] = 0
    BY DEF Counts, NoTiles, Kind
<1>3. SumUpTo(NoTiles, Kinds) = 0
    BY <1>1, <1>2, SumNothing
<1>4. SumUpTo(NoTiles, Kinds) <= SumUpTo(t, Kinds)
    BY <1>1, <1>2, SumGrows
<1>5. SumUpTo(t, Kinds) \in Int
    BY <1>1, SumInt
<1> QED
    BY <1>3, <1>4, <1>5 DEF Size

LEMMA SizeNothing == NoTiles \in Counts /\ Size(NoTiles) = 0
<1>1. NoTiles \in [1..Kinds -> Int] /\ Kinds \in Nat /\ Kinds \in 0..Kinds /\ NoTiles \in Counts
    BY OneAssumption DEF NoTiles, Kind, Counts
<1>2. \A i \in 1..Kinds : NoTiles[i] = 0
    BY DEF NoTiles, Kind
<1> QED
    BY <1>1, <1>2, SumNothing DEF Size

\* Two heaps of tiles count as many as they do apart.
LEMMA SizeAdds ==
    ASSUME NEW a \in Counts, NEW b \in Counts, NEW c \in Counts,
           \A k \in Kind : c[k] = a[k] + b[k]
    PROVE  Size(c) = Size(a) + Size(b)
<1>1. /\ a \in [1..Kinds -> Int] /\ b \in [1..Kinds -> Int] /\ c \in [1..Kinds -> Int]
      /\ Kinds \in Nat /\ Kinds \in 0..Kinds
    BY CountsAreInts, OneAssumption
<1>2. \A i \in 1..Kinds : c[i] = a[i] + b[i]
    BY DEF Kind
<1> QED
    BY <1>1, <1>2, SumAdds DEF Size

LEMMA SizeBoth ==
    ASSUME NEW a \in Counts, NEW b \in Counts
    PROVE  Both(a, b) \in Counts /\ Size(Both(a, b)) = Size(a) + Size(b)
<1>1. Both(a, b) \in Counts /\ \A k \in Kind : Both(a, b)[k] = a[k] + b[k]
    BY DEF Both, Counts
<1> QED
    BY <1>1, SizeAdds

LEMMA SizeWithout ==
    ASSUME NEW a \in Counts, NEW b \in Counts, Holds(a, b)
    PROVE  /\ Without(a, b) \in Counts /\ Size(Without(a, b)) = Size(a) - Size(b)
           /\ Both(Without(a, b), b) = a
<1>1. Without(a, b) \in Counts /\ \A k \in Kind : a[k] = Without(a, b)[k] + b[k]
    BY DEF Without, Counts, Holds
<1>2. Size(a) = Size(Without(a, b)) + Size(b)
    BY <1>1, SizeAdds
<1>3. Size(a) \in Nat /\ Size(b) \in Nat /\ Size(Without(a, b)) \in Nat
    BY <1>1, SizeNat
<1>4. Both(Without(a, b), b) = a
    BY <1>1 DEF Both, Counts
<1> QED
    BY <1>1, <1>2, <1>3, <1>4

\* What is forgotten is at most what was seen.
LEMMA SizeForget ==
    ASSUME NEW a \in Counts, NEW b \in Counts
    PROVE  /\ Forget(a, b) \in Counts
           /\ Size(a) - Size(b) <= Size(Forget(a, b)) /\ Size(Forget(a, b)) <= Size(a)
<1> DEFINE f == Forget(a, b)
           s == Both(f, b)
<1>1. f \in Counts
    BY DEF Forget, Counts
<1>2. s \in Counts /\ Size(s) = Size(f) + Size(b)
    BY <1>1, SizeBoth
<1>3. \A i \in 1..Kinds : a[i] <= s[i] /\ f[i] <= a[i]
    BY <1>1 DEF Both, Forget, Counts, Kind
<1>4. /\ a \in [1..Kinds -> Int] /\ f \in [1..Kinds -> Int] /\ s \in [1..Kinds -> Int]
      /\ Kinds \in Nat /\ Kinds \in 0..Kinds
    BY <1>1, <1>2, CountsAreInts, OneAssumption
<1>5. Size(a) \in Nat /\ Size(b) \in Nat /\ Size(f) \in Nat
    BY <1>1, SizeNat
<1> HIDE DEF f, s
<1>6. Size(a) <= Size(s) /\ Size(f) <= Size(a)
    BY <1>3, <1>4, SumGrows DEF Size
<1>7. f = Forget(a, b)
    BY DEF f
<1> QED
    BY <1>1, <1>2, <1>5, <1>6, <1>7

\* One tile of a kind.
One(k) == [i \in Kind |-> IF i = k THEN 1 ELSE 0]

LEMMA SizeOne == ASSUME NEW k \in Kind PROVE One(k) \in Counts /\ Size(One(k)) = 1
<1>1. One(k) \in Counts /\ k \in 1..Kinds /\ Kinds \in Nat
    BY OneAssumption DEF One, Counts, Kind
<1>2. One(k) \in [1..Kinds -> Int]
    BY <1>1, CountsAreInts
<1>3. k - 1 \in Nat /\ k - 1 \in 0..Kinds /\ k - 1 \in 0..k /\ (k - 1) + 1 = k
    BY <1>1
<1>4. \A i \in 1..(k - 1) : One(k)[i] = 0
    BY <1>1 DEF One, Kind
<1>5. SumUpTo(One(k), k - 1) = 0
    BY <1>1, <1>2, <1>3, <1>4, SumNothing
<1>6. SumUpTo(One(k), k) = SumUpTo(One(k), k - 1) + One(k)[k]
    <2>1. \A j \in Nat : SumUpTo(One(k), j + 1) = SumUpTo(One(k), j) + One(k)[j + 1]
        BY SumFacts
    <2> QED
        BY <1>3, <2>1
<1>7. SumUpTo(One(k), k) = 1
    BY <1>5, <1>6 DEF One
<1>8. \A n \in k..Kinds : SumUpTo(One(k), n) = 1
    <2> DEFINE Bad == {n \in k..Kinds : SumUpTo(One(k), n) # 1}
    <2> SUFFICES ASSUME Bad # {} PROVE FALSE
        OBVIOUS
    <2>1. PICK n \in Bad : \A m \in Bad : n <= m
        <3>1. Bad \in SUBSET Nat
            BY <1>1
        <3> QED
            BY <3>1, LeastElement
    <2>2. n \in k..Kinds /\ SumUpTo(One(k), n) # 1 /\ n # k
        BY <1>7, <2>1
    <2>3. n - 1 \in k..Kinds /\ n - 1 \in Nat /\ n - 1 \notin Bad /\ n \in Kind /\ (n - 1) + 1 = n
        BY <1>1, <2>1, <2>2 DEF Kind
    <2>4. SumUpTo(One(k), n) = SumUpTo(One(k), n - 1) + One(k)[n]
        <3>1. \A j \in Nat : SumUpTo(One(k), j + 1) = SumUpTo(One(k), j) + One(k)[j + 1]
            BY SumFacts
        <3> QED
            BY <2>3, <3>1
    <2>5. One(k)[n] = 0
        BY <2>2, <2>3 DEF One
    <2> QED
        BY <2>2, <2>3, <2>4, <2>5
<1>9. Kinds \in k..Kinds
    BY <1>1
<1> QED
    BY <1>1, <1>8, <1>9 DEF Size
-----------------------------------------------------------------------------
(* Drawing from a pool.                                                      *)

\* Multiply-shift gives less than the number of tiles.
LEMMA Scaled ==
    ASSUME NEW g \in Nat \ {0}, NEW h \in 0..(g - 1), NEW s \in Nat \ {0}
    PROVE  (h * s) \div g \in 0..(s - 1)
<1>1. h * s \in Nat /\ g * s \in Nat
    OBVIOUS
<1>2. h * s <= (g - 1) * s /\ (g - 1) * s = g * s - s
    OBVIOUS
<1>3. PICK q \in Int : q = (h * s) \div g
    OBVIOUS
<1>4. q >= 0 /\ g * q <= h * s
    BY <1>1, <1>3
<1>5. ASSUME q >= s PROVE FALSE
    <2>1. g * s <= g * q
        BY <1>5
    <2> QED
        BY <1>1, <1>2, <1>4, <2>1
<1> QED
    BY <1>3, <1>4, <1>5

\* Of a pool that is not empty a tile is drawn that is in it.
LEMMA DrawnIsThere ==
    ASSUME NEW nonce \in Nonce, NEW index \in Nat, NEW pool \in Counts, Size(pool) # 0
    PROVE  DrawOne(nonce, index, pool) \in Kind /\ pool[DrawOne(nonce, index, pool)] > 0
<1> DEFINE s == Size(pool)
           pick == (Hash(nonce, index) * s) \div Grain
           Under == {n \in 0..Kinds : pick < SumUpTo(pool, n)}
<1>1. Kinds \in Nat /\ Grain \in Nat \ {0} /\ RACK \in Nat \ {0}
    BY OneAssumption
<1>2. s \in Nat \ {0}
    BY SizeNat
<1>3. Hash(nonce, index) \in 0..(Grain - 1)
    <2>1. 1 + (index % RACK) \in 1..RACK
        BY <1>1
    <2> QED
        BY <2>1 DEF Hash, Nonce
<1>4. pick \in 0..(s - 1)
    BY <1>1, <1>2, <1>3, Scaled
<1>5. Kinds \in Under
    BY <1>1, <1>2, <1>4 DEF Size
<1>6. PICK k \in Under : \A n \in Under : k <= n
    <2>1. Under \in SUBSET Nat
        BY <1>1
    <2> QED
        BY <1>5, <2>1, LeastElement
<1> HIDE DEF pick
<1>7. SumUpTo(pool, 0) = 0
    BY SumFacts
<1>8. k \in 0..Kinds /\ pick < SumUpTo(pool, k) /\ k # 0
    BY <1>2, <1>4, <1>6, <1>7
<1>9. k \in Kind /\ k - 1 \in 0..Kinds /\ k - 1 \notin Under /\ k - 1 \in Nat /\ (k - 1) + 1 = k
    BY <1>1, <1>6, <1>8 DEF Kind
<1>10. pool \in [1..Kinds -> Int]
    BY CountsAreInts
<1>11. SumUpTo(pool, k - 1) \in Int /\ ~(pick < SumUpTo(pool, k - 1))
    BY <1>1, <1>9, <1>10, SumInt
<1>12. SumUpTo(pool, k) = SumUpTo(pool, k - 1) + pool[k]
    <2>1. \A j \in Nat : SumUpTo(pool, j + 1) = SumUpTo(pool, j) + pool[j + 1]
        BY SumFacts
    <2> QED
        BY <1>9, <2>1
<1> DEFINE Fits(j) == LET below == SumUpTo(pool, j - 1) IN below <= pick /\ pick < below + pool[j]
<1>13. Fits(k)
    BY <1>4, <1>8, <1>11, <1>12
<1> DEFINE d == CHOOSE j \in Kind : Fits(j)
<1>14. d \in Kind /\ Fits(d)
    BY <1>9, <1>13
<1>15. d = DrawOne(nonce, index, pool)
    BY DEF DrawOne, pick
<1>16. d - 1 \in 0..Kinds /\ pool[d] \in Nat
    BY <1>1, <1>14 DEF Kind, Counts
<1>17. SumUpTo(pool, d - 1) \in Int
    BY <1>1, <1>10, <1>16, SumInt
<1>18. pool[d] > 0
    <2> HIDE DEF d
    <2> QED
        BY <1>2, <1>4, <1>14, <1>16, <1>17
<1> QED
    BY <1>14, <1>15, <1>18

Heaps == [tiles : Counts, pool : Counts]

\* One tile goes from the pool to those that are drawn.
LEMMA OneMoves ==
    ASSUME NEW got \in Heaps, NEW nonce \in Nonce, NEW index \in Nat
    PROVE  /\ DrawNext(got, nonce, index) \in Heaps
           /\ IF Size(got.pool) = 0 THEN DrawNext(got, nonce, index) = got
              ELSE /\ Size(DrawNext(got, nonce, index).tiles) = Size(got.tiles) + 1
                   /\ Size(DrawNext(got, nonce, index).pool) = Size(got.pool) - 1
<1>1. CASE Size(got.pool) = 0
    BY <1>1 DEF DrawNext
<1>2. CASE Size(got.pool) # 0
    <2>1. PICK k \in Kind : k = DrawOne(nonce, index, got.pool) /\ got.pool[k] > 0
        BY <1>2, DrawnIsThere DEF Heaps
    <2> DEFINE t == [got.tiles EXCEPT ![k] = @ + 1]
               p == [got.pool EXCEPT ![k] = @ - 1]
    <2>2. DrawNext(got, nonce, index) = [tiles |-> t, pool |-> p]
        BY <1>2, <2>1 DEF DrawNext, Moved
    <2>3. got.tiles \in Counts /\ got.pool \in Counts
        BY DEF Heaps
    <2>4. t \in Counts /\ p \in Counts
        BY <2>1, <2>3 DEF Counts
    <2>5. One(k) \in Counts /\ Size(One(k)) = 1
        BY SizeOne
    <2>6. \A j \in Kind : t[j] = got.tiles[j] + One(k)[j] /\ got.pool[j] = p[j] + One(k)[j]
        BY <2>1, <2>3 DEF One, Counts
    <2> HIDE DEF t, p
    <2>7. Size(t) = Size(got.tiles) + 1 /\ Size(got.pool) = Size(p) + 1
        BY <2>3, <2>4, <2>5, <2>6, SizeAdds
    <2>8. Size(p) \in Nat
        BY <2>4, SizeNat
    <2> QED
        BY <1>2, <2>2, <2>4, <2>7, <2>8 DEF Heaps
<1> QED
    BY <1>1, <1>2

\* A draw takes as many tiles from the pool as it is asked for, or all there are.
LEMMA DrawFacts ==
    ASSUME NEW nonce \in Nonce, NEW from \in Nat, NEW count \in Nat, NEW pool \in Counts
    PROVE  /\ Draw(nonce, from, count, pool) \in Heaps
           /\ Size(Draw(nonce, from, count, pool).tiles)
                  = (IF count > Size(pool) THEN Size(pool) ELSE count)
           /\ Size(Draw(nonce, from, count, pool).pool)
                  = Size(pool) - Size(Draw(nonce, from, count, pool).tiles)
<1>1. PICK g : IsDraw(g, count, nonce, from, pool) /\ Draw(nonce, from, count, pool) = g[count]
    BY DrawIsDraw
<1> DEFINE Fine(i) ==
               /\ g[i] \in Heaps
               /\ Size(g[i].tiles) = (IF i > Size(pool) THEN Size(pool) ELSE i)
               /\ Size(g[i].pool) = Size(pool) - Size(g[i].tiles)
           Bad == {i \in 0..count : ~Fine(i)}
<1>2. SUFFICES ASSUME Bad # {} PROVE FALSE
    BY <1>1
<1>3. PICK k \in Bad : \A i \in Bad : k <= i
    <2>1. Bad \in SUBSET Nat
        OBVIOUS
    <2> QED
        BY <1>2, <2>1, LeastElement
<1>4. k \in 0..count /\ ~Fine(k)
    BY <1>3
<1>5. Size(pool) \in Nat
    BY SizeNat
<1>6. k # 0
    <2>1. g[0] = [tiles |-> NoTiles, pool |-> pool]
        BY <1>1 DEF IsDraw
    <2>2. Fine(0)
        BY <1>5, <2>1, SizeNothing DEF Heaps
    <2> QED
        BY <1>4, <2>2
<1>7. k - 1 \in 0..count /\ k - 1 \notin Bad /\ from + k - 1 \in Nat
    BY <1>3, <1>4, <1>6
<1>8. Fine(k - 1)
    BY <1>7
<1>9. g[k] = DrawNext(g[k - 1], nonce, from + k - 1)
    BY <1>1, <1>4, <1>6 DEF IsDraw
<1>10. PICK got \in Heaps : got = g[k - 1]
    BY <1>8
<1>11. /\ g[k] \in Heaps
       /\ IF Size(got.pool) = 0 THEN g[k] = got
          ELSE Size(g[k].tiles) = Size(got.tiles) + 1 /\ Size(g[k].pool) = Size(got.pool) - 1
    BY <1>7, <1>9, <1>10, OneMoves
<1>12. Size(got.tiles) = (IF k - 1 > Size(pool) THEN Size(pool) ELSE k - 1)
       /\ Size(got.pool) = Size(pool) - Size(got.tiles)
    BY <1>8, <1>10
<1>13. Fine(k)
    BY <1>4, <1>5, <1>6, <1>11, <1>12
<1> QED
    BY <1>4, <1>13
-----------------------------------------------------------------------------
(* What happens in a game, as both devices write it down.                    *)

Seed == [owner : Player, half : {0, 1}]

DrawEvent    == [type : {"Draw"}, player : Player, nonce : Nonce, count : Nat]
PlayEvent    == [type : {"Played", "Seen"}, player : Player, tiles : Counts]
Masked       == [key : Seed \X Nat, tiles : Counts]
SwapEvent    == [type : {"Exchanged"}, player : Player, masked : Masked]
Promise      == [seed : Seed, index : Nat, rack : Counts]
PromiseEvent == [type : {"Commitment"}, player : Player, hash : Promise]

Event == DrawEvent \cup PlayEvent \cup SwapEvent \cup PromiseEvent

AuditFinding == {"none", "TilesNotHeld", "NotTiles", "BrokenPromise"}

AuditState ==
    [pool : Counts, rack : Counts, draws : Nat, promises : Nat, exchanges : Nat,
     finding : AuditFinding]

LEMMA AuditStarts == Supply \in Counts => AuditStart \in AuditState
    BY SizeNothing DEF AuditState, AuditStart, AuditFinding

\* What each kind of event makes of an audit that has found nothing yet.

LEMMA AuditOfDraw ==
    ASSUME NEW a \in AuditState, NEW e \in DrawEvent, NEW q \in Player, NEW seed
    PROVE  /\ AuditEvent(a, e, q, seed) \in AuditState
           /\ e.player # q => AuditEvent(a, e, q, seed) = a
           /\ e.player = q /\ a.finding = "none" =>
                  AuditEvent(a, e, q, seed) =
                      [a EXCEPT !.pool = Draw(e.nonce, a.draws, e.count, a.pool).pool,
                                !.draws = @ + Size(Draw(e.nonce, a.draws, e.count, a.pool).tiles),
                                !.rack = Both(@, Draw(e.nonce, a.draws, e.count, a.pool).tiles)]
<1>1. e.type = "Draw" /\ e.nonce \in Nonce /\ e.count \in Nat
    BY DEF DrawEvent
<1>2. a.draws \in Nat /\ a.pool \in Counts /\ a.rack \in Counts
    BY DEF AuditState
<1>3. PICK got \in Heaps : got = Draw(e.nonce, a.draws, e.count, a.pool)
    BY <1>1, <1>2, DrawFacts
<1>4. got.tiles \in Counts /\ got.pool \in Counts
    BY DEF Heaps
<1>5. Size(got.tiles) \in Nat /\ Both(a.rack, got.tiles) \in Counts
    BY <1>2, <1>4, SizeNat, SizeBoth
<1> DEFINE b == [a EXCEPT !.pool = got.pool, !.draws = @ + Size(got.tiles),
                          !.rack = Both(@, got.tiles)]
<1>6. b \in AuditState
    <2>1. PICK n \in Nat : n = a.draws + Size(got.tiles)
        BY <1>2, <1>5
    <2>2. [a EXCEPT !.pool = got.pool, !.draws = n, !.rack = Both(@, got.tiles)] \in AuditState
        BY <1>4, <1>5 DEF AuditState
    <2> QED
        BY <2>1, <2>2
<1>7. AuditDraw(a, e) = b
    BY <1>3 DEF AuditDraw, AuditDrawn
<1>8. AuditEvent(a, e, q, seed) = IF a.finding # "none" \/ e.player # q THEN a ELSE b
    BY <1>1, <1>7 DEF AuditEvent
<1> QED
    BY <1>3, <1>6, <1>8

LEMMA AuditOfPlay ==
    ASSUME NEW a \in AuditState, NEW e \in PlayEvent, NEW q \in Player, NEW seed
    PROVE  /\ AuditEvent(a, e, q, seed) \in AuditState
           /\ e.player # q /\ a.finding = "none" =>
                  AuditEvent(a, e, q, seed) = [a EXCEPT !.pool = Forget(@, e.tiles)]
           /\ e.player = q /\ a.finding = "none" /\ ~Holds(a.rack, e.tiles) =>
                  AuditEvent(a, e, q, seed).finding # "none"
           /\ e.player = q /\ a.finding = "none" /\ Holds(a.rack, e.tiles) =>
                  AuditEvent(a, e, q, seed) =
                      IF e.type = "Seen" THEN a
                      ELSE [a EXCEPT !.rack = Without(@, e.tiles)]
<1>1. e.type \in {"Played", "Seen"} /\ e.tiles \in Counts
    BY DEF PlayEvent
<1>2. a.pool \in Counts /\ a.rack \in Counts
    BY DEF AuditState
<1>3. Forget(a.pool, e.tiles) \in Counts
    BY <1>1, <1>2, SizeForget
<1>4. Holds(a.rack, e.tiles) => Without(a.rack, e.tiles) \in Counts
    BY <1>1, <1>2, SizeWithout
<1>5. [a EXCEPT !.pool = Forget(@, e.tiles)] \in AuditState
    BY <1>3 DEF AuditState
<1>6. AuditPlayed(a, e) = IF ~Holds(a.rack, e.tiles) THEN [a EXCEPT !.finding = "TilesNotHeld"]
                          ELSE IF e.type = "Seen" THEN a
                          ELSE [a EXCEPT !.rack = Without(@, e.tiles)]
    BY DEF AuditPlayed, Found
<1>7. AuditPlayed(a, e) \in AuditState
    BY <1>4, <1>6 DEF AuditState, AuditFinding
<1>8. AuditEvent(a, e, q, seed) =
          IF a.finding # "none" THEN a
          ELSE IF e.player # q THEN [a EXCEPT !.pool = Forget(@, e.tiles)]
          ELSE AuditPlayed(a, e)
    BY <1>1 DEF AuditEvent
<1>9. ~Holds(a.rack, e.tiles) => AuditPlayed(a, e).finding # "none"
    BY <1>6 DEF AuditState
<1> QED
    BY <1>5, <1>6, <1>7, <1>8, <1>9

LEMMA AuditOfSwap ==
    ASSUME NEW a \in AuditState, NEW e \in SwapEvent, NEW q \in Player, NEW seed
    PROVE  /\ AuditEvent(a, e, q, seed) \in AuditState
           /\ e.player # q => AuditEvent(a, e, q, seed) = a
           /\ e.player = q /\ a.finding = "none"
              /\ ~(e.masked.key = <<seed, a.exchanges>> /\ Holds(a.rack, e.masked.tiles)) =>
                  AuditEvent(a, e, q, seed).finding # "none"
           /\ e.player = q /\ a.finding = "none"
              /\ e.masked.key = <<seed, a.exchanges>> /\ Holds(a.rack, e.masked.tiles) =>
                  AuditEvent(a, e, q, seed) =
                      [a EXCEPT !.exchanges = @ + 1, !.rack = Without(@, e.masked.tiles),
                                !.pool = Both(@, e.masked.tiles)]
<1>1. e.type = "Exchanged" /\ e.masked.tiles \in Counts
    BY DEF SwapEvent, Masked
<1>2. a.pool \in Counts /\ a.rack \in Counts /\ a.exchanges \in Nat
    BY DEF AuditState
<1>3. Both(a.pool, e.masked.tiles) \in Counts
    BY <1>1, <1>2, SizeBoth
<1>4. Holds(a.rack, e.masked.tiles) => Without(a.rack, e.masked.tiles) \in Counts
    BY <1>1, <1>2, SizeWithout
<1>5. AuditExchanged(a, e, seed) =
          IF ~(e.masked.key = <<seed, a.exchanges>>) THEN [a EXCEPT !.finding = "NotTiles"]
          ELSE IF ~Holds(a.rack, e.masked.tiles) THEN [a EXCEPT !.finding = "TilesNotHeld"]
          ELSE [a EXCEPT !.exchanges = @ + 1, !.rack = Without(@, e.masked.tiles),
                         !.pool = Both(@, e.masked.tiles)]
    BY DEF AuditExchanged, Found, Unmasks
<1>6. AuditExchanged(a, e, seed) \in AuditState
    <2>1. PICK n \in Nat : n = a.exchanges + 1
        BY <1>2
    <2>2. /\ [a EXCEPT !.finding = "NotTiles"] \in AuditState
          /\ [a EXCEPT !.finding = "TilesNotHeld"] \in AuditState
        BY DEF AuditState, AuditFinding
    <2>3. Holds(a.rack, e.masked.tiles) =>
            [a EXCEPT !.exchanges = n, !.rack = Without(@, e.masked.tiles),
                      !.pool = Both(@, e.masked.tiles)] \in AuditState
        BY <1>3, <1>4 DEF AuditState
    <2> QED
        BY <1>5, <2>1, <2>2, <2>3
<1>7. AuditEvent(a, e, q, seed) =
          IF a.finding # "none" \/ e.player # q THEN a ELSE AuditExchanged(a, e, seed)
    BY <1>1 DEF AuditEvent
<1>8. ~(e.masked.key = <<seed, a.exchanges>> /\ Holds(a.rack, e.masked.tiles)) =>
          AuditExchanged(a, e, seed).finding # "none"
    BY <1>5 DEF AuditState
<1> QED
    BY <1>5, <1>6, <1>7, <1>8

LEMMA AuditOfPromise ==
    ASSUME NEW a \in AuditState, NEW e \in PromiseEvent, NEW q \in Player, NEW seed
    PROVE  /\ AuditEvent(a, e, q, seed) \in AuditState
           /\ e.player # q => AuditEvent(a, e, q, seed) = a
           /\ e.player = q /\ a.finding = "none"
              /\ e.hash # RackCommitment(seed, a.promises, a.rack) =>
                  AuditEvent(a, e, q, seed).finding # "none"
           /\ e.player = q /\ a.finding = "none"
              /\ e.hash = RackCommitment(seed, a.promises, a.rack) =>
                  AuditEvent(a, e, q, seed) = [a EXCEPT !.promises = @ + 1]
<1>1. e.type = "Commitment"
    BY DEF PromiseEvent
<1>2. AuditCommitment(a, e, seed) =
          IF e.hash # RackCommitment(seed, a.promises, a.rack)
          THEN [a EXCEPT !.finding = "BrokenPromise"] ELSE [a EXCEPT !.promises = @ + 1]
    BY DEF AuditCommitment, Found
<1>3. AuditCommitment(a, e, seed) \in AuditState
    BY <1>2 DEF AuditState, AuditFinding
<1>4. AuditEvent(a, e, q, seed) =
          IF a.finding # "none" \/ e.player # q THEN a ELSE AuditCommitment(a, e, seed)
    BY <1>1 DEF AuditEvent
<1>5. e.hash # RackCommitment(seed, a.promises, a.rack) =>
          AuditCommitment(a, e, seed).finding # "none"
    BY <1>2 DEF AuditState
<1> QED
    BY <1>2, <1>3, <1>4, <1>5

\* Once something is found the audit is over.
LEMMA FoundStays ==
    ASSUME NEW a, NEW e, NEW q, NEW seed, a.finding # "none"
    PROVE  AuditEvent(a, e, q, seed) = a
    BY DEF AuditEvent

LEMMA AuditStep ==
    ASSUME NEW a \in AuditState, NEW e \in Event, NEW q \in Player, NEW seed
    PROVE  AuditEvent(a, e, q, seed) \in AuditState
    BY AuditOfDraw, AuditOfPlay, AuditOfSwap, AuditOfPromise DEF Event

LEMMA AuditTyped ==
    ASSUME NEW events \in Seq(Event), NEW q \in Player, NEW seed
    PROVE  AuditEnd(q, events, seed) \in AuditState
<1>1. Len(events) \in Nat /\ \A i \in 1..Len(events) : events[i] \in Event
    BY LenProperties, ElementOfSeq
<1>2. PICK g : /\ IsAudit(g, Len(events), q, events, seed)
               /\ AuditEnd(q, events, seed) = g[Len(events)]
    BY <1>1, AuditIsAudit
<1> DEFINE Bad == {i \in 0..Len(events) : g[i] \notin AuditState}
<1>3. SUFFICES ASSUME Bad # {} PROVE FALSE
    BY <1>1, <1>2
<1>4. PICK k \in Bad : \A i \in Bad : k <= i
    <2>1. Bad \in SUBSET Nat
        BY <1>1
    <2> QED
        BY <1>3, <2>1, LeastElement
<1>5. k \in 0..Len(events) /\ g[k] \notin AuditState
    BY <1>4
<1>6. Supply \in Counts
    BY OneAssumption DEF Counts
<1>7. g[k] = IF k = 0 THEN AuditStart ELSE AuditEvent(g[k - 1], events[k], q, seed)
    BY <1>2, <1>5 DEF IsAudit
<1>8. k # 0
    BY <1>5, <1>6, <1>7, AuditStarts
<1>9. k - 1 \in 0..Len(events) /\ k - 1 \notin Bad /\ k \in 1..Len(events)
    BY <1>1, <1>4, <1>5, <1>8
<1> QED
    BY <1>1, <1>5, <1>7, <1>8, <1>9, AuditStep
-----------------------------------------------------------------------------
(* An audit follows what a device makes of its own tiles, unless it finds     *)
(* something; and it finds that player's tiles, or says so, exactly if the    *)
(* player has not changed them.                                               *)

OwnState ==
    [rack : Counts, pool : Counts, draws : Nat, promises : Nat, exchanges : Nat,
     open : BOOLEAN]

Tallies(a, own) ==
    /\ a.draws = own.draws /\ a.promises = own.promises /\ a.exchanges = own.exchanges
    /\ own.open => a.pool = own.pool

Tracks(a, own, c) ==
    /\ a.finding # "none" \/ Tallies(a, own)
    /\ (a.finding = "none" /\ a.rack = own.rack) <=> ~c

\* Two racks that hold the same tiles differ without them as they did with them.
LEMMA SameWithout ==
    ASSUME NEW a \in Counts, NEW b \in Counts, NEW t \in Counts, Holds(a, t), Holds(b, t)
    PROVE  (Without(a, t) = Without(b, t)) <=> (a = b)
    BY SizeWithout

LEMMA SameBoth ==
    ASSUME NEW a \in Counts, NEW b \in Counts, NEW t \in Counts
    PROVE  (Both(a, t) = Both(b, t)) <=> (a = b)
<1>1. ASSUME Both(a, t) = Both(b, t), NEW k \in Kind PROVE a[k] = b[k]
    <2>1. Both(a, t)[k] = Both(b, t)[k]
        BY <1>1
    <2> QED
        BY <2>1 DEF Both, Counts
<1> QED
    BY <1>1 DEF Counts

LEMMA TrackDraw ==
    ASSUME NEW a \in AuditState, NEW own \in OwnState, NEW c \in BOOLEAN, NEW q \in Player,
           NEW seed, NEW e \in DrawEvent, NEW got, NEW new \in OwnState,
           Tracks(a, own, c), e.player = q, own.open,
           got = Draw(e.nonce, own.draws, e.count, own.pool),
           new.rack = Both(own.rack, got.tiles), new.pool = got.pool,
           new.draws = own.draws + Size(got.tiles),
           new.promises = own.promises, new.exchanges = own.exchanges
    PROVE  Tracks(AuditEvent(a, e, q, seed), new, c)
<1> DEFINE b == AuditEvent(a, e, q, seed)
<1>1. CASE a.finding # "none"
    BY <1>1, FoundStays DEF Tracks
<1>2. CASE a.finding = "none"
    <2>1. a.draws = own.draws /\ a.promises = own.promises /\ a.exchanges = own.exchanges
          /\ a.pool = own.pool /\ ((a.rack = own.rack) <=> ~c)
        BY <1>2 DEF Tracks, Tallies
    <2>2. b = [a EXCEPT !.pool = got.pool, !.draws = @ + Size(got.tiles),
                        !.rack = Both(@, got.tiles)]
        <3>1. AuditEvent(a, e, q, seed) = AuditDraw(a, e)
            BY <1>2 DEF AuditEvent, DrawEvent
        <3>2. Draw(e.nonce, a.draws, e.count, a.pool) = got
            BY <2>1
        <3> QED
            BY <3>1, <3>2 DEF AuditDraw, AuditDrawn
    <2>3. /\ b.finding = "none" /\ b.draws = a.draws + Size(got.tiles) /\ b.pool = got.pool
          /\ b.promises = a.promises /\ b.exchanges = a.exchanges
          /\ b.rack = Both(a.rack, got.tiles)
        BY <1>2, <2>2 DEF AuditState
    <2>4. /\ new.draws = own.draws + Size(got.tiles) /\ new.pool = got.pool
          /\ new.promises = own.promises /\ new.exchanges = own.exchanges
          /\ new.rack = Both(own.rack, got.tiles)
        OBVIOUS
    <2>5. got.tiles \in Counts
        BY DrawFacts DEF OwnState, DrawEvent, Heaps
    <2>6. (b.rack = new.rack) <=> (a.rack = own.rack)
        <3>1. a.rack \in Counts /\ own.rack \in Counts
            BY DEF AuditState, OwnState
        <3> QED
            BY <2>3, <2>4, <2>5, <3>1, SameBoth
    <2> HIDE DEF b
    <2>7. Tracks(b, new, c)
        BY <2>1, <2>3, <2>4, <2>6 DEF Tracks, Tallies
    <2> QED
        BY <2>7 DEF b
<1> QED
    BY <1>1, <1>2

\* What the opponent puts down is forgotten, whether or not it stays.
LEMMA TrackForget ==
    ASSUME NEW a \in AuditState, NEW own \in OwnState, NEW c \in BOOLEAN, NEW q \in Player,
           NEW seed, NEW e \in PlayEvent, NEW new \in OwnState, Tracks(a, own, c), e.player # q,
           new.pool = Forget(own.pool, e.tiles), new.rack = own.rack, new.draws = own.draws,
           new.promises = own.promises, new.exchanges = own.exchanges, new.open => own.open
    PROVE  Tracks(AuditEvent(a, e, q, seed), new, c)
<1>1. CASE a.finding # "none"
    BY <1>1, FoundStays DEF Tracks
<1>2. CASE a.finding = "none"
    <2>1. AuditEvent(a, e, q, seed) = [a EXCEPT !.pool = Forget(@, e.tiles)]
        BY <1>2, AuditOfPlay
    <2> QED
        BY <1>2, <2>1 DEF Tracks, Tallies, AuditState, OwnState
<1> QED
    BY <1>1, <1>2

LEMMA TrackPlay ==
    ASSUME NEW a \in AuditState, NEW own \in OwnState, NEW c \in BOOLEAN, NEW q \in Player,
           NEW seed, NEW e \in PlayEvent, NEW new \in OwnState, Tracks(a, own, c), e.player = q,
           e.type = "Played", Holds(own.rack, e.tiles),
           new.rack = Without(own.rack, e.tiles), new.pool = own.pool, new.draws = own.draws,
           new.promises = own.promises, new.exchanges = own.exchanges, new.open = own.open
    PROVE  Tracks(AuditEvent(a, e, q, seed), new, c)
<1>1. CASE a.finding # "none"
    BY <1>1, FoundStays DEF Tracks
<1>2. CASE a.finding = "none" /\ ~Holds(a.rack, e.tiles)
    <2>1. AuditEvent(a, e, q, seed).finding # "none"
        BY <1>2, AuditOfPlay
    <2>2. a.rack # own.rack
        BY <1>2
    <2> QED
        BY <1>2, <2>1, <2>2 DEF Tracks
<1>3. CASE a.finding = "none" /\ Holds(a.rack, e.tiles)
    <2>1. AuditEvent(a, e, q, seed) = [a EXCEPT !.rack = Without(@, e.tiles)]
        BY <1>3, AuditOfPlay
    <2>2. a.rack \in Counts /\ own.rack \in Counts /\ e.tiles \in Counts
        BY DEF AuditState, OwnState, PlayEvent
    <2>3. (Without(a.rack, e.tiles) = Without(own.rack, e.tiles)) <=> (a.rack = own.rack)
        BY <1>3, <2>2, SameWithout
    <2> QED
        BY <1>3, <2>1, <2>3 DEF Tracks, Tallies, AuditState, OwnState
<1> QED
    BY <1>1, <1>2, <1>3

LEMMA TrackSwap ==
    ASSUME NEW a \in AuditState, NEW own \in OwnState, NEW c \in BOOLEAN, NEW q \in Player,
           NEW seed, NEW e \in SwapEvent, NEW new \in OwnState, Tracks(a, own, c), e.player = q,
           e.masked.key = <<seed, own.exchanges>>, Holds(own.rack, e.masked.tiles),
           new.rack = Without(own.rack, e.masked.tiles),
           new.pool = Both(own.pool, e.masked.tiles),
           new.exchanges = own.exchanges + 1, new.draws = own.draws,
           new.promises = own.promises, new.open = own.open
    PROVE  Tracks(AuditEvent(a, e, q, seed), new, c)
<1>1. CASE a.finding # "none"
    BY <1>1, FoundStays DEF Tracks
<1>2. CASE a.finding = "none" /\ ~Holds(a.rack, e.masked.tiles)
    <2>1. AuditEvent(a, e, q, seed).finding # "none"
        <3>1. AuditEvent(a, e, q, seed) = AuditExchanged(a, e, seed)
            BY <1>2 DEF AuditEvent, SwapEvent
        <3>2. AuditExchanged(a, e, seed).finding # "none"
            BY <1>2 DEF AuditExchanged, Found, AuditState
        <3> QED
            BY <3>1, <3>2
    <2>2. a.rack # own.rack
        BY <1>2
    <2> QED
        BY <1>2, <2>1, <2>2 DEF Tracks
<1>3. CASE a.finding = "none" /\ Holds(a.rack, e.masked.tiles)
    <2> DEFINE t == e.masked.tiles
    <2>1. a.exchanges = own.exchanges
        BY <1>3 DEF Tracks, Tallies
    <2>2. AuditEvent(a, e, q, seed) =
              [a EXCEPT !.exchanges = @ + 1, !.rack = Without(@, t), !.pool = Both(@, t)]
        <3>1. e.masked.key = <<seed, a.exchanges>>
            BY <2>1
        <3>2. AuditEvent(a, e, q, seed) = AuditExchanged(a, e, seed)
            BY <1>3 DEF AuditEvent, SwapEvent
        <3> QED
            BY <1>3, <3>1, <3>2 DEF AuditExchanged, Unmasks
    <2>3. a.rack \in Counts /\ own.rack \in Counts /\ t \in Counts
        BY DEF AuditState, OwnState, SwapEvent, Masked
    <2>4. (Without(a.rack, t) = Without(own.rack, t)) <=> (a.rack = own.rack)
        BY <1>3, <2>3, SameWithout
    <2> HIDE DEF t
    <2>7. PICK b : b = AuditEvent(a, e, q, seed)
        OBVIOUS
    <2>8. /\ b.rack = Without(a.rack, t) /\ b.pool = Both(a.pool, t)
          /\ b.exchanges = a.exchanges + 1 /\ b.draws = a.draws
          /\ b.promises = a.promises /\ b.finding = "none"
        BY <1>3, <2>2, <2>7 DEF AuditState
    <2>9. Tracks(b, new, c)
        BY <1>3, <2>4, <2>8 DEF Tracks, Tallies, t
    <2> QED
        BY <2>7, <2>9
<1> QED
    BY <1>1, <1>2, <1>3

LEMMA TrackPromise ==
    ASSUME NEW a \in AuditState, NEW own \in OwnState, NEW c \in BOOLEAN, NEW q \in Player,
           NEW seed, NEW e \in PromiseEvent, NEW new \in OwnState, Tracks(a, own, c), e.player = q,
           e.hash = RackCommitment(seed, own.promises, own.rack),
           new.promises = own.promises + 1, new.rack = own.rack, new.pool = own.pool,
           new.draws = own.draws, new.exchanges = own.exchanges, new.open = own.open
    PROVE  Tracks(AuditEvent(a, e, q, seed), new, c)
<1>1. CASE a.finding # "none"
    BY <1>1, FoundStays DEF Tracks
<1>2. CASE a.finding = "none" /\ e.hash # RackCommitment(seed, a.promises, a.rack)
    <2>1. AuditEvent(a, e, q, seed).finding # "none"
        BY <1>2 DEF AuditEvent, AuditCommitment, Found, PromiseEvent, AuditState
    <2>2. a.rack # own.rack
        BY <1>2 DEF Tracks, Tallies
    <2> QED
        BY <1>2, <2>1, <2>2 DEF Tracks
<1>3. CASE a.finding = "none" /\ e.hash = RackCommitment(seed, a.promises, a.rack)
    <2>1. AuditEvent(a, e, q, seed) = [a EXCEPT !.promises = @ + 1]
        BY <1>3 DEF AuditEvent, AuditCommitment, PromiseEvent
    <2> QED
        BY <1>3, <2>1 DEF Tracks, Tallies, AuditState, OwnState
<1> QED
    BY <1>1, <1>2, <1>3

\* A play that is taken back only had to be held.
LEMMA TrackTakenBack ==
    ASSUME NEW a \in AuditState, NEW own \in OwnState, NEW c \in BOOLEAN, NEW q \in Player,
           NEW seed, NEW e \in PlayEvent, NEW back \in PlayEvent, NEW new \in OwnState,
           e.player = q, e.type = "Played",
           back.player = q, back.type = "Seen", back.tiles = e.tiles,
           Tracks(AuditEvent(a, e, q, seed), own, c),
           new.rack = Both(own.rack, e.tiles), new.pool = own.pool, new.draws = own.draws,
           new.promises = own.promises, new.exchanges = own.exchanges, new.open = own.open
    PROVE  Tracks(AuditEvent(a, back, q, seed), new, c)
<1>1. CASE a.finding # "none"
    BY <1>1, FoundStays DEF Tracks
<1>2. CASE a.finding = "none" /\ ~Holds(a.rack, e.tiles)
    <2>1. /\ AuditEvent(a, e, q, seed).finding # "none"
          /\ AuditEvent(a, back, q, seed).finding # "none"
        BY <1>2, AuditOfPlay
    <2> QED
        BY <2>1 DEF Tracks
<1>3. CASE a.finding = "none" /\ Holds(a.rack, e.tiles)
    <2>1. /\ AuditEvent(a, e, q, seed) = [a EXCEPT !.rack = Without(@, e.tiles)]
          /\ AuditEvent(a, back, q, seed) = a
        BY <1>3, AuditOfPlay
    <2>2. a.rack \in Counts /\ own.rack \in Counts /\ e.tiles \in Counts
        BY DEF AuditState, OwnState, PlayEvent
    <2>3. Without(a.rack, e.tiles) \in Counts /\ Both(Without(a.rack, e.tiles), e.tiles) = a.rack
        BY <1>3, <2>2, SizeWithout
    <2>4. (Both(Without(a.rack, e.tiles), e.tiles) = Both(own.rack, e.tiles))
              <=> (Without(a.rack, e.tiles) = own.rack)
        BY <2>2, <2>3, SameBoth
    <2> QED
        BY <1>3, <2>1, <2>3, <2>4 DEF Tracks, Tallies, AuditState, OwnState
<1> QED
    BY <1>1, <1>2, <1>3
-----------------------------------------------------------------------------
(* One device. A step of it goes through several states; of each, what the    *)
(* audit needs is kept in Tiles, and what else it does is said field by field. *)

Fields == {"seed", "me", "index", "scores", "board", "rack", "opponent_tiles", "bag",
           "unseen", "draws", "my_exchanges", "pending", "owed", "seed_hash", "toss",
           "first", "published", "events", "last_play", "scoreless", "ending",
           "went_out", "must_forfeit", "reveals", "verdict", "finished", "final"}

Opened == [seed : Seed, rack : Counts]

Typed(s, d) ==
    /\ DOMAIN s = Fields
    /\ s.seed \in Seed /\ s.seed.owner = d /\ s.me \in {Nobody, d}
    /\ s.rack \in Counts /\ s.unseen \in Counts
    /\ s.bag \in Nat /\ s.draws \in Nat /\ s.published \in Nat /\ s.my_exchanges \in Nat
    /\ s.pending \in [Player -> Nat]
    /\ s.reveals \in [Player -> {None} \cup {Some(o) : o \in Opened}]
    /\ s.seed_hash \in [Player -> {None} \cup {Some(seed) : seed \in Seed}]
    /\ s.events \in Seq(Event)

Own(s, d) ==
    [rack |-> s.rack, pool |-> s.unseen, draws |-> s.draws, promises |-> s.published,
     exchanges |-> s.my_exchanges, open |-> s.reveals[Other(d)] = None]

Tiles(s, d, c) ==
    /\ Typed(s, d)
    /\ Tracks(AuditEnd(d, s.events, s.seed), Own(s, d), c)

LEMMA Others == \A p \in Player : Other(p) \in Player /\ Other(p) # p /\ Other(Other(p)) = p
    BY DEF Player, Other

LEMMA OwnTyped ==
    ASSUME NEW s, NEW d \in Player, Typed(s, d) PROVE Own(s, d) \in OwnState
    BY DEF Typed, Own, OwnState

LEMMA AuditOfDevice ==
    ASSUME NEW s, NEW d \in Player, NEW q \in Player, Typed(s, d)
    PROVE  AuditEnd(q, s.events, s.seed) \in AuditState
    BY AuditTyped DEF Typed

\* What is dealt.
LEMMA DueFacts ==
    ASSUME NEW s, NEW d \in Player, NEW p \in Player, Typed(s, d)
    PROVE  Due(s, p) \in Nat /\ s.bag - Due(s, p) \in Nat /\ (s.pending[p] = 0 => Due(s, p) = 0)
    BY DEF Due, Typed

\* The parts of a device no entry touches before the player does what it says.
Same(s, t) ==
    /\ t.seed = s.seed /\ t.me = s.me /\ t.index = s.index /\ t.last_play = s.last_play
    /\ t.reveals = s.reveals /\ t.verdict = s.verdict /\ t.finished = s.finished
    /\ t.seed_hash = s.seed_hash /\ t.my_exchanges = s.my_exchanges /\ t.first = s.first
    /\ t.toss = s.toss

\* An event of the one player is nothing to the audit of the other, unless it
\* puts down tiles.
LEMMA AuditElsewhere ==
    ASSUME NEW events \in Seq(Event), NEW q \in Player, NEW seed,
           NEW e \in DrawEvent \cup SwapEvent \cup PromiseEvent, e.player # q
    PROVE  AuditEnd(q, Append(events, e), seed) = AuditEnd(q, events, seed)
<1>1. PICK a \in AuditState : a = AuditEnd(q, events, seed)
    BY AuditTyped
<1>2. e \in Event
    BY DEF Event
<1>3. AuditEnd(q, Append(events, e), seed) = AuditEvent(a, e, q, seed)
    BY <1>1, <1>2, AuditMore
<1>4. e.type \notin {"Played", "Seen"}
    BY DEF DrawEvent, SwapEvent, PromiseEvent
<1>5. AuditEvent(a, e, q, seed) = a
    BY <1>4 DEF AuditEvent
<1> QED
    BY <1>1, <1>3, <1>5

\* A device is dealt nothing before it knows who it is, and nothing once the
\* opponent's rack is open.
MayDraw(s, d, p) ==
    p = d => (s.me = d \/ s.pending[p] = 0) /\ s.reveals[Other(d)] = None

AfterRefill(s, t, d, p) ==
    /\ Same(s, t)
    /\ t.pending[p] = 0 /\ t.pending[Other(p)] = s.pending[Other(p)]
    /\ t.must_forfeit = s.must_forfeit /\ t.ending = s.ending
    /\ t.published = s.published
    /\ p # d => t.rack = s.rack
    /\ s.pending[p] = 0 => t.events = s.events

LEMMA RefillTiles ==
    ASSUME NEW s, NEW d \in Player, NEW p \in Player, NEW c \in BOOLEAN, NEW nonce \in Nonce,
           NEW t, t = Refill(s, p, nonce), Tiles(s, d, c), MayDraw(s, d, p)
    PROVE  Tiles(t, d, c) /\ AfterRefill(s, t, d, p)
<1>0. p = d => (s.me = d \/ s.pending[p] = 0) /\ s.reveals[Other(d)] = None
    BY DEF MayDraw
<1>1. Typed(s, d) /\ Tracks(AuditEnd(d, s.events, s.seed), Own(s, d), c)
    BY DEF Tiles
<1>2. Due(s, p) \in Nat /\ s.bag - Due(s, p) \in Nat /\ (s.pending[p] = 0 => Due(s, p) = 0)
    BY <1>1, DueFacts
<1>3. [s.pending EXCEPT ![p] = 0] \in [Player -> Nat]
    BY <1>1 DEF Typed
<1>6. t.pending = [s.pending EXCEPT ![p] = 0] =>
          t.pending[p] = 0 /\ t.pending[Other(p)] = s.pending[Other(p)]
    BY <1>1, Others DEF Typed
<1>4. CASE Due(s, p) = 0
    <2>1. t = [s EXCEPT !.pending[p] = 0]
        BY <1>4 DEF Refill
    <2>2. /\ DOMAIN t = Fields /\ Same(s, t) /\ t.pending = [s.pending EXCEPT ![p] = 0]
          /\ t.rack = s.rack /\ t.unseen = s.unseen /\ t.draws = s.draws
          /\ t.published = s.published /\ t.events = s.events
          /\ t.must_forfeit = s.must_forfeit /\ t.ending = s.ending /\ t.bag = s.bag
        BY <1>1, <2>1 DEF Typed, Fields, Same
    <2>3. Typed(t, d)
        BY <1>1, <1>3, <2>2 DEF Typed, Same
    <2>4. Own(t, d) = Own(s, d)
        BY <2>2 DEF Own, Same
    <2> QED
        BY <1>1, <1>6, <2>2, <2>3, <2>4 DEF Tiles, Same, AfterRefill
<1>5. CASE Due(s, p) # 0
    <2> DEFINE count == Due(s, p)
               e == [type |-> "Draw", player |-> p, nonce |-> nonce, count |-> count]
    <2>1. PICK got \in Heaps : got = Draw(nonce, s.draws, count, s.unseen)
        BY <1>1, <1>2, DrawFacts DEF Typed
    <2>2. t = Refilled(s, p, nonce, count, got)
        BY <1>5, <2>1 DEF Refill
    <2>3. /\ DOMAIN t = Fields /\ Same(s, t)
          /\ t.pending = [s.pending EXCEPT ![p] = 0] /\ t.bag = s.bag - count
          /\ t.rack = (IF s.me = p THEN Both(s.rack, got.tiles) ELSE s.rack)
          /\ t.unseen = (IF s.me = p THEN got.pool ELSE s.unseen)
          /\ t.draws = (IF s.me = p THEN s.draws + Size(got.tiles) ELSE s.draws)
          /\ t.events = Append(s.events, e)
          /\ t.published = s.published /\ t.must_forfeit = s.must_forfeit
          /\ t.ending = s.ending
        <3> HIDE DEF count
        <3> QED
            BY <1>1, <2>2 DEF Refilled, Typed, Fields, Same
    <2>4. e \in DrawEvent /\ e \in Event /\ e.player = p /\ e.nonce = nonce /\ e.count = count
        BY <1>2 DEF DrawEvent, Event
    <2> HIDE DEF e, count
    <2>5. t.events \in Seq(Event)
        BY <1>1, <2>3, <2>4, AppendProperties DEF Typed
    <2>6. got.tiles \in Counts /\ got.pool \in Counts /\ Size(got.tiles) \in Nat
        BY SizeNat DEF Heaps
    <2>7. Both(s.rack, got.tiles) \in Counts /\ s.draws + Size(got.tiles) \in Nat
        BY <1>1, <2>6, SizeBoth DEF Typed
    <2>8. Typed(t, d)
        BY <1>1, <1>2, <1>3, <2>3, <2>5, <2>6, <2>7 DEF Typed, Same, count
    <2>9. PICK a \in AuditState : a = AuditEnd(d, s.events, s.seed)
        BY <1>1, AuditOfDevice
    <2>10. AuditEnd(d, t.events, t.seed) = AuditEvent(a, e, d, s.seed)
        BY <1>1, <2>3, <2>4, <2>9, AuditMore DEF Typed, Same
    <2>11. CASE p = d
        <3>1. s.me = d
            BY <1>0, <1>2, <1>5, <2>11
        <3>2. PICK own \in OwnState : own = Own(s, d)
            BY <1>1, OwnTyped
        <3>3. own.open /\ own.draws = s.draws /\ own.pool = s.unseen
            BY <1>0, <2>11, <3>2 DEF Own
        <3>4. PICK new \in OwnState : new = Own(t, d)
            BY <2>8, OwnTyped
        <3>8. /\ new.rack = Both(own.rack, got.tiles) /\ new.pool = got.pool
              /\ new.draws = own.draws + Size(got.tiles)
              /\ new.promises = own.promises /\ new.exchanges = own.exchanges
            BY <2>3, <2>11, <3>1, <3>2, <3>4 DEF Own, Same
        <3>5. Tracks(a, own, c)
            BY <1>1, <2>9, <3>2
        <3>6. got = Draw(e.nonce, own.draws, e.count, own.pool)
            BY <2>1, <2>4, <3>3
        <3>7. Tracks(AuditEvent(a, e, d, s.seed), Own(t, d), c)
            BY <2>4, <2>11, <3>3, <3>4, <3>5, <3>6, <3>8, TrackDraw
        <3> QED
            BY <1>5, <1>6, <2>3, <2>8, <2>10, <2>11, <3>7, <1>2 DEF Tiles, AfterRefill
    <2>12. CASE p # d
        <3>1. s.me # p
            BY <1>1, <2>12 DEF Typed, Nobody, Player
        <3>2. Own(t, d) = Own(s, d)
            BY <2>3, <3>1 DEF Own, Same
        <3>3. AuditEnd(d, t.events, t.seed) = AuditEnd(d, s.events, s.seed)
            BY <1>1, <2>3, <2>4, <2>12, AuditElsewhere DEF Typed, Same
        <3> QED
            BY <1>1, <1>2, <1>5, <1>6, <2>3, <2>8, <2>12, <3>1, <3>2, <3>3 DEF Tiles, AfterRefill
    <2> QED
        BY <2>11, <2>12
<1> QED
    BY <1>4, <1>5

LEMMA PublishTiles ==
    ASSUME NEW s, NEW d \in Player, NEW p \in Player, NEW c \in BOOLEAN, NEW promise,
           NEW t, t = Publish(s, p, promise), Tiles(s, d, c),
           promise = None \/ (\E h \in Promise : promise = Some(h)),
           p = d => \/ promise = None
                    \/ s.me = d /\ promise = Some(RackCommitment(s.seed, s.published, s.rack))
    PROVE  /\ Tiles(t, d, c) /\ Same(s, t)
           /\ t.pending = s.pending /\ t.must_forfeit = s.must_forfeit
           /\ t.ending = s.ending /\ t.rack = s.rack
           /\ \A q \in Player, seed \in Seed :
                  q # p => AuditEnd(q, t.events, seed) = AuditEnd(q, s.events, seed)
<1>1. Typed(s, d) /\ Tracks(AuditEnd(d, s.events, s.seed), Own(s, d), c)
    BY DEF Tiles
<1>2. CASE promise = None
    <2>1. t = s
        BY <1>2 DEF Publish
    <2> QED
        BY <2>1 DEF Same
<1>3. CASE promise # None
    <2>1. PICK h \in Promise : promise = Some(h)
        BY <1>3
    <2>2. promise[1] = h
        BY <2>1 DEF Some
    <2> DEFINE e == [type |-> "Commitment", player |-> p, hash |-> h]
    <2>3. /\ DOMAIN t = Fields /\ Same(s, t) /\ t.pending = s.pending
          /\ t.rack = s.rack /\ t.unseen = s.unseen /\ t.draws = s.draws /\ t.bag = s.bag
          /\ t.published = (IF s.me = p THEN s.published + 1 ELSE s.published)
          /\ t.events = Append(s.events, e)
          /\ t.must_forfeit = s.must_forfeit /\ t.ending = s.ending
        BY <1>1, <1>3, <2>2 DEF Publish, Typed, Fields, Same
    <2>4. e \in PromiseEvent /\ e \in Event /\ e.player = p /\ e.hash = h
        BY DEF PromiseEvent, Event
    <2> HIDE DEF e
    <2>5. t.events \in Seq(Event)
        BY <1>1, <2>3, <2>4, AppendProperties DEF Typed
    <2>6. t.published \in Nat
        BY <1>1, <2>3 DEF Typed
    <2>7. Typed(t, d)
        BY <1>1, <2>3, <2>5, <2>6 DEF Typed, Same
    <2>8. \A q \in Player, seed \in Seed :
              q # p => AuditEnd(q, t.events, seed) = AuditEnd(q, s.events, seed)
        BY <1>1, <2>3, <2>4, AuditElsewhere DEF Typed
    <2>9. CASE p = d
        <3>1. s.me = d /\ promise = Some(RackCommitment(s.seed, s.published, s.rack))
            BY <1>3, <2>9
        <3>2. h = RackCommitment(s.seed, s.published, s.rack)
            BY <2>2, <3>1 DEF Some
        <3>3. PICK own \in OwnState : own = Own(s, d)
            BY <1>1, OwnTyped
        <3>4. PICK new \in OwnState : new = Own(t, d)
            BY <2>7, OwnTyped
        <3>5. PICK a \in AuditState : a = AuditEnd(d, s.events, s.seed)
            BY <1>1, AuditOfDevice
        <3>6. AuditEnd(d, t.events, t.seed) = AuditEvent(a, e, d, s.seed)
            BY <1>1, <2>3, <2>4, <3>5, AuditMore DEF Typed, Same
        <3>7. /\ new.promises = own.promises + 1 /\ new.rack = own.rack
              /\ new.pool = own.pool /\ new.draws = own.draws
              /\ new.exchanges = own.exchanges /\ new.open = own.open
            BY <2>3, <2>9, <3>1, <3>3, <3>4 DEF Own, Same
        <3>8. Tracks(a, own, c)
            BY <1>1, <3>3, <3>5
        <3>9. e.hash = RackCommitment(s.seed, own.promises, own.rack)
            BY <2>4, <3>2, <3>3 DEF Own
        <3>10. Tracks(AuditEvent(a, e, d, s.seed), new, c)
            BY <2>4, <2>9, <3>7, <3>8, <3>9, TrackPromise
        <3> QED
            BY <2>3, <2>7, <2>8, <3>4, <3>6, <3>10 DEF Tiles
    <2>10. CASE p # d
        <3>1. s.me # p
            BY <1>1, <2>10 DEF Typed, Nobody, Player
        <3>2. Own(t, d) = Own(s, d)
            BY <2>3, <3>1 DEF Own, Same
        <3>3. AuditEnd(d, t.events, t.seed) = AuditEnd(d, s.events, s.seed)
            BY <1>1, <2>3, <2>8, <2>10 DEF Typed, Same
        <3> QED
            BY <1>1, <2>3, <2>7, <2>8, <3>2, <3>3 DEF Tiles
    <2> QED
        BY <2>9, <2>10
<1> QED
    BY <1>2, <1>3

\* The play a challenge is about is the last thing that happened.
LEMMA LastPlayedIsLast ==
    ASSUME NEW s, NEW front \in Seq(Event), NEW e \in Event, NEW by,
           s.events = Append(front, e), e.type = "Played", e.player = by
    PROVE  LastPlayed(s, by) = Len(front) + 1
<1>1. PICK n \in Nat : n = Len(front) + 1
    BY LenProperties
<1>2. s.events \in Seq(Event) /\ Len(s.events) = n /\ s.events[n] = e
    BY <1>1, AppendProperties
<1>3. DOMAIN s.events = 1..n /\ n \in 1..n
    BY <1>1, <1>2, LenProperties
<1> DEFINE Last(i) ==
        /\ s.events[i].type = "Played" /\ s.events[i].player = by
        /\ \A j \in DOMAIN s.events :
               (s.events[j].type = "Played" /\ s.events[j].player = by) => j <= i
<1>4. Last(n)
    BY <1>2, <1>3
<1>5. \A i \in DOMAIN s.events : Last(i) => i = n
    BY <1>2, <1>3
<1>6. (CHOOSE i \in DOMAIN s.events : Last(i)) = n
    BY <1>3, <1>4, <1>5
<1> QED
    BY <1>1, <1>6 DEF LastPlayed

Ends(events, front, e) == events = Append(front, e)

\* A play that was taken back, and the events with the last play of somebody so.
Back(by, tiles) == [type |-> "Seen", player |-> by, tiles |-> tiles]
Undone(s, by) == [s.events EXCEPT ![LastPlayed(s, by)].type = "Seen"]

LEMMA UndoneEnds ==
    ASSUME NEW s, NEW front \in Seq(Event), NEW e \in PlayEvent, NEW by,
           Ends(s.events, front, e), e.type = "Played", e.player = by
    PROVE  /\ Back(by, e.tiles) \in PlayEvent /\ Ends(Undone(s, by), front, Back(by, e.tiles))
<1>0. s.events = Append(front, e)
    BY DEF Ends
<1> DEFINE i == LastPlayed(s, by)
           more == [s.events EXCEPT ![i].type = "Seen"]
           back == [type |-> "Seen", player |-> by, tiles |-> e.tiles]
<1>2. by \in Player /\ e.tiles \in Counts /\ e \in Event
    BY DEF PlayEvent, Event
<1>3. i = Len(front) + 1
    BY <1>0, <1>2, LastPlayedIsLast
<1>4. back \in PlayEvent /\ back \in Event
    BY <1>2 DEF PlayEvent, Event
<1>5. [e EXCEPT !.type = "Seen"] = back
    BY DEF PlayEvent
<1>6. more = Append(front, back)
    <2>1. PICK n \in Nat : n = Len(front) + 1
        BY LenProperties
    <2>2. s.events \in Seq(Event) /\ Len(s.events) = n /\ s.events[n] = e
          /\ \A j \in 1..Len(front) : s.events[j] = front[j]
        BY <1>0, <1>2, <2>1, AppendProperties
    <2>3. more = [s.events EXCEPT ![n] = back]
        BY <1>3, <1>5, <2>1, <2>2
    <2> HIDE DEF more, back
    <2>4. n \in 1..Len(s.events)
        BY <2>1, <2>2, LenProperties
    <2>5. more \in Seq(Event) /\ Len(more) = n
          /\ \A j \in 1..n : more[j] = IF j = n THEN back ELSE s.events[j]
        <3>1. s.events \in [1..n -> Event]
            BY <2>2, LenProperties
        <3>2. more \in [1..n -> Event] /\ \A j \in 1..n : more[j] = IF j = n THEN back ELSE s.events[j]
            BY <1>4, <2>2, <2>3, <2>4, <3>1
        <3>3. more \in Seq(Event)
            BY <3>2, SeqDef
        <3>4. 1..Len(more) = 1..n /\ Len(more) \in Nat
            BY <3>2, <3>3, LenProperties
        <3>5. Len(more) = n
            BY <3>4
        <3> QED
            BY <3>2, <3>3, <3>5
    <2>6. Append(front, back) \in Seq(Event) /\ Len(Append(front, back)) = n
          /\ Append(front, back)[n] = back
          /\ \A j \in 1..Len(front) : Append(front, back)[j] = front[j]
        BY <1>4, <2>1, AppendProperties
    <2>7. \A j \in 1..n : more[j] = Append(front, back)[j]
        <3>1. Len(front) \in Nat
            BY LenProperties
        <3>2. ASSUME NEW j \in 1..n PROVE more[j] = Append(front, back)[j]
            <4>1. j = n \/ j \in 1..Len(front)
                BY <2>1, <3>1
            <4> QED
                BY <2>1, <2>2, <2>5, <2>6, <4>1
        <3> QED
            BY <3>2
    <2> QED
        BY <2>5, <2>6, <2>7, SeqEqual
<1> QED
    BY <1>4, <1>6 DEF Ends, Undone, Back

LEMMA RetractTiles ==
    ASSUME NEW s, NEW d \in Player, NEW c \in BOOLEAN, NEW play, NEW front \in Seq(Event),
           NEW e \in PlayEvent, NEW t, t = Retract(s, play), Tiles(s, d, c),
           Ends(s.events, front, e), e.type = "Played", e.player = play.by,
           e.tiles = play.tiles, play.by = d => s.me = d
    PROVE  /\ Tiles(t, d, c) /\ Same(s, t)
           /\ t.pending[Other(play.by)] = s.pending[Other(play.by)]
           /\ t.must_forfeit = play.by /\ t.published = s.published
           /\ play.by # d => t.rack = s.rack
<1>1. Typed(s, d) /\ Tracks(AuditEnd(d, s.events, s.seed), Own(s, d), c)
    BY DEF Tiles
<1>2. play.by \in Player /\ play.tiles \in Counts /\ e \in Event
    BY DEF PlayEvent, Event
<1>0. s.events = Append(front, e)
    BY DEF Ends
<1> DEFINE more == Undone(s, play.by)
           back == Back(play.by, e.tiles)
<1>4. back \in PlayEvent /\ back \in Event /\ back.player = play.by /\ back.type = "Seen"
      /\ back.tiles = e.tiles
    BY <1>2, UndoneEnds DEF PlayEvent, Event, Back
<1>6. more = Append(front, back)
    <2>1. Ends(more, front, back)
        BY UndoneEnds
    <2> QED
        BY <2>1 DEF Ends
<1>7. /\ DOMAIN t = Fields /\ Same(s, t)
      /\ t.pending = [s.pending EXCEPT ![play.by] = 0]
      /\ t.rack = (IF s.me = play.by THEN Both(s.rack, play.tiles) ELSE s.rack)
      /\ t.unseen = s.unseen /\ t.draws = s.draws /\ t.bag = s.bag
      /\ t.published = s.published /\ t.must_forfeit = play.by
      /\ t.events = more
    <2>1. PICK i : i = LastPlayed(s, play.by)
        OBVIOUS
    <2>2. more = [s.events EXCEPT ![i].type = "Seen"]
        BY <2>1 DEF Undone
    <2> HIDE DEF more, back
    <2>3. t.events = more
        BY <1>1, <2>1, <2>2 DEF Retract, Typed, Fields
    <2> QED
        BY <1>1, <2>3 DEF Retract, Typed, Fields, Same
<1> HIDE DEF more, back
<1>8. t.events \in Seq(Event)
    BY <1>4, <1>6, <1>7, AppendProperties
<1>9. Both(s.rack, play.tiles) \in Counts
    BY <1>1, <1>2, SizeBoth DEF Typed
<1>10. t.pending \in [Player -> Nat]
       /\ t.pending[Other(play.by)] = s.pending[Other(play.by)]
    BY <1>1, <1>2, <1>7, Others DEF Typed
<1>11. Typed(t, d)
    BY <1>1, <1>7, <1>8, <1>9, <1>10 DEF Typed, Same
<1>12. PICK a \in AuditState : a = AuditEnd(d, front, s.seed)
    BY AuditTyped
<1>13. AuditEnd(d, s.events, s.seed) = AuditEvent(a, e, d, s.seed)
    BY <1>0, <1>2, <1>12, AuditMore
<1>14. AuditEnd(d, t.events, t.seed) = AuditEvent(a, back, d, s.seed)
    BY <1>4, <1>6, <1>7, <1>12, AuditMore DEF Same
<1>15. PICK own \in OwnState : own = Own(s, d)
    BY <1>1, OwnTyped
<1>16. PICK new \in OwnState : new = Own(t, d)
    BY <1>11, OwnTyped
<1>17. Tracks(AuditEvent(a, e, d, s.seed), own, c)
    BY <1>1, <1>13, <1>15
<1>18. /\ new.pool = own.pool /\ new.draws = own.draws /\ new.promises = own.promises
       /\ new.exchanges = own.exchanges /\ new.open = own.open
       /\ new.rack = (IF s.me = play.by THEN Both(own.rack, play.tiles) ELSE own.rack)
    BY <1>7, <1>15, <1>16 DEF Own, Same
<1>19. CASE play.by = d
    <2>1. new.rack = Both(own.rack, e.tiles)
        BY <1>18, <1>19
    <2>2. Tracks(AuditEvent(a, back, d, s.seed), new, c)
        BY <1>4, <1>17, <1>18, <1>19, <2>1, TrackTakenBack
    <2> QED
        BY <1>7, <1>10, <1>11, <1>14, <1>16, <1>19, <2>2 DEF Tiles
<1>20. CASE play.by # d
    <2>1. s.me # play.by
        BY <1>1, <1>2, <1>20 DEF Typed, Nobody, Player
    <2>2. AuditEvent(a, back, d, s.seed) = AuditEvent(a, e, d, s.seed)
        BY <1>4, <1>20, AuditOfPlay DEF AuditEvent, PlayEvent
    <2>3. Tracks(AuditEvent(a, back, d, s.seed), new, c)
        BY <1>17, <1>18, <2>1, <2>2 DEF Tracks, Tallies
    <2> QED
        BY <1>7, <1>10, <1>11, <1>14, <1>16, <2>1, <2>3 DEF Tiles
<1> QED
    BY <1>19, <1>20

\* What a player says, one kind of entry after the other.

SameTiles(s, t) ==
    /\ t.seed = s.seed /\ t.me = s.me /\ t.rack = s.rack /\ t.unseen = s.unseen
    /\ t.bag = s.bag /\ t.draws = s.draws /\ t.published = s.published
    /\ t.my_exchanges = s.my_exchanges /\ t.pending = s.pending
    /\ t.reveals = s.reveals /\ t.seed_hash = s.seed_hash /\ t.events = s.events

LEMMA TilesAlike ==
    ASSUME NEW s, NEW t, NEW d, NEW c, Tiles(s, d, c), DOMAIN t = Fields, SameTiles(s, t)
    PROVE  Tiles(t, d, c)
<1>1. Typed(t, d) /\ Own(t, d) = Own(s, d)
    BY DEF Tiles, Typed, Own, SameTiles
<1> QED
    BY <1>1 DEF Tiles, SameTiles

MoveTypes == {"Commit", "Toss", "Yield", "Place", "Exchange", "Pass", "Challenge", "Forfeit", "Reveal"}

\* The play that may be challenged is the last event, and the opponent's.
LastIs(s) ==
    \E front \in Seq(Event), e \in PlayEvent :
        /\ Ends(s.events, front, e)
        /\ e.type = "Played" /\ e.player = s.last_play[1].by /\ e.tiles = s.last_play[1].tiles

\* With both racks open the audits decide, and who failed its own has not won.
Concluded(s) ==
    IF \E p \in Player : s.reveals[p] = None
    THEN s.verdict = None /\ s.finished = "no"
    ELSE /\ s.verdict = Some(Verdict(s)) /\ s.finished # "no"
         /\ s.finished = "initiator" => Verdict(s)[Initiator] = "none"
         /\ s.finished = "claimer" => Verdict(s)[Claimer] = "none"

\* What an entry needs of the device when its own part comes.
Ready(s, d, mv, p) ==
    /\ mv.type \in MoveTypes
    /\ mv.type = "Commit" => mv.seed \in Seed /\ ((mv.seed = s.seed) <=> (p = d))
    /\ mv.type = "Place" =>
           mv.tiles \in Counts /\ (p = d => s.me = d /\ Holds(s.rack, mv.tiles))
    /\ mv.type = "Exchange" =>
           /\ mv.masked \in Masked
           /\ p = d => /\ s.me = d /\ Holds(s.rack, mv.masked.tiles)
                       /\ mv.masked.key = <<s.seed, s.my_exchanges>>
    /\ mv.type = "Reveal" =>
           /\ mv.seed \in Seed /\ mv.rack \in Counts /\ (p = d => s.me = d)
           /\ s.verdict = None /\ s.finished = "no"

Outcome(s, t, d, mv, p) ==
    /\ t.index = s.index /\ t.seed = s.seed /\ t.ending = s.ending
    /\ t.me = IF mv.type = "Commit" /\ p = d THEN d ELSE s.me
    /\ t.must_forfeit = IF mv.type = "Forfeit" THEN Nobody ELSE s.must_forfeit
    /\ t.pending[Other(p)] = s.pending[Other(p)]
    /\ mv.type \notin {"Commit", "Place", "Exchange"} => t.pending = s.pending
    /\ mv.type # "Commit" => t.seed_hash = s.seed_hash
    /\ mv.type \in {"Exchange", "Pass", "Challenge", "Forfeit"} => t.last_play = None
    /\ mv.type \in {"Commit", "Toss", "Yield", "Reveal"} => t.last_play = s.last_play
    /\ mv.type = "Place" => t.last_play # None /\ t.last_play[1].by = p /\ LastIs(t)
    /\ IF mv.type = "Reveal"
       THEN /\ t.reveals[p] = Some([seed |-> mv.seed, rack |-> mv.rack])
            /\ t.reveals[Other(p)] = s.reveals[Other(p)]
            /\ t.events = s.events /\ t.rack = s.rack /\ Concluded(t)
       ELSE t.reveals = s.reveals /\ t.verdict = s.verdict /\ t.finished = s.finished

LEMMA CommitTiles ==
    ASSUME NEW s, NEW d \in Player, NEW p \in Player, NEW c \in BOOLEAN, NEW mv,
           NEW t, t = Commit(s, mv, p), Tiles(s, d, c), mv.type = "Commit", Ready(s, d, mv, p)
    PROVE  Tiles(t, d, c) /\ Outcome(s, t, d, mv, p)
<1>0. mv.seed \in Seed /\ ((mv.seed = s.seed) <=> (p = d))
    BY DEF Ready
<1>1. Typed(s, d) /\ Tracks(AuditEnd(d, s.events, s.seed), Own(s, d), c)
    BY DEF Tiles
<1>2. RACK \in Nat /\ Claimer \in Player /\ Initiator \in Player /\ Claimer # Initiator
    BY OneAssumption DEF Claimer, Initiator, Player
<1>3. /\ DOMAIN t = Fields /\ t.seed = s.seed /\ t.rack = s.rack /\ t.unseen = s.unseen
      /\ t.bag = s.bag /\ t.draws = s.draws /\ t.published = s.published
      /\ t.my_exchanges = s.my_exchanges /\ t.reveals = s.reveals /\ t.events = s.events
      /\ t.index = s.index /\ t.last_play = s.last_play /\ t.must_forfeit = s.must_forfeit
      /\ t.verdict = s.verdict /\ t.finished = s.finished /\ t.ending = s.ending
      /\ t.me = (IF mv.seed = s.seed THEN p ELSE s.me)
      /\ t.seed_hash = [s.seed_hash EXCEPT ![p] = Some(mv.seed)]
      /\ t.pending = [s.pending EXCEPT ![Claimer] = IF p = Claimer THEN RACK ELSE @]
    BY <1>1 DEF Commit, Typed, Fields
<1>4. t.pending \in [Player -> Nat] /\ t.pending[Other(p)] = s.pending[Other(p)]
    BY <1>1, <1>2, <1>3 DEF Typed, Player, Other, Claimer
<1>5. /\ t.seed_hash \in [Player -> {None} \cup {Some(seed) : seed \in Seed}]
      /\ t.seed_hash[p] = Some(mv.seed) /\ t.seed_hash[Other(p)] = s.seed_hash[Other(p)]
    BY <1>0, <1>1, <1>3, Others DEF Typed
<1>6. t.me = (IF p = d THEN d ELSE s.me) /\ t.me \in {Nobody, d}
    BY <1>0, <1>1, <1>3 DEF Typed
<1>7. Typed(t, d)
    BY <1>1, <1>3, <1>4, <1>5, <1>6 DEF Typed
<1>8. Own(t, d) = Own(s, d)
    BY <1>3 DEF Own
<1> QED
    BY <1>1, <1>3, <1>4, <1>6, <1>7, <1>8 DEF Tiles, Outcome

LEMMA PlaceTiles ==
    ASSUME NEW s, NEW d \in Player, NEW p \in Player, NEW c \in BOOLEAN, NEW mv,
           NEW t, t = Place(s, mv, p), Tiles(s, d, c), mv.type = "Place", Ready(s, d, mv, p)
    PROVE  Tiles(t, d, c) /\ Outcome(s, t, d, mv, p)
<1>0. mv.tiles \in Counts /\ (p = d => s.me = d /\ Holds(s.rack, mv.tiles))
    BY DEF Ready
<1>1. Typed(s, d) /\ Tracks(AuditEnd(d, s.events, s.seed), Own(s, d), c)
    BY DEF Tiles
<1> DEFINE e == [type |-> "Played", player |-> p, tiles |-> mv.tiles]
           play == [by |-> p, tiles |-> mv.tiles, real |-> mv.real, score |-> RackValue(mv.tiles)]
<1>2. /\ DOMAIN t = Fields /\ t.seed = s.seed /\ t.me = s.me
      /\ t.rack = (IF s.me = p THEN Without(s.rack, mv.tiles) ELSE s.rack)
      /\ t.unseen = (IF s.me = p THEN s.unseen ELSE Forget(s.unseen, mv.tiles))
      /\ t.bag = s.bag /\ t.draws = s.draws /\ t.published = s.published
      /\ t.my_exchanges = s.my_exchanges /\ t.reveals = s.reveals
      /\ t.seed_hash = s.seed_hash /\ t.events = Append(s.events, e)
      /\ t.index = s.index /\ t.last_play = Some(play) /\ t.must_forfeit = s.must_forfeit
      /\ t.verdict = s.verdict /\ t.finished = s.finished /\ t.ending = s.ending
      /\ t.pending = [s.pending EXCEPT ![p] = Size(mv.tiles)]
    BY <1>1 DEF Place, Typed, Fields
<1>3. t.last_play # None /\ t.last_play[1].by = p /\ t.last_play[1].tiles = mv.tiles
    BY <1>2 DEF Some, None
<1>4. e \in PlayEvent /\ e \in Event /\ e.player = p /\ e.type = "Played" /\ e.tiles = mv.tiles
    BY <1>0 DEF PlayEvent, Event
<1> HIDE DEF e, play
<1>5. t.events \in Seq(Event)
    BY <1>1, <1>2, <1>4, AppendProperties DEF Typed
<1>6. t.pending \in [Player -> Nat] /\ t.pending[Other(p)] = s.pending[Other(p)]
    BY <1>0, <1>1, <1>2, SizeNat, Others DEF Typed
<1>7. Forget(s.unseen, mv.tiles) \in Counts
    BY <1>0, <1>1, SizeForget DEF Typed
<1>8. (s.me = p) <=> (p = d)
    BY <1>0, <1>1 DEF Typed, Nobody, Player
<1>9. p = d => Without(s.rack, mv.tiles) \in Counts
    BY <1>0, <1>1, SizeWithout DEF Typed
<1>10. Typed(t, d)
    BY <1>1, <1>2, <1>5, <1>6, <1>7, <1>8, <1>9 DEF Typed
<1>11. PICK a \in AuditState : a = AuditEnd(d, s.events, s.seed)
    BY <1>1, AuditOfDevice
<1>12. AuditEnd(d, t.events, t.seed) = AuditEvent(a, e, d, s.seed)
    BY <1>1, <1>2, <1>4, <1>11, AuditMore DEF Typed
<1>13. PICK own \in OwnState : own = Own(s, d)
    BY <1>1, OwnTyped
<1>14. PICK new \in OwnState : new = Own(t, d)
    BY <1>10, OwnTyped
<1>15. Tracks(a, own, c)
    BY <1>1, <1>11, <1>13
<1>16. /\ new.rack = (IF s.me = p THEN Without(own.rack, e.tiles) ELSE own.rack)
       /\ new.pool = (IF s.me = p THEN own.pool ELSE Forget(own.pool, e.tiles))
       /\ new.draws = own.draws /\ new.promises = own.promises
       /\ new.exchanges = own.exchanges /\ new.open = own.open
       /\ own.rack = s.rack
    BY <1>2, <1>4, <1>13, <1>14 DEF Own
<1>17. Tracks(AuditEvent(a, e, d, s.seed), new, c)
    <2>1. CASE p = d
        BY <1>0, <1>4, <1>8, <1>15, <1>16, <2>1, TrackPlay
    <2>2. CASE p # d
        BY <1>4, <1>8, <1>15, <1>16, <2>2, TrackForget
    <2> QED
        BY <2>1, <2>2
<1>18. Tiles(t, d, c)
    BY <1>10, <1>12, <1>14, <1>17 DEF Tiles
<1> QED
    <2>1. Ends(t.events, s.events, e) /\ s.events \in Seq(Event)
        BY <1>1, <1>2 DEF Ends, Typed
    <2>2. LastIs(t)
        BY <1>3, <1>4, <2>1 DEF LastIs
    <2> QED
        BY <1>2, <1>3, <1>6, <1>18, <2>2 DEF Outcome

LEMMA ExchangeTiles ==
    ASSUME NEW s, NEW d \in Player, NEW p \in Player, NEW c \in BOOLEAN, NEW mv,
           NEW t, t = Exchange(s, mv, p), Tiles(s, d, c), mv.type = "Exchange", Ready(s, d, mv, p)
    PROVE  Tiles(t, d, c) /\ Outcome(s, t, d, mv, p)
<1>0. /\ mv.masked \in Masked
      /\ p = d => /\ s.me = d /\ Holds(s.rack, mv.masked.tiles)
                  /\ mv.masked.key = <<s.seed, s.my_exchanges>>
    BY DEF Ready
<1>1. Typed(s, d) /\ Tracks(AuditEnd(d, s.events, s.seed), Own(s, d), c)
    BY DEF Tiles
<1>2. PICK given \in Counts : given = mv.masked.tiles
    BY <1>0 DEF Masked
<1> DEFINE e == [type |-> "Exchanged", player |-> p, masked |-> mv.masked]
<1>3. /\ DOMAIN t = Fields /\ t.seed = s.seed /\ t.me = s.me
      /\ t.rack = (IF s.me = p THEN Without(s.rack, given) ELSE s.rack)
      /\ t.unseen = (IF s.me = p THEN Both(s.unseen, given) ELSE s.unseen)
      /\ t.my_exchanges = (IF s.me = p THEN s.my_exchanges + 1 ELSE s.my_exchanges)
      /\ t.bag = s.bag + Size(given) /\ t.draws = s.draws /\ t.published = s.published
      /\ t.reveals = s.reveals
      /\ t.seed_hash = s.seed_hash /\ t.events = Append(s.events, e)
      /\ t.index = s.index /\ t.last_play = None /\ t.must_forfeit = s.must_forfeit
      /\ t.verdict = s.verdict /\ t.finished = s.finished /\ t.ending = s.ending
      /\ t.pending = [s.pending EXCEPT ![p] = Size(given)]
    BY <1>1, <1>2 DEF Exchange, Typed, Fields
<1>4. e \in SwapEvent /\ e \in Event /\ e.player = p /\ e.masked = mv.masked
    BY <1>0 DEF SwapEvent, Event
<1> HIDE DEF e
<1>5. t.events \in Seq(Event)
    BY <1>1, <1>3, <1>4, AppendProperties DEF Typed
<1>6. /\ t.pending \in [Player -> Nat] /\ t.bag \in Nat /\ t.my_exchanges \in Nat
      /\ t.pending[Other(p)] = s.pending[Other(p)]
    <2>1. Size(given) \in Nat /\ s.bag \in Nat /\ s.my_exchanges \in Nat
          /\ s.pending \in [Player -> Nat]
        BY <1>1, SizeNat DEF Typed
    <2> QED
        BY <1>3, <2>1, Others
<1>7. Both(s.unseen, given) \in Counts
    BY <1>1, SizeBoth DEF Typed
<1>8. (s.me = p) <=> (p = d)
    BY <1>0, <1>1 DEF Typed, Nobody, Player
<1>9. p = d => Without(s.rack, given) \in Counts
    BY <1>0, <1>1, <1>2, SizeWithout DEF Typed
<1>10. Typed(t, d)
    BY <1>1, <1>3, <1>5, <1>6, <1>7, <1>8, <1>9 DEF Typed
<1>11. PICK a \in AuditState : a = AuditEnd(d, s.events, s.seed)
    BY <1>1, AuditOfDevice
<1>12. AuditEnd(d, t.events, t.seed) = AuditEvent(a, e, d, s.seed)
    BY <1>1, <1>3, <1>4, <1>11, AuditMore DEF Typed
<1>13. PICK own \in OwnState : own = Own(s, d)
    BY <1>1, OwnTyped
<1>14. PICK new \in OwnState : new = Own(t, d)
    BY <1>10, OwnTyped
<1>15. Tracks(a, own, c)
    BY <1>1, <1>11, <1>13
<1>16. /\ own.rack = s.rack /\ own.pool = s.unseen /\ own.exchanges = s.my_exchanges
       /\ own.draws = s.draws /\ own.promises = s.published
       /\ own.open = (s.reveals[Other(d)] = None)
    BY <1>13 DEF Own
<1>17. /\ new.rack = t.rack /\ new.pool = t.unseen /\ new.exchanges = t.my_exchanges
       /\ new.draws = t.draws /\ new.promises = t.published
       /\ new.open = (t.reveals[Other(d)] = None)
    BY <1>14 DEF Own
<1>18. Tracks(AuditEnd(d, t.events, t.seed), new, c)
    <2>1. CASE p = d
        <3>1. /\ new.rack = Without(own.rack, e.masked.tiles)
              /\ new.pool = Both(own.pool, e.masked.tiles)
              /\ new.exchanges = own.exchanges + 1 /\ new.draws = own.draws
              /\ new.promises = own.promises /\ new.open = own.open
            BY <1>2, <1>3, <1>4, <1>8, <1>16, <1>17, <2>1
        <3>2. e.masked.key = <<s.seed, own.exchanges>> /\ Holds(own.rack, e.masked.tiles)
            BY <1>0, <1>4, <1>16, <2>1
        <3>3. Tracks(AuditEvent(a, e, d, s.seed), new, c)
            BY <1>4, <1>15, <2>1, <3>1, <3>2, TrackSwap
        <3> QED
            BY <1>12, <3>3
    <2>2. CASE p # d
        <3>1. AuditEnd(d, t.events, t.seed) = a
            BY <1>1, <1>3, <1>4, <1>11, <2>2, AuditElsewhere DEF Typed
        <3>2. new = own
            BY <1>3, <1>8, <1>13, <1>14, <2>2 DEF Own
        <3> QED
            BY <1>15, <3>1, <3>2
    <2> QED
        BY <2>1, <2>2
<1>19. Tiles(t, d, c)
    BY <1>10, <1>14, <1>18 DEF Tiles
<1> QED
    BY <1>3, <1>6, <1>19 DEF Outcome

\* A player opens its rack: whoever watches takes those tiles out of its pool.
Unveiled(s, mv, p) ==
    [s EXCEPT !.reveals[p] = Some([seed |-> mv.seed, rack |-> mv.rack]),
              !.unseen = IF s.me = p THEN @ ELSE Forget(@, mv.rack)]

LEMMA UnveiledTiles ==
    ASSUME NEW s, NEW d \in Player, NEW p \in Player, NEW c \in BOOLEAN, NEW mv,
           NEW t, t = Unveiled(s, mv, p), Tiles(s, d, c), mv.seed \in Seed, mv.rack \in Counts,
           p = d => s.me = d
    PROVE  /\ Tiles(t, d, c)
           /\ t.reveals[p] = Some([seed |-> mv.seed, rack |-> mv.rack])
           /\ t.reveals[Other(p)] = s.reveals[Other(p)]
           /\ t.pending = s.pending /\ t.last_play = s.last_play /\ t.me = s.me
           /\ t.index = s.index /\ t.must_forfeit = s.must_forfeit
           /\ t.verdict = s.verdict /\ t.finished = s.finished /\ t.ending = s.ending
           /\ t.seed_hash = s.seed_hash /\ t.events = s.events /\ t.seed = s.seed
           /\ t.rack = s.rack
<1>1. Typed(s, d) /\ Tracks(AuditEnd(d, s.events, s.seed), Own(s, d), c)
    BY DEF Tiles
<1> DEFINE o == [seed |-> mv.seed, rack |-> mv.rack]
<1>2. /\ DOMAIN t = Fields /\ t.seed = s.seed /\ t.me = s.me /\ t.rack = s.rack
      /\ t.unseen = (IF s.me = p THEN s.unseen ELSE Forget(s.unseen, mv.rack))
      /\ t.bag = s.bag /\ t.draws = s.draws /\ t.published = s.published
      /\ t.my_exchanges = s.my_exchanges
      /\ t.reveals = [s.reveals EXCEPT ![p] = Some(o)]
      /\ t.seed_hash = s.seed_hash /\ t.events = s.events
      /\ t.index = s.index /\ t.last_play = s.last_play /\ t.must_forfeit = s.must_forfeit
      /\ t.verdict = s.verdict /\ t.finished = s.finished /\ t.ending = s.ending
      /\ t.pending = s.pending
    BY <1>1 DEF Unveiled, Typed, Fields
<1>3. o \in Opened
    BY DEF Opened
<1> HIDE DEF o
<1>4. /\ t.reveals \in [Player -> {None} \cup {Some(x) : x \in Opened}]
      /\ t.reveals[p] = Some(o) /\ t.reveals[Other(p)] = s.reveals[Other(p)]
    BY <1>1, <1>2, <1>3, Others DEF Typed
<1>5. Forget(s.unseen, mv.rack) \in Counts
    BY <1>1, SizeForget DEF Typed
<1>6. (s.me = p) <=> (p = d)
    BY <1>1 DEF Typed, Nobody, Player
<1>7. Typed(t, d)
    BY <1>1, <1>2, <1>4, <1>5 DEF Typed
<1>8. PICK own : own = Own(s, d)
    OBVIOUS
<1>9. PICK new : new = Own(t, d)
    OBVIOUS
<1>10. /\ new.rack = own.rack /\ new.draws = own.draws /\ new.promises = own.promises
       /\ new.exchanges = own.exchanges
       /\ new.open => own.open /\ new.pool = own.pool
    <2>1. CASE p = d
        <3>1. t.reveals[Other(d)] = s.reveals[Other(d)]
            BY <1>1, <1>2, <2>1, Others DEF Typed
        <3> QED
            BY <1>2, <1>6, <1>8, <1>9, <2>1, <3>1 DEF Own
    <2>2. CASE p # d
        <3>1. p = Other(d)
            BY <2>2 DEF Player, Other
        <3>2. t.reveals[Other(d)] = Some(o)
            BY <1>1, <1>2, <3>1, Others DEF Typed
        <3>3. ~new.open
            <4>1. t.reveals[Other(d)] # None
                BY <3>2 DEF Some, None
            <4>2. new.open = (t.reveals[Other(d)] = None)
                BY ONLY <1>9 DEF Own
            <4> QED
                BY ONLY <4>1, <4>2
        <3> QED
            BY <1>2, <1>8, <1>9, <3>3 DEF Own
    <2> QED
        BY <2>1, <2>2
<1>11. Tracks(AuditEnd(d, s.events, s.seed), own, c)
    BY <1>1, <1>8
<1>12. Tracks(AuditEnd(d, s.events, s.seed), new, c)
    BY <1>10, <1>11 DEF Tracks, Tallies
<1>13. Tiles(t, d, c)
    BY <1>2, <1>7, <1>9, <1>12 DEF Tiles
<1> QED
    BY <1>2, <1>4, <1>13 DEF o

\* The end of an entry: whether the game ends, and one entry more.
Closed(s, p) == [CheckEnding(s, p) EXCEPT !.index = @ + 1]

LEMMA ClosedTiles ==
    ASSUME NEW s, NEW d \in Player, NEW p \in Player, NEW c \in BOOLEAN, NEW t,
           t = Closed(s, p), Tiles(s, d, c)
    PROVE  /\ Tiles(t, d, c) /\ SameTiles(s, t)
           /\ t.index = s.index + 1 /\ t.last_play = s.last_play
           /\ t.must_forfeit = s.must_forfeit /\ t.verdict = s.verdict
           /\ t.finished = s.finished
           /\ s.ending => t.ending
<1>1. Typed(s, d)
    BY DEF Tiles
<1>2. PICK x : x = CheckEnding(s, p)
    OBVIOUS
<1>3. \/ x = s
      \/ ~s.ending /\ x = [s EXCEPT !.ending = TRUE]
      \/ ~s.ending /\ x = [s EXCEPT !.ending = TRUE, !.went_out = p]
    BY <1>2 DEF CheckEnding
<1>4. /\ DOMAIN x = Fields /\ SameTiles(s, x)
      /\ x.index = s.index /\ x.last_play = s.last_play
      /\ x.must_forfeit = s.must_forfeit /\ x.verdict = s.verdict
      /\ x.finished = s.finished /\ (s.ending => x.ending)
    <2>1. CASE x = s
        BY <1>1, <2>1 DEF Typed, SameTiles
    <2>2. CASE ~s.ending /\ x = [s EXCEPT !.ending = TRUE]
        BY <1>1, <2>2 DEF Typed, Fields, SameTiles
    <2>3. CASE ~s.ending /\ x = [s EXCEPT !.ending = TRUE, !.went_out = p]
        BY <1>1, <2>3 DEF Typed, Fields, SameTiles
    <2> QED
        BY <1>3, <2>1, <2>2, <2>3
<1>5. /\ DOMAIN t = Fields /\ SameTiles(s, t)
      /\ t.index = s.index + 1 /\ t.last_play = s.last_play
      /\ t.must_forfeit = s.must_forfeit /\ t.verdict = s.verdict
      /\ t.finished = s.finished /\ t.ending = x.ending
    BY <1>2, <1>4 DEF Fields, SameTiles, Closed
<1>6. Tiles(t, d, c)
    BY <1>5, TilesAlike
<1> QED
    BY <1>4, <1>5, <1>6

LEMMA IdleTiles ==
    ASSUME NEW s, NEW d \in Player, NEW c \in BOOLEAN, NEW t, NEW mv, Tiles(s, d, c),
           \/ t = Toss(s, mv) \/ t = s \/ t = Scoreless(s) \/ t = Forfeit(s)
    PROVE  /\ Tiles(t, d, c) /\ SameTiles(s, t)
           /\ t.index = s.index /\ t.verdict = s.verdict /\ t.finished = s.finished
           /\ t.ending = s.ending
           /\ t = Toss(s, mv) \/ t = s => t.last_play = s.last_play
           /\ t = Scoreless(s) \/ t = Forfeit(s) => t.last_play = None
           /\ t = Toss(s, mv) \/ t = s \/ t = Scoreless(s) => t.must_forfeit = s.must_forfeit
           /\ t = Forfeit(s) => t.must_forfeit = Nobody
<1>1. Typed(s, d)
    BY DEF Tiles
<1> DEFINE Fine ==
        /\ DOMAIN t = Fields /\ SameTiles(s, t)
        /\ t.index = s.index /\ t.verdict = s.verdict /\ t.finished = s.finished
        /\ t.ending = s.ending
<1>2. t = Toss(s, mv) => Fine /\ t.last_play = s.last_play /\ t.must_forfeit = s.must_forfeit
    BY <1>1 DEF Typed, Fields, SameTiles, Toss
<1>3. t = s => Fine /\ t.last_play = s.last_play /\ t.must_forfeit = s.must_forfeit
    BY <1>1 DEF Typed, SameTiles
<1>5. t = Scoreless(s) => Fine /\ t.last_play = None /\ t.must_forfeit = s.must_forfeit
    BY <1>1 DEF Typed, Fields, SameTiles, Scoreless
<1>6. t = Forfeit(s) => Fine /\ t.last_play = None /\ t.must_forfeit = Nobody
    BY <1>1 DEF Typed, Fields, SameTiles, Scoreless, Forfeit
<1>4. Tiles(t, d, c)
    BY <1>2, <1>3, <1>5, <1>6, TilesAlike
<1> QED
    BY <1>2, <1>3, <1>4, <1>5, <1>6
-----------------------------------------------------------------------------
(* What a device may be asked to do next.                                    *)

Opening(s) == s.index < 4 => s.last_play = None /\ s.must_forfeit = Nobody

\* Between the two reveals only the second can follow.
Revealing(s) ==
    s.finished = "no" =>
        \A p \in Player : s.reveals[p] # None =>
            /\ ToMove(s) = Other(p) /\ s.pending[p] = 0 /\ s.must_forfeit = Nobody
            /\ s.last_play # None => s.last_play[1].by = ToMove(s)
            /\ s.ending /\ s.index > 3

Challenging(s) ==
    (\A p \in Player : s.reveals[p] = None) /\ s.last_play # None =>
        LastIs(s) /\ s.last_play[1].by = Other(ToMove(s))

LEMMA SettleTiles ==
    ASSUME NEW s, NEW d \in Player, NEW c \in BOOLEAN, NEW t, t = Settle(s), Tiles(s, d, c),
           s.verdict = None, s.finished = "no"
    PROVE  /\ Tiles(t, d, c) /\ SameTiles(s, t)
           /\ t.index = s.index /\ t.last_play = s.last_play
           /\ t.must_forfeit = s.must_forfeit /\ t.ending = s.ending
           /\ Concluded(t)
<1>1. Typed(s, d)
    BY DEF Tiles
<1>2. CASE \E p \in Player : s.reveals[p] = None
    <2>1. t = s
        BY <1>2 DEF Settle
    <2> QED
        BY <1>2, <2>1 DEF SameTiles, Concluded
<1>3. CASE ~\E p \in Player : s.reveals[p] = None
    <2>1. PICK verdict, final : verdict = Verdict(s) /\ final = FinalScores(s)
        OBVIOUS
    <2>2. t = Decided(s, verdict, final)
        BY <1>3, <2>1 DEF Settle
    <2> DEFINE passed(p) == verdict[p] = "none"
               won == CASE passed(Initiator) /\ passed(Claimer) -> Winner(final[1], final[2])
                        [] passed(Initiator) /\ ~passed(Claimer) -> "initiator"
                        [] ~passed(Initiator) /\ passed(Claimer) -> "claimer"
                        [] ~passed(Initiator) /\ ~passed(Claimer) -> "draw"
    <2>3. t = [s EXCEPT !.verdict = Some(verdict),
                        !.final = IF passed(Initiator) /\ passed(Claimer)
                                  THEN Some(final) ELSE None,
                        !.finished = won]
        BY <2>2 DEF Decided
    <2>4. /\ won # "no"
          /\ won = "initiator" => passed(Initiator)
          /\ won = "claimer" => passed(Claimer)
        BY DEF Winner
    <2> HIDE DEF passed, won
    <2>5. /\ DOMAIN t = Fields /\ SameTiles(s, t)
          /\ t.index = s.index /\ t.last_play = s.last_play
          /\ t.must_forfeit = s.must_forfeit /\ t.ending = s.ending
          /\ t.verdict = Some(verdict) /\ t.finished = won
        BY <1>1, <2>3 DEF Typed, Fields, SameTiles
    <2>6. Tiles(t, d, c)
        BY <2>5, TilesAlike
    <2>7. Verdict(t) = verdict
        BY <2>1, <2>5 DEF Verdict, SameTiles
    <2>8. Concluded(t)
        BY <1>3, <2>4, <2>5, <2>7 DEF passed, Concluded, SameTiles
    <2> QED
        BY <2>5, <2>6, <2>8
<1> QED
    BY <1>2, <1>3

Control(s, d) ==
    /\ s.index \in Nat
    /\ s.index > d => s.me = d
    /\ s.index = 0 => s.pending[Claimer] = 0
    /\ s.index > 0 => s.pending[ToMove(s)] = 0
    /\ s.must_forfeit \in {Nobody, ToMove(s)}
    /\ Opening(s) /\ Concluded(s) /\ Revealing(s) /\ Challenging(s)
    /\ \A p \in Player : s.reveals[p] # None => s.seed_hash[p] = Some(s.reveals[p][1].seed)

LEMMA Turns ==
    ASSUME NEW n \in Nat
    PROVE  /\ n % 2 \in Player /\ (n + 1) % 2 = Other(n % 2)
           /\ n = 0 => n % 2 = 0
           /\ n = 1 => n % 2 = 1
    BY DEF Player, Other

LEMMA ValidFacts ==
    ASSUME NEW s, NEW d \in Player, NEW p, NEW mv,
           Typed(s, d), Control(s, d), ValidMove(s, mv, p), mv.type \in MoveTypes
    PROVE  /\ s.finished = "no" /\ p = ToMove(s) /\ p \in Player
           /\ (mv.promise # None) = s.owed[p] /\ (s.me = p => mv.promise = OwedCommitment(s))
           /\ s.index < 2 => mv.type = "Commit"
           /\ s.index = 2 => mv.type = "Toss"
           /\ mv.type = "Commit" => s.index < 2
           /\ mv.type = "Toss" => s.index = 2
           /\ mv.type = "Yield" => s.index = 3
           /\ mv.type \in {"Place", "Exchange", "Pass", "Challenge", "Reveal", "Forfeit"} => s.index > 2
           /\ mv.type # "Forfeit" => s.must_forfeit = Nobody
           /\ mv.type = "Challenge" => s.last_play # None /\ s.last_play[1].by = Other(p)
           /\ \A q \in Player : s.reveals[q] # None => q = Other(p) /\ mv.type = "Reveal"
           /\ mv.type = "Reveal" => s.ending /\ s.seed_hash[p] = Some(mv.seed)
<1>1. s.finished = "no" /\ p = ToMove(s)
    BY DEF ValidMove
<1>2. p \in Player /\ s.index \in Nat
    BY <1>1, Turns DEF Control, ToMove
<1>3. CASE mv.type = "Challenge"
    <2>1. CanChallenge(s, p)
        BY <1>3 DEF ValidMove
    <2>2. s.must_forfeit = Nobody /\ s.last_play # None /\ s.last_play[1].by # p
        BY <2>1 DEF CanChallenge
    <2>3. s.index > 3
        BY <1>2, <2>2 DEF Control, Opening
    <2>4. \A q \in Player : s.reveals[q] = None
        BY <1>1, <2>2 DEF Control, Revealing
    <2>5. s.last_play[1].by = Other(p)
        BY <1>1, <2>2, <2>4 DEF Control, Challenging
    <2> QED
        BY <1>1, <1>2, <1>3, <2>2, <2>3, <2>4, <2>5 DEF ValidMove
<1>4. CASE mv.type # "Challenge"
    <2>2. /\ mv.type \in {"Place", "Exchange", "Pass"} => Expected(s) = "Play"
          /\ mv.type \in {"Commit", "Toss", "Yield", "Forfeit", "Reveal"} => Expected(s) = mv.type
          /\ mv.type = "Reveal" => s.seed_hash[p] = Some(mv.seed)
        BY <1>4 DEF ValidMove
    <2>3. CASE s.must_forfeit = p
        <3>1. Expected(s) = "Forfeit"
            BY <1>1, <2>3 DEF Expected
        <3>2. mv.type = "Forfeit"
            BY <1>4, <2>2, <3>1 DEF MoveTypes
        <3>3. s.index > 3
            BY <1>2, <2>3 DEF Control, Opening, Nobody, Player
        <3>4. \A q \in Player : s.reveals[q] = None
            BY <1>1, <1>2, <2>3 DEF Control, Revealing, Nobody, Player
        <3> QED
            BY <1>1, <1>2, <3>2, <3>3, <3>4 DEF ValidMove
    <2>4. CASE s.must_forfeit # p
        <3>1. s.must_forfeit = Nobody
            BY <1>1, <2>4 DEF Control
        <3>2. Expected(s) =
                 CASE s.index \in {0, 1} -> "Commit"
                   [] s.index = 2 -> "Toss"
                   [] s.index = 3 /\ s.first = Initiator -> "Yield"
                   [] s.index > 2 /\ ~(s.index = 3 /\ s.first = Initiator) ->
                          IF s.ending THEN "Reveal" ELSE "Play"
            BY <1>1, <2>4 DEF Expected
        <3>3. /\ s.index < 2 => Expected(s) = "Commit"
              /\ s.index = 2 => Expected(s) = "Toss"
              /\ s.index > 2 => Expected(s) \in {"Yield", "Reveal", "Play"}
              /\ s.index > 3 => Expected(s) \in {"Reveal", "Play"}
              /\ Expected(s) = "Reveal" => s.ending
              /\ s.index > 3 /\ s.ending => Expected(s) = "Reveal"
            BY <1>2, <3>2
        <3>4. \A q \in Player : s.reveals[q] # None => q = Other(p) /\ s.ending /\ s.index > 3
            <4>1. ASSUME NEW q \in Player, s.reveals[q] # None
                  PROVE  ToMove(s) = Other(q) /\ s.ending /\ s.index > 3
                BY <1>1, <4>1 DEF Control, Revealing
            <4>2. \A q \in Player : p = Other(q) => q = Other(p)
                BY DEF Player, Other
            <4> QED
                BY <1>1, <4>1, <4>2
        <3> HIDE DEF Expected
        <3>5. \A q \in Player : s.reveals[q] # None => q = Other(p) /\ mv.type = "Reveal"
            BY <1>4, <2>2, <3>3, <3>4 DEF MoveTypes
        <3>6. /\ s.index < 2 => mv.type = "Commit"
              /\ s.index = 2 => mv.type = "Toss"
              /\ mv.type = "Commit" => s.index < 2
              /\ mv.type = "Toss" => s.index = 2
              /\ mv.type = "Yield" => s.index = 3
              /\ mv.type \in {"Place", "Exchange", "Pass", "Reveal", "Forfeit"} => s.index > 2
              /\ mv.type = "Reveal" => s.ending
            BY <1>2, <1>4, <2>2, <3>3 DEF MoveTypes
        <3> QED
            BY <1>1, <1>2, <1>4, <2>2, <3>1, <3>5, <3>6 DEF ValidMove
    <2> QED
        BY <2>3, <2>4
<1> QED
    BY <1>3, <1>4

\* What an entry carries, as a device reads it; of its own entries it knows more.
OwnEntry(s, mv) ==
    /\ mv.promise = OwedCommitment(s)
    /\ mv.type = "Place" => Holds(s.rack, mv.tiles)
    /\ mv.type = "Exchange" => /\ Holds(s.rack, mv.masked.tiles)
                               /\ mv.masked.key = <<s.seed, s.my_exchanges>>
    /\ mv.type = "Reveal" => mv.seed = s.seed /\ mv.rack = s.rack

Carries(s, d, mv, p) ==
    /\ mv.type \in MoveTypes /\ mv.nonce \in Nonce
    /\ mv.promise = None \/ \E h \in Promise : mv.promise = Some(h)
    /\ mv.type = "Commit" => mv.seed \in Seed /\ ((mv.seed = s.seed) <=> (p = d))
    /\ mv.type = "Place" => mv.tiles \in Counts
    /\ mv.type = "Exchange" => mv.masked \in Masked
    /\ mv.type = "Reveal" => mv.seed \in Seed /\ mv.rack \in Counts
    /\ p = d => OwnEntry(s, mv)

LEMMA SettledTiles ==
    ASSUME NEW s, NEW d \in Player, NEW p \in Player, NEW c \in BOOLEAN, NEW mv,
           NEW t, t = Settled(s, mv), Tiles(s, d, c), Control(s, d),
           Carries(s, d, mv, p), ValidMove(s, mv, p)
    PROVE  /\ Tiles(t, d, c) /\ Same(s, t) /\ t.published = s.published
           /\ p = d => t.rack = s.rack
           /\ t.pending[p] = s.pending[p]
           /\ mv.type # "Challenge" => t = s
           /\ t.must_forfeit \in {s.must_forfeit, Other(p)}
<1>1. Typed(s, d) /\ mv.type \in MoveTypes
    BY DEF Tiles, Carries
<1>2. CASE t = s
    BY <1>2 DEF Same
<1>3. CASE t # s
    <2>1. mv.type = "Challenge" /\ t = Retract(s, s.last_play[1])
        BY <1>3 DEF Settled
    <2>2. PICK play : play = s.last_play[1]
        OBVIOUS
    <2>3. /\ s.last_play # None /\ play.by = Other(p) /\ s.index > 2
          /\ \A q \in Player : s.reveals[q] = None
        BY <1>1, <2>1, <2>2, ValidFacts
    <2>4. LastIs(s)
        BY <2>3 DEF Control, Challenging
    <2>5. PICK front \in Seq(Event), e \in PlayEvent :
              Ends(s.events, front, e) /\ e.type = "Played" /\ e.player = play.by
              /\ e.tiles = play.tiles
        BY <2>2, <2>4 DEF LastIs
    <2>6. s.me = d
        BY <2>3 DEF Control, Player
    <2>9. t = Retract(s, play)
        BY <2>1, <2>2
    <2>7. /\ Tiles(t, d, c) /\ Same(s, t) /\ t.published = s.published
          /\ t.pending[Other(play.by)] = s.pending[Other(play.by)]
          /\ t.must_forfeit = play.by /\ (play.by # d => t.rack = s.rack)
        BY <2>5, <2>6, <2>9, RetractTiles
    <2>8. t.pending[p] = s.pending[p]
        BY <1>1, <2>3, <2>7, Others DEF Typed
    <2> QED
        BY <2>1, <2>3, <2>7, <2>8, Others
<1> QED
    BY <1>2, <1>3

\* Who is dealt next has committed, or is owed nothing.
LEMMA NextMayDraw ==
    ASSUME NEW s, NEW d \in Player, NEW p \in Player, NEW c \in BOOLEAN, NEW mv,
           NEW x, x = Settled(s, mv), Tiles(s, d, c), Control(s, d),
           Carries(s, d, mv, p), ValidMove(s, mv, p)
    PROVE  MayDraw(x, d, Other(p))
<1>1. Typed(s, d) /\ mv.type \in MoveTypes
    BY DEF Tiles, Carries
<1>2. Same(s, x) /\ (mv.type # "Challenge" => x = s)
    BY SettledTiles
<1>3. /\ p = ToMove(s) /\ s.index \in Nat /\ s.reveals[p] = None
      /\ s.index < 2 => mv.type = "Commit"
    BY <1>1, ValidFacts, Others DEF Control
<1>4. PICK o \in Player : o = Other(p) /\ o # p /\ Other(o) = p
    BY Others
<1>5. CASE s.index > d
    BY <1>2, <1>3, <1>4, <1>5 DEF MayDraw, Control, Same
<1>6. CASE s.index <= d /\ o = d
    <2>1. s.index = 0 /\ o = Claimer
        BY <1>3, <1>4, <1>6 DEF Player, Other, ToMove, Claimer
    <2>2. x = s
        BY <1>2, <1>3, <2>1
    <2>3. s.pending[Claimer] = 0
        BY <2>1 DEF Control
    <2> QED
        BY <1>3, <1>4, <2>1, <2>2, <2>3 DEF MayDraw
<1> QED
    BY <1>3, <1>4, <1>5, <1>6 DEF MayDraw, Player

LEMMA DealtTiles ==
    ASSUME NEW s, NEW d \in Player, NEW p \in Player, NEW c \in BOOLEAN, NEW mv,
           NEW x, NEW t, x = Settled(s, mv), t = Dealt(x, mv, p), Tiles(s, d, c), Control(s, d),
           Carries(s, d, mv, p), ValidMove(s, mv, p)
    PROVE  /\ Tiles(t, d, c) /\ Same(s, t)
           /\ p = d => t.rack = s.rack
           /\ t.pending[p] = s.pending[p] /\ t.pending[Other(p)] = 0
           /\ t.must_forfeit \in {s.must_forfeit, Other(p)}
           /\ mv.type # "Challenge" => t.must_forfeit = s.must_forfeit /\ t.ending = s.ending
           /\ mv.type # "Challenge" /\ s.pending[Other(p)] = 0 =>
                  \A q \in Player, seed \in Seed :
                      q # p => AuditEnd(q, t.events, seed) = AuditEnd(q, s.events, seed)
<1>1. Typed(s, d) /\ mv.type \in MoveTypes /\ mv.nonce \in Nonce
    BY DEF Tiles, Carries
<1>2. /\ Tiles(x, d, c) /\ Same(s, x) /\ x.published = s.published
      /\ p = d => x.rack = s.rack
      /\ x.pending[p] = s.pending[p]
      /\ mv.type # "Challenge" => x = s
      /\ x.must_forfeit \in {s.must_forfeit, Other(p)}
    BY SettledTiles
<1>3. /\ p = ToMove(s) /\ s.index \in Nat
      /\ (mv.promise # None) = s.owed[p] /\ s.reveals[p] = None
      /\ s.index < 2 => mv.type = "Commit"
    BY <1>1, ValidFacts, Others DEF Control
<1>4. Other(p) \in Player /\ Other(p) # p /\ Other(Other(p)) = p
    BY Others
<1>15. PICK nonce \in Nonce : nonce = mv.nonce
    BY <1>1
<1>6. PICK y : y = Refill(x, Other(p), nonce)
    OBVIOUS
<1>7. MayDraw(x, d, Other(p))
    BY NextMayDraw
<1>8. /\ Tiles(y, d, c) /\ Same(x, y)
      /\ y.pending[Other(p)] = 0 /\ y.pending[p] = x.pending[p]
      /\ y.must_forfeit = x.must_forfeit /\ y.ending = x.ending
      /\ y.published = x.published
      /\ Other(p) # d => y.rack = x.rack
      /\ x.pending[Other(p)] = 0 => y.events = x.events
    <2>1. Tiles(y, d, c) /\ AfterRefill(x, y, d, Other(p))
        BY <1>2, <1>4, <1>6, <1>7, RefillTiles
    <2> QED
        BY <1>4, <2>1 DEF AfterRefill
<1>9. t = Publish(y, p, mv.promise)
    BY <1>6, <1>15 DEF Dealt
<1>10. p = d => \/ mv.promise = None
                \/ y.me = d /\ mv.promise = Some(RackCommitment(y.seed, y.published, y.rack))
    <2>1. ASSUME p = d, mv.promise # None
          PROVE  y.me = d /\ mv.promise = Some(RackCommitment(y.seed, y.published, y.rack))
        <3>1. mv.promise = OwedCommitment(s)
            BY <2>1 DEF Carries, OwnEntry
        <3>2. s.me # Nobody /\ mv.promise = Some(RackCommitment(s.seed, s.published, s.rack))
            BY <2>1, <3>1 DEF OwedCommitment
        <3>3. s.me = d
            BY <1>1, <3>2 DEF Typed
        <3>4. y.me = s.me /\ y.seed = s.seed /\ y.published = s.published /\ y.rack = s.rack
            BY <1>2, <1>4, <1>8, <2>1 DEF Same
        <3> QED
            BY <3>2, <3>3, <3>4
    <2> QED
        BY <2>1
<1>11. mv.promise = None \/ (\E h \in Promise : mv.promise = Some(h))
    BY DEF Carries
<1>12. /\ Tiles(t, d, c) /\ Same(y, t)
       /\ t.pending = y.pending /\ t.must_forfeit = y.must_forfeit
       /\ t.ending = y.ending /\ t.rack = y.rack
       /\ \A q \in Player, seed \in Seed :
              q # p => AuditEnd(q, t.events, seed) = AuditEnd(q, y.events, seed)
    BY <1>8, <1>9, <1>10, <1>11, PublishTiles
<1>13. t.pending[p] = s.pending[p] /\ t.pending[Other(p)] = 0
    BY <1>2, <1>8, <1>12
<1>14. Same(s, t)
    BY <1>2, <1>8, <1>12 DEF Same
<1> QED
    BY <1>2, <1>4, <1>8, <1>12, <1>13, <1>14

LEMMA DoneTiles ==
    ASSUME NEW s, NEW d \in Player, NEW p \in Player, NEW c \in BOOLEAN, NEW mv,
           NEW t, t = Done(s, mv, p), Tiles(s, d, c), Ready(s, d, mv, p)
    PROVE  Tiles(t, d, c) /\ Outcome(s, t, d, mv, p)
<1>1. CASE mv.type = "Commit"
    <2>1. t = Commit(s, mv, p)
        BY <1>1 DEF Done
    <2> QED
        BY <1>1, <2>1, CommitTiles
<1>2. CASE mv.type = "Toss"
    <2>1. t = Toss(s, mv)
        BY <1>2 DEF Done
    <2> QED
        BY <1>2, <2>1, IdleTiles DEF Outcome, SameTiles
<1>3. CASE mv.type = "Yield"
    <2>1. t = s
        BY <1>3 DEF Done
    <2> QED
        BY <1>3, <2>1 DEF Outcome
<1>4. CASE mv.type \in {"Pass", "Challenge"}
    <2>1. t = Scoreless(s)
        BY <1>4 DEF Done
    <2> QED
        <3>1. /\ Tiles(t, d, c) /\ SameTiles(s, t)
              /\ t.index = s.index /\ t.verdict = s.verdict /\ t.finished = s.finished
              /\ t.ending = s.ending
              /\ t.last_play = None /\ t.must_forfeit = s.must_forfeit
            BY <2>1, IdleTiles
        <3> QED
            BY <1>4, <3>1 DEF Outcome, SameTiles
<1>5. CASE mv.type = "Forfeit"
    <2>1. t = Forfeit(s)
        BY <1>5 DEF Done
    <2> QED
        BY <1>5, <2>1, IdleTiles DEF Outcome, SameTiles
<1>6. CASE mv.type = "Place"
    <2>1. t = Place(s, mv, p)
        BY <1>6 DEF Done
    <2> QED
        BY <1>6, <2>1, PlaceTiles
<1>7. CASE mv.type = "Exchange"
    <2>1. t = Exchange(s, mv, p)
        BY <1>7 DEF Done
    <2> QED
        BY <1>7, <2>1, ExchangeTiles
<1>8. CASE mv.type = "Reveal"
    <2>1. PICK r : r = Unveiled(s, mv, p)
        OBVIOUS
    <2>2. t = Settle(r)
        BY <1>8, <2>1 DEF Done, Reveal, Unveiled
    <2>3. /\ mv.seed \in Seed /\ mv.rack \in Counts /\ (p = d => s.me = d)
          /\ s.verdict = None /\ s.finished = "no"
        BY <1>8 DEF Ready
    <2>4. /\ Tiles(r, d, c)
          /\ r.reveals[p] = Some([seed |-> mv.seed, rack |-> mv.rack])
          /\ r.reveals[Other(p)] = s.reveals[Other(p)]
          /\ r.pending = s.pending /\ r.last_play = s.last_play /\ r.me = s.me
          /\ r.index = s.index /\ r.must_forfeit = s.must_forfeit
          /\ r.verdict = s.verdict /\ r.finished = s.finished /\ r.ending = s.ending
          /\ r.seed_hash = s.seed_hash /\ r.events = s.events /\ r.seed = s.seed
          /\ r.rack = s.rack
        BY <2>1, <2>3, UnveiledTiles
    <2>5. /\ Tiles(t, d, c) /\ SameTiles(r, t)
          /\ t.index = r.index /\ t.last_play = r.last_play
          /\ t.must_forfeit = r.must_forfeit /\ t.ending = r.ending
          /\ Concluded(t)
        BY <2>2, <2>3, <2>4, SettleTiles
    <2> QED
        BY <1>8, <2>4, <2>5 DEF Outcome, SameTiles
<1> QED
    BY <1>1, <1>2, <1>3, <1>4, <1>5, <1>6, <1>7, <1>8 DEF Ready, MoveTypes

\* What is left of an entry for the audits.
Entered(s, t, d, mv, p) ==
    /\ t.index = s.index + 1 /\ t.seed = s.seed
    /\ IF mv.type = "Reveal"
       THEN /\ t.reveals[p] = Some([seed |-> mv.seed, rack |-> mv.rack])
            /\ t.reveals[Other(p)] = s.reveals[Other(p)]
            /\ t.seed_hash = s.seed_hash /\ t.seed_hash[p] = Some(mv.seed)
            /\ s.reveals[Other(p)] # None =>
                   \A seed \in Seed : AuditEnd(Other(p), t.events, seed)
                                          = AuditEnd(Other(p), s.events, seed)
            /\ p = d => t.rack = mv.rack /\ t.seed = mv.seed
       ELSE t.reveals = s.reveals /\ \A q \in Player : s.reveals[q] = None

\* What the stages of an entry leave behind, taken together.
Passage(s, t, d, mv, p) ==
    /\ t.index = s.index + 1 /\ t.seed = s.seed
    /\ t.me = IF mv.type = "Commit" /\ p = d THEN d ELSE s.me
    /\ IF mv.type = "Forfeit" THEN t.must_forfeit = Nobody
       ELSE t.must_forfeit \in {s.must_forfeit, Other(p)}
    /\ mv.type # "Challenge" /\ mv.type # "Forfeit" => t.must_forfeit = s.must_forfeit
    /\ mv.type # "Challenge" => (s.ending => t.ending)
    /\ t.pending[Other(p)] = 0
    /\ mv.type \notin {"Commit", "Place", "Exchange"} => t.pending[p] = s.pending[p]
    /\ mv.type # "Commit" => t.seed_hash = s.seed_hash
    /\ mv.type \in {"Exchange", "Pass", "Challenge", "Forfeit"} => t.last_play = None
    /\ mv.type \in {"Commit", "Toss", "Yield", "Reveal"} => t.last_play = s.last_play
    /\ mv.type = "Place" => t.last_play # None /\ t.last_play[1].by = p /\ LastIs(t)
    /\ IF mv.type = "Reveal"
       THEN /\ t.reveals[p] = Some([seed |-> mv.seed, rack |-> mv.rack])
            /\ t.reveals[Other(p)] = s.reveals[Other(p)]
            /\ p = d => t.rack = s.rack
            /\ Concluded(t)
            /\ s.pending[Other(p)] = 0 =>
                   \A seed \in Seed : AuditEnd(Other(p), t.events, seed)
                                          = AuditEnd(Other(p), s.events, seed)
       ELSE t.reveals = s.reveals /\ t.verdict = s.verdict /\ t.finished = s.finished

LEMMA ReadyFacts ==
    ASSUME NEW s, NEW d \in Player, NEW p \in Player, NEW c \in BOOLEAN, NEW mv,
           NEW y, y = Dealt(Settled(s, mv), mv, p), Tiles(s, d, c), Control(s, d),
           Carries(s, d, mv, p), ValidMove(s, mv, p)
    PROVE  Ready(y, d, mv, p)
<1>1. Typed(s, d) /\ mv.type \in MoveTypes
    BY DEF Tiles, Carries
<1>2. Same(s, y) /\ (p = d => y.rack = s.rack)
    BY DealtTiles
<1>3. /\ s.finished = "no" /\ s.reveals[p] = None
      /\ mv.type \in {"Place", "Exchange", "Pass", "Challenge", "Reveal", "Forfeit"} => s.index > 2
    BY <1>1, ValidFacts, Others
<1>4. mv.type \in {"Place", "Exchange", "Reveal"} => s.me = d
    BY <1>3 DEF Control, Player
<1>5. s.verdict = None
    BY <1>3 DEF Control, Concluded
<1>6. y.me = s.me /\ y.seed = s.seed /\ y.my_exchanges = s.my_exchanges
      /\ y.verdict = s.verdict /\ y.finished = s.finished
    BY <1>2 DEF Same
<1>7. mv.type = "Commit" => mv.seed \in Seed /\ ((mv.seed = y.seed) <=> (p = d))
    BY <1>6 DEF Carries
<1>8. mv.type = "Place" =>
          mv.tiles \in Counts /\ (p = d => y.me = d /\ Holds(y.rack, mv.tiles))
    BY <1>2, <1>4, <1>6 DEF Carries, OwnEntry
<1>9. mv.type = "Exchange" =>
          /\ mv.masked \in Masked
          /\ p = d => /\ y.me = d /\ Holds(y.rack, mv.masked.tiles)
                      /\ mv.masked.key = <<y.seed, y.my_exchanges>>
    BY <1>2, <1>4, <1>6 DEF Carries, OwnEntry
<1>10. mv.type = "Reveal" =>
          /\ mv.seed \in Seed /\ mv.rack \in Counts /\ (p = d => y.me = d)
          /\ y.verdict = None /\ y.finished = "no"
    BY <1>3, <1>4, <1>5, <1>6 DEF Carries
<1> QED
    BY <1>1, <1>7, <1>8, <1>9, <1>10 DEF Ready

LEMMA PassageFacts ==
    ASSUME NEW s, NEW d \in Player, NEW p \in Player, NEW c \in BOOLEAN, NEW mv,
           NEW t, t = ApplyMove(s, mv), Tiles(s, d, c), Control(s, d),
           Carries(s, d, mv, p), ValidMove(s, mv, p)
    PROVE  Tiles(t, d, c) /\ Passage(s, t, d, mv, p)
<1>0. Typed(s, d) /\ mv.type \in MoveTypes
    BY DEF Tiles, Carries
<1>1. p = ToMove(s)
    BY DEF ValidMove
<1>2. PICK x : x = Settled(s, mv)
    OBVIOUS
<1>3. PICK y : y = Dealt(x, mv, p)
    OBVIOUS
<1>4. PICK v : v = Done(y, mv, p)
    OBVIOUS
<1>5. t = Closed(v, p)
    BY <1>1, <1>2, <1>3, <1>4 DEF ApplyMove, Closed
<1>6. /\ Tiles(y, d, c) /\ Same(s, y)
      /\ p = d => y.rack = s.rack
      /\ y.pending[p] = s.pending[p] /\ y.pending[Other(p)] = 0
      /\ y.must_forfeit \in {s.must_forfeit, Other(p)}
      /\ mv.type # "Challenge" => y.must_forfeit = s.must_forfeit /\ y.ending = s.ending
      /\ mv.type # "Challenge" /\ s.pending[Other(p)] = 0 =>
             \A q \in Player, seed \in Seed :
                 q # p => AuditEnd(q, y.events, seed) = AuditEnd(q, s.events, seed)
    BY <1>2, <1>3, DealtTiles
<1>7. Ready(y, d, mv, p)
    BY <1>2, <1>3, ReadyFacts
<1>8. Tiles(v, d, c) /\ Outcome(y, v, d, mv, p)
    BY <1>4, <1>6, <1>7, DoneTiles
<1>9. /\ Tiles(t, d, c) /\ SameTiles(v, t)
      /\ t.index = v.index + 1 /\ t.last_play = v.last_play
      /\ t.must_forfeit = v.must_forfeit /\ t.verdict = v.verdict
      /\ t.finished = v.finished /\ (v.ending => t.ending)
    BY <1>5, <1>8, ClosedTiles
<1>10. LastIs(v) => LastIs(t)
    BY <1>9 DEF LastIs, SameTiles
<1>11. Concluded(v) => Concluded(t)
    <2>1. Verdict(t) = Verdict(v)
        BY <1>9 DEF Verdict, SameTiles
    <2> QED
        BY <1>9, <2>1 DEF Concluded, SameTiles
<1>12. Passage(s, t, d, mv, p)
    <2>1. Other(p) \in Player /\ Other(p) # p
        BY Others
    <2>2. /\ t.index = s.index + 1 /\ t.seed = s.seed
          /\ t.me = (IF mv.type = "Commit" /\ p = d THEN d ELSE s.me)
          /\ t.pending[Other(p)] = 0
          /\ mv.type \notin {"Commit", "Place", "Exchange"} => t.pending[p] = s.pending[p]
          /\ mv.type # "Commit" => t.seed_hash = s.seed_hash
        BY <1>6, <1>8, <1>9 DEF Outcome, SameTiles, Same
    <2>3. /\ IF mv.type = "Forfeit" THEN t.must_forfeit = Nobody
             ELSE t.must_forfeit \in {s.must_forfeit, Other(p)}
          /\ mv.type # "Challenge" /\ mv.type # "Forfeit" => t.must_forfeit = s.must_forfeit
          /\ mv.type # "Challenge" => (s.ending => t.ending)
        BY <1>6, <1>8, <1>9 DEF Outcome
    <2>4. /\ mv.type \in {"Exchange", "Pass", "Challenge", "Forfeit"} => t.last_play = None
          /\ mv.type \in {"Commit", "Toss", "Yield", "Reveal"} => t.last_play = s.last_play
          /\ mv.type = "Place" => t.last_play # None /\ t.last_play[1].by = p /\ LastIs(t)
        BY <1>6, <1>8, <1>9, <1>10 DEF Outcome, Same
    <2>5. CASE mv.type = "Reveal"
        <3>1. /\ t.reveals[p] = Some([seed |-> mv.seed, rack |-> mv.rack])
              /\ t.reveals[Other(p)] = s.reveals[Other(p)]
              /\ p = d => t.rack = s.rack
              /\ Concluded(t)
              /\ t.events = y.events
            BY <1>6, <1>8, <1>9, <1>11, <2>5 DEF Outcome, SameTiles, Same
        <3>2. s.pending[Other(p)] = 0 =>
                  \A seed \in Seed : AuditEnd(Other(p), t.events, seed)
                                         = AuditEnd(Other(p), s.events, seed)
            BY <1>6, <2>1, <2>5, <3>1
        <3> QED
            BY <2>2, <2>3, <2>4, <2>5, <3>1, <3>2 DEF Passage
    <2>6. CASE mv.type # "Reveal"
        <3>1. t.reveals = s.reveals /\ t.verdict = s.verdict /\ t.finished = s.finished
            BY <1>6, <1>8, <1>9, <2>6 DEF Outcome, SameTiles, Same
        <3> QED
            BY <2>2, <2>3, <2>4, <2>6, <3>1 DEF Passage
    <2> QED
        BY <2>5, <2>6
<1> QED
    BY <1>9, <1>12

\* The entry is done, and the device is ready for the next one.
LEMMA EnterControl ==
    ASSUME NEW s, NEW t, NEW d \in Player, NEW p \in Player, NEW mv,
           Typed(s, d), Control(s, d), Carries(s, d, mv, p), ValidMove(s, mv, p),
           Passage(s, t, d, mv, p)
    PROVE  Control(t, d) /\ Entered(s, t, d, mv, p)
<1>1. mv.type \in MoveTypes
    BY DEF Carries
<1>2. /\ s.finished = "no" /\ p = ToMove(s)
      /\ s.index < 2 => mv.type = "Commit"
      /\ s.index = 2 => mv.type = "Toss"
      /\ mv.type = "Commit" => s.index < 2
      /\ mv.type = "Toss" => s.index = 2
      /\ mv.type = "Yield" => s.index = 3
      /\ mv.type \in {"Place", "Exchange", "Pass", "Challenge", "Reveal", "Forfeit"} => s.index > 2
      /\ mv.type # "Forfeit" => s.must_forfeit = Nobody
      /\ \A q \in Player : s.reveals[q] # None => q = Other(p) /\ mv.type = "Reveal"
      /\ mv.type = "Reveal" => s.ending /\ s.seed_hash[p] = Some(mv.seed)
    BY <1>1, ValidFacts
<1>3. s.index \in Nat /\ t.index = s.index + 1 /\ ToMove(t) = Other(p)
    <2>1. s.index \in Nat /\ t.index = s.index + 1
        BY DEF Control, Passage
    <2> QED
        BY <1>2, <2>1, Turns DEF ToMove
<1>4. Other(p) \in Player /\ Other(p) # p /\ Other(Other(p)) = p /\ \A q \in Player : q \in {p, Other(p)}
    BY Others DEF Player, Other
<1>5. t.index > d => t.me = d
    <2>1. CASE s.index > d
        BY <2>1 DEF Control, Passage
    <2>2. CASE s.index = d
        <3>1. p = d
            BY <1>2, <2>2 DEF ToMove, Player
        <3> QED
            BY <1>2, <2>2, <3>1 DEF Passage, Player
    <2> QED
        BY <1>3, <2>1, <2>2 DEF Player
<1>6. t.pending[ToMove(t)] = 0
    BY <1>3 DEF Passage
<1>7. t.must_forfeit \in {Nobody, ToMove(t)}
    BY <1>2, <1>3 DEF Passage
<1>8. Opening(t)
    <2>1. ASSUME t.index < 4 PROVE mv.type \in {"Commit", "Toss"}
        BY <1>2, <1>3, <2>1
    <2>2. ASSUME t.index < 4 PROVE t.last_play = s.last_play /\ t.must_forfeit = s.must_forfeit
        BY <2>1, <2>2 DEF Passage
    <2>3. t.index < 4 => s.index < 4
        BY <1>3
    <2> QED
        BY <2>2, <2>3 DEF Opening, Control
<1>9. CASE mv.type = "Reveal"
    <2>1. /\ t.reveals[p] = Some([seed |-> mv.seed, rack |-> mv.rack])
          /\ t.reveals[Other(p)] = s.reveals[Other(p)]
          /\ p = d => t.rack = s.rack
          /\ Concluded(t)
          /\ s.pending[Other(p)] = 0 =>
                 \A seed \in Seed : AuditEnd(Other(p), t.events, seed)
                                        = AuditEnd(Other(p), s.events, seed)
        BY <1>9 DEF Passage
    <2>2. /\ t.seed = s.seed /\ t.seed_hash = s.seed_hash /\ t.last_play = s.last_play
          /\ t.must_forfeit = Nobody /\ t.pending[p] = s.pending[p] /\ (s.ending => t.ending)
        BY <1>2, <1>9 DEF Passage
    <2>3. t.reveals[p] # None /\ s.reveals[p] = None
        BY <1>2, <1>4, <2>1 DEF Some, None
    <2>4. Revealing(t)
        <3>1. SUFFICES ASSUME t.finished = "no", NEW q \in Player, t.reveals[q] # None
                       PROVE  /\ ToMove(t) = Other(q) /\ t.pending[q] = 0 /\ t.must_forfeit = Nobody
                              /\ t.last_play # None => t.last_play[1].by = ToMove(t)
                              /\ t.ending /\ t.index > 3
            BY DEF Revealing
        <3>2. \E r \in Player : t.reveals[r] = None
            BY <2>1, <3>1 DEF Concluded
        <3>3. q = p /\ t.reveals[Other(p)] = None
            BY <1>4, <2>3, <3>1, <3>2
        <3>4. \A r \in Player : s.reveals[r] = None
            BY <1>4, <2>1, <2>3, <3>3
        <3>5. s.last_play # None => s.last_play[1].by = Other(p)
            BY <1>2, <3>4 DEF Control, Challenging
        <3>6. s.pending[p] = 0
            BY <1>2, <1>3, <1>9 DEF Control
        <3>7. t.ending
            BY <1>2, <1>9, <2>2
        <3>8. t.index > 3
            BY <1>2, <1>3, <1>9
        <3> QED
            BY <1>3, <2>2, <3>3, <3>5, <3>6, <3>7, <3>8
    <2>5. Challenging(t)
        BY <2>3 DEF Challenging
    <2>6. \A q \in Player : t.reveals[q] # None => t.seed_hash[q] = Some(t.reveals[q][1].seed)
        <3>1. t.seed_hash[p] = Some(t.reveals[p][1].seed)
            BY <1>2, <1>9, <2>1, <2>2 DEF Some
        <3>2. t.reveals[Other(p)] # None => t.seed_hash[Other(p)] = Some(t.reveals[Other(p)][1].seed)
            BY <1>4, <2>1, <2>2 DEF Control
        <3> QED
            BY <1>4, <3>1, <3>2
    <2>7. s.reveals[Other(p)] # None => s.pending[Other(p)] = 0
        BY <1>2, <1>4 DEF Control, Revealing
    <2>8. p = d => mv.rack = s.rack /\ mv.seed = s.seed
        BY <1>9 DEF Carries, OwnEntry
    <2>9. Control(t, d)
        BY <1>3, <1>5, <1>6, <1>7, <1>8, <2>1, <2>4, <2>5, <2>6 DEF Control
    <2>10. Entered(s, t, d, mv, p)
        BY <1>2, <1>3, <1>9, <2>1, <2>2, <2>7, <2>8 DEF Entered
    <2> QED
        BY <2>9, <2>10
<1>10. CASE mv.type # "Reveal"
    <2>1. \A q \in Player : s.reveals[q] = None
        BY <1>2, <1>10
    <2>2. t.reveals = s.reveals /\ t.verdict = s.verdict /\ t.finished = s.finished
        BY <1>10 DEF Passage
    <2>3. Concluded(t)
        BY <2>1, <2>2 DEF Control, Concluded, Player
    <2>4. Revealing(t)
        BY <2>1, <2>2 DEF Revealing
    <2>5. Challenging(t)
        <3>1. CASE mv.type = "Place"
            BY <1>3, <1>4, <3>1 DEF Passage, Challenging
        <3>2. CASE mv.type \in {"Exchange", "Pass", "Challenge", "Forfeit"}
            BY <3>2 DEF Passage, Challenging
        <3>3. CASE mv.type \in {"Commit", "Toss", "Yield"}
            <4>1. s.index < 4
                BY <1>2, <1>3, <3>3
            <4>2. t.last_play = None
                BY <3>3, <4>1 DEF Passage, Control, Opening
            <4> QED
                BY <4>2 DEF Challenging
        <3> QED
            BY <1>1, <1>10, <3>1, <3>2, <3>3 DEF MoveTypes
    <2>6. \A q \in Player : t.reveals[q] # None => t.seed_hash[q] = Some(t.reveals[q][1].seed)
        BY <2>1, <2>2
    <2>7. Control(t, d)
        BY <1>3, <1>5, <1>6, <1>7, <1>8, <2>3, <2>4, <2>5, <2>6 DEF Control
    <2>8. t.seed = s.seed
        BY DEF Passage
    <2>9. Entered(s, t, d, mv, p)
        BY <1>3, <1>10, <2>1, <2>2, <2>8 DEF Entered
    <2> QED
        BY <2>7, <2>9
<1> QED
    BY <1>9, <1>10

-----------------------------------------------------------------------------
(* What a device signs carries what both devices need of it.                 *)

LEMMA MoveFields ==
    ASSUME NEW action, NEW nonce, NEW promise, NEW mv, mv = Move(action, nonce, promise)
    PROVE  /\ mv.nonce = nonce /\ mv.promise = promise
           /\ \A field \in DOMAIN action \ {"nonce", "promise"} : mv[field] = action[field]
    BY DEF Move

LEMMA PartFacts ==
    ASSUME NEW rack \in Counts, NEW t \in Part(rack)
    PROVE  t \in Counts /\ Holds(rack, t)
    BY OneAssumption DEF Part, Counts

LEMMA SignedFacts ==
    ASSUME NEW s, NEW p \in Player, NEW mv \in Signed(s, p), Typed(s, p)
    PROVE  /\ mv.type \in MoveTypes /\ mv.nonce \in Nonce /\ mv.promise = OwedCommitment(s)
           /\ mv.type = "Commit" => mv.seed = s.seed
           /\ mv.type = "Place" => mv.tiles \in Counts /\ Holds(s.rack, mv.tiles)
           /\ mv.type = "Exchange" =>
                  /\ mv.masked \in Masked /\ Holds(s.rack, mv.masked.tiles)
                  /\ mv.masked.key = <<s.seed, s.my_exchanges>>
           /\ mv.type = "Reveal" => mv.seed = s.seed /\ mv.rack = s.rack
<1>1. PICK action \in Automatic(s, p) \cup Choice(s), nonce \in Fresh(s, p) :
          mv = Move(action, nonce, OwedCommitment(s))
    BY DEF Signed
<1>2. /\ mv.nonce = nonce /\ mv.promise = OwedCommitment(s)
      /\ \A field \in DOMAIN action \ {"nonce", "promise"} : mv[field] = action[field]
    BY <1>1, MoveFields
<1>3. mv.nonce \in Nonce
    <2>1. nonce \in Nonce
        BY OneAssumption DEF Fresh, Nonce
    <2> QED
        BY <1>2, <2>1
<1>4. s.seed \in Seed /\ s.rack \in Counts /\ s.my_exchanges \in Nat
    BY DEF Typed
<1>5. CASE action \in Automatic(s, p)
    <2>1. \/ action = [type |-> "Commit", seed |-> s.seed, half |-> FirstEntropy(s.seed)]
          \/ action = [type |-> "Toss", half |-> FirstEntropy(s.seed)]
          \/ Expected(s) \in {"Yield", "Forfeit"} /\ action = [type |-> Expected(s)]
          \/ action = [type |-> "Reveal", seed |-> s.seed, rack |-> s.rack]
        BY <1>5 DEF Automatic
    <2>2. CASE action = [type |-> "Commit", seed |-> s.seed, half |-> FirstEntropy(s.seed)]
        <3>1. mv.type = "Commit" /\ mv.seed = s.seed
            BY <1>2, <2>2
        <3> QED
            BY <1>2, <1>3, <3>1 DEF MoveTypes
    <2>3. CASE action = [type |-> "Toss", half |-> FirstEntropy(s.seed)]
        <3>1. mv.type = "Toss"
            BY <1>2, <2>3
        <3> QED
            BY <1>2, <1>3, <3>1 DEF MoveTypes
    <2>4. CASE Expected(s) \in {"Yield", "Forfeit"} /\ action = [type |-> Expected(s)]
        <3>1. mv.type \in {"Yield", "Forfeit"}
            BY <1>2, <2>4
        <3> QED
            BY <1>2, <1>3, <3>1 DEF MoveTypes
    <2>5. CASE action = [type |-> "Reveal", seed |-> s.seed, rack |-> s.rack]
        <3>1. mv.type = "Reveal" /\ mv.seed = s.seed /\ mv.rack = s.rack
            BY <1>2, <2>5
        <3> QED
            BY <1>2, <1>3, <3>1 DEF MoveTypes
    <2> QED
        BY <2>1, <2>2, <2>3, <2>4, <2>5
<1>6. CASE action \in Choice(s)
    <2>1. \/ \E t \in Part(s.rack), real \in BOOLEAN : action = [type |-> "Place", tiles |-> t, real |-> real]
          \/ \E t \in Part(s.rack) : action = [type |-> "Exchange", masked |-> Mask(s.seed, s.my_exchanges, t)]
          \/ \E type \in {"Pass", "Challenge"} : action = [type |-> type]
        BY <1>6 DEF Choice
    <2>2. CASE \E t \in Part(s.rack), real \in BOOLEAN : action = [type |-> "Place", tiles |-> t, real |-> real]
        <3>1. PICK t \in Part(s.rack), real \in BOOLEAN :
                  action = [type |-> "Place", tiles |-> t, real |-> real]
            BY <2>2
        <3>2. mv.type = "Place" /\ mv.tiles = t
            BY <1>2, <3>1
        <3>3. t \in Counts /\ Holds(s.rack, t)
            BY <1>4, <3>1, PartFacts
        <3> QED
            BY <1>2, <1>3, <3>2, <3>3 DEF MoveTypes
    <2>3. CASE \E t \in Part(s.rack) : action = [type |-> "Exchange", masked |-> Mask(s.seed, s.my_exchanges, t)]
        <3>1. PICK t \in Part(s.rack) :
                  action = [type |-> "Exchange", masked |-> Mask(s.seed, s.my_exchanges, t)]
            BY <2>3
        <3>2. mv.type = "Exchange" /\ mv.masked = Mask(s.seed, s.my_exchanges, t)
            BY <1>2, <3>1
        <3>3. t \in Counts /\ Holds(s.rack, t)
            BY <1>4, <3>1, PartFacts
        <3>4. /\ mv.masked \in Masked /\ mv.masked.tiles = t
              /\ mv.masked.key = <<s.seed, s.my_exchanges>>
            BY <1>4, <3>2, <3>3 DEF Mask, Masked
        <3> QED
            BY <1>2, <1>3, <3>2, <3>3, <3>4 DEF MoveTypes
    <2>4. CASE \E type \in {"Pass", "Challenge"} : action = [type |-> type]
        <3>1. mv.type \in {"Pass", "Challenge"}
            BY <1>2, <2>4
        <3> QED
            BY <1>2, <1>3, <3>1 DEF MoveTypes
    <2> QED
        BY <2>1, <2>2, <2>3, <2>4
<1> QED
    BY <1>1, <1>5, <1>6

LEMMA SignedCarries ==
    ASSUME NEW s, NEW u, NEW p \in Player, NEW d \in Player, NEW mv \in Signed(s, p),
           Typed(s, p), Typed(u, d), p = d => u = s
    PROVE  Carries(u, d, mv, p)
<1>1. /\ mv.type \in MoveTypes /\ mv.nonce \in Nonce /\ mv.promise = OwedCommitment(s)
      /\ mv.type = "Commit" => mv.seed = s.seed
      /\ mv.type = "Place" => mv.tiles \in Counts /\ Holds(s.rack, mv.tiles)
      /\ mv.type = "Exchange" =>
             /\ mv.masked \in Masked /\ Holds(s.rack, mv.masked.tiles)
             /\ mv.masked.key = <<s.seed, s.my_exchanges>>
      /\ mv.type = "Reveal" => mv.seed = s.seed /\ mv.rack = s.rack
    BY SignedFacts
<1>2. s.seed \in Seed /\ s.rack \in Counts /\ s.published \in Nat /\ (s.seed = u.seed <=> p = d)
    BY DEF Typed
<1>3. mv.promise = None \/ \E h \in Promise : mv.promise = Some(h)
    <2>1. RackCommitment(s.seed, s.published, s.rack) \in Promise
        BY <1>2 DEF RackCommitment, Promise
    <2> QED
        BY <1>1, <2>1 DEF OwedCommitment
<1>4. p = d => OwnEntry(u, mv)
    BY <1>1 DEF OwnEntry
<1> QED
    BY <1>1, <1>2, <1>3, <1>4 DEF Carries

-----------------------------------------------------------------------------
(* Both devices write down the same: what an entry adds to the events, and    *)
(* what later entries make of it, comes out alike wherever it is replayed.    *)

SamePublic(s, t) ==
    /\ t.index = s.index /\ t.events = s.events /\ t.pending = s.pending
    /\ t.bag = s.bag /\ t.last_play = s.last_play /\ t.owed = s.owed
    /\ t.scores = s.scores /\ t.scoreless = s.scoreless /\ t.must_forfeit = s.must_forfeit
    /\ t.seed_hash = s.seed_hash /\ t.toss = s.toss /\ t.first = s.first
    /\ t.reveals = s.reveals

Alike(s, u) == DOMAIN s = Fields /\ DOMAIN u = Fields /\ SamePublic(s, u)

Keeps(s, t) == DOMAIN t = Fields /\ SamePublic(s, t)

LEMMA AlikeKept ==
    ASSUME NEW s, NEW u, NEW t, NEW w, Alike(s, u), Keeps(s, t), Keeps(u, w)
    PROVE  Alike(t, w)
    BY DEF Alike, Keeps, SamePublic

LastOf(events, by) ==
    CHOOSE i \in DOMAIN events :
        /\ events[i].type = "Played" /\ events[i].player = by
        /\ \A j \in DOMAIN events :
               (events[j].type = "Played" /\ events[j].player = by) => j <= i

LEMMA AlikeRetract ==
    ASSUME NEW s, NEW u, NEW play, Alike(s, u)
    PROVE  Alike(Retract(s, play), Retract(u, play))
<1>1. LastPlayed(s, play.by) = LastOf(s.events, play.by)
    BY DEF LastPlayed, LastOf
<1>2. LastPlayed(u, play.by) = LastOf(u.events, play.by)
    BY DEF LastPlayed, LastOf
<1>3. PICK i : i = LastPlayed(s, play.by)
    OBVIOUS
<1>4. i = LastPlayed(u, play.by)
    BY <1>1, <1>2, <1>3 DEF Alike, SamePublic
<1>5. PICK t : t = Retract(s, play)
    OBVIOUS
<1>6. PICK w : w = Retract(u, play)
    OBVIOUS
<1>7. /\ DOMAIN t = Fields /\ t.index = s.index /\ t.bag = s.bag /\ t.last_play = s.last_play
      /\ t.owed = s.owed /\ t.scoreless = s.scoreless /\ t.must_forfeit = play.by
      /\ t.seed_hash = s.seed_hash /\ t.toss = s.toss /\ t.first = s.first
      /\ t.reveals = s.reveals
      /\ t.scores = [s.scores EXCEPT ![play.by + 1] = @ - play.score]
      /\ t.pending = [s.pending EXCEPT ![play.by] = 0]
      /\ t.events = [s.events EXCEPT ![i].type = "Seen"]
    BY <1>3, <1>5 DEF Alike, Fields, Retract
<1>8. /\ DOMAIN w = Fields /\ w.index = u.index /\ w.bag = u.bag /\ w.last_play = u.last_play
      /\ w.owed = u.owed /\ w.scoreless = u.scoreless /\ w.must_forfeit = play.by
      /\ w.seed_hash = u.seed_hash /\ w.toss = u.toss /\ w.first = u.first
      /\ w.reveals = u.reveals
      /\ w.scores = [u.scores EXCEPT ![play.by + 1] = @ - play.score]
      /\ w.pending = [u.pending EXCEPT ![play.by] = 0]
      /\ w.events = [u.events EXCEPT ![i].type = "Seen"]
    BY <1>4, <1>6 DEF Alike, Fields, Retract
<1>9. Alike(t, w)
    BY <1>7, <1>8 DEF Alike, SamePublic
<1> QED
    BY <1>5, <1>6, <1>9

LEMMA AlikeSettled ==
    ASSUME NEW s, NEW u, NEW mv, Alike(s, u)
    PROVE  Alike(Settled(s, mv), Settled(u, mv))
<1>1. PICK play : play = s.last_play[1]
    OBVIOUS
<1>2. u.last_play[1] = play
    BY <1>1 DEF Alike, SamePublic
<1>3. CASE mv.type = "Challenge" /\ ~play.real
    <2>1. Settled(s, mv) = Retract(s, play) /\ Settled(u, mv) = Retract(u, play)
        BY <1>1, <1>2, <1>3 DEF Settled
    <2> QED
        BY <2>1, AlikeRetract
<1>4. CASE ~(mv.type = "Challenge" /\ ~play.real)
    BY <1>1, <1>2, <1>4 DEF Settled
<1> QED
    BY <1>3, <1>4

LEMMA AlikeRefill ==
    ASSUME NEW s, NEW u, NEW p, NEW nonce, Alike(s, u)
    PROVE  Alike(Refill(s, p, nonce), Refill(u, p, nonce))
<1>1. PICK count : count = Due(s, p)
    OBVIOUS
<1>2. count = Due(u, p)
    BY <1>1 DEF Alike, SamePublic, Due
<1>3. CASE count = 0
    <2>1. PICK t, w : t = Refill(s, p, nonce) /\ w = Refill(u, p, nonce)
        OBVIOUS
    <2>2. t = [s EXCEPT !.pending[p] = 0] /\ w = [u EXCEPT !.pending[p] = 0]
        BY <1>1, <1>2, <1>3, <2>1 DEF Refill
    <2>3. Alike(t, w)
        BY <2>2 DEF Alike, SamePublic, Fields
    <2> QED
        BY <2>1, <2>3
<1>4. CASE count # 0
    <2>1. PICK t, got : /\ t = Refill(s, p, nonce)
                        /\ got = Draw(nonce, s.draws, count, s.unseen)
        OBVIOUS
    <2>2. PICK w, found : /\ w = Refill(u, p, nonce)
                          /\ found = Draw(nonce, u.draws, count, u.unseen)
        OBVIOUS
    <2>3. t = Refilled(s, p, nonce, count, got) /\ w = Refilled(u, p, nonce, count, found)
        BY <1>1, <1>2, <1>4, <2>1, <2>2 DEF Refill
    <2>4. PICK e : e = [type |-> "Draw", player |-> p, nonce |-> nonce, count |-> count]
        OBVIOUS
    <2>5. /\ DOMAIN t = Fields /\ t.index = s.index /\ t.bag = s.bag - count
          /\ t.last_play = s.last_play /\ t.pending = [s.pending EXCEPT ![p] = 0]
          /\ t.owed = [s.owed EXCEPT ![p] = TRUE]
          /\ t.scores = s.scores /\ t.scoreless = s.scoreless
          /\ t.must_forfeit = s.must_forfeit /\ t.seed_hash = s.seed_hash
          /\ t.toss = s.toss /\ t.first = s.first /\ t.reveals = s.reveals
          /\ t.events = Append(s.events, e)
        BY <2>3, <2>4 DEF Alike, Fields, Refilled
    <2>6. /\ DOMAIN w = Fields /\ w.index = u.index /\ w.bag = u.bag - count
          /\ w.last_play = u.last_play /\ w.pending = [u.pending EXCEPT ![p] = 0]
          /\ w.owed = [u.owed EXCEPT ![p] = TRUE]
          /\ w.scores = u.scores /\ w.scoreless = u.scoreless
          /\ w.must_forfeit = u.must_forfeit /\ w.seed_hash = u.seed_hash
          /\ w.toss = u.toss /\ w.first = u.first /\ w.reveals = u.reveals
          /\ w.events = Append(u.events, e)
        BY <2>3, <2>4 DEF Alike, Fields, Refilled
    <2>7. Alike(t, w)
        BY <2>5, <2>6 DEF Alike, SamePublic
    <2> QED
        BY <2>1, <2>2, <2>7
<1> QED
    BY <1>3, <1>4

LEMMA AlikePublish ==
    ASSUME NEW s, NEW u, NEW p, NEW promise, Alike(s, u)
    PROVE  Alike(Publish(s, p, promise), Publish(u, p, promise))
<1>1. CASE promise = None
    BY <1>1 DEF Publish
<1>2. CASE promise # None
    <2>1. PICK t, w : t = Publish(s, p, promise) /\ w = Publish(u, p, promise)
        OBVIOUS
    <2>2. PICK e : e = [type |-> "Commitment", player |-> p, hash |-> promise[1]]
        OBVIOUS
    <2>3. /\ DOMAIN t = Fields /\ t.index = s.index /\ t.bag = s.bag
          /\ t.last_play = s.last_play /\ t.pending = s.pending
          /\ t.owed = [s.owed EXCEPT ![p] = FALSE]
          /\ t.scores = s.scores /\ t.scoreless = s.scoreless
          /\ t.must_forfeit = s.must_forfeit /\ t.seed_hash = s.seed_hash
          /\ t.toss = s.toss /\ t.first = s.first /\ t.reveals = s.reveals
          /\ t.events = Append(s.events, e)
        BY <1>2, <2>1, <2>2 DEF Alike, Fields, Publish
    <2>4. /\ DOMAIN w = Fields /\ w.index = u.index /\ w.bag = u.bag
          /\ w.last_play = u.last_play /\ w.pending = u.pending
          /\ w.owed = [u.owed EXCEPT ![p] = FALSE]
          /\ w.scores = u.scores /\ w.scoreless = u.scoreless
          /\ w.must_forfeit = u.must_forfeit /\ w.seed_hash = u.seed_hash
          /\ w.toss = u.toss /\ w.first = u.first /\ w.reveals = u.reveals
          /\ w.events = Append(u.events, e)
        BY <1>2, <2>1, <2>2 DEF Alike, Fields, Publish
    <2>5. Alike(t, w)
        BY <2>3, <2>4 DEF Alike, SamePublic
    <2> QED
        BY <2>1, <2>5
<1> QED
    BY <1>1, <1>2

LEMMA KeepsClosing ==
    ASSUME NEW s, NEW p, DOMAIN s = Fields PROVE Keeps(s, CheckEnding(s, p))
<1>1. PICK t : t = CheckEnding(s, p)
    OBVIOUS
<1>2. \/ t = s
      \/ t = [s EXCEPT !.ending = TRUE]
      \/ t = [s EXCEPT !.ending = TRUE, !.went_out = p]
    BY <1>1 DEF CheckEnding
<1>3. Keeps(s, t)
    BY <1>2 DEF Keeps, SamePublic, Fields
<1> QED
    BY <1>1, <1>3

LEMMA KeepsSettle ==
    ASSUME NEW s, DOMAIN s = Fields PROVE Keeps(s, Settle(s))
<1>1. PICK t : t = Settle(s)
    OBVIOUS
<1>2. CASE None \in {s.reveals[q] : q \in Player}
    BY <1>1, <1>2 DEF Settle, Keeps, SamePublic
<1>3. CASE ~(None \in {s.reveals[q] : q \in Player})
    <2>1. PICK verdict, final : verdict = Verdict(s) /\ final = FinalScores(s)
        OBVIOUS
    <2>2. t = Decided(s, verdict, final)
        BY <1>1, <1>3, <2>1 DEF Settle
    <2>3. Keeps(s, t)
        BY <2>2 DEF Decided, Keeps, SamePublic, Fields
    <2> QED
        BY <1>1, <2>3
<1> QED
    BY <1>2, <1>3

LEMMA AlikeUnveiled ==
    ASSUME NEW s, NEW u, NEW mv, NEW p, Alike(s, u)
    PROVE  Alike(Unveiled(s, mv, p), Unveiled(u, mv, p))
<1>1. PICK t, w : t = Unveiled(s, mv, p) /\ w = Unveiled(u, mv, p)
    OBVIOUS
<1>2. Alike(t, w)
    BY <1>1 DEF Alike, SamePublic, Fields, Unveiled
<1> QED
    BY <1>1, <1>2

LEMMA AlikeReveal ==
    ASSUME NEW s, NEW u, NEW mv, NEW p, Alike(s, u)
    PROVE  Alike(Reveal(s, mv, p), Reveal(u, mv, p))
<1>1. PICK t, w : t = Unveiled(s, mv, p) /\ w = Unveiled(u, mv, p)
    OBVIOUS
<1>2. Alike(t, w)
    BY <1>1, AlikeUnveiled
<1>3. Alike(Settle(t), Settle(w))
    BY <1>2, KeepsSettle, AlikeKept DEF Alike
<1>4. Settle(t) = Reveal(s, mv, p) /\ Settle(w) = Reveal(u, mv, p)
    BY <1>1 DEF Reveal, Unveiled
<1> QED
    BY <1>3, <1>4

LEMMA AlikeToss ==
    ASSUME NEW s, NEW u, NEW mv, Alike(s, u)
    PROVE  Alike(Toss(s, mv), Toss(u, mv))
<1>1. PICK t, w : t = Toss(s, mv) /\ w = Toss(u, mv)
    OBVIOUS
<1>2. Alike(t, w)
    BY <1>1 DEF Alike, SamePublic, Fields, Toss
<1> QED
    BY <1>1, <1>2

LEMMA AlikePlace ==
    ASSUME NEW s, NEW u, NEW mv, NEW p, Alike(s, u)
    PROVE  Alike(Place(s, mv, p), Place(u, mv, p))
<1>1. PICK t, w : t = Place(s, mv, p) /\ w = Place(u, mv, p)
    OBVIOUS
<1>2. PICK e, play :
          /\ e = [type |-> "Played", player |-> p, tiles |-> mv.tiles]
          /\ play = [by |-> p, tiles |-> mv.tiles, real |-> mv.real, score |-> RackValue(mv.tiles)]
    OBVIOUS
<1>3. /\ DOMAIN t = Fields /\ t.index = s.index /\ t.bag = s.bag /\ t.last_play = Some(play)
      /\ t.pending = [s.pending EXCEPT ![p] = Size(mv.tiles)] /\ t.events = Append(s.events, e)
      /\ t.scores = [s.scores EXCEPT ![p + 1] = @ + RackValue(mv.tiles)] /\ t.scoreless = 0
      /\ t.owed = s.owed /\ t.must_forfeit = s.must_forfeit /\ t.seed_hash = s.seed_hash
      /\ t.toss = s.toss /\ t.first = s.first /\ t.reveals = s.reveals
    BY <1>1, <1>2 DEF Alike, Fields, Place
<1>4. /\ DOMAIN w = Fields /\ w.index = u.index /\ w.bag = u.bag /\ w.last_play = Some(play)
      /\ w.pending = [u.pending EXCEPT ![p] = Size(mv.tiles)] /\ w.events = Append(u.events, e)
      /\ w.scores = [u.scores EXCEPT ![p + 1] = @ + RackValue(mv.tiles)] /\ w.scoreless = 0
      /\ w.owed = u.owed /\ w.must_forfeit = u.must_forfeit /\ w.seed_hash = u.seed_hash
      /\ w.toss = u.toss /\ w.first = u.first /\ w.reveals = u.reveals
    BY <1>1, <1>2 DEF Alike, Fields, Place
<1>5. Alike(t, w)
    BY <1>3, <1>4 DEF Alike, SamePublic
<1> QED
    BY <1>1, <1>5

LEMMA AlikeExchange ==
    ASSUME NEW s, NEW u, NEW mv, NEW p, Alike(s, u)
    PROVE  Alike(Exchange(s, mv, p), Exchange(u, mv, p))
<1>1. PICK t, w : t = Exchange(s, mv, p) /\ w = Exchange(u, mv, p)
    OBVIOUS
<1>2. PICK e, count :
          /\ e = [type |-> "Exchanged", player |-> p, masked |-> mv.masked]
          /\ count = Size(mv.masked.tiles)
    OBVIOUS
<1>3. /\ DOMAIN t = Fields /\ t.index = s.index /\ t.bag = s.bag + count /\ t.last_play = None
      /\ t.pending = [s.pending EXCEPT ![p] = count] /\ t.events = Append(s.events, e)
      /\ t.scores = s.scores /\ t.scoreless = s.scoreless + 1
      /\ t.owed = s.owed /\ t.must_forfeit = s.must_forfeit /\ t.seed_hash = s.seed_hash
      /\ t.toss = s.toss /\ t.first = s.first /\ t.reveals = s.reveals
    BY <1>1, <1>2 DEF Alike, Fields, Exchange
<1>4. /\ DOMAIN w = Fields /\ w.index = u.index /\ w.bag = u.bag + count /\ w.last_play = None
      /\ w.pending = [u.pending EXCEPT ![p] = count] /\ w.events = Append(u.events, e)
      /\ w.scores = u.scores /\ w.scoreless = u.scoreless + 1
      /\ w.owed = u.owed /\ w.must_forfeit = u.must_forfeit /\ w.seed_hash = u.seed_hash
      /\ w.toss = u.toss /\ w.first = u.first /\ w.reveals = u.reveals
    BY <1>1, <1>2 DEF Alike, Fields, Exchange
<1>5. Alike(t, w)
    BY <1>3, <1>4 DEF Alike, SamePublic
<1> QED
    BY <1>1, <1>5

LEMMA AlikeCommit ==
    ASSUME NEW s, NEW u, NEW mv, NEW p, Alike(s, u)
    PROVE  Alike(Commit(s, mv, p), Commit(u, mv, p))
<1>1. PICK t, w : t = Commit(s, mv, p) /\ w = Commit(u, mv, p)
    OBVIOUS
<1>2. Alike(t, w)
    BY <1>1 DEF Alike, SamePublic, Fields, Commit
<1> QED
    BY <1>1, <1>2

LEMMA AlikeScoreless ==
    ASSUME NEW s, NEW u, Alike(s, u)
    PROVE  Alike(Scoreless(s), Scoreless(u)) /\ Alike(Forfeit(s), Forfeit(u))
<1>1. PICK t, w : t = Scoreless(s) /\ w = Scoreless(u)
    OBVIOUS
<1>2. Alike(t, w)
    BY <1>1 DEF Alike, SamePublic, Fields, Scoreless
<1>3. PICK v, x : v = Forfeit(s) /\ x = Forfeit(u)
    OBVIOUS
<1>4. v = [t EXCEPT !.must_forfeit = Nobody] /\ x = [w EXCEPT !.must_forfeit = Nobody]
    BY <1>1, <1>3 DEF Forfeit
<1>5. Alike(v, x)
    BY <1>2, <1>4 DEF Alike, SamePublic, Fields
<1> QED
    BY <1>1, <1>2, <1>3, <1>5

LEMMA AlikeDone ==
    ASSUME NEW s, NEW u, NEW mv, NEW p, Alike(s, u), mv.type \in MoveTypes
    PROVE  Alike(Done(s, mv, p), Done(u, mv, p))
<1>2. CASE mv.type = "Reveal"
    BY <1>2, AlikeReveal DEF Done
<1>3. CASE mv.type = "Place"
    BY <1>3, AlikePlace DEF Done
<1>4. CASE mv.type = "Exchange"
    BY <1>4, AlikeExchange DEF Done
<1>5. CASE mv.type = "Commit"
    BY <1>5, AlikeCommit DEF Done
<1>6. CASE mv.type = "Toss"
    BY <1>6, AlikeToss DEF Done
<1>7. CASE mv.type \in {"Pass", "Challenge"}
    BY <1>7, AlikeScoreless DEF Done
<1>8. CASE mv.type = "Forfeit"
    BY <1>8, AlikeScoreless DEF Done
<1>9. CASE mv.type = "Yield"
    BY <1>9 DEF Done
<1> QED
    BY <1>2, <1>3, <1>4, <1>5, <1>6, <1>7, <1>8, <1>9 DEF MoveTypes

\* An entry both devices accept leaves them alike.
LEMMA AlikeApplied ==
    ASSUME NEW s, NEW u, NEW mv, Alike(s, u), mv.type \in MoveTypes
    PROVE  Alike(ApplyMove(s, mv), ApplyMove(u, mv))
<1>1. PICK p : p = ToMove(s)
    OBVIOUS
<1>2. p = ToMove(u)
    BY <1>1 DEF ToMove, Alike, SamePublic
<1>3. PICK x, y : x = Settled(s, mv) /\ y = Settled(u, mv)
    OBVIOUS
<1>4. Alike(x, y)
    BY <1>3, AlikeSettled
<1>5. PICK xr, yr : xr = Refill(x, Other(p), mv.nonce) /\ yr = Refill(y, Other(p), mv.nonce)
    OBVIOUS
<1>6. Alike(xr, yr)
    BY <1>4, <1>5, AlikeRefill
<1>7. PICK xp, yp : xp = Publish(xr, p, mv.promise) /\ yp = Publish(yr, p, mv.promise)
    OBVIOUS
<1>8. Alike(xp, yp)
    BY <1>6, <1>7, AlikePublish
<1>9. PICK xd, yd : xd = Done(xp, mv, p) /\ yd = Done(yp, mv, p)
    OBVIOUS
<1>10. Alike(xd, yd)
    BY <1>8, <1>9, AlikeDone
<1>11. PICK xc, yc : xc = CheckEnding(xd, p) /\ yc = CheckEnding(yd, p)
    OBVIOUS
<1>12. Alike(xc, yc)
    BY <1>10, <1>11, KeepsClosing, AlikeKept DEF Alike
<1>13. PICK t, w : t = [xc EXCEPT !.index = @ + 1] /\ w = [yc EXCEPT !.index = @ + 1]
    OBVIOUS
<1>14. Alike(t, w)
    BY <1>12, <1>13 DEF Alike, SamePublic, Fields
<1>15. t = ApplyMove(s, mv)
    BY <1>1, <1>3, <1>5, <1>7, <1>9, <1>11, <1>13 DEF ApplyMove, Dealt
<1>16. w = ApplyMove(u, mv)
    BY <1>2, <1>3, <1>5, <1>7, <1>9, <1>11, <1>13 DEF ApplyMove, Dealt
<1> QED
    BY <1>14, <1>15, <1>16

-----------------------------------------------------------------------------
(* The invariant: each device keeps its own account of its tiles and is ready *)
(* for the entry that is due; the two are alike until one refuses an entry of *)
(* the other, and then nobody signs another; and a rack that has been opened  *)
(* is judged by whether its player cheated.                                   *)

Passed(s, p) == Finding(p, s.events, s.reveals[p][1], s.seed_hash[p][1]) = "none"

Sound == \A d \in Player : Tiles(view[d], d, cheat = d) /\ Control(view[d], d)

InStep == Alike(view[Initiator], view[Claimer]) \/ \A p \in Player : ToMove(view[p]) # p

Judged ==
    \A d \in Player, p \in Player :
        view[d].reveals[p] # None => (Passed(view[d], p) <=> cheat # p)

Shown ==
    \A d \in Player, p \in Player :
        view[d].reveals[p] # None => view[p].reveals[p] # None

OneInv ==
    /\ DOMAIN view = Player /\ cheat \in Player \cup {Nobody}
    /\ Sound /\ InStep /\ Judged /\ Shown

\* The audit of a device's own game clears it if the device did not cheat.
LEMMA OwnAudit ==
    ASSUME NEW s, NEW p \in Player, NEW c \in BOOLEAN, Tiles(s, p, c),
           s.reveals[p] = Some([seed |-> s.seed, rack |-> s.rack]),
           s.seed_hash[p] = Some(s.seed)
    PROVE  Passed(s, p) <=> ~c
<1>1. PICK revealed : revealed = [seed |-> s.seed, rack |-> s.rack]
    OBVIOUS
<1>2. s.reveals[p][1] = revealed /\ s.seed_hash[p][1] = s.seed
    BY <1>1 DEF Some
<1>3. PICK a : a = AuditEnd(p, s.events, s.seed)
    OBVIOUS
<1>4. a.finding = "none" /\ a.rack = s.rack <=> ~c
    BY <1>3 DEF Tiles, Tracks, Own
<1>5. Finding(p, s.events, revealed, s.seed) = "none" <=> a.finding = "none" /\ a.rack = s.rack
    BY <1>1, <1>3 DEF Finding
<1> QED
    BY <1>2, <1>4, <1>5 DEF Passed

LEMMA SetupFacts ==
    ASSUME NEW d \in Player, NEW half \in {0, 1}, NEW s,
           s = Setup([owner |-> d, half |-> half])
    PROVE  /\ Tiles(s, d, FALSE) /\ Control(s, d) /\ \A p \in Player : s.reveals[p] = None
<1>1. PICK seed \in Seed : seed = [owner |-> d, half |-> half]
    BY DEF Seed
<1>2. Supply \in Counts /\ TILE_TOTAL \in Nat /\ NoTiles \in Counts /\ RACK \in Nat
    BY OneAssumption, SizeNat, SizeNothing DEF Counts, TILE_TOTAL
<1>3. /\ DOMAIN s = Fields
      /\ s.seed = seed /\ s.me = Nobody /\ s.index = 0 /\ s.rack = NoTiles /\ s.unseen = Supply
      /\ s.bag = TILE_TOTAL /\ s.draws = 0 /\ s.published = 0 /\ s.my_exchanges = 0
      /\ s.pending = [p \in Player |-> IF p = Initiator THEN RACK ELSE 0]
      /\ s.reveals = [p \in Player |-> None] /\ s.seed_hash = [p \in Player |-> None]
      /\ s.events = <<>> /\ s.last_play = None /\ s.must_forfeit = Nobody
      /\ s.finished = "no" /\ s.verdict = None
    BY <1>1 DEF Setup, Fields
<1>4. s.events \in Seq(Event)
    BY <1>3, EmptySeq
<1>5. Typed(s, d)
    BY <1>1, <1>2, <1>3, <1>4 DEF Typed
<1>6. AuditEnd(d, s.events, s.seed) = AuditStart
    BY <1>3, AuditNothing
<1>7. Tracks(AuditStart, Own(s, d), FALSE)
    BY <1>3 DEF Tracks, Tallies, Own, AuditStart
<1>8. \A p \in Player : s.reveals[p] = None
    BY <1>3
<1>9. Control(s, d)
    <2>1. Opening(s) /\ Revealing(s) /\ Challenging(s)
        BY <1>3, <1>8 DEF Opening, Revealing, Challenging
    <2>2. Concluded(s)
        BY <1>3, <1>8 DEF Concluded, Player
    <2>3. s.pending[Claimer] = 0 /\ ~(s.index > d) /\ s.index \in Nat /\ ~(s.index > 0)
        BY <1>3 DEF Player, Claimer, Initiator
    <2> QED
        BY <1>3, <1>8, <2>1, <2>2, <2>3 DEF Control
<1> QED
    BY <1>5, <1>6, <1>7, <1>8, <1>9 DEF Tiles

LEMMA InitHolds == OneInit => OneInv
<1> SUFFICES ASSUME OneInit PROVE OneInv
    OBVIOUS
<1>1. PICK halves \in [Player -> {0, 1}] :
          view = [p \in Player |-> Setup([owner |-> p, half |-> halves[p]])]
    BY DEF OneInit
<1>2. cheat = Nobody /\ \A d \in Player : cheat # d
    BY DEF OneInit, Nobody, Player
<1>3. ASSUME NEW d \in Player
      PROVE  /\ Tiles(view[d], d, FALSE) /\ Control(view[d], d)
             /\ \A p \in Player : view[d].reveals[p] = None
    <2>1. halves[d] \in {0, 1} /\ view[d] = Setup([owner |-> d, half |-> halves[d]])
        BY <1>1
    <2> QED
        BY <2>1, SetupFacts
<1>4. Sound
    <2>1. ASSUME NEW d \in Player PROVE Tiles(view[d], d, cheat = d)
        <3>1. (cheat = d) = FALSE
            BY <1>2
        <3> QED
            BY <1>3, <3>1
    <2> QED
        BY <1>3, <2>1 DEF Sound
<1>5. Alike(view[Initiator], view[Claimer])
    <2>1. PICK s, u : s = view[Initiator] /\ u = view[Claimer]
        OBVIOUS
    <2>2. PICK a, b : /\ a = [owner |-> Initiator, half |-> halves[Initiator]]
                      /\ b = [owner |-> Claimer, half |-> halves[Claimer]]
        OBVIOUS
    <2>3. s = Setup(a) /\ u = Setup(b)
        BY <1>1, <2>1, <2>2 DEF Player, Initiator, Claimer
    <2>4. Alike(s, u)
        BY <2>3 DEF Setup, Alike, SamePublic, Fields
    <2> QED
        BY <2>1, <2>4
<1>6. DOMAIN view = Player
    BY <1>1
<1> QED
    BY <1>2, <1>3, <1>4, <1>5, <1>6 DEF OneInv, InStep, Judged, Shown

LEMMA Applied ==
    ASSUME NEW s, NEW d \in Player, NEW p \in Player, NEW c \in BOOLEAN, NEW mv,
           NEW t, t = ApplyMove(s, mv), Tiles(s, d, c), Control(s, d),
           Carries(s, d, mv, p), ValidMove(s, mv, p)
    PROVE  Tiles(t, d, c) /\ Control(t, d) /\ Entered(s, t, d, mv, p)
<1>1. Tiles(t, d, c) /\ Passage(s, t, d, mv, p)
    BY PassageFacts
<1>2. Typed(s, d)
    BY DEF Tiles
<1> QED
    BY <1>1, <1>2, EnterControl

\* What is open stays open, and an entry opens no rack but its player's.
LEMMA OpenStays ==
    ASSUME NEW s, NEW t, NEW d, NEW mv, NEW p \in Player, NEW q \in Player,
           Entered(s, t, d, mv, p)
    PROVE  /\ s.reveals[q] # None => t.reveals[q] # None
           /\ t.reveals[q] # None /\ q # p => s.reveals[q] # None
           /\ t.reveals[q] # None => mv.type = "Reveal"
           /\ mv.type = "Reveal" => t.reveals[p] # None
<1>1. q = p \/ q = Other(p)
    BY DEF Player, Other
<1>2. CASE mv.type = "Reveal"
    <2>1. t.reveals[Other(p)] = s.reveals[Other(p)]
        BY <1>2 DEF Entered
    <2>2. PICK opened : opened = [seed |-> mv.seed, rack |-> mv.rack]
        OBVIOUS
    <2>3. t.reveals[p] = Some(opened)
        BY <1>2, <2>2 DEF Entered
    <2>4. t.reveals[p] # None
        BY <2>3 DEF Some, None
    <2> QED
        BY <1>1, <1>2, <2>1, <2>4
<1>3. CASE mv.type # "Reveal"
    BY <1>3 DEF Entered
<1> QED
    BY <1>2, <1>3

\* Somebody else's audit does not change once its rack is open.
LEMMA JudgedBefore ==
    ASSUME NEW s, NEW t, NEW d \in Player, NEW mv, NEW p \in Player,
           Typed(s, d), Entered(s, t, d, mv, p), mv.type = "Reveal",
           s.reveals[Other(p)] # None
    PROVE  Passed(t, Other(p)) <=> Passed(s, Other(p))
<1>1. PICK q \in Player : q = Other(p)
    BY Others
<1>2. PICK revealed \in Opened : s.reveals[q] = Some(revealed)
    BY <1>1 DEF Typed
<1>3. revealed.seed \in Seed
    BY DEF Opened
<1>4. t.reveals[q] = s.reveals[q] /\ t.seed_hash = s.seed_hash
      /\ AuditEnd(q, t.events, revealed.seed) = AuditEnd(q, s.events, revealed.seed)
    BY <1>1, <1>3 DEF Entered
<1>5. s.reveals[q][1] = revealed /\ t.reveals[q][1] = revealed
    BY <1>2, <1>4 DEF Some
<1>6. Finding(q, t.events, revealed, s.seed_hash[q][1])
          = Finding(q, s.events, revealed, s.seed_hash[q][1])
    BY <1>4 DEF Finding
<1> QED
    BY <1>1, <1>4, <1>5, <1>6 DEF Passed

LEMMA EnterHolds ==
    ASSUME OneInv, NEW p \in Player, Enter(p)
    PROVE  OneInv'
<1>1. PICK mv \in Signed(view[p], p) :
          /\ ValidMove(view[p], mv, p)
          /\ view' = [d \in Player |-> IF ValidMove(view[d], mv, p)
                                       THEN ApplyMove(view[d], mv) ELSE view[d]]
    BY DEF Enter
<1>2. ToMove(view[p]) = p /\ cheat' = cheat
    BY DEF Enter
<1>3. Alike(view[Initiator], view[Claimer])
    BY <1>2 DEF OneInv, InStep
<1>4. ASSUME NEW d \in Player
      PROVE  /\ Tiles(view[d], d, cheat = d) /\ Control(view[d], d) /\ Typed(view[d], d)
             /\ Carries(view[d], d, mv, p)
    <2>1. Tiles(view[d], d, cheat = d) /\ Control(view[d], d) /\ Typed(view[d], d) /\ Typed(view[p], p)
        BY DEF OneInv, Sound, Tiles
    <2> QED
        BY <2>1, SignedCarries
<1>5. ASSUME NEW d \in Player, ValidMove(view[d], mv, p)
      PROVE  /\ view'[d] = ApplyMove(view[d], mv)
             /\ Tiles(view'[d], d, cheat = d) /\ Control(view'[d], d)
             /\ Entered(view[d], view'[d], d, mv, p)
    <2>1. view'[d] = ApplyMove(view[d], mv)
        BY <1>1, <1>5
    <2>2. (cheat = d) \in BOOLEAN
        OBVIOUS
    <2> QED
        BY <1>4, <1>5, <2>1, <2>2, Applied
<1>6. ASSUME NEW d \in Player, ~ValidMove(view[d], mv, p)
      PROVE  view'[d] = view[d] /\ d # p
    BY <1>1, <1>6
<1>7. DOMAIN view' = Player /\ cheat' \in Player \cup {Nobody}
    BY <1>1, <1>2 DEF OneInv
<1>8. Sound'
    <2>1. ASSUME NEW d \in Player PROVE Tiles(view'[d], d, cheat' = d) /\ Control(view'[d], d)
        BY <1>2, <1>4, <1>5, <1>6
    <2> QED
        BY <2>1 DEF Sound
<1>9. InStep'
    <2>1. CASE \A d \in Player : ValidMove(view[d], mv, p)
        <3>1. mv.type \in MoveTypes
            BY <1>4 DEF Carries
        <3>2. Initiator \in Player /\ Claimer \in Player
            BY DEF Player, Initiator, Claimer
        <3>3. /\ view'[Initiator] = ApplyMove(view[Initiator], mv)
              /\ view'[Claimer] = ApplyMove(view[Claimer], mv)
            BY <1>5, <2>1, <3>2
        <3>4. Alike(view'[Initiator], view'[Claimer])
            BY <1>3, <3>1, <3>3, AlikeApplied
        <3> QED
            BY <3>4 DEF InStep
    <2>2. CASE \E d \in Player : ~ValidMove(view[d], mv, p)
        <3>1. PICK q \in Player : q = Other(p) /\ q # p /\ p = Other(q) /\ \A d \in Player : d \in {p, q}
            BY Others DEF Player, Other
        <3>2. view'[q] = view[q]
            BY <1>1, <1>6, <2>2, <3>1
        <3>3. view[q].index = view[p].index
            BY <1>3, <3>1 DEF Alike, SamePublic, Player, Initiator, Claimer
        <3>4. ToMove(view[q]) = p
            BY <1>2, <3>3 DEF ToMove
        <3>5. view'[p].index = view[p].index + 1 /\ view[p].index \in Nat
            BY <1>1, <1>4, <1>5 DEF Entered, Control
        <3>6. ToMove(view'[p]) = q
            BY <1>2, <3>1, <3>5, Turns DEF ToMove
        <3>7. \A d \in Player : ToMove(view'[d]) # d
            BY <3>1, <3>2, <3>4, <3>6
        <3> QED
            BY <3>7 DEF InStep
    <2> QED
        BY <2>1, <2>2
<1>10. \A d \in Player, q \in Player : view[d].reveals[q] # None => view'[d].reveals[q] # None
    BY <1>5, <1>6, OpenStays
<1>11. Shown'
    <2>1. ASSUME NEW d \in Player, NEW q \in Player, view'[d].reveals[q] # None
          PROVE  view'[q].reveals[q] # None
        <3>1. CASE view[d].reveals[q] # None
            BY <1>10, <3>1 DEF OneInv, Shown
        <3>2. CASE view[d].reveals[q] = None
            <4>1. ValidMove(view[d], mv, p)
                BY <1>6, <2>1, <3>2
            <4>2. q = p /\ mv.type = "Reveal"
                BY <1>5, <2>1, <3>2, <4>1, OpenStays
            <4> QED
                BY <1>1, <1>5, <4>2, OpenStays
        <3> QED
            BY <3>1, <3>2
    <2> QED
        BY <2>1 DEF Shown
<1>12. ASSUME mv.type = "Reveal" PROVE Passed(view'[p], p) <=> cheat # p
    <2>1. /\ Tiles(view'[p], p, cheat = p) /\ Control(view'[p], p)
          /\ Entered(view[p], view'[p], p, mv, p)
        BY <1>1, <1>5
    <2>2. /\ view'[p].reveals[p] = Some([seed |-> view'[p].seed, rack |-> view'[p].rack])
          /\ view'[p].seed_hash[p] = Some(view'[p].seed)
        BY <1>12, <2>1 DEF Entered
    <2>3. (cheat = p) \in BOOLEAN
        OBVIOUS
    <2>4. Passed(view'[p], p) <=> ~(cheat = p)
        BY <2>1, <2>2, <2>3, OwnAudit
    <2> QED
        BY <2>4
<1>13. Judged'
    <2>1. ASSUME NEW d \in Player, NEW q \in Player, view'[d].reveals[q] # None
          PROVE  Passed(view'[d], q) <=> cheat # q
        <3>1. CASE ~ValidMove(view[d], mv, p)
            BY <1>6, <2>1, <3>1 DEF OneInv, Judged
        <3>2. CASE ValidMove(view[d], mv, p) /\ q # p
            <4>1. Entered(view[d], view'[d], d, mv, p)
                BY <1>5, <3>2
            <4>2. mv.type = "Reveal" /\ view[d].reveals[q] # None
                BY <2>1, <3>2, <4>1, OpenStays
            <4>3. q = Other(p)
                BY <3>2 DEF Player, Other
            <4>4. Passed(view'[d], q) <=> Passed(view[d], q)
                BY <1>4, <4>1, <4>2, <4>3, JudgedBefore
            <4> QED
                BY <4>2, <4>4 DEF OneInv, Judged
        <3>3. CASE ValidMove(view[d], mv, p) /\ q = p
            <4>1. Entered(view[d], view'[d], d, mv, p) /\ Entered(view[p], view'[p], p, mv, p)
                BY <1>1, <1>5, <3>3
            <4>2. mv.type = "Reveal"
                BY <2>1, <3>3, <4>1, OpenStays
            <4>3. view'[d].events = view'[p].events
                <5>1. CASE d = p
                    BY <5>1
                <5>2. CASE d # p
                    <6>1. Alike(view'[Initiator], view'[Claimer])
                        <7>1. /\ view'[d] = ApplyMove(view[d], mv)
                              /\ view'[p] = ApplyMove(view[p], mv)
                            BY <1>1, <1>5, <3>3
                        <7>2. mv.type \in MoveTypes
                            BY <4>2 DEF MoveTypes
                        <7>3. /\ view'[Initiator] = ApplyMove(view[Initiator], mv)
                              /\ view'[Claimer] = ApplyMove(view[Claimer], mv)
                            BY <5>2, <7>1 DEF Player, Initiator, Claimer
                        <7> QED
                            BY <1>3, <7>2, <7>3, AlikeApplied
                    <6> QED
                        BY <5>2, <6>1 DEF Alike, SamePublic, Player, Initiator, Claimer
                <5> QED
                    BY <5>1, <5>2
            <4>4. view'[d].reveals[p] = view'[p].reveals[p] /\ view'[d].seed_hash[p] = view'[p].seed_hash[p]
                BY <4>1, <4>2 DEF Entered
            <4>5. Passed(view'[d], p) <=> Passed(view'[p], p)
                BY <4>3, <4>4 DEF Passed
            <4> QED
                BY <1>12, <3>3, <4>2, <4>5
        <3> QED
            BY <3>1, <3>2, <3>3
    <2> QED
        BY <1>2, <2>1 DEF Judged, Passed
<1> QED
    BY <1>7, <1>8, <1>9, <1>11, <1>13 DEF OneInv

\* A swap changes the rack and who cheated, and no rack is open when it comes.
LEMMA SwapHolds ==
    ASSUME OneInv, NEW p \in Player, Swap(p)
    PROVE  OneInv'
<1>1. PICK rack \in [Kind -> 0..RACK] :
          rack # view[p].rack /\ view' = [view EXCEPT ![p].rack = rack]
    BY DEF Swap
<1>2. cheat = Nobody /\ Expected(view[p]) = "Play" /\ cheat' = p
    BY DEF Swap
<1>3. PICK s, t : s = view[p] /\ t = view'[p]
    OBVIOUS
<1>4. rack \in Counts /\ (\A d \in Player : cheat # d)
    BY <1>2, OneAssumption DEF Counts, Nobody, Player
<1>5. Typed(s, p) /\ Control(s, p) /\ Tiles(s, p, FALSE)
    <2>1. (cheat = p) = FALSE
        BY <1>4
    <2>2. Tiles(s, p, FALSE) /\ Control(s, p)
        BY <1>3, <2>1 DEF OneInv, Sound
    <2> QED
        BY <2>2 DEF Tiles
<1>6. DOMAIN view = Player
    BY DEF OneInv
<1>7. t = [s EXCEPT !.rack = rack] /\ DOMAIN view' = Player
      /\ \A d \in Player : d # p => view'[d] = view[d]
    BY <1>1, <1>3, <1>6
<1>8. /\ DOMAIN t = Fields /\ t.rack = rack
      /\ t.seed = s.seed /\ t.me = s.me /\ t.index = s.index /\ t.unseen = s.unseen
      /\ t.bag = s.bag /\ t.draws = s.draws /\ t.published = s.published
      /\ t.my_exchanges = s.my_exchanges /\ t.pending = s.pending
      /\ t.reveals = s.reveals /\ t.seed_hash = s.seed_hash /\ t.events = s.events
      /\ t.last_play = s.last_play /\ t.must_forfeit = s.must_forfeit
      /\ t.ending = s.ending /\ t.finished = s.finished /\ t.verdict = s.verdict
    BY <1>5, <1>7 DEF Typed, Fields
<1>10. \A d \in Player : view[d].reveals[p] = None
    <2>1. s.finished = "no" /\ (s.index > 3 => ~s.ending)
        BY <1>2, <1>3, <1>5 DEF Expected, Control
    <2>2. s.reveals[p] = None
        BY <1>5, <2>1 DEF Control, Revealing
    <2> QED
        BY <1>3, <2>2 DEF OneInv, Shown
<1>11. Tiles(t, p, TRUE)
    <2>1. Typed(t, p)
        BY <1>4, <1>5, <1>8 DEF Typed
    <2>2. PICK a : a = AuditEnd(p, s.events, s.seed)
        OBVIOUS
    <2>3. AuditEnd(p, t.events, t.seed) = a
        BY <1>8, <2>2
    <2>4. Tracks(a, Own(s, p), FALSE)
        BY <1>5, <2>2 DEF Tiles
    <2>5. a.finding = "none" /\ a.rack = s.rack /\ Tallies(a, Own(s, p))
        BY <2>4 DEF Tracks, Own
    <2>6. Tallies(a, Own(t, p)) /\ a.rack # t.rack
        BY <1>1, <1>3, <1>8, <2>5 DEF Tallies, Own
    <2>7. Tracks(a, Own(t, p), TRUE)
        BY <2>6 DEF Tracks, Own
    <2> QED
        BY <2>1, <2>3, <2>7 DEF Tiles
<1>12. Control(t, p)
    <2>1. Verdict(t) = Verdict(s)
        BY <1>8 DEF Verdict
    <2>2. Concluded(t)
        BY <1>5, <1>8, <2>1 DEF Control, Concluded
    <2>3. LastIs(s) => LastIs(t)
        BY <1>8 DEF LastIs
    <2>4. Opening(t) /\ Revealing(t) /\ Challenging(t)
        BY <1>5, <1>8, <2>3 DEF Control, Opening, Revealing, Challenging, ToMove
    <2> QED
        BY <1>5, <1>8, <2>2, <2>4 DEF Control, ToMove
<1>13. Sound'
    <2>1. ASSUME NEW d \in Player PROVE Tiles(view'[d], d, cheat' = d) /\ Control(view'[d], d)
        <3>1. CASE d = p
            <4>1. (cheat' = d) = TRUE
                BY <1>2, <3>1
            <4> QED
                BY <1>3, <1>11, <1>12, <3>1, <4>1
        <3>2. CASE d # p
            <4>1. (cheat' = d) = (cheat = d)
                BY <1>2, <1>4, <3>2
            <4> QED
                BY <1>7, <3>2, <4>1 DEF OneInv, Sound
        <3> QED
            BY <3>1, <3>2
    <2> QED
        BY <2>1 DEF Sound
<1>14. \A d \in Player : /\ view'[d].index = view[d].index /\ view'[d].events = view[d].events
                         /\ view'[d].pending = view[d].pending /\ view'[d].bag = view[d].bag
                         /\ view'[d].last_play = view[d].last_play
                         /\ view'[d].reveals = view[d].reveals
                         /\ view'[d].seed_hash = view[d].seed_hash
    BY <1>3, <1>7, <1>8
<1>15. InStep'
    <2>1. ASSUME Alike(view[Initiator], view[Claimer]) PROVE Alike(view'[Initiator], view'[Claimer])
        <3>1. Keeps(s, t)
            BY <1>5, <1>7 DEF Typed, Keeps, SamePublic, Fields
        <3>2. ASSUME NEW d \in Player PROVE Keeps(view[d], view'[d])
            <4>1. CASE d = p
                BY <1>3, <3>1, <4>1
            <4>2. CASE d # p
                BY <1>7, <4>2 DEF OneInv, Sound, Tiles, Typed, Keeps, SamePublic
            <4> QED
                BY <4>1, <4>2
        <3>3. Initiator \in Player /\ Claimer \in Player
            BY DEF Player, Initiator, Claimer
        <3> QED
            BY <2>1, <3>2, <3>3, AlikeKept
    <2>2. (\A q \in Player : ToMove(view[q]) # q) => \A q \in Player : ToMove(view'[q]) # q
        BY <1>14 DEF ToMove
    <2> QED
        BY <2>1, <2>2 DEF OneInv, InStep
<1>16. Shown'
    BY <1>14 DEF OneInv, Shown
<1>17. Judged'
    <2>1. ASSUME NEW d \in Player, NEW q \in Player, view'[d].reveals[q] # None
          PROVE  Passed(view'[d], q) <=> cheat' # q
        <3>1. q # p /\ view[d].reveals[q] # None
            BY <1>10, <1>14, <2>1
        <3>2. Passed(view[d], q)
            BY <1>4, <3>1 DEF OneInv, Judged
        <3>3. Passed(view'[d], q)
            BY <1>14, <3>2 DEF Passed
        <3> QED
            BY <1>2, <3>1, <3>3
    <2> QED
        BY <2>1 DEF Judged, Passed
<1> QED
    BY <1>2, <1>7, <1>13, <1>15, <1>16, <1>17 DEF OneInv

LEMMA OneInvHolds == OneSpec => []OneInv
<1>1. OneInit => OneInv
    BY InitHolds
<1>2. OneInv /\ [OneNext]_<<view, cheat>> => OneInv'
    <2>1. ASSUME OneInv, OneNext PROVE OneInv'
        BY <2>1, EnterHolds, SwapHolds DEF OneNext
    <2>2. ASSUME OneInv, UNCHANGED <<view, cheat>> PROVE OneInv'
        BY <2>2 DEF OneInv, Sound, InStep, Judged, Shown, Passed
    <2> QED
        BY <2>1, <2>2
<1> QED
    BY <1>1, <1>2, PTL DEF OneSpec

\* What the verdict says of a player is what the audit of its game found.
LEMMA VerdictIs ==
    ASSUME OneInv, NEW d \in Player, view[d].verdict # None, NEW p \in Player
    PROVE  (view[d].verdict[1][p] = "none") = (cheat # p)
<1>1. Control(view[d], d)
    BY DEF OneInv, Sound
<1>2. view[d].verdict = Some(Verdict(view[d])) /\ view[d].reveals[p] # None
    BY <1>1 DEF Control, Concluded
<1>3. view[d].verdict[1][p] = "none" <=> Passed(view[d], p)
    BY <1>2 DEF Some, Verdict, Passed
<1>4. Passed(view[d], p) <=> cheat # p
    BY <1>2 DEF OneInv, Judged
<1> QED
    BY <1>3, <1>4

\* The audit at the end clears exactly the players who played what they were
\* dealt (audit.rs): for any bag, any rack, any number of plays taken back,
\* exchanges and promises, a device that kept to the rules is never accused,
\* and one that changed its rack is never cleared.
THEOREM AuditNamesTheCheatAlways == OneSpec => []AuditNamesTheCheat
<1>1. OneInv => AuditNamesTheCheat
    BY VerdictIs DEF AuditNamesTheCheat
<1> QED
    BY <1>1, OneInvHolds, PTL

-----------------------------------------------------------------------------
(* The two devices stay in step. What is taken back is counted in the events. *)

Taken(e, p) == IF e.type = "Seen" /\ e.player = p THEN Size(e.tiles) ELSE 0
BackIn(events, p) == SumUpTo([i \in DOMAIN events |-> Taken(events[i], p)], Len(events))

LEMMA TakenBackIs == \A p \in Player : TakenBack(p) = BackIn(view[Initiator].events, p)
    BY DEF TakenBack, BackIn, Taken

LEMMA TakenNat == ASSUME NEW e \in Event, NEW p PROVE Taken(e, p) \in Nat
<1>1. CASE e.type = "Seen"
    <2>1. e \in PlayEvent
        BY <1>1 DEF Event, DrawEvent, SwapEvent, PromiseEvent
    <2> QED
        BY <2>1, SizeNat DEF Taken, PlayEvent
<1> QED
    BY <1>1 DEF Taken

LEMMA BackNat == ASSUME NEW events \in Seq(Event), NEW p PROVE BackIn(events, p) \in Nat
<1>1. PICK n \in Nat : n = Len(events)
    BY LenProperties
<1>2. PICK f : f = [i \in DOMAIN events |-> Taken(events[i], p)]
    OBVIOUS
<1>3. DOMAIN events = 1..n /\ \A i \in 1..n : events[i] \in Event
    BY <1>1, LenProperties
<1>4. \A i \in 1..n : f[i] \in Nat
    BY <1>2, <1>3, TakenNat
<1>5. f \in [1..n -> Int] /\ [i \in 1..n |-> 0] \in [1..n -> Int] /\ n \in 0..n
    BY <1>2, <1>3, <1>4
<1>6. PICK g : g = [i \in 1..n |-> 0]
    OBVIOUS
<1>7. SumUpTo(g, n) = 0 /\ SumUpTo(g, n) <= SumUpTo(f, n) /\ SumUpTo(f, n) \in Int
    <2>1. g \in [1..n -> Int] /\ (\A i \in 1..n : g[i] = 0) /\ \A i \in 1..n : g[i] <= f[i]
        BY <1>4, <1>5, <1>6
    <2> QED
        BY <1>5, <2>1, SumNothing, SumGrows, SumInt
<1> QED
    BY <1>1, <1>2, <1>7 DEF BackIn

LEMMA BackMore ==
    ASSUME NEW events \in Seq(Event), NEW e \in Event, NEW p
    PROVE  BackIn(Append(events, e), p) = BackIn(events, p) + Taken(e, p)
<1>1. PICK n \in Nat : n = Len(events)
    BY LenProperties
<1>2. PICK more : more = Append(events, e)
    OBVIOUS
<1>3. more \in Seq(Event) /\ Len(more) = n + 1 /\ more[n + 1] = e /\ \A i \in 1..n : more[i] = events[i]
    BY <1>1, <1>2, AppendProperties
<1>4. DOMAIN events = 1..n /\ DOMAIN more = 1..(n + 1)
    BY <1>1, <1>3, LenProperties
<1>5. PICK f, g : /\ f = [i \in DOMAIN events |-> Taken(events[i], p)]
                  /\ g = [i \in DOMAIN more |-> Taken(more[i], p)]
    OBVIOUS
<1>6. g[n + 1] = Taken(e, p) /\ \A i \in 1..n : f[i] = g[i]
    BY <1>3, <1>4, <1>5
<1>7. SumUpTo(f, n) = SumUpTo(g, n)
    BY <1>6, SumCongruent
<1>8. SumUpTo(g, n + 1) = SumUpTo(g, n) + g[n + 1]
    BY SumFacts
<1> QED
    BY <1>1, <1>2, <1>3, <1>5, <1>6, <1>7, <1>8 DEF BackIn

LEMMA BackNothing == \A p : BackIn(<<>>, p) = 0
<1>1. Len(<<>>) = 0
    OBVIOUS
<1>2. \A f : SumUpTo(f, 0) = 0
    BY SumFacts
<1> QED
    BY <1>1, <1>2 DEF BackIn

\* Each device counts the tiles of both players.
CountOf(s, d, q) == IF q = d THEN Size(s.rack) ELSE s.opponent_tiles

Full(s, d, q) ==
    /\ CountOf(s, d, q) + s.pending[q] <= RACK
    /\ CountOf(s, d, q) + s.pending[q] = RACK \/ s.bag = 0

\* What may still be drawn covers the bag and the opponent's rack, but for what
\* was put down twice because a challenge took it back in between.
Covered(s, d) ==
    s.reveals[Other(d)] = None =>
        s.bag + s.opponent_tiles <= Size(s.unseen) + BackIn(s.events, Other(d))

Absent(s, d, q) ==
    /\ CountOf(s, d, q) = 0 /\ BackIn(s.events, q) = 0
    /\ q = Claimer => s.pending[q] = 0

Accounts(s, d) ==
    /\ s.opponent_tiles \in Nat /\ Covered(s, d)
    /\ \A q \in Player : q = Initiator \/ s.seed_hash[q] # None => Full(s, d, q)
    /\ \A q \in Player : s.seed_hash[q] = None => Absent(s, d, q)

\* No player is short of tiles.
Whole(s, d) == \A q \in Player : CountOf(s, d, q) + s.pending[q] = RACK

SameHeaps(s, t) ==
    /\ t.rack = s.rack /\ t.unseen = s.unseen /\ t.bag = s.bag /\ t.pending = s.pending
    /\ t.opponent_tiles = s.opponent_tiles /\ t.events = s.events
    /\ t.seed_hash = s.seed_hash /\ t.reveals = s.reveals

LEMMA HeapsAlike ==
    ASSUME NEW s, NEW t, NEW d, SameHeaps(s, t)
    PROVE  /\ Accounts(s, d) => Accounts(t, d)
           /\ \A q : CountOf(t, d, q) = CountOf(s, d, q)
           /\ Whole(s, d) => Whole(t, d)
<1>1. \A q : CountOf(t, d, q) = CountOf(s, d, q)
    BY DEF SameHeaps, CountOf
<1>2. \A q : Full(s, d, q) => Full(t, d, q)
    BY <1>1 DEF SameHeaps, Full
<1>3. \A q : Absent(s, d, q) => Absent(t, d, q)
    BY <1>1 DEF SameHeaps, Absent
<1>4. Covered(s, d) => Covered(t, d)
    BY DEF SameHeaps, Covered
<1>5. t.opponent_tiles = s.opponent_tiles /\ t.seed_hash = s.seed_hash
    BY DEF SameHeaps
<1>6. Whole(s, d) => Whole(t, d)
    BY <1>1 DEF SameHeaps, Whole
<1> QED
    BY <1>1, <1>2, <1>3, <1>4, <1>5, <1>6 DEF Accounts

LEMMA CountNat ==
    ASSUME NEW s, NEW d \in Player, Typed(s, d), Accounts(s, d), NEW q \in Player
    PROVE  CountOf(s, d, q) \in Nat /\ s.pending[q] \in Nat /\ s.bag \in Nat
           /\ BackIn(s.events, q) \in Nat /\ Size(s.unseen) \in Nat
    BY SizeNat, BackNat DEF Typed, CountOf, Accounts

\* A challenge gives a play back.
Returned(s, mv, q) ==
    IF mv.type = "Challenge" /\ ~s.last_play[1].real /\ q = s.last_play[1].by
    THEN Size(s.last_play[1].tiles) ELSE 0

LEMMA RetractGives ==
    ASSUME NEW s, NEW d \in Player, NEW play, NEW front \in Seq(Event), NEW e \in PlayEvent,
           NEW t, t = Retract(s, play), Typed(s, d),
           Ends(s.events, front, e), e.type = "Played", e.player = play.by, e.tiles = play.tiles
    PROVE  /\ Size(play.tiles) \in Nat
           /\ \A q \in Player : BackIn(t.events, q) = BackIn(s.events, q)
                                    + (IF q = play.by THEN Size(play.tiles) ELSE 0)
<1>1. PICK by \in Player : by = play.by
    BY DEF PlayEvent
<1>2. play.tiles \in Counts /\ e \in Event /\ Size(play.tiles) \in Nat
    BY SizeNat DEF PlayEvent, Event
<1>3. PICK n \in Nat : n = Size(play.tiles)
    BY <1>2
<1>4. PICK back : back = Back(by, play.tiles)
    OBVIOUS
<1>5. back \in PlayEvent /\ back \in Event /\ Ends(Undone(s, by), front, back)
    <2>1. back \in PlayEvent /\ Ends(Undone(s, by), front, back)
        BY <1>1, <1>4, UndoneEnds
    <2> QED
        BY <2>1 DEF Event
<1>6. PICK i : i = LastPlayed(s, by)
    OBVIOUS
<1>7. t.events = Undone(s, by)
    BY <1>1, <1>6 DEF Retract, Undone, Typed, Fields
<1>8. ASSUME NEW q \in Player
      PROVE  BackIn(t.events, q) = BackIn(s.events, q) + (IF q = by THEN n ELSE 0)
    <2>1. s.events = Append(front, e) /\ t.events = Append(front, back)
        BY <1>5, <1>7 DEF Ends
    <2>2. /\ BackIn(s.events, q) = BackIn(front, q) + Taken(e, q)
          /\ BackIn(t.events, q) = BackIn(front, q) + Taken(back, q)
        BY <1>2, <1>5, <2>1, BackMore
    <2>3. Taken(e, q) = 0 /\ Taken(back, q) = (IF q = by THEN n ELSE 0)
        BY <1>1, <1>3, <1>4 DEF Taken, Back
    <2>4. BackIn(front, q) \in Nat
        BY BackNat
    <2> QED
        BY <2>2, <2>3, <2>4
<1> QED
    BY <1>1, <1>2, <1>3, <1>8

LEMMA RetractCounts ==
    ASSUME NEW s, NEW d \in Player, NEW play, NEW front \in Seq(Event), NEW e \in PlayEvent,
           NEW t, t = Retract(s, play), Typed(s, d), Accounts(s, d),
           Ends(s.events, front, e), e.type = "Played", e.player = play.by,
           e.tiles = play.tiles, play.by = d => s.me = d,
           s.pending[play.by] = Size(play.tiles), s.seed_hash[play.by] # None
    PROVE  /\ Accounts(t, d) /\ t.bag = s.bag
           /\ \A q \in Player :
                  /\ CountOf(t, d, q) = CountOf(s, d, q) + (IF q = play.by THEN Size(play.tiles) ELSE 0)
                  /\ BackIn(t.events, q) = BackIn(s.events, q) + (IF q = play.by THEN Size(play.tiles) ELSE 0)
                  /\ CountOf(t, d, q) + t.pending[q] = CountOf(s, d, q) + s.pending[q]
<1>1. PICK by \in Player : by = play.by
    BY DEF PlayEvent
<1>2. play.tiles \in Counts /\ Size(play.tiles) \in Nat
    BY SizeNat DEF PlayEvent
<1>3. PICK n \in Nat : n = Size(play.tiles)
    BY <1>2
<1>8. /\ t.pending = [s.pending EXCEPT ![by] = 0]
      /\ t.rack = (IF s.me = by THEN Both(s.rack, play.tiles) ELSE s.rack)
      /\ t.opponent_tiles = (IF s.me = by THEN s.opponent_tiles ELSE s.opponent_tiles + n)
      /\ t.unseen = s.unseen /\ t.bag = s.bag
      /\ t.seed_hash = s.seed_hash /\ t.reveals = s.reveals
    BY <1>1, <1>3 DEF Retract, Typed, Fields
<1>9. s.me = by <=> by = d
    BY <1>1 DEF Typed, Nobody, Player
<1>10. ASSUME NEW q \in Player
       PROVE  BackIn(t.events, q) = BackIn(s.events, q) + (IF q = by THEN n ELSE 0)
    BY <1>1, <1>3, RetractGives
<1>11. Size(Both(s.rack, play.tiles)) = Size(s.rack) + n /\ Size(s.rack) \in Nat
    BY <1>2, <1>3, SizeBoth, SizeNat DEF Typed
<1>12. ASSUME NEW q \in Player
       PROVE  CountOf(t, d, q) = CountOf(s, d, q) + (IF q = by THEN n ELSE 0)
    <2>1. s.opponent_tiles \in Nat
        BY DEF Accounts
    <2>2. q # d /\ by # d => q = by
        BY DEF Player
    <2> QED
        BY <1>1, <1>8, <1>9, <1>11, <2>1, <2>2 DEF CountOf
<1>13. ASSUME NEW q \in Player
       PROVE  CountOf(t, d, q) + t.pending[q] = CountOf(s, d, q) + s.pending[q]
    <2>1. t.pending[q] = (IF q = by THEN 0 ELSE s.pending[q])
        BY <1>1, <1>8 DEF Typed
    <2> QED
        BY <1>1, <1>3, <1>12, <2>1, CountNat
<1>14. t.opponent_tiles \in Nat
    BY <1>8 DEF Accounts
<1>15. Covered(t, d)
    <2>1. PICK o \in Player : o = Other(d) /\ o # d
        BY Others
    <2>2. /\ CountOf(t, d, o) = t.opponent_tiles /\ CountOf(s, d, o) = s.opponent_tiles
        BY <2>1 DEF CountOf
    <2>3. Covered(s, d)
        BY DEF Accounts
    <2>4. PICK m \in Nat : m = IF o = by THEN n ELSE 0
        OBVIOUS
    <2>5. /\ t.opponent_tiles = s.opponent_tiles + m
          /\ BackIn(t.events, o) = BackIn(s.events, o) + m
        BY <1>10, <1>12, <2>1, <2>2, <2>4
    <2>6. s.opponent_tiles \in Nat /\ s.bag \in Nat /\ BackIn(s.events, o) \in Nat /\ Size(s.unseen) \in Nat
        BY <2>1, CountNat DEF Accounts
    <2>7. CASE s.reveals[o] = None
        <3>1. s.bag + s.opponent_tiles <= Size(s.unseen) + BackIn(s.events, o)
            BY <2>1, <2>3, <2>7 DEF Covered
        <3>2. t.bag + t.opponent_tiles <= Size(t.unseen) + BackIn(t.events, o)
            BY <1>8, <2>4, <2>5, <2>6, <3>1
        <3> QED
            BY <2>1, <3>2 DEF Covered
    <2>8. CASE s.reveals[o] # None
        BY <1>8, <2>1, <2>8 DEF Covered
    <2> QED
        BY <2>7, <2>8
<1>16. ASSUME NEW q \in Player, q = Initiator \/ t.seed_hash[q] # None PROVE Full(t, d, q)
    <2>1. Full(s, d, q)
        BY <1>8, <1>16 DEF Accounts
    <2> QED
        BY <1>8, <1>13, <2>1 DEF Full
<1>17. ASSUME NEW q \in Player, t.seed_hash[q] = None PROVE Absent(t, d, q)
    <2>1. Absent(s, d, q) /\ q # by
        BY <1>1, <1>8, <1>17 DEF Accounts
    <2>2. t.pending[q] = s.pending[q]
        BY <1>8, <2>1 DEF Typed
    <2> QED
        BY <1>10, <1>12, <2>1, <2>2 DEF Absent
<1>18. Accounts(t, d)
    BY <1>14, <1>15, <1>16, <1>17 DEF Accounts
<1> QED
    BY <1>1, <1>3, <1>8, <1>10, <1>12, <1>13, <1>18

\* A refill is dealt in full as long as the own pool covers it.
LEMMA RefillCounts ==
    ASSUME NEW s, NEW d \in Player, NEW p \in Player, NEW nonce \in Nonce,
           NEW t, t = Refill(s, p, nonce), Typed(s, d), Accounts(s, d), MayDraw(s, d, p),
           p = d => Due(s, p) <= Size(s.unseen), s.seed_hash[p] # None \/ s.pending[p] = 0
    PROVE  /\ Accounts(t, d)
           /\ \A q \in Player :
                  /\ CountOf(t, d, q) = CountOf(s, d, q) + (IF q = p THEN Due(s, p) ELSE 0)
                  /\ BackIn(t.events, q) = BackIn(s.events, q)
           /\ Whole(s, d) /\ RACK <= s.bag => Whole(t, d)
<1>1. PICK m \in Nat : m = Due(s, p)
    BY DueFacts
<1>2. m = (IF s.pending[p] > s.bag THEN s.bag ELSE s.pending[p]) /\ s.bag \in Nat
      /\ s.pending[p] \in Nat
    BY <1>1 DEF Due, Typed
<1>3. RACK \in Nat
    BY OneAssumption
<1> DEFINE Facts ==
        /\ t.pending = [s.pending EXCEPT ![p] = 0] /\ t.bag = s.bag - m
        /\ t.seed_hash = s.seed_hash /\ t.reveals = s.reveals /\ t.opponent_tiles \in Nat
        /\ Size(t.unseen) = Size(s.unseen) - (IF p = d THEN m ELSE 0)
        /\ \A q \in Player : CountOf(t, d, q) = CountOf(s, d, q) + (IF q = p THEN m ELSE 0)
        /\ \A q \in Player : BackIn(t.events, q) = BackIn(s.events, q)
<1>4. Facts
    <2>1. Size(s.rack) \in Nat /\ Size(s.unseen) \in Nat /\ s.opponent_tiles \in Nat
        BY SizeNat DEF Typed, Accounts
    <2>2. CASE m = 0
        <3>1. t = [s EXCEPT !.pending[p] = 0]
            BY <1>1, <2>2 DEF Refill
        <3>2. /\ t.pending = [s.pending EXCEPT ![p] = 0] /\ t.bag = s.bag
              /\ t.seed_hash = s.seed_hash /\ t.reveals = s.reveals
              /\ t.opponent_tiles = s.opponent_tiles /\ t.unseen = s.unseen
              /\ t.rack = s.rack /\ t.events = s.events
            BY <3>1 DEF Typed, Fields
        <3>3. \A q \in Player : CountOf(t, d, q) = CountOf(s, d, q) /\ CountOf(s, d, q) \in Nat
            BY <2>1, <3>2 DEF CountOf
        <3> QED
            BY <1>2, <2>1, <2>2, <3>2, <3>3
    <2>3. CASE m # 0
        <3>1. PICK got \in Heaps : got = Draw(nonce, s.draws, m, s.unseen)
            BY DrawFacts DEF Typed
        <3>2. t = Refilled(s, p, nonce, m, got)
            BY <1>1, <2>3, <3>1 DEF Refill
        <3>3. PICK e : e = [type |-> "Draw", player |-> p, nonce |-> nonce, count |-> m]
            OBVIOUS
        <3>4. /\ t.pending = [s.pending EXCEPT ![p] = 0] /\ t.bag = s.bag - m
              /\ t.seed_hash = s.seed_hash /\ t.reveals = s.reveals
              /\ t.opponent_tiles = (IF s.me = p THEN s.opponent_tiles ELSE s.opponent_tiles + m)
              /\ t.unseen = (IF s.me = p THEN got.pool ELSE s.unseen)
              /\ t.rack = (IF s.me = p THEN Both(s.rack, got.tiles) ELSE s.rack)
              /\ t.events = Append(s.events, e)
            BY <3>2, <3>3 DEF Refilled, Typed, Fields
        <3>5. s.me = p <=> p = d
            <4>1. s.pending[p] # 0
                BY <1>2, <2>3
            <4> QED
                BY <4>1 DEF MayDraw, Typed, Nobody, Player
        <3>6. /\ got.tiles \in Counts /\ got.pool \in Counts
              /\ p = d => Size(got.tiles) = m /\ Size(got.pool) = Size(s.unseen) - m
            <4>1. s.draws \in Nat /\ s.unseen \in Counts
                BY DEF Typed
            <4>2. /\ Size(got.tiles) = (IF m > Size(s.unseen) THEN Size(s.unseen) ELSE m)
                  /\ Size(got.pool) = Size(s.unseen) - Size(got.tiles)
                BY <3>1, <4>1, DrawFacts
            <4> QED
                BY <1>1, <2>1, <4>2 DEF Heaps
        <3>7. Size(Both(s.rack, got.tiles)) = Size(s.rack) + Size(got.tiles)
            BY <3>6, SizeBoth DEF Typed
        <3>8. \A q \in Player : CountOf(t, d, q) = CountOf(s, d, q) + (IF q = p THEN m ELSE 0)
            <4>1. \A q \in Player : q # d /\ p # d => q = p
                BY DEF Player
            <4> QED
                BY <2>1, <3>4, <3>5, <3>6, <3>7, <4>1 DEF CountOf
        <3>9. \A q \in Player : BackIn(t.events, q) = BackIn(s.events, q)
            <4>1. e \in Event /\ e.type = "Draw"
                BY <3>3 DEF Event, DrawEvent
            <4>2. \A q : Taken(e, q) = 0
                BY <4>1 DEF Taken
            <4>3. \A q : BackIn(t.events, q) = BackIn(s.events, q) + 0 /\ BackIn(s.events, q) \in Nat
                BY <3>4, <4>1, <4>2, BackMore, BackNat DEF Typed
            <4> QED
                BY <4>3
        <3> QED
            BY <2>1, <3>4, <3>5, <3>6, <3>8, <3>9
    <2> QED
        BY <2>2, <2>3
<1>5. \A q \in Player : t.pending[q] = IF q = p THEN 0 ELSE s.pending[q]
    BY <1>4 DEF Typed
<1>6. ASSUME NEW q \in Player, Full(s, d, q) PROVE Full(t, d, q)
    <2>1. CountOf(s, d, q) \in Nat /\ s.pending[q] \in Nat
        BY CountNat
    <2>2. CASE q = p
        BY <1>2, <1>3, <1>4, <1>5, <1>6, <2>1, <2>2 DEF Full
    <2>3. CASE q # p
        BY <1>2, <1>3, <1>4, <1>5, <1>6, <2>1, <2>3 DEF Full
    <2> QED
        BY <2>2, <2>3
<1>7. ASSUME NEW q \in Player, Absent(s, d, q), s.seed_hash[q] = None PROVE Absent(t, d, q)
    <2>1. q = p => m = 0
        BY <1>2, <1>7
    <2>2. t.pending[q] \in {0, s.pending[q]}
        BY <1>5
    <2>3. CountOf(t, d, q) = CountOf(s, d, q)
        BY <1>4, <1>7, <2>1 DEF Absent
    <2> QED
        BY <1>4, <1>7, <2>2, <2>3 DEF Absent
<1>8. Covered(t, d)
    <2>1. PICK o \in Player : o = Other(d) /\ o # d /\ \A q \in Player : q = d \/ q = o
        BY Others DEF Player, Other
    <2>2. t.opponent_tiles = s.opponent_tiles + (IF p = d THEN 0 ELSE m)
        BY <1>4, <2>1 DEF CountOf
    <2>3. s.opponent_tiles \in Nat /\ BackIn(s.events, o) \in Nat /\ Size(s.unseen) \in Nat
        BY <2>1, CountNat DEF Accounts
    <2>4. CASE s.reveals[o] = None
        <3>1. s.bag + s.opponent_tiles <= Size(s.unseen) + BackIn(s.events, o)
            BY <2>1, <2>4 DEF Accounts, Covered
        <3>2. t.bag + t.opponent_tiles <= Size(t.unseen) + BackIn(t.events, o)
            BY <1>2, <1>4, <2>1, <2>2, <2>3, <3>1
        <3> QED
            BY <2>1, <3>2 DEF Covered
    <2>5. CASE s.reveals[o] # None
        BY <1>4, <2>1, <2>5 DEF Covered
    <2> QED
        BY <2>4, <2>5
<1>9. Accounts(t, d)
    BY <1>4, <1>6, <1>7, <1>8 DEF Accounts
<1>10. ASSUME Whole(s, d), RACK <= s.bag PROVE Whole(t, d)
    <2>1. ASSUME NEW q \in Player PROVE CountOf(t, d, q) + t.pending[q] = RACK
        <3>1. CountOf(s, d, q) \in Nat /\ s.pending[q] \in Nat /\ CountOf(s, d, q) + s.pending[q] = RACK
            BY <1>10, CountNat DEF Whole
        <3> QED
            BY <1>2, <1>3, <1>4, <1>5, <1>10, <3>1
    <2> QED
        BY <2>1 DEF Whole
<1> QED
    BY <1>1, <1>4, <1>9, <1>10

LEMMA PublishCounts ==
    ASSUME NEW s, NEW d \in Player, NEW p \in Player, NEW promise,
           NEW t, t = Publish(s, p, promise), Typed(s, d), Accounts(s, d),
           promise = None \/ (\E h \in Promise : promise = Some(h))
    PROVE  /\ Accounts(t, d) /\ t.bag = s.bag
           /\ \A q \in Player : /\ CountOf(t, d, q) = CountOf(s, d, q)
                                /\ BackIn(t.events, q) = BackIn(s.events, q)
           /\ Whole(s, d) => Whole(t, d)
<1>1. CASE promise = None
    BY <1>1 DEF Publish
<1>2. CASE promise # None
    <2>1. PICK hash \in Promise : promise = Some(hash)
        BY <1>2
    <2>2. promise[1] = hash
        BY <2>1 DEF Some
    <2>3. PICK e : e = [type |-> "Commitment", player |-> p, hash |-> hash]
        OBVIOUS
    <2>4. /\ t.rack = s.rack /\ t.unseen = s.unseen /\ t.bag = s.bag /\ t.pending = s.pending
          /\ t.opponent_tiles = s.opponent_tiles /\ t.seed_hash = s.seed_hash
          /\ t.reveals = s.reveals /\ t.events = Append(s.events, e)
        BY <1>2, <2>2, <2>3 DEF Publish, Typed, Fields
    <2>5. e \in Event /\ e.type = "Commitment"
        BY <2>3 DEF Event, PromiseEvent
    <2>6. \A q : Taken(e, q) = 0
        BY <2>5 DEF Taken
    <2>7. \A q : BackIn(t.events, q) = BackIn(s.events, q) + 0 /\ BackIn(s.events, q) \in Nat
        BY <2>4, <2>5, <2>6, BackMore, BackNat DEF Typed
    <2>8. \A q \in Player : BackIn(t.events, q) = BackIn(s.events, q)
        BY <2>7
    <2>9. \A q \in Player : CountOf(t, d, q) = CountOf(s, d, q)
        BY <2>4 DEF CountOf
    <2>10. \A q \in Player : /\ Full(s, d, q) => Full(t, d, q)
                             /\ Absent(s, d, q) => Absent(t, d, q)
        BY <2>4, <2>8, <2>9 DEF Full, Absent
    <2>11. Covered(t, d)
        BY <2>4, <2>8, Others DEF Covered, Accounts
    <2>12. Accounts(t, d)
        BY <2>4, <2>10, <2>11 DEF Accounts
    <2>13. Whole(s, d) => Whole(t, d)
        BY <2>4, <2>9 DEF Whole
    <2> QED
        BY <2>4, <2>8, <2>9, <2>12, <2>13
<1> QED
    BY <1>1, <1>2

\* Tiles a player puts down or gives up, and what has to hold of them.
Spent(mv) ==
    IF mv.type = "Place" THEN Size(mv.tiles)
    ELSE IF mv.type = "Exchange" THEN Size(mv.masked.tiles) ELSE 0

Fits(s, d, mv, p) ==
    /\ mv.type \in {"Place", "Exchange"} =>
           /\ s.pending[p] = 0 /\ (s.me = p <=> p = d) /\ s.seed_hash[p] # None
           /\ Spent(mv) <= CountOf(s, d, p)
    /\ mv.type = "Exchange" => Whole(s, d)
    /\ mv.type = "Commit" => s.seed_hash[p] = None

LEMMA EventAdds ==
    ASSUME NEW s, NEW d, Typed(s, d), NEW e \in Event, e.type # "Seen", NEW events,
           Ends(events, s.events, e)
    PROVE  \A q : BackIn(events, q) = BackIn(s.events, q)
<1>1. \A q : Taken(e, q) = 0
    BY DEF Taken
<1>2. events = Append(s.events, e)
    BY DEF Ends
<1>3. \A q : BackIn(events, q) = BackIn(s.events, q) + 0 /\ BackIn(s.events, q) \in Nat
    BY <1>1, <1>2, BackMore, BackNat DEF Typed
<1> QED
    BY <1>3

LEMMA PlaceCounts ==
    ASSUME NEW s, NEW d \in Player, NEW p \in Player, NEW mv, NEW t, t = Place(s, mv, p),
           Typed(s, d), Accounts(s, d), mv.type = "Place", Ready(s, d, mv, p), Fits(s, d, mv, p)
    PROVE  /\ Accounts(t, d)
           /\ t.last_play # None /\ t.last_play[1].tiles = mv.tiles /\ t.last_play[1].by = p
           /\ t.pending[p] = Size(mv.tiles)
           /\ \A q \in Player :
                  /\ CountOf(t, d, q) = CountOf(s, d, q) - (IF q = p THEN Spent(mv) ELSE 0)
                  /\ BackIn(t.events, q) = BackIn(s.events, q)
<1>1. PICK tiles \in Counts : tiles = mv.tiles
    BY DEF Ready
<1>2. PICK n \in Nat : n = Size(tiles)
    BY SizeNat
<1>3. /\ n = Spent(mv) /\ s.pending[p] = 0 /\ (s.me = p <=> p = d) /\ s.seed_hash[p] # None
      /\ n <= CountOf(s, d, p) /\ (p = d => Holds(s.rack, tiles))
    BY <1>1, <1>2 DEF Fits, Spent, Ready
<1>4. PICK e : e = [type |-> "Played", player |-> p, tiles |-> tiles]
    OBVIOUS
<1>5. PICK play : play = [by |-> p, tiles |-> tiles, real |-> mv.real, score |-> RackValue(tiles)]
    OBVIOUS
<1>6. /\ t.rack = (IF s.me = p THEN Without(s.rack, tiles) ELSE s.rack)
      /\ t.opponent_tiles = (IF s.me = p THEN s.opponent_tiles
                             ELSE SaturatingSub(s.opponent_tiles, n))
      /\ t.unseen = (IF s.me = p THEN s.unseen ELSE Forget(s.unseen, tiles))
      /\ t.pending = [s.pending EXCEPT ![p] = n] /\ t.bag = s.bag
      /\ t.seed_hash = s.seed_hash /\ t.reveals = s.reveals
      /\ t.events = Append(s.events, e) /\ t.last_play = Some(play)
    BY <1>1, <1>2, <1>4, <1>5 DEF Place, Typed, Fields
<1>7. \A q \in Player : BackIn(t.events, q) = BackIn(s.events, q)
    <2>1. e \in Event /\ e.type = "Played"
        BY <1>4 DEF Event, PlayEvent
    <2>2. Ends(t.events, s.events, e)
        BY <1>6 DEF Ends
    <2> QED
        BY <2>1, <2>2, EventAdds
<1>8. Size(s.rack) \in Nat /\ Size(s.unseen) \in Nat /\ s.opponent_tiles \in Nat
    BY SizeNat DEF Typed, Accounts
<1>9. \A q \in Player : CountOf(t, d, q) = CountOf(s, d, q) - (IF q = p THEN n ELSE 0)
    <2>1. p = d => Size(Without(s.rack, tiles)) = Size(s.rack) - n
        BY <1>2, <1>3, SizeWithout DEF Typed
    <2>2. p # d => SaturatingSub(s.opponent_tiles, n) = s.opponent_tiles - n
        BY <1>2, <1>3, <1>8 DEF SaturatingSub, CountOf
    <2>3. \A q \in Player : q # d /\ p # d => q = p
        BY DEF Player
    <2> QED
        BY <1>3, <1>6, <1>8, <2>1, <2>2, <2>3 DEF CountOf
<1>10. t.opponent_tiles \in Nat
    BY <1>6, <1>8 DEF SaturatingSub
<1>11. \A q \in Player : t.pending[q] = IF q = p THEN n ELSE s.pending[q]
    BY <1>6 DEF Typed
<1>12. ASSUME NEW q \in Player, Full(s, d, q) PROVE Full(t, d, q)
    <2>1. CountOf(s, d, q) \in Nat /\ s.pending[q] \in Nat
        BY CountNat
    <2>2. CountOf(t, d, q) + t.pending[q] = CountOf(s, d, q) + s.pending[q]
        BY <1>3, <1>9, <1>11, <2>1
    <2> QED
        BY <1>6, <1>12, <2>2 DEF Full
<1>13. ASSUME NEW q \in Player, s.seed_hash[q] = None, Absent(s, d, q) PROVE Absent(t, d, q)
    <2>1. q # p
        BY <1>3, <1>13
    <2>2. CountOf(t, d, q) = CountOf(s, d, q) /\ t.pending[q] = s.pending[q]
        BY <1>9, <1>11, <1>13, <2>1 DEF Absent
    <2> QED
        BY <1>7, <1>13, <2>2 DEF Absent
<1>14. Covered(t, d)
    <2>1. PICK o \in Player : o = Other(d) /\ o # d /\ \A q \in Player : q = d \/ q = o
        BY Others DEF Player, Other
    <2>2. t.opponent_tiles = s.opponent_tiles - (IF p = d THEN 0 ELSE n)
        BY <1>9, <2>1 DEF CountOf
    <2>3. BackIn(s.events, o) \in Nat /\ s.bag \in Nat
        BY <2>1, CountNat
    <2>4. Size(t.unseen) \in Nat /\ Size(s.unseen) - (IF p = d THEN 0 ELSE n) <= Size(t.unseen)
        <3>1. /\ Size(s.unseen) - n <= Size(Forget(s.unseen, tiles))
              /\ Size(Forget(s.unseen, tiles)) \in Nat
            BY <1>2, SizeForget, SizeNat DEF Typed
        <3> QED
            BY <1>2, <1>3, <1>6, <1>8, <3>1
    <2>5. CASE s.reveals[o] = None
        <3>1. s.bag + s.opponent_tiles <= Size(s.unseen) + BackIn(s.events, o)
            BY <2>1, <2>5 DEF Accounts, Covered
        <3>2. t.bag + t.opponent_tiles <= Size(t.unseen) + BackIn(t.events, o)
            BY <1>6, <1>7, <1>8, <2>1, <2>2, <2>3, <2>4, <3>1
        <3> QED
            BY <2>1, <3>2 DEF Covered
    <2>6. CASE s.reveals[o] # None
        BY <1>6, <2>1, <2>6 DEF Covered
    <2> QED
        BY <2>5, <2>6
<1>15. Accounts(t, d)
    BY <1>6, <1>10, <1>12, <1>13, <1>14 DEF Accounts
<1>16. t.last_play # None /\ t.last_play[1].tiles = mv.tiles /\ t.last_play[1].by = p
    BY <1>1, <1>5, <1>6 DEF Some, None
<1> QED
    BY <1>1, <1>2, <1>3, <1>7, <1>9, <1>11, <1>15, <1>16

LEMMA ExchangeCounts ==
    ASSUME NEW s, NEW d \in Player, NEW p \in Player, NEW mv, NEW t, t = Exchange(s, mv, p),
           Typed(s, d), Accounts(s, d), mv.type = "Exchange", Ready(s, d, mv, p),
           Fits(s, d, mv, p)
    PROVE  /\ Accounts(t, d)
           /\ \A q \in Player :
                  /\ CountOf(t, d, q) = CountOf(s, d, q) - (IF q = p THEN Spent(mv) ELSE 0)
                  /\ BackIn(t.events, q) = BackIn(s.events, q)
<1>1. PICK masked \in Masked : masked = mv.masked
    BY DEF Ready
<1>2. PICK tiles \in Counts : tiles = masked.tiles
    BY DEF Masked
<1>3. PICK n \in Nat : n = Size(tiles)
    BY SizeNat
<1>4. /\ n = Spent(mv) /\ s.pending[p] = 0 /\ (s.me = p <=> p = d) /\ s.seed_hash[p] # None
      /\ n <= CountOf(s, d, p) /\ (p = d => Holds(s.rack, tiles)) /\ Whole(s, d)
    BY <1>1, <1>2, <1>3 DEF Fits, Spent, Ready
<1>5. PICK e : e = [type |-> "Exchanged", player |-> p, masked |-> masked]
    OBVIOUS
<1>6. /\ t.rack = (IF s.me = p THEN Without(s.rack, tiles) ELSE s.rack)
      /\ t.opponent_tiles = (IF s.me = p THEN s.opponent_tiles
                             ELSE SaturatingSub(s.opponent_tiles, n))
      /\ t.unseen = (IF s.me = p THEN Both(s.unseen, tiles) ELSE s.unseen)
      /\ t.pending = [s.pending EXCEPT ![p] = n] /\ t.bag = s.bag + n
      /\ t.seed_hash = s.seed_hash /\ t.reveals = s.reveals
      /\ t.events = Append(s.events, e)
    BY <1>1, <1>2, <1>3, <1>5 DEF Exchange, Typed, Fields
<1>7. \A q \in Player : BackIn(t.events, q) = BackIn(s.events, q)
    <2>1. e \in Event /\ e.type = "Exchanged"
        BY <1>5 DEF Event, SwapEvent
    <2>2. Ends(t.events, s.events, e)
        BY <1>6 DEF Ends
    <2> QED
        BY <2>1, <2>2, EventAdds
<1>8. Size(s.rack) \in Nat /\ Size(s.unseen) \in Nat /\ s.opponent_tiles \in Nat
    BY SizeNat DEF Typed, Accounts
<1>9. \A q \in Player : CountOf(t, d, q) = CountOf(s, d, q) - (IF q = p THEN n ELSE 0)
    <2>1. p = d => Size(Without(s.rack, tiles)) = Size(s.rack) - n
        BY <1>3, <1>4, SizeWithout DEF Typed
    <2>2. p # d => SaturatingSub(s.opponent_tiles, n) = s.opponent_tiles - n
        BY <1>3, <1>4, <1>8 DEF SaturatingSub, CountOf
    <2>3. \A q \in Player : q # d /\ p # d => q = p
        BY DEF Player
    <2> QED
        BY <1>4, <1>6, <1>8, <2>1, <2>2, <2>3 DEF CountOf
<1>10. t.opponent_tiles \in Nat
    BY <1>6, <1>8 DEF SaturatingSub
<1>11. \A q \in Player : t.pending[q] = IF q = p THEN n ELSE s.pending[q]
    BY <1>6 DEF Typed
<1>12. ASSUME NEW q \in Player PROVE Full(t, d, q)
    <2>1. CountOf(s, d, q) \in Nat /\ s.pending[q] \in Nat /\ CountOf(s, d, q) + s.pending[q] = RACK
        BY <1>4, CountNat DEF Whole
    <2>2. CountOf(t, d, q) + t.pending[q] = CountOf(s, d, q) + s.pending[q]
        BY <1>4, <1>9, <1>11, <2>1
    <2> QED
        BY <2>1, <2>2, OneAssumption DEF Full
<1>13. ASSUME NEW q \in Player, s.seed_hash[q] = None, Absent(s, d, q) PROVE Absent(t, d, q)
    <2>1. q # p
        BY <1>4, <1>13
    <2>2. CountOf(t, d, q) = CountOf(s, d, q) /\ t.pending[q] = s.pending[q]
        BY <1>9, <1>11, <1>13, <2>1 DEF Absent
    <2> QED
        BY <1>7, <1>13, <2>2 DEF Absent
<1>14. Covered(t, d)
    <2>1. PICK o \in Player : o = Other(d) /\ o # d /\ \A q \in Player : q = d \/ q = o
        BY Others DEF Player, Other
    <2>2. t.opponent_tiles = s.opponent_tiles - (IF p = d THEN 0 ELSE n)
        BY <1>9, <2>1 DEF CountOf
    <2>3. BackIn(s.events, o) \in Nat /\ s.bag \in Nat
        BY <2>1, CountNat
    <2>4. Size(t.unseen) = Size(s.unseen) + (IF p = d THEN n ELSE 0)
        <3>1. Size(Both(s.unseen, tiles)) = Size(s.unseen) + n
            BY <1>3, SizeBoth DEF Typed
        <3> QED
            BY <1>4, <1>6, <1>8, <3>1
    <2>5. CASE s.reveals[o] = None
        <3>1. s.bag + s.opponent_tiles <= Size(s.unseen) + BackIn(s.events, o)
            BY <2>1, <2>5 DEF Accounts, Covered
        <3>2. t.bag + t.opponent_tiles <= Size(t.unseen) + BackIn(t.events, o)
            BY <1>6, <1>7, <1>8, <2>1, <2>2, <2>3, <2>4, <3>1
        <3> QED
            BY <2>1, <3>2 DEF Covered
    <2>6. CASE s.reveals[o] # None
        BY <1>6, <2>1, <2>6 DEF Covered
    <2> QED
        BY <2>5, <2>6
<1>15. Accounts(t, d)
    BY <1>6, <1>10, <1>12, <1>13, <1>14 DEF Accounts
<1> QED
    BY <1>4, <1>7, <1>9, <1>15

LEMMA CommitCounts ==
    ASSUME NEW s, NEW d \in Player, NEW p \in Player, NEW mv, NEW t, t = Commit(s, mv, p),
           Typed(s, d), Accounts(s, d), s.seed_hash[p] = None
    PROVE  /\ Accounts(t, d) /\ t.events = s.events /\ t.seed_hash[p] # None
           /\ \A q \in Player : /\ CountOf(t, d, q) = CountOf(s, d, q)
                                /\ q # p => t.seed_hash[q] = s.seed_hash[q]
<1>1. PICK seed : seed = mv.seed
    OBVIOUS
<1>2. /\ t.rack = s.rack /\ t.unseen = s.unseen /\ t.bag = s.bag
      /\ t.opponent_tiles = s.opponent_tiles /\ t.events = s.events /\ t.reveals = s.reveals
      /\ t.seed_hash = [s.seed_hash EXCEPT ![p] = Some(seed)]
      /\ t.pending = [s.pending EXCEPT ![Claimer] = IF p = Claimer THEN RACK ELSE @]
    BY <1>1 DEF Commit, Typed, Fields
<1>3. Claimer \in Player /\ RACK \in Nat /\ Some(seed) # None
    BY OneAssumption DEF Claimer, Player, Some, None
<1>4. /\ t.seed_hash[p] = Some(seed) /\ t.seed_hash[p] # None
      /\ \A q \in Player : /\ q # p => t.seed_hash[q] = s.seed_hash[q]
                           /\ t.pending[q] = IF q = p /\ q = Claimer THEN RACK ELSE s.pending[q]
    BY <1>2, <1>3 DEF Typed
<1>5. \A q \in Player : CountOf(t, d, q) = CountOf(s, d, q)
    BY <1>2 DEF CountOf
<1>6. ASSUME NEW q \in Player, q = Initiator \/ t.seed_hash[q] # None PROVE Full(t, d, q)
    <2>1. CASE q = p /\ q = Claimer
        <3>1. CountOf(t, d, q) = 0 /\ t.pending[q] = RACK
            BY <1>4, <1>5, <2>1 DEF Accounts, Absent
        <3> QED
            BY <1>3, <3>1 DEF Full
    <2>2. CASE ~(q = p /\ q = Claimer)
        <3>1. q = Initiator \/ s.seed_hash[q] # None
            BY <1>4, <1>6, <2>2 DEF Player, Initiator, Claimer
        <3>2. Full(s, d, q) /\ t.pending[q] = s.pending[q]
            BY <1>4, <2>2, <3>1 DEF Accounts
        <3> QED
            BY <1>2, <1>5, <3>2 DEF Full
    <2> QED
        BY <2>1, <2>2
<1>7. ASSUME NEW q \in Player, t.seed_hash[q] = None PROVE Absent(t, d, q)
    <2>1. q # p
        BY <1>4, <1>7
    <2>2. Absent(s, d, q) /\ t.pending[q] = s.pending[q]
        BY <1>4, <1>7, <2>1 DEF Accounts
    <2> QED
        BY <1>2, <1>5, <2>2 DEF Absent
<1>8. Covered(t, d) /\ t.opponent_tiles \in Nat
    BY <1>2 DEF Covered, Accounts
<1> QED
    BY <1>2, <1>4, <1>5, <1>6, <1>7, <1>8 DEF Accounts

LEMMA UnveiledCounts ==
    ASSUME NEW s, NEW d \in Player, NEW p \in Player, NEW mv, NEW t, t = Unveiled(s, mv, p),
           Typed(s, d), Accounts(s, d), p = d => s.me = d
    PROVE  /\ Accounts(t, d) /\ t.events = s.events
           /\ \A q \in Player : CountOf(t, d, q) = CountOf(s, d, q)
<1>1. PICK o : o = [seed |-> mv.seed, rack |-> mv.rack]
    OBVIOUS
<1>2. /\ t.rack = s.rack /\ t.bag = s.bag /\ t.pending = s.pending
      /\ t.opponent_tiles = s.opponent_tiles /\ t.events = s.events
      /\ t.seed_hash = s.seed_hash /\ t.reveals = [s.reveals EXCEPT ![p] = Some(o)]
      /\ t.unseen = (IF s.me = p THEN s.unseen ELSE Forget(s.unseen, mv.rack))
    BY <1>1 DEF Unveiled, Typed, Fields
<1>3. \A q \in Player : CountOf(t, d, q) = CountOf(s, d, q)
    BY <1>2 DEF CountOf
<1>4. \A q \in Player : (Full(s, d, q) => Full(t, d, q)) /\ (Absent(s, d, q) => Absent(t, d, q))
    BY <1>2, <1>3 DEF Full, Absent
<1>5. Covered(t, d)
    <2>1. PICK q \in Player : q = Other(d) /\ q # d
        BY Others
    <2>2. CASE p = d
        <3>1. t.unseen = s.unseen /\ t.reveals[q] = s.reveals[q]
            BY <1>2, <2>1, <2>2 DEF Typed
        <3>2. Covered(s, d)
            BY DEF Accounts
        <3> QED
            BY <1>2, <2>1, <3>1, <3>2 DEF Covered
    <2>3. CASE p # d
        <3>1. p = q
            BY <2>1, <2>3 DEF Player
        <3>2. t.reveals[q] # None
            BY <1>2, <3>1 DEF Typed, Some, None
        <3> QED
            BY <2>1, <3>2 DEF Covered
    <2> QED
        BY <2>2, <2>3
<1> QED
    BY <1>2, <1>3, <1>4, <1>5 DEF Accounts

LEMMA SameHeapsOf ==
    ASSUME NEW s, NEW p, NEW mv, DOMAIN s = Fields
    PROVE  /\ SameHeaps(s, Toss(s, mv)) /\ SameHeaps(s, Scoreless(s)) /\ SameHeaps(s, Forfeit(s))
           /\ SameHeaps(s, Settle(s)) /\ SameHeaps(s, Closed(s, p))
<1>1. SameHeaps(s, Toss(s, mv))
    BY DEF SameHeaps, Toss, Fields
<1>2. SameHeaps(s, Scoreless(s)) /\ SameHeaps(s, Forfeit(s))
    BY DEF SameHeaps, Scoreless, Forfeit, Fields
<1>3. SameHeaps(s, Settle(s))
    <2>1. CASE None \in {s.reveals[q] : q \in Player}
        BY <2>1 DEF Settle, SameHeaps
    <2>2. CASE ~(None \in {s.reveals[q] : q \in Player})
        <3>1. PICK verdict, final : verdict = Verdict(s) /\ final = FinalScores(s)
            OBVIOUS
        <3>2. PICK t : t = Decided(s, verdict, final)
            OBVIOUS
        <3>3. Settle(s) = t
            BY <2>2, <3>1, <3>2 DEF Settle
        <3>4. SameHeaps(s, t)
            BY <3>2 DEF Decided, SameHeaps, Fields
        <3> QED
            BY <3>3, <3>4
    <2> QED
        BY <2>1, <2>2
<1>4. SameHeaps(s, Closed(s, p))
    <2>1. PICK x : x = CheckEnding(s, p)
        OBVIOUS
    <2>2. \/ x = s
          \/ x = [s EXCEPT !.ending = TRUE]
          \/ x = [s EXCEPT !.ending = TRUE, !.went_out = p]
        BY <2>1 DEF CheckEnding
    <2>3. SameHeaps(s, x) /\ DOMAIN x = Fields
        BY <2>2 DEF SameHeaps, Fields
    <2>4. PICK t : t = [x EXCEPT !.index = @ + 1]
        OBVIOUS
    <2>5. SameHeaps(s, t)
        BY <2>3, <2>4 DEF SameHeaps, Fields
    <2> QED
        BY <2>1, <2>4, <2>5 DEF Closed
<1> QED
    BY <1>1, <1>2, <1>3, <1>4

\* What an entry does with the tiles, whoever counts them.
Changed(s, t, d, mv, p) ==
    \A q \in Player :
        /\ CountOf(t, d, q) = CountOf(s, d, q) - (IF q = p THEN Spent(mv) ELSE 0)
        /\ BackIn(t.events, q) = BackIn(s.events, q)

LEMMA NothingSpent ==
    ASSUME NEW s, NEW t, NEW d \in Player, NEW mv, NEW p, Typed(s, d), Accounts(s, d),
           Spent(mv) = 0, t.events = s.events,
           \A q \in Player : CountOf(t, d, q) = CountOf(s, d, q)
    PROVE  Changed(s, t, d, mv, p)
    BY CountNat DEF Changed

LEMMA DoneCounts ==
    ASSUME NEW s, NEW d \in Player, NEW p \in Player, NEW mv, NEW t, t = Done(s, mv, p),
           Typed(s, d), Accounts(s, d), Ready(s, d, mv, p), Fits(s, d, mv, p)
    PROVE  Accounts(t, d) /\ Changed(s, t, d, mv, p)
<1>1. CASE mv.type = "Commit"
    <2>1. t = Commit(s, mv, p) /\ Spent(mv) = 0 /\ s.seed_hash[p] = None
        BY <1>1 DEF Done, Spent, Fits
    <2>2. Accounts(t, d) /\ t.events = s.events /\ \A q \in Player : CountOf(t, d, q) = CountOf(s, d, q)
        BY <2>1, CommitCounts
    <2> QED
        BY <2>1, <2>2, NothingSpent
<1>2. CASE mv.type \in {"Toss", "Yield", "Pass", "Challenge", "Forfeit"}
    <2>1. Spent(mv) = 0
        BY <1>2 DEF Spent
    <2>2. DOMAIN s = Fields
        BY DEF Typed
    <2>3. \/ t = Toss(s, mv) \/ t = s \/ t = Scoreless(s) \/ t = Forfeit(s)
        BY <1>2 DEF Done
    <2>4. SameHeaps(s, t)
        BY <2>2, <2>3, SameHeapsOf DEF SameHeaps
    <2>5. Accounts(t, d) /\ t.events = s.events /\ \A q \in Player : CountOf(t, d, q) = CountOf(s, d, q)
        BY <2>4, HeapsAlike DEF SameHeaps
    <2> QED
        BY <2>1, <2>5, NothingSpent
<1>3. CASE mv.type = "Place"
    <2>1. t = Place(s, mv, p)
        BY <1>3 DEF Done
    <2> QED
        BY <1>3, <2>1, PlaceCounts DEF Changed
<1>4. CASE mv.type = "Exchange"
    <2>1. t = Exchange(s, mv, p)
        BY <1>4 DEF Done
    <2> QED
        BY <1>4, <2>1, ExchangeCounts DEF Changed
<1>5. CASE mv.type = "Reveal"
    <2>1. PICK r : r = Unveiled(s, mv, p)
        OBVIOUS
    <2>2. t = Settle(r) /\ Spent(mv) = 0 /\ (p = d => s.me = d)
        BY <1>5, <2>1 DEF Done, Reveal, Unveiled, Spent, Ready
    <2>3. Accounts(r, d) /\ r.events = s.events /\ \A q \in Player : CountOf(r, d, q) = CountOf(s, d, q)
        BY <2>1, <2>2, UnveiledCounts
    <2>4. DOMAIN r = Fields
        BY <2>1 DEF Unveiled, Typed
    <2>5. SameHeaps(r, t)
        BY <2>2, <2>4, SameHeapsOf
    <2>6. Accounts(t, d) /\ t.events = s.events /\ \A q \in Player : CountOf(t, d, q) = CountOf(s, d, q)
        BY <2>3, <2>5, HeapsAlike DEF SameHeaps
    <2> QED
        BY <2>2, <2>6, NothingSpent
<1> QED
    BY <1>1, <1>2, <1>3, <1>4, <1>5 DEF Ready, MoveTypes

\* What a challenge may give back is still owed in tiles; who has committed is
\* told by the turn.
Refund(s) ==
    (\A q \in Player : s.reveals[q] = None) /\ s.last_play # None =>
        s.pending[s.last_play[1].by] = Size(s.last_play[1].tiles)

Committed(s) == \A q \in Player : s.seed_hash[q] = None <=> s.index <= q

LEMMA CommittedFacts ==
    ASSUME NEW s, NEW d \in Player, NEW p, p = ToMove(s), Control(s, d), Committed(s)
    PROVE  /\ s.index < 2 => s.seed_hash[p] = None
           /\ s.index > 1 => \A q \in Player : s.seed_hash[q] # None
           /\ s.index = 0 => s.seed_hash[p] = None /\ p = Initiator /\ Other(p) = Claimer
           /\ s.index = 1 => s.seed_hash[Other(p)] # None
<1>1. s.index \in Nat
    BY DEF Control
<1>2. s.index > 1 => \A q \in Player : s.seed_hash[q] # None
    BY <1>1 DEF Committed, Player
<1>3. CASE s.index = 0
    <2>1. p = 0
        BY <1>3 DEF ToMove
    <2> QED
        BY <1>3, <2>1 DEF Committed, Player, Initiator, Claimer, Other
<1>4. CASE s.index = 1
    <2>1. p = 1
        BY <1>4 DEF ToMove
    <2> QED
        BY <1>4, <2>1 DEF Committed, Player, Initiator, Claimer, Other
<1> QED
    BY <1>1, <1>2, <1>3, <1>4

LEMMA SettledCounts ==
    ASSUME NEW s, NEW d \in Player, NEW p \in Player, NEW c \in BOOLEAN, NEW mv,
           NEW t, t = Settled(s, mv), Tiles(s, d, c), Control(s, d), Accounts(s, d),
           Refund(s), Committed(s), Carries(s, d, mv, p), ValidMove(s, mv, p)
    PROVE  /\ Accounts(t, d) /\ t.bag = s.bag
           /\ \A q \in Player :
                  /\ CountOf(t, d, q) = CountOf(s, d, q) + Returned(s, mv, q)
                  /\ BackIn(t.events, q) = BackIn(s.events, q) + Returned(s, mv, q)
<1>1. Typed(s, d) /\ mv.type \in MoveTypes
    BY DEF Tiles, Carries
<1>2. CASE ~(mv.type = "Challenge" /\ ~s.last_play[1].real)
    <2>1. t = s /\ \A q : Returned(s, mv, q) = 0
        BY <1>2 DEF Settled, Returned
    <2>2. \A q \in Player : CountOf(s, d, q) \in Nat /\ BackIn(s.events, q) \in Nat
        BY <1>1, CountNat
    <2> QED
        BY <2>1, <2>2
<1>3. CASE mv.type = "Challenge" /\ ~s.last_play[1].real
    <2>1. PICK play : play = s.last_play[1]
        OBVIOUS
    <2>2. t = Retract(s, play)
        BY <1>3, <2>1 DEF Settled
    <2>3. /\ s.last_play # None /\ play.by = Other(p) /\ s.index > 2 /\ p = ToMove(s)
          /\ \A q \in Player : s.reveals[q] = None
        BY <1>1, <1>3, <2>1, ValidFacts
    <2>4. LastIs(s)
        BY <2>3 DEF Control, Challenging
    <2>5. PICK front \in Seq(Event), e \in PlayEvent :
              Ends(s.events, front, e) /\ e.type = "Played" /\ e.player = play.by
              /\ e.tiles = play.tiles
        BY <2>1, <2>4 DEF LastIs
    <2>6. s.me = d /\ s.index > 1
        BY <2>3 DEF Control, Player
    <2>7. s.pending[play.by] = Size(play.tiles)
        BY <2>1, <2>3 DEF Refund
    <2>8. s.seed_hash[play.by] # None
        BY <2>3, <2>6, CommittedFacts, Others
    <2>9. /\ Accounts(t, d) /\ t.bag = s.bag
          /\ \A q \in Player :
                 /\ CountOf(t, d, q) = CountOf(s, d, q) + (IF q = play.by THEN Size(play.tiles) ELSE 0)
                 /\ BackIn(t.events, q) = BackIn(s.events, q) + (IF q = play.by THEN Size(play.tiles) ELSE 0)
        BY <1>1, <2>2, <2>5, <2>6, <2>7, <2>8, RetractCounts
    <2>10. \A q : Returned(s, mv, q) = IF q = play.by THEN Size(play.tiles) ELSE 0
        BY <1>3, <2>1 DEF Returned
    <2> QED
        BY <2>9, <2>10
<1> QED
    BY <1>2, <1>3

\* The pool of a device covers what it is dealt, as long as no more than a rack
\* of its opponent's tiles has been taken back.
LEMMA DealtInFull ==
    ASSUME NEW s, NEW d \in Player, NEW p \in Player, p # d, Typed(s, d), Accounts(s, d),
           s.reveals[p] = None, s.seed_hash[p] = None \/ s.pending[p] = 0,
           BackIn(s.events, p) <= RACK
    PROVE  Due(s, d) <= Size(s.unseen)
<1>1. p = Other(d)
    BY DEF Player, Other
<1>2. /\ s.opponent_tiles \in Nat /\ s.bag \in Nat /\ Size(s.unseen) \in Nat /\ RACK \in Nat
      /\ BackIn(s.events, p) \in Nat /\ CountOf(s, d, p) = s.opponent_tiles
    BY CountNat, OneAssumption DEF Accounts, CountOf
<1>3. s.bag + s.opponent_tiles <= Size(s.unseen) + BackIn(s.events, p)
    BY <1>1 DEF Accounts, Covered
<1>4. Due(s, d) \in Nat /\ Due(s, d) <= s.bag
    BY DEF Due, Typed
<1>5. CASE s.seed_hash[p] = None
    <2>1. BackIn(s.events, p) = 0
        BY <1>5 DEF Accounts, Absent
    <2> QED
        BY <1>2, <1>3, <1>4, <2>1
<1>6. CASE s.seed_hash[p] # None
    <2>1. s.pending[p] = 0 /\ Full(s, d, p)
        BY <1>6 DEF Accounts
    <2>2. s.opponent_tiles = RACK \/ s.bag = 0
        BY <1>2, <2>1 DEF Full
    <2> QED
        BY <1>2, <1>3, <1>4, <2>2
<1> QED
    BY <1>5, <1>6

LEMMA DealtCounts ==
    ASSUME NEW s, NEW d \in Player, NEW p \in Player, NEW c \in BOOLEAN, NEW mv,
           NEW x, NEW t, x = Settled(s, mv), t = Dealt(x, mv, p), Tiles(s, d, c),
           Control(s, d), Accounts(s, d), Refund(s), Committed(s), Carries(s, d, mv, p),
           ValidMove(s, mv, p), \A q \in Player : BackIn(x.events, q) <= RACK
    PROVE  /\ Accounts(t, d)
           /\ \A q \in Player :
                  CountOf(t, d, q) = CountOf(x, d, q) + (IF q = Other(p) THEN Due(x, q) ELSE 0)
           /\ Whole(x, d) /\ RACK <= x.bag => Whole(t, d)
<1>1. Typed(s, d) /\ mv.type \in MoveTypes /\ mv.nonce \in Nonce
      /\ (mv.promise = None \/ \E h \in Promise : mv.promise = Some(h))
    BY DEF Tiles, Carries
<1>2. /\ Tiles(x, d, c) /\ Same(s, x) /\ x.pending[p] = s.pending[p]
      /\ mv.type # "Challenge" => x = s
    BY SettledTiles
<1>3. Typed(x, d) /\ x.me = s.me /\ x.reveals = s.reveals /\ x.seed_hash = s.seed_hash
    BY <1>2 DEF Tiles, Same
<1>4. Accounts(x, d)
    BY SettledCounts
<1>5. /\ p = ToMove(s) /\ s.index \in Nat /\ s.reveals[p] = None
      /\ s.index < 2 => mv.type = "Commit"
    BY <1>1, ValidFacts, Others DEF Control
<1>6. PICK o \in Player : o = Other(p) /\ o # p /\ Other(o) = p
    BY Others
<1>7. s.index = 0 => x.pending[o] = 0 /\ s.seed_hash[p] = None /\ o = Claimer
    <2>1. ASSUME s.index = 0 PROVE x = s /\ s.pending[Claimer] = 0
        BY <1>2, <1>5, <2>1 DEF Control
    <2>2. s.index = 0 => s.seed_hash[p] = None /\ Other(p) = Claimer
        BY <1>5, CommittedFacts
    <2> QED
        BY <1>6, <2>1, <2>2
<1>8. s.index > 0 => x.seed_hash[o] # None /\ x.pending[p] = 0
    BY <1>2, <1>3, <1>5, <1>6, CommittedFacts DEF Control
<1>9. MayDraw(x, d, o)
    BY <1>6, NextMayDraw
<1>10. o = d => Due(x, o) <= Size(x.unseen)
    <2>1. x.seed_hash[p] = None \/ x.pending[p] = 0
        BY <1>3, <1>5, <1>7, <1>8
    <2> QED
        BY <1>3, <1>4, <1>5, <1>6, <2>1, DealtInFull
<1>11. x.seed_hash[o] # None \/ x.pending[o] = 0
    BY <1>5, <1>7, <1>8
<1>12. PICK nonce \in Nonce : nonce = mv.nonce
    BY <1>1
<1>13. PICK y : y = Refill(x, o, nonce)
    OBVIOUS
<1>14. Typed(y, d)
    BY <1>2, <1>6, <1>9, <1>13, RefillTiles DEF Tiles
<1>15. /\ Accounts(y, d)
       /\ \A q \in Player : CountOf(y, d, q) = CountOf(x, d, q) + (IF q = o THEN Due(x, o) ELSE 0)
       /\ Whole(x, d) /\ RACK <= x.bag => Whole(y, d)
    BY <1>3, <1>4, <1>9, <1>10, <1>11, <1>13, RefillCounts
<1>16. t = Publish(y, p, mv.promise)
    BY <1>6, <1>12, <1>13 DEF Dealt
<1>17. /\ Accounts(t, d) /\ \A q \in Player : CountOf(t, d, q) = CountOf(y, d, q)
       /\ Whole(y, d) => Whole(t, d)
    BY <1>1, <1>14, <1>15, <1>16, PublishCounts
<1> QED
    BY <1>6, <1>15, <1>17

\* What the tiles come to when an entry is done.
Tally(s, t, d, mv, p) ==
    \A q \in Player :
        CountOf(t, d, q) = (CountOf(s, d, q) + Returned(s, mv, q)
                            + (IF q = Other(p) THEN Due(Settled(s, mv), q) ELSE 0))
                           - (IF q = p THEN Spent(mv) ELSE 0)

LEMMA FitsFacts ==
    ASSUME NEW s, NEW d \in Player, NEW p \in Player, NEW c \in BOOLEAN, NEW mv,
           NEW x, NEW y, x = Settled(s, mv), y = Dealt(x, mv, p), Tiles(s, d, c),
           Control(s, d), Accounts(s, d), Refund(s), Committed(s), Carries(s, d, mv, p),
           ValidMove(s, mv, p), \A q \in Player : BackIn(x.events, q) <= RACK,
           Spent(mv) <= CountOf(s, d, p)
    PROVE  Fits(y, d, mv, p)
<1>1. Typed(s, d) /\ mv.type \in MoveTypes
    BY DEF Tiles, Carries
<1>2. /\ p = ToMove(s) /\ s.index \in Nat
      /\ mv.type = "Commit" => s.index < 2
      /\ mv.type \in {"Place", "Exchange"} => s.index > 2
    BY <1>1, ValidFacts DEF Control
<1>3. Same(s, y) /\ y.pending[p] = s.pending[p] /\ p # Other(p)
    BY DealtTiles, Others
<1>4. /\ \A q \in Player : CountOf(y, d, q) = CountOf(x, d, q) + (IF q = Other(p) THEN Due(x, q) ELSE 0)
      /\ Whole(x, d) /\ RACK <= x.bag => Whole(y, d)
    BY DealtCounts
<1>5. mv.type = "Commit" => y.seed_hash[p] = None
    BY <1>2, <1>3, CommittedFacts DEF Same
<1>6. ASSUME mv.type \in {"Place", "Exchange"}
      PROVE  /\ y.pending[p] = 0 /\ (y.me = p <=> p = d) /\ y.seed_hash[p] # None
             /\ Spent(mv) <= CountOf(y, d, p) /\ x = s /\ s.index > 2
    <2>1. s.index > 2 /\ s.index > 0 /\ s.index > 1 /\ s.index > d
        BY <1>2, <1>6 DEF Player
    <2>2. s.me = d /\ s.pending[p] = 0
        BY <1>2, <2>1 DEF Control
    <2>3. s.seed_hash[p] # None
        BY <1>2, <2>1, CommittedFacts
    <2>4. x = s
        BY <1>6 DEF Settled
    <2>5. CountOf(s, d, p) \in Nat
        BY <1>1, CountNat
    <2>6. CountOf(y, d, p) = CountOf(s, d, p)
        BY <1>3, <1>4, <2>4, <2>5
    <2> QED
        BY <1>3, <2>1, <2>2, <2>3, <2>4, <2>6 DEF Same
<1>7. ASSUME mv.type = "Exchange" PROVE Whole(y, d)
    <2>1. s.bag >= RACK
        BY <1>7 DEF ValidMove
    <2>2. RACK \in Nat /\ RACK # 0 /\ s.bag \in Nat
        BY <1>1, OneAssumption DEF Typed
    <2>3. RACK <= s.bag /\ s.bag # 0
        BY <2>1, <2>2
    <2>4. x = s /\ s.index > 1
        BY <1>2, <1>6, <1>7
    <2>5. \A q \in Player : Full(s, d, q)
        BY <1>2, <2>4, CommittedFacts DEF Accounts
    <2>6. Whole(s, d)
        BY <2>3, <2>5 DEF Full, Whole
    <2> QED
        BY <1>4, <2>3, <2>4, <2>6
<1> QED
    BY <1>5, <1>6, <1>7 DEF Fits

\* Only a challenge gives tiles back.
LEMMA RefillGivesNothing ==
    ASSUME NEW s, NEW d \in Player, NEW p \in Player, NEW nonce \in Nonce, NEW t,
           t = Refill(s, p, nonce), Typed(s, d)
    PROVE  \A q \in Player : BackIn(t.events, q) = BackIn(s.events, q)
<1>1. PICK m \in Nat : m = Due(s, p)
    BY DueFacts
<1>2. CASE m = 0
    <2>1. t = [s EXCEPT !.pending[p] = 0]
        BY <1>1, <1>2 DEF Refill
    <2>2. t.events = s.events
        BY <2>1 DEF Typed, Fields
    <2> QED
        BY <2>2
<1>3. CASE m # 0
    <2>1. PICK got : got = Draw(nonce, s.draws, m, s.unseen)
        OBVIOUS
    <2>2. t = Refilled(s, p, nonce, m, got)
        BY <1>1, <1>3, <2>1 DEF Refill
    <2>3. PICK e : e = [type |-> "Draw", player |-> p, nonce |-> nonce, count |-> m]
        OBVIOUS
    <2>4. t.events = Append(s.events, e)
        BY <2>2, <2>3 DEF Refilled, Typed, Fields
    <2>5. e \in Event /\ e.type # "Seen"
        BY <2>3 DEF Event, DrawEvent
    <2>6. Ends(t.events, s.events, e)
        BY <2>4 DEF Ends
    <2> QED
        BY <2>5, <2>6, EventAdds
<1> QED
    BY <1>2, <1>3

LEMMA PublishGivesNothing ==
    ASSUME NEW s, NEW d \in Player, NEW p \in Player, NEW promise, NEW t,
           t = Publish(s, p, promise), Typed(s, d),
           promise = None \/ (\E h \in Promise : promise = Some(h))
    PROVE  \A q \in Player : BackIn(t.events, q) = BackIn(s.events, q)
<1>1. CASE promise = None
    BY <1>1 DEF Publish
<1>2. CASE promise # None
    <2>1. PICK hash \in Promise : promise = Some(hash)
        BY <1>2
    <2>2. promise[1] = hash
        BY <2>1 DEF Some
    <2>3. PICK e : e = [type |-> "Commitment", player |-> p, hash |-> hash]
        OBVIOUS
    <2>4. t.events = Append(s.events, e)
        BY <1>2, <2>2, <2>3 DEF Publish, Typed, Fields
    <2>5. e \in Event /\ e.type # "Seen"
        BY <2>3 DEF Event, PromiseEvent
    <2>6. Ends(t.events, s.events, e)
        BY <2>4 DEF Ends
    <2> QED
        BY <2>5, <2>6, EventAdds
<1> QED
    BY <1>1, <1>2

LEMMA DoneGivesNothing ==
    ASSUME NEW s, NEW d \in Player, NEW p \in Player, NEW mv, NEW t, t = Done(s, mv, p),
           Typed(s, d), Ready(s, d, mv, p)
    PROVE  \A q \in Player : BackIn(t.events, q) = BackIn(s.events, q)
<1>0. DOMAIN s = Fields
    BY DEF Typed
<1>1. CASE mv.type = "Commit"
    <2>1. t = Commit(s, mv, p)
        BY <1>1 DEF Done
    <2>2. t.events = s.events
        BY <1>0, <2>1 DEF Commit, Fields
    <2> QED
        BY <2>2
<1>2. CASE mv.type \in {"Toss", "Yield", "Pass", "Challenge", "Forfeit"}
    <2>1. \/ t = Toss(s, mv) \/ t = s \/ t = Scoreless(s) \/ t = Forfeit(s)
        BY <1>2 DEF Done
    <2>2. SameHeaps(s, t)
        BY <1>0, <2>1, SameHeapsOf DEF SameHeaps
    <2> QED
        BY <2>2 DEF SameHeaps
<1>3. CASE mv.type = "Place"
    <2>1. PICK tiles \in Counts : tiles = mv.tiles
        BY <1>3 DEF Ready
    <2>2. PICK e : e = [type |-> "Played", player |-> p, tiles |-> tiles]
        OBVIOUS
    <2>3. t = Place(s, mv, p)
        BY <1>3 DEF Done
    <2>4. t.events = Append(s.events, e)
        BY <1>0, <2>1, <2>2, <2>3 DEF Place, Fields
    <2>5. e \in Event /\ e.type # "Seen"
        BY <2>2 DEF Event, PlayEvent
    <2>6. Ends(t.events, s.events, e)
        BY <2>4 DEF Ends
    <2> QED
        BY <2>5, <2>6, EventAdds
<1>4. CASE mv.type = "Exchange"
    <2>1. PICK masked \in Masked : masked = mv.masked
        BY <1>4 DEF Ready
    <2>2. PICK e : e = [type |-> "Exchanged", player |-> p, masked |-> masked]
        OBVIOUS
    <2>3. t = Exchange(s, mv, p)
        BY <1>4 DEF Done
    <2>4. t.events = Append(s.events, e)
        BY <1>0, <2>1, <2>2, <2>3 DEF Exchange, Fields
    <2>5. e \in Event /\ e.type # "Seen"
        BY <2>2 DEF Event, SwapEvent
    <2>6. Ends(t.events, s.events, e)
        BY <2>4 DEF Ends
    <2> QED
        BY <2>5, <2>6, EventAdds
<1>5. CASE mv.type = "Reveal"
    <2>1. PICK r : r = Unveiled(s, mv, p)
        OBVIOUS
    <2>2. t = Settle(r)
        BY <1>5, <2>1 DEF Done, Reveal, Unveiled
    <2>3. r.events = s.events /\ DOMAIN r = Fields
        BY <1>0, <2>1 DEF Unveiled, Fields
    <2>4. SameHeaps(r, t)
        BY <2>2, <2>3, SameHeapsOf
    <2> QED
        BY <2>3, <2>4 DEF SameHeaps
<1> QED
    BY <1>1, <1>2, <1>3, <1>4, <1>5 DEF Ready, MoveTypes

LEMMA BackKept ==
    ASSUME NEW s, NEW d \in Player, NEW p \in Player, NEW c \in BOOLEAN, NEW mv,
           NEW x, NEW t, x = Settled(s, mv), t = ApplyMove(s, mv), Tiles(s, d, c),
           Control(s, d), Carries(s, d, mv, p), ValidMove(s, mv, p)
    PROVE  \A q \in Player : BackIn(t.events, q) = BackIn(x.events, q)
<1>1. p = ToMove(s)
    BY DEF ValidMove
<1>2. PICK o \in Player : o = Other(p)
    BY Others
<1>3. PICK nonce \in Nonce : nonce = mv.nonce
    BY DEF Carries
<1>4. PICK r : r = Refill(x, o, nonce)
    OBVIOUS
<1>5. PICK y : y = Dealt(x, mv, p)
    OBVIOUS
<1>6. y = Publish(r, p, mv.promise)
    BY <1>2, <1>3, <1>4, <1>5 DEF Dealt
<1>7. PICK v : v = Done(y, mv, p)
    OBVIOUS
<1>8. t = Closed(v, p)
    BY <1>1, <1>5, <1>7 DEF ApplyMove, Closed
<1>9. Typed(x, d)
    BY SettledTiles DEF Tiles
<1>10. Typed(y, d)
    BY <1>5, DealtTiles DEF Tiles
<1>11. Ready(y, d, mv, p)
    BY <1>5, ReadyFacts
<1>12. mv.promise = None \/ \E h \in Promise : mv.promise = Some(h)
    BY DEF Carries
<1>13. \A q \in Player : BackIn(r.events, q) = BackIn(x.events, q)
    BY <1>4, <1>9, RefillGivesNothing
<1>14. Typed(r, d)
    <2>1. MayDraw(x, d, o) /\ Tiles(x, d, c)
        BY <1>2, NextMayDraw, SettledTiles
    <2> QED
        BY <1>4, <2>1, RefillTiles DEF Tiles
<1>15. \A q \in Player : BackIn(y.events, q) = BackIn(r.events, q)
    BY <1>6, <1>12, <1>14, PublishGivesNothing
<1>16. \A q \in Player : BackIn(v.events, q) = BackIn(y.events, q)
    BY <1>7, <1>10, <1>11, DoneGivesNothing
<1>17. t.events = v.events
    <2>1. Tiles(y, d, c)
        BY <1>5, DealtTiles
    <2>2. Tiles(v, d, c)
        BY <1>7, <1>11, <2>1, DoneTiles
    <2>3. DOMAIN v = Fields
        BY <2>2 DEF Tiles, Typed
    <2> QED
        BY <1>8, <2>3, SameHeapsOf DEF SameHeaps
<1> QED
    BY <1>13, <1>15, <1>16, <1>17

\* An entry keeps the account of the tiles, and changes it alike on both devices.
LEMMA EnterCounts ==
    ASSUME NEW s, NEW d \in Player, NEW p \in Player, NEW c \in BOOLEAN, NEW mv,
           NEW t, t = ApplyMove(s, mv), Tiles(s, d, c), Control(s, d), Accounts(s, d),
           Refund(s), Committed(s), Carries(s, d, mv, p), ValidMove(s, mv, p),
           \A q \in Player : BackIn(t.events, q) <= RACK, Spent(mv) <= CountOf(s, d, p)
    PROVE  Accounts(t, d) /\ Refund(t) /\ Committed(t) /\ Tally(s, t, d, mv, p)
<1>1. Typed(s, d) /\ mv.type \in MoveTypes
    BY DEF Tiles, Carries
<1>2. PICK x : x = Settled(s, mv)
    OBVIOUS
<1>3. PICK y : y = Dealt(x, mv, p)
    OBVIOUS
<1>4. PICK v : v = Done(y, mv, p)
    OBVIOUS
<1>5. p = ToMove(s) /\ t = Closed(v, p)
    BY <1>2, <1>3, <1>4 DEF ApplyMove, Closed, ValidMove
<1>6. \A q \in Player : BackIn(x.events, q) <= RACK
    BY <1>2, BackKept
<1>7. /\ Accounts(y, d)
      /\ \A q \in Player : CountOf(y, d, q) = CountOf(x, d, q) + (IF q = Other(p) THEN Due(x, q) ELSE 0)
    BY <1>2, <1>3, <1>6, DealtCounts
<1>8. Tiles(y, d, c) /\ Typed(y, d) /\ Same(s, y)
    BY <1>2, <1>3, DealtTiles DEF Tiles
<1>9. Ready(y, d, mv, p)
    BY <1>2, <1>3, ReadyFacts
<1>10. Fits(y, d, mv, p)
    BY <1>2, <1>3, <1>6, FitsFacts
<1>11. Accounts(v, d) /\ Changed(y, v, d, mv, p)
    BY <1>4, <1>7, <1>8, <1>9, <1>10, DoneCounts
<1>12. Tiles(v, d, c) /\ DOMAIN v = Fields
    <2>1. Tiles(v, d, c)
        BY <1>4, <1>8, <1>9, DoneTiles
    <2> QED
        BY <2>1 DEF Tiles, Typed
<1>13. SameHeaps(v, t) /\ t.last_play = v.last_play
    <2>1. SameHeaps(v, t)
        BY <1>5, <1>12, SameHeapsOf
    <2>2. t.last_play = v.last_play
        BY <1>5, <1>12, ClosedTiles
    <2> QED
        BY <2>1, <2>2
<1>14. Accounts(t, d) /\ \A q \in Player : CountOf(t, d, q) = CountOf(v, d, q)
    <2>1. SameHeaps(v, t) /\ Accounts(v, d)
        BY <1>11, <1>13
    <2>2. Accounts(t, d)
        BY ONLY <2>1, HeapsAlike
    <2>3. \A q : CountOf(t, d, q) = CountOf(v, d, q)
        BY ONLY <2>1, HeapsAlike
    <2> QED
        BY <2>2, <2>3
<1>15. Tally(s, t, d, mv, p)
    <2>1. ASSUME NEW q \in Player
          PROVE  CountOf(t, d, q) = (CountOf(s, d, q) + Returned(s, mv, q)
                                     + (IF q = Other(p) THEN Due(x, q) ELSE 0))
                                    - (IF q = p THEN Spent(mv) ELSE 0)
        <3>1. CountOf(x, d, q) = CountOf(s, d, q) + Returned(s, mv, q)
            BY <1>2, SettledCounts
        <3>2. CountOf(v, d, q) = CountOf(y, d, q) - (IF q = p THEN Spent(mv) ELSE 0)
            BY <1>11 DEF Changed
        <3>3. CountOf(t, d, q) = CountOf(v, d, q)
            BY <1>14
        <3>4. CountOf(y, d, q) = CountOf(x, d, q) + (IF q = Other(p) THEN Due(x, q) ELSE 0)
            BY <1>7
        <3> QED
            BY <3>1, <3>2, <3>3, <3>4
    <2> QED
        BY <1>2, <2>1 DEF Tally
<1>16. Passage(s, t, d, mv, p)
    BY PassageFacts
<1>17. /\ s.index \in Nat /\ t.index = s.index + 1
       /\ mv.type = "Commit" => s.index < 2
       /\ mv.type # "Commit" => s.index > 1
       /\ mv.type = "Toss" => s.index = 2
       /\ mv.type = "Yield" => s.index = 3
       /\ \A q \in Player : s.reveals[q] # None => mv.type = "Reveal"
    BY <1>1, <1>16, ValidFacts DEF Control, Passage
<1>18. Refund(t)
    <2>1. CASE mv.type = "Place"
        <3>1. v = Place(y, mv, p)
            BY <1>4, <2>1 DEF Done
        <3>2. v.last_play[1].tiles = mv.tiles /\ v.last_play[1].by = p /\ v.pending[p] = Size(mv.tiles)
            BY <1>7, <1>8, <1>9, <1>10, <2>1, <3>1, PlaceCounts
        <3> QED
            BY <1>13, <3>2 DEF Refund, SameHeaps
    <2>2. CASE mv.type \in {"Exchange", "Pass", "Challenge", "Forfeit"}
        BY <1>16, <2>2 DEF Passage, Refund
    <2>3. CASE mv.type \in {"Commit", "Toss", "Yield"}
        <3>1. s.index < 4 /\ t.last_play = s.last_play
            BY <1>16, <1>17, <2>3 DEF Passage
        <3> QED
            BY <3>1 DEF Control, Opening, Refund
    <2>4. CASE mv.type = "Reveal"
        <3>1. PICK opened : opened = [seed |-> mv.seed, rack |-> mv.rack]
            OBVIOUS
        <3>2. t.reveals[p] = Some(opened)
            BY <1>16, <2>4, <3>1 DEF Passage
        <3>3. t.reveals[p] # None
            BY <3>2 DEF Some, None
        <3> QED
            BY <3>3 DEF Refund
    <2> QED
        BY <1>1, <2>1, <2>2, <2>3, <2>4 DEF MoveTypes
<1>19. Committed(t)
    <2>1. CASE mv.type # "Commit"
        <3>1. t.seed_hash = s.seed_hash /\ s.index > 1
            BY <1>16, <1>17, <2>1 DEF Passage
        <3>2. \A q \in Player : s.seed_hash[q] # None /\ ~(t.index <= q)
            BY <1>5, <1>17, <3>1, CommittedFacts DEF Player
        <3> QED
            BY <3>1, <3>2 DEF Committed
    <2>2. CASE mv.type = "Commit"
        <3>1. v = Commit(y, mv, p) /\ y.seed_hash[p] = None
            BY <1>4, <1>10, <2>2 DEF Done, Fits
        <3>2. v.seed_hash[p] # None /\ \A q \in Player : q # p => v.seed_hash[q] = y.seed_hash[q]
            BY <1>7, <1>8, <3>1, CommitCounts
        <3>3. t.seed_hash = v.seed_hash /\ y.seed_hash = s.seed_hash
            BY <1>8, <1>13 DEF SameHeaps, Same
        <3>4. p = s.index
            BY <1>5, <1>17, <2>2 DEF ToMove
        <3>5. ASSUME NEW q \in Player PROVE t.seed_hash[q] = None <=> t.index <= q
            <4>1. CASE q = p
                BY <1>17, <3>2, <3>3, <3>4, <4>1
            <4>2. CASE q # p
                <5>1. t.seed_hash[q] = None <=> s.index <= q
                    BY <3>2, <3>3, <4>2 DEF Committed
                <5> QED
                    BY <1>17, <3>4, <4>2, <5>1 DEF Player
            <4> QED
                BY <4>1, <4>2
        <3> QED
            BY <3>5 DEF Committed
    <2> QED
        BY <2>1, <2>2
<1> QED
    BY <1>14, <1>15, <1>18, <1>19

-----------------------------------------------------------------------------
(* How the game ends, both devices say alike.                                *)

SameEnd(s, t) ==
    /\ t.ending = s.ending /\ t.went_out = s.went_out
    /\ t.verdict = s.verdict /\ t.finished = s.finished /\ t.final = s.final

LEMMA EndBoth ==
    ASSUME NEW s, NEW u, NEW t, NEW w, SameEnd(s, u), SameEnd(s, t), SameEnd(u, w)
    PROVE  SameEnd(t, w)
    BY DEF SameEnd

LEMMA EndRetract ==
    ASSUME NEW s, NEW u, NEW play, Alike(s, u), SameEnd(s, u)
    PROVE  SameEnd(Retract(s, play), Retract(u, play))
<1>1. PICK t, w : t = Retract(s, play) /\ w = Retract(u, play)
    OBVIOUS
<1>2. /\ t.went_out = (IF s.went_out = play.by THEN Nobody ELSE s.went_out)
      /\ t.ending = (IF s.went_out = play.by THEN FALSE ELSE s.ending)
      /\ t.verdict = s.verdict /\ t.finished = s.finished /\ t.final = s.final
    BY <1>1 DEF Retract, Alike, Fields
<1>3. /\ w.went_out = (IF u.went_out = play.by THEN Nobody ELSE u.went_out)
      /\ w.ending = (IF u.went_out = play.by THEN FALSE ELSE u.ending)
      /\ w.verdict = u.verdict /\ w.finished = u.finished /\ w.final = u.final
    BY <1>1 DEF Retract, Alike, Fields
<1>4. SameEnd(t, w)
    BY <1>2, <1>3 DEF SameEnd
<1> QED
    BY <1>1, <1>4

LEMMA EndSettled ==
    ASSUME NEW s, NEW u, NEW mv, Alike(s, u), SameEnd(s, u)
    PROVE  SameEnd(Settled(s, mv), Settled(u, mv))
<1>1. PICK play : play = s.last_play[1]
    OBVIOUS
<1>2. u.last_play[1] = play
    BY <1>1 DEF Alike, SamePublic
<1>3. CASE mv.type = "Challenge" /\ ~play.real
    <2>1. Settled(s, mv) = Retract(s, play) /\ Settled(u, mv) = Retract(u, play)
        BY <1>1, <1>2, <1>3 DEF Settled
    <2> QED
        BY <2>1, EndRetract
<1>4. CASE ~(mv.type = "Challenge" /\ ~play.real)
    BY <1>1, <1>2, <1>4 DEF Settled
<1> QED
    BY <1>3, <1>4

LEMMA DealtKeepsEnd ==
    ASSUME NEW s, NEW mv, NEW p, NEW t, t = Dealt(s, mv, p), DOMAIN s = Fields
    PROVE  SameEnd(s, t)
<1>1. PICK o : o = Other(p)
    OBVIOUS
<1>2. PICK r : r = Refill(s, o, mv.nonce)
    OBVIOUS
<1>3. SameEnd(s, r) /\ DOMAIN r = Fields
    <2>1. PICK count : count = Due(s, o)
        OBVIOUS
    <2>2. CASE count = 0
        <3>1. r = [s EXCEPT !.pending[o] = 0]
            BY <1>2, <2>1, <2>2 DEF Refill
        <3> QED
            BY <3>1 DEF SameEnd, Fields
    <2>3. CASE count # 0
        <3>1. PICK got : got = Draw(mv.nonce, s.draws, count, s.unseen)
            OBVIOUS
        <3>2. r = Refilled(s, o, mv.nonce, count, got)
            BY <1>2, <2>1, <2>3, <3>1 DEF Refill
        <3> QED
            BY <3>2 DEF Refilled, SameEnd, Fields
    <2> QED
        BY <2>2, <2>3
<1>4. t = Publish(r, p, mv.promise)
    BY <1>1, <1>2 DEF Dealt
<1>5. CASE mv.promise = None
    BY <1>3, <1>4, <1>5 DEF Publish
<1>6. CASE mv.promise # None
    <2>1. SameEnd(r, t)
        BY <1>3, <1>4, <1>6 DEF Publish, SameEnd, Fields
    <2> QED
        BY <1>3, <2>1 DEF SameEnd
<1> QED
    BY <1>5, <1>6

LEMMA EndSettle ==
    ASSUME NEW s, NEW u, Alike(s, u), SameEnd(s, u)
    PROVE  SameEnd(Settle(s), Settle(u))
<1>1. u.reveals = s.reveals
    BY DEF Alike, SamePublic
<1>2. CASE \E q \in Player : s.reveals[q] = None
    <2>1. Settle(s) = s /\ Settle(u) = u
        BY <1>1, <1>2 DEF Settle
    <2> QED
        BY <2>1
<1>3. CASE ~\E q \in Player : s.reveals[q] = None
    <2>1. PICK verdict, final : verdict = Verdict(s) /\ final = FinalScores(s)
        OBVIOUS
    <2>2. verdict = Verdict(u)
        BY <2>1 DEF Verdict, Alike, SamePublic
    <2>3. final = FinalScores(u)
        BY <2>1 DEF FinalScores, Alike, SamePublic, SameEnd
    <2>4. Settle(s) = Decided(s, verdict, final) /\ Settle(u) = Decided(u, verdict, final)
        BY <1>1, <1>3, <2>1, <2>2, <2>3 DEF Settle
    <2>5. PICK t, w : t = Decided(s, verdict, final) /\ w = Decided(u, verdict, final)
        OBVIOUS
    <2> DEFINE passed(p) == verdict[p] = "none"
               won == CASE passed(Initiator) /\ passed(Claimer) -> Winner(final[1], final[2])
                        [] passed(Initiator) /\ ~passed(Claimer) -> "initiator"
                        [] ~passed(Initiator) /\ passed(Claimer) -> "claimer"
                        [] ~passed(Initiator) /\ ~passed(Claimer) -> "draw"
               last == IF passed(Initiator) /\ passed(Claimer) THEN Some(final) ELSE None
    <2>6. /\ t = [s EXCEPT !.verdict = Some(verdict), !.final = last, !.finished = won]
          /\ w = [u EXCEPT !.verdict = Some(verdict), !.final = last, !.finished = won]
        BY <2>5 DEF Decided
    <2> HIDE DEF passed, won, last
    <2>7. SameEnd(t, w)
        BY <2>6 DEF SameEnd, Alike, Fields
    <2> QED
        BY <2>4, <2>5, <2>7
<1> QED
    BY <1>2, <1>3

LEMMA EndDone ==
    ASSUME NEW s, NEW u, NEW mv, NEW p, Alike(s, u), SameEnd(s, u), mv.type \in MoveTypes
    PROVE  SameEnd(Done(s, mv, p), Done(u, mv, p))
<1>1. ASSUME NEW x, DOMAIN x = Fields, mv.type # "Reveal" PROVE SameEnd(x, Done(x, mv, p))
    <2>1. PICK t : t = Done(x, mv, p)
        OBVIOUS
    <2>2. CASE mv.type = "Commit"
        <3>1. t = Commit(x, mv, p)
            BY <2>1, <2>2 DEF Done
        <3> QED
            BY <1>1, <2>1, <3>1 DEF Commit, SameEnd, Fields
    <2>3. CASE mv.type = "Toss"
        <3>1. t = Toss(x, mv)
            BY <2>1, <2>3 DEF Done
        <3> QED
            BY <1>1, <2>1, <3>1 DEF Toss, SameEnd, Fields
    <2>4. CASE mv.type = "Yield"
        <3>1. t = x
            BY <2>1, <2>4 DEF Done
        <3> QED
            BY <2>1, <3>1 DEF SameEnd
    <2>5. CASE mv.type = "Place"
        <3>1. t = Place(x, mv, p)
            BY <2>1, <2>5 DEF Done
        <3> QED
            BY <1>1, <2>1, <3>1 DEF Place, SameEnd, Fields
    <2>6. CASE mv.type = "Exchange"
        <3>1. t = Exchange(x, mv, p)
            BY <2>1, <2>6 DEF Done
        <3> QED
            BY <1>1, <2>1, <3>1 DEF Exchange, SameEnd, Fields
    <2>7. CASE mv.type \in {"Pass", "Challenge"}
        <3>1. t = Scoreless(x)
            BY <2>1, <2>7 DEF Done
        <3> QED
            BY <1>1, <2>1, <3>1 DEF Scoreless, SameEnd, Fields
    <2>8. CASE mv.type = "Forfeit"
        <3>1. t = Forfeit(x)
            BY <2>1, <2>8 DEF Done
        <3> QED
            BY <1>1, <2>1, <3>1 DEF Forfeit, Scoreless, SameEnd, Fields
    <2> QED
        BY <1>1, <2>2, <2>3, <2>4, <2>5, <2>6, <2>7, <2>8 DEF MoveTypes
<1>2. CASE mv.type # "Reveal"
    <2>1. SameEnd(s, Done(s, mv, p)) /\ SameEnd(u, Done(u, mv, p))
        BY <1>1, <1>2 DEF Alike
    <2> QED
        BY <2>1, EndBoth
<1>3. CASE mv.type = "Reveal"
    <2>1. PICK t, w : t = Unveiled(s, mv, p) /\ w = Unveiled(u, mv, p)
        OBVIOUS
    <2>2. Done(s, mv, p) = Settle(t) /\ Done(u, mv, p) = Settle(w)
        BY <1>3, <2>1 DEF Done, Reveal, Unveiled
    <2>3. Alike(t, w)
        BY <2>1, AlikeUnveiled
    <2>4. SameEnd(t, w)
        BY <2>1 DEF Unveiled, SameEnd, Alike, Fields
    <2> QED
        BY <2>2, <2>3, <2>4, EndSettle
<1> QED
    BY <1>2, <1>3

\* What a device takes a player to hold when it looks whether the game ends.
Held(s, p) == IF s.me = p THEN Size(s.rack) ELSE s.opponent_tiles

LEMMA EndClosed ==
    ASSUME NEW s, NEW u, NEW p, Alike(s, u), SameEnd(s, u), Held(u, p) = Held(s, p)
    PROVE  SameEnd(Closed(s, p), Closed(u, p))
<1>1. PICK t, w : t = CheckEnding(s, p) /\ w = CheckEnding(u, p)
    OBVIOUS
<1>2. u.ending = s.ending /\ u.scoreless = s.scoreless /\ u.bag = s.bag
    BY DEF Alike, SamePublic, SameEnd
<1>3. CASE s.ending
    <2>1. t = s /\ w = u
        BY <1>1, <1>2, <1>3 DEF CheckEnding
    <2> QED
        BY <1>1, <2>1 DEF Closed, SameEnd, Alike, Fields
<1>4. CASE ~s.ending /\ s.scoreless >= SCORELESS_LIMIT
    <2>1. t = [s EXCEPT !.ending = TRUE] /\ w = [u EXCEPT !.ending = TRUE]
        BY <1>1, <1>2, <1>4 DEF CheckEnding
    <2>2. SameEnd(t, w) /\ DOMAIN t = Fields /\ DOMAIN w = Fields
        BY <2>1 DEF SameEnd, Alike, Fields
    <2> QED
        BY <1>1, <2>2 DEF Closed, SameEnd, Fields
<1>5. CASE ~s.ending /\ ~(s.scoreless >= SCORELESS_LIMIT)
    <2>1. CASE s.bag = 0 /\ Held(s, p) = 0
        <3>1. /\ t = [s EXCEPT !.ending = TRUE, !.went_out = p]
              /\ w = [u EXCEPT !.ending = TRUE, !.went_out = p]
            BY <1>1, <1>2, <1>5, <2>1 DEF CheckEnding, Held
        <3>2. SameEnd(t, w) /\ DOMAIN t = Fields /\ DOMAIN w = Fields
            BY <3>1 DEF SameEnd, Alike, Fields
        <3> QED
            BY <1>1, <3>2 DEF Closed, SameEnd, Fields
    <2>2. CASE ~(s.bag = 0 /\ Held(s, p) = 0)
        <3>1. t = s /\ w = u
            BY <1>1, <1>2, <1>5, <2>2 DEF CheckEnding, Held
        <3> QED
            BY <1>1, <3>1 DEF Closed, SameEnd, Alike, Fields
    <2> QED
        BY <2>1, <2>2
<1> QED
    BY <1>3, <1>4, <1>5

\* What an entry comes to before the device looks whether the game ends.
Acted(s, mv, p) == Done(Dealt(Settled(s, mv), mv, p), mv, p)

LEMMA EndApplied ==
    ASSUME NEW s, NEW u, NEW mv, NEW p, p = ToMove(s), Alike(s, u), SameEnd(s, u),
           mv.type \in MoveTypes, Held(Acted(u, mv, p), p) = Held(Acted(s, mv, p), p)
    PROVE  SameEnd(ApplyMove(s, mv), ApplyMove(u, mv))
<1>1. p = ToMove(u)
    BY DEF ToMove, Alike, SamePublic
<1>2. PICK x, y : x = Settled(s, mv) /\ y = Settled(u, mv)
    OBVIOUS
<1>3. Alike(x, y) /\ SameEnd(x, y)
    BY <1>2, AlikeSettled, EndSettled
<1>4. PICK xr, yr : xr = Refill(x, Other(p), mv.nonce) /\ yr = Refill(y, Other(p), mv.nonce)
    OBVIOUS
<1>5. Alike(xr, yr)
    BY <1>3, <1>4, AlikeRefill
<1>6. PICK xp, yp : xp = Dealt(x, mv, p) /\ yp = Dealt(y, mv, p)
    OBVIOUS
<1>7. Alike(xp, yp)
    BY <1>4, <1>5, <1>6, AlikePublish DEF Dealt
<1>8. SameEnd(xp, yp)
    <2>1. SameEnd(x, xp) /\ SameEnd(y, yp)
        BY <1>3, <1>6, DealtKeepsEnd DEF Alike
    <2> QED
        BY <1>3, <2>1, EndBoth
<1>9. PICK xd, yd : xd = Done(xp, mv, p) /\ yd = Done(yp, mv, p)
    OBVIOUS
<1>10. Alike(xd, yd) /\ SameEnd(xd, yd)
    BY <1>7, <1>8, <1>9, AlikeDone, EndDone
<1>11. xd = Acted(s, mv, p) /\ yd = Acted(u, mv, p)
    BY <1>2, <1>6, <1>9 DEF Acted
<1>12. SameEnd(Closed(xd, p), Closed(yd, p))
    BY <1>10, <1>11, EndClosed
<1>13. ApplyMove(s, mv) = Closed(xd, p) /\ ApplyMove(u, mv) = Closed(yd, p)
    BY <1>1, <1>11 DEF ApplyMove, Closed, Acted
<1> QED
    BY <1>12, <1>13

-----------------------------------------------------------------------------
(* The two devices, side by side.                                            *)

LEMMA BackGrows ==
    ASSUME NEW s, NEW d \in Player, NEW p \in Player, NEW c \in BOOLEAN, NEW mv,
           NEW t, t = ApplyMove(s, mv), Tiles(s, d, c), Control(s, d),
           Carries(s, d, mv, p), ValidMove(s, mv, p)
    PROVE  \A q \in Player : BackIn(s.events, q) <= BackIn(t.events, q)
<1>1. Typed(s, d) /\ mv.type \in MoveTypes
    BY DEF Tiles, Carries
<1>2. PICK x : x = Settled(s, mv)
    OBVIOUS
<1>3. \A q \in Player : BackIn(t.events, q) = BackIn(x.events, q)
    BY <1>2, BackKept
<1>4. \A q \in Player : BackIn(s.events, q) \in Nat
    BY <1>1, BackNat DEF Typed
<1>5. CASE x = s
    BY <1>3, <1>4, <1>5
<1>6. CASE x # s
    <2>1. PICK play : play = s.last_play[1]
        OBVIOUS
    <2>2. mv.type = "Challenge" /\ x = Retract(s, play)
        BY <1>2, <1>6, <2>1 DEF Settled
    <2>3. s.last_play # None /\ \A q \in Player : s.reveals[q] = None
        BY <1>1, <2>2, ValidFacts
    <2>4. PICK front \in Seq(Event), e \in PlayEvent :
              Ends(s.events, front, e) /\ e.type = "Played" /\ e.player = play.by
              /\ e.tiles = play.tiles
        BY <2>1, <2>3 DEF Control, Challenging, LastIs
    <2>5. /\ Size(play.tiles) \in Nat
          /\ \A q \in Player : BackIn(x.events, q) = BackIn(s.events, q)
                                   + (IF q = play.by THEN Size(play.tiles) ELSE 0)
        BY <1>1, <2>2, <2>4, RetractGives
    <2> QED
        BY <1>3, <1>4, <2>5
<1> QED
    BY <1>5, <1>6

LEMMA HeldIs ==
    ASSUME NEW s, NEW d \in Player, NEW p \in Player, NEW c \in BOOLEAN, NEW mv,
           NEW v, NEW t, v = Acted(s, mv, p), t = ApplyMove(s, mv), Tiles(s, d, c),
           Control(s, d), Carries(s, d, mv, p), ValidMove(s, mv, p)
    PROVE  Held(v, p) = CountOf(t, d, p)
<1>1. p = ToMove(s) /\ t = Closed(v, p) /\ s.index \in Nat
    BY DEF ApplyMove, Closed, Acted, ValidMove, Control
<1>2. PICK y : y = Dealt(Settled(s, mv), mv, p)
    OBVIOUS
<1>3. Tiles(y, d, c) /\ Ready(y, d, mv, p)
    BY <1>2, DealtTiles, ReadyFacts
<1>4. v = Done(y, mv, p)
    BY <1>2 DEF Acted
<1>5. Tiles(v, d, c)
    BY <1>3, <1>4, DoneTiles
<1>6. SameTiles(v, t)
    <2>1. t = Closed(v, p) /\ d \in Player /\ p \in Player /\ c \in BOOLEAN
        BY <1>1
    <2> QED
        BY ONLY <1>5, <2>1, ClosedTiles
<1>7. SameHeaps(v, t)
    BY <1>1, <1>5, SameHeapsOf DEF Tiles, Typed
<1>8. Tiles(t, d, c) /\ Control(t, d) /\ Entered(s, t, d, mv, p)
    BY Applied
<1>9. t.index = s.index + 1 /\ t.me \in {Nobody, d}
    BY <1>8 DEF Entered, Tiles, Typed
<1>10. p = d => t.me = d
    BY <1>1, <1>8, <1>9 DEF Control, ToMove, Player
<1>11. v.me = p <=> p = d
    BY <1>6, <1>9, <1>10 DEF SameTiles, Nobody, Player
<1> QED
    BY <1>7, <1>11 DEF Held, CountOf, SameHeaps

\* What a device signs, the other accepts.
LEMMA ValidAlike ==
    ASSUME NEW s, NEW u, NEW p, NEW mv, Alike(s, u), SameEnd(s, u),
           ValidMove(s, mv, p), u.me # p
    PROVE  ValidMove(u, mv, p)
<1>1. /\ u.finished = s.finished /\ u.index = s.index /\ u.owed = s.owed
      /\ u.must_forfeit = s.must_forfeit /\ u.last_play = s.last_play /\ u.first = s.first
      /\ u.ending = s.ending /\ u.toss = s.toss /\ u.bag = s.bag /\ u.seed_hash = s.seed_hash
    BY DEF Alike, SamePublic, SameEnd
<1>2. Expected(u) = Expected(s) /\ ToMove(u) = ToMove(s)
    BY <1>1 DEF Expected, ToMove
<1>3. CanChallenge(u, p) <=> CanChallenge(s, p)
    BY <1>1 DEF CanChallenge
<1> HIDE DEF Expected, ToMove, CanChallenge
<1>4. s.finished = "no" /\ p = ToMove(s) /\ (mv.promise # None) = s.owed[p]
    BY DEF ValidMove
<1>5. CASE mv.type = "Challenge"
    <2>1. CanChallenge(s, p)
        BY <1>5 DEF ValidMove
    <2> QED
        BY <1>1, <1>2, <1>3, <1>4, <1>5, <2>1 DEF ValidMove
<1>6. CASE mv.type = "Toss"
    <2>1. Expected(s) = "Toss" /\ s.toss[Initiator] = Some(mv.half)
        BY <1>6 DEF ValidMove
    <2> QED
        BY <1>1, <1>2, <1>4, <1>6, <2>1 DEF ValidMove
<1>7. CASE mv.type \in {"Place", "Pass"}
    <2>1. Expected(s) = "Play"
        BY <1>7 DEF ValidMove
    <2> QED
        BY <1>1, <1>2, <1>4, <1>7, <2>1 DEF ValidMove
<1>8. CASE mv.type = "Exchange"
    <2>1. Expected(s) = "Play" /\ Size(mv.masked.tiles) \in 1..RACK /\ s.bag >= RACK
        BY <1>8 DEF ValidMove
    <2> QED
        BY <1>1, <1>2, <1>4, <1>8, <2>1 DEF ValidMove
<1>9. CASE mv.type = "Reveal"
    <2>1. Expected(s) = "Reveal" /\ s.seed_hash[p] = Some(mv.seed)
        BY <1>9 DEF ValidMove
    <2> QED
        BY <1>1, <1>2, <1>4, <1>9, <2>1 DEF ValidMove
<1>10. CASE mv.type \notin {"Challenge", "Toss", "Place", "Pass", "Exchange", "Reveal"}
    <2>1. Expected(s) = mv.type
        BY <1>10 DEF ValidMove
    <2> QED
        BY <1>1, <1>2, <1>4, <1>10, <2>1 DEF ValidMove
<1> QED
    BY <1>5, <1>6, <1>7, <1>8, <1>9, <1>10

\* No more than a rack of anybody's tiles has been taken back.
Lenient == \A q \in Player : BackIn(view[Initiator].events, q) <= RACK

Reconciled ==
    /\ Alike(view[Initiator], view[Claimer]) /\ SameEnd(view[Initiator], view[Claimer])
    /\ \A q \in Player : CountOf(view[Claimer], Claimer, q) = CountOf(view[Initiator], Initiator, q)
    /\ \A d \in Player : Accounts(view[d], d) /\ Refund(view[d]) /\ Committed(view[d])

TwoInv == OneInv /\ (Lenient => Reconciled)

LEMMA SetupCounts ==
    ASSUME NEW d \in Player, NEW half \in {0, 1}, NEW s,
           s = Setup([owner |-> d, half |-> half])
    PROVE  /\ Accounts(s, d) /\ Refund(s) /\ Committed(s)
           /\ \A q : CountOf(s, d, q) = 0
<1>1. PICK seed : seed = [owner |-> d, half |-> half]
    OBVIOUS
<1>2. /\ s.index = 0 /\ s.rack = NoTiles /\ s.unseen = Supply /\ s.opponent_tiles = 0
      /\ s.bag = TILE_TOTAL /\ s.last_play = None /\ s.events = <<>>
      /\ s.pending = [p \in Player |-> IF p = Initiator THEN RACK ELSE 0]
      /\ s.reveals = [p \in Player |-> None] /\ s.seed_hash = [p \in Player |-> None]
    BY <1>1 DEF Setup
<1>3. RACK \in Nat /\ Supply \in Counts /\ Size(Supply) \in Nat /\ TILE_TOTAL = Size(Supply)
    BY OneAssumption, SizeNat DEF Counts, TILE_TOTAL
<1>4. \A q : CountOf(s, d, q) = 0
    BY <1>2, SizeNothing DEF CountOf
<1>5. \A q : BackIn(s.events, q) = 0
    BY <1>2, BackNothing
<1>6. Initiator \in Player /\ Claimer \in Player /\ Initiator # Claimer
    BY DEF Player, Initiator, Claimer
<1>7. ASSUME NEW q \in Player PROVE s.seed_hash[q] = None /\ Absent(s, d, q)
    <2>1. s.pending[q] = (IF q = Initiator THEN RACK ELSE 0) /\ s.seed_hash[q] = None
        BY <1>2
    <2> QED
        BY <1>4, <1>5, <1>6, <2>1 DEF Absent
<1>8. Full(s, d, Initiator)
    <2>1. s.pending[Initiator] = RACK
        BY <1>2, <1>6
    <2> QED
        BY <1>3, <1>4, <2>1 DEF Full
<1>9. Covered(s, d) /\ s.opponent_tiles \in Nat
    BY <1>2, <1>3, <1>5 DEF Covered
<1>10. Accounts(s, d)
    BY <1>7, <1>8, <1>9 DEF Accounts
<1>11. Refund(s) /\ Committed(s)
    BY <1>2, <1>7 DEF Refund, Committed, Player
<1> QED
    BY <1>4, <1>10, <1>11

LEMMA TwoInit == OneInit => TwoInv
<1> SUFFICES ASSUME OneInit PROVE TwoInv
    OBVIOUS
<1>1. PICK halves \in [Player -> {0, 1}] :
          view = [p \in Player |-> Setup([owner |-> p, half |-> halves[p]])]
    BY DEF OneInit
<1>2. Initiator \in Player /\ Claimer \in Player
    BY DEF Player, Initiator, Claimer
<1>3. ASSUME NEW d \in Player
      PROVE  /\ Accounts(view[d], d) /\ Refund(view[d]) /\ Committed(view[d])
             /\ \A q : CountOf(view[d], d, q) = 0
    <2>1. halves[d] \in {0, 1} /\ view[d] = Setup([owner |-> d, half |-> halves[d]])
        BY <1>1
    <2> QED
        BY <2>1, SetupCounts
<1>4. PICK s, u : s = view[Initiator] /\ u = view[Claimer]
    OBVIOUS
<1>5. Alike(s, u) /\ SameEnd(s, u)
    <2>1. PICK a, b : /\ a = [owner |-> Initiator, half |-> halves[Initiator]]
                      /\ b = [owner |-> Claimer, half |-> halves[Claimer]]
        OBVIOUS
    <2>2. s = Setup(a) /\ u = Setup(b)
        BY <1>1, <1>2, <1>4, <2>1
    <2> QED
        BY <2>2 DEF Setup, Alike, SamePublic, SameEnd, Fields
<1>6. OneInv
    BY InitHolds
<1> QED
    BY <1>2, <1>3, <1>4, <1>5, <1>6 DEF TwoInv, Reconciled

\* What a device signs it can pay for.
LEMMA SignedSpends ==
    ASSUME NEW s, NEW p \in Player, NEW mv \in Signed(s, p), Typed(s, p)
    PROVE  Spent(mv) <= Size(s.rack)
<1>1. /\ mv.type = "Place" => mv.tiles \in Counts /\ Holds(s.rack, mv.tiles)
      /\ mv.type = "Exchange" => mv.masked \in Masked /\ Holds(s.rack, mv.masked.tiles)
    BY SignedFacts
<1>2. s.rack \in Counts /\ Size(s.rack) \in Nat
    BY SizeNat DEF Typed
<1>3. ASSUME NEW t \in Counts, Holds(s.rack, t) PROVE Size(t) <= Size(s.rack)
    <2>1. /\ Without(s.rack, t) \in Counts
          /\ Size(Without(s.rack, t)) = Size(s.rack) - Size(t)
        BY <1>2, <1>3, SizeWithout
    <2>2. Size(Without(s.rack, t)) \in Nat /\ Size(t) \in Nat
        BY <2>1, SizeNat
    <2> QED
        BY <1>2, <2>1, <2>2
<1>4. mv.type = "Exchange" => mv.masked.tiles \in Counts
    BY <1>1 DEF Masked
<1> QED
    BY <1>1, <1>2, <1>3, <1>4 DEF Spent

LEMMA TwoEnter ==
    ASSUME TwoInv, NEW p \in Player, Enter(p), OneInv', Lenient'
    PROVE  Reconciled'
<1>1. PICK mv \in Signed(view[p], p) :
          /\ ValidMove(view[p], mv, p)
          /\ view' = [d \in Player |-> IF ValidMove(view[d], mv, p)
                                       THEN ApplyMove(view[d], mv) ELSE view[d]]
    BY DEF Enter
<1>2. Initiator \in Player /\ Claimer \in Player /\ Initiator # Claimer
      /\ \A d \in Player : d = Initiator \/ d = Claimer
    BY DEF Player, Initiator, Claimer
<1>3. ASSUME NEW d \in Player
      PROVE  /\ Tiles(view[d], d, cheat = d) /\ Control(view[d], d) /\ Typed(view[d], d)
             /\ Carries(view[d], d, mv, p) /\ (cheat = d) \in BOOLEAN
    <2>1. Tiles(view[d], d, cheat = d) /\ Control(view[d], d) /\ Typed(view[d], d) /\ Typed(view[p], p)
        BY DEF TwoInv, OneInv, Sound, Tiles
    <2> QED
        BY <2>1, SignedCarries
<1>4. mv.type \in MoveTypes
    BY <1>3 DEF Carries
<1>5. ASSUME NEW d \in Player, ValidMove(view[d], mv, p) PROVE view'[d] = ApplyMove(view[d], mv)
    BY <1>1, <1>5
<1>6. Reconciled
    <2>1. ASSUME NEW q \in Player
          PROVE  BackIn(view[Initiator].events, q) <= RACK
        <3>1. CASE ValidMove(view[Initiator], mv, p)
            <4>1. BackIn(view[Initiator].events, q) <= BackIn(view'[Initiator].events, q)
                BY <1>2, <1>3, <1>5, <3>1, BackGrows
            <4>2. BackIn(view'[Initiator].events, q) <= RACK
                BY DEF Lenient
            <4>3. BackIn(view[Initiator].events, q) \in Nat /\ BackIn(view'[Initiator].events, q) \in Nat
                <5>1. Typed(view[Initiator], Initiator) /\ Typed(view'[Initiator], Initiator)
                    BY <1>2, <1>3 DEF OneInv, Sound, Tiles
                <5> QED
                    BY <5>1, BackNat DEF Typed
            <4> QED
                BY <4>1, <4>2, <4>3, OneAssumption
        <3>2. CASE ~ValidMove(view[Initiator], mv, p)
            <4>1. view'[Initiator] = view[Initiator]
                BY <1>1, <1>2, <3>2
            <4> QED
                BY <4>1 DEF Lenient
        <3> QED
            BY <3>1, <3>2
    <2> QED
        BY <2>1 DEF Lenient, TwoInv
<1>7. ASSUME NEW d \in Player, NEW e \in Player
      PROVE  Alike(view[d], view[e]) /\ SameEnd(view[d], view[e])
             /\ \A q \in Player : CountOf(view[d], d, q) = CountOf(view[e], e, q)
    BY <1>2, <1>6 DEF Reconciled, Alike, SamePublic, SameEnd
<1>8. ASSUME NEW d \in Player PROVE ValidMove(view[d], mv, p)
    <2>1. CASE d = p
        BY <1>1, <2>1
    <2>2. CASE d # p
        <3>1. view[d].me # p
            BY <1>3, <2>2 DEF Typed, Nobody, Player
        <3> QED
            BY <1>1, <1>7, <3>1, ValidAlike
    <2> QED
        BY <2>1, <2>2
<1>9. \A d \in Player : view'[d] = ApplyMove(view[d], mv)
    BY <1>5, <1>8
<1>10. Alike(view'[Initiator], view'[Claimer])
    BY <1>2, <1>4, <1>7, <1>9, AlikeApplied
<1>11. ASSUME NEW d \in Player PROVE \A q \in Player : BackIn(view'[d].events, q) <= RACK
    BY <1>2, <1>10 DEF Lenient, Alike, SamePublic
<1>12. ASSUME NEW d \in Player PROVE Spent(mv) <= CountOf(view[d], d, p)
    <2>1. Spent(mv) <= CountOf(view[p], p, p)
        BY <1>1, <1>3, SignedSpends DEF CountOf
    <2> QED
        BY <1>7, <2>1
<1>13. ASSUME NEW d \in Player
       PROVE  /\ Accounts(view'[d], d) /\ Refund(view'[d]) /\ Committed(view'[d])
              /\ Tally(view[d], view'[d], d, mv, p)
    <2>1. Accounts(view[d], d) /\ Refund(view[d]) /\ Committed(view[d])
        BY <1>6 DEF Reconciled
    <2> QED
        BY <1>3, <1>8, <1>9, <1>11, <1>12, <2>1, EnterCounts
<1>14. ASSUME NEW q \in Player
       PROVE  CountOf(view'[Claimer], Claimer, q) = CountOf(view'[Initiator], Initiator, q)
    <2>1. PICK s, u : s = view[Initiator] /\ u = view[Claimer]
        OBVIOUS
    <2>2. Alike(s, u) /\ CountOf(u, Claimer, q) = CountOf(s, Initiator, q)
        BY <1>6, <2>1 DEF Reconciled
    <2>3. Returned(u, mv, q) = Returned(s, mv, q)
        BY <2>2 DEF Returned, Alike, SamePublic
    <2>4. Due(Settled(u, mv), q) = Due(Settled(s, mv), q)
        <3>1. PICK x, y : x = Settled(s, mv) /\ y = Settled(u, mv)
            OBVIOUS
        <3>2. Alike(x, y)
            BY <2>2, <3>1, AlikeSettled
        <3> QED
            BY <3>1, <3>2 DEF Due, Alike, SamePublic
    <2>5. /\ Tally(s, view'[Initiator], Initiator, mv, p)
          /\ Tally(u, view'[Claimer], Claimer, mv, p)
        BY <1>2, <1>13, <2>1
    <2> QED
        BY <2>2, <2>3, <2>4, <2>5 DEF Tally
<1>15. SameEnd(view'[Initiator], view'[Claimer])
    <2>1. ASSUME NEW d \in Player PROVE Held(Acted(view[d], mv, p), p) = CountOf(view'[d], d, p)
        <3>1. PICK s, v, t : s = view[d] /\ v = Acted(s, mv, p) /\ t = ApplyMove(s, mv)
            OBVIOUS
        <3>2. PICK c \in BOOLEAN : Tiles(s, d, c)
            BY <1>3, <3>1
        <3>3. Control(s, d) /\ Carries(s, d, mv, p) /\ ValidMove(s, mv, p)
            BY <1>3, <1>8, <3>1
        <3>4. Held(v, p) = CountOf(t, d, p)
            BY <3>1, <3>2, <3>3, HeldIs
        <3> QED
            BY <1>9, <3>1, <3>4
    <2>2. Held(Acted(view[Claimer], mv, p), p) = Held(Acted(view[Initiator], mv, p), p)
        BY <1>2, <1>14, <2>1
    <2>3. p = ToMove(view[Initiator])
        BY <1>2, <1>8 DEF ValidMove
    <2> QED
        BY <1>2, <1>4, <1>7, <1>9, <2>2, <2>3, EndApplied
<1> QED
    BY <1>10, <1>13, <1>14, <1>15 DEF Reconciled

\* A swapped rack holds as many tiles as the one before.
LEMMA TwoSwap ==
    ASSUME TwoInv, NEW p \in Player, Swap(p), Lenient'
    PROVE  Reconciled'
<1>1. PICK rack \in [Kind -> 0..RACK] :
          /\ Size(rack) = Size(view[p].rack)
          /\ view' = [view EXCEPT ![p].rack = rack]
    BY DEF Swap
<1>2. Initiator \in Player /\ Claimer \in Player
    BY DEF Player, Initiator, Claimer
<1>3. DOMAIN view = Player /\ DOMAIN view[p] = Fields
    BY DEF TwoInv, OneInv, Sound, Tiles, Typed
<1>4. PICK s, t : s = view[p] /\ t = view'[p]
    OBVIOUS
<1>5. t = [s EXCEPT !.rack = rack] /\ \A d \in Player : d # p => view'[d] = view[d]
    BY <1>1, <1>3, <1>4
<1>6. Keeps(s, t) /\ SameEnd(s, t)
    BY <1>3, <1>4, <1>5 DEF Keeps, SamePublic, SameEnd, Fields
<1>7. /\ t.rack = rack /\ t.unseen = s.unseen /\ t.bag = s.bag /\ t.pending = s.pending
      /\ t.opponent_tiles = s.opponent_tiles /\ t.events = s.events
      /\ t.seed_hash = s.seed_hash /\ t.reveals = s.reveals /\ t.last_play = s.last_play
      /\ t.index = s.index
    BY <1>3, <1>4, <1>5 DEF Fields
<1>8. \A d, q : CountOf(t, d, q) = CountOf(s, d, q)
    BY <1>1, <1>4, <1>7 DEF CountOf
<1>9. Accounts(s, p) => Accounts(t, p)
    <2>1. \A q : (Full(s, p, q) => Full(t, p, q)) /\ (Absent(s, p, q) => Absent(t, p, q))
        BY <1>7, <1>8 DEF Full, Absent
    <2>2. Covered(s, p) => Covered(t, p)
        BY <1>7 DEF Covered
    <2> QED
        BY <1>7, <2>1, <2>2 DEF Accounts
<1>10. (Refund(s) => Refund(t)) /\ (Committed(s) => Committed(t))
    BY <1>7 DEF Refund, Committed
<1>11. ASSUME NEW d \in Player
       PROVE  /\ Keeps(view[d], view'[d]) /\ SameEnd(view[d], view'[d])
              /\ \A q : CountOf(view'[d], d, q) = CountOf(view[d], d, q)
              /\ Accounts(view[d], d) => Accounts(view'[d], d)
              /\ Refund(view[d]) => Refund(view'[d])
              /\ Committed(view[d]) => Committed(view'[d])
    <2>1. CASE d = p
        BY <1>4, <1>6, <1>8, <1>9, <1>10, <2>1
    <2>2. CASE d # p
        <3>1. view'[d] = view[d] /\ DOMAIN view[d] = Fields
            BY <1>5, <2>2 DEF TwoInv, OneInv, Sound, Tiles, Typed
        <3> QED
            BY <3>1 DEF Keeps, SamePublic, SameEnd
    <2> QED
        BY <2>1, <2>2
<1>12. Reconciled
    <2>1. view'[Initiator].events = view[Initiator].events
        BY <1>2, <1>11 DEF Keeps, SamePublic
    <2> QED
        BY <2>1 DEF TwoInv, Lenient
<1>13. Alike(view'[Initiator], view'[Claimer]) /\ SameEnd(view'[Initiator], view'[Claimer])
    BY <1>2, <1>11, <1>12, AlikeKept, EndBoth DEF Reconciled
<1>14. \A q \in Player : CountOf(view'[Claimer], Claimer, q) = CountOf(view'[Initiator], Initiator, q)
    BY <1>2, <1>11, <1>12 DEF Reconciled
<1> QED
    BY <1>11, <1>12, <1>13, <1>14 DEF Reconciled

LEMMA TwoInvHolds == OneSpec => []TwoInv
<1>1. OneInit => TwoInv
    BY TwoInit
<1>2. TwoInv /\ [OneNext]_<<view, cheat>> => TwoInv'
    <2>1. ASSUME TwoInv, OneNext PROVE TwoInv'
        <3>1. PICK p \in Player : Enter(p) \/ Swap(p)
            BY <2>1 DEF OneNext
        <3>2. OneInv'
            BY <2>1, <3>1, EnterHolds, SwapHolds DEF TwoInv
        <3>3. Lenient' => Reconciled'
            BY <2>1, <3>1, <3>2, TwoEnter, TwoSwap
        <3> QED
            BY <3>2, <3>3 DEF TwoInv
    <2>2. ASSUME TwoInv, UNCHANGED <<view, cheat>> PROVE TwoInv'
        BY <2>2 DEF TwoInv, OneInv, Sound, InStep, Judged, Shown, Passed, Lenient, Reconciled
    <2> QED
        BY <2>1, <2>2
<1> QED
    BY <1>1, <1>2, PTL DEF OneSpec

\* The devices never differ in what is public (game.rs:3-5), and each counts the
\* other's tiles rightly, for any bag and any rack, as long as no more than a
\* rack of anybody's tiles has been taken back by challenges: the pool of a
\* device then covers what it is dealt, although it forgets a tile each time
\* the opponent puts it down.
THEOREM SameUntilTakenBackAlways == OneSpec => []SameUntilTakenBack
<1>1. ASSUME TwoInv, \A p \in Player : TakenBack(p) <= RACK PROVE SameConclusions
    <2>1. Reconciled
        BY <1>1, TakenBackIs DEF TwoInv, Lenient
    <2>2. Public(view[Initiator]) = Public(view[Claimer])
        BY <2>1 DEF Reconciled, Alike, SamePublic, SameEnd, Public
    <2>3. ASSUME NEW p \in Player PROVE view[p].opponent_tiles = Size(view[Other(p)].rack)
        <3>1. \A q \in Player : CountOf(view[Claimer], Claimer, q) = CountOf(view[Initiator], Initiator, q)
            BY <2>1 DEF Reconciled
        <3>2. CASE p = Initiator
            BY <3>1, <3>2 DEF CountOf, Other, Player, Initiator, Claimer
        <3>3. CASE p = Claimer
            BY <3>1, <3>3 DEF CountOf, Other, Player, Initiator, Claimer
        <3> QED
            BY <3>2, <3>3 DEF Player, Initiator, Claimer
    <2> QED
        BY <2>2, <2>3 DEF SameConclusions
<1>2. TwoInv => SameUntilTakenBack
    BY <1>1 DEF SameUntilTakenBack
<1> QED
    BY <1>2, TwoInvHolds, PTL
==============================================================================
