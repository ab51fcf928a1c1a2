-------------------------- MODULE CollectionProofs --------------------------
(***************************************************************************)
(* Theorems about the operators of SegmentLog, for logs of every size, and *)
(* about Collection, for every number of ids, segments, values, writers,   *)
(* readers and crashes: types, the batches of ids, and where the files     *)
(* are, with the order in which the open collection lists them.            *)
(***************************************************************************)
EXTENDS CollectionInv, WellFoundedInduction, TLAPS

-----------------------------------------------------------------------------
(* The operators of SegmentLog.                                            *)

Log == [Segs -> Seq(Entry)]

\* Rebuild yields a primary index.
LEMMA RebuildType ==
  ASSUME NEW d \in Log, NEW L \in Seq(Segs)
  PROVE  Rebuild(d, L) \in [Ids -> Loc \cup {Nil}]
<1>1. SUFFICES ASSUME NEW id \in Ids, IsLive(d, L, id)
               PROVE  Rebuild(d, L)[id] \in Loc
  BY Zenon DEF Rebuild
<1> DEFINE p == CHOOSE p \in DOMAIN L :
                  \E i \in DOMAIN d[L[p]] : LiveAt(d, L, id, p, i)
           i == CHOOSE i \in DOMAIN d[L[p]] : LiveAt(d, L, id, p, i)
<1>2. p \in DOMAIN L /\ i \in DOMAIN d[L[p]]
  BY <1>1, Zenon DEF IsLive
<1>3. L[p] \in Segs /\ d[L[p]] \in Seq(Entry)
  BY <1>2 DEF Log
<1>4. i \in Nat
  BY <1>2, <1>3
<1>5. Rebuild(d, L)[id] = [seg |-> L[p], off |-> i]
  BY <1>1, Zenon DEF Rebuild
<1> QED BY <1>3, <1>4, <1>5 DEF Loc

\* Applying part of a swap to a log yields a log.
LEMMA ApplySwapType ==
  ASSUME NEW d \in Log, NEW T \in Log, NEW R, NEW Q
  PROVE  ApplySwap(d, T, R, Q) \in Log
BY DEF ApplySwap, Log

\* Recovery leaves a log a log.
LEMMA RollForwardType ==
  ASSUME NEW d \in Log, NEW T \in Log, NEW m
  PROVE  RollForward(d, T, m) \in Log
BY ApplySwapType, Zenon DEF RollForward

\* The survivors of a log are entries of it, and an order of them is a
\* sequence of entries.
LEMMA MapOrdersType ==
  ASSUME NEW d \in Log, NEW L \in Seq(Segs),
         NEW ord \in MapOrders(resolveEntries(d, L))
  PROVE  ord \in Seq(Entry)
<1>1. resolveEntries(d, L) \subseteq Entry
  BY DEF resolveEntries, Log
<1>2. PICK n \in 0..MaxId : ord \in [1..n -> resolveEntries(d, L)]
  BY ZenonT(30) DEF MapOrders
<1>3. n \in Nat
  BY <1>2, BoundsAssumption
<1> QED BY <1>1, <1>2, <1>3

\* A set of naturals has a least member.
LEMMA LeastNat ==
  ASSUME NEW S \in SUBSET Nat, S # {}
  PROVE  \E x \in S : \A y \in S : x <= y
<1>1. PICK x \in S : \A y \in S : ~ (<<y, x>> \in OpToRel(<, Nat))
  BY WFMin, NatLessThanWellFounded, Zenon
<1>2. ASSUME NEW y \in S PROVE x <= y
  <2>1. ~ (y < x) BY <1>1, Zenon DEF OpToRel
  <2> QED BY <2>1
<1> QED BY <1>2, Zenon

\* The files writeCompacted produces hold entries.
LEMMA WriteCompactedType ==
  ASSUME NEW T0 \in Log, NEW ord \in Seq(Entry), NEW cut \in Cuts(T0, ord)
  PROVE  /\ writeCompacted(T0, ord, cut) \in Log
         /\ cut \in Seq(0..Len(ord)) /\ Len(cut) \in 0..MaxSeg
<1>1. PICK n \in 0..MaxSeg : cut \in [1..n -> 0..Len(ord)]
  BY Zenon DEF Cuts
<1>2. n \in Nat /\ Len(cut) = n /\ cut \in Seq(0..Len(ord))
  BY <1>1, BoundsAssumption
<1>3. ASSUME NEW k \in 1..n
      PROVE  SubSeq(ord, Start(cut, k) + 1, cut[k]) \in Seq(Entry)
  <2>1. Start(cut, k) \in Nat /\ cut[k] \in 0..Len(ord)
    BY <1>1, <1>2 DEF Start
  <2>2. ASSUME NEW j \in (Start(cut, k) + 1)..cut[k] PROVE ord[j] \in Entry
    BY <2>1
  <2> QED BY <2>1, <2>2
<1>4. ASSUME NEW k \in Segs, k \in 1..n
      PROVE  T0[k] \o SubSeq(ord, Start(cut, k) + 1, cut[k]) \in Seq(Entry)
  BY <1>3, <1>4 DEF Log
<1> QED BY <1>1, <1>2, <1>4, Zenon DEF writeCompacted, Log

\* Starting without leftovers, file k holds the k-th run of ord, and no file
\* is empty.
LEMMA FreshCut ==
  ASSUME NEW ord \in Seq(Entry), NEW cut \in Cuts(EmptyLog, ord), NEW k \in Segs
  PROVE  LET T == writeCompacted(EmptyLog, ord, cut) IN
         IF k <= Len(cut)
         THEN /\ Start(cut, k) \in Nat /\ cut[k] \in 0..Len(ord)
              /\ Start(cut, k) < cut[k]
              /\ Len(T[k]) = cut[k] - Start(cut, k)
              /\ \A i \in 1..Len(T[k]) : T[k][i] = ord[Start(cut, k) + i]
              /\ T[k] # <<>>
         ELSE T[k] = <<>>
<1> DEFINE T == writeCompacted(EmptyLog, ord, cut)
           n == Len(cut)
<1>0. EmptyLog \in Log
  BY DEF EmptyLog, Log
<1>1. cut \in Seq(0..Len(ord)) /\ n \in 0..MaxSeg /\ n \in Nat
  BY <1>0, WriteCompactedType, BoundsAssumption
<1>2. CASE k > n
  <2>1. k \notin 1..n BY <1>1, <1>2
  <2> QED BY <1>1, <1>2, <2>1 DEF writeCompacted, EmptyLog, Segs
<1>3. CASE k <= n
  <2>1. k \in 1..n
    BY <1>1, <1>3 DEF Segs
  <2>2. IsCut(EmptyLog, ord, cut)
    BY Zenon DEF Cuts
  <2>3. /\ cut[n] = Len(ord) /\ ord # <<>>
        /\ \A j, m \in 1..n : j < m => cut[j] < cut[m]
    BY <2>1, <2>2, <1>1 DEF IsCut
  <2>4. Start(cut, k) \in Nat /\ cut[k] \in 0..Len(ord)
    BY <1>1, <2>1 DEF Start
  <2>5. Start(cut, k) < cut[k]
    <3>1. CASE k # 1
      <4>1. k - 1 \in 1..n /\ k - 1 < k
        BY <1>1, <2>1, <3>1
      <4> QED BY <2>1, <2>3, <3>1, <4>1, Zenon DEF Start
    <3>2. CASE k = 1 /\ n = 1
      BY <2>3, <3>2 DEF Start
    <3>3. CASE k = 1 /\ n # 1
      <4>1. Len(EmptyLog[k]) + (cut[k] - Start(cut, k)) >= SegmentMaxSize
        <5>1. ASSUME NEW x \in Nat, 1 \in 1..x, x # 1 PROVE 1 < x
          BY <5>1
        <5>2. k < n BY <1>1, <2>1, <3>3, <5>1, Zenon
        <5> QED BY <2>1, <2>2, <5>2, Zenon DEF IsCut
      <4>2. EmptyLog[k] = <<>>
        BY Zenon DEF EmptyLog
      <4> QED BY <4>1, <4>2, <2>4, BoundsAssumption
    <3> QED BY <3>1, <3>2, <3>3, Zenon
  <2>6. SubSeq(ord, Start(cut, k) + 1, cut[k]) \in Seq(Entry)
    <3>1. ASSUME NEW j \in (Start(cut, k) + 1)..cut[k] PROVE ord[j] \in Entry
      BY <2>4
    <3> QED BY <2>4, <3>1
  <2>7. T[k] = SubSeq(ord, Start(cut, k) + 1, cut[k])
    <3>1. T[k] = <<>> \o SubSeq(ord, Start(cut, k) + 1, cut[k])
      BY <2>1, Zenon DEF writeCompacted, EmptyLog
    <3> QED BY <3>1, <2>6
  <2>8. /\ Len(T[k]) = cut[k] - Start(cut, k)
        /\ \A i \in 1..Len(T[k]) : T[k][i] = ord[Start(cut, k) + i]
    BY ONLY SMTT(40), <2>4, <2>5, <2>7, ord \in Seq(Entry)
  <2>9. T[k] # <<>>
    BY <2>4, <2>5, <2>8
  <2> QED BY <1>3, <2>4, <2>5, <2>8, <2>9, Zenon
<1> QED BY <1>1, <1>2, <1>3 DEF Segs

\* Two entries with one id cannot both be the last of it.
LEMMA WinnerUnique ==
  ASSUME NEW d \in Log, NEW L \in Seq(Segs),
         NEW p \in DOMAIN L, NEW i \in DOMAIN d[L[p]], Wins(d, L, p, i),
         NEW q \in DOMAIN L, NEW j \in DOMAIN d[L[q]], Wins(d, L, q, j),
         d[L[p]][i].id = d[L[q]][j].id
  PROVE  p = q /\ i = j
<1>1. p \in Nat /\ q \in Nat
  OBVIOUS
<1>2. L[p] \in Segs /\ L[q] \in Segs
  OBVIOUS
<1>3. i \in Nat /\ j \in Nat
  BY <1>2 DEF Log
<1>4. q < p \/ (q = p /\ j <= i)
  BY Zenon DEF Wins
<1>5. p < q \/ (p = q /\ i <= j)
  BY Zenon DEF Wins
<1> QED BY <1>1, <1>3, <1>4, <1>5

\* resolveEntries and writeCompacted together: the temp files hold every
\* survivor exactly once, whatever order the map yields them in.
LEMMA WriteCompactedSound ==
  ASSUME NEW d \in Log, NEW L \in Seq(Segs),
         NEW ord \in MapOrders(resolveEntries(d, L)),
         NEW cut \in Cuts(EmptyLog, ord)
  PROVE  Compacted(writeCompacted(EmptyLog, ord, cut), Len(cut), d, L)
<1> DEFINE T == writeCompacted(EmptyLog, ord, cut)
           n == Len(cut)
           S == resolveEntries(d, L)
           Survives(p, j) == d[L[p]][j].op # "delete" /\ Wins(d, L, p, j)
<1>0. /\ ord \in Seq(Entry) /\ T \in Log
      /\ cut \in Seq(0..Len(ord)) /\ n \in 0..MaxSeg /\ n \in Nat
      /\ Len(ord) \in Nat /\ DOMAIN ord = 1..Len(ord)
      /\ \A k \in 1..n : k \in Segs /\ k \in Nat /\ k <= n /\ cut[k] \in Nat
  <2>1. EmptyLog \in Log BY DEF EmptyLog, Log
  <2>2. ord \in Seq(Entry) BY MapOrdersType, Zenon
  <2>3. T \in Log /\ cut \in Seq(0..Len(ord)) /\ n \in 0..MaxSeg
    BY <2>1, <2>2, WriteCompactedType, Zenon
  <2>4. n \in Nat /\ Len(ord) \in Nat /\ DOMAIN ord = 1..Len(ord)
    BY <2>2, <2>3, BoundsAssumption
  <2>5. \A k \in 1..n : cut[k] \in Nat BY <2>3, <2>4
  <2>6. \A k \in 1..n : k \in Segs /\ k \in Nat /\ k <= n
    BY <2>3, <2>4, BoundsAssumption DEF Segs
  <2> QED BY <2>2, <2>3, <2>4, <2>5, <2>6, Zenon
<1>1. /\ \A x \in DOMAIN ord : ord[x] \in S
      /\ \A e \in S : \E x \in DOMAIN ord : ord[x] = e
      /\ \A x, y \in DOMAIN ord : ord[x] = ord[y] => x = y
  BY DEF MapOrders
<1>2. \A e \in S : \E p \in DOMAIN L : \E j \in DOMAIN d[L[p]] :
        e = d[L[p]][j] /\ Survives(p, j)
  BY Zenon DEF resolveEntries
<1>3. \A p \in DOMAIN L : \A j \in DOMAIN d[L[p]] : Survives(p, j) => d[L[p]][j] \in S
  BY DEF resolveEntries
<1>4. ASSUME NEW k \in 1..n, NEW i \in DOMAIN T[k]
      PROVE  /\ Start(cut, k) \in Nat /\ i \in Nat
             /\ Start(cut, k) + i \in DOMAIN ord
             /\ Start(cut, k) < Start(cut, k) + i /\ Start(cut, k) + i <= cut[k]
             /\ T[k][i] = ord[Start(cut, k) + i]
  <2>1. k \in Segs /\ k <= n BY <1>0, Zenon
  <2>2. /\ Start(cut, k) \in Nat /\ cut[k] \in 0..Len(ord)
        /\ Len(T[k]) = cut[k] - Start(cut, k)
        /\ \A x \in 1..Len(T[k]) : T[k][x] = ord[Start(cut, k) + x]
    BY <1>0, <2>1, FreshCut, Zenon
  <2>3. i \in 1..Len(T[k]) BY <1>0, <2>1 DEF Log
  <2>4. ASSUME NEW a \in Nat, NEW c \in 0..Len(ord), i \in 1..(c - a)
        PROVE  i \in Nat /\ a + i \in 1..Len(ord) /\ a < a + i /\ a + i <= c
    BY <1>0, <2>4
  <2> QED BY <1>0, <2>2, <2>3, <2>4, Zenon
<1>5. ASSUME NEW x \in DOMAIN ord
      PROVE  \E k \in 1..n : \E i \in DOMAIN T[k] : T[k][i] = ord[x]
  <2>0. x \in 1..Len(ord) /\ Len(ord) \in Nat /\ x \in Nat BY <1>0
  <2>1. n > 0 /\ cut[n] = Len(ord)
    <3>1. ord # <<>> BY <2>0
    <3> QED BY <3>1, Zenon DEF Cuts, IsCut
  <2> DEFINE above == {k \in 1..n : x <= cut[k]}
  <2>2. above \in SUBSET Nat /\ n \in above
    BY <1>0, <2>0, <2>1
  <2>3. PICK k \in above : \A y \in above : k <= y
    BY <2>2, LeastNat, Zenon
  <2>4. k \in 1..n /\ k \in Nat /\ x <= cut[k] /\ k \in Segs
    BY <1>0, <2>3, Zenon
  <2>5. /\ Start(cut, k) \in Nat /\ cut[k] \in 0..Len(ord)
        /\ Len(T[k]) = cut[k] - Start(cut, k)
        /\ \A i \in 1..Len(T[k]) : T[k][i] = ord[Start(cut, k) + i]
    BY <1>0, <2>4, FreshCut, Zenon
  <2>6. Start(cut, k) < x
    <3>1. CASE k = 1 BY <2>0, <3>1 DEF Start
    <3>2. CASE k # 1
      <4>1. k - 1 \in 1..n /\ ~ (k <= k - 1) BY <1>0, <2>4, <3>2
      <4>2. k - 1 \notin above BY <2>3, <4>1, Zenon
      <4>3. ~ (x <= cut[k - 1]) BY <4>1, <4>2, Zenon
      <4>4. cut[k - 1] \in Nat BY <1>0, <4>1, Zenon
      <4> QED BY <2>0, <3>2, <4>3, <4>4 DEF Start
    <3> QED BY <3>1, <3>2, Zenon
  <2>7. x - Start(cut, k) \in 1..Len(T[k]) /\ Start(cut, k) + (x - Start(cut, k)) = x
    BY <2>0, <2>4, <2>5, <2>6
  <2>8. DOMAIN T[k] = 1..Len(T[k]) BY <1>0, <2>4 DEF Log
  <2> QED BY <2>4, <2>5, <2>7, <2>8, Zenon
<1>6. ASSUME NEW x \in DOMAIN ord, NEW y \in DOMAIN ord, ord[x].id = ord[y].id
      PROVE  x = y
  <2>1. PICK p \in DOMAIN L : \E j \in DOMAIN d[L[p]] :
               ord[x] = d[L[p]][j] /\ Survives(p, j)
    BY <1>1, <1>2, Zenon
  <2>2. PICK j \in DOMAIN d[L[p]] : ord[x] = d[L[p]][j] /\ Survives(p, j)
    BY <2>1, Zenon
  <2>3. PICK q \in DOMAIN L : \E i \in DOMAIN d[L[q]] :
               ord[y] = d[L[q]][i] /\ Survives(q, i)
    BY <1>1, <1>2, Zenon
  <2>4. PICK i \in DOMAIN d[L[q]] : ord[y] = d[L[q]][i] /\ Survives(q, i)
    BY <2>3, Zenon
  <2>5. p = q /\ j = i
    BY <1>6, <2>2, <2>4, WinnerUnique, Zenon
  <2> QED BY <1>1, <2>2, <2>4, <2>5, Zenon
<1>7. ASSUME NEW k \in 1..n, NEW m \in 1..n,
             NEW i \in DOMAIN T[k], NEW j \in DOMAIN T[m],
             T[k][i].id = T[m][j].id
      PROVE  k = m /\ i = j
  <2>1. Start(cut, k) + i = Start(cut, m) + j
    BY <1>4, <1>6, <1>7
  <2>2. \A x, y \in 1..n : x < y => cut[x] <= Start(cut, y)
    <3>1. SUFFICES ASSUME NEW x \in 1..n, NEW y \in 1..n, x < y
                   PROVE  cut[x] <= cut[y - 1] /\ y # 1
      BY <1>0, Zenon DEF Start
    <3>2. y - 1 \in 1..n /\ x <= y - 1 /\ y # 1 BY <1>0, <3>1
    <3>3. \A u, v \in 1..n : u < v => cut[u] < cut[v]
      <4>1. IsCut(EmptyLog, ord, cut) BY Zenon DEF Cuts
      <4> QED BY <4>1, Zenon DEF IsCut
    <3>4. cut[x] \in Nat /\ cut[y - 1] \in Nat BY <1>0, <3>2, Zenon
    <3>5. x \in 1..n /\ x \in Nat /\ y - 1 \in Nat BY <1>0, <3>2, Zenon
    <3>6. x = y - 1 \/ x < y - 1 BY ONLY <3>2, <3>5
    <3>7. cut[x] = cut[y - 1] \/ cut[x] < cut[y - 1] BY <3>2, <3>3, <3>5, <3>6, Zenon
    <3> QED BY ONLY <3>2, <3>4, <3>7
  <2>3. /\ Start(cut, k) \in Nat /\ Start(cut, m) \in Nat /\ i \in Nat /\ j \in Nat
        /\ Start(cut, k) < Start(cut, k) + i /\ Start(cut, k) + i <= cut[k]
        /\ Start(cut, m) < Start(cut, m) + j /\ Start(cut, m) + j <= cut[m]
    BY <1>4, Zenon
  <2>4. k \in Nat /\ m \in Nat /\ cut[k] \in Nat /\ cut[m] \in Nat BY <1>0, Zenon
  <2>5. ~ (k < m) BY <2>1, <2>2, <2>3, <2>4
  <2>6. ~ (m < k) BY <2>1, <2>2, <2>3, <2>4
  <2> QED BY <2>1, <2>3, <2>4, <2>5, <2>6
<1>8. ASSUME NEW k \in 1..n, NEW i \in DOMAIN T[k]
      PROVE  \E p \in DOMAIN L : \E j \in DOMAIN d[L[p]] :
               T[k][i] = d[L[p]][j] /\ Survives(p, j)
  BY <1>1, <1>2, <1>4
<1>9. ASSUME NEW p \in DOMAIN L, NEW j \in DOMAIN d[L[p]], Survives(p, j)
      PROVE  \E k \in 1..n : \E i \in DOMAIN T[k] : T[k][i] = d[L[p]][j]
  BY <1>1, <1>3, <1>5, <1>9
<1> QED
  <2> HIDE DEF T, n
  <2>1. Compacted(T, n, d, L) BY <1>7, <1>8, <1>9, Zenon DEF Compacted
  <2> QED BY <2>1, Zenon DEF T, n

\* Below segment a, the order of a sorted scan list is the order of the
\* segment numbers.
LEMMA SortedScan ==
  ASSUME NEW d \in Log, NEW L \in Seq(Segs), NEW a \in Segs,
         \A p \in DOMAIN L : L[p] < a,
         \A p, q \in DOMAIN L : p < q => L[p] < L[q],
         \A s \in Segs : s < a /\ d[s] # <<>> => \E p \in DOMAIN L : L[p] = s,
         NEW p \in DOMAIN L, NEW i \in DOMAIN d[L[p]]
  PROVE  Wins(d, L, p, i) <=>
           \A t \in Segs : t < a => \A j \in DOMAIN d[t] :
             d[t][j].id = d[L[p]][i].id => t < L[p] \/ (t = L[p] /\ j <= i)
<1>0. \A q \in DOMAIN L : L[q] \in Segs /\ L[q] \in Nat /\ q \in Nat
  BY BoundsAssumption DEF Segs
<1>1. ASSUME Wins(d, L, p, i),
             NEW t \in Segs, t < a, NEW j \in DOMAIN d[t],
             d[t][j].id = d[L[p]][i].id
      PROVE  t < L[p] \/ (t = L[p] /\ j <= i)
  <2>1. d[t] # <<>> BY <1>1 DEF Log
  <2>2. PICK q \in DOMAIN L : L[q] = t BY <1>1, <2>1, Zenon
  <2>3. q < p \/ (q = p /\ j <= i) BY <1>1, <2>2, Zenon DEF Wins
  <2> QED BY <2>2, <2>3, Zenon
<1>2. ASSUME \A t \in Segs : t < a => \A j \in DOMAIN d[t] :
               d[t][j].id = d[L[p]][i].id => t < L[p] \/ (t = L[p] /\ j <= i),
             NEW q \in DOMAIN L, NEW j \in DOMAIN d[L[q]],
             d[L[q]][j].id = d[L[p]][i].id
      PROVE  q < p \/ (q = p /\ j <= i)
  <2>1. L[q] < L[p] \/ (L[q] = L[p] /\ j <= i) BY <1>0, <1>2, Zenon
  <2>2. p < q => L[p] < L[q] BY <1>0, Zenon
  <2> QED BY <1>0, <2>1, <2>2
<1> QED BY <1>1, <1>2, Zenon DEF Wins

\* The last entry of an id, when all segments are scanned.
LEMMA WinsAll ==
  ASSUME NEW d \in Log, NEW s \in Segs, NEW i
  PROVE  Wins(d, AllSegs, s, i) <=>
           \A t \in Segs : \A j \in DOMAIN d[t] :
             d[t][j].id = d[s][i].id => t < s \/ (t = s /\ j <= i)
<1>1. DOMAIN AllSegs = Segs /\ \A t \in Segs : AllSegs[t] = t BY Zenon DEF AllSegs
<1> QED BY <1>1, Zenon DEF Wins

\* No entry of the same id follows the last one.
LEMMA WinsOver ==
  ASSUME NEW d \in Log, NEW s \in Segs, NEW i, Wins(d, AllSegs, s, i),
         NEW t \in Segs, NEW j \in DOMAIN d[t], d[t][j].id = d[s][i].id
  PROVE  t < s \/ (t = s /\ j <= i)
BY WinsAll, Zenon

\* Compaction is invisible: replacing all segments below the active segment a
\* by the files that hold their survivors changes the meaning of no id,
\* whatever was appended to the active segment meanwhile.
THEOREM CompactionKeepsMeaning ==
  ASSUME NEW d \in Log, NEW T \in Log, NEW e \in Log,
         NEW L \in Seq(Segs), NEW a \in Segs, NEW n \in Nat, n < a,
         NEW meant \in [Ids -> Entry \cup {Nil}],
         \A p \in DOMAIN L : L[p] < a,
         \A p, q \in DOMAIN L : p < q => L[p] < L[q],
         \A s \in Segs : s < a /\ d[s] # <<>> => \E p \in DOMAIN L : L[p] = s,
         \A s \in Segs : s > a => d[s] = <<>>,
         Compacted(T, n, d, L),
         \A s \in Segs : e[s] = IF s <= n THEN T[s]
                                ELSE IF s < a THEN <<>> ELSE d[s],
         Means(d, meant)
  PROVE  Means(e, meant)
<1>0. /\ \A s \in Segs : s \in Nat
      /\ DOMAIN AllSegs = Segs /\ \A s \in Segs : AllSegs[s] = s
      /\ \A s \in Segs : d[s] \in Seq(Entry) /\ e[s] \in Seq(Entry)
      /\ \A s \in 1..n : s \in Segs /\ s <= n /\ s < a /\ e[s] = T[s]
  BY BoundsAssumption DEF Segs, AllSegs, Log
<1> DEFINE InActive(id) == \E i \in DOMAIN d[a] : d[a][i].id = id
<1>1. e[a] = d[a]
  BY <1>0
<1>2. ASSUME NEW s \in Segs, NEW i \in DOMAIN e[s]
      PROVE  s = a \/ s \in 1..n
  <2>1. s \in Nat /\ s >= 1 /\ a \in Nat BY BoundsAssumption DEF Segs
  <2>2. e[s] # <<>> BY <1>0, <1>2
  <2>3. s <= n \/ s >= a BY <1>0, <2>1, <2>2
  <2>4. ~ (s > a) BY <1>0, <2>1, <2>2
  <2> QED BY <2>1, <2>3, <2>4
<1>3. ASSUME NEW i \in DOMAIN d[a]
      PROVE  Wins(d, AllSegs, a, i) <=> Wins(e, AllSegs, a, i)
  <2>1. ASSUME NEW s \in Segs, NEW j \in DOMAIN d[s] PROVE s < a \/ s = a
    BY <1>0, <2>1
  <2>2. ASSUME NEW s \in Segs, NEW j \in DOMAIN e[s] PROVE s < a \/ s = a
    BY <1>0, <1>2, <2>2, Zenon
  <2>3. ASSUME NEW x \in Log, NEW y \in Log, x[a] = y[a], i \in DOMAIN x[a],
               \A s \in Segs : \A j \in DOMAIN y[s] : s < a \/ s = a,
               Wins(x, AllSegs, a, i)
        PROVE  Wins(y, AllSegs, a, i)
    <3>1. ASSUME NEW t \in Segs, NEW j \in DOMAIN y[t], y[t][j].id = y[a][i].id
          PROVE  t < a \/ (t = a /\ j <= i)
      <4>1. CASE t < a BY <4>1, Zenon
      <4>2. CASE t = a
        <5>1. j \in DOMAIN x[a] /\ x[a][j].id = x[a][i].id BY <2>3, <3>1, <4>2, Zenon
        <5>2. a < a \/ (a = a /\ j <= i)
          BY ONLY <2>3, <5>1, WinsOver, x \in Log, a \in Segs, Zenon
        <5>3. ~ (a < a) BY ONLY BoundsAssumption, a \in Segs DEF Segs
        <5> QED BY <4>2, <5>2, <5>3, Zenon
      <4> QED BY <2>3, <4>1, <4>2, Zenon
    <3> QED BY <3>1, WinsAll, Zenon
  <2>4. i \in DOMAIN e[a] BY <1>1, Zenon
  <2> QED BY <1>1, <2>1, <2>2, <2>3, <2>4, Zenon
<1>4. ASSUME NEW id \in Ids, ~ InActive(id),
             NEW p \in DOMAIN L, NEW j \in DOMAIN d[L[p]], d[L[p]][j].id = id
      PROVE  Wins(d, L, p, j) <=> Wins(d, AllSegs, L[p], j)
  <2>1. L[p] \in Segs BY <1>0
  <2>2. ASSUME NEW t \in Segs, NEW x \in DOMAIN d[t], d[t][x].id = id PROVE t < a
    BY <1>0, <1>4, <2>2
  <2>3. Wins(d, L, p, j) <=>
          \A t \in Segs : t < a => \A x \in DOMAIN d[t] :
            d[t][x].id = d[L[p]][j].id => t < L[p] \/ (t = L[p] /\ x <= j)
    BY SortedScan, Zenon
  <2> QED BY <1>0, <1>4, <2>1, <2>2, <2>3, ZenonT(30) DEF Wins
<1>5. ASSUME NEW id \in Ids, meant[id] = Nil, IsLive(e, AllSegs, id)
      PROVE  FALSE
  <2>0. ~ IsLive(d, AllSegs, id) BY <1>5, Zenon DEF Means
  <2>1. PICK s \in Segs : \E i \in DOMAIN e[s] : LiveAt(e, AllSegs, id, s, i)
    BY <1>0, <1>5, Zenon DEF IsLive
  <2>2. PICK i \in DOMAIN e[s] : LiveAt(e, AllSegs, id, s, i) BY <2>1, Zenon
  <2>3. e[s][i].id = id /\ e[s][i].op # "delete" /\ Wins(e, AllSegs, s, i)
    BY <1>0, <2>2, Zenon DEF LiveAt
  <2>4. CASE s = a
    <3>1. LiveAt(d, AllSegs, id, a, i) BY <1>0, <1>1, <1>3, <2>3, <2>4, Zenon DEF LiveAt
    <3> QED BY <1>0, <1>1, <2>0, <2>4, <3>1, ZenonT(30) DEF IsLive
  <2>5. CASE s \in 1..n
    <3>1. ~ InActive(id)
      <4>1. ASSUME NEW x \in DOMAIN d[a], d[a][x].id = id PROVE FALSE
        <5>1. x \in DOMAIN e[a] /\ e[a][x].id = e[s][i].id BY <1>1, <2>3, <4>1, Zenon
        <5>2. a < s \/ (a = s /\ x <= i)
          BY ONLY <2>3, <5>1, WinsOver, e \in Log, a \in Segs, s \in Segs, Zenon
        <5> QED BY <1>0, <2>5, <5>2
      <4> QED BY <4>1, Zenon
    <3>2. e[s] = T[s] BY <1>0, <2>5, Zenon
    <3>3. PICK p \in DOMAIN L : \E j \in DOMAIN d[L[p]] :
                 T[s][i] = d[L[p]][j] /\ d[L[p]][j].op # "delete" /\ Wins(d, L, p, j)
      BY <2>5, <3>2 DEF Compacted
    <3>4. PICK j \in DOMAIN d[L[p]] :
                 T[s][i] = d[L[p]][j] /\ d[L[p]][j].op # "delete" /\ Wins(d, L, p, j)
      BY <3>3, Zenon
    <3>5. d[L[p]][j].id = id BY <2>3, <3>2, <3>4, Zenon
    <3>6. L[p] \in Segs /\ Wins(d, AllSegs, L[p], j) BY <1>4, <3>1, <3>4, <3>5
    <3>7. LiveAt(d, AllSegs, id, L[p], j) BY <1>0, <3>4, <3>5, <3>6, Zenon DEF LiveAt
    <3> QED BY <1>0, <2>0, <3>6, <3>7, Zenon DEF IsLive
  <2> QED BY <1>2, <2>4, <2>5, Zenon
<1>6. ASSUME NEW id \in Ids, meant[id] # Nil
      PROVE  \E s \in Segs : \E i \in DOMAIN e[s] :
               LiveAt(e, AllSegs, id, s, i) /\ e[s][i] = meant[id]
  <2>1. PICK s \in Segs : \E i \in DOMAIN d[s] :
               LiveAt(d, AllSegs, id, s, i) /\ d[s][i] = meant[id]
    BY <1>6, Zenon DEF Means
  <2>2. PICK i \in DOMAIN d[s] : LiveAt(d, AllSegs, id, s, i) /\ d[s][i] = meant[id]
    BY <2>1, Zenon
  <2>3. d[s][i].id = id /\ d[s][i].op # "delete" /\ Wins(d, AllSegs, s, i)
    BY <1>0, <2>2, Zenon DEF LiveAt
  <2>4. CASE s = a
    <3>1. LiveAt(e, AllSegs, id, a, i) BY <1>0, <1>1, <1>3, <2>3, <2>4, Zenon DEF LiveAt
    <3> QED BY <1>1, <2>2, <2>4, <3>1
  <2>5. CASE s # a
    <3>1. s < a /\ d[s] # <<>> BY <1>0, <2>5
    <3>2. ~ InActive(id)
      <4>1. ASSUME NEW x \in DOMAIN d[a], d[a][x].id = id PROVE FALSE
        <5>0. d[a][x].id = d[s][i].id BY <2>3, <4>1, Zenon
        <5>1. a < s \/ (a = s /\ x <= i)
          BY ONLY <2>3, <5>0, WinsOver, d \in Log, a \in Segs, s \in Segs,
                  x \in DOMAIN d[a], Zenon
        <5> QED BY <1>0, <3>1, <5>1
      <4> QED BY <4>1, Zenon
    <3>3. PICK p \in DOMAIN L : L[p] = s BY <3>1, Zenon
    <3>4. Wins(d, L, p, i) BY <1>4, <2>3, <3>2, <3>3, Zenon
    <3>5. PICK k \in 1..n : \E x \in DOMAIN T[k] : T[k][x] = d[s][i]
      BY <2>3, <3>3, <3>4 DEF Compacted
    <3>6. PICK x \in DOMAIN T[k] : T[k][x] = d[s][i] BY <3>5, Zenon
    <3>7. k \in Segs /\ e[k] = T[k] BY <1>0, Zenon
    <3>8. ASSUME NEW t \in Segs, NEW y \in DOMAIN e[t], e[t][y].id = id
          PROVE  t = k /\ y = x
      <4>1. t # a BY <1>1, <3>2, <3>8, Zenon
      <4>2. t \in 1..n /\ e[t] = T[t] BY <1>0, <1>2, <4>1, Zenon
      <4> QED BY <2>3, <3>6, <3>8, <4>2 DEF Compacted
    <3>9. Wins(e, AllSegs, k, x)
      <4>1. x <= x BY <3>7, <1>0
      <4>2. e[k][x].id = id BY <2>3, <3>6, <3>7, Zenon
      <4>3. ASSUME NEW t \in DOMAIN AllSegs, NEW y \in DOMAIN e[AllSegs[t]],
                   e[AllSegs[t]][y].id = e[AllSegs[k]][x].id
            PROVE  t < k \/ (t = k /\ y <= x)
        <5>1. t \in Segs /\ AllSegs[t] = t /\ AllSegs[k] = k BY <1>0, <3>7, Zenon
        <5>2. t = k /\ y = x BY <3>8, <4>2, <4>3, <5>1
        <5> QED BY <4>1, <5>2, Zenon
      <4> QED BY <4>3, Zenon DEF Wins
    <3>10. LiveAt(e, AllSegs, id, k, x) BY <1>0, <2>3, <3>6, <3>7, <3>9, ZenonT(30) DEF LiveAt
    <3> QED BY <2>2, <3>6, <3>7, <3>10
  <2> QED BY <2>4, <2>5, Zenon
<1> QED BY <1>5, <1>6, Zenon DEF Means

\* e is the log d with the entries new appended to segment a.
IsAppend(d, e, a, new) ==
  e[a] = d[a] \o new /\ \A s \in Segs : s # a => e[s] = d[s]

DistinctIds(new) == \A k, m \in 1..Len(new) : new[k].id = new[m].id => k = m

\* meant2 is the map meant after the writes new.
Applied(new, meant, meant2) ==
  /\ \A k \in 1..Len(new) :
       meant2[new[k].id] = IF new[k].op = "delete" THEN Nil ELSE new[k]
  /\ \A id \in Ids : (\A k \in 1..Len(new) : new[k].id # id) => meant2[id] = meant[id]

\* Appending a batch of entries with distinct ids to the last segment changes
\* the meaning of exactly those ids.
THEOREM AppendMeaning ==
  ASSUME NEW d \in Log, NEW e \in Log, NEW a \in Segs,
         \A s \in Segs : s > a => d[s] = <<>>,
         NEW new \in Seq(Entry), DistinctIds(new),
         NEW meant \in [Ids -> Entry \cup {Nil}], NEW meant2 \in [Ids -> Entry \cup {Nil}],
         Means(d, meant), Applied(new, meant, meant2), IsAppend(d, e, a, new)
  PROVE  Means(e, meant2)
<1> DEFINE Touched(id) == \E k \in 1..Len(new) : new[k].id = id
<1>0. /\ \A s \in Segs : s \in Nat
      /\ DOMAIN AllSegs = Segs /\ \A s \in Segs : AllSegs[s] = s
      /\ \A s \in Segs : d[s] \in Seq(Entry)
      /\ Len(d[a]) \in Nat /\ Len(new) \in Nat
  BY BoundsAssumption DEF Segs, AllSegs, Log
<1>1. e[a] = d[a] \o new /\ \A s \in Segs : s # a => e[s] = d[s]
  BY Zenon DEF IsAppend
<1>2. /\ e[a] \in Seq(Entry) /\ Len(e[a]) = Len(d[a]) + Len(new)
      /\ \A i \in 1..Len(d[a]) : e[a][i] = d[a][i]
      /\ \A k \in 1..Len(new) : e[a][Len(d[a]) + k] = new[k]
  <2>1. d[a] \in Seq(Entry) BY <1>0, Zenon
  <2>2. d[a] \o new \in Seq(Entry) /\ Len(d[a] \o new) = Len(d[a]) + Len(new)
    BY <2>1
  <2>3. \A i \in 1..Len(d[a]) : (d[a] \o new)[i] = d[a][i]
    BY <2>1
  <2>4. ASSUME NEW k \in 1..Len(new) PROVE (d[a] \o new)[Len(d[a]) + k] = new[k]
    BY <1>0, <2>1
  <2> QED BY <1>1, <2>2, <2>3, <2>4, Zenon
<1>3. e \in Log BY Zenon
<1>4. ASSUME NEW i \in DOMAIN e[a]
      PROVE  \/ i \in 1..Len(d[a]) /\ e[a][i] = d[a][i]
             \/ \E k \in 1..Len(new) : i = Len(d[a]) + k /\ e[a][i] = new[k]
  <2>1. i \in Nat /\ i >= 1 /\ i <= Len(d[a]) + Len(new) BY <1>0, <1>2
  <2>2. CASE i <= Len(d[a]) BY <1>0, <1>2, <2>1, <2>2
  <2>3. CASE i > Len(d[a])
    <3>1. i - Len(d[a]) \in 1..Len(new) /\ i = Len(d[a]) + (i - Len(d[a]))
      BY <1>0, <2>1, <2>3
    <3> QED BY <1>2, <3>1, Zenon
  <2> QED BY <1>0, <2>1, <2>2, <2>3
<1>5. ASSUME NEW k \in 1..Len(new)
      PROVE  Wins(e, AllSegs, a, Len(d[a]) + k)
  <2>1. ASSUME NEW t \in Segs, NEW j \in DOMAIN e[t], e[t][j].id = new[k].id
        PROVE  t < a \/ (t = a /\ j <= Len(d[a]) + k)
    <3>1. CASE t # a
      <4>1. d[t] # <<>> BY <1>0, <1>1, <2>1, <3>1
      <4> QED BY <1>0, <3>1, <4>1
    <3>2. CASE t = a
      <4>1. CASE j \in 1..Len(d[a])
        BY <1>0, <3>2, <4>1
      <4>2. CASE \E m \in 1..Len(new) : j = Len(d[a]) + m /\ e[a][j] = new[m]
        BY <1>0, <2>1, <3>2, <4>2 DEF DistinctIds
      <4> QED BY <1>4, <2>1, <3>2, <4>1, <4>2, Zenon
    <3> QED BY <3>1, <3>2, Zenon
  <2>2. e[a][Len(d[a]) + k] = new[k] BY <1>2, Zenon
  <2> QED BY <1>0, <2>1, <2>2 DEF Wins
<1>6. ASSUME NEW k \in 1..Len(new)
      PROVE  Len(d[a]) + k \in DOMAIN e[a] /\ new[k] \in Entry
  BY <1>0, <1>2
<1>7. ASSUME NEW id \in Ids, ~ Touched(id), NEW s \in Segs,
             NEW i \in DOMAIN e[s], e[s][i].id = id
      PROVE  i \in DOMAIN d[s] /\ e[s][i] = d[s][i]
  <2>1. CASE s # a BY <1>1, <2>1, Zenon
  <2>2. CASE s = a
    <3>1. i \in 1..Len(d[a]) /\ e[a][i] = d[a][i] BY <1>4, <1>7, <2>2, Zenon
    <3> QED BY <1>0, <2>2, <3>1
  <2> QED BY <2>1, <2>2, Zenon
<1>8. ASSUME NEW s \in Segs, NEW i \in DOMAIN d[s]
      PROVE  i \in DOMAIN e[s] /\ e[s][i] = d[s][i]
  <2>1. CASE s # a BY <1>1, <2>1, Zenon
  <2>2. CASE s = a
    <3>1. i \in 1..Len(d[a]) BY <1>0, <2>2
    <3>2. e[a][i] = d[a][i] BY <1>2, <3>1, Zenon
    <3>3. i \in 1..(Len(d[a]) + Len(new)) BY <1>0, <3>1
    <3> QED BY <1>2, <2>2, <3>2, <3>3
  <2> QED BY <2>1, <2>2, Zenon
<1>9. ASSUME NEW id \in Ids, ~ Touched(id), NEW s \in Segs, NEW i \in DOMAIN d[s],
             d[s][i].id = id
      PROVE  Wins(e, AllSegs, s, i) <=> Wins(d, AllSegs, s, i)
  <2> HIDE DEF Touched
  <2>1. e[s][i].id = id BY <1>8, <1>9, Zenon
  <2>2. ASSUME Wins(e, AllSegs, s, i), NEW t \in Segs, NEW j \in DOMAIN d[t],
               d[t][j].id = id
        PROVE  t < s \/ (t = s /\ j <= i)
    <3>1. j \in DOMAIN e[t] /\ e[t][j].id = id BY <1>8, <2>2, Zenon
    <3> QED BY <1>3, <2>1, <2>2, <3>1, WinsAll, Zenon
  <2>3. ASSUME Wins(d, AllSegs, s, i), NEW t \in Segs, NEW j \in DOMAIN e[t],
               e[t][j].id = id
        PROVE  t < s \/ (t = s /\ j <= i)
    <3>1. j \in DOMAIN d[t] /\ d[t][j].id = id BY <1>7, <1>9, <2>3, Zenon
    <3> QED BY <1>9, <2>3, <3>1, WinsAll, Zenon
  <2>4. Wins(e, AllSegs, s, i) => Wins(d, AllSegs, s, i)
    BY <1>9, <2>2, WinsAll, Zenon
  <2>5. Wins(d, AllSegs, s, i) => Wins(e, AllSegs, s, i)
    BY <1>3, <2>1, <2>3, WinsAll, Zenon
  <2> QED BY <2>4, <2>5, Zenon
<1>10. ASSUME NEW id \in Ids, ~ Touched(id)
       PROVE  IF meant2[id] = Nil THEN ~ IsLive(e, AllSegs, id)
              ELSE \E s \in Segs : \E i \in DOMAIN e[s] :
                     LiveAt(e, AllSegs, id, s, i) /\ e[s][i] = meant2[id]
  <2>1. meant2[id] = meant[id] BY <1>10, Zenon DEF Applied
  <2>2. CASE meant[id] = Nil
    <3>1. ~ IsLive(d, AllSegs, id) BY <2>2, Zenon DEF Means
    <3>2. ASSUME NEW s \in Segs, NEW i \in DOMAIN e[s], LiveAt(e, AllSegs, id, s, i)
          PROVE  FALSE
      <4>1. i \in DOMAIN d[s] /\ e[s][i] = d[s][i]
        <5>1. e[s][i].id = id BY <1>0, <3>2, Zenon DEF LiveAt
        <5> QED BY <1>7, <1>10, <5>1, Zenon
      <4>2. LiveAt(d, AllSegs, id, s, i)
        BY <1>0, <1>9, <1>10, <3>2, <4>1 DEF LiveAt
      <4> QED BY <1>0, <3>1, <4>1, <4>2, ZenonT(30) DEF IsLive
    <3> QED BY <1>0, <2>1, <2>2, <3>2, Zenon DEF IsLive
  <2>3. CASE meant[id] # Nil
    <3>1. PICK s \in Segs : \E i \in DOMAIN d[s] :
                 LiveAt(d, AllSegs, id, s, i) /\ d[s][i] = meant[id]
      BY <2>3, Zenon DEF Means
    <3>2. PICK i \in DOMAIN d[s] : LiveAt(d, AllSegs, id, s, i) /\ d[s][i] = meant[id]
      BY <3>1, Zenon
    <3>3. i \in DOMAIN e[s] /\ e[s][i] = d[s][i] BY <1>8, Zenon
    <3>4. LiveAt(e, AllSegs, id, s, i)
      <4> HIDE DEF Touched
      <4>1. d[s][i].id = id /\ d[s][i].op # "delete" /\ Wins(d, AllSegs, s, i)
        BY <1>0, <3>2, Zenon DEF LiveAt
      <4>2. Wins(e, AllSegs, s, i) BY <1>9, <1>10, <4>1, Zenon
      <4> QED BY <1>0, <3>3, <4>1, <4>2, Zenon DEF LiveAt
    <3> QED BY <2>1, <2>3, <3>2, <3>3, <3>4, Zenon
  <2> QED BY <2>2, <2>3, Zenon
<1>11. ASSUME NEW k \in 1..Len(new)
       PROVE  LET id == new[k].id IN
              IF meant2[id] = Nil THEN ~ IsLive(e, AllSegs, id)
              ELSE \E s \in Segs : \E i \in DOMAIN e[s] :
                     LiveAt(e, AllSegs, id, s, i) /\ e[s][i] = meant2[id]
  <2> DEFINE x == Len(d[a]) + k
             id == new[k].id
  <2>1. x \in DOMAIN e[a] /\ e[a][x] = new[k] /\ new[k] \in Entry
    BY <1>2, <1>6, Zenon
  <2>2. Wins(e, AllSegs, a, x) BY <1>5, Zenon
  <2> HIDE DEF x
  <2>3. CASE new[k].op = "delete"
    <3>1. meant2[id] = Nil BY <2>3, Zenon DEF Applied
    <3>2. ASSUME NEW s \in Segs, NEW i \in DOMAIN e[s], LiveAt(e, AllSegs, id, s, i)
          PROVE  FALSE
      <4>1. Wins(e, AllSegs, s, i) /\ e[s][i].id = id /\ e[s][i].op # "delete"
        BY <1>0, <3>2, Zenon DEF LiveAt
      <4>2. AllSegs \in Seq(Segs) BY ONLY SMTT(40), BoundsAssumption DEF AllSegs, Segs
      <4>3. s = a /\ i = x
        BY <1>0, <1>3, <2>1, <2>2, <4>1, <4>2, WinnerUnique
      <4> QED BY <2>1, <2>3, <4>1, <4>3, Zenon
    <3> QED BY <1>0, <3>1, <3>2, Zenon DEF IsLive
  <2>4. CASE new[k].op # "delete"
    <3>1. meant2[id] = new[k] /\ meant2[id] # Nil BY <2>1, <2>4, NilAssumption, Zenon DEF Applied
    <3>2. LiveAt(e, AllSegs, id, a, x) BY <1>0, <2>1, <2>2, <2>4, Zenon DEF LiveAt
    <3> QED BY <2>1, <3>1, <3>2, Zenon
  <2> QED BY <2>3, <2>4, Zenon
<1> QED BY <1>10, <1>11 DEF Means

\* Rolling forward what a crash left of a swap gives the same log as rolling
\* the whole swap forward.
LEMMA RollForwardAgain ==
  ASSUME NEW d \in Log, NEW T \in Log, NEW m, m # Nil, m.n \in Nat, m.n <= MaxSeg,
         (1..m.n) \cap m.removals = {},
         NEW R \in SUBSET Outstanding(T, m.n), NEW Q \in SUBSET m.removals
  PROVE  RollForward(ApplySwap(d, T, R, Q),
                     [k \in Segs |-> IF k \in R THEN <<>> ELSE T[k]], m)
           = RollForward(d, T, m)
<1> DEFINE T2 == [k \in Segs |-> IF k \in R THEN <<>> ELSE T[k]]
<1>1. 1..m.n \subseteq Segs BY BoundsAssumption DEF Segs
<1>2. Outstanding(T2, m.n) = Outstanding(T, m.n) \ R
  BY <1>1, Zenon DEF Outstanding
<1> HIDE DEF T2
<1>3. ASSUME NEW s \in Segs
      PROVE  ApplySwap(ApplySwap(d, T, R, Q), T2, Outstanding(T, m.n) \ R, m.removals)[s]
               = ApplySwap(d, T, Outstanding(T, m.n), m.removals)[s]
  <2>1. T2[s] = IF s \in R THEN <<>> ELSE T[s] BY Zenon DEF T2
  <2>2. s \in Outstanding(T, m.n) => s \notin m.removals BY Zenon DEF Outstanding
  <2> QED BY <2>1, <2>2, Zenon DEF ApplySwap
<1> QED BY <1>2, <1>3, Zenon DEF RollForward, ApplySwap, T2

-----------------------------------------------------------------------------
(* The primary index a replay yields.                                      *)

\* A sorted scan list that misses no entry wins as all segments do.
LEMMA FullScan ==
  ASSUME NEW d \in Log, NEW L \in Seq(Segs),
         \A p, q \in DOMAIN L : p < q => L[p] < L[q],
         \A s \in Segs : d[s] # <<>> => \E p \in DOMAIN L : L[p] = s,
         NEW p \in DOMAIN L, NEW i \in DOMAIN d[L[p]]
  PROVE  Wins(d, L, p, i) <=> Wins(d, AllSegs, L[p], i)
<1>0. \A q \in DOMAIN L : L[q] \in Segs /\ L[q] \in Nat /\ q \in Nat
  BY BoundsAssumption DEF Segs
<1>1. ASSUME Wins(d, L, p, i), NEW t \in Segs, NEW j \in DOMAIN d[t],
             d[t][j].id = d[L[p]][i].id
      PROVE  t < L[p] \/ (t = L[p] /\ j <= i)
  <2>1. d[t] # <<>> BY <1>1 DEF Log
  <2>2. PICK q \in DOMAIN L : L[q] = t BY <2>1, Zenon
  <2>3. q < p \/ (q = p /\ j <= i) BY <1>1, <2>2, Zenon DEF Wins
  <2> QED BY <2>2, <2>3, Zenon
<1>2. ASSUME \A t \in Segs : \A j \in DOMAIN d[t] :
               d[t][j].id = d[L[p]][i].id => t < L[p] \/ (t = L[p] /\ j <= i),
             NEW q \in DOMAIN L, NEW j \in DOMAIN d[L[q]],
             d[L[q]][j].id = d[L[p]][i].id
      PROVE  q < p \/ (q = p /\ j <= i)
  <2>1. L[q] < L[p] \/ (L[q] = L[p] /\ j <= i) BY <1>0, <1>2, Zenon
  <2>2. p < q => L[p] < L[q] BY <1>0, Zenon
  <2> QED BY <1>0, <2>1, <2>2
<1>3. L[p] \in Segs BY <1>0, Zenon
<1>4. Wins(d, L, p, i) => Wins(d, AllSegs, L[p], i) BY <1>1, <1>3, WinsAll, Zenon
<1>5. Wins(d, AllSegs, L[p], i) => Wins(d, L, p, i)
  <2> SUFFICES ASSUME Wins(d, AllSegs, L[p], i),
                      NEW q \in DOMAIN L, NEW j \in DOMAIN d[L[q]],
                      d[L[q]][j].id = d[L[p]][i].id
               PROVE  q < p \/ (q = p /\ j <= i)
    BY Zenon DEF Wins
  <2> QED BY <1>2, <1>3, WinsAll, Zenon
<1> QED BY <1>4, <1>5, Zenon

\* Replaying a log in segment order rebuilds the index of exactly the records
\* the log means, each at an entry that holds it (rebuildIndexFromSegments).
THEOREM RebuildLocates ==
  ASSUME NEW d \in Log, NEW L \in Seq(Segs),
         \A p, q \in DOMAIN L : p < q => L[p] < L[q],
         \A s \in Segs : d[s] # <<>> => \E p \in DOMAIN L : L[p] = s,
         NEW meant \in [Ids -> Entry \cup {Nil}], Means(d, meant), NEW id \in Ids
  PROVE  LET loc == Rebuild(d, L)[id]
         IN  IF loc = Nil THEN meant[id] = Nil
             ELSE loc.off \in DOMAIN d[loc.seg] /\ d[loc.seg][loc.off] = meant[id]
<1>0. /\ \A q \in DOMAIN L : L[q] \in Segs
      /\ DOMAIN AllSegs = Segs /\ \A t \in Segs : AllSegs[t] = t
      /\ \A t \in Segs : d[t] \in Seq(Entry)
  BY DEF AllSegs, Log
<1>1. ASSUME NEW p \in DOMAIN L, NEW i \in DOMAIN d[L[p]]
      PROVE  LiveAt(d, L, id, p, i) <=> LiveAt(d, AllSegs, id, L[p], i)
  <2>1. Wins(d, L, p, i) <=> Wins(d, AllSegs, L[p], i) BY FullScan, Zenon
  <2> QED BY <1>0, <2>1, Zenon DEF LiveAt
<1>2. CASE ~ IsLive(d, L, id)
  <2>1. Rebuild(d, L)[id] = Nil BY <1>2, Zenon DEF Rebuild
  <2>2. ASSUME meant[id] # Nil PROVE FALSE
    <3>1. PICK s \in Segs : \E i \in DOMAIN d[s] : LiveAt(d, AllSegs, id, s, i)
      BY <2>2, Zenon DEF Means
    <3>2. PICK i \in DOMAIN d[s] : LiveAt(d, AllSegs, id, s, i) BY <3>1, Zenon
    <3>3. d[s] # <<>> BY <1>0, <3>2
    <3>4. PICK p \in DOMAIN L : L[p] = s BY <3>3, Zenon
    <3> QED BY <1>1, <1>2, <3>2, <3>4, Zenon DEF IsLive
  <2> QED BY <2>1, <2>2, Zenon
<1>3. CASE IsLive(d, L, id)
  <2> DEFINE p == CHOOSE p \in DOMAIN L :
                    \E i \in DOMAIN d[L[p]] : LiveAt(d, L, id, p, i)
             i == CHOOSE i \in DOMAIN d[L[p]] : LiveAt(d, L, id, p, i)
  <2>1. p \in DOMAIN L /\ i \in DOMAIN d[L[p]] /\ LiveAt(d, L, id, p, i)
    BY <1>3, Zenon DEF IsLive
  <2>2. Rebuild(d, L)[id] = [seg |-> L[p], off |-> i] BY <1>3, Zenon DEF Rebuild
  <2> HIDE DEF p, i
  <2>3. L[p] \in Segs /\ i \in Nat BY <1>0, <2>1
  <2>4. Rebuild(d, L)[id] # Nil
    BY <2>2, <2>3, NilAssumption DEF Loc
  <2>5. LiveAt(d, AllSegs, id, L[p], i) BY <1>1, <2>1, Zenon
  <2>6. meant[id] # Nil BY <1>0, <2>1, <2>3, <2>5, Zenon DEF Means, IsLive
  <2>7. PICK s \in Segs : \E j \in DOMAIN d[s] :
               LiveAt(d, AllSegs, id, s, j) /\ d[s][j] = meant[id]
    BY <2>6, Zenon DEF Means
  <2>8. PICK j \in DOMAIN d[s] : LiveAt(d, AllSegs, id, s, j) /\ d[s][j] = meant[id]
    BY <2>7, Zenon
  <2>9. /\ Wins(d, AllSegs, s, j) /\ d[s][j].id = id
        /\ Wins(d, AllSegs, L[p], i) /\ d[L[p]][i].id = id
    BY <1>0, <2>3, <2>5, <2>8, Zenon DEF LiveAt
  <2>10. s = L[p] /\ j = i
    <3>0. d[s][j].id = d[L[p]][i].id BY <2>9, Zenon
    <3>1. s < L[p] \/ (s = L[p] /\ j <= i) BY <2>3, <2>9, <3>0, WinsOver, Zenon
    <3>2. L[p] < s \/ (L[p] = s /\ i <= j) BY <2>1, <2>3, <2>9, <3>0, WinsOver, Zenon
    <3>3. s \in Nat /\ L[p] \in Nat BY <2>3, BoundsAssumption DEF Segs
    <3>4. j \in Nat BY <1>0
    <3> QED BY <2>3, <3>1, <3>2, <3>3, <3>4
  <2> QED BY <2>1, <2>2, <2>4, <2>8, <2>10
<1> QED BY <1>2, <1>3, Zenon

\* An entry of the log is still there after an append.
LEMMA EntryStays ==
  ASSUME NEW d \in Log, NEW e \in Log, NEW a \in Segs, NEW new \in Seq(Entry),
         e[a] = d[a] \o new, \A s \in Segs : s # a => e[s] = d[s],
         NEW s \in Segs, NEW i \in DOMAIN d[s]
  PROVE  i \in DOMAIN e[s] /\ e[s][i] = d[s][i]
<1>1. CASE s # a BY <1>1, Zenon
<1>2. CASE s = a
  <2>1. d[a] \in Seq(Entry) /\ d[a] \o new \in Seq(Entry) BY Zenon DEF Log
  <2>2. i \in 1..Len(d[a]) /\ Len(d[a]) \in Nat /\ Len(new) \in Nat
        /\ Len(d[a] \o new) = Len(d[a]) + Len(new)
    BY <1>2, <2>1
  <2>3. (d[a] \o new)[i] = d[a][i] BY <2>1, <2>2
  <2>4. i \in 1..Len(d[a] \o new) BY <2>2
  <2>5. i \in DOMAIN (d[a] \o new) BY <2>1, <2>4
  <2> QED BY <1>2, <2>3, <2>5, Zenon
<1> QED BY <1>1, <1>2, Zenon

\* A manifest whose renames and removals are all done changes nothing.
LEMMA RollForwardDone ==
  ASSUME NEW d \in Log, NEW m, m # Nil => m.n \in Nat /\ m.n <= MaxSeg,
         m # Nil => \A s \in Segs : s \in m.removals => d[s] = <<>>
  PROVE  RollForward(d, EmptyLog, m) = d
<1>1. CASE m = Nil BY <1>1, Zenon DEF RollForward
<1>2. CASE m # Nil
  <2>1. \A k \in 1..m.n : k \in Segs BY <1>2, BoundsAssumption DEF Segs
  <2>2. Outstanding(EmptyLog, m.n) = {} BY <2>1, Zenon DEF Outstanding, EmptyLog
  <2>3. RollForward(d, EmptyLog, m) = [s \in Segs |-> IF s \in m.removals THEN <<>> ELSE d[s]]
    BY <1>2, <2>2, Zenon DEF RollForward, ApplySwap
  <2>4. d \in [Segs -> Seq(Entry)] BY Zenon DEF Log
  <2> QED BY <1>2, <2>3, <2>4, Zenon
<1> QED BY <1>1, <1>2, Zenon

\* The larger steps need more than the default time.
USE SMTT(40)

-----------------------------------------------------------------------------
(* Type correctness.                                                       *)

\* The elements of a sequence.
LEMMA RangeSubset ==
  ASSUME NEW S, NEW q \in Seq(S)
  PROVE  Range(q) \subseteq S
BY DEF Range

\* Every offset of a segment file holds an entry.
LEMMA EntryAt ==
  ASSUME NEW d \in Log, NEW s \in Segs, NEW o \in DOMAIN d[s]
  PROVE  d[s][o] \in Entry
BY DEF Log

\* What a pass that ends leaves in memory has its type.
LEMMA NothingToCompact == <<>> \in Seq(Segs) /\ 0 \in 0..MaxSeg
BY BoundsAssumption

\* The memory of a collection that is not open has its type.
LEMMA MemoryLostType ==
  ASSUME MemoryLost
  PROVE  /\ sealed' \in Seq(Segs) /\ asize' \in Nat /\ linked' \in BOOLEAN
         /\ index' \in [Ids -> Loc \cup {Nil}] /\ idSeq' \in 0..MaxId
         /\ writer' \in [Writers -> [pc : {"idle", "assigned", "rotate"},
                                     ids : Seq(Ids)]]
         /\ reader' \in [Readers -> [pc : {"idle", "located", "done"},
                                     id : 0..MaxId, loc : Loc \cup {Nil},
                                     got : Entry \cup {Nil}]]
         /\ pass' = "idle" /\ toCompact' \in Seq(Segs) /\ ntemps' \in 0..MaxSeg
BY BoundsAssumption, CollectionAssumption DEF MemoryLost, Idle, NoRead, EmptyIndex

\* What every crash does to the variables it assigns has the right types.
LEMMA DiesType ==
  ASSUME TypeOK, Dies
  PROVE  /\ up' = "crashed" /\ crashes' \in 0..MaxCrashes
         /\ sealed' \in Seq(Segs) /\ asize' \in Nat /\ linked' \in BOOLEAN
         /\ index' \in [Ids -> Loc \cup {Nil}] /\ idSeq' \in 0..MaxId
         /\ writer' \in [Writers -> [pc : {"idle", "assigned", "rotate"},
                                     ids : Seq(Ids)]]
         /\ reader' \in [Readers -> [pc : {"idle", "located", "done"},
                                     id : 0..MaxId, loc : Loc \cup {Nil},
                                     got : Entry \cup {Nil}]]
         /\ pass' = "idle" /\ toCompact' \in Seq(Segs) /\ ntemps' \in 0..MaxSeg
<1>1. up' = "crashed" /\ crashes' \in 0..MaxCrashes
  BY CollectionAssumption DEF TypeOK, Dies
<1>2. MemoryLost BY Zenon DEF Dies
<1> QED BY <1>1, <1>2, MemoryLostType, Zenon

\* A batch of inserts is a sequence of entries, one for each id.
LEMMA BatchType ==
  ASSUME NEW ids \in Seq(Ids), NEW v \in Value
  PROVE  /\ Batch(ids, v) \in Seq(Entry) /\ Len(Batch(ids, v)) = Len(ids)
         /\ \A k \in 1..Len(ids) : Batch(ids, v)[k] = NewInsert(ids[k], v)
<1>1. ASSUME NEW id \in Ids PROVE NewInsert(id, v) \in Entry
  BY Zenon DEF NewInsert, Entry, Op
<1>2. DOMAIN ids = 1..Len(ids) /\ Len(ids) \in Nat OBVIOUS
<1>3. \A k \in 1..Len(ids) : ids[k] \in Ids OBVIOUS
<1>4. Batch(ids, v) \in [1..Len(ids) -> Entry]
  BY <1>1, <1>2, <1>3, Zenon DEF Batch
<1>5. Batch(ids, v) \in Seq(Entry) /\ Len(Batch(ids, v)) = Len(ids)
  <2> HIDE DEF Batch
  <2> QED BY <1>2, <1>4
<1> QED BY <1>2, <1>5, Zenon DEF Batch

\* What is recorded of the records inserted is typed.
LEMMA InsertedType ==
  ASSUME TypeOK, NEW ids \in Seq(Ids), NEW v \in Value
  PROVE  /\ Range(ids) \subseteq Ids
         /\ Inserted(ids, v) \in [Ids -> Entry \cup {Nil}]
         /\ used \cup Range(ids) \in SUBSET Ids
<1>1. ASSUME NEW id \in Ids PROVE NewInsert(id, v) \in Entry
  BY Zenon DEF NewInsert, Entry, Op
<1>2. Range(ids) \subseteq Ids BY DEF Range
<1>3. Inserted(ids, v) \in [Ids -> Entry \cup {Nil}] BY <1>1, Zenon DEF Inserted, TypeOK
<1> QED BY <1>2, <1>3, Zenon DEF TypeOK

\* The beginning of a batch is a batch.
LEMMA PrefixType ==
  ASSUME NEW ids \in Seq(Ids), NEW n \in 0..Len(ids)
  PROVE  /\ SubSeq(ids, 1, n) \in Seq(Ids) /\ Len(SubSeq(ids, 1, n)) = n
         /\ \A k \in 1..n : SubSeq(ids, 1, n)[k] = ids[k]
OBVIOUS

\* An append leaves a log a log.
LEMMA AppendType ==
  ASSUME NEW d \in Log, NEW a \in Segs, NEW new \in Seq(Entry)
  PROVE  [d EXCEPT ![a] = @ \o new] \in Log
BY DEF Log

\* The constants are numbers, and there is a first segment.
LEMMA Bounds ==
  /\ MaxId \in Nat /\ MaxSeg \in Nat /\ MaxSeg >= 1 /\ 1 \in Segs
  /\ MaxBatch \in Nat /\ MaxLen \in Nat /\ MaxCrashes \in Nat
  /\ SegmentMaxSize \in Nat
BY BoundsAssumption, CollectionAssumption DEF Segs

\* An append to the active segment keeps the types.
LEMMA AppendActiveType ==
  ASSUME TypeOK, NEW new \in Seq(Entry), AppendActive(new)
  PROVE  disk' \in Log /\ asize' \in Nat /\ asize' = asize + Len(new)
<1>1. disk \in Log /\ active \in Segs /\ asize \in Nat BY Zenon DEF TypeOK, Log
<1>2. [disk EXCEPT ![active] = @ \o new] \in Log BY <1>1, AppendType, Zenon
<1>3. disk' \in Log BY <1>1, <1>2, Zenon DEF AppendActive
<1>4. Len(new) \in Nat OBVIOUS
<1> QED BY <1>1, <1>3, <1>4 DEF AppendActive

WriterType == [pc : {"idle", "assigned", "rotate"}, ids : Seq(Ids)]
ReaderType == [pc : {"idle", "located", "done"}, id : 0..MaxId,
               loc : Loc \cup {Nil}, got : Entry \cup {Nil}]

\* Appending and indexing a batch keeps the types.
LEMMA AppendBatchType ==
  ASSUME TypeOK, NEW ids \in Seq(Ids), NEW v \in Value, AppendBatch(ids, v)
  PROVE  /\ disk' \in Log /\ asize' \in Nat /\ asize' = asize + Len(ids)
         /\ index' \in [Ids -> Loc \cup {Nil}]
         /\ kv' \in [Ids -> Entry \cup {Nil}] /\ used' \in SUBSET Ids
<1>1. asize \in Nat /\ active \in Segs BY Zenon DEF TypeOK
<1>2. disk' \in Log /\ asize' \in Nat /\ asize' = asize + Len(ids)
  BY BatchType, AppendActiveType, Zenon DEF AppendBatch
<1>3. index' \in [Ids -> Loc \cup {Nil}]
  <2>1. ASSUME NEW id \in Range(ids)
        PROVE  [seg |-> active, off |-> asize + CHOOSE k \in DOMAIN ids : ids[k] = id]
                 \in Loc
    <3>1. \E k \in DOMAIN ids : ids[k] = id BY Zenon DEF Range
    <3>2. (CHOOSE k \in DOMAIN ids : ids[k] = id) \in DOMAIN ids BY <3>1, Zenon
    <3>3. \A k \in DOMAIN ids : k \in Nat /\ k >= 1 OBVIOUS
    <3>4. PICK k \in Nat : k >= 1 /\ k = (CHOOSE i \in DOMAIN ids : ids[i] = id)
      BY <3>2, <3>3, Zenon
    <3> QED BY <1>1, <3>4 DEF Loc
  <2> QED BY <2>1, ZenonT(30) DEF AppendBatch, TypeOK
<1> QED BY <1>2, <1>3, InsertedType, Zenon DEF AppendBatch

\* The ids a writer holds.
LEMMA HeldType ==
  ASSUME TypeOK, NEW w \in Writers
  PROVE  writer[w].ids \in Seq(Ids) /\ Len(writer[w].ids) \in Nat
<1>1. writer[w] \in WriterType BY Zenon DEF TypeOK, WriterType
<1>2. writer[w].ids \in Seq(Ids) BY <1>1, Zenon DEF WriterType
<1>3. Len(writer[w].ids) \in Nat BY ONLY <1>2
<1> QED BY <1>2, <1>3, Zenon

\* AfterAppend leaves the writer idle or about to rotate.
LEMMA AfterAppendType ==
  ASSUME TypeOK, NEW w \in Writers, AfterAppend(w)
  PROVE  /\ writer' \in [Writers -> WriterType]
         /\ \A x \in Writers : writer'[x].ids \in {writer[x].ids, <<>>}
<1>1. Idle \in WriterType /\ Rotating \in WriterType
  BY Bounds DEF Idle, Rotating, WriterType
<1>2. writer \in [Writers -> WriterType] BY Zenon DEF TypeOK, WriterType
<1>3. Idle.ids = <<>> /\ Rotating.ids = <<>> BY Zenon DEF Idle, Rotating
<1> QED BY <1>1, <1>2, <1>3, Zenon DEF AfterAppend

\* TypeOK is inductive.
LEMMA TypeStep == TypeOK /\ [Next]_vars => TypeOK'
<1> USE Bounds
<1> SUFFICES ASSUME TypeOK, [Next]_vars PROVE TypeOK' BY Zenon
<1>0. disk \in Log /\ temps \in Log BY Zenon DEF TypeOK, Log
<1>1. ASSUME NEW w \in Writers, InsertAssign(w) PROVE TypeOK'
  <2>1. idSeq' \in 0..MaxId /\ idSeq + 1 \in Ids
    BY <1>1 DEF TypeOK, InsertAssign, Ids
  <2>2. [pc |-> "assigned", ids |-> Append(writer[w].ids, idSeq + 1)] \in WriterType
    BY <2>1, HeldType DEF WriterType
  <2>3. writer' \in [Writers -> WriterType]
    BY <1>1, <2>2, Zenon DEF TypeOK, InsertAssign, WriterType
  <2> QED BY ZenonT(60), <1>1, <2>1, <2>3
             DEF TypeOK, InsertAssign, fileVars, segVars, passVars,
                                 ghostVars, WriterType
<1>2. ASSUME NEW w \in Writers, NEW v \in Value, InsertReject(w, v) PROVE TypeOK'
  <2>1. PICK n \in 0..(Len(writer[w].ids) - 1) :
               AppendBatch(SubSeq(writer[w].ids, 1, n), v)
    BY <1>2, Zenon DEF InsertReject
  <2>2. n \in 0..Len(writer[w].ids) BY HeldType
  <2>3. SubSeq(writer[w].ids, 1, n) \in Seq(Ids) BY <2>2, HeldType, PrefixType, ZenonT(30)
  <2>4. writer' \in [Writers -> WriterType]
    BY <1>2 DEF InsertReject, TypeOK, WriterType, Idle
  <2>5. /\ disk' \in Log /\ asize' \in Nat /\ index' \in [Ids -> Loc \cup {Nil}]
        /\ kv' \in [Ids -> Entry \cup {Nil}] /\ used' \in SUBSET Ids
    BY <2>1, <2>3, AppendBatchType, Zenon
  <2> QED BY ZenonT(60), <1>2, <2>1, <2>4, <2>5
          DEF TypeOK, AppendBatch, InsertReject, passVars, Log, WriterType
<1>3. ASSUME NEW w \in Writers, NEW v \in Value, InsertAppend(w, v)
      PROVE  TypeOK'
  <2>1. AppendBatch(writer[w].ids, v) /\ AfterAppend(w) BY <1>3, Zenon DEF InsertAppend
  <2>2. /\ disk' \in Log /\ asize' \in Nat /\ index' \in [Ids -> Loc \cup {Nil}]
        /\ kv' \in [Ids -> Entry \cup {Nil}] /\ used' \in SUBSET Ids
    BY <2>1, HeldType, AppendBatchType, Zenon
  <2>3. writer' \in [Writers -> WriterType] BY <2>1, AfterAppendType, Zenon
  <2> QED BY ZenonT(60), <2>1, <2>2, <2>3
             DEF TypeOK, AppendBatch, passVars, Log, WriterType
<1>4. ASSUME NEW w \in Writers, NEW id \in Ids, NEW v \in Value, Update(w, id, v)
      PROVE  TypeOK'
  <2>1. NewUpdate(id, v) \in Entry BY Zenon DEF NewUpdate, Entry, Op
  <2>2. disk' \in Log /\ asize' \in Nat
    <3>1. <<NewUpdate(id, v)>> \in Seq(Entry) BY <2>1
    <3> QED BY ZenonT(60), <1>4, <3>1, AppendActiveType DEF Update
  <2>3. AfterAppend(w) BY <1>4, ZenonT(30) DEF Update
  <2>4. [seg |-> active, off |-> asize + 1] \in Loc BY DEF TypeOK, Loc
  <2>5. index' \in [Ids -> Loc \cup {Nil}] BY <1>4, <2>4, Zenon DEF Update, TypeOK
  <2>6. kv' \in [Ids -> Entry \cup {Nil}] BY <1>4, <2>1, Zenon DEF Update, TypeOK
  <2> QED BY ZenonT(60), <1>4, <2>2, <2>3, <2>5, <2>6, AfterAppendType
          DEF TypeOK, Update, passVars, Log, WriterType
<1>5. ASSUME NEW id \in Ids, Delete(id) PROVE TypeOK'
  <2>1. NewDelete(id) \in Entry BY Zenon DEF NewDelete, Entry, Op
  <2>2. disk' \in Log /\ asize' \in Nat
    <3>1. <<NewDelete(id)>> \in Seq(Entry) BY <2>1
    <3> QED BY <1>5, <3>1, AppendActiveType, Zenon DEF Delete
  <2> QED BY <1>5, <2>2, ZenonT(30) DEF TypeOK, Delete, passVars, Log
<1>6. ASSUME NEW w \in Writers, Rotate(w) PROVE TypeOK'
  <2>1. PICK m \in Segs : SealAndOpen(m) BY <1>6, Zenon DEF Rotate
  <2>2. /\ sealed' \in Seq(Segs) /\ active' \in Segs /\ files' \in SUBSET Segs
        /\ linked' \in BOOLEAN
    <3>1. sealed \in Seq(Segs) /\ active \in Segs /\ files \in SUBSET Segs
      BY Zenon DEF TypeOK
    <3> QED BY <2>1, <3>1 DEF SealAndOpen
  <2>3. asize' \in Nat
    BY <1>0, <2>1 DEF SealAndOpen, Log
  <2>4. writer' \in [Writers -> WriterType]
    BY <1>6 DEF Rotate, TypeOK, WriterType, Idle
  <2> QED BY <1>6, <2>2, <2>3, <2>4, Zenon
          DEF TypeOK, Rotate, passVars, Hazards, WriterType
<1>7. ASSUME CompactSnapshot PROVE TypeOK'
  BY <1>7, Zenon DEF TypeOK, CompactSnapshot, fileVars, segVars, ghostVars
<1>8. ASSUME CompactWrite PROVE TypeOK'
  <2>1. PICK ord \in MapOrders(resolveEntries(disk, toCompact)) :
             \E cut \in Cuts(temps, ord) :
               temps' = writeCompacted(temps, ord, cut) /\ ntemps' = Len(cut)
    BY <1>8, Zenon DEF CompactWrite
  <2>2. PICK cut \in Cuts(temps, ord) :
               temps' = writeCompacted(temps, ord, cut) /\ ntemps' = Len(cut)
    BY <2>1, Zenon
  <2>3. ord \in Seq(Entry) BY <1>0, MapOrdersType, Zenon DEF TypeOK
  <2>4. temps' \in Log /\ ntemps' \in 0..MaxSeg
    BY <1>0, <2>2, <2>3, WriteCompactedType, Zenon
  <2> QED BY <1>8, <2>4, Zenon DEF TypeOK, CompactWrite, segVars, ghostVars, Log
<1>9. ASSUME WriteManifest PROVE TypeOK'
  <2>1. Range(toCompact) \subseteq Segs BY RangeSubset, Zenon DEF TypeOK
  <2>2. manifest' \in Manifest /\ manifest' # Nil
    <3>1. ntemps \in 0..MaxSeg BY Zenon DEF TypeOK
    <3>2. manifest' = [n |-> ntemps, removals |-> Range(toCompact) \ (1..ntemps)]
      BY <1>9, Zenon DEF WriteManifest
    <3>3. manifest' \in Manifest BY <2>1, <3>1, <3>2, Zenon DEF Manifest
    <3> QED BY <3>3, CollectionAssumption, Zenon
  <2> QED BY <1>9, <2>2, Zenon DEF TypeOK, WriteManifest, segVars, Hazards
<1>10. ASSUME CompactFails PROVE TypeOK'
  <2>1. hist' \in SUBSET Hazards BY <1>10, Zenon DEF TypeOK, CompactFails, Hazards
  <2> QED BY <1>10, <2>1, NothingToCompact, Zenon
             DEF TypeOK, CompactFails, fileVars, segVars
<1>11. ASSUME Swap PROVE TypeOK'
  <2> DEFINE now == [k \in 1..manifest.n |-> k]
  <2>0. manifest \in Manifest BY <1>11, Zenon DEF TypeOK, Swap
  <2>1. manifest.n \in 0..MaxSeg /\ manifest.removals \in SUBSET Segs
    BY <2>0, Zenon DEF Manifest
  <2>2. now \in Seq(Segs)
    <3>1. now \in [1..manifest.n -> Segs] BY <2>1 DEF Segs
    <3> QED BY <2>1, <3>1
  <2>3. disk' \in Log /\ temps' \in Log
    <3>1. disk' \in Log BY <1>11, <1>0, ApplySwapType, Zenon DEF Swap
    <3>2. <<>> \in Seq(Entry) OBVIOUS
    <3>3. temps' = [k \in Segs |-> IF k \in 1..manifest.n THEN <<>> ELSE temps[k]]
      BY ZenonT(60), <1>11 DEF Swap
    <3> QED BY <1>0, <3>1, <3>2, <3>3, Zenon DEF Log
  <2>4. Append(now, active) \in Seq(Segs) BY <2>2 DEF TypeOK
  <2>5. index' \in [Ids -> Loc \cup {Nil}]
    BY ZenonT(60), <1>11, <2>3, <2>4, RebuildType DEF Swap
  <2>6. sealed' \in Seq(Segs) /\ linked' \in BOOLEAN
    BY ZenonT(60), <1>11, <2>2 DEF Swap
  <2>7. files' \in SUBSET Segs
    <3>1. 1..manifest.n \subseteq Segs BY <2>1 DEF Segs
    <3> QED BY <1>11, <3>1, Zenon DEF Swap, TypeOK
  <2> QED BY <1>11, <2>3, <2>5, <2>6, <2>7, Zenon DEF TypeOK, Swap, ghostVars, Log
<1>12. ASSUME PersistIndex PROVE TypeOK'
  BY <1>12, Zenon DEF TypeOK, PersistIndex, segVars, ghostVars
<1>13. ASSUME PersistIndexFails PROVE TypeOK'
  <2>1. hist' \in SUBSET Hazards
    BY <1>13, Zenon DEF TypeOK, PersistIndexFails, Hazards
  <2> QED BY <1>13, <2>1, NothingToCompact, Zenon
             DEF TypeOK, PersistIndexFails, fileVars, segVars
<1>14. ASSUME ClearManifest PROVE TypeOK'
  BY <1>14, NothingToCompact, Zenon DEF TypeOK, ClearManifest, segVars, ghostVars
<1>15. ASSUME NEW r \in Readers, NEW id \in Ids, GetLocate(r, id) PROVE TypeOK'
  <2>1. [pc |-> "located", id |-> id, loc |-> index[id], got |-> Nil]
          \in ReaderType
    <3>1. index[id] \in Loc \cup {Nil} BY Zenon DEF TypeOK
    <3>2. id \in 0..MaxId BY DEF Ids
    <3> QED BY <3>1, <3>2, Zenon DEF ReaderType
  <2>2. reader' \in [Readers -> ReaderType]
    BY <1>15, <2>1, Zenon DEF GetLocate, TypeOK, ReaderType
  <2> QED BY ZenonT(60), <1>15, <2>2
             DEF TypeOK, GetLocate, fileVars, segVars, passVars,
                             ghostVars, ReaderType
<1>16. ASSUME NEW r \in Readers, GetRead(r) PROVE TypeOK'
  <2> DEFINE loc == reader[r].loc
             found == /\ loc.seg \in Range(sealed) \cup {active}
                      /\ loc.off \in DOMAIN disk[loc.seg]
  <2>1. found => disk[loc.seg][loc.off] \in Entry
    <3>1. Range(sealed) \subseteq Segs /\ active \in Segs
      BY RangeSubset, Zenon DEF TypeOK
    <3>2. found => loc.seg \in Segs /\ loc.off \in DOMAIN disk[loc.seg] BY <3>1, Zenon
    <3>3. disk \in Log BY <1>0, Zenon
    <3> HIDE DEF found, loc
    <3> QED BY <3>2, <3>3, EntryAt, Zenon
  <2>2. reader' = [reader EXCEPT ![r].pc = "done",
                     ![r].got = IF found THEN disk[loc.seg][loc.off] ELSE Nil]
    BY <1>16, Zenon DEF GetRead
  <2>3. reader' \in [Readers -> [pc : {"idle", "located", "done"},
                                 id : 0..MaxId, loc : Loc \cup {Nil},
                                 got : Entry \cup {Nil}]]
    <3> DEFINE g == IF found THEN disk[loc.seg][loc.off] ELSE Nil
    <3>1. g \in Entry \cup {Nil} BY <2>1, Zenon
    <3>2. reader \in [Readers -> ReaderType] BY Zenon DEF TypeOK, ReaderType
    <3>3. reader' = [reader EXCEPT ![r].pc = "done", ![r].got = g] BY <2>2, Zenon
    <3> HIDE DEF g
    <3> QED BY ZenonT(60), <3>1, <3>2, <3>3 DEF ReaderType
  <2> QED BY ZenonT(60), <1>16, <2>3
          DEF TypeOK, GetRead, fileVars, segVars, passVars, ghostVars
<1>17. ASSUME Close PROVE TypeOK'
  <2>1. MemoryLost /\ up' = "closed" BY <1>17, Zenon DEF Close
  <2>2. /\ indexFile' \in [Ids -> Loc \cup {Nil}]
        /\ metaFile' \in 0..MaxId \cup {Nil}
    BY <1>17, Zenon DEF Close, TypeOK
  <2>3. UNCHANGED <<disk, files, temps, manifest, active, kv, used, hist, crashes>>
    BY <1>17, Zenon DEF Close, ghostVars
  <2> QED BY ZenonT(60), <2>1, <2>2, <2>3, MemoryLostType DEF TypeOK
<1>18. ASSUME Crash PROVE TypeOK'
  BY ZenonT(60), <1>18, DiesType DEF TypeOK, Crash, fileVars
<1>19. ASSUME CrashInClose PROVE TypeOK'
  BY ZenonT(60), <1>19, DiesType DEF TypeOK, CrashInClose
<1>20. ASSUME NEW w \in Writers, NEW v \in Value, CrashInAppend(w, v)
       PROVE  TypeOK'
  <2>1. PICK n \in 1..(Len(writer[w].ids) - 1) :
          LET ids == SubSeq(writer[w].ids, 1, n)
          IN  /\ disk' = [disk EXCEPT ![active] = @ \o Batch(ids, v)]
              /\ kv' = Inserted(ids, v)
              /\ used' = used \cup Range(ids)
    BY ZenonT(60), <1>20 DEF CrashInAppend
  <2> DEFINE ids == SubSeq(writer[w].ids, 1, n)
  <2>2. n \in 0..Len(writer[w].ids) BY HeldType
  <2>3. ids \in Seq(Ids) BY <2>2, HeldType, PrefixType, Zenon
  <2>4. disk' \in Log
    BY ZenonT(60), <1>0, <2>1, <2>3, BatchType, AppendType DEF TypeOK
  <2>5. kv' \in [Ids -> Entry \cup {Nil}] /\ used' \in SUBSET Ids
    BY <2>1, <2>3, InsertedType, Zenon
  <2>6. Dies BY <1>20, Zenon DEF CrashInAppend
  <2> QED BY <1>20, <2>4, <2>5, <2>6, DiesType, ZenonT(30) DEF TypeOK, CrashInAppend, Log
<1>21. ASSUME NEW w \in Writers, CrashInRotate(w) PROVE TypeOK'
  BY ZenonT(60), <1>21, DiesType DEF TypeOK, CrashInRotate, Hazards
<1>22. ASSUME CrashInWrite PROVE TypeOK'
  <2>1. PICK ord \in MapOrders(resolveEntries(disk, toCompact)) :
          \E m \in 1..Len(ord) :
            temps' = [temps EXCEPT ![1] = @ \o SubSeq(ord, 1, m)]
    BY <1>22, Zenon DEF CrashInWrite
  <2>2. PICK m \in 1..Len(ord) :
            temps' = [temps EXCEPT ![1] = @ \o SubSeq(ord, 1, m)]
    BY <2>1, Zenon
  <2>3. ord \in Seq(Entry) BY <1>0, MapOrdersType, Zenon DEF TypeOK
  <2>4. SubSeq(ord, 1, m) \in Seq(Entry) BY <2>3
  <2>5. temps' \in Log
    <3>1. [temps EXCEPT ![1] = @ \o SubSeq(ord, 1, m)] \in Log
      BY <1>0, <2>4, AppendType, Zenon
    <3> QED BY <2>2, <3>1, Zenon
  <2>6. Dies BY <1>22, Zenon DEF CrashInWrite
  <2> QED BY ZenonT(60), <1>22, <2>5, <2>6, DiesType DEF TypeOK, CrashInWrite, Log
<1>23. ASSUME manifest # Nil, PartialSwap
       PROVE  disk' \in Log /\ temps' \in Log /\ files' \in SUBSET Segs
  <2>1. PICK R \in SUBSET Outstanding(temps, manifest.n),
             Q \in SUBSET manifest.removals :
          /\ disk' = ApplySwap(disk, temps, R, Q)
          /\ files' = (files \cup R) \ Q
          /\ temps' = [k \in Segs |-> IF k \in R THEN <<>> ELSE temps[k]]
    BY <1>23, Zenon DEF PartialSwap
  <2>2. R \subseteq Segs
    BY <1>23 DEF TypeOK, Manifest, Outstanding, Segs
  <2>3. disk' \in Log BY <1>0, <2>1, ApplySwapType, Zenon
  <2>4. temps' \in Log BY <1>0, <2>1 DEF Log
  <2>5. files' \in SUBSET Segs BY <2>1, <2>2, Zenon DEF TypeOK
  <2> QED BY <2>3, <2>4, <2>5, Zenon
<1>24. ASSUME CrashInSwap PROVE TypeOK'
  <2>1. Dies /\ PartialSwap /\ manifest # Nil
    BY ZenonT(60), <1>24 DEF CrashInSwap, TypeOK
  <2> QED BY ZenonT(60), <1>23, <1>24, <2>1, DiesType DEF TypeOK, CrashInSwap, Log
<1>25. ASSUME CrashInRecovery PROVE TypeOK'
  <2>1. Dies /\ PartialSwap /\ manifest # Nil
    BY <1>25, Zenon DEF CrashInRecovery
  <2> QED BY ZenonT(60), <1>23, <1>25, <2>1, DiesType
             DEF TypeOK, CrashInRecovery, Log
<1>26. ASSUME Open PROVE TypeOK'
  <2> DEFINE d == RollForward(disk, temps, manifest)
             fs == RecoveredFiles
  <2>1. d \in Log BY <1>0, RollForwardType, Zenon
  <2>2. fs \in SUBSET Segs
    <3>1. manifest # Nil => Outstanding(temps, manifest.n) \subseteq Segs
      BY DEF TypeOK, Manifest, Outstanding, Segs
    <3>2. files \subseteq Segs /\ 1 \in Segs BY Zenon DEF TypeOK, Segs
    <3> QED BY <3>1, <3>2, ZenonT(30) DEF RecoveredFiles
  <2>3. PICK a \in fs : active' = a
    BY <1>26, Zenon DEF Open
  <2>4. sealed' \in Seq(Segs)
    <3>1. PICK n \in 0..MaxSeg : \E q \in [1..n -> fs \ {active'}] : sealed' = q
      BY <1>26, Zenon DEF Open
    <3>2. sealed' \in [1..n -> Segs] /\ n \in Nat BY <2>2, <3>1
    <3> QED BY <3>2
  <2>5. Append(sealed', active') \in Seq(Segs) BY <2>2, <2>3, <2>4
  <2>6. indexFile # Nil => indexFile \in [Ids -> Loc \cup {Nil}] BY Zenon DEF TypeOK
  <2>7. index' \in [Ids -> Loc \cup {Nil}]
    BY ZenonT(60), <1>26, <2>1, <2>5, <2>6, RebuildType DEF Open, MustRebuild
  <2>8. asize' \in Nat /\ linked' \in BOOLEAN
    BY <1>26, <2>1, <2>2, <2>3 DEF Open, Log
  <2>9. temps' \in Log
    <3>1. EmptyLog \in Log BY DEF EmptyLog, Log
    <3> QED BY <1>26, <3>1, Zenon DEF Open
  <2>10. idSeq' \in 0..MaxId /\ metaFile' \in 0..MaxId \cup {Nil}
    BY ZenonT(60), <1>26 DEF Open, TypeOK
  <2>11. pass # "logged"
    <3>1. up # "open" BY <1>26, Zenon DEF Open
    <3>2. pass = "logged" => up = "open" BY Zenon DEF TypeOK
    <3> QED BY <3>1, <3>2, Zenon
  <2> QED BY <1>26, <2>1, <2>2, <2>3, <2>4, <2>7, <2>8, <2>9, <2>10, <2>11, ZenonT(30)
          DEF TypeOK, Open, passVars, Hazards, Log
<1>27. CASE UNCHANGED vars
  BY ZenonT(60), <1>27 DEF TypeOK, vars, fileVars, segVars, passVars, ghostVars
<1> QED
  BY ZenonT(30), <1>1, <1>2, <1>3, <1>4, <1>5, <1>6, <1>7, <1>8, <1>9, <1>10, <1>11,
     <1>12, <1>13, <1>14, <1>15, <1>16, <1>17, <1>18, <1>19, <1>20, <1>21,
     <1>22, <1>24, <1>25, <1>26, <1>27
  DEF Next, Compaction

\* Every variable of the collection keeps its type: files hold entries, a
\* a writer holds ids, a logged pass has its manifest.
THEOREM TypeInvariant == Spec => []TypeOK
<1>1. Init => TypeOK
  BY BoundsAssumption, CollectionAssumption
     DEF Init, TypeOK, EmptyLog, EmptyIndex, Idle, NoRead, Segs
<1> QED BY <1>1, TypeStep, PTL DEF Spec

-----------------------------------------------------------------------------
(* The ids of a batch.                                                     *)

\* The counter's next value extends a batch.
LEMMA BatchGrows ==
  ASSUME NEW ids \in Seq(Ids), NEW top \in Nat, IsBatch(ids, top)
  PROVE  IsBatch(ids, top + 1) /\ IsBatch(Append(ids, top + 1), top + 1)
<1> DEFINE new == Append(ids, top + 1)
           n == Len(ids)
<1>1. n \in Nat /\ DOMAIN ids = 1..n /\ DOMAIN new = 1..(n + 1) OBVIOUS
<1>2. \A k \in 1..n : new[k] = ids[k] /\ ids[k] \in Nat
  <2>1. \A k \in 1..n : new[k] = ids[k] /\ ids[k] \in Ids OBVIOUS
  <2> QED BY <2>1 DEF Ids
<1>3. \A k \in 1..n : ids[k] <= top BY <1>1, Zenon DEF IsBatch
<1>4. \A k, l \in 1..n : k < l => ids[k] < ids[l] BY <1>1, Zenon DEF IsBatch
<1>5. new[n + 1] = top + 1 OBVIOUS
<1> HIDE DEF new, n
<1>6. ASSUME NEW i \in 1..n PROVE ids[i] <= top + 1 /\ new[i] <= top + 1
  <2>1. ids[i] \in Nat /\ ids[i] <= top /\ new[i] = ids[i] BY <1>2, <1>3, Zenon
  <2> QED BY <2>1
<1>7. ASSUME NEW i \in 1..(n + 1), NEW j \in 1..(n + 1), i < j PROVE new[i] < new[j]
  <2>1. i \in 1..n BY <1>1, <1>7
  <2>2. ids[i] \in Nat /\ ids[i] <= top /\ new[i] = ids[i] BY <1>2, <1>3, <2>1, Zenon
  <2>3. CASE j \in 1..n BY <1>2, <1>4, <1>7, <2>1, <2>2, <2>3, Zenon
  <2>4. CASE j = n + 1
    <3>1. new[j] = top + 1 BY <1>5, <2>4, Zenon
    <3> QED BY <2>2, <3>1
  <2> QED BY <1>1, <2>3, <2>4
<1>8. IsBatch(ids, top + 1) BY <1>1, <1>4, <1>6, Zenon DEF IsBatch
<1>9. ASSUME NEW i \in 1..(n + 1) PROVE new[i] <= top + 1
  <2>1. i \in 1..n \/ i = n + 1 BY <1>1
  <2> QED BY <1>5, <1>6, <2>1
<1>10. IsBatch(new, top + 1) BY <1>1, <1>7, <1>9, Zenon DEF IsBatch
<1> QED BY <1>8, <1>10, Zenon DEF new

\* No batch, and no beginning of one, names a record twice.
LEMMA BatchDistinct ==
  ASSUME NEW ids \in Seq(Ids), NEW top, IsBatch(ids, top), NEW n \in 0..Len(ids)
  PROVE  \A i, j \in 1..n : ids[i] = ids[j] => i = j
<1>1. Len(ids) \in Nat /\ n \in Nat /\ \A i \in 1..n : i \in DOMAIN ids OBVIOUS
<1>2. \A i \in 1..n : ids[i] \in Nat
  <2>1. \A i \in DOMAIN ids : ids[i] \in Ids OBVIOUS
  <2> QED BY <1>1, <2>1 DEF Ids
<1>3. \A i, j \in 1..n : i < j => ids[i] < ids[j] BY <1>1, Zenon DEF IsBatch
<1> QED BY <1>1, <1>2, <1>3

\* BatchInv is preserved by a step that hands out no id.
LEMMA BatchFrame ==
  ASSUME BatchInv, idSeq' = idSeq, up = "open", up' = "open",
         \A w \in Writers : writer'[w].ids \in {writer[w].ids, <<>>}
  PROVE  BatchInv'
<1>1. IsBatch(<<>>, idSeq) BY DEF IsBatch
<1> QED BY <1>1, Zenon DEF BatchInv

\* BatchInv is inductive, given the types.
LEMMA BatchStep == TypeOK /\ BatchInv /\ [Next]_vars => BatchInv'
<1> SUFFICES ASSUME TypeOK, BatchInv, [Next]_vars PROVE BatchInv' BY Zenon
<1>0. writer \in [Writers -> WriterType] BY Zenon DEF TypeOK, WriterType
<1>1. ASSUME NEW w \in Writers, InsertAssign(w) PROVE BatchInv'
  <2>1. idSeq \in Nat /\ idSeq' = idSeq + 1 /\ up' = "open"
    BY <1>1, Bounds DEF InsertAssign, TypeOK
  <2>2. \A x \in Writers : /\ IsBatch(writer[x].ids, idSeq')
                           /\ IsBatch(Append(writer[x].ids, idSeq + 1), idSeq')
    BY <2>1, HeldType, BatchGrows, Zenon DEF BatchInv
  <2>3. \A x \in Writers :
          writer'[x].ids \in {writer[x].ids, Append(writer[x].ids, idSeq + 1)}
    BY <1>0, <1>1, ZenonT(30) DEF InsertAssign
  <2> QED BY ZenonT(60), <2>1, <2>2, <2>3 DEF BatchInv
<1>2. ASSUME MemoryLost PROVE BatchInv'
  BY <1>2 DEF MemoryLost, Idle, BatchInv, IsBatch
<1>3. ASSUME NEW w \in Writers, AfterAppend(w), idSeq' = idSeq,
             up = "open", up' = "open"
      PROVE  BatchInv'
  BY <1>3, AfterAppendType, BatchFrame, Zenon
<1>4. ASSUME NEW w \in Writers, NEW v \in Value,
             InsertAppend(w, v) \/ \E id \in Ids : Update(w, id, v)
      PROVE  BatchInv'
  BY <1>3, <1>4, Zenon DEF InsertAppend, AppendBatch, Update
<1>5. ASSUME NEW w \in Writers, writer' = [writer EXCEPT ![w] = Idle],
             idSeq' = idSeq,
             up = "open", up' = "open"
      PROVE  BatchInv'
  <2>1. \A x \in Writers : writer'[x].ids \in {writer[x].ids, <<>>}
    BY <1>0, <1>5, Zenon DEF Idle
  <2> QED BY <1>5, <2>1, BatchFrame, Zenon
<1>6. ASSUME NEW w \in Writers,
             Rotate(w) \/ \E v \in Value : InsertReject(w, v)
      PROVE  BatchInv'
  BY <1>5, <1>6, Zenon DEF Rotate, InsertReject, AppendBatch
<1>7. ASSUME Open PROVE BatchInv'
  <2>1. up # "open" /\ UNCHANGED writer BY <1>7, Zenon DEF Open
  <2>2. \A w \in Writers : writer'[w].ids = <<>> BY <2>1, Zenon DEF BatchInv
  <2>3. IsBatch(<<>>, idSeq') BY DEF IsBatch
  <2>4. up' = "open" BY <1>7, Zenon DEF Open
  <2> QED BY <2>2, <2>3, <2>4, Zenon DEF BatchInv
<1>8. ASSUME UNCHANGED <<up, idSeq, writer>> PROVE BatchInv'
  BY <1>8, Zenon DEF BatchInv
<1>9. ASSUME \/ \E id \in Ids : Delete(id)
             \/ \E r \in Readers : GetRead(r) \/ \E id \in Ids : GetLocate(r, id)
             \/ Compaction \/ UNCHANGED vars
      PROVE  UNCHANGED <<up, idSeq, writer>>
  BY ZenonT(60), <1>9
     DEF Delete, GetRead, GetLocate, Compaction, CompactSnapshot, CompactWrite,
              WriteManifest, CompactFails, Swap, PersistIndex, PersistIndexFails,
              ClearManifest, vars, segVars
<1>10. ASSUME \/ Close \/ Crash \/ CrashInClose \/ CrashInWrite \/ CrashInSwap
              \/ CrashInRecovery
              \/ \E w \in Writers : CrashInRotate(w) \/ \E v \in Value : CrashInAppend(w, v)
       PROVE  MemoryLost
  BY <1>10, Zenon
     DEF Close, Crash, CrashInClose, CrashInWrite, CrashInSwap, CrashInRecovery,
               CrashInRotate, CrashInAppend, Dies
<1> QED BY <1>1, <1>2, <1>4, <1>6, <1>7, <1>8, <1>9, <1>10, ZenonT(30) DEF Next

\* The ids a writer holds were handed out by the counter, in increasing order:
\* no batch names a record twice (insert and InsertMany, idSeq.Add).
THEOREM BatchInvariant == Spec => []BatchInv
<1>1. Init => BatchInv BY DEF Init, BatchInv, IsBatch, Idle
<1> QED BY <1>1, BatchStep, TypeInvariant, PTL DEF Spec

-----------------------------------------------------------------------------
\* What TypeOK says of the files, in the form the other proofs use.
LEMMA FileTypes ==
  ASSUME TypeOK
  PROVE  /\ disk \in Log /\ temps \in Log
         /\ Segs \subseteq Nat /\ \A s \in Segs : s >= 1
         /\ files \subseteq Segs /\ files \subseteq Nat
         /\ active \in Segs /\ active \in Nat /\ active >= 1
         /\ asize \in Nat /\ ntemps \in Nat
         /\ sealed \in Seq(Segs) /\ toCompact \in Seq(Segs)
         /\ manifest # Nil => /\ manifest.n \in Nat /\ manifest.n <= MaxSeg
                              /\ manifest.removals \subseteq Segs
                              /\ manifest.removals \subseteq Nat
<1>1. Segs \subseteq Nat /\ \A s \in Segs : s >= 1 BY Bounds DEF Segs
<1>2. /\ disk \in Log /\ temps \in Log /\ files \subseteq Segs /\ active \in Segs
      /\ asize \in Nat /\ ntemps \in 0..MaxSeg
      /\ sealed \in Seq(Segs) /\ toCompact \in Seq(Segs)
  BY Zenon DEF TypeOK, Log
<1>3. manifest # Nil => manifest \in Manifest BY Zenon DEF TypeOK
<1>4. manifest # Nil => /\ manifest.n \in Nat /\ manifest.n <= MaxSeg
                        /\ manifest.removals \subseteq Segs
  BY <1>3, Bounds DEF Manifest
<1>5. ntemps \in Nat /\ active >= 1 BY <1>1, <1>2, Bounds
<1> QED BY <1>1, <1>2, <1>4, <1>5, Zenon

-----------------------------------------------------------------------------
(* Where the files are.                                                    *)

\* A hazard that has occurred stays in the history.
LEMMA HistGrows == Next => hist \subseteq hist'
<1>1. ASSUME NEW w \in Writers, NEW v \in Value,
             InsertAppend(w, v) \/ InsertReject(w, v) PROVE hist' = hist
  BY <1>1, ZenonT(30) DEF InsertAppend, InsertReject, AppendBatch
<1> QED
  BY ZenonT(60), <1>1 DEF Next, Compaction, InsertAssign, Update, Delete, Rotate,
         CompactSnapshot, CompactWrite, WriteManifest, CompactFails, Swap,
         PersistIndex, PersistIndexFails, ClearManifest, GetLocate, GetRead,
         Close, Crash, CrashInClose, CrashInAppend, CrashInRotate, CrashInWrite,
         CrashInSwap, CrashInRecovery, Open, ghostVars

\* A step that keeps Good has started in a good state.
LEMMA GoodBefore == Next /\ Good' => Good
BY HistGrows, Zenon DEF Good

LayoutVars == <<disk, files, temps, manifest, up, segVars, passVars>>
Layout == FilesInv /\ ManifestInv /\ OpenInv /\ PassInv

\* Steps that touch no file, no segment list and no pass keep the layout.
LEMMA LayoutFrame ==
  ASSUME Layout, UNCHANGED LayoutVars
  PROVE  Layout'
BY Zenon DEF Layout, LayoutVars, segVars, passVars, FilesInv, ManifestInv, OpenInv,
       PassInv, IsSorted

\* An append grows the active segment only.
LEMMA OpenAppend ==
  ASSUME TypeOK, FilesInv, OpenInv, up = "open", NEW new \in Seq(Entry),
         AppendActive(new), UNCHANGED <<files, up, sealed, active, linked>>
  PROVE  FilesInv' /\ OpenInv'
<1>1. disk \in Log /\ active \in Segs /\ asize \in Nat BY FileTypes, Zenon
<1>2. linked /\ asize = Len(disk[active]) /\ active \in files
  BY Zenon DEF OpenInv, FilesInv
<1>3. disk' = [disk EXCEPT ![active] = @ \o new] /\ asize' = asize + Len(new)
  BY <1>2, Zenon DEF AppendActive
<1>4. FilesInv' BY <1>1, <1>2, <1>3, Zenon DEF FilesInv, Log
<1>5. asize' = Len(disk'[active])
  BY <1>1, <1>2, <1>3 DEF Log
<1>6. OpenInv' BY <1>2, <1>5, Zenon DEF OpenInv, IsSorted
<1> QED BY <1>4, <1>6, Zenon

\* ... and keeps the layout.
LEMMA LayoutAppend ==
  ASSUME TypeOK, Layout, up = "open", NEW new \in Seq(Entry), AppendActive(new),
         UNCHANGED <<files, temps, manifest, up, sealed, active, linked, passVars>>
  PROVE  Layout'
<1>1. FilesInv' /\ OpenInv' BY OpenAppend, Zenon DEF Layout
<1>2. ManifestInv' BY Zenon DEF Layout, ManifestInv
<1>3. PassInv' BY ZenonT(30) DEF Layout, PassInv, passVars
<1> QED BY <1>1, <1>2, <1>3, Zenon DEF Layout

\* The next segment number is above every file.
LEMMA NextIsAbove ==
  ASSUME TypeOK, FilesInv, OpenInv, up = "open", NEW m \in Segs, IsNextSegment(m)
  PROVE  m > active /\ m \notin files /\ \A s \in files : s < m
<1>1. Range(sealed) = files \ {active} /\ active \in files
  BY Zenon DEF OpenInv, IsSorted, FilesInv
<1>2. \A s \in Range(sealed) \cup {active} : s < m BY Zenon DEF IsNextSegment
<1>3. files \subseteq Segs /\ Segs \subseteq Nat BY FileTypes, Zenon
<1> QED BY <1>1, <1>2, <1>3

\* A crash keeps the layout when it leaves the files as they are.
LEMMA LayoutDies ==
  ASSUME TypeOK, Layout, Dies, FilesInv', ManifestInv'
  PROVE  Layout'
BY Zenon DEF Layout, Dies, MemoryLost, OpenInv, PassInv

\* A swap, or a recovery, cut short by a crash keeps the layout.
LEMMA LayoutPartialSwap ==
  ASSUME TypeOK, Layout, manifest # Nil, PartialSwap, Dies,
         UNCHANGED <<manifest, active>>
  PROVE  Layout'
<1>1. manifest.n \in Nat /\ manifest.removals \in SUBSET Segs /\ active \in Segs
  BY FileTypes, Zenon
<1>2. PICK R \in SUBSET Outstanding(temps, manifest.n),
           Q \in SUBSET manifest.removals :
        /\ disk' = ApplySwap(disk, temps, R, Q)
        /\ files' = (files \cup R) \ Q
    BY Zenon DEF PartialSwap
<1>3. /\ (1..manifest.n) \cap manifest.removals = {} /\ manifest.n < active
      /\ \A s \in manifest.removals : s < active
      /\ files # {} /\ active \in files /\ \A s \in files : s <= active
  BY Zenon DEF Layout, ManifestInv, FilesInv
<1>4. \A s \in R : s \in Nat /\ s < active /\ s \notin Q
  BY <1>1, <1>3, Bounds DEF Outstanding, Segs
<1>5. \A s \in Q : s \in Segs /\ s < active BY <1>1, <1>3, ZenonT(30)
<1>6. active \in Nat /\ active \in files' /\ \A s \in files' : s <= active
  BY <1>1, <1>2, <1>3, <1>4, <1>5, FileTypes
<1>7. ASSUME NEW s \in Segs, s \notin files' PROVE disk'[s] = <<>>
  <2>1. s \in Q \/ (s \notin files /\ s \notin R) BY <1>2, <1>7, Zenon
  <2>2. s \in Q => s \notin R BY <1>4, Zenon
  <2>3. s \notin files => disk[s] = <<>> BY Zenon DEF Layout, FilesInv
  <2> QED BY <1>2, <2>1, <2>2, <2>3, Zenon DEF ApplySwap
<1>8. FilesInv' BY <1>6, <1>7, Zenon DEF FilesInv
<1>9. up' = "crashed" BY Zenon DEF Dies
<1>10. ManifestInv' BY <1>3, <1>6, <1>9, Zenon DEF ManifestInv
<1> QED BY <1>8, <1>10, LayoutDies, Zenon

\* Rolling a manifest forward leaves content in the recovered files only.
LEMMA RecoveredLayout ==
  ASSUME TypeOK, Layout
  PROVE  \A s \in Segs : s \notin RecoveredFiles =>
           RollForward(disk, temps, manifest)[s] = <<>>
<1> SUFFICES ASSUME NEW s \in Segs, s \notin RecoveredFiles
             PROVE  RollForward(disk, temps, manifest)[s] = <<>>
  BY Zenon
<1>1. s \notin files => disk[s] = <<>> BY Zenon DEF Layout, FilesInv
<1>2. CASE manifest = Nil
  BY <1>1, <1>2, Zenon DEF RecoveredFiles, RollForward
<1>3. CASE manifest # Nil
  <2>1. s \notin (files \cup Outstanding(temps, manifest.n)) \ manifest.removals
    BY <1>3, Zenon DEF RecoveredFiles
  <2>2. s \in manifest.removals => s \notin Outstanding(temps, manifest.n)
    BY <1>3, Zenon DEF Layout, ManifestInv, Outstanding
  <2> QED BY <1>1, <1>3, <2>1, <2>2, Zenon DEF RollForward, ApplySwap
<1> QED BY <1>2, <1>3, Zenon

\* The whole swap keeps the layout.
LEMMA LayoutSwap ==
  ASSUME TypeOK, TypeOK', Layout, Swap
  PROVE  Layout'
<1> DEFINE n == manifest.n
           gone == manifest.removals
<1>1. /\ manifest \in Manifest /\ up = "open" /\ pass = "logged" /\ manifest # Nil
  BY ZenonT(30) DEF Swap, TypeOK
<1>2. n \in Nat /\ n <= MaxSeg /\ gone \in SUBSET Segs /\ active \in Segs
  BY <1>1, FileTypes, Zenon
<1>3. /\ n = ntemps /\ gone = Range(sealed) \ (1..n) /\ n < active
      /\ Range(sealed) = files \ {active} /\ active \in files
      /\ linked /\ asize = Len(disk[active])
      /\ \A k \in Segs : temps[k] # <<>> <=> k <= n
  <2>1. n = ntemps /\ gone = Range(sealed) \ (1..n) BY <1>1 DEF Layout, PassInv
  <2>2. \A k \in Segs : temps[k] # <<>> <=> k <= n BY <1>1, <2>1, Zenon DEF Layout, PassInv
  <2>3. /\ Range(sealed) = files \ {active} /\ linked /\ asize = Len(disk[active])
        /\ files # {}
    BY <1>1, Zenon DEF Layout, OpenInv, IsSorted
  <2>4. n < active /\ active \in files BY <1>1, <2>3, Zenon DEF Layout, ManifestInv, FilesInv
  <2> QED BY <2>1, <2>2, <2>3, <2>4, ZenonT(30)
<1>4. /\ disk' = ApplySwap(disk, temps, 1..n, gone)
      /\ files' = (files \cup (1..n)) \ gone
      /\ temps' = [k \in Segs |-> IF k \in 1..n THEN <<>> ELSE temps[k]]
      /\ sealed' = [k \in 1..n |-> k]
      /\ linked' = (linked /\ active \notin (1..n) \cup gone)
      /\ pass' = "swapped"
      /\ UNCHANGED <<manifest, up, active, asize, toCompact, ntemps>>
  BY Zenon DEF Swap
<1>5. active \in Nat /\ 1..n \subseteq Segs BY <1>2, Bounds DEF Segs
<1>6. active \notin 1..n /\ active \notin gone BY <1>2, <1>3, <1>5
<1>7. files' = (1..n) \cup {active}
  BY <1>3, <1>4, <1>6, Zenon
<1>8. FilesInv'
  <2>1. ASSUME NEW s \in Segs, s \notin files' PROVE disk'[s] = <<>>
    <3>1. s \notin 1..n BY <1>7, <2>1, Zenon
    <3>2. s \in gone \/ s \notin files BY <1>3, <1>7, <2>1, Zenon
    <3>3. s \notin files => disk[s] = <<>> BY Zenon DEF Layout, FilesInv
    <3> QED BY <1>4, <3>1, <3>2, <3>3, Zenon DEF ApplySwap
  <2>2. \A s \in files' : s <= active BY <1>2, <1>3, <1>5, <1>7
  <2> QED BY <1>4, <1>7, <2>1, <2>2, Zenon DEF FilesInv
<1>9. ManifestInv' BY <1>1, <1>4, <1>7, Zenon DEF Layout, ManifestInv
<1>10. OpenInv'
  <2>1. Range(sealed') = 1..n BY <1>4, Zenon DEF Range
  <2>2. \A i, j \in DOMAIN sealed' : i < j => sealed'[i] < sealed'[j] BY <1>4, Zenon
  <2>3. files' \ {active} = 1..n BY <1>6, <1>7, Zenon
  <2>4. disk'[active] = disk[active] BY <1>2, <1>4, <1>6, Zenon DEF ApplySwap
  <2> QED BY <1>1, <1>3, <1>4, <1>6, <1>7, <2>1, <2>2, <2>3, <2>4, Zenon
          DEF OpenInv, IsSorted
<1>11. PassInv'
  <2>1. temps' = EmptyLog
    <3>1. ASSUME NEW k \in Segs PROVE temps'[k] = <<>>
      <4>1. k \in Nat /\ k >= 1 BY Bounds DEF Segs
      <4> QED BY <1>2, <1>3, <1>4, <4>1
    <3> QED BY <1>4, <3>1, ZenonT(30) DEF EmptyLog
  <2>2. gone \cap files' = {} BY <1>3, <1>6, <1>7, Zenon
  <2> QED BY <1>1, <1>4, <2>1, <2>2, Zenon DEF PassInv
<1> QED BY <1>8, <1>9, <1>10, <1>11, Zenon DEF Layout

\* load finds the files, takes the last for the active segment and lists the
\* others in order.
LEMMA LayoutOpen ==
  ASSUME TypeOK, TypeOK', Layout, Open
  PROVE  Layout'
<1> DEFINE d == RollForward(disk, temps, manifest)
           fs == RecoveredFiles
<1>1. /\ up # "open" /\ up' = "open" /\ disk' = d /\ files' = fs
      /\ temps' = EmptyLog /\ manifest' = Nil /\ asize' = Len(d[active'])
      /\ linked' = TRUE /\ pass' = pass
  BY Zenon DEF Open, passVars
<1>2. active' \in fs /\ IsTop(active', fs) BY Zenon DEF Open
<1>3. IsSorted(sealed', fs \ {active'}) BY ZenonT(30) DEF Open
<1>4. pass = "idle" BY <1>1, Zenon DEF Layout, PassInv
<1>5. FilesInv'
  <2>1. \A s \in Segs : s \notin files' => disk'[s] = <<>> BY <1>1, RecoveredLayout, Zenon
  <2>2. active' \in files' /\ \A s \in files' : s <= active' BY <1>1, <1>2, Zenon DEF IsTop
  <2> QED BY <1>1, <2>1, <2>2, Zenon DEF FilesInv
<1>6. ManifestInv' BY <1>1, Zenon DEF ManifestInv
<1>7. OpenInv' BY <1>1, <1>2, <1>3, Zenon DEF OpenInv, IsSorted
<1>8. PassInv' BY <1>1, <1>4, Zenon DEF PassInv
<1> QED BY <1>5, <1>6, <1>7, <1>8, Zenon DEF Layout

\* rotateSegment seals the active segment as the last of the list and opens
\* a file above all others.
LEMMA OpenRotate ==
  ASSUME TypeOK, FilesInv, OpenInv, NEW w \in Writers, Rotate(w)
  PROVE  /\ FilesInv' /\ OpenInv' /\ active' > active
         /\ active' \notin files /\ files' = files \cup {active'}
<1>1. up = "open" /\ UNCHANGED <<disk, up>> BY Zenon DEF Rotate
<1>2. PICK m \in Segs : SealAndOpen(m) BY Zenon DEF Rotate
<1>3. /\ IsNextSegment(m) /\ sealed' = Append(sealed, active) /\ active' = m
      /\ files' = files \cup {m} /\ asize' = Len(disk[m]) /\ linked' = TRUE
  BY <1>2, Zenon DEF SealAndOpen
<1>4. m > active /\ m \notin files /\ \A s \in files : s < m
  BY <1>1, <1>3, NextIsAbove, Zenon
<1>5. /\ files \subseteq Nat /\ Segs \subseteq Nat /\ active \in Nat
      /\ active \in Segs /\ sealed \in Seq(Segs)
  BY FileTypes, Zenon
<1>6. /\ IsSorted(sealed, files \ {active}) /\ active \in files
      /\ \A s \in files : s <= active
  BY <1>1, ZenonT(30) DEF OpenInv, FilesInv
<1>7. FilesInv'
  <2>1. ASSUME NEW s \in Segs, s \notin files' PROVE disk'[s] = <<>>
    BY <1>1, <1>3, <2>1, Zenon DEF FilesInv
  <2>2. active' \in files' BY <1>3, Zenon
  <2>3. ASSUME NEW s \in files' PROVE s <= active'
    <3>1. m \in Nat BY <1>5, Zenon
    <3>2. CASE s = m BY ONLY <1>3, <3>1, <3>2
    <3>3. CASE s # m
      <4>1. s \in files /\ s \in Nat /\ s < m BY <1>3, <1>4, <1>5, <3>3, Zenon
      <4> QED BY ONLY <1>3, <3>1, <4>1
    <3> QED BY <3>2, <3>3, Zenon
  <2> QED BY <2>1, <2>2, <2>3, Zenon DEF FilesInv
<1>8. OpenInv'
  <2>1. files' \ {active'} = files BY <1>3, <1>4, Zenon
  <2>2. Range(sealed') = Range(sealed) \cup {active}
    BY <1>3, <1>5 DEF Range
  <2>3. Range(sealed') = files BY <1>6, <2>2, Zenon DEF IsSorted
  <2>4. ASSUME NEW i \in DOMAIN sealed', NEW j \in DOMAIN sealed', i < j
        PROVE  sealed'[i] < sealed'[j]
    <3>1. DOMAIN sealed' = 1..(Len(sealed) + 1) /\ DOMAIN sealed = 1..Len(sealed)
      BY <1>3, <1>5
    <3>2. i \in DOMAIN sealed /\ sealed'[i] = sealed[i]
      BY <1>3, <1>5, <2>4, <3>1
    <3>3. CASE j \in DOMAIN sealed
      <4>1. sealed'[j] = sealed[j] BY <1>3, <1>5, <3>1, <3>3
      <4> QED BY <1>6, <2>4, <3>2, <3>3, <4>1, ZenonT(30) DEF IsSorted
    <3>4. CASE j \notin DOMAIN sealed
      <4>1. sealed'[j] = active BY <1>3, <1>5, <3>1, <3>4
      <4>2. sealed[i] \in files /\ sealed[i] # active
        BY <1>6, <3>2, Zenon DEF IsSorted, Range
      <4>3. \A s \in files : s \in Nat /\ (s # active => s < active)
        BY <1>5, <1>6
      <4> QED BY <3>2, <4>1, <4>2, <4>3, Zenon
    <3> QED BY <3>3, <3>4, Zenon
  <2>5. IsSorted(sealed', files' \ {active'}) BY <2>1, <2>3, <2>4, Zenon
                                                 DEF IsSorted
  <2> QED BY <1>1, <1>3, <2>5, Zenon DEF OpenInv
<1> QED BY <1>3, <1>4, <1>7, <1>8, Zenon

\* ... and keeps the layout, unless a pass is between snapshot and swap.
LEMMA LayoutRotate ==
  ASSUME TypeOK, TypeOK', Layout, NEW w \in Writers, Rotate(w), Good'
  PROVE  Layout'
<1>1. /\ up = "open" /\ pass \notin {"snap", "written", "logged"}
      /\ UNCHANGED <<disk, temps, manifest, up, passVars>>
  BY Zenon DEF Rotate, Good
<1>2. /\ FilesInv' /\ OpenInv' /\ active' > active
      /\ active' \notin files /\ files' = files \cup {active'}
  BY OpenRotate, Zenon DEF Layout
<1>3. active \in Nat /\ active' \in Nat
  <2>1. active' \in Segs BY Zenon DEF TypeOK
  <2> QED BY <2>1, FileTypes, Zenon
<1>4. manifest # Nil => /\ manifest.n \in Nat /\ manifest.removals \subseteq Nat
  BY FileTypes, Zenon
<1>5. ManifestInv'
  BY <1>1, <1>2, <1>3, <1>4 DEF Layout, ManifestInv
<1>6. PassInv'
  <2>1. pass \in {"swapped", "indexed"} =>
          manifest # Nil /\ manifest.removals \cap files' = {}
    <3>1. manifest # Nil => active' \notin manifest.removals
      BY <1>2, <1>3, <1>4 DEF Layout, ManifestInv
    <3>2. pass \in {"swapped", "indexed"} =>
            manifest # Nil /\ manifest.removals \cap files = {}
      BY <1>1, Zenon DEF Layout, PassInv
    <3> QED BY <1>2, <3>1, <3>2, Zenon
  <2>2. /\ pass' = pass /\ toCompact' = toCompact /\ ntemps' = ntemps /\ up' = "open"
        /\ pass \notin {"snap", "written", "logged"}
    BY <1>1, Zenon DEF passVars
  <2> QED BY <1>1, <2>1, <2>2, Zenon DEF Layout, PassInv
<1> QED BY <1>2, <1>5, <1>6, Zenon DEF Layout

\* ... and so when the process dies before meta.json is rewritten.
LEMMA LayoutCrashInRotate ==
  ASSUME TypeOK, Layout, NEW w \in Writers, CrashInRotate(w)
  PROVE  Layout'
<1>1. up = "open" /\ Dies /\ UNCHANGED <<disk, manifest>> BY Zenon DEF CrashInRotate
<1>2. PICK m \in Segs : IsNextSegment(m) /\ active' = m /\ files' = files \cup {m}
  BY Zenon DEF CrashInRotate
<1>3. m > active /\ m \notin files /\ \A s \in files : s < m
  BY <1>1, <1>2, NextIsAbove, Zenon DEF Layout
<1>4. files \subseteq Nat /\ Segs \subseteq Nat /\ active \in Nat
  BY FileTypes, Zenon
<1>5. up' = "crashed" BY <1>1, Zenon DEF Dies
<1>6. FilesInv'
  <2>1. ASSUME NEW s \in Segs, s \notin files' PROVE disk'[s] = <<>>
    BY <1>1, <1>2, <2>1, Zenon DEF Layout, FilesInv
  <2>2. \A s \in files' : s <= active' BY <1>2, <1>3, <1>4
  <2> QED BY <1>2, <2>1, <2>2, Zenon DEF FilesInv
<1>7. ManifestInv'
  <2>1. manifest # Nil => manifest.n \in Nat /\ manifest.removals \subseteq Nat
    BY FileTypes, Zenon
  <2> QED BY <1>1, <1>2, <1>3, <1>4, <1>5, <2>1 DEF Layout, ManifestInv
<1> QED BY <1>1, <1>6, <1>7, LayoutDies, Zenon

\* CompactWrite starts from no temp files and fills the first ntemps of them.
LEMMA LayoutWrite ==
  ASSUME TypeOK, Layout, CompactWrite
  PROVE  Layout'
<1>1. up = "open" /\ pass = "snap" /\ pass' = "written" /\ temps = EmptyLog
  BY Zenon DEF CompactWrite, Layout, PassInv
<1>2. PICK ord \in MapOrders(resolveEntries(disk, toCompact)) :
           \E cut \in Cuts(temps, ord) :
             temps' = writeCompacted(temps, ord, cut) /\ ntemps' = Len(cut)
  BY Zenon DEF CompactWrite
<1>3. PICK cut \in Cuts(EmptyLog, ord) :
             temps' = writeCompacted(EmptyLog, ord, cut) /\ ntemps' = Len(cut)
  BY <1>1, <1>2, Zenon
<1>4. ord \in Seq(Entry)
  BY MapOrdersType, ZenonT(30) DEF TypeOK, Log
<1>5. \A k \in Segs : temps'[k] # <<>> <=> k <= ntemps'
  BY <1>3, <1>4, FreshCut, ZenonT(30) DEF EmptyLog
<1>6. PassInv' BY <1>1, <1>5, Zenon DEF CompactWrite, Layout, PassInv, segVars
<1> QED BY <1>6, ZenonT(30) DEF CompactWrite, Layout, segVars, FilesInv, ManifestInv, OpenInv,
                    IsSorted

\* LayoutInv is inductive relative to TypeOK.
LEMMA LayoutStep == TypeOK /\ TypeOK' /\ LayoutInv /\ [Next]_vars => LayoutInv'
<1> SUFFICES ASSUME TypeOK, TypeOK', LayoutInv, [Next]_vars, Good'
             PROVE  Layout'
  BY Zenon DEF LayoutInv, Layout
<1>1. CASE UNCHANGED vars
  <2>1. Layout BY <1>1, Zenon DEF LayoutInv, Layout, Good, vars, ghostVars
  <2>2. UNCHANGED LayoutVars BY <1>1, Zenon DEF vars, LayoutVars, fileVars
  <2> QED BY <2>1, <2>2, LayoutFrame, Zenon
<1>2. CASE Next
  <2>0. Layout BY <1>2, GoodBefore, Zenon DEF LayoutInv, Layout
  <2>1. ASSUME NEW w \in Writers, InsertAssign(w) PROVE Layout'
    BY <2>0, <2>1, LayoutFrame, Zenon DEF InsertAssign, LayoutVars, fileVars
  <2>2. ASSUME NEW w \in Writers, NEW v \in Value, InsertReject(w, v)
        PROVE  Layout'
    <3>1. PICK n \in 0..(Len(writer[w].ids) - 1) :
                 AppendBatch(SubSeq(writer[w].ids, 1, n), v)
      BY <2>2, Zenon DEF InsertReject
    <3>2. n \in 0..Len(writer[w].ids) BY HeldType
    <3>3. SubSeq(writer[w].ids, 1, n) \in Seq(Ids) BY <3>2, HeldType, PrefixType, Zenon
    <3>4. Batch(SubSeq(writer[w].ids, 1, n), v) \in Seq(Entry) BY <3>3, BatchType, ZenonT(30)
    <3> QED BY <2>0, <2>2, <3>1, <3>4, LayoutAppend, Zenon DEF InsertReject, AppendBatch
  <2>3. ASSUME NEW w \in Writers, NEW v \in Value, InsertAppend(w, v)
        PROVE  Layout'
    <3>1. Batch(writer[w].ids, v) \in Seq(Entry) BY HeldType, BatchType, Zenon
    <3> QED BY <2>0, <2>3, <3>1, LayoutAppend, Zenon DEF InsertAppend, AppendBatch
  <2>4. ASSUME NEW w \in Writers, NEW id \in Ids, NEW v \in Value, Update(w, id, v)
        PROVE  Layout'
    <3>1. NewUpdate(id, v) \in Entry BY Zenon DEF NewUpdate, Entry, Op
    <3>2. <<NewUpdate(id, v)>> \in Seq(Entry) BY <3>1
    <3> QED BY <2>0, <2>4, <3>2, LayoutAppend, Zenon DEF Update
  <2>5. ASSUME NEW id \in Ids, Delete(id) PROVE Layout'
    <3>1. NewDelete(id) \in Entry BY Zenon DEF NewDelete, Entry, Op
    <3>2. <<NewDelete(id)>> \in Seq(Entry) BY <3>1
    <3> QED BY <2>0, <2>5, <3>2, LayoutAppend, Zenon DEF Delete
  <2>6. ASSUME NEW w \in Writers, Rotate(w) PROVE Layout'
    BY <2>0, <2>6, LayoutRotate, Zenon
  <2>7. CASE CompactSnapshot
    BY <2>0, <2>7, Zenon DEF CompactSnapshot, Layout, FilesInv, ManifestInv, OpenInv,
                      PassInv, IsSorted, fileVars, segVars
  <2>8. CASE CompactWrite BY <2>0, <2>8, LayoutWrite, Zenon
  <2>9. CASE WriteManifest
    <3>1. /\ up = "open" /\ pass = "written" /\ pass' = "logged"
          /\ manifest' = [n |-> ntemps, removals |-> Range(toCompact) \ (1..ntemps)]
          /\ active \notin 1..ntemps
          /\ UNCHANGED <<disk, files, temps, up, segVars, toCompact, ntemps>>
      BY <2>9, Zenon DEF WriteManifest, Good
    <3>2. /\ files # {} /\ \A s \in files : s <= active
          /\ Range(toCompact) = files \ {active} /\ toCompact = sealed
          /\ \A k \in Segs : temps[k] # <<>> <=> k <= ntemps
      BY <2>0, <3>1, Zenon DEF Layout, PassInv, OpenInv, FilesInv, IsSorted
    <3>3. /\ ntemps \in Nat /\ active \in Nat /\ active >= 1 /\ files \subseteq Nat
      BY FileTypes, Zenon
    <3>4. ntemps < active BY <3>1, <3>3
    <3>5. ASSUME NEW s \in Range(toCompact) PROVE s < active
      <4>1. s \in files /\ s # active /\ s <= active /\ s \in Nat BY ZenonT(60),
                                                                     <3>2, <3>3
      <4> QED BY <3>3, <4>1
    <3>6. manifest' # Nil /\ manifest'.n = ntemps
          /\ manifest'.removals = Range(toCompact) \ (1..ntemps)
      BY ZenonT(60), <3>1, CollectionAssumption, FileTypes
         DEF Manifest, Range, TypeOK
    <3>7. ManifestInv' BY <3>1, <3>2, <3>4, <3>5, <3>6, Zenon
                          DEF ManifestInv, segVars
    <3>8. PassInv' BY <3>1, <3>2, <3>6, Zenon DEF PassInv, segVars
    <3> QED BY <2>0, <3>1, <3>7, <3>8, Zenon
            DEF Layout, FilesInv, OpenInv, IsSorted, segVars
  <2>10. CASE CompactFails BY <2>10, Zenon DEF CompactFails, Good
  <2>11. CASE Swap BY <2>0, <2>11, LayoutSwap, Zenon
  <2>12. CASE PersistIndex
    BY <2>0, <2>12, Zenon DEF PersistIndex, Layout, FilesInv, ManifestInv, OpenInv,
                       PassInv, IsSorted, segVars
  <2>13. CASE PersistIndexFails BY <2>13, Zenon DEF PersistIndexFails, Good
  <2>14. CASE ClearManifest
    BY <2>0, <2>14, Zenon DEF ClearManifest, Layout, FilesInv, ManifestInv, OpenInv,
                       PassInv, IsSorted, segVars
  <2>15. ASSUME NEW r \in Readers, NEW id \in Ids, GetLocate(r, id) PROVE Layout'
    BY <2>0, <2>15, LayoutFrame, Zenon DEF GetLocate, LayoutVars, fileVars
  <2>16. ASSUME NEW r \in Readers, GetRead(r) PROVE Layout'
    BY <2>0, <2>16, LayoutFrame, Zenon DEF GetRead, LayoutVars, fileVars
  <2>17. CASE Close
    <3>1. manifest = Nil /\ up' = "closed" /\ pass' = "idle"
          /\ UNCHANGED <<disk, files, manifest, active>>
      BY <2>0, <2>17, Zenon DEF Close, MemoryLost, Layout, PassInv
    <3> QED BY <2>0, <3>1, Zenon
            DEF Layout, FilesInv, ManifestInv, OpenInv, PassInv
  <2>18. CASE Crash
    <3>1. up = "open" /\ Dies /\ UNCHANGED <<disk, files, manifest, active>>
      BY <2>18, Zenon DEF Crash, fileVars
    <3> QED BY <2>0, <3>1, LayoutDies, Zenon
               DEF Layout, FilesInv, ManifestInv, OpenInv, Dies
  <2>19. CASE CrashInClose
    <3>1. up = "open" /\ Dies /\ UNCHANGED <<disk, files, manifest, active>>
      BY <2>19, Zenon DEF CrashInClose
    <3> QED BY <2>0, <3>1, LayoutDies, Zenon
               DEF Layout, FilesInv, ManifestInv, OpenInv, Dies
  <2>20. ASSUME NEW w \in Writers, NEW v \in Value, CrashInAppend(w, v)
         PROVE  Layout'
    <3>1. /\ up = "open" /\ Dies /\ UNCHANGED <<files, manifest, active>>
          /\ \E q : disk' = [disk EXCEPT ![active] = q]
      BY <2>20, Zenon DEF CrashInAppend
    <3>2. files # {} /\ active \in files
      BY <2>0, <3>1, Zenon DEF Layout, OpenInv, FilesInv
    <3>3. FilesInv'
      BY <2>0, <3>1, <3>2, FileTypes, Zenon DEF Layout, FilesInv, Dies, Log
    <3> QED BY <2>0, <3>1, <3>2, <3>3, LayoutDies, Zenon
               DEF Layout, ManifestInv, Dies
  <2>21. ASSUME NEW w \in Writers, CrashInRotate(w) PROVE Layout'
    BY <2>0, <2>21, LayoutCrashInRotate, Zenon
  <2>22. CASE CrashInWrite
    <3>1. up = "open" /\ Dies /\ UNCHANGED <<disk, files, manifest, active>>
      BY <2>22, Zenon DEF CrashInWrite
    <3> QED BY <2>0, <3>1, LayoutDies, Zenon
               DEF Layout, FilesInv, ManifestInv, OpenInv, Dies
  <2>23. CASE CrashInSwap
    BY <2>0, <2>23, LayoutPartialSwap, Zenon DEF CrashInSwap, TypeOK
  <2>24. CASE CrashInRecovery
    BY <2>0, <2>24, LayoutPartialSwap, Zenon DEF CrashInRecovery
  <2>25. CASE Open BY <2>0, <2>25, LayoutOpen, Zenon
  <2> QED BY ZenonT(30), <1>2, <2>1, <2>2, <2>3, <2>4, <2>5, <2>6, <2>7, <2>8, <2>9,
             <2>10,
             <2>11, <2>12, <2>13, <2>14, <2>15, <2>16, <2>17, <2>18, <2>19,
             <2>20, <2>21, <2>22, <2>23, <2>24, <2>25
          DEF Next, Compaction
<1> QED BY <1>1, <1>2, Zenon

\* The segment files, the manifest, the temp files and the open collection's
\* view of them agree at every step of writes, rotation, compaction and crash.
THEOREM LayoutInvariant == Spec => []LayoutInv
<1>1. Init => LayoutInv
  BY Zenon DEF Init, LayoutInv, FilesInv, ManifestInv, OpenInv, PassInv, EmptyLog
<1> QED BY <1>1, LayoutStep, TypeInvariant, PTL DEF Spec

\* Replay order is commit order: the open collection lists its sealed segments
\* in the order they were written and writes to the last file, for any number
\* of rotations, compactions and crashes.
THEOREM ReplayOrderHolds == Spec => []ReplayOrder
<1>1. LayoutInv /\ TypeOK => ReplayOrder
  BY Zenon DEF LayoutInv, FilesInv, OpenInv, ReplayOrder, Good, IsTop
<1> QED BY <1>1, LayoutInvariant, TypeInvariant, PTL
=============================================================================
