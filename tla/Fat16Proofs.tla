----------------------------- MODULE Fat16Proofs -----------------------------
(***************************************************************************)
(* Proofs about the FAT16 driver, for volumes, directories, caches and     *)
(* images of every size and any names of the 8.3 form.                     *)
(***************************************************************************)
EXTENDS Fat16, FiniteSetTheorems, FunctionTheorems, SequenceTheorems,
        WellFoundedInduction, TLAPS

-----------------------------------------------------------------------------
(* Numbers, and induction and recursion along them, with sets and          *)
(* functions in the place of predicates and operators.                     *)
Less == {ss \in Nat \X Nat : ss[1] < ss[2]}

(* Least returns a member of every non-empty set of numbers, the smallest. *)
LEMMA LeastIsMember ==
  ASSUME NEW S \in SUBSET Nat, S # {}
  PROVE  Least(S) \in S /\ \A j \in S : Least(S) <= j
<1>1. OpToRel(<, Nat) = Less
  BY Zenon DEF OpToRel, Less
<1>2. IsWellFoundedOn(Less, Nat)
  BY <1>1, NatLessThanWellFounded
<1>3. PICK x \in S : \A y \in S : ~(<<y, x>> \in Less)
  BY <1>2, WFMin
<1>4. \A y \in S : ~(<<y, x>> \in Less) => x <= y
  BY DEF Less
<1> QED BY <1>3, <1>4 DEF Least

(* A set that holds 0 and with every number the next holds all numbers. *)
LEMMA SetInduction ==
  ASSUME NEW L \in Nat, NEW P, 0 \in P,
         \A n \in 0..(L - 1) : n \in P => n + 1 \in P
  PROVE  0..L \subseteq P
<1> SUFFICES ASSUME ~(0..L \subseteq P) PROVE FALSE
  OBVIOUS
<1> DEFINE S == {n \in 0..L : n \notin P}
<1>1. S \in SUBSET Nat /\ S # {}
  OBVIOUS
<1>2. OpToRel(<, Nat) = Less
  BY Zenon DEF OpToRel, Less
<1>3. IsWellFoundedOn(Less, Nat)
  BY <1>2, NatLessThanWellFounded
<1>4. PICK x \in S : \A y \in S : ~(<<y, x>> \in Less)
  BY <1>1, <1>3, WFMin
<1>5. \A y \in S : ~(<<y, x>> \in Less) => x <= y
  BY DEF Less
<1>6. x \in 0..L /\ x \notin P /\ x # 0
  OBVIOUS
<1>7. x - 1 \in 0..(L - 1) /\ x - 1 < x
  BY <1>6
<1>8. x - 1 \in P
  <2>1. PICK w \in 0..(L - 1) : w = x - 1
    BY <1>7
  <2>2. \A y \in S : x <= y
    BY <1>4, <1>5
  <2>3. w \notin S
    <3> HIDE DEF S
    <3> QED BY <1>6, <2>1, <2>2
  <2> QED BY <2>1, <2>3
<1> QED BY <1>6, <1>7, <1>8

(* The values that a step function G gives one after the other exist. *)
Steps(g, m, X, x0, G) == /\ g \in [0..m -> X] /\ g[0] = x0
                         /\ \A n \in 1..m : g[n] = G[<<g[n - 1], n>>]
LEMMA Iteration ==
  ASSUME NEW L \in Nat, NEW X, NEW x0 \in X, NEW G \in [X \X (1..L) -> X]
  PROVE  \E g : Steps(g, L, X, x0, G)
<1> DEFINE P == {m \in 0..L : \E g : Steps(g, m, X, x0, G)}
<1>1. 0 \in P
  <2>1. Steps([i \in 0..0 |-> x0], 0, X, x0, G)
    BY DEF Steps
  <2>2. \E g : Steps(g, 0, X, x0, G)
    BY <2>1
  <2> QED BY <2>2
<1>2. ASSUME NEW m \in 0..(L - 1), m \in P PROVE m + 1 \in P
  <2>1. PICK g : Steps(g, m, X, x0, G)
    BY <1>2
  <2> DEFINE v == G[<<g[m], m + 1>>]
             h == [i \in 0..(m + 1) |-> IF i = m + 1 THEN v ELSE g[i]]
  <2>2. g[m] \in X /\ m + 1 \in 1..L
    BY <2>1 DEF Steps
  <2>3. v \in X
    BY <2>2
  <2>4. h \in [0..(m + 1) -> X] /\ h[0] = x0
    BY <2>1, <2>3 DEF Steps
  <2>5. ASSUME NEW n \in 1..(m + 1) PROVE h[n] = G[<<h[n - 1], n>>]
    <3>1. n - 1 \in 0..m /\ h[n - 1] = g[n - 1]
      OBVIOUS
    <3>2. CASE n = m + 1
      <4>1. n - 1 = m /\ h[n] = v
        BY <3>2
      <4> HIDE DEF h
      <4> QED BY <3>1, <3>2, <4>1
    <3>3. CASE n # m + 1
      <4>1. n \in 1..m /\ h[n] = g[n]
        BY <3>3
      <4> QED BY <2>1, <3>1, <4>1 DEF Steps
    <3> QED BY <3>2, <3>3
  <2>6. Steps(h, m + 1, X, x0, G)
    BY <2>4, <2>5 DEF Steps
  <2>7. \E f : Steps(f, m + 1, X, x0, G)
    BY <2>6
  <2> QED BY <2>2, <2>7
<1>3. 0..L \subseteq P
  <2> HIDE DEF P
  <2> QED BY <1>1, <1>2, SetInduction
<1>4. L \in P
  BY <1>3
<1> QED BY <1>4

-----------------------------------------------------------------------------
(***************************************************************************)
(* fat16_scan_root.  Mirrors says that each entry of the cache fs is that  *)
(* of a listed directory entry among the first m, another one for each.    *)
(***************************************************************************)
CacheEntries == [name : {Unparse[s] : s \in DOMAIN Unparse}, size : Nat,
                 first : Starts, used : BOOLEAN]
Caches == {fs \in Seq(CacheEntries) : Len(fs) <= FAT16_MAX_FILES}
Mirrors(g, fs, d, m) ==
  /\ g \in [1..Len(fs) -> 1..m]
  /\ \A k \in 1..Len(fs) : Listed(d[g[k]]) /\ fs[k] = CacheOf(d[g[k]])
  /\ \A k, l \in 1..Len(fs) : g[k] = g[l] => k = l
Scanning(d) == CHOOSE f : f = [i \in 0..RootEntries |->
                                 IF i = 0 THEN << >> ELSE ScanEntry(f[i - 1], d, i)]

LEMMA CacheOfTyped ==
  ASSUME NEW e \in DirEntries
  PROVE  CacheOf(e) \in CacheEntries
BY DEF CacheOf, CacheEntries, DirEntries

LEMMA ScanEntryTyped ==
  ASSUME NEW d \in [Entries -> DirEntries], NEW s \in Caches, NEW i \in Entries
  PROVE  ScanEntry(s, d, i) \in Caches
<1>1. s \in Seq(CacheEntries) /\ Len(s) \in Nat /\ Len(s) <= FAT16_MAX_FILES
  BY LenProperties DEF Caches
<1>2. CacheOf(d[i]) \in CacheEntries
  BY CacheOfTyped
<1>3. /\ Append(s, CacheOf(d[i])) \in Seq(CacheEntries)
      /\ Len(Append(s, CacheOf(d[i]))) = Len(s) + 1
  BY <1>1, <1>2, AppendProperties
<1>4. Len(s) < FAT16_MAX_FILES => Len(s) + 1 <= FAT16_MAX_FILES
  BY <1>1, VolumeAssumption
<1> QED BY <1>1, <1>3, <1>4 DEF ScanEntry, Caches

LEMMA ScanEntryMirrors ==
  ASSUME NEW d \in [Entries -> DirEntries], NEW s \in Caches, NEW i \in Entries,
         NEW g, Mirrors(g, s, d, i - 1)
  PROVE  \E h : Mirrors(h, ScanEntry(s, d, i), d, i)
<1> DEFINE t == ScanEntry(s, d, i)  n == Len(s)
<1>1. s \in Seq(CacheEntries) /\ n \in Nat /\ i \in Nat /\ i >= 1
  BY LenProperties, VolumeAssumption DEF Caches, Entries
<1>2. CASE t = s
  <2>1. Mirrors(g, s, d, i)
    BY <1>1 DEF Mirrors
  <2> QED BY <1>2, <2>1
<1>3. CASE t # s
  <2>1. t = Append(s, CacheOf(d[i])) /\ Listed(d[i])
    BY <1>3 DEF ScanEntry
  <2>2. CacheOf(d[i]) \in CacheEntries
    BY CacheOfTyped
  <2>3. /\ Len(t) = n + 1 /\ t[n + 1] = CacheOf(d[i])
        /\ \A k \in 1..n : t[k] = s[k]
    BY <1>1, <2>1, <2>2, AppendProperties
  <2> HIDE DEF t, n
  <2> DEFINE h == [k \in 1..(n + 1) |-> IF k = n + 1 THEN i ELSE g[k]]
  <2>4. \A k \in 1..n : g[k] \in 1..(i - 1) /\ Listed(d[g[k]]) /\ s[k] = CacheOf(d[g[k]])
    BY <1>1 DEF Mirrors, n
  <2>5. /\ h[n + 1] = i
        /\ \A k \in 1..(n + 1) : k # n + 1 => k \in 1..n /\ h[k] = g[k]
    BY <1>1
  <2>6. h \in [1..(n + 1) -> 1..i]
    BY <1>1, <2>4
  <2> HIDE DEF h
  <2>7. \A k \in 1..(n + 1) : Listed(d[h[k]]) /\ t[k] = CacheOf(d[h[k]])
    BY <2>1, <2>3, <2>4, <2>5
  <2>8. \A k, l \in 1..n : g[k] = g[l] => k = l
    BY DEF Mirrors, n
  <2>9. ASSUME NEW k \in 1..(n + 1), NEW l \in 1..(n + 1), h[k] = h[l] PROVE k = l
    <3>1. \A m \in 1..n : g[m] # i
      BY <1>1, <2>4
    <3> QED BY <2>5, <2>8, <2>9, <3>1
  <2>10. Mirrors(h, t, d, i)
    BY <2>3, <2>6, <2>7, <2>9 DEF Mirrors
  <2> QED BY <2>10 DEF t
<1> QED BY <1>2, <1>3

LEMMA ScanFacts ==
  ASSUME NEW d \in [Entries -> DirEntries]
  PROVE  ScanRoot(d) \in Caches /\ \E g : Mirrors(g, ScanRoot(d), d, RootEntries)
<1> DEFINE N == RootEntries
           G == [x \in Caches \X (1..N) |-> ScanEntry(x[1], d, x[2])]
<1>1. N \in Nat /\ Entries = 1..N /\ << >> \in Caches
  BY VolumeAssumption DEF Entries, Caches
<1>2. G \in [Caches \X (1..N) -> Caches]
  BY <1>1, ScanEntryTyped
<1>3. \A a \in Caches, k \in 1..N : G[<<a, k>>] = ScanEntry(a, d, k)
  OBVIOUS
<1> HIDE DEF G
<1>4. PICK f : Steps(f, N, Caches, << >>, G)
  <2> HIDE DEF N
  <2> QED BY <1>1, <1>2, Iteration
<1> DEFINE Is(h) == h = [n \in 0..N |-> IF n = 0 THEN << >> ELSE ScanEntry(h[n - 1], d, n)]
<1>5. Is(f)
  <2>1. ASSUME NEW n \in 0..N
        PROVE  f[n] = IF n = 0 THEN << >> ELSE ScanEntry(f[n - 1], d, n)
    <3>1. CASE n = 0
      BY <1>4, <3>1 DEF Steps
    <3>2. CASE n # 0
      <4>1. n \in 1..N /\ n - 1 \in 0..N
        BY <1>1, <3>2
      <4>2. f[n] = G[<<f[n - 1], n>>] /\ f[n - 1] \in Caches
        BY <1>4, <4>1 DEF Steps
      <4> QED BY <1>3, <3>2, <4>1, <4>2
    <3> QED BY <3>1, <3>2
  <2>2. f = [n \in 0..N |-> f[n]]
    BY <1>4 DEF Steps
  <2> QED BY <2>1, <2>2
<1>6. Is(Scanning(d))
  <2>1. \E h : Is(h)
    BY <1>5
  <2> QED BY <2>1 DEF Scanning
<1> DEFINE c == Scanning(d)
<1>7. \A n \in 0..N : c[n] = IF n = 0 THEN << >> ELSE ScanEntry(c[n - 1], d, n)
  BY <1>6
<1> HIDE DEF c
<1> DEFINE P == {n \in 0..N : c[n] \in Caches /\ \E g : Mirrors(g, c[n], d, n)}
<1>8. 0 \in P
  <2>1. 0 \in 0..N
    BY <1>1
  <2> HIDE DEF N
  <2>2. c[0] = << >>
    BY <1>7, <2>1
  <2>3. Mirrors(<< >>, << >>, d, 0)
    BY DEF Mirrors
  <2> QED BY <1>1, <2>1, <2>2, <2>3
<1>9. ASSUME NEW n \in 0..(N - 1), n \in P PROVE n + 1 \in P
  <2>1. n + 1 \in 0..N /\ n + 1 # 0 /\ (n + 1) - 1 = n /\ n + 1 \in 1..N
    BY <1>1
  <2>2. c[n + 1] = ScanEntry(c[n], d, n + 1)
    BY <1>7, <2>1
  <2>3. c[n] \in Caches
    BY <1>9
  <2>4. PICK g : Mirrors(g, c[n], d, (n + 1) - 1)
    BY <1>9, <2>1
  <2>5. c[n + 1] \in Caches
    BY <1>1, <2>1, <2>2, <2>3, ScanEntryTyped
  <2>6. \E h : Mirrors(h, c[n + 1], d, n + 1)
    BY <1>1, <2>1, <2>2, <2>3, <2>4, ScanEntryMirrors
  <2> QED BY <2>1, <2>5, <2>6
<1>10. 0..N \subseteq P
  <2> HIDE DEF P, N
  <2> QED BY <1>1, <1>8, <1>9, SetInduction
<1>11. N \in P
  BY <1>1, <1>10
<1>12. ScanRoot(d) = c[N]
  BY DEF ScanRoot, Scanning, c
<1> QED BY <1>11, <1>12

-----------------------------------------------------------------------------
(***************************************************************************)
(* Chains.  A walk along the chain s that stays in K ends where s leaves K *)
(* for the first time: m is the number of clusters before.                 *)
(***************************************************************************)
LEMMA ClusterFacts ==
  /\ Clusters \subseteq Nat /\ NoCluster \notin Clusters /\ EofMark \notin Clusters
  /\ FreeEntry \notin Clusters /\ EofMark # FreeEntry
  /\ IsFiniteSet(Clusters) /\ Cardinality(Clusters) = TotalClusters
<1>1. TotalClusters \in Nat /\ EofMark \in Nat /\ EofMark > TotalClusters + 1
  BY VolumeAssumption
<1>2. /\ Clusters \subseteq Nat /\ NoCluster \notin Clusters /\ EofMark \notin Clusters
      /\ FreeEntry \notin Clusters /\ EofMark # FreeEntry
  BY <1>1 DEF Clusters, NoCluster, FreeEntry
<1>3. /\ IsFiniteSet(2..(TotalClusters + 1))
      /\ Cardinality(2..(TotalClusters + 1)) = IF 2 > TotalClusters + 1 THEN 0
                                              ELSE (TotalClusters + 1) - 2 + 1
  BY <1>1, FS_Interval
<1>4. Cardinality(2..(TotalClusters + 1)) = TotalClusters
  BY <1>1, <1>3
<1> QED BY <1>2, <1>3, <1>4 DEF Clusters

LEMMA ChainIsShort ==
  ASSUME NEW f, NEW c, NEW s \in Seq(Clusters), IsChain(f, c, s)
  PROVE  Len(s) \in Nat /\ Len(s) <= TotalClusters
<1>1. Len(s) \in Nat /\ DOMAIN s = 1..Len(s) /\ s \in [1..Len(s) -> Clusters]
  BY LenProperties
<1>2. \A j, k \in 1..Len(s) : s[j] = s[k] => j = k
  BY DEF IsChain
<1>3. s \in Injection(1..Len(s), Clusters)
  BY <1>1, <1>2 DEF Injection, IsInjective
<1>4. Cardinality(1..Len(s)) <= Cardinality(Clusters)
  BY <1>3, ClusterFacts, FS_Injection
<1>5. Cardinality(1..Len(s)) = IF 1 > Len(s) THEN 0 ELSE Len(s) - 1 + 1
  BY <1>1, FS_Interval, SMTT(60)
<1>6. Cardinality(1..Len(s)) = Len(s)
  BY <1>1, <1>5
<1> QED BY <1>1, <1>4, <1>6, ClusterFacts

LEMMA PrefixFacts ==
  ASSUME NEW S, NEW s \in Seq(S), NEW n \in 0..Len(s)
  PROVE  /\ SubSeq(s, 1, n) \in Seq(S) /\ Len(SubSeq(s, 1, n)) = n
         /\ \A j \in 1..n : SubSeq(s, 1, n)[j] = s[j]
<1>1. Len(s) \in Nat
  BY LenProperties
<1> QED BY <1>1, SubSeqProperties

(* The next cluster of a walk that has come n clusters along s. *)
LEMMA FollowTakes ==
  ASSUME NEW f, NEW c, NEW s \in Seq(Clusters), IsChain(f, c, s), NEW K,
         NEW n \in 0..(Len(s) - 1), s[n + 1] \in K
  PROVE  Follow(SubSeq(s, 1, n), f, c, K) = SubSeq(s, 1, n + 1)
<1> DEFINE p == SubSeq(s, 1, n)
<1>1. Len(s) \in Nat /\ n \in 0..Len(s) /\ n + 1 \in 0..Len(s) /\ n + 1 \in 1..Len(s)
  BY LenProperties
<1>2. p \in Seq(Clusters) /\ Len(p) = n /\ \A j \in 1..n : p[j] = s[j]
  BY <1>1, PrefixFacts
<1>3. s # << >> /\ s[1] = c
  BY <1>1 DEF IsChain
<1>4. (IF p = << >> THEN c ELSE f[Last(p)]) = s[n + 1]
  <2>1. CASE n = 0
    BY <1>2, <1>3, <2>1
  <2>2. CASE n # 0
    <3>1. p # << >> /\ Last(p) = s[n] /\ n \in 1..(Len(s) - 1)
      BY <1>1, <1>2, <2>2 DEF Last
    <3>2. f[s[n]] = s[n + 1]
      BY <3>1 DEF IsChain
    <3> QED BY <3>1, <3>2
  <2> QED BY <2>1, <2>2
<1>5. ~Contains(p, s[n + 1])
  <2>1. \A j \in 1..n : j \in 1..Len(s) /\ j # n + 1
    BY <1>1
  <2>2. \A j \in 1..n : s[j] # s[n + 1]
    BY <1>1, <2>1 DEF IsChain
  <2> QED BY <1>2, <2>2 DEF Contains
<1>6. Append(p, s[n + 1]) = SubSeq(s, 1, n + 1)
  <2> DEFINE q == SubSeq(s, 1, n + 1)
  <2>1. q \in Seq(Clusters) /\ Len(q) = n + 1 /\ \A j \in 1..(n + 1) : q[j] = s[j]
    BY <1>1, PrefixFacts
  <2>2. s[n + 1] \in Clusters
    BY <1>1, ElementOfSeq
  <2> HIDE DEF p, q
  <2>3. /\ Append(p, s[n + 1]) \in Seq(Clusters) /\ Len(Append(p, s[n + 1])) = n + 1
        /\ \A j \in 1..n : Append(p, s[n + 1])[j] = p[j]
        /\ Append(p, s[n + 1])[n + 1] = s[n + 1]
    BY <1>2, <2>2, AppendProperties
  <2>4. \A j \in 1..(n + 1) : Append(p, s[n + 1])[j] = q[j]
    BY <1>1, <1>2, <2>1, <2>3
  <2>5. Append(p, s[n + 1]) = q
    BY <2>1, <2>3, <2>4, SeqEqual
  <2> QED BY <2>5 DEF q
<1> HIDE DEF p
<1>7. Follow(p, f, c, K) = Append(p, s[n + 1])
  BY <1>4, <1>5 DEF Follow
<1> QED BY <1>6, <1>7 DEF p

LEMMA FollowStops ==
  ASSUME NEW f, NEW c, NEW s \in Seq(Clusters), IsChain(f, c, s), NEW K \in SUBSET Clusters,
         NEW m \in 0..Len(s), m < Len(s) => s[m + 1] \notin K
  PROVE  Follow(SubSeq(s, 1, m), f, c, K) = SubSeq(s, 1, m)
<1> DEFINE p == SubSeq(s, 1, m)
<1>1. Len(s) \in Nat
  BY LenProperties
<1>2. p \in Seq(Clusters) /\ Len(p) = m /\ \A j \in 1..m : p[j] = s[j]
  BY PrefixFacts
<1> HIDE DEF p
<1>3. (IF p = << >> THEN c ELSE f[Last(p)]) \notin K
  <2>1. CASE m = 0
    <3>1. p = << >>
      BY <1>2, <2>1
    <3>2. c \notin K
      <4>1. CASE s = << >>
        BY <4>1, ClusterFacts DEF IsChain
      <4>2. CASE s # << >>
        <5>1. m < Len(s) /\ s[m + 1] = s[1]
          BY <1>1, <2>1, <4>2
        <5> QED BY <4>2, <5>1 DEF IsChain
      <4> QED BY <4>1, <4>2
    <3> QED BY <3>1, <3>2
  <2>2. CASE m # 0
    <3>1. p # << >> /\ Last(p) = s[m] /\ s # << >>
      BY <1>1, <1>2, <2>2 DEF Last
    <3>2. CASE m = Len(s)
      <4>1. f[s[m]] = EofMark
        BY <3>1, <3>2 DEF IsChain
      <4> QED BY <3>1, <4>1, ClusterFacts
    <3>3. CASE m # Len(s)
      <4>1. m < Len(s) /\ m \in 1..(Len(s) - 1)
        BY <1>1, <2>2, <3>3
      <4>2. f[s[m]] = s[m + 1]
        BY <4>1 DEF IsChain
      <4> QED BY <3>1, <4>1, <4>2
    <3> QED BY <3>2, <3>3
  <2> QED BY <2>1, <2>2
<1>4. Follow(p, f, c, K) = p
  BY <1>3 DEF Follow
<1> QED BY <1>4 DEF p

Walking(f, c, K) == CHOOSE g : g = [n \in 0..TotalClusters |->
                                      IF n = 0 THEN << >> ELSE Follow(g[n - 1], f, c, K)]
LEMMA ChainIs ==
  ASSUME NEW f, NEW c, NEW s \in Seq(Clusters), IsChain(f, c, s), NEW K \in SUBSET Clusters,
         NEW m \in 0..Len(s), \A j \in 1..m : s[j] \in K,
         m < Len(s) => s[m + 1] \notin K
  PROVE  Chain(f, c, K) = SubSeq(s, 1, m)
<1> DEFINE T == TotalClusters
           Walked(n) == IF n < m THEN n ELSE m
           h == [n \in 0..T |-> SubSeq(s, 1, Walked(n))]
           Is(g) == g = [n \in 0..T |-> IF n = 0 THEN << >> ELSE Follow(g[n - 1], f, c, K)]
<1>1. T \in Nat /\ Len(s) \in Nat /\ m \in Nat /\ m <= T
  BY ChainIsShort, VolumeAssumption
<1>2. ASSUME NEW n \in 1..T
      PROVE  Follow(SubSeq(s, 1, Walked(n - 1)), f, c, K) = SubSeq(s, 1, Walked(n))
  <2>1. CASE n <= m
    <3>1. n - 1 \in 0..(Len(s) - 1) /\ (n - 1) + 1 = n /\ n \in 1..m
      BY <1>1, <2>1
    <3>2. Walked(n - 1) = n - 1 /\ Walked(n) = n
      BY <1>1, <2>1
    <3>3. s[(n - 1) + 1] \in K
      BY <3>1
    <3>4. Follow(SubSeq(s, 1, n - 1), f, c, K) = SubSeq(s, 1, (n - 1) + 1)
      BY <3>1, <3>3, FollowTakes
    <3> QED BY <3>1, <3>2, <3>4
  <2>2. CASE ~(n <= m)
    <3>1. Walked(n - 1) = m /\ Walked(n) = m
      BY <1>1, <2>2
    <3>2. Follow(SubSeq(s, 1, m), f, c, K) = SubSeq(s, 1, m)
      BY FollowStops
    <3> QED BY <3>1, <3>2
  <2> QED BY <2>1, <2>2
<1>3. SubSeq(s, 1, Walked(0)) = << >>
  <2>1. Walked(0) = 0
    BY <1>1
  <2>2. SubSeq(s, 1, 0) = << >>
    BY <1>1, PrefixFacts
  <2> QED BY <2>1, <2>2
<1> HIDE DEF Walked
<1>4. Is(h)
  <2>1. ASSUME NEW n \in 0..T
        PROVE  SubSeq(s, 1, Walked(n)) = IF n = 0 THEN << >> ELSE Follow(h[n - 1], f, c, K)
    <3>1. CASE n = 0
      BY <1>3, <3>1
    <3>2. CASE n # 0
      <4>1. n \in 1..T /\ n - 1 \in 0..T
        BY <1>1, <3>2
      <4>2. h[n - 1] = SubSeq(s, 1, Walked(n - 1))
        BY <4>1
      <4> QED BY <1>2, <3>2, <4>1, <4>2
    <3> QED BY <3>1, <3>2
  <2> QED BY <2>1, Zenon
<1> DEFINE w == Walking(f, c, K)
<1>5. Is(w)
  <2>1. \E g : Is(g)
    BY <1>4
  <2> HIDE DEF h
  <2> QED BY <2>1 DEF Walking
<1>6. \A n \in 0..T : w[n] = IF n = 0 THEN << >> ELSE Follow(w[n - 1], f, c, K)
  BY <1>5
<1> HIDE DEF w, h
<1> DEFINE P == {n \in 0..T : w[n] = SubSeq(s, 1, Walked(n))}
<1>7. 0 \in P
  <2>1. 0 \in 0..T
    BY <1>1
  <2> HIDE DEF T
  <2>2. w[0] = << >>
    BY <1>6, <2>1
  <2> QED BY <1>3, <2>1, <2>2
<1>8. ASSUME NEW n \in 0..(T - 1), n \in P PROVE n + 1 \in P
  <2>1. n + 1 \in 0..T /\ n + 1 # 0 /\ (n + 1) - 1 = n /\ n + 1 \in 1..T
    BY <1>1
  <2>2. w[n + 1] = Follow(w[n], f, c, K)
    BY <1>6, <2>1
  <2>3. Follow(SubSeq(s, 1, Walked((n + 1) - 1)), f, c, K) = SubSeq(s, 1, Walked(n + 1))
    BY <1>2, <2>1
  <2>4. w[n] = SubSeq(s, 1, Walked((n + 1) - 1))
    BY <1>8, <2>1
  <2> QED BY <2>1, <2>2, <2>3, <2>4
<1>9. 0..T \subseteq P
  <2> HIDE DEF P, T
  <2> QED BY <1>1, <1>7, <1>8, SetInduction
<1>10. T \in P
  BY <1>1, <1>9
<1>11. Chain(f, c, K) = w[T]
  BY DEF Chain, Walking, w
<1>12. Walked(T) = m
  BY <1>1 DEF Walked
<1> QED BY <1>10, <1>11, <1>12

-----------------------------------------------------------------------------
(***************************************************************************)
(* The chains in use start at the entries of the directory and, as place   *)
(* 0, at the cluster that a call has taken or is about to free.  While a   *)
(* call removes an entry, the chain of that entry is in its hands.         *)
(***************************************************************************)
Places == 0..RootEntries
Removing == pc = "mark" \/ (pc = "free" /\ call.after = "mark")
Alive(i) == dir[i].mark = "live" /\ ~(Removing /\ i = Least(Matches(call.name)))
InHand == IF pc = "free" THEN call.walk
          ELSE IF pc \in {"data", "enter"} THEN call.first ELSE NoCluster
Heads == [p \in Places |-> IF p = 0 THEN InHand
                           ELSE IF Alive(p) THEN dir[p].first ELSE NoCluster]

Apart(s, t) == \A j \in 1..Len(s), k \in 1..Len(t) : s[j] # t[k]
Separate(f, H, ch) == /\ ch \in [Places -> Seq(Clusters)]
                      /\ \A p \in Places : IsChain(f, H[p], ch[p])
                      /\ \A p, q \in Places : p # q => Apart(ch[p], ch[q])
Sized(ch) == \A i \in Entries : Alive(i) => Len(ch[i]) >= dir[i].size
LEMMA EmptyIsApart ==
  \A s : Apart(<< >>, s) /\ Apart(s, << >>)
BY DEF Apart

LEMMA NoChain ==
  ASSUME NEW f
  PROVE  << >> \in Seq(Clusters) /\ IsChain(f, NoCluster, << >>)
BY DEF IsChain

LEMMA NoChainOnly ==
  ASSUME NEW f, NEW s, IsChain(f, NoCluster, s)
  PROVE  s = << >>
BY DEF IsChain

(* No chain goes through a free cluster. *)
LEMMA FreeInNoChain ==
  ASSUME NEW f, NEW h, NEW s \in Seq(Clusters), IsChain(f, h, s), NEW j \in 1..Len(s)
  PROVE  s[j] \in Clusters /\ f[s[j]] # FreeEntry
<1>1. Len(s) \in Nat /\ s # << >> /\ \A k \in 1..Len(s) : s[k] \in Clusters
  BY LenProperties, ElementOfSeq
<1>2. CASE j = Len(s)
  BY <1>1, <1>2, ClusterFacts DEF IsChain
<1>3. CASE j # Len(s)
  <2>1. j \in 1..(Len(s) - 1) /\ j + 1 \in 1..Len(s)
    BY <1>1, <1>3
  <2>2. f[s[j]] = s[j + 1]
    BY <2>1 DEF IsChain
  <2> QED BY <1>1, <2>1, <2>2, ClusterFacts
<1> QED BY <1>2, <1>3

(* A write to a cluster of the FAT leaves the chains elsewhere alone. *)
LEMMA ChainElsewhere ==
  ASSUME NEW f \in [Clusters -> FatValues], NEW h, NEW s \in Seq(Clusters),
         IsChain(f, h, s), NEW c \in Clusters, NEW v, \A j \in 1..Len(s) : s[j] # c
  PROVE  IsChain([f EXCEPT ![c] = v], h, s)
<1> DEFINE g == [f EXCEPT ![c] = v]
<1>1. Len(s) \in Nat /\ \A k \in 1..Len(s) : s[k] \in Clusters
  BY LenProperties, ElementOfSeq
<1>2. \A k \in 1..Len(s) : g[s[k]] = f[s[k]]
  BY <1>1
<1> HIDE DEF g
<1>3. s # << >> => Len(s) \in 1..Len(s)
  BY <1>1, EmptySeq
<1>4. \A j \in 1..(Len(s) - 1) : j \in 1..Len(s)
  BY <1>1
<1>5. s # << >> => s[1] = h /\ g[s[Len(s)]] = EofMark
  BY <1>2, <1>3 DEF IsChain
<1>6. \A j \in 1..(Len(s) - 1) : g[s[j]] = s[j + 1]
  BY <1>2, <1>4 DEF IsChain
<1>7. IsChain(g, h, s)
  BY <1>5, <1>6 DEF IsChain
<1> QED BY <1>7 DEF g

LEMMA SeparateParts ==
  ASSUME NEW f, NEW H, NEW ch, Separate(f, H, ch)
  PROVE  /\ ch \in [Places -> Seq(Clusters)]
         /\ \A p \in Places : IsChain(f, H[p], ch[p]) /\ ch[p] \in Seq(Clusters)
         /\ \A p, q \in Places : p # q => Apart(ch[p], ch[q])
BY DEF Separate

(* One place and its chain changed; the chain stays apart from the others. *)
LEMMA SeparateChanged ==
  ASSUME NEW f, NEW H \in [Places -> Starts], NEW ch, Separate(f, H, ch), NEW g,
         NEW p \in Places, NEW h, NEW s \in Seq(Clusters), IsChain(g, h, s),
         \A q \in Places : q # p => /\ IsChain(g, H[q], ch[q])
                                    /\ Apart(s, ch[q]) /\ Apart(ch[q], s)
  PROVE  Separate(g, [H EXCEPT ![p] = h], [ch EXCEPT ![p] = s])
<1> DEFINE H2 == [H EXCEPT ![p] = h]  c2 == [ch EXCEPT ![p] = s]
<1>1. /\ ch \in [Places -> Seq(Clusters)]
      /\ \A q, r \in Places : q # r => Apart(ch[q], ch[r])
  BY SeparateParts
<1>2. /\ c2 \in [Places -> Seq(Clusters)] /\ c2[p] = s /\ H2[p] = h
      /\ \A q \in Places : q # p => c2[q] = ch[q] /\ H2[q] = H[q]
  BY <1>1
<1> HIDE DEF H2, c2
<1>3. \A q \in Places : IsChain(g, H2[q], c2[q])
  BY <1>2
<1>4. \A q, r \in Places : q # r => Apart(c2[q], c2[r])
  BY <1>1, <1>2
<1>5. Separate(g, H2, c2)
  BY <1>2, <1>3, <1>4 DEF Separate
<1> QED BY <1>5 DEF H2, c2

(* A chain is left alone: nobody looks after it any more. *)
LEMMA SeparateDrop ==
  ASSUME NEW f, NEW H \in [Places -> Starts], NEW ch, Separate(f, H, ch), NEW p \in Places
  PROVE  Separate(f, [H EXCEPT ![p] = NoCluster], [ch EXCEPT ![p] = << >>])
<1>1. \A q \in Places : IsChain(f, H[q], ch[q])
  BY SeparateParts
<1>2. << >> \in Seq(Clusters) /\ IsChain(f, NoCluster, << >>)
  BY NoChain
<1>3. \A q \in Places : q # p => /\ IsChain(f, H[q], ch[q])
                                 /\ Apart(<< >>, ch[q]) /\ Apart(ch[q], << >>)
  BY <1>1, EmptyIsApart
<1> QED BY <1>2, <1>3, SeparateChanged

(* A chain passes from one place to an empty one. *)
LEMMA SeparateMove ==
  ASSUME NEW f, NEW H \in [Places -> Starts], NEW ch, Separate(f, H, ch),
         NEW p \in Places, NEW q \in Places, p # q, H[q] = NoCluster
  PROVE  Separate(f, [H EXCEPT ![p] = NoCluster, ![q] = H[p]],
                     [ch EXCEPT ![p] = << >>, ![q] = ch[p]])
<1> DEFINE H2 == [H EXCEPT ![p] = NoCluster]  c2 == [ch EXCEPT ![p] = << >>]
<1>1. Separate(f, H2, c2)
  BY SeparateDrop
<1>2. /\ ch \in [Places -> Seq(Clusters)]
      /\ \A r \in Places : IsChain(f, H[r], ch[r]) /\ ch[r] \in Seq(Clusters)
      /\ \A r, t \in Places : r # t => Apart(ch[r], ch[t])
  BY SeparateParts
<1>3. NoCluster \in Starts
  BY DEF Starts
<1>4. /\ H2 \in [Places -> Starts] /\ c2[p] = << >> /\ H2[p] = NoCluster
      /\ \A r \in Places : r # p => H2[r] = H[r] /\ c2[r] = ch[r]
  BY <1>2, <1>3
<1>5. [H EXCEPT ![p] = NoCluster, ![q] = H[p]] = [H2 EXCEPT ![q] = H[p]]
  OBVIOUS
<1>6. [ch EXCEPT ![p] = << >>, ![q] = ch[p]] = [c2 EXCEPT ![q] = ch[p]]
  OBVIOUS
<1> HIDE DEF H2, c2
<1>7. ASSUME NEW r \in Places, r # q
      PROVE  /\ IsChain(f, H2[r], c2[r])
             /\ Apart(ch[p], c2[r]) /\ Apart(c2[r], ch[p])
  <2>1. IsChain(f, H2[r], c2[r])
    BY <1>1, SeparateParts
  <2>2. CASE r = p
    BY <1>4, <2>1, <2>2, EmptyIsApart
  <2>3. CASE r # p
    BY <1>2, <1>4, <2>1, <2>3
  <2> QED BY <2>2, <2>3
<1>8. ch[p] \in Seq(Clusters) /\ IsChain(f, H[p], ch[p])
  BY <1>2
<1>9. Separate(f, [H2 EXCEPT ![q] = H[p]], [c2 EXCEPT ![q] = ch[p]])
  BY <1>1, <1>4, <1>7, <1>8, SeparateChanged
<1> QED BY <1>5, <1>6, <1>9

Trouble == faults # 0 \/ resets # 0

(* The first cluster of a chain is freed; the rest is a chain. *)
LEMMA TailIsChain ==
  ASSUME NEW f \in [Clusters -> FatValues], NEW c \in Clusters, NEW s \in Seq(Clusters),
         IsChain(f, c, s)
  PROVE  /\ s # << >> /\ Tail(s) \in Seq(Clusters) /\ s[1] = c
         /\ \A j \in 1..Len(Tail(s)) : j + 1 \in 1..Len(s) /\ Tail(s)[j] = s[j + 1]
         /\ IsChain([f EXCEPT ![c] = FreeEntry],
                    IF f[c] \in Clusters THEN f[c] ELSE NoCluster, Tail(s))
<1> DEFINE t == Tail(s)  n == Len(s)  g == [f EXCEPT ![c] = FreeEntry]
           h == IF f[c] \in Clusters THEN f[c] ELSE NoCluster
<1>1. s # << >>
  BY ClusterFacts DEF IsChain
<1>2. n \in Nat /\ n >= 1 /\ \A k \in 1..n : s[k] \in Clusters
  BY <1>1, LenProperties, ElementOfSeq, EmptySeq
<1>3. t \in Seq(Clusters) /\ Len(t) = n - 1 /\ \A j \in 1..(n - 1) : t[j] = s[j + 1]
  BY <1>1, HeadTailProperties
<1>4. s[1] = c /\ f[s[n]] = EofMark
  BY <1>1 DEF IsChain, n
<1>5. \A j \in 1..(n - 1) : j + 1 \in 1..n /\ f[s[j]] = s[j + 1]
  BY <1>2 DEF IsChain, n
<1>6. \A j, k \in 1..n : s[j] = s[k] => j = k
  BY DEF IsChain, n
<1>7. \A j \in 1..n : j # 1 => s[j] # c
  BY <1>2, <1>4, <1>6
<1>8. \A j \in 1..n : j # 1 => g[s[j]] = f[s[j]]
  BY <1>2, <1>7
<1> HIDE DEF g, t, n
<1>9. t = << >> <=> h = NoCluster
  <2>1. CASE n = 1
    <3>1. f[c] = EofMark /\ t = << >>
      BY <1>3, <1>4, <2>1, EmptySeq
    <3> QED BY <3>1, ClusterFacts
  <2>2. CASE n # 1
    <3>1. 1 \in 1..(n - 1) /\ Len(t) # 0
      BY <1>2, <1>3, <2>2
    <3>2. f[c] = s[2] /\ s[2] \in Clusters
      BY <1>2, <1>4, <1>5, <3>1
    <3>3. t # << >>
      BY <3>1
    <3> QED BY <3>2, <3>3, ClusterFacts
  <2> QED BY <2>1, <2>2
<1>10. ASSUME t # << >> PROVE t[1] = h /\ g[t[Len(t)]] = EofMark
  <2>1. n - 1 \in 1..(n - 1) /\ 1 \in 1..(n - 1) /\ (n - 1) + 1 = n /\ n # 1 /\ n \in 1..n
    BY <1>2, <1>3, <1>10, EmptySeq
  <2>2. t[1] = s[2] /\ t[n - 1] = s[n]
    BY <1>3, <2>1
  <2>3. f[c] = s[2] /\ s[2] \in Clusters
    BY <1>2, <1>4, <1>5, <2>1
  <2>4. g[s[n]] = EofMark
    BY <1>4, <1>8, <2>1
  <2> QED BY <1>3, <2>2, <2>3, <2>4
<1>11. ASSUME NEW j \in 1..(Len(t) - 1) PROVE g[t[j]] = t[j + 1]
  <2>1. /\ j \in 1..(n - 1) /\ j + 1 \in 1..(n - 1) /\ j + 1 # 1 /\ j + 1 \in 1..n
    BY <1>2, <1>3
  <2>2. t[j] = s[j + 1] /\ t[j + 1] = s[(j + 1) + 1]
    BY <1>3, <2>1
  <2>3. g[s[j + 1]] = s[(j + 1) + 1]
    BY <1>5, <1>8, <2>1
  <2> QED BY <2>2, <2>3
<1>12. ASSUME NEW j \in 1..Len(t), NEW k \in 1..Len(t), t[j] = t[k] PROVE j = k
  <2>1. j \in 1..(n - 1) /\ k \in 1..(n - 1) /\ j + 1 \in 1..n /\ k + 1 \in 1..n
    BY <1>2, <1>3
  <2>2. s[j + 1] = s[k + 1]
    BY <1>3, <1>12, <2>1
  <2>3. j + 1 = k + 1
    BY <1>6, <2>1, <2>2
  <2> QED BY <2>1, <2>3
<1>13. IsChain(g, h, t)
  BY <1>9, <1>10, <1>11, <1>12 DEF IsChain
<1>14. \A j \in 1..Len(t) : j + 1 \in 1..n /\ t[j] = s[j + 1]
  BY <1>2, <1>3
<1> QED BY <1>1, <1>3, <1>4, <1>13, <1>14 DEF g, t, n

LEMMA SeparateFree ==
  ASSUME NEW f \in [Clusters -> FatValues], NEW H \in [Places -> Starts], NEW ch,
         Separate(f, H, ch), NEW p \in Places, H[p] \in Clusters
  PROVE  Separate([f EXCEPT ![H[p]] = FreeEntry],
                  [H EXCEPT ![p] = IF f[H[p]] \in Clusters THEN f[H[p]] ELSE NoCluster],
                  [ch EXCEPT ![p] = Tail(ch[p])])
<1> DEFINE s == ch[p]  g == [f EXCEPT ![H[p]] = FreeEntry]
           h == IF f[H[p]] \in Clusters THEN f[H[p]] ELSE NoCluster
<1>1. /\ \A r \in Places : IsChain(f, H[r], ch[r]) /\ ch[r] \in Seq(Clusters)
      /\ \A r, t \in Places : r # t => Apart(ch[r], ch[t])
  BY SeparateParts
<1>2. PICK c \in Clusters : c = H[p]
  OBVIOUS
<1>3. s \in Seq(Clusters) /\ IsChain(f, c, s)
  BY <1>1, <1>2
<1> HIDE DEF s
<1>4. /\ s # << >> /\ Tail(s) \in Seq(Clusters) /\ s[1] = c
      /\ \A j \in 1..Len(Tail(s)) : j + 1 \in 1..Len(s) /\ Tail(s)[j] = s[j + 1]
      /\ IsChain([f EXCEPT ![c] = FreeEntry],
                 IF f[c] \in Clusters THEN f[c] ELSE NoCluster, Tail(s))
  BY <1>3, TailIsChain
<1>5. IsChain(g, h, Tail(s))
  BY <1>2, <1>4
<1>6. ASSUME NEW q \in Places, q # p
      PROVE  /\ IsChain(g, H[q], ch[q])
             /\ Apart(Tail(s), ch[q]) /\ Apart(ch[q], Tail(s))
  <2>1. Apart(s, ch[q]) /\ Apart(ch[q], s)
    BY <1>1, <1>6 DEF s
  <2>2. Apart(Tail(s), ch[q]) /\ Apart(ch[q], Tail(s))
    BY <1>4, <2>1 DEF Apart
  <2>3. 1 \in 1..Len(s)
    BY <1>3, <1>4, LenProperties, EmptySeq
  <2>4. \A j \in 1..Len(ch[q]) : ch[q][j] # c
    BY <1>4, <2>1, <2>3 DEF Apart
  <2>5. IsChain(f, H[q], ch[q]) /\ ch[q] \in Seq(Clusters)
    BY <1>1
  <2>6. IsChain([f EXCEPT ![c] = FreeEntry], H[q], ch[q])
    BY <2>4, <2>5, ChainElsewhere
  <2> QED BY <1>2, <2>2, <2>6
<1> HIDE DEF g, h
<1>7. Separate(g, [H EXCEPT ![p] = h], [ch EXCEPT ![p] = Tail(s)])
  BY <1>4, <1>5, <1>6, SeparateChanged
<1> QED BY <1>7 DEF g, h, s

(* A free cluster becomes a chain of its own, in an empty place. *)
LEMMA SeparateTake ==
  ASSUME NEW f \in [Clusters -> FatValues], NEW H \in [Places -> Starts], NEW ch,
         Separate(f, H, ch), NEW p \in Places, NEW c \in Clusters, f[c] = FreeEntry
  PROVE  Separate([f EXCEPT ![c] = EofMark], [H EXCEPT ![p] = c], [ch EXCEPT ![p] = <<c>>])
<1> DEFINE g == [f EXCEPT ![c] = EofMark]  s == <<c>>
<1>1. \A r \in Places : IsChain(f, H[r], ch[r]) /\ ch[r] \in Seq(Clusters)
  BY SeparateParts
<1>2. s \in Seq(Clusters) /\ Len(s) = 1 /\ s[1] = c /\ s # << >> /\ g[c] = EofMark
  OBVIOUS
<1> HIDE DEF s
<1>3. IsChain(g, c, s)
  <2>1. 1..(Len(s) - 1) = {} /\ \A j \in 1..Len(s) : j = 1
    BY <1>2
  <2> QED BY <1>2, <2>1, ClusterFacts DEF IsChain
<1>4. ASSUME NEW q \in Places PROVE /\ IsChain(g, H[q], ch[q])
                                    /\ Apart(s, ch[q]) /\ Apart(ch[q], s)
  <2>1. IsChain(f, H[q], ch[q]) /\ ch[q] \in Seq(Clusters)
    BY <1>1
  <2>2. \A j \in 1..Len(ch[q]) : ch[q][j] # c
    BY <2>1, FreeInNoChain
  <2>3. IsChain(g, H[q], ch[q])
    BY <2>1, <2>2, ChainElsewhere
  <2>4. \A j \in 1..Len(s) : s[j] = c
    BY <1>2
  <2> QED BY <2>2, <2>3, <2>4 DEF Apart
<1> HIDE DEF g
<1>5. Separate(g, [H EXCEPT ![p] = c], [ch EXCEPT ![p] = s])
  BY <1>2, <1>3, <1>4, SeparateChanged
<1> QED BY <1>5 DEF g, s

ChainInv == ~Trouble => \E ch : Separate(fat, Heads, ch) /\ Sized(ch)

(* What is true at the steps of a call. *)
StepInv == /\ pc = "free" => call.walk \in Clusters /\ call.after \in {"mark", "fail"}
           /\ Removing => Matches(call.name) # {}
           /\ pc = "alloc" \/ Removing => call.first = NoCluster
           /\ pc = "enter" => call.size = 0

(* Every entry of the cache is that of a file on the disk. *)
UniqueNames(d) == \A i, j \in Entries :
                    (Listed(d[i]) /\ Listed(d[j]) /\ Unparse[d[i].name] = Unparse[d[j].name])
                      => i = j
CacheInv ==
  ~Trouble =>
    /\ \A k \in 1..Len(files) : files[k].used =>
         \E i \in Entries : Listed(dir[i]) /\ files[k] = CacheOf(dir[i])
    /\ \A k, l \in 1..Len(files) :
         (files[k].used /\ files[l].used /\ files[k].name = files[l].name) => k = l
    /\ pc \in {"alloc", "data", "enter"} => Cached(call.name) = {}
    /\ pc = "off" => UniqueNames(dir)

(* A name is never more often in the cache than in the directory. *)
Spellings == {Unparse[s] : s \in DOMAIN Unparse}
InCache(fs, N) == {j \in 1..Len(fs) : fs[j].used /\ fs[j].name = N}
InDir(d, N) == {i \in Entries : Listed(d[i]) /\ Unparse[d[i].name] = N}
CountInv == \A N \in Spellings :
              Cardinality(InCache(files, N)) <= Cardinality(InDir(dir, N))

Inv == TypeOK /\ StepInv /\ CountInv /\ ChainInv /\ CacheInv

-----------------------------------------------------------------------------
(* Types, and what is true at the steps of a call. *)
Calls == [op : {"none", "delete", "write"}, name : Names, size : Nat,
          first : Starts, walk : Starts, after : {"none", "mark", "fail"}]
Pcs == {"off", "idle", "free", "mark", "alloc", "data", "enter"}

LEMMA TypeIs ==
  TypeOK <=> /\ fat \in [Clusters -> FatValues] /\ dir \in [Entries -> DirEntries]
             /\ files \in Caches /\ pc \in Pcs /\ call \in Calls
             /\ faults \in Nat /\ resets \in Nat
BY DEF TypeOK, Caches, CacheEntries, Calls, Pcs

LEMMA TypeIsNext ==
  TypeOK' <=> /\ fat' \in [Clusters -> FatValues] /\ dir' \in [Entries -> DirEntries]
              /\ files' \in Caches /\ pc' \in Pcs /\ call' \in Calls
              /\ faults' \in Nat /\ resets' \in Nat
BY DEF TypeOK, Caches, CacheEntries, Calls, Pcs

LEMMA NoCallTyped ==
  /\ NoCall \in Calls /\ NoCall.first = NoCluster /\ NoCall.walk = NoCluster
  /\ NoCluster \in Starts /\ Clusters \subseteq Starts /\ Clusters \subseteq FatValues
  /\ EofMark \in FatValues /\ FreeEntry \in FatValues
  /\ Entries \subseteq Nat /\ Entries \subseteq Places /\ 0 \in Places /\ 0 \notin Entries
<1>1. (CHOOSE n \in Names : TRUE) \in Names
  BY NameAssumption
<1>2. NoCall \in Calls /\ NoCall.first = NoCluster /\ NoCall.walk = NoCluster
  BY <1>1 DEF NoCall, Calls, Starts
<1>3. /\ Entries \subseteq Nat /\ Entries \subseteq Places /\ 0 \in Places /\ 0 \notin Entries
  BY VolumeAssumption DEF Entries, Places
<1> QED BY <1>2, <1>3 DEF Starts, FatValues

LEMMA MatchesFacts ==
  ASSUME NEW n, Matches(n) # {}
  PROVE  /\ Least(Matches(n)) \in Entries /\ dir[Least(Matches(n))].mark = "live"
         /\ dir[Least(Matches(n))].name = Parse[n]
<1>1. Matches(n) \in SUBSET Nat
  BY NoCallTyped DEF Matches
<1>2. Least(Matches(n)) \in Matches(n)
  BY <1>1, LeastIsMember
<1> QED BY <1>2 DEF Matches

(* A cluster that a walk goes on to is one of the volume. *)
LEMMA InChainFacts ==
  ASSUME NEW c \in FatValues, InChain(c)
  PROVE  c \in Clusters
BY VolumeAssumption DEF FatValues, InChain, FreeEntry

LEMMA InChainStarts ==
  ASSUME NEW c \in Starts, InChain(c)
  PROVE  c \in Clusters
BY DEF Starts, InChain, NoCluster

LEMMA AtaFacts ==
  ASSUME NEW ok \in BOOLEAN, Ata(ok), faults \in Nat
  PROVE  /\ faults' \in Nat /\ (faults' = 0 => faults = 0 /\ ok)
         /\ faults # 0 => faults' # 0
BY DEF Ata

LEMMA ReturnFacts ==
  ASSUME NEW r, Return(r), call \in Calls
  PROVE  /\ pc' = "idle" /\ call' \in Calls /\ call'.first = NoCluster
BY NoCallTyped DEF Return, Calls

(* The two ways that fat16_delete_file goes after its scan. *)
LEMMA DeleteIs ==
  ASSUME NEW op \in {"delete", "write"}, NEW n \in Names, NEW size \in Nat, TypeOK,
         Delete(op, n, size)
  PROVE  /\ pc = "idle" /\ UNCHANGED <<fat, dir, files, faults, resets>>
         /\ call' \in Calls /\ call'.name = n /\ call'.first = NoCluster
         /\ \/ /\ Matches(n) = {} /\ pc' \in {"idle", "alloc"}
            \/ /\ Matches(n) # {} /\ call'.walk = dir[Least(Matches(n))].first
               /\ call'.after = "mark"
               /\ \/ pc' = "free" /\ call'.walk \in Clusters
                  \/ pc' = "mark"
<1>1. pc = "idle" /\ UNCHANGED <<fat, dir, files, faults, resets>>
  BY DEF Delete
<1> DEFINE e == dir[Least(Matches(n))]
           asked == [NoCall EXCEPT !.op = op, !.name = n, !.size = size]
<1>2. CASE Matches(n) = {}
  <2>1. call' = asked /\ pc' \in {"idle", "alloc"}
    BY <1>2 DEF Delete
  <2>2. asked \in Calls /\ asked.name = n /\ asked.first = NoCluster
    BY NoCallTyped DEF Calls
  <2> QED BY <1>1, <1>2, <2>1, <2>2
<1>3. CASE Matches(n) # {}
  <2>1. e.first \in Starts
    BY <1>3, MatchesFacts, TypeIs DEF DirEntries
  <2>2. /\ call' = [asked EXCEPT !.walk = e.first, !.after = "mark"]
        /\ pc' = IF InChain(e.first) THEN "free" ELSE "mark"
    BY <1>3 DEF Delete
  <2>3. /\ call' \in Calls /\ call'.name = n /\ call'.first = NoCluster
        /\ call'.walk = e.first /\ call'.after = "mark"
    BY <2>1, <2>2, NoCallTyped DEF Calls
  <2>4. InChain(e.first) => e.first \in Clusters
    BY <2>1, InChainStarts
  <2> QED BY <1>1, <1>3, <2>2, <2>3, <2>4
<1> QED BY <1>2, <1>3

LEMMA MatchesSame ==
  ASSUME NEW n, dir' = dir
  PROVE  Matches(n)' = Matches(n)
BY DEF Matches

LEMMA ErasedTyped == Erased \in DirEntries /\ ~Listed(Erased) /\ Erased.mark # "live"
BY ImageAssumption DEF Erased, Listed

LEMMA FreeClusterIs ==
  ASSUME TypeOK, StepInv, FreeCluster
  PROVE  /\ pc = "free" /\ call.walk \in Clusters /\ UNCHANGED <<dir, files, resets>>
         /\ \E ok \in BOOLEAN :
              /\ Ata(ok)
              /\ fat' = IF ok THEN [fat EXCEPT ![call.walk] = FreeEntry] ELSE fat
         /\ fat' \in [Clusters -> FatValues] /\ faults' \in Nat
         /\ \/ /\ fat[call.walk] \in Clusters /\ pc' = "free" /\ call' \in Calls
               /\ call' = [call EXCEPT !.walk = fat[call.walk]]
            \/ call.after = "mark" /\ pc' = "mark" /\ call' = call
            \/ call.after = "fail" /\ pc' = "idle" /\ call' \in Calls
<1>1. pc = "free" /\ UNCHANGED <<dir, files, resets>>
  BY DEF FreeCluster
<1>2. call.walk \in Clusters /\ call.after \in {"mark", "fail"}
  BY <1>1 DEF StepInv
<1>3. /\ fat \in [Clusters -> FatValues] /\ call \in Calls /\ faults \in Nat
      /\ fat[call.walk] \in FatValues /\ FreeEntry \in FatValues /\ Clusters \subseteq Starts
  BY <1>2, TypeIs, NoCallTyped
<1>4. PICK ok \in BOOLEAN :
        Ata(ok) /\ fat' = IF ok THEN [fat EXCEPT ![call.walk] = FreeEntry] ELSE fat
  BY DEF FreeCluster
<1>5. fat' \in [Clusters -> FatValues]
  BY <1>3, <1>4
<1>6. faults' \in Nat
  BY <1>3, <1>4, AtaFacts
<1>7. CASE InChain(fat[call.walk])
  <2>1. fat[call.walk] \in Clusters
    BY <1>3, <1>7, InChainFacts
  <2>2. call' = [call EXCEPT !.walk = fat[call.walk]] /\ pc' = pc
    BY <1>7, Zenon DEF FreeCluster
  <2>3. call' \in Calls
    BY <1>3, <2>1, <2>2 DEF Calls
  <2> QED BY <1>1, <1>2, <1>4, <1>5, <1>6, <2>1, <2>2, <2>3
<1>8. CASE ~InChain(fat[call.walk]) /\ call.after = "mark"
  <2>1. call' = call /\ pc' = "mark"
    BY <1>8 DEF FreeCluster
  <2> QED BY <1>1, <1>2, <1>4, <1>5, <1>6, <1>8, <2>1
<1>9. CASE ~InChain(fat[call.walk]) /\ call.after = "fail"
  <2>1. Return(-1)
    BY <1>9 DEF FreeCluster
  <2>2. pc' = "idle" /\ call' \in Calls
    BY <1>3, <2>1, ReturnFacts
  <2> QED BY <1>1, <1>2, <1>4, <1>5, <1>6, <1>9, <2>2
<1> QED BY <1>2, <1>7, <1>8, <1>9

LEMMA CachedFacts ==
  ASSUME NEW n, files \in Caches
  PROVE  /\ Cached(n) = {k \in 1..Len(files) : files[k].used /\ files[k].name = Fold[n]}
         /\ Len(files) \in Nat /\ files \in [1..Len(files) -> CacheEntries]
         /\ Cached(n) # {} => Least(Cached(n)) \in Cached(n)
<1>1. /\ Len(files) \in Nat /\ DOMAIN files = 1..Len(files)
      /\ files \in [1..Len(files) -> CacheEntries]
  BY LenProperties DEF Caches
<1>2. Cached(n) \in SUBSET Nat
  BY <1>1 DEF Cached
<1> QED BY <1>1, <1>2, LeastIsMember DEF Cached

(* What forgetting a name does to the cache. *)
LEMMA ForgetFacts ==
  ASSUME NEW n, files \in Caches
  PROVE  /\ Forget(n) \in Caches /\ Len(Forget(n)) = Len(files)
         /\ Cached(n) = {} => Forget(n) = files
         /\ Cached(n) # {} =>
              /\ Least(Cached(n)) \in 1..Len(files)
              /\ ~Forget(n)[Least(Cached(n))].used
              /\ \A k \in 1..Len(files) : k # Least(Cached(n)) => Forget(n)[k] = files[k]
<1> DEFINE k0 == Least(Cached(n))
<1>1. CASE Cached(n) = {}
  BY <1>1 DEF Forget
<1>2. CASE Cached(n) # {}
  <2>1. k0 \in 1..Len(files) /\ Len(files) \in Nat /\ files \in [1..Len(files) -> CacheEntries]
    BY <1>2, CachedFacts
  <2>2. Forget(n) = [files EXCEPT ![k0] = [files[k0] EXCEPT !.used = FALSE]]
    BY <1>2 DEF Forget
  <2> HIDE DEF k0
  <2> DEFINE r == [files[k0] EXCEPT !.used = FALSE]
  <2>3. r \in CacheEntries /\ ~r.used
    BY <2>1 DEF CacheEntries
  <2> HIDE DEF r
  <2>4. files \in Seq(CacheEntries) /\ Len(files) <= FAT16_MAX_FILES
    BY DEF Caches
  <2>5. /\ [files EXCEPT ![k0] = r] \in Seq(CacheEntries)
        /\ Len([files EXCEPT ![k0] = r]) = Len(files)
        /\ [files EXCEPT ![k0] = r][k0] = r
        /\ \A k \in 1..Len(files) : k # k0 => [files EXCEPT ![k0] = r][k] = files[k]
    BY <2>1, <2>3, <2>4, ExceptSeq
  <2>6. Forget(n) = [files EXCEPT ![k0] = r]
    BY <2>2 DEF r
  <2> QED BY <1>2, <2>1, <2>3, <2>4, <2>5, <2>6 DEF Caches, k0
<1> QED BY <1>1, <1>2

LEMMA MarkErasedIs ==
  ASSUME TypeOK, StepInv, MarkErased
  PROVE  /\ pc = "mark" /\ UNCHANGED <<fat, resets>>
         /\ \E ok \in BOOLEAN :
              /\ Ata(ok)
              /\ dir' = IF ok THEN [dir EXCEPT ![Least(Matches(call.name))] = Erased] ELSE dir
              /\ files' = IF ok THEN Forget(call.name) ELSE files
         /\ dir' \in [Entries -> DirEntries] /\ files' \in Caches /\ faults' \in Nat
         /\ \/ pc' = "idle" /\ call' \in Calls
            \/ pc' = "alloc" /\ call' = call
<1>1. pc = "mark" /\ UNCHANGED <<fat, resets>>
  BY DEF MarkErased
<1>2. /\ dir \in [Entries -> DirEntries] /\ files \in Caches /\ call \in Calls
      /\ faults \in Nat
  BY TypeIs
<1>3. PICK ok \in BOOLEAN :
        /\ Ata(ok)
        /\ dir' = IF ok THEN [dir EXCEPT ![Least(Matches(call.name))] = Erased] ELSE dir
        /\ files' = IF ok THEN Forget(call.name) ELSE files
        /\ IF call.op = "delete" THEN Return(IF ok THEN 0 ELSE -1)
           ELSE pc' = "alloc" /\ UNCHANGED <<call, reply>>
  BY DEF MarkErased
<1>4. dir' \in [Entries -> DirEntries]
  BY <1>2, <1>3, ErasedTyped
<1>5. files' \in Caches
  BY <1>2, <1>3, ForgetFacts
<1>6. faults' \in Nat
  BY <1>2, <1>3, AtaFacts
<1>7. \/ pc' = "idle" /\ call' \in Calls
      \/ pc' = "alloc" /\ call' = call
  BY <1>2, <1>3, ReturnFacts
<1> QED BY <1>1, <1>3, <1>4, <1>5, <1>6, <1>7

LEMMA AllocateFirstIs ==
  ASSUME TypeOK, StepInv, AllocateFirst
  PROVE  /\ pc = "alloc" /\ UNCHANGED <<dir, files, resets>> /\ faults' \in Nat
         /\ faults # 0 => faults' # 0
         /\ \/ /\ \E c \in Clusters :
                    /\ fat[c] = FreeEntry /\ fat' = [fat EXCEPT ![c] = EofMark]
                    /\ fat' \in [Clusters -> FatValues]
                    /\ call' = [call EXCEPT !.first = c] /\ call'.first = c
               /\ call' \in Calls /\ call'.name = call.name /\ pc' = "data"
            \/ /\ fat' = fat /\ call.size = 0 /\ pc' = "enter" /\ call' = call
            \/ /\ fat' = fat /\ pc' = "idle" /\ call' \in Calls
<1> DEFINE c == Least(FreeClusters)
<1>1. pc = "alloc" /\ UNCHANGED <<dir, files, resets>>
  BY DEF AllocateFirst
<1>2. /\ fat \in [Clusters -> FatValues] /\ call \in Calls /\ faults \in Nat
      /\ call.size \in Nat
  BY TypeIs DEF Calls
<1>3. PICK ok \in BOOLEAN :
        /\ Ata(ok)
        /\ IF FreeClusters # {} /\ ok
           THEN /\ fat' = [fat EXCEPT ![c] = EofMark]
                /\ call' = [call EXCEPT !.first = c]
                /\ pc' = "data" /\ UNCHANGED reply
           ELSE /\ UNCHANGED fat
                /\ IF call.size > 0 THEN Return(-1)
                   ELSE pc' = "enter" /\ UNCHANGED <<call, reply>>
  BY DEF AllocateFirst
<1>4. faults' \in Nat /\ (faults # 0 => faults' # 0)
  BY <1>2, <1>3, AtaFacts
<1>5. CASE FreeClusters # {} /\ ok
  <2>1. FreeClusters \in SUBSET Nat
    BY ClusterFacts DEF FreeClusters
  <2>2. c \in FreeClusters
    BY <1>5, <2>1, LeastIsMember
  <2>3. c \in Clusters /\ fat[c] = FreeEntry
    BY <2>2 DEF FreeClusters
  <2>4. /\ fat' = [fat EXCEPT ![c] = EofMark] /\ call' = [call EXCEPT !.first = c]
        /\ pc' = "data"
    BY <1>3, <1>5
  <2> HIDE DEF c
  <2>5. fat' \in [Clusters -> FatValues]
    BY <1>2, <2>3, <2>4, NoCallTyped
  <2>6. call' \in Calls /\ call'.name = call.name /\ call'.first = c
    BY <1>2, <2>3, <2>4, NoCallTyped DEF Calls
  <2> QED BY <1>1, <1>4, <2>3, <2>4, <2>5, <2>6
<1>6. CASE ~(FreeClusters # {} /\ ok)
  <2>1. fat' = fat /\ IF call.size > 0 THEN Return(-1) ELSE pc' = "enter" /\ call' = call
    BY <1>3, <1>6
  <2>2. CASE call.size > 0
    BY <1>1, <1>2, <1>4, <2>1, <2>2, ReturnFacts
  <2>3. CASE ~(call.size > 0)
    BY <1>1, <1>2, <1>4, <2>1, <2>3
  <2> QED BY <2>2, <2>3
<1> QED BY <1>5, <1>6

LEMMA WriteDataIs ==
  ASSUME TypeOK, WriteData
  PROVE  /\ pc = "data" /\ UNCHANGED <<fat, dir, files, faults, resets>>
         /\ \/ /\ call.first \in Clusters /\ pc' = "free" /\ call' \in Calls
               /\ call'.walk = call.first /\ call'.after = "fail"
            \/ /\ pc' = "idle" /\ call' \in Calls
            \/ /\ pc' = "enter" /\ call' = call /\ call.size = 0
<1>1. call \in Calls /\ call.first \in Starts /\ call.size \in Nat
  BY TypeIs DEF Calls
<1>2. pc = "data" /\ UNCHANGED <<fat, dir, files, faults, resets>>
  BY DEF WriteData
<1>3. CASE WriteClusterFails(call.size) /\ InChain(call.first)
  <2>1. call.first \in Clusters
    BY <1>1, <1>3, InChainStarts
  <2>2. pc' = "free" /\ call' = [call EXCEPT !.walk = call.first, !.after = "fail"]
    BY <1>3 DEF WriteData
  <2>3. call' \in Calls /\ call'.walk = call.first /\ call'.after = "fail"
    BY <1>1, <2>2 DEF Calls
  <2> QED BY <1>2, <2>1, <2>2, <2>3
<1>4. CASE WriteClusterFails(call.size) /\ ~InChain(call.first)
  <2>1. Return(-1)
    BY <1>4 DEF WriteData
  <2> QED BY <1>1, <1>2, <2>1, ReturnFacts
<1>5. CASE ~WriteClusterFails(call.size)
  <2>1. pc' = "enter" /\ call' = call
    BY <1>5 DEF WriteData
  <2>2. call.size = 0
    BY <1>1, <1>5 DEF WriteClusterFails
  <2> QED BY <1>2, <2>1, <2>2
<1> QED BY <1>3, <1>4, <1>5

(* The new entry of a file, and what the cache keeps of it. *)
NewEntry == [mark |-> "live", name |-> Parse[call.name], label |-> FALSE,
             first |-> call.first, size |-> call.size]

LEMMA NewEntryFacts ==
  ASSUME call \in Calls
  PROVE  /\ NewEntry \in DirEntries /\ Listed(NewEntry) /\ NewEntry.mark = "live"
         /\ NewEntry.name = Parse[call.name] /\ NewEntry.first = call.first
         /\ NewEntry.size = call.size
         /\ CacheOf(NewEntry) = [name |-> Keep[call.name], size |-> call.size,
                                 first |-> call.first, used |-> TRUE]
         /\ CacheOf(NewEntry) \in CacheEntries /\ CacheOf(NewEntry).used
         /\ CacheOf(NewEntry).name = Fold[call.name]
<1>1. call.name \in Names /\ call.first \in Starts /\ call.size \in Nat
  BY DEF Calls
<1>2. Parse[call.name] \in DOMAIN Unparse
  BY <1>1, NameAssumption
<1>3. NewEntry \in DirEntries
  BY <1>1, <1>2 DEF NewEntry, DirEntries
<1>4. /\ Keep[call.name] = Unparse[Parse[call.name]]
      /\ Fold[call.name] = Unparse[Parse[call.name]]
  BY <1>1, NameAssumption
<1>5. CacheOf(NewEntry) \in CacheEntries
  BY <1>3, CacheOfTyped
<1> QED BY <1>3, <1>4, <1>5 DEF NewEntry, CacheOf, Listed

LEMMA EnterFileIs ==
  ASSUME TypeOK, EnterFile
  PROVE  /\ pc = "enter" /\ pc' = "idle" /\ UNCHANGED <<fat, resets>>
         /\ faults' \in Nat /\ (faults # 0 => faults' # 0) /\ call' \in Calls
         /\ dir' \in [Entries -> DirEntries] /\ files' \in Caches
         /\ \/ /\ \E i \in Entries : dir[i].mark # "live" /\ dir' = [dir EXCEPT ![i] = NewEntry]
               /\ \/ files' = files
                  \/ files' = Append(files, CacheOf(NewEntry))
            \/ dir' = dir /\ files' = files
<1> DEFINE i == Least(Vacant)
<1>1. pc = "enter" /\ UNCHANGED <<fat, resets>>
  BY DEF EnterFile
<1>2. /\ dir \in [Entries -> DirEntries] /\ files \in Caches /\ call \in Calls
      /\ faults \in Nat
  BY TypeIs
<1>3. PICK ok \in BOOLEAN :
        /\ Ata(ok)
        /\ IF Vacant # {} /\ ok
           THEN /\ dir' = [dir EXCEPT ![i] = NewEntry]
                /\ files' = Remember(call.name, call.size, call.first)
                /\ Return(call.size)
           ELSE UNCHANGED <<dir, files>> /\ Return(-1)
  BY DEF EnterFile, NewEntry
<1>4. faults' \in Nat /\ (faults # 0 => faults' # 0)
  BY <1>2, <1>3, AtaFacts
<1>5. pc' = "idle" /\ call' \in Calls
  BY <1>2, <1>3, ReturnFacts
<1>6. CASE Vacant # {} /\ ok
  <2>1. Vacant \in SUBSET Nat
    BY NoCallTyped DEF Vacant
  <2>2. i \in Vacant
    BY <1>6, <2>1, LeastIsMember
  <2>3. i \in Entries /\ dir[i].mark # "live"
    BY <2>2 DEF Vacant
  <2>4. dir' = [dir EXCEPT ![i] = NewEntry] /\ files' = Remember(call.name, call.size, call.first)
    BY <1>3, <1>6
  <2> HIDE DEF i
  <2>5. NewEntry \in DirEntries /\ CacheOf(NewEntry) \in CacheEntries
    BY <1>2, NewEntryFacts
  <2>6. dir' \in [Entries -> DirEntries]
    BY <1>2, <2>3, <2>4, <2>5
  <2>7. \/ files' = files
        \/ files' = Append(files, CacheOf(NewEntry)) /\ ~(Len(files) >= FAT16_MAX_FILES)
    <3>1. CacheOf(NewEntry) = [name |-> Keep[call.name], size |-> call.size,
                               first |-> call.first, used |-> TRUE]
      BY <1>2, NewEntryFacts
    <3> QED BY <2>4, <3>1 DEF Remember
  <2>8. files' \in Caches
    <3>1. files \in Seq(CacheEntries) /\ Len(files) \in Nat
      BY <1>2, LenProperties DEF Caches
    <3>2. /\ Append(files, CacheOf(NewEntry)) \in Seq(CacheEntries)
          /\ Len(Append(files, CacheOf(NewEntry))) = Len(files) + 1
      BY <2>5, <3>1, AppendProperties
    <3>3. ~(Len(files) >= FAT16_MAX_FILES) => Len(files) + 1 <= FAT16_MAX_FILES
      BY <3>1, VolumeAssumption
    <3> QED BY <1>2, <2>7, <3>2, <3>3 DEF Caches
  <2> QED BY <1>1, <1>4, <1>5, <2>3, <2>4, <2>6, <2>7, <2>8
<1>7. CASE ~(Vacant # {} /\ ok)
  BY <1>1, <1>2, <1>3, <1>4, <1>5, <1>7
<1> QED BY <1>6, <1>7

LEMMA TypeInit == Init => TypeOK /\ StepInv
<1> SUFFICES ASSUME Init PROVE TypeOK /\ StepInv
  OBVIOUS
<1>1. fat \in [Clusters -> FatValues] /\ dir \in [Entries -> DirEntries]
  BY ImageAssumption DEF Init
<1>2. files \in Caches
  BY VolumeAssumption DEF Init, Caches
<1>3. call \in Calls
  BY NoCallTyped DEF Init
<1>4. TypeOK
  BY <1>1, <1>2, <1>3, TypeIs DEF Init, Pcs
<1>5. StepInv
  BY DEF Init, StepInv, Removing
<1> QED BY <1>4, <1>5

LEMMA TypeStep ==
  ASSUME TypeOK, StepInv, Next
  PROVE  TypeOK' /\ StepInv'
<1>1. /\ fat \in [Clusters -> FatValues] /\ dir \in [Entries -> DirEntries]
      /\ files \in Caches /\ pc \in Pcs /\ call \in Calls
      /\ faults \in Nat /\ resets \in Nat
  BY TypeIs
<1>2. CASE Mount
  <2>1. /\ pc' = "idle" /\ files' = ScanRoot(dir)
        /\ UNCHANGED <<fat, dir, call, faults, resets>>
    BY <1>2 DEF Mount
  <2>2. files' \in Caches
    BY <1>1, <2>1, ScanFacts
  <2> QED BY <1>1, <2>1, <2>2, TypeIsNext DEF Pcs, StepInv, Removing
<1>3. CASE Reset
  <2>1. /\ pc' = "off" /\ files' = << >> /\ call' = NoCall /\ resets' = resets + 1
        /\ UNCHANGED <<fat, dir, faults>>
    BY <1>3 DEF Reset
  <2>2. files' \in Caches
    BY <2>1, VolumeAssumption DEF Caches
  <2> QED BY <1>1, <2>1, <2>2, NoCallTyped, TypeIsNext DEF Pcs, StepInv, Removing
<1>4. ASSUME NEW op \in {"delete", "write"}, NEW n \in Names, NEW size \in Nat,
             Delete(op, n, size)
      PROVE  TypeOK' /\ StepInv'
  <2>1. /\ pc = "idle" /\ UNCHANGED <<fat, dir, files, faults, resets>>
        /\ call' \in Calls /\ call'.name = n /\ call'.first = NoCluster
        /\ \/ /\ Matches(n) = {} /\ pc' \in {"idle", "alloc"}
           \/ /\ Matches(n) # {} /\ call'.after = "mark"
              /\ \/ pc' = "free" /\ call'.walk \in Clusters
                 \/ pc' = "mark"
    BY <1>4, DeleteIs
  <2>2. TypeOK'
    BY <1>1, <2>1, TypeIsNext DEF Pcs
  <2>3. Matches(call.name)' = Matches(n)
    BY <2>1 DEF Matches
  <2>4. StepInv'
    BY <2>1, <2>3 DEF StepInv, Removing
  <2> QED BY <2>2, <2>4
<1>5. CASE FreeCluster
  <2>1. /\ pc = "free" /\ call.walk \in Clusters /\ UNCHANGED <<dir, files, resets>>
        /\ fat' \in [Clusters -> FatValues] /\ faults' \in Nat
        /\ \/ /\ fat[call.walk] \in Clusters /\ pc' = "free" /\ call' \in Calls
              /\ call' = [call EXCEPT !.walk = fat[call.walk]]
           \/ call.after = "mark" /\ pc' = "mark" /\ call' = call
           \/ call.after = "fail" /\ pc' = "idle" /\ call' \in Calls
    BY <1>5, FreeClusterIs
  <2>2. TypeOK'
    BY <1>1, <2>1, TypeIsNext DEF Pcs
  <2>3. CASE fat[call.walk] \in Clusters /\ call' = [call EXCEPT !.walk = fat[call.walk]]
             /\ pc' = "free"
    <3>1. /\ call'.walk \in Clusters /\ call'.after = call.after /\ call'.name = call.name
          /\ call'.first = call.first
      BY <1>1, <2>3 DEF Calls
    <3>2. Matches(call.name)' = Matches(call.name)
      BY <2>1, <3>1 DEF Matches
    <3> QED BY <2>1, <2>2, <2>3, <3>1, <3>2 DEF StepInv, Removing
  <2>4. CASE call.after = "mark" /\ pc' = "mark" /\ call' = call
    <3>1. Matches(call.name)' = Matches(call.name)
      BY <2>1, <2>4 DEF Matches
    <3> QED BY <2>1, <2>2, <2>4, <3>1 DEF StepInv, Removing
  <2>5. CASE pc' = "idle"
    BY <2>2, <2>5 DEF StepInv, Removing
  <2> QED BY <2>1, <2>3, <2>4, <2>5
<1>6. CASE MarkErased
  <2>1. /\ pc = "mark" /\ UNCHANGED <<fat, resets>>
        /\ dir' \in [Entries -> DirEntries] /\ files' \in Caches /\ faults' \in Nat
        /\ \/ pc' = "idle" /\ call' \in Calls
           \/ pc' = "alloc" /\ call' = call
    BY <1>6, MarkErasedIs
  <2>2. TypeOK'
    BY <1>1, <2>1, TypeIsNext DEF Pcs
  <2> QED BY <2>1, <2>2 DEF StepInv, Removing
<1>7. CASE AllocateFirst
  <2>1. /\ pc = "alloc" /\ UNCHANGED <<dir, files, resets>> /\ faults' \in Nat
        /\ \/ fat' \in [Clusters -> FatValues] /\ call' \in Calls /\ pc' = "data"
           \/ fat' = fat /\ call.size = 0 /\ pc' = "enter" /\ call' = call
           \/ fat' = fat /\ pc' = "idle" /\ call' \in Calls
    BY <1>7, AllocateFirstIs
  <2>2. TypeOK'
    BY <1>1, <2>1, TypeIsNext DEF Pcs
  <2> QED BY <2>1, <2>2 DEF StepInv, Removing
<1>8. CASE WriteData
  <2>1. /\ pc = "data" /\ UNCHANGED <<fat, dir, files, faults, resets>>
        /\ \/ /\ call.first \in Clusters /\ pc' = "free" /\ call' \in Calls
              /\ call'.walk = call.first /\ call'.after = "fail"
           \/ /\ pc' = "idle" /\ call' \in Calls
           \/ /\ pc' = "enter" /\ call' = call /\ call.size = 0
    BY <1>8, WriteDataIs
  <2>2. TypeOK'
    BY <1>1, <2>1, TypeIsNext DEF Pcs
  <2> QED BY <2>1, <2>2 DEF StepInv, Removing
<1>9. CASE EnterFile
  <2>1. /\ pc' = "idle" /\ UNCHANGED <<fat, resets>>
        /\ faults' \in Nat /\ call' \in Calls
        /\ dir' \in [Entries -> DirEntries] /\ files' \in Caches
    BY <1>9, EnterFileIs
  <2>2. TypeOK'
    BY <1>1, <2>1, TypeIsNext DEF Pcs
  <2> QED BY <2>1, <2>2 DEF StepInv, Removing
<1>10. ASSUME NEW n \in Names, DeleteFile(n) \/ \E size \in Sizes : WriteFile(n, size)
       PROVE  TypeOK' /\ StepInv'
  BY <1>4, <1>10, NameAssumption DEF DeleteFile, WriteFile
<1> QED BY <1>2, <1>3, <1>5, <1>6, <1>7, <1>8, <1>9, <1>10 DEF Next

-----------------------------------------------------------------------------
(* Counting the entries of a name. *)
LEMMA CountsFinite ==
  ASSUME NEW fs \in Caches, NEW d, NEW N
  PROVE  /\ IsFiniteSet(InCache(fs, N)) /\ Cardinality(InCache(fs, N)) \in Nat
         /\ IsFiniteSet(InDir(d, N)) /\ Cardinality(InDir(d, N)) \in Nat
<1>1. Len(fs) \in Nat /\ RootEntries \in Nat
  BY LenProperties, VolumeAssumption DEF Caches
<1>2. IsFiniteSet(1..Len(fs)) /\ IsFiniteSet(1..RootEntries)
  BY <1>1, FS_Interval
<1>3. InCache(fs, N) \in SUBSET (1..Len(fs)) /\ InDir(d, N) \in SUBSET (1..RootEntries)
  BY DEF InCache, InDir, Entries
<1>4. IsFiniteSet(InCache(fs, N)) /\ IsFiniteSet(InDir(d, N))
  BY <1>2, <1>3, FS_Subset
<1> QED BY <1>4, FS_CardinalityType

LEMMA CountAfterMount ==
  ASSUME NEW d, NEW fs \in Caches, NEW g, Mirrors(g, fs, d, RootEntries), NEW N
  PROVE  Cardinality(InCache(fs, N)) <= Cardinality(InDir(d, N))
<1> DEFINE h == [k \in InCache(fs, N) |-> g[k]]
<1>1. \A k \in InCache(fs, N) : k \in 1..Len(fs) /\ fs[k].name = N
  BY DEF InCache
<1>2. ASSUME NEW k \in InCache(fs, N) PROVE g[k] \in InDir(d, N)
  <2>1. g[k] \in 1..RootEntries /\ Listed(d[g[k]]) /\ fs[k] = CacheOf(d[g[k]])
    BY <1>1 DEF Mirrors
  <2>2. Unparse[d[g[k]].name] = N
    BY <1>1, <2>1 DEF CacheOf
  <2> QED BY <2>1, <2>2 DEF InDir, Entries
<1>3. h \in [InCache(fs, N) -> InDir(d, N)]
  BY <1>2
<1>4. \A k, l \in InCache(fs, N) : h[k] = h[l] => k = l
  BY <1>1 DEF Mirrors
<1>5. h \in Injection(InCache(fs, N), InDir(d, N))
  BY <1>3, <1>4 DEF Injection, IsInjective
<1> QED BY <1>5, CountsFinite, FS_Injection

LEMMA CountAfterErase ==
  ASSUME TypeOK, CountInv, NEW n \in Names, Matches(n) # {}, NEW N \in Spellings
  PROVE  Cardinality(InCache(Forget(n), N))
           <= Cardinality(InDir([dir EXCEPT ![Least(Matches(n))] = Erased], N))
<1> DEFINE i == Least(Matches(n))  d == [dir EXCEPT ![i] = Erased]  fs == Forget(n)
           k0 == Least(Cached(n))
<1>1. dir \in [Entries -> DirEntries] /\ files \in Caches
  BY TypeIs
<1>2. i \in Entries /\ dir[i].name = Parse[n]
  BY MatchesFacts
<1>3. Fold[n] = Unparse[Parse[n]]
  BY NameAssumption
<1>4. /\ d[i] = Erased /\ \A j \in Entries : j # i => d[j] = dir[j]
  BY <1>1, <1>2
<1>5. /\ fs \in Caches /\ Len(fs) = Len(files) /\ (Cached(n) = {} => fs = files)
      /\ Cached(n) # {} => /\ k0 \in 1..Len(files) /\ ~fs[k0].used
                           /\ \A k \in 1..Len(files) : k # k0 => fs[k] = files[k]
  BY <1>1, ForgetFacts
<1>6. /\ Cached(n) = InCache(files, Fold[n])
      /\ Cached(n) # {} => k0 \in Cached(n)
  BY <1>1, CachedFacts DEF InCache
<1> HIDE DEF i, d, fs, k0
<1>7. Cardinality(InCache(files, N)) <= Cardinality(InDir(dir, N))
  BY DEF CountInv
<1>8. /\ IsFiniteSet(InCache(files, N)) /\ Cardinality(InCache(files, N)) \in Nat
      /\ IsFiniteSet(InDir(dir, N)) /\ Cardinality(InDir(dir, N)) \in Nat
      /\ IsFiniteSet(InCache(fs, N)) /\ Cardinality(InCache(fs, N)) \in Nat
      /\ IsFiniteSet(InDir(d, N)) /\ Cardinality(InDir(d, N)) \in Nat
  BY <1>1, <1>5, CountsFinite
<1>9. CASE N # Fold[n]
  <2>1. InDir(d, N) = InDir(dir, N)
    <3>1. i \notin InDir(d, N) /\ i \notin InDir(dir, N)
      BY <1>2, <1>3, <1>4, <1>9, ErasedTyped DEF InDir
    <3> QED BY <1>4, <3>1 DEF InDir
  <2>2. InCache(fs, N) = InCache(files, N)
    <3>1. CASE Cached(n) = {}
      BY <1>5, <3>1
    <3>2. CASE Cached(n) # {}
      <4>1. k0 \notin InCache(fs, N) /\ k0 \notin InCache(files, N)
        BY <1>5, <1>6, <1>9, <3>2 DEF InCache
      <4> QED BY <1>5, <3>2, <4>1 DEF InCache
    <3> QED BY <3>1, <3>2
  <2> QED BY <1>7, <2>1, <2>2 DEF d, fs, i
<1>10. CASE N = Fold[n]
  <2>1. CASE Cached(n) = {}
    <3>1. InCache(fs, N) = {}
      BY <1>5, <1>6, <1>10, <2>1
    <3>2. Cardinality(InCache(fs, N)) = 0
      BY <3>1, FS_EmptySet
    <3> QED BY <1>8, <3>2 DEF d, fs, i
  <2>2. CASE Cached(n) # {}
    <3>1. InCache(fs, N) = InCache(files, N) \ {k0} /\ k0 \in InCache(files, N)
      <4>1. k0 \in InCache(files, N) /\ k0 \notin InCache(fs, N)
        BY <1>5, <1>6, <1>10, <2>2 DEF InCache
      <4> QED BY <1>5, <2>2, <4>1 DEF InCache
    <3>2. Cardinality(InCache(fs, N)) = Cardinality(InCache(files, N)) - 1
      BY <1>8, <3>1, FS_RemoveElement
    <3>3. InDir(dir, N) \ {i} \in SUBSET InDir(d, N)
      BY <1>4 DEF InDir
    <3>4. Cardinality(InDir(dir, N) \ {i}) <= Cardinality(InDir(d, N))
      BY <1>8, <3>3, FS_Subset
    <3>5. /\ Cardinality(InDir(dir, N) \ {i})
             = IF i \in InDir(dir, N) THEN Cardinality(InDir(dir, N)) - 1
               ELSE Cardinality(InDir(dir, N))
      BY <1>8, FS_RemoveElement
    <3>6. Cardinality(InCache(fs, N)) <= Cardinality(InDir(d, N))
      BY <1>7, <1>8, <3>2, <3>4, <3>5
    <3> QED BY <3>6 DEF d, fs, i
  <2> QED BY <2>1, <2>2
<1> QED BY <1>9, <1>10

LEMMA CountAfterEnter ==
  ASSUME TypeOK, CountInv, NEW i \in Entries, dir[i].mark # "live", NEW N \in Spellings,
         NEW fs \in Caches, fs = files \/ fs = Append(files, CacheOf(NewEntry))
  PROVE  Cardinality(InCache(fs, N)) <= Cardinality(InDir([dir EXCEPT ![i] = NewEntry], N))
<1> DEFINE d == [dir EXCEPT ![i] = NewEntry]  n == call.name  k0 == Len(files) + 1
<1>1. /\ dir \in [Entries -> DirEntries] /\ files \in Caches /\ call \in Calls
  BY TypeIs
<1>2. n \in Names /\ Fold[n] = Unparse[Parse[n]]
  BY <1>1, NameAssumption DEF Calls
<1>3. /\ d[i] = NewEntry /\ \A j \in Entries : j # i => d[j] = dir[j]
  BY <1>1
<1>4. /\ Listed(NewEntry) /\ NewEntry.name = Parse[n]
      /\ CacheOf(NewEntry) \in CacheEntries /\ CacheOf(NewEntry).name = Fold[n]
  BY <1>1, NewEntryFacts
<1>5. files \in Seq(CacheEntries) /\ Len(files) \in Nat
  BY <1>1, LenProperties DEF Caches
<1>6. fs # files => /\ Len(fs) = k0 /\ fs[k0].name = Fold[n]
                    /\ \A k \in 1..Len(files) : fs[k] = files[k]
  BY <1>4, <1>5, AppendProperties
<1>7. \A k \in 1..k0 : k # k0 => k \in 1..Len(files)
  BY <1>5
<1> HIDE DEF d, n, k0
<1>8. Cardinality(InCache(files, N)) <= Cardinality(InDir(dir, N))
  BY DEF CountInv
<1>9. /\ IsFiniteSet(InCache(files, N)) /\ Cardinality(InCache(files, N)) \in Nat
      /\ IsFiniteSet(InDir(dir, N)) /\ Cardinality(InDir(dir, N)) \in Nat
      /\ Cardinality(InCache(fs, N)) \in Nat
  BY <1>1, CountsFinite
<1>10. i \notin InDir(dir, N)
  BY DEF InDir, Listed
<1>11. CASE N # Fold[n]
  <2>1. InDir(d, N) = InDir(dir, N)
    <3>1. i \notin InDir(d, N)
      BY <1>2, <1>3, <1>4, <1>11 DEF InDir
    <3> QED BY <1>3, <1>10, <3>1 DEF InDir
  <2>2. InCache(fs, N) = InCache(files, N)
    <3>1. CASE fs # files
      <4>1. \A k \in InCache(fs, N) : k \in 1..Len(files)
        BY <1>6, <1>7, <1>11, <3>1 DEF InCache
      <4>2. 1..Len(files) \subseteq 1..Len(fs)
        BY <1>5, <1>6, <3>1 DEF k0
      <4> QED BY <1>6, <3>1, <4>1, <4>2 DEF InCache
    <3> QED BY <3>1
  <2> QED BY <1>8, <2>1, <2>2 DEF d
<1>12. CASE N = Fold[n]
  <2>1. InDir(d, N) = InDir(dir, N) \cup {i}
    <3>1. i \in InDir(d, N)
      BY <1>2, <1>3, <1>4, <1>12 DEF InDir
    <3> QED BY <1>3, <3>1 DEF InDir
  <2>2. Cardinality(InDir(d, N)) = Cardinality(InDir(dir, N)) + 1
    BY <1>9, <1>10, <2>1, FS_AddElement
  <2>3. InCache(fs, N) \in SUBSET (InCache(files, N) \cup {k0})
    <3>1. ASSUME NEW k \in InCache(fs, N), fs # files, k # k0 PROVE k \in InCache(files, N)
      <4>1. k \in 1..Len(files)
        BY <1>6, <1>7, <3>1 DEF InCache
      <4> QED BY <1>6, <3>1, <4>1 DEF InCache
    <3> QED BY <3>1
  <2>4. /\ IsFiniteSet(InCache(files, N) \cup {k0})
        /\ Cardinality(InCache(files, N) \cup {k0})
           = IF k0 \in InCache(files, N) THEN Cardinality(InCache(files, N))
             ELSE Cardinality(InCache(files, N)) + 1
    BY <1>9, FS_AddElement
  <2>5. Cardinality(InCache(fs, N)) <= Cardinality(InCache(files, N) \cup {k0})
    BY <2>3, <2>4, FS_Subset
  <2>6. Cardinality(InCache(fs, N)) <= Cardinality(InDir(d, N))
    BY <1>8, <1>9, <2>2, <2>4, <2>5
  <2> QED BY <2>6 DEF d
<1> QED BY <1>11, <1>12

LEMMA CountSame ==
  ASSUME CountInv, dir' = dir, files' = files
  PROVE  CountInv'
BY DEF CountInv

LEMMA CountEmpty ==
  ASSUME NEW d, NEW N
  PROVE  Cardinality(InCache(<< >>, N)) <= Cardinality(InDir(d, N))
<1>1. << >> \in Caches
  BY VolumeAssumption DEF Caches
<1>2. InCache(<< >>, N) = {}
  BY DEF InCache
<1>3. Cardinality(InDir(d, N)) \in Nat
  BY <1>1, CountsFinite
<1>4. Cardinality(InCache(<< >>, N)) = 0
  BY <1>2, FS_EmptySet
<1> QED BY <1>3, <1>4

LEMMA CountInit == Init => CountInv
BY CountEmpty DEF Init, CountInv

LEMMA CountStep ==
  ASSUME TypeOK, StepInv, CountInv, Next
  PROVE  CountInv'
<1>1. dir \in [Entries -> DirEntries] /\ files \in Caches /\ call.name \in Names
  BY TypeIs DEF Calls
<1>2. CASE Mount
  <2>1. dir' = dir /\ files' = ScanRoot(dir)
    BY <1>2 DEF Mount
  <2>2. PICK fs : fs = ScanRoot(dir)
    OBVIOUS
  <2>3. fs \in Caches /\ \E g : Mirrors(g, fs, dir, RootEntries)
    BY <1>1, <2>2, ScanFacts
  <2>4. \A N : Cardinality(InCache(fs, N)) <= Cardinality(InDir(dir, N))
    BY <2>3, CountAfterMount
  <2> QED BY <2>1, <2>2, <2>4 DEF CountInv
<1>3. CASE Reset
  <2>1. dir' = dir /\ files' = << >>
    BY <1>3 DEF Reset
  <2> QED BY <2>1, CountEmpty DEF CountInv
<1>4. ASSUME NEW n \in Names, DeleteFile(n) \/ \E size \in Sizes : WriteFile(n, size)
      PROVE  CountInv'
  <2>1. dir' = dir /\ files' = files
    BY <1>4 DEF DeleteFile, WriteFile, Delete
  <2> QED BY <2>1, CountSame, SMTT(60)
<1>5. CASE FreeCluster
  BY <1>5, CountSame DEF FreeCluster
<1>6. CASE MarkErased
  <2>1. Matches(call.name) # {}
    BY <1>6 DEF MarkErased, StepInv, Removing
  <2>2. PICK ok \in BOOLEAN :
          /\ dir' = IF ok THEN [dir EXCEPT ![Least(Matches(call.name))] = Erased] ELSE dir
          /\ files' = IF ok THEN Forget(call.name) ELSE files
    BY <1>6, MarkErasedIs
  <2>3. CASE ok
    <3>1. \A N \in Spellings :
            Cardinality(InCache(Forget(call.name), N)) <=
              Cardinality(InDir([dir EXCEPT ![Least(Matches(call.name))] = Erased], N))
      BY <1>1, <2>1, CountAfterErase
    <3> QED BY <2>2, <2>3, <3>1 DEF CountInv
  <2>4. CASE ~ok
    BY <2>2, <2>4, CountSame
  <2> QED BY <2>3, <2>4
<1>7. CASE AllocateFirst
  BY <1>7, CountSame DEF AllocateFirst
<1>8. CASE WriteData
  BY <1>8, CountSame DEF WriteData
<1>9. CASE EnterFile
  <2>1. /\ files' \in Caches
        /\ \/ /\ \E i \in Entries : dir[i].mark # "live" /\ dir' = [dir EXCEPT ![i] = NewEntry]
              /\ \/ files' = files
                 \/ files' = Append(files, CacheOf(NewEntry))
           \/ dir' = dir /\ files' = files
    BY <1>9, EnterFileIs
  <2>2. PICK fs : fs = files'
    OBVIOUS
  <2>3. ASSUME NEW i \in Entries, dir[i].mark # "live", dir' = [dir EXCEPT ![i] = NewEntry],
               fs = files \/ fs = Append(files, CacheOf(NewEntry))
        PROVE  CountInv'
    <3>1. \A N \in Spellings : Cardinality(InCache(fs, N)) <=
                                 Cardinality(InDir([dir EXCEPT ![i] = NewEntry], N))
      BY <2>1, <2>2, <2>3, CountAfterEnter
    <3> QED BY <2>2, <2>3, <3>1 DEF CountInv
  <2> QED BY <2>1, <2>2, <2>3, CountSame
<1> QED BY <1>2, <1>3, <1>4, <1>5, <1>6, <1>7, <1>8, <1>9 DEF Next

-----------------------------------------------------------------------------
(***************************************************************************)
(* The cache, as long as no write failed and no reset came.  Backed says   *)
(* that each used entry is that of a file in the directory d, Single that  *)
(* no two used entries have one name.                                      *)
(***************************************************************************)
Backed(fs, d) == \A k \in 1..Len(fs) : fs[k].used =>
                   \E i \in Entries : Listed(d[i]) /\ fs[k] = CacheOf(d[i])
Single(fs) == \A k, l \in 1..Len(fs) :
                (fs[k].used /\ fs[l].used /\ fs[k].name = fs[l].name) => k = l

LEMMA CacheInvIs ==
  CacheInv <=> (~Trouble => /\ Backed(files, dir) /\ Single(files)
                            /\ pc \in {"alloc", "data", "enter"} => Cached(call.name) = {}
                            /\ pc = "off" => UniqueNames(dir))
BY DEF CacheInv, Backed, Single

LEMMA CacheInvIsNext ==
  CacheInv' <=> (~Trouble' => /\ Backed(files', dir') /\ Single(files')
                              /\ pc' \in {"alloc", "data", "enter"} => Cached(call.name)' = {}
                              /\ pc' = "off" => UniqueNames(dir'))
BY DEF CacheInv, Backed, Single, UniqueNames

LEMMA CachedSame ==
  ASSUME files' = files, call'.name = call.name
  PROVE  Cached(call.name)' = Cached(call.name)
BY DEF Cached

(* A cached file of a name is an entry that fat16_delete_file finds. *)
LEMMA CachedIsMatched ==
  ASSUME TypeOK, Backed(files, dir), NEW n \in Names, NEW k \in Cached(n)
  PROVE  \E i \in Matches(n) : Listed(dir[i]) /\ files[k] = CacheOf(dir[i])
<1>1. dir \in [Entries -> DirEntries] /\ files \in Caches
  BY TypeIs
<1>2. k \in 1..Len(files) /\ files[k].used /\ files[k].name = Fold[n]
  BY <1>1, CachedFacts
<1>3. PICK i \in Entries : Listed(dir[i]) /\ files[k] = CacheOf(dir[i])
  BY <1>2 DEF Backed
<1>4. Unparse[dir[i].name] = Fold[n] /\ dir[i].name \in DOMAIN Unparse
  BY <1>1, <1>2, <1>3 DEF CacheOf, DirEntries
<1>5. dir[i].name = Parse[n]
  BY <1>4, NameAssumption
<1>6. i \in Matches(n)
  BY <1>3, <1>5 DEF Matches, Listed
<1> QED BY <1>3, <1>6

LEMMA MountBacks ==
  ASSUME NEW d, NEW fs \in Caches, NEW g, Mirrors(g, fs, d, RootEntries), UniqueNames(d)
  PROVE  Backed(fs, d) /\ Single(fs)
<1>1. \A k \in 1..Len(fs) : g[k] \in Entries /\ Listed(d[g[k]]) /\ fs[k] = CacheOf(d[g[k]])
  BY DEF Mirrors, Entries
<1>2. Backed(fs, d)
  BY <1>1 DEF Backed
<1>3. ASSUME NEW k \in 1..Len(fs), NEW l \in 1..Len(fs), fs[k].name = fs[l].name
      PROVE  k = l
  <2>1. fs[k] = CacheOf(d[g[k]]) /\ fs[l] = CacheOf(d[g[l]])
    BY <1>1
  <2>2. fs[k].name = Unparse[d[g[k]].name] /\ fs[l].name = Unparse[d[g[l]].name]
    BY <2>1 DEF CacheOf
  <2>3. Unparse[d[g[k]].name] = Unparse[d[g[l]].name]
    BY <1>3, <2>2
  <2>4. g[k] = g[l]
    BY <1>1, <2>3 DEF UniqueNames
  <2> QED BY <2>4 DEF Mirrors
<1>4. Single(fs)
  BY <1>3 DEF Single
<1> QED BY <1>2, <1>4

LEMMA EraseBacks ==
  ASSUME TypeOK, Backed(files, dir), Single(files), NEW n \in Names, Matches(n) # {}
  PROVE  /\ Backed(Forget(n), [dir EXCEPT ![Least(Matches(n))] = Erased])
         /\ Single(Forget(n))
         /\ \A k \in 1..Len(Forget(n)) : Forget(n)[k].used => Forget(n)[k].name # Fold[n]
<1> DEFINE i == Least(Matches(n))  d == [dir EXCEPT ![i] = Erased]  fs == Forget(n)
           k0 == Least(Cached(n))
<1>1. dir \in [Entries -> DirEntries] /\ files \in Caches
  BY TypeIs
<1>2. i \in Entries /\ dir[i].name = Parse[n]
  BY MatchesFacts
<1>3. Fold[n] = Unparse[Parse[n]]
  BY NameAssumption
<1>4. /\ d[i] = Erased /\ \A j \in Entries : j # i => d[j] = dir[j]
  BY <1>1, <1>2
<1>5. /\ fs \in Caches /\ Len(fs) = Len(files) /\ (Cached(n) = {} => fs = files)
      /\ Cached(n) # {} => /\ k0 \in 1..Len(files) /\ ~fs[k0].used
                           /\ \A k \in 1..Len(files) : k # k0 => fs[k] = files[k]
  BY <1>1, ForgetFacts
<1>6. /\ Cached(n) = {k \in 1..Len(files) : files[k].used /\ files[k].name = Fold[n]}
      /\ Cached(n) # {} => k0 \in Cached(n)
  BY <1>1, CachedFacts
<1> HIDE DEF i, d, fs, k0
<1>7. ASSUME NEW k \in 1..Len(fs), fs[k].used
      PROVE  fs[k] = files[k] /\ k \in 1..Len(files) /\ fs[k].name # Fold[n]
  <2>1. CASE Cached(n) = {}
    BY <1>5, <1>6, <1>7, <2>1
  <2>2. CASE Cached(n) # {}
    <3>1. k # k0 /\ fs[k] = files[k] /\ k \in 1..Len(files) /\ k0 \in 1..Len(files)
      BY <1>5, <1>7, <2>2
    <3>2. files[k0].used /\ files[k0].name = Fold[n] /\ files[k].used
      BY <1>6, <1>7, <2>2, <3>1
    <3>3. files[k].name # Fold[n]
      BY <3>1, <3>2 DEF Single
    <3> QED BY <3>1, <3>3
  <2> QED BY <2>1, <2>2
<1>8. ASSUME NEW k \in 1..Len(fs), fs[k].used
      PROVE  \E j \in Entries : Listed(d[j]) /\ fs[k] = CacheOf(d[j])
  <2>1. fs[k] = files[k] /\ k \in 1..Len(files) /\ fs[k].name # Fold[n]
    BY <1>7, <1>8
  <2>2. PICK j \in Entries : Listed(dir[j]) /\ files[k] = CacheOf(dir[j])
    BY <1>8, <2>1 DEF Backed
  <2>3. j # i
    BY <1>2, <1>3, <2>1, <2>2 DEF CacheOf
  <2> QED BY <1>4, <2>1, <2>2, <2>3
<1>9. Single(fs)
  BY <1>7 DEF Single
<1> QED BY <1>7, <1>8, <1>9 DEF Backed, d, fs, i

LEMMA EnterBacks ==
  ASSUME TypeOK, Backed(files, dir), Single(files), Cached(call.name) = {},
         NEW i \in Entries, dir[i].mark # "live", NEW fs,
         fs = files \/ fs = Append(files, CacheOf(NewEntry))
  PROVE  Backed(fs, [dir EXCEPT ![i] = NewEntry]) /\ Single(fs)
<1> DEFINE d == [dir EXCEPT ![i] = NewEntry]  k0 == Len(files) + 1
<1>1. /\ dir \in [Entries -> DirEntries] /\ files \in Caches /\ call \in Calls
  BY TypeIs
<1>2. /\ d[i] = NewEntry /\ \A j \in Entries : j # i => d[j] = dir[j]
  BY <1>1
<1>3. /\ Listed(NewEntry) /\ CacheOf(NewEntry) \in CacheEntries
      /\ CacheOf(NewEntry).name = Fold[call.name]
  BY <1>1, NewEntryFacts
<1>4. files \in Seq(CacheEntries) /\ Len(files) \in Nat
  BY <1>1, LenProperties DEF Caches
<1>5. fs # files => /\ Len(fs) = k0 /\ fs[k0] = CacheOf(NewEntry)
                    /\ \A k \in 1..Len(files) : fs[k] = files[k]
  BY <1>3, <1>4, AppendProperties
<1>6. \A k \in 1..k0 : k # k0 => k \in 1..Len(files)
  BY <1>4
<1>7. \A k \in 1..Len(files) : files[k].used => files[k].name # Fold[call.name]
  BY <1>1, CachedFacts
<1> HIDE DEF d, k0
<1>8. \A k \in 1..Len(fs) : \/ k \in 1..Len(files) /\ fs[k] = files[k]
                            \/ k = k0 /\ fs[k] = CacheOf(NewEntry)
  BY <1>5, <1>6
<1>9. ASSUME NEW k \in 1..Len(fs), fs[k].used
      PROVE  \E j \in Entries : Listed(d[j]) /\ fs[k] = CacheOf(d[j])
  <2>1. CASE k \in 1..Len(files) /\ fs[k] = files[k]
    <3>1. PICK j \in Entries : Listed(dir[j]) /\ files[k] = CacheOf(dir[j])
      BY <1>9, <2>1 DEF Backed
    <3>2. j # i
      BY <3>1 DEF Listed
    <3> QED BY <1>2, <2>1, <3>1, <3>2
  <2>2. CASE fs[k] = CacheOf(NewEntry)
    BY <1>2, <1>3, <2>2
  <2> QED BY <1>8, <2>1, <2>2
<1>10. ASSUME NEW k \in 1..Len(fs), NEW l \in 1..Len(fs),
              fs[k].used, fs[l].used, fs[k].name = fs[l].name
       PROVE  k = l
  <2>1. CASE k \in 1..Len(files) /\ fs[k] = files[k] /\ l \in 1..Len(files) /\ fs[l] = files[l]
    BY <1>10, <2>1 DEF Single
  <2>2. CASE k = k0 /\ l = k0
    BY <2>2
  <2>3. CASE fs[k] = CacheOf(NewEntry) /\ l \in 1..Len(files) /\ fs[l] = files[l]
    BY <1>3, <1>7, <1>10, <2>3
  <2>4. CASE fs[l] = CacheOf(NewEntry) /\ k \in 1..Len(files) /\ fs[k] = files[k]
    BY <1>3, <1>7, <1>10, <2>4
  <2> QED BY <1>8, <2>1, <2>2, <2>3, <2>4
<1> QED BY <1>9, <1>10 DEF Backed, Single, d

LEMMA CacheInit == Init => CacheInv
<1> SUFFICES ASSUME Init PROVE CacheInv
  OBVIOUS
<1>1. Backed(files, dir) /\ Single(files) /\ pc = "off"
  BY DEF Init, Backed, Single
<1>2. PICK im \in Images : dir = im.dir
  BY DEF Init
<1>3. UniqueNames(dir)
  BY <1>2, ImageAssumption DEF UniqueNames, Listed
<1> QED BY <1>1, <1>3, CacheInvIs

(* Trouble does not go away. *)
LEMMA TroubleStays ==
  ASSUME TypeOK, StepInv, Next, ~Trouble'
  PROVE  ~Trouble
<1>1. faults \in Nat /\ resets \in Nat
  BY TypeIs
<1>2. CASE Mount
  BY <1>2 DEF Mount, Trouble
<1>3. CASE Reset
  <2>1. resets' # 0
    BY <1>1, <1>3, SMTT(60) DEF Reset
  <2> QED BY <2>1 DEF Trouble
<1>4. ASSUME NEW n \in Names, DeleteFile(n) \/ \E size \in Sizes : WriteFile(n, size)
      PROVE  ~Trouble
  BY <1>4 DEF DeleteFile, WriteFile, Delete, Trouble
<1>5. CASE FreeCluster
  <2>1. PICK ok \in BOOLEAN : Ata(ok)
    BY <1>5 DEF FreeCluster
  <2>2. resets' = resets
    BY <1>5 DEF FreeCluster
  <2> QED BY <1>1, <2>1, <2>2, AtaFacts DEF Trouble
<1>6. CASE MarkErased
  <2>1. PICK ok \in BOOLEAN : Ata(ok)
    BY <1>6 DEF MarkErased
  <2>2. resets' = resets
    BY <1>6 DEF MarkErased
  <2> QED BY <1>1, <2>1, <2>2, AtaFacts DEF Trouble
<1>7. CASE AllocateFirst
  BY <1>7, AllocateFirstIs DEF Trouble
<1>8. CASE WriteData
  BY <1>8 DEF WriteData, Trouble
<1>9. CASE EnterFile
  BY <1>9, EnterFileIs DEF Trouble
<1> QED BY <1>2, <1>3, <1>4, <1>5, <1>6, <1>7, <1>8, <1>9 DEF Next

LEMMA CacheStep ==
  ASSUME TypeOK, StepInv, CacheInv, Next
  PROVE  CacheInv'
<1> SUFFICES ASSUME ~Trouble'
             PROVE  /\ Backed(files', dir') /\ Single(files')
                    /\ pc' \in {"alloc", "data", "enter"} => Cached(call.name)' = {}
                    /\ pc' = "off" => UniqueNames(dir')
  BY CacheInvIsNext
<1>1. /\ Backed(files, dir) /\ Single(files)
      /\ pc \in {"alloc", "data", "enter"} => Cached(call.name) = {}
      /\ pc = "off" => UniqueNames(dir)
  BY TroubleStays, CacheInvIs
<1>2. /\ dir \in [Entries -> DirEntries] /\ files \in Caches /\ call \in Calls
      /\ call.name \in Names /\ faults \in Nat /\ resets \in Nat
  BY TypeIs DEF Calls
<1>3. CASE Mount
  <2>1. dir' = dir /\ files' = ScanRoot(dir) /\ pc = "off" /\ pc' = "idle"
    BY <1>3 DEF Mount
  <2>2. PICK fs : fs = ScanRoot(dir)
    OBVIOUS
  <2>3. fs \in Caches /\ \E g : Mirrors(g, fs, dir, RootEntries)
    BY <1>2, <2>2, ScanFacts
  <2>4. Backed(fs, dir) /\ Single(fs)
    BY <1>1, <2>1, <2>3, MountBacks
  <2> QED BY <2>1, <2>2, <2>4
<1>4. CASE Reset
  <2>1. resets' # 0
    BY <1>2, <1>4 DEF Reset
  <2> QED BY <2>1 DEF Trouble
<1>5. ASSUME NEW op \in {"delete", "write"}, NEW n \in Names, NEW size \in Nat,
             Delete(op, n, size)
      PROVE  /\ Backed(files', dir') /\ Single(files')
             /\ pc' \in {"alloc", "data", "enter"} => Cached(call.name)' = {}
             /\ pc' = "off" => UniqueNames(dir')
  <2>1. /\ dir' = dir /\ files' = files /\ call'.name = n /\ pc' # "off"
        /\ Matches(n) = {} \/ pc' \in {"free", "mark"}
    BY <1>5, DeleteIs
  <2>2. Cached(call.name)' = Cached(n)
    BY <2>1 DEF Cached
  <2>3. Matches(n) = {} => Cached(n) = {}
    BY <1>1, CachedIsMatched
  <2> QED BY <1>1, <2>1, <2>2, <2>3
<1>6. CASE FreeCluster
  <2>1. dir' = dir /\ files' = files /\ pc' \in {"free", "mark", "idle"}
    BY <1>6, FreeClusterIs
  <2> QED BY <1>1, <2>1
<1>7. CASE MarkErased
  <2>1. Matches(call.name) # {}
    BY <1>7 DEF MarkErased, StepInv, Removing
  <2>2. /\ \E ok \in BOOLEAN :
            /\ Ata(ok)
            /\ dir' = IF ok THEN [dir EXCEPT ![Least(Matches(call.name))] = Erased] ELSE dir
            /\ files' = IF ok THEN Forget(call.name) ELSE files
        /\ files' \in Caches
        /\ pc' = "idle" \/ (pc' = "alloc" /\ call' = call)
    BY <1>7, MarkErasedIs
  <2>3. faults' = 0
    BY DEF Trouble
  <2>4. PICK fs, d : /\ fs = Forget(call.name)
                     /\ d = [dir EXCEPT ![Least(Matches(call.name))] = Erased]
    OBVIOUS
  <2>5. dir' = d /\ files' = fs
    BY <1>2, <2>2, <2>3, <2>4, AtaFacts
  <2>6. /\ Backed(fs, d) /\ Single(fs)
        /\ \A k \in 1..Len(fs) : fs[k].used => fs[k].name # Fold[call.name]
    BY <1>1, <1>2, <2>1, <2>4, EraseBacks
  <2>7. pc' = "alloc" => Cached(call.name)' = {}
    <3>1. DOMAIN fs = 1..Len(fs)
      BY <2>2, <2>5, LenProperties DEF Caches
    <3> QED BY <2>2, <2>5, <2>6, <3>1 DEF Cached
  <2> QED BY <2>2, <2>5, <2>6, <2>7
<1>8. CASE AllocateFirst
  <2>1. /\ pc = "alloc" /\ dir' = dir /\ files' = files /\ pc' \in {"data", "enter", "idle"}
        /\ pc' # "idle" => call'.name = call.name
    BY <1>8, AllocateFirstIs
  <2> QED BY <1>1, <2>1, CachedSame
<1>9. CASE WriteData
  <2>1. /\ pc = "data" /\ dir' = dir /\ files' = files /\ pc' \in {"free", "enter", "idle"}
        /\ pc' = "enter" => call'.name = call.name
    BY <1>9, WriteDataIs
  <2> QED BY <1>1, <2>1, CachedSame
<1>10. CASE EnterFile
  <2>1. /\ pc = "enter" /\ pc' = "idle"
        /\ \/ /\ \E i \in Entries : dir[i].mark # "live" /\ dir' = [dir EXCEPT ![i] = NewEntry]
              /\ \/ files' = files
                 \/ files' = Append(files, CacheOf(NewEntry))
           \/ dir' = dir /\ files' = files
    BY <1>10, EnterFileIs
  <2>2. PICK fs : fs = files'
    OBVIOUS
  <2>3. ASSUME NEW i \in Entries, dir[i].mark # "live", dir' = [dir EXCEPT ![i] = NewEntry],
               fs = files \/ fs = Append(files, CacheOf(NewEntry))
        PROVE  Backed(files', dir') /\ Single(files')
    <3>1. Backed(fs, [dir EXCEPT ![i] = NewEntry]) /\ Single(fs)
      BY <1>1, <2>1, <2>3, EnterBacks
    <3> QED BY <2>2, <2>3, <3>1
  <2> QED BY <1>1, <2>1, <2>2, <2>3
<1>11. ASSUME NEW n \in Names, DeleteFile(n) \/ \E size \in Sizes : WriteFile(n, size)
       PROVE  /\ Backed(files', dir') /\ Single(files')
              /\ pc' \in {"alloc", "data", "enter"} => Cached(call.name)' = {}
              /\ pc' = "off" => UniqueNames(dir')
  BY <1>5, <1>11, NameAssumption DEF DeleteFile, WriteFile
<1> QED BY <1>3, <1>4, <1>6, <1>7, <1>8, <1>9, <1>10, <1>11 DEF Next

-----------------------------------------------------------------------------
(* The chains, as long as no write failed and no reset came. *)
LEMMA HeadsFacts ==
  ASSUME TypeOK
  PROVE  /\ Heads \in [Places -> Starts] /\ Heads[0] = InHand
         /\ \A i \in Entries : Heads[i] = IF Alive(i) THEN dir[i].first ELSE NoCluster
<1>1. dir \in [Entries -> DirEntries] /\ call \in Calls
  BY TypeIs
<1>2. InHand \in Starts
  BY <1>1, NoCallTyped DEF InHand, Calls
<1>3. \A p \in Places : p # 0 => p \in Entries
  BY VolumeAssumption DEF Places, Entries
<1>4. \A i \in Entries : dir[i].first \in Starts
  BY <1>1 DEF DirEntries
<1>5. \A p \in Places : (IF p = 0 THEN InHand
                         ELSE IF Alive(p) THEN dir[p].first ELSE NoCluster) \in Starts
  BY <1>2, <1>3, <1>4, NoCallTyped
<1>6. Heads \in [Places -> Starts]
  BY <1>5 DEF Heads
<1>7. \A i \in Entries : i \in Places /\ i # 0
  BY NoCallTyped
<1> QED BY <1>6, <1>7, NoCallTyped DEF Heads

LEMMA HeadsNextAre ==
  ASSUME NEW G \in [Places -> Starts], InHand' = G[0],
         \A i \in Entries : G[i] = IF Alive(i)' THEN dir'[i].first ELSE NoCluster
  PROVE  Heads' = G
<1>1. \A p \in Places : p # 0 => p \in Entries
  BY VolumeAssumption DEF Places, Entries
<1>2. Heads' = [p \in Places |-> IF p = 0 THEN InHand'
                                 ELSE IF Alive(p)' THEN dir'[p].first ELSE NoCluster]
  BY DEF Heads
<1>3. \A p \in Places : G[p] = IF p = 0 THEN InHand'
                               ELSE IF Alive(p)' THEN dir'[p].first ELSE NoCluster
  BY <1>1
<1> QED BY <1>2, <1>3

LEMMA ChainInvNext ==
  ASSUME NEW G \in [Places -> Starts], InHand' = G[0],
         \A i \in Entries : G[i] = IF Alive(i)' THEN dir'[i].first ELSE NoCluster,
         NEW ch, Separate(fat', G, ch),
         \A i \in Entries : Alive(i)' => Len(ch[i]) >= dir'[i].size
  PROVE  ChainInv'
<1>1. Heads' = G
  BY HeadsNextAre
<1>2. Separate(fat', Heads', ch) /\ Sized(ch)'
  BY <1>1 DEF Sized
<1>3. Separate(fat, Heads, ch)'
  BY <1>2 DEF Separate, Places
<1> QED BY <1>2, <1>3 DEF ChainInv

(* The heads and the directory stay as they are. *)
LEMMA ChainsStay ==
  ASSUME TypeOK, ChainInv, ~Trouble, fat' = fat, InHand' = InHand,
         \A i \in Entries : /\ Alive(i)' = Alive(i)
                            /\ Alive(i) => dir'[i] = dir[i]
  PROVE  ChainInv'
<1>1. PICK ch : Separate(fat, Heads, ch) /\ Sized(ch)
  BY DEF ChainInv
<1>2. PICK H \in [Places -> Starts] : H = Heads
  BY HeadsFacts
<1>3. H[0] = InHand /\ \A i \in Entries : H[i] = IF Alive(i) THEN dir[i].first ELSE NoCluster
  BY <1>2, HeadsFacts
<1>4. InHand' = H[0]
  BY <1>3
<1>5. \A i \in Entries : H[i] = IF Alive(i)' THEN dir'[i].first ELSE NoCluster
  BY <1>3
<1>6. \A i \in Entries : Alive(i)' => Len(ch[i]) >= dir'[i].size
  BY <1>1 DEF Sized
<1>7. Separate(fat', H, ch)
  BY <1>1, <1>2
<1> QED BY <1>4, <1>5, <1>6, <1>7, ChainInvNext

(* The chain in hand is left alone. *)
LEMMA ChainsDrop ==
  ASSUME TypeOK, ChainInv, ~Trouble, fat' = fat, InHand' = NoCluster,
         \A i \in Entries : /\ Alive(i)' = Alive(i)
                            /\ Alive(i) => dir'[i] = dir[i]
  PROVE  ChainInv'
<1>1. PICK ch : Separate(fat, Heads, ch) /\ Sized(ch)
  BY DEF ChainInv
<1>2. PICK H \in [Places -> Starts] : H = Heads
  BY HeadsFacts
<1>3. \A i \in Entries : H[i] = IF Alive(i) THEN dir[i].first ELSE NoCluster
  BY <1>2, HeadsFacts
<1> DEFINE G == [H EXCEPT ![0] = NoCluster]  c2 == [ch EXCEPT ![0] = << >>]
<1>4. Separate(fat, H, ch) /\ 0 \in Places
  BY <1>1, <1>2, NoCallTyped
<1>5. Separate(fat, G, c2)
  BY <1>4, SeparateDrop
<1>6. ch \in [Places -> Seq(Clusters)]
  BY <1>4 DEF Separate
<1>7. /\ G \in [Places -> Starts] /\ G[0] = NoCluster
      /\ \A i \in Entries : G[i] = H[i] /\ c2[i] = ch[i]
  BY <1>4, <1>6, NoCallTyped
<1> HIDE DEF G, c2
<1>8. InHand' = G[0]
  BY <1>7
<1>9. \A i \in Entries : G[i] = IF Alive(i)' THEN dir'[i].first ELSE NoCluster
  BY <1>3, <1>7
<1>10. \A i \in Entries : Alive(i)' => Len(c2[i]) >= dir'[i].size
  BY <1>1, <1>7 DEF Sized
<1>11. Separate(fat', G, c2)
  BY <1>5
<1> QED BY <1>7, <1>8, <1>9, <1>10, <1>11, ChainInvNext

LEMMA ChainDelete ==
  ASSUME TypeOK, ChainInv, ~Trouble, NEW op \in {"delete", "write"}, NEW n \in Names,
         NEW size \in Nat, Delete(op, n, size)
  PROVE  ChainInv'
<1>1. /\ pc = "idle" /\ fat' = fat /\ dir' = dir /\ call'.name = n
      /\ \/ /\ Matches(n) = {} /\ pc' \in {"idle", "alloc"}
         \/ /\ Matches(n) # {} /\ call'.walk = dir[Least(Matches(n))].first
            /\ call'.after = "mark" /\ pc' \in {"free", "mark"}
  BY DeleteIs
<1>2. InHand = NoCluster /\ \A i \in Entries : Alive(i) <=> dir[i].mark = "live"
  BY <1>1 DEF InHand, Alive, Removing
<1>3. CASE Matches(n) = {} /\ pc' \in {"idle", "alloc"}
  <2>1. InHand' = NoCluster
    BY <1>3 DEF InHand
  <2>2. \A i \in Entries : Alive(i)' = Alive(i)
    BY <1>1, <1>2, <1>3 DEF Alive, Removing
  <2> QED BY <1>1, <1>2, <2>1, <2>2, ChainsStay
<1>4. CASE /\ Matches(n) # {} /\ call'.walk = dir[Least(Matches(n))].first
           /\ call'.after = "mark" /\ pc' \in {"free", "mark"}
  <2>1. PICK i0 \in Entries : i0 = Least(Matches(n)) /\ dir[i0].mark = "live"
    BY <1>4, MatchesFacts
  <2>2. Least(Matches(call.name))' = i0
    BY <1>1, <2>1 DEF Matches
  <2>3. \A i \in Entries : Alive(i)' <=> dir[i].mark = "live" /\ i # i0
    BY <1>1, <1>4, <2>2 DEF Alive, Removing
  <2>4. PICK ch : Separate(fat, Heads, ch) /\ Sized(ch)
    BY DEF ChainInv
  <2>5. PICK H \in [Places -> Starts] : H = Heads
    BY HeadsFacts
  <2>6. /\ H[0] = NoCluster /\ H[i0] = dir[i0].first
        /\ \A i \in Entries : H[i] = IF Alive(i) THEN dir[i].first ELSE NoCluster
    BY <1>2, <2>1, <2>5, HeadsFacts
  <2>7. /\ Separate(fat, H, ch) /\ 0 \in Places /\ i0 \in Places /\ i0 # 0
        /\ NoCluster \in Starts /\ \A i \in Entries : i \in Places /\ i # 0
    BY <2>4, <2>5, NoCallTyped
  <2>8. ch \in [Places -> Seq(Clusters)] /\ H[i0] \in Starts
    BY <2>7 DEF Separate
  <2>9. CASE pc' = "free"
    <3> DEFINE G == [H EXCEPT ![i0] = NoCluster, ![0] = H[i0]]
               c2 == [ch EXCEPT ![i0] = << >>, ![0] = ch[i0]]
    <3>1. Separate(fat, G, c2)
      BY <2>6, <2>7, SeparateMove
    <3>2. /\ G \in [Places -> Starts] /\ G[0] = H[i0] /\ G[i0] = NoCluster
          /\ \A i \in Entries : i # i0 => G[i] = H[i] /\ c2[i] = ch[i]
      BY <2>7, <2>8
    <3> HIDE DEF G, c2
    <3>3. InHand' = G[0]
      BY <1>4, <2>1, <2>6, <2>9, <3>2 DEF InHand
    <3>4. \A i \in Entries : G[i] = IF Alive(i)' THEN dir'[i].first ELSE NoCluster
      BY <1>1, <1>2, <2>3, <2>6, <3>2
    <3>5. \A i \in Entries : Alive(i)' => Len(c2[i]) >= dir'[i].size
      BY <1>1, <1>2, <2>3, <2>4, <3>2 DEF Sized
    <3>6. Separate(fat', G, c2)
      BY <1>1, <3>1
    <3> QED BY <3>2, <3>3, <3>4, <3>5, <3>6, ChainInvNext
  <2>10. CASE pc' = "mark"
    <3> DEFINE G == [H EXCEPT ![i0] = NoCluster]  c2 == [ch EXCEPT ![i0] = << >>]
    <3>1. Separate(fat, G, c2)
      BY <2>7, SeparateDrop
    <3>2. /\ G \in [Places -> Starts] /\ G[0] = NoCluster /\ G[i0] = NoCluster
          /\ \A i \in Entries : i # i0 => G[i] = H[i] /\ c2[i] = ch[i]
      BY <2>6, <2>7, <2>8
    <3> HIDE DEF G, c2
    <3>3. InHand' = G[0]
      BY <2>10, <3>2 DEF InHand
    <3>4. \A i \in Entries : G[i] = IF Alive(i)' THEN dir'[i].first ELSE NoCluster
      BY <1>1, <1>2, <2>3, <2>6, <3>2
    <3>5. \A i \in Entries : Alive(i)' => Len(c2[i]) >= dir'[i].size
      BY <1>1, <1>2, <2>3, <2>4, <3>2 DEF Sized
    <3>6. Separate(fat', G, c2)
      BY <1>1, <3>1
    <3> QED BY <3>2, <3>3, <3>4, <3>5, <3>6, ChainInvNext
  <2> QED BY <1>4, <2>9, <2>10
<1> QED BY <1>1, <1>3, <1>4

LEMMA ChainFree ==
  ASSUME TypeOK, StepInv, ChainInv, ~Trouble, ~Trouble', FreeCluster
  PROVE  ChainInv'
<1>1. /\ pc = "free" /\ call.walk \in Clusters /\ dir' = dir
      /\ \E ok \in BOOLEAN :
           /\ Ata(ok)
           /\ fat' = IF ok THEN [fat EXCEPT ![call.walk] = FreeEntry] ELSE fat
      /\ \/ /\ fat[call.walk] \in Clusters /\ pc' = "free"
            /\ call' = [call EXCEPT !.walk = fat[call.walk]]
         \/ call.after = "mark" /\ pc' = "mark" /\ call' = call
         \/ call.after = "fail" /\ pc' = "idle"
  BY FreeClusterIs
<1>2. fat \in [Clusters -> FatValues] /\ call \in Calls /\ faults \in Nat
  BY TypeIs
<1>3. fat' = [fat EXCEPT ![call.walk] = FreeEntry]
  BY <1>1, <1>2, AtaFacts DEF Trouble
<1>4. \A i \in Entries : Alive(i)' = Alive(i)
  <2>1. CASE pc' = "free" /\ call' = [call EXCEPT !.walk = fat[call.walk]]
    <3>1. call'.after = call.after /\ call'.name = call.name
      BY <1>2, <2>1 DEF Calls
    <3>2. Matches(call.name)' = Matches(call.name) /\ Removing' = Removing
      BY <1>1, <2>1, <3>1 DEF Matches, Removing
    <3> QED BY <1>1, <3>2 DEF Alive
  <2>2. CASE call.after = "mark" /\ pc' = "mark" /\ call' = call
    <3>1. Matches(call.name)' = Matches(call.name) /\ Removing' = Removing
      BY <1>1, <2>2 DEF Matches, Removing
    <3> QED BY <1>1, <3>1 DEF Alive
  <2>3. CASE call.after = "fail" /\ pc' = "idle"
    <3>1. Removing' = FALSE /\ Removing = FALSE
      BY <1>1, <2>3 DEF Removing
    <3> QED BY <1>1, <3>1 DEF Alive
  <2> QED BY <1>1, <2>1, <2>2, <2>3
<1>5. PICK ch : Separate(fat, Heads, ch) /\ Sized(ch)
  BY DEF ChainInv
<1>6. PICK H \in [Places -> Starts] : H = Heads
  BY HeadsFacts
<1>7. /\ H[0] = call.walk
      /\ \A i \in Entries : H[i] = IF Alive(i) THEN dir[i].first ELSE NoCluster
  BY <1>1, <1>6, HeadsFacts DEF InHand
<1>8. /\ Separate(fat, H, ch) /\ 0 \in Places /\ Clusters \subseteq Starts
      /\ NoCluster \in Starts /\ \A i \in Entries : i \in Places /\ i # 0
  BY <1>5, <1>6, NoCallTyped
<1> DEFINE h == IF fat[H[0]] \in Clusters THEN fat[H[0]] ELSE NoCluster
           G == [H EXCEPT ![0] = h]  c2 == [ch EXCEPT ![0] = Tail(ch[0])]
<1>9. Separate(fat', G, c2)
  <2>1. H[0] \in Clusters
    BY <1>1, <1>7
  <2>2. Separate([fat EXCEPT ![H[0]] = FreeEntry], G, c2)
    BY <1>2, <1>8, <2>1, SeparateFree
  <2> QED BY <1>3, <1>7, <2>2
<1>10. ch \in [Places -> Seq(Clusters)] /\ h \in Starts
  BY <1>8 DEF Separate
<1>11. (fat[call.walk] \in Clusters => h = fat[call.walk])
  BY <1>7
<1> HIDE DEF h
<1>12. /\ G \in [Places -> Starts] /\ G[0] = h
       /\ \A i \in Entries : G[i] = H[i] /\ c2[i] = ch[i]
  BY <1>8, <1>10
<1> HIDE DEF G, c2
<1>13. CASE pc' = "free"
  <2>1. InHand' = fat[call.walk] /\ fat[call.walk] \in Clusters
    BY <1>1, <1>2, <1>13 DEF InHand, Calls
  <2>2. InHand' = G[0]
    BY <1>11, <1>12, <2>1
  <2>3. \A i \in Entries : G[i] = IF Alive(i)' THEN dir'[i].first ELSE NoCluster
    BY <1>1, <1>4, <1>7, <1>12
  <2>4. \A i \in Entries : Alive(i)' => Len(c2[i]) >= dir'[i].size
    BY <1>1, <1>4, <1>5, <1>12 DEF Sized
  <2> QED BY <1>9, <1>12, <2>2, <2>3, <2>4, ChainInvNext
<1>14. CASE pc' # "free"
  <2> DEFINE G2 == [G EXCEPT ![0] = NoCluster]  c3 == [c2 EXCEPT ![0] = << >>]
  <2>1. Separate(fat', G2, c3)
    BY <1>8, <1>9, <1>12, SeparateDrop
  <2>2. c2 \in [Places -> Seq(Clusters)]
    BY <1>9 DEF Separate
  <2>3. /\ G2 \in [Places -> Starts] /\ G2[0] = NoCluster
        /\ \A i \in Entries : G2[i] = H[i] /\ c3[i] = ch[i]
    BY <1>8, <1>12, <2>2
  <2> HIDE DEF G2, c3
  <2>4. InHand' = G2[0]
    BY <1>1, <1>14, <2>3 DEF InHand
  <2>5. \A i \in Entries : G2[i] = IF Alive(i)' THEN dir'[i].first ELSE NoCluster
    BY <1>1, <1>4, <1>7, <2>3
  <2>6. \A i \in Entries : Alive(i)' => Len(c3[i]) >= dir'[i].size
    BY <1>1, <1>4, <1>5, <2>3 DEF Sized
  <2> QED BY <2>1, <2>3, <2>4, <2>5, <2>6, ChainInvNext
<1> QED BY <1>13, <1>14

LEMMA ChainErase ==
  ASSUME TypeOK, StepInv, ChainInv, ~Trouble, ~Trouble', MarkErased
  PROVE  ChainInv'
<1>1. /\ pc = "mark" /\ fat' = fat /\ pc' \in {"idle", "alloc"}
      /\ \E ok \in BOOLEAN :
           /\ Ata(ok)
           /\ dir' = IF ok THEN [dir EXCEPT ![Least(Matches(call.name))] = Erased] ELSE dir
  BY MarkErasedIs
<1>2. dir \in [Entries -> DirEntries] /\ faults \in Nat
  BY TypeIs
<1>3. Matches(call.name) # {} /\ Removing
  BY <1>1 DEF StepInv, Removing
<1>4. PICK i0 \in Entries : i0 = Least(Matches(call.name))
  BY <1>3, MatchesFacts
<1>5. dir' = [dir EXCEPT ![i0] = Erased]
  BY <1>1, <1>2, <1>4, AtaFacts DEF Trouble
<1>6. dir'[i0] = Erased /\ \A i \in Entries : i # i0 => dir'[i] = dir[i]
  BY <1>2, <1>5
<1>7. Removing' = FALSE
  BY <1>1 DEF Removing
<1>8. \A i \in Entries : /\ Alive(i)' <=> dir'[i].mark = "live"
                         /\ Alive(i) <=> dir[i].mark = "live" /\ i # i0
  BY <1>3, <1>4, <1>7 DEF Alive
<1>9. \A i \in Entries : Alive(i)' = Alive(i) /\ (Alive(i) => dir'[i] = dir[i])
  <2>1. ASSUME NEW i \in Entries PROVE (Alive(i)' <=> Alive(i)) /\ (Alive(i) => dir'[i] = dir[i])
    BY <1>6, <1>8, ErasedTyped
  <2>2. \A i \in Entries : Alive(i)' \in BOOLEAN /\ Alive(i) \in BOOLEAN
    BY DEF Alive
  <2> QED BY <2>1, <2>2
<1>10. InHand' = InHand
  BY <1>1 DEF InHand
<1> QED BY <1>1, <1>9, <1>10, ChainsStay

LEMMA ChainAllocate ==
  ASSUME TypeOK, StepInv, ChainInv, ~Trouble, AllocateFirst
  PROVE  ChainInv'
<1>1. /\ pc = "alloc" /\ dir' = dir
      /\ \/ /\ \E c \in Clusters : /\ fat[c] = FreeEntry /\ fat' = [fat EXCEPT ![c] = EofMark]
                                   /\ call'.first = c
            /\ pc' = "data"
         \/ /\ fat' = fat /\ pc' = "enter" /\ call' = call
         \/ /\ fat' = fat /\ pc' = "idle"
  BY AllocateFirstIs
<1>2. InHand = NoCluster /\ call.first = NoCluster
  BY <1>1 DEF InHand, StepInv
<1>3. \A i \in Entries : Alive(i)' = Alive(i)
  BY <1>1 DEF Alive, Removing
<1>4. CASE fat' = fat /\ pc' = "enter" /\ call' = call
  <2>1. InHand' = InHand
    BY <1>2, <1>4 DEF InHand
  <2> QED BY <1>1, <1>3, <1>4, <2>1, ChainsStay
<1>5. CASE fat' = fat /\ pc' = "idle"
  <2>1. InHand' = InHand
    BY <1>2, <1>5 DEF InHand
  <2> QED BY <1>1, <1>3, <1>5, <2>1, ChainsStay
<1>6. ASSUME NEW c \in Clusters, fat[c] = FreeEntry, fat' = [fat EXCEPT ![c] = EofMark],
             call'.first = c, pc' = "data"
      PROVE  ChainInv'
  <2>1. PICK ch : Separate(fat, Heads, ch) /\ Sized(ch)
    BY DEF ChainInv
  <2>2. PICK H \in [Places -> Starts] : H = Heads
    BY HeadsFacts
  <2>3. \A i \in Entries : H[i] = IF Alive(i) THEN dir[i].first ELSE NoCluster
    BY <2>2, HeadsFacts
  <2>4. /\ Separate(fat, H, ch) /\ 0 \in Places /\ c \in Starts
        /\ \A i \in Entries : i \in Places /\ i # 0
    BY <2>1, <2>2, NoCallTyped
  <2> DEFINE G == [H EXCEPT ![0] = c]  c2 == [ch EXCEPT ![0] = <<c>>]
  <2>5. Separate(fat', G, c2)
    <3>1. fat \in [Clusters -> FatValues]
      BY TypeIs
    <3>2. Separate([fat EXCEPT ![c] = EofMark], G, c2)
      BY <1>6, <2>4, <3>1, SeparateTake
    <3> QED BY <1>6, <3>2
  <2>6. ch \in [Places -> Seq(Clusters)]
    BY <2>4 DEF Separate
  <2>7. /\ G \in [Places -> Starts] /\ G[0] = c
        /\ \A i \in Entries : G[i] = H[i] /\ c2[i] = ch[i]
    BY <2>4, <2>6
  <2> HIDE DEF G, c2
  <2>8. InHand' = G[0]
    BY <1>6, <2>7 DEF InHand
  <2>9. \A i \in Entries : G[i] = IF Alive(i)' THEN dir'[i].first ELSE NoCluster
    BY <1>1, <1>3, <2>3, <2>7
  <2>10. \A i \in Entries : Alive(i)' => Len(c2[i]) >= dir'[i].size
    BY <1>1, <1>3, <2>1, <2>7 DEF Sized
  <2> QED BY <2>5, <2>7, <2>8, <2>9, <2>10, ChainInvNext
<1> QED BY <1>1, <1>4, <1>5, <1>6

LEMMA ChainData ==
  ASSUME TypeOK, StepInv, ChainInv, ~Trouble, WriteData
  PROVE  ChainInv'
<1>1. /\ pc = "data" /\ dir' = dir /\ fat' = fat
      /\ \/ pc' = "free" /\ call'.walk = call.first /\ call'.after = "fail"
         \/ pc' = "idle"
         \/ pc' = "enter" /\ call' = call
  BY WriteDataIs
<1>2. Removing' = FALSE /\ Removing = FALSE
  BY <1>1 DEF Removing
<1>3. \A i \in Entries : Alive(i)' = Alive(i)
  BY <1>1, <1>2 DEF Alive
<1>4. CASE pc' # "idle"
  <2>1. InHand' = InHand
    BY <1>1, <1>4 DEF InHand
  <2> QED BY <1>1, <1>3, <2>1, ChainsStay
<1>5. CASE pc' = "idle"
  <2>1. InHand' = NoCluster
    BY <1>5 DEF InHand
  <2> QED BY <1>1, <1>3, <2>1, ChainsDrop
<1> QED BY <1>4, <1>5

LEMMA ChainEnter ==
  ASSUME TypeOK, StepInv, ChainInv, ~Trouble, EnterFile
  PROVE  ChainInv'
<1>1. /\ pc = "enter" /\ pc' = "idle" /\ fat' = fat
      /\ \/ \E i \in Entries : dir[i].mark # "live" /\ dir' = [dir EXCEPT ![i] = NewEntry]
         \/ dir' = dir
  BY EnterFileIs
<1>2. dir \in [Entries -> DirEntries] /\ call \in Calls
  BY TypeIs
<1>3. InHand' = NoCluster /\ InHand = call.first /\ call.size = 0
  BY <1>1 DEF InHand, StepInv
<1>4. \A i \in Entries : /\ Alive(i)' <=> dir'[i].mark = "live"
                         /\ Alive(i) <=> dir[i].mark = "live"
  BY <1>1 DEF Alive, Removing
<1>5. CASE dir' = dir
  <2>1. \A i \in Entries : Alive(i)' = Alive(i)
    BY <1>1, <1>5 DEF Alive, Removing
  <2> QED BY <1>1, <1>3, <1>5, <2>1, ChainsDrop
<1>6. ASSUME NEW i0 \in Entries, dir[i0].mark # "live", dir' = [dir EXCEPT ![i0] = NewEntry]
      PROVE  ChainInv'
  <2>1. PICK ch : Separate(fat, Heads, ch) /\ Sized(ch)
    BY DEF ChainInv
  <2>2. PICK H \in [Places -> Starts] : H = Heads
    BY HeadsFacts
  <2>3. /\ H[0] = call.first
        /\ \A i \in Entries : H[i] = IF Alive(i) THEN dir[i].first ELSE NoCluster
    BY <1>3, <2>2, HeadsFacts
  <2>4. /\ Separate(fat, H, ch) /\ 0 \in Places /\ i0 \in Places /\ NoCluster \in Starts
        /\ \A i \in Entries : i \in Places /\ i # 0
    BY <2>1, <2>2, NoCallTyped
  <2>5. H[i0] = NoCluster /\ i0 # 0
    BY <1>4, <1>6, <2>3, <2>4
  <2> DEFINE G == [H EXCEPT ![0] = NoCluster, ![i0] = H[0]]
             c2 == [ch EXCEPT ![0] = << >>, ![i0] = ch[0]]
  <2>6. Separate(fat, G, c2)
    BY <2>4, <2>5, SeparateMove
  <2>7. ch \in [Places -> Seq(Clusters)] /\ H[0] \in Starts
    BY <2>4 DEF Separate
  <2>8. /\ G \in [Places -> Starts] /\ G[0] = NoCluster /\ G[i0] = H[0] /\ c2[i0] = ch[0]
        /\ \A i \in Entries : i # i0 => G[i] = H[i] /\ c2[i] = ch[i]
    BY <2>4, <2>5, <2>7
  <2> HIDE DEF G, c2
  <2>9. /\ dir'[i0] = NewEntry /\ \A i \in Entries : i # i0 => dir'[i] = dir[i]
    BY <1>2, <1>6
  <2>10. NewEntry.mark = "live" /\ NewEntry.first = call.first /\ NewEntry.size = 0
    BY <1>2, <1>3, NewEntryFacts
  <2>11. \A i \in Entries : G[i] = IF Alive(i)' THEN dir'[i].first ELSE NoCluster
    <3>1. G[i0] = IF Alive(i0)' THEN dir'[i0].first ELSE NoCluster
      BY <1>4, <2>3, <2>8, <2>9, <2>10
    <3>2. \A i \in Entries : i # i0 => G[i] = IF Alive(i)' THEN dir'[i].first ELSE NoCluster
      BY <1>4, <2>3, <2>8, <2>9
    <3> QED BY <3>1, <3>2
  <2>12. \A i \in Entries : Alive(i)' => Len(c2[i]) >= dir'[i].size
    <3>1. Len(c2[i0]) >= dir'[i0].size
      <4>1. Len(ch[0]) \in Nat
        BY <2>4, <2>7, LenProperties
      <4> QED BY <2>8, <2>9, <2>10, <4>1
    <3>2. \A i \in Entries : i # i0 /\ Alive(i)' => Len(c2[i]) >= dir'[i].size
      BY <1>4, <2>1, <2>8, <2>9 DEF Sized
    <3> QED BY <3>1, <3>2
  <2>13. InHand' = G[0] /\ Separate(fat', G, c2)
    BY <1>1, <1>3, <2>6, <2>8
  <2> QED BY <2>8, <2>11, <2>12, <2>13, ChainInvNext
<1> QED BY <1>1, <1>5, <1>6

LEMMA ChainInit == Init => ChainInv
<1> SUFFICES ASSUME Init PROVE ChainInv
  OBVIOUS
<1>1. PICK im \in Images : fat = im.fat /\ dir = im.dir
  BY DEF Init
<1>2. /\ im.chains \in [Entries -> Seq(Clusters)]
      /\ \A i \in Entries : im.dir[i].mark = "live" =>
           /\ IsChain(im.fat, im.dir[i].first, im.chains[i])
           /\ Len(im.chains[i]) >= im.dir[i].size
           /\ \A j \in Entries \ {i} : im.dir[j].mark = "live" =>
                ToSet(im.chains[i]) \cap ToSet(im.chains[j]) = {}
  BY ImageAssumption
<1>3. InHand = NoCluster /\ \A i \in Entries : Alive(i) <=> dir[i].mark = "live"
  BY DEF Init, InHand, Alive, Removing
<1> DEFINE ch == [p \in Places |-> IF p # 0 /\ Alive(p) THEN im.chains[p] ELSE << >>]
<1>4. \A p \in Places : p # 0 => p \in Entries
  BY VolumeAssumption DEF Places, Entries
<1>5. \A p \in Places :
        \/ ch[p] = << >> /\ Heads[p] = NoCluster
        \/ /\ p \in Entries /\ dir[p].mark = "live" /\ ch[p] = im.chains[p]
           /\ Heads[p] = dir[p].first
  BY <1>3, <1>4 DEF Heads
<1>6. ch \in [Places -> Seq(Clusters)]
  BY <1>2, <1>4
<1>7. \A i \in Entries : i \in Places /\ i # 0
  BY NoCallTyped
<1>8. Sized(ch)
  BY <1>1, <1>2, <1>3, <1>7 DEF Sized
<1> HIDE DEF ch
<1>9. \A p \in Places : IsChain(fat, Heads[p], ch[p])
  BY <1>1, <1>2, <1>5, NoChain
<1>10. ASSUME NEW p \in Places, NEW q \in Places, p # q PROVE Apart(ch[p], ch[q])
  <2>1. CASE ch[p] = << >> \/ ch[q] = << >>
    BY <2>1, EmptyIsApart
  <2>2. CASE /\ p \in Entries /\ dir[p].mark = "live" /\ ch[p] = im.chains[p]
             /\ q \in Entries /\ dir[q].mark = "live" /\ ch[q] = im.chains[q]
    <3>1. ToSet(ch[p]) \cap ToSet(ch[q]) = {}
      BY <1>1, <1>2, <1>10, <2>2
    <3>2. DOMAIN ch[p] = 1..Len(ch[p]) /\ DOMAIN ch[q] = 1..Len(ch[q])
      BY <1>6, LenProperties
    <3> QED BY <3>1, <3>2 DEF ToSet, Apart
  <2> QED BY <1>5, <2>1, <2>2
<1>11. Separate(fat, Heads, ch)
  BY <1>6, <1>9, <1>10 DEF Separate
<1> QED BY <1>8, <1>11 DEF ChainInv

LEMMA ChainStep ==
  ASSUME TypeOK, StepInv, ChainInv, Next
  PROVE  ChainInv'
<1>1. CASE Trouble'
  BY <1>1 DEF ChainInv, Trouble
<1>2. CASE ~Trouble'
  <2>1. ~Trouble
    BY <1>2, TroubleStays
  <2>2. CASE Mount
    <3>1. pc = "off" /\ pc' = "idle" /\ fat' = fat /\ dir' = dir
      BY <2>2 DEF Mount
    <3>2. InHand' = InHand /\ \A i \in Entries : Alive(i)' = Alive(i)
      BY <3>1 DEF InHand, Alive, Removing
    <3> QED BY <2>1, <3>1, <3>2, ChainsStay
  <2>3. CASE Reset
    <3>1. resets' # 0
      BY <2>3, TypeIs DEF Reset
    <3> QED BY <1>2, <3>1 DEF Trouble
  <2>4. ASSUME NEW n \in Names, DeleteFile(n) \/ \E size \in Sizes : WriteFile(n, size)
        PROVE  ChainInv'
    BY <2>1, <2>4, ChainDelete, NameAssumption DEF DeleteFile, WriteFile
  <2>5. CASE FreeCluster
    BY <1>2, <2>1, <2>5, ChainFree
  <2>6. CASE MarkErased
    BY <1>2, <2>1, <2>6, ChainErase
  <2>7. CASE AllocateFirst
    BY <2>1, <2>7, ChainAllocate
  <2>8. CASE WriteData
    BY <2>1, <2>8, ChainData
  <2>9. CASE EnterFile
    BY <2>1, <2>9, ChainEnter
  <2> QED BY <2>2, <2>3, <2>4, <2>5, <2>6, <2>7, <2>8, <2>9 DEF Next
<1> QED BY <1>1, <1>2

-----------------------------------------------------------------------------
(* The invariant, and what follows from it. *)
LEMMA InvInit == Init => Inv
BY TypeInit, CountInit, CacheInit, ChainInit DEF Inv

LEMMA InvStep == Inv /\ [Next]_vars => Inv'
<1> SUFFICES ASSUME Inv, [Next]_vars PROVE Inv'
  OBVIOUS
<1>1. CASE Next
  BY <1>1, TypeStep, CountStep, CacheStep, ChainStep DEF Inv
<1>2. CASE UNCHANGED vars
  <2>1. /\ fat' = fat /\ dir' = dir /\ files' = files /\ pc' = pc /\ call' = call
        /\ faults' = faults /\ resets' = resets
    BY <1>2 DEF vars
  <2>2. TypeOK' /\ CountInv'
    BY <2>1, CountSame, TypeIs, TypeIsNext DEF Inv
  <2>3. Matches(call.name)' = Matches(call.name) /\ Removing' = Removing
    BY <2>1 DEF Matches, Removing
  <2>4. StepInv'
    BY <2>1, <2>3 DEF Inv, StepInv
  <2>5. Trouble' = Trouble
    BY <2>1 DEF Trouble
  <2>6. CacheInv'
    BY <2>1, <2>5, CachedSame, CacheInvIs, CacheInvIsNext DEF Inv
  <2>7. InHand' = InHand /\ \A i \in Entries : Alive(i)' = Alive(i)
    BY <2>1, <2>3 DEF InHand, Alive
  <2>8. ChainInv'
    <3>1. CASE Trouble
      BY <2>5, <3>1 DEF ChainInv
    <3>2. CASE ~Trouble
      BY <2>1, <2>7, <3>2, ChainsStay DEF Inv
    <3> QED BY <3>1, <3>2
  <2> QED BY <2>2, <2>4, <2>6, <2>8 DEF Inv
<1> QED BY <1>1, <1>2

LEMMA AlwaysInv == Spec => []Inv
BY InvInit, InvStep, PTL DEF Spec

(***************************************************************************)
(* fat16_list_files shows a name at most as often as the directory on the  *)
(* disk has it, through any failed writes, resets and remounts, with any   *)
(* size of the directory and of the cache.                                 *)
(***************************************************************************)
THEOREM ListingStaysTrue == Spec => []ListedIsOnDisk
<1>1. Inv => ListedIsOnDisk
  <2> SUFFICES ASSUME Inv, NEW k \in DOMAIN files, files[k].used
               PROVE  LET n == files[k].name
                      IN  Cardinality({j \in DOMAIN files : files[j].used /\ files[j].name = n})
                            <= Cardinality({i \in Entries : Listed(dir[i])
                                                            /\ Unparse[dir[i].name] = n})
    BY DEF Inv, ListedIsOnDisk
  <2>1. files \in Caches
    BY TypeIs DEF Inv
  <2>2. DOMAIN files = 1..Len(files) /\ files \in [1..Len(files) -> CacheEntries]
    BY <2>1, LenProperties DEF Caches
  <2>3. files[k].name \in Spellings
    BY <2>2 DEF CacheEntries, Spellings
  <2>4. Cardinality(InCache(files, files[k].name)) <= Cardinality(InDir(dir, files[k].name))
    BY <2>3 DEF Inv, CountInv
  <2> QED BY <2>2, <2>4 DEF InCache, InDir
<1> QED BY <1>1, AlwaysInv, PTL

(* Between calls the format finds the chain of every live entry. *)
LEMMA FormatIs ==
  ASSUME Inv, pc = "idle", ~Trouble
  PROVE  \E ch : /\ \A i \in Entries : dir[i].mark = "live" =>
                      /\ ch[i] \in Seq(Clusters) /\ IsChain(fat, dir[i].first, ch[i])
                      /\ Len(ch[i]) >= dir[i].size /\ Format(dir[i]) = ch[i]
                 /\ \A i, j \in Entries : i # j => Apart(ch[i], ch[j])
<1>1. PICK ch : Separate(fat, Heads, ch) /\ Sized(ch)
  BY DEF Inv, ChainInv
<1>2. \A i \in Entries : i \in Places
  BY NoCallTyped
<1>3. ASSUME NEW i \in Entries, dir[i].mark = "live"
      PROVE  /\ ch[i] \in Seq(Clusters) /\ IsChain(fat, dir[i].first, ch[i])
             /\ Len(ch[i]) >= dir[i].size /\ Format(dir[i]) = ch[i]
  <2>1. Alive(i)
    BY <1>3 DEF Alive, Removing
  <2>2. Heads[i] = dir[i].first
    BY <2>1, HeadsFacts DEF Inv
  <2>3. ch[i] \in Seq(Clusters) /\ IsChain(fat, dir[i].first, ch[i])
    BY <1>1, <1>2, <2>2 DEF Separate
  <2>4. Len(ch[i]) >= dir[i].size
    BY <1>1, <2>1 DEF Sized
  <2>5. PICK s \in Seq(Clusters) : s = ch[i]
    BY <2>3
  <2>6. Len(s) \in Nat /\ \A j \in 1..Len(s) : s[j] \in Clusters
    BY LenProperties, ElementOfSeq
  <2>7. Len(s) \in 0..Len(s) /\ ~(Len(s) < Len(s)) /\ Clusters \in SUBSET Clusters
    BY <2>6
  <2>8. Chain(fat, dir[i].first, Clusters) = SubSeq(s, 1, Len(s))
    BY <2>3, <2>5, <2>6, <2>7, ChainIs
  <2>9. SubSeq(s, 1, Len(s)) = s
    BY SubSeqFull
  <2> QED BY <2>3, <2>4, <2>5, <2>8, <2>9 DEF Format
<1> QED BY <1>1, <1>2, <1>3 DEF Separate

(***************************************************************************)
(* Without failed writes and resets no call of the driver cuts, joins or   *)
(* crosses the chains of files, on a volume of any size, whichever chains  *)
(* it held when it was mounted.                                            *)
(***************************************************************************)
THEOREM ChainsStayIntact == Spec => []ChainsIntact
<1>1. Inv => ChainsIntact
  <2> SUFFICES ASSUME Inv, pc = "idle", faults = 0, resets = 0,
                      NEW i \in Entries, dir[i].mark = "live"
               PROVE  /\ Len(Format(dir[i])) >= dir[i].size
                      /\ \A c \in Owns(i) : fat[c] \in Owns(i) \cup {EofMark}
                      /\ \A j \in Entries \ {i} :
                           dir[j].mark = "live" => Owns(i) \cap Owns(j) = {}
    BY DEF ChainsIntact
  <2>1. PICK ch : /\ \A j \in Entries : dir[j].mark = "live" =>
                       /\ ch[j] \in Seq(Clusters) /\ IsChain(fat, dir[j].first, ch[j])
                       /\ Len(ch[j]) >= dir[j].size /\ Format(dir[j]) = ch[j]
                  /\ \A j, k \in Entries : j # k => Apart(ch[j], ch[k])
    BY FormatIs DEF Trouble
  <2>2. \A j \in Entries : dir[j].mark = "live" =>
          Owns(j) = {ch[j][k] : k \in 1..Len(ch[j])}
    <3> SUFFICES ASSUME NEW j \in Entries, dir[j].mark = "live"
                 PROVE  Owns(j) = {ch[j][k] : k \in 1..Len(ch[j])}
      OBVIOUS
    <3>1. DOMAIN ch[j] = 1..Len(ch[j]) /\ Format(dir[j]) = ch[j]
      BY <2>1, LenProperties
    <3> QED BY <3>1 DEF Owns, ToSet
  <2>3. PICK s \in Seq(Clusters) : s = ch[i]
    BY <2>1
  <2>4. Len(s) \in Nat /\ IsChain(fat, dir[i].first, s) /\ Owns(i) = {s[k] : k \in 1..Len(s)}
    BY <2>1, <2>2, <2>3, LenProperties
  <2>5. ASSUME NEW c \in Owns(i) PROVE fat[c] \in Owns(i) \cup {EofMark}
    <3>1. PICK k \in 1..Len(s) : c = s[k]
      BY <2>4
    <3>2. CASE k = Len(s)
      <4>1. s # << >>
        BY <2>4, <3>1
      <4> QED BY <2>4, <3>1, <3>2, <4>1 DEF IsChain
    <3>3. CASE k # Len(s)
      <4>1. k \in 1..(Len(s) - 1) /\ k + 1 \in 1..Len(s)
        BY <2>4, <3>3
      <4>2. fat[s[k]] = s[k + 1]
        BY <2>4, <4>1 DEF IsChain
      <4> QED BY <2>4, <3>1, <4>1, <4>2
    <3> QED BY <3>2, <3>3
  <2>6. ASSUME NEW j \in Entries \ {i}, dir[j].mark = "live" PROVE Owns(i) \cap Owns(j) = {}
    <3>1. Apart(ch[i], ch[j])
      BY <2>1
    <3> QED BY <2>2, <2>6, <3>1 DEF Apart
  <2> QED BY <2>1, <2>5, <2>6
<1> QED BY <1>1, AlwaysInv, PTL

LEMMA PrefixOfPrefix ==
  ASSUME NEW S, NEW s \in Seq(S), NEW m \in 0..Len(s), NEW n \in 0..m
  PROVE  SubSeq(SubSeq(s, 1, m), 1, n) = SubSeq(s, 1, n)
<1> DEFINE p == SubSeq(s, 1, m)  q == SubSeq(s, 1, n)  r == SubSeq(p, 1, n)
<1>1. Len(s) \in Nat /\ n \in 0..Len(s)
  BY LenProperties
<1>2. p \in Seq(S) /\ Len(p) = m /\ \A j \in 1..m : p[j] = s[j]
  BY PrefixFacts
<1>3. q \in Seq(S) /\ Len(q) = n /\ \A j \in 1..n : q[j] = s[j]
  BY <1>1, PrefixFacts
<1> HIDE DEF p, q
<1>4. r \in Seq(S) /\ Len(r) = n /\ \A j \in 1..n : r[j] = p[j]
  BY <1>2, PrefixFacts
<1> HIDE DEF r
<1>5. \A j \in 1..n : j \in 1..m
  BY <1>1
<1>6. r = q
  BY <1>2, <1>3, <1>4, <1>5, SeqEqual
<1> QED BY <1>6 DEF p, q, r

(* Where a walk that stays in K leaves the sequence s. *)
LEMMA FirstOutside ==
  ASSUME NEW s \in Seq(Clusters), NEW K
  PROVE  \E m \in 0..Len(s) : /\ \A j \in 1..m : s[j] \in K
                              /\ m < Len(s) => s[m + 1] \notin K
<1> DEFINE Out == {j \in 1..Len(s) : s[j] \notin K}
<1>1. Len(s) \in Nat /\ Out \in SUBSET Nat
  BY LenProperties
<1>2. CASE Out = {}
  <2>1. \A j \in 1..Len(s) : s[j] \in K
    BY <1>2
  <2>2. Len(s) \in 0..Len(s) /\ ~(Len(s) < Len(s))
    BY <1>1
  <2> QED BY <2>1, <2>2
<1>3. CASE Out # {}
  <2>1. PICK l : l = Least(Out)
    OBVIOUS
  <2>2. l \in Out /\ \A j \in Out : l <= j
    BY <1>1, <1>3, <2>1, LeastIsMember
  <2>3. l \in 1..Len(s) /\ s[l] \notin K /\ l - 1 \in 0..Len(s) /\ (l - 1) + 1 = l
    BY <1>1, <2>2
  <2>4. ASSUME NEW j \in 1..(l - 1) PROVE s[j] \in K
    <3>1. j \in 1..Len(s) /\ ~(l <= j)
      BY <1>1, <2>3
    <3> QED BY <2>2, <3>1
  <2> QED BY <2>3, <2>4
<1> QED BY <1>2, <1>3

(***************************************************************************)
(* Without failed writes and resets fat16_read_file gives the clusters of  *)
(* the file on the disk in their order up to max_size or to where memory   *)
(* or the disk fails, or a beginning of them where the chain reaches a     *)
(* cluster from 0xFF8 on: what the cache says of a file is never out of    *)
(* date, and the clusters it leads to are the file's own.                  *)
(***************************************************************************)
THEOREM ReadsStayWhole == Spec => []ReadsWhole
<1>1. Inv => ReadsWhole
  <2> SUFFICES ASSUME Inv, pc = "idle", faults = 0, resets = 0,
                      NEW n \in Names, Cached(n) # {}
               PROVE  \E i \in Matches(n) : \A max, good \in 0..TotalClusters :
                        LET asked == SubSeq(Format(dir[i]), 1,
                                            Upto(dir[i].size, max, good))
                            given == ReadFile(n, max, good)
                        IN  IF \A c \in ToSet(asked) : InChain(c)
                            THEN given = asked
                            ELSE IsStrictPrefix(given, asked)
    BY DEF ReadsWhole
  <2>1. /\ dir \in [Entries -> DirEntries] /\ files \in Caches /\ ~Trouble
    BY TypeIs DEF Inv, Trouble
  <2>2. PICK k : k = Least(Cached(n)) /\ k \in Cached(n)
    BY <2>1, CachedFacts
  <2>3. Backed(files, dir)
    BY <2>1, CacheInvIs DEF Inv
  <2>4. PICK i \in Matches(n) : Listed(dir[i]) /\ files[k] = CacheOf(dir[i])
    BY <2>2, <2>3, CachedIsMatched DEF Inv
  <2>5. i \in Entries /\ dir[i].mark = "live"
    BY <2>4 DEF Matches
  <2> SUFFICES ASSUME NEW max \in 0..TotalClusters, NEW good \in 0..TotalClusters
               PROVE  LET asked == SubSeq(Format(dir[i]), 1,
                                          Upto(dir[i].size, max, good))
                          given == ReadFile(n, max, good)
                      IN  IF \A c \in ToSet(asked) : InChain(c)
                          THEN given = asked
                          ELSE IsStrictPrefix(given, asked)
    BY <2>4
  <2>6. dir[i].size \in Nat /\ max \in Nat /\ good \in Nat
    BY <2>1, <2>5, VolumeAssumption DEF DirEntries
  <2> DEFINE B == {dir[i].size, max, good}
  <2>6b. PICK z \in Nat : z = Upto(dir[i].size, max, good) /\ z <= dir[i].size
    <3>1. B # {} /\ B \in SUBSET Nat
      BY <2>6
    <3>2. Least(B) \in B /\ \A j \in B : Least(B) <= j
      <4> HIDE DEF B
      <4> QED BY <3>1, LeastIsMember
    <3> QED BY <3>1, <3>2 DEF Upto
  <2>7. files[k].first = dir[i].first /\ files[k].size = dir[i].size
    BY <2>4 DEF CacheOf
  <2>8. PICK s \in Seq(Clusters) : /\ IsChain(fat, dir[i].first, s)
                                   /\ Len(s) >= z /\ Format(dir[i]) = s
    <3>1. PICK s \in Seq(Clusters) : /\ IsChain(fat, dir[i].first, s)
                                     /\ Len(s) >= dir[i].size /\ Format(dir[i]) = s
      BY <2>1, <2>5, <2>6, FormatIs
    <3>2. Len(s) \in Nat
      BY LenProperties
    <3> QED BY <2>6, <2>6b, <3>1, <3>2
  <2> DEFINE K == {c \in Clusters : InChain(c)}
  <2>9. Len(s) \in Nat /\ z \in 0..Len(s) /\ K \in SUBSET Clusters
        /\ \A j \in 1..Len(s) : s[j] \in Clusters
    BY <2>8, LenProperties, ElementOfSeq
  <2>10. PICK m \in 0..Len(s) : /\ \A j \in 1..m : s[j] \in K
                                /\ m < Len(s) => s[m + 1] \notin K
    <3> HIDE DEF K
    <3> QED BY FirstOutside
  <2>11. Visited(files[k]) = SubSeq(s, 1, m)
    <3>1. Chain(fat, dir[i].first, K) = SubSeq(s, 1, m)
      <4> HIDE DEF K
      <4> QED BY <2>8, <2>9, <2>10, ChainIs
    <3> QED BY <2>7, <3>1 DEF Visited
  <2>12. Len(SubSeq(s, 1, m)) = m
    BY PrefixFacts
  <2>13. ReadFile(n, max, good)
           = SubSeq(SubSeq(s, 1, m), 1, IF m < z THEN m ELSE z)
    BY <2>2, <2>6b, <2>7, <2>11, <2>12 DEF ReadFile
  <2>14. /\ SubSeq(s, 1, z) \in Seq(Clusters) /\ Len(SubSeq(s, 1, z)) = z
         /\ \A j \in 1..z : SubSeq(s, 1, z)[j] = s[j]
    BY <2>9, PrefixFacts
  <2>15. ToSet(SubSeq(s, 1, z)) = {s[j] : j \in 1..z}
    <3>1. DOMAIN SubSeq(s, 1, z) = 1..z
      BY <2>14, LenProperties
    <3> QED BY <2>14, <3>1 DEF ToSet
  <2>16. CASE \A c \in ToSet(SubSeq(s, 1, z)) : InChain(c)
    <3>1. ~(m < z)
      <4> SUFFICES ASSUME m < z PROVE FALSE
        OBVIOUS
      <4>1. m + 1 \in 1..z /\ m + 1 \in 1..Len(s) /\ m < Len(s)
        BY <2>9
      <4>2. InChain(s[m + 1]) /\ s[m + 1] \in Clusters
        BY <2>9, <2>15, <2>16, <4>1
      <4> QED BY <2>10, <4>1, <4>2
    <3>2. z \in 0..m
      BY <2>9, <3>1
    <3>3. ReadFile(n, max, good) = SubSeq(s, 1, z)
      BY <2>13, <3>1, <3>2, PrefixOfPrefix
    <3> QED BY <2>6b, <2>8, <2>16, <3>3
  <2>17. CASE ~\A c \in ToSet(SubSeq(s, 1, z)) : InChain(c)
    <3>1. PICK j \in 1..z : ~InChain(s[j])
      BY <2>15, <2>17
    <3>2. ~(j \in 1..m)
      BY <2>10, <3>1
    <3>3. m < z /\ m \in 0..m /\ m \in 0..z
      BY <2>9, <3>2
    <3>4. ReadFile(n, max, good) = SubSeq(s, 1, m)
      BY <2>13, <3>3, PrefixOfPrefix
    <3>5. SubSeq(SubSeq(s, 1, m), 1, m) = SubSeq(s, 1, m)
      BY <3>3, PrefixOfPrefix
    <3>6. SubSeq(SubSeq(s, 1, z), 1, m) = SubSeq(s, 1, m)
      BY <2>9, <3>3, PrefixOfPrefix
    <3>7. SubSeq(s, 1, m) # SubSeq(s, 1, z)
      BY <2>9, <2>12, <2>14, <3>3
    <3>8. IsStrictPrefix(SubSeq(s, 1, m), SubSeq(s, 1, z))
      BY <2>9, <2>12, <2>14, <3>3, <3>5, <3>6, <3>7 DEF IsStrictPrefix, IsPrefix
    <3> QED BY <2>6b, <2>8, <2>17, <3>4, <3>8
  <2> QED BY <2>16, <2>17
<1> QED BY <1>1, AlwaysInv, PTL

=============================================================================
