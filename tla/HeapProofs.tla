----------------------------- MODULE HeapProofs -----------------------------
(***************************************************************************)
(* Proofs about the kernel heap, for every size of a page, of a header and *)
(* of the memory, and for any sizes that callers ask for.                  *)
(***************************************************************************)
EXTENDS Heap, SequenceTheorems, NaturalsInduction, WellFoundedInduction, TLAPS

Blocks == [addr : Nat, size : Nat, free : BOOLEAN]
Pointers == [ptr : Nat, size : Sizes]

(***************************************************************************)
(* The list as a value bs.  Laid: every block lies below every later one   *)
(* and below cur, the end of the mapped part; BlocksDisjoint says this of  *)
(* list neighbours only, and carrying it on to the others is what a split  *)
(* or a new block needs to know that no other block has its address.       *)
(***************************************************************************)
Laid(bs, cur) ==
  /\ bs \in Seq(Blocks) /\ cur \in Nat /\ HEAP_START <= cur
  /\ \A i \in 1..Len(bs) : HEAP_START <= bs[i].addr /\ End(bs[i]) <= cur
  /\ \A i, j \in 1..Len(bs) : i < j => End(bs[i]) <= bs[j].addr

\* The callers' pointers H and the list belong together.
Kept(bs, H) ==
  /\ H \subseteq Pointers
  /\ \A p \in H : \E i \in 1..Len(bs) :
       bs[i].addr = p.ptr /\ ~bs[i].free /\ bs[i].size >= p.size
  /\ \A p, q \in H : p.ptr = q.ptr => p = q
  /\ \A i \in 1..Len(bs) : bs[i].free <=> \A p \in H : p.ptr # bs[i].addr

\* No two free blocks are list neighbours, except at the places in X, where
\* kfree is at work.
Merged(bs, X) ==
  \A i \in 1..(Len(bs) - 1) : i \notin X => ~(bs[i].free /\ bs[i + 1].free)

Heaps == [blocks : Seq(Blocks), current : Nat, avail : 0..MaxPages]
Sound(h, H) == /\ h \in Heaps
               /\ Laid(h.blocks, h.current) /\ Kept(h.blocks, H) /\ Merged(h.blocks, {})

Inv == Sound(heap, held)

-----------------------------------------------------------------------------
(* Arithmetic of sizes. *)

(* A product of naturals is at least each factor, unless the other is 0. *)
LEMMA Times ==
  ASSUME NEW k \in Nat, NEW m \in Nat
  PROVE  k * m \in Nat /\ (k > 0 => k * m >= m)
<1>1. k * m \in Nat
  OBVIOUS
<1>2. k > 0 => (k - 1) * m \in Nat /\ k * m = (k - 1) * m + m
  OBVIOUS
<1> QED BY <1>1, <1>2

(* Rounding up to a multiple of d adds less than d. *)
LEMMA RoundUp ==
  ASSUME NEW n \in Nat, NEW d \in Nat, d > 0
  PROVE  LET r == ((n + d - 1) \div d) * d
         IN  r \in Nat /\ r >= n /\ r <= n + d - 1 /\ (n + d - 1) \div d \in Nat
<1> DEFINE m == n + d - 1
<1>1. m \in Nat
  OBVIOUS
<1>2. /\ m = d * (m \div d) + (m % d)
      /\ m % d \in 0..(d - 1) /\ m \div d \in Int
  BY <1>1
<1>3. m \div d \in Nat
  BY <1>1
<1>4. d * (m \div d) = (m \div d) * d
  BY <1>3
<1> QED BY <1>1, <1>2, <1>3, <1>4

(* The pages for a block hold its header and its bytes: nothing wraps. *)
LEMMA PagesHold ==
  ASSUME NEW n \in Sizes, ~BadSize(n)
  PROVE  /\ AlignUp(n) \in Nat /\ AlignUp(n) >= n
         /\ PagesFor(AlignUp(n)) \in Nat
         /\ PagesFor(AlignUp(n)) * PAGE_SIZE \in Nat
         /\ PagesFor(AlignUp(n)) * PAGE_SIZE >= BLOCK_SIZE + AlignUp(n)
<1> DEFINE s == AlignUp(n)
<1>0. /\ n \in Nat /\ ALIGN \in Nat /\ ALIGN > 0 /\ PAGE_SIZE \in Nat /\ PAGE_SIZE > 0
      /\ BLOCK_SIZE \in Nat /\ Word \in Nat /\ Word > 0
      /\ n + ALIGN + BLOCK_SIZE + PAGE_SIZE <= Word
  BY UnitAssumption, CallerAssumption
<1>1. s \in Nat /\ s >= n /\ s <= n + ALIGN - 1
  BY <1>0, RoundUp DEF AlignUp
<1> HIDE DEF s
<1>2. (BLOCK_SIZE + s) % Word = BLOCK_SIZE + s
  BY <1>0, <1>1
<1>3. (BLOCK_SIZE + s + PAGE_SIZE - 1) % Word = BLOCK_SIZE + s + PAGE_SIZE - 1
  BY <1>0, <1>1
<1>4. PagesFor(s) = (BLOCK_SIZE + s + PAGE_SIZE - 1) \div PAGE_SIZE
  BY <1>2, <1>3 DEF PagesFor
<1>5. BLOCK_SIZE + s \in Nat
  BY <1>0, <1>1
<1>6. /\ PagesFor(s) \in Nat
      /\ PagesFor(s) * PAGE_SIZE \in Nat
      /\ PagesFor(s) * PAGE_SIZE >= BLOCK_SIZE + s
  BY <1>0, <1>4, <1>5, RoundUp
<1> QED BY <1>1, <1>6 DEF s

(* The order of the natural numbers as a relation. *)
Less == {ss \in Nat \X Nat : ss[1] < ss[2]}

(* Min returns a member of every non-empty set of numbers. *)
LEMMA MinIsMember ==
  ASSUME NEW S \in SUBSET Nat, S # {}
  PROVE  Min(S) \in S
<1>1. OpToRel(<, Nat) = Less
  BY Zenon DEF OpToRel, Less
<1>2. IsWellFoundedOn(Less, Nat)
  BY <1>1, NatLessThanWellFounded
<1>3. PICK x \in S : \A y \in S : ~(<<y, x>> \in Less)
  BY <1>2, WFMin
<1>4. \A y \in S : ~(<<y, x>> \in Less) => x <= y
  BY DEF Less
<1> QED BY <1>3, <1>4 DEF Min

-----------------------------------------------------------------------------
(* Lists with a block put in or taken out. *)

(* InsertAt moves the later elements up by one. *)
LEMMA MovedUp ==
  ASSUME NEW s \in Seq(Blocks), NEW i \in 1..(Len(s) + 1), NEW e \in Blocks, NEW t,
         t = InsertAt(s, i, e)
  PROVE  /\ t \in Seq(Blocks) /\ Len(t) = Len(s) + 1
         /\ \A k \in 1..(i - 1) : t[k] = s[k]
         /\ t[i] = e
         /\ \A k \in i..Len(s) : t[k + 1] = s[k]
<1> DEFINE a == SubSeq(s, 1, i - 1)  c == SubSeq(s, i, Len(s))
<1>0. Len(s) \in Nat /\ i \in Int
  BY LenProperties
<1>1. /\ a \in Seq(Blocks) /\ Len(a) = i - 1
      /\ \A k \in 1..(i - 1) : a[k] = s[k]
  BY <1>0, SubSeqProperties
<1>2. /\ c \in Seq(Blocks) /\ Len(c) = Len(s) - i + 1
      /\ \A k \in 1..(Len(s) - i + 1) : c[k] = s[i + k - 1]
  BY <1>0, SubSeqProperties
<1> HIDE DEF a, c
<1>3. <<e>> \in Seq(Blocks) /\ Len(<<e>>) = 1 /\ <<e>>[1] = e
  OBVIOUS
<1> DEFINE b == a \o <<e>>
<1>4. /\ b \in Seq(Blocks) /\ Len(b) = i
      /\ \A k \in 1..(i - 1) : b[k] = s[k]
      /\ b[i] = e
  BY <1>0, <1>1, <1>3, ConcatProperties
<1>5. t = b \o c
  BY DEF InsertAt, a, c
<1> HIDE DEF b
<1>6. /\ t \in Seq(Blocks) /\ Len(t) = i + Len(c)
      /\ \A k \in 1..(i + Len(c)) : t[k] = IF k <= i THEN b[k] ELSE c[k - i]
  <2>1. Len(c) \in Nat /\ Len(b) = i
    BY <1>0, <1>2, <1>4
  <2>2. /\ b \o c \in Seq(Blocks) /\ Len(b \o c) = Len(b) + Len(c)
        /\ \A k \in 1..(Len(b) + Len(c)) :
             (b \o c)[k] = IF k <= Len(b) THEN b[k] ELSE c[k - Len(b)]
    BY <1>2, <1>4, ConcatProperties
  <2> QED BY <2>1, <2>2, <1>5
<1>7. ASSUME NEW k \in i..Len(s)
      PROVE  t[k + 1] = s[k]
  <2>1. /\ k + 1 \in 1..(i + Len(c)) /\ ~(k + 1 <= i)
        /\ (k + 1) - i \in 1..(Len(s) - i + 1) /\ i + ((k + 1) - i) - 1 = k
    BY <1>0, <1>2
  <2> QED BY <2>1, <1>2, <1>6
<1> QED BY <1>0, <1>2, <1>4, <1>6, <1>7

\* t is s without its element i.
Without(t, s, i) ==
  /\ t \in Seq(Blocks) /\ Len(t) = Len(s) - 1
  /\ \A k \in 1..(Len(s) - 1) : t[k] = IF k < i THEN s[k] ELSE s[k + 1]

(* RemoveAt moves the later elements down by one. *)
LEMMA MovedDown ==
  ASSUME NEW s \in Seq(Blocks), NEW i \in 1..Len(s), NEW t,
         t = RemoveAt(s, i)
  PROVE  Without(t, s, i)
<1> DEFINE a == SubSeq(s, 1, i - 1)  c == SubSeq(s, i + 1, Len(s))
<1>0. Len(s) \in Nat /\ i \in Int
  BY LenProperties
<1>1. /\ a \in Seq(Blocks) /\ Len(a) = i - 1
      /\ \A k \in 1..(i - 1) : a[k] = s[k]
  BY <1>0, SubSeqProperties
<1>2. /\ c \in Seq(Blocks) /\ Len(c) = Len(s) - i
      /\ \A k \in 1..(Len(s) - i) : c[k] = s[i + k]
  BY <1>0, SubSeqProperties
<1>3. t = a \o c
  BY DEF RemoveAt
<1> HIDE DEF a, c
<1>4. /\ t \in Seq(Blocks) /\ Len(t) = Len(s) - 1
      /\ \A k \in 1..(Len(s) - 1) : t[k] = IF k < i THEN a[k] ELSE c[k - i + 1]
  <2>1. Len(a) = i - 1 /\ Len(a) + Len(c) = Len(s) - 1
    BY <1>0, <1>1, <1>2
  <2>2. /\ a \o c \in Seq(Blocks) /\ Len(a \o c) = Len(a) + Len(c)
        /\ \A k \in 1..(Len(a) + Len(c)) :
             (a \o c)[k] = IF k <= Len(a) THEN a[k] ELSE c[k - Len(a)]
    BY <1>1, <1>2, ConcatProperties
  <2>3. \A k \in 1..(Len(s) - 1) : (k <= i - 1 <=> k < i) /\ k - (i - 1) = k - i + 1
    BY <1>0
  <2> QED BY <2>1, <2>2, <2>3, <1>3
<1>5. \A k \in 1..(Len(s) - 1) : k >= i => c[k - i + 1] = s[k + 1]
  BY <1>0, <1>2
<1> QED BY <1>0, <1>1, <1>4, <1>5 DEF Without

-----------------------------------------------------------------------------
(* Facts about a list that is laid out. *)

(* The parts of a block. *)
LEMMA BlockParts ==
  ASSUME NEW a, NEW n, NEW f
  PROVE  /\ Block(a, n, f).addr = a /\ Block(a, n, f).size = n /\ Block(a, n, f).free = f
         /\ End(Block(a, n, f)) = a + BLOCK_SIZE + n
BY DEF Block, End

(* A block ends after it begins. *)
LEMMA BlockEnd ==
  ASSUME NEW b \in Blocks
  PROVE  /\ b.addr \in Nat /\ b.size \in Nat /\ b.free \in BOOLEAN /\ End(b) \in Nat
         /\ End(b) = b.addr + BLOCK_SIZE + b.size /\ b.addr < End(b)
BY UnitAssumption DEF Blocks, End

(* No two blocks have the same address. *)
LEMMA Apart ==
  ASSUME NEW bs, NEW cur, Laid(bs, cur)
  PROVE  /\ \A i, j \in 1..Len(bs) : bs[i].addr = bs[j].addr => i = j
         /\ \A i \in 1..Len(bs) : bs[i].addr < cur
<1> USE UnitAssumption
<1>1. \A i \in 1..Len(bs) : bs[i] \in Blocks
  BY ElementOfSeq DEF Laid
<1>2. \A i \in 1..Len(bs) : bs[i].addr < End(bs[i]) /\ bs[i].addr \in Nat
                            /\ End(bs[i]) \in Nat
  BY <1>1, SMTT(60) DEF Blocks, End
<1>3. ASSUME NEW i \in 1..Len(bs), NEW j \in 1..Len(bs), bs[i].addr = bs[j].addr
      PROVE  i = j
  <2>1. ~(i < j)
    BY <1>2, <1>3 DEF Laid
  <2>2. ~(j < i)
    BY <1>2, <1>3 DEF Laid
  <2> QED BY <2>1, <2>2
<1> QED BY <1>2, <1>3, SMTT(60) DEF Laid

(* A pointer that is held belongs to one block, which is not free. *)
LEMMA HeldBlock ==
  ASSUME NEW bs, NEW cur, Laid(bs, cur), NEW H, Kept(bs, H), NEW p \in H
  PROVE  \E i \in 1..Len(bs) :
           /\ bs[i].addr = p.ptr /\ ~bs[i].free /\ bs[i].size >= p.size
           /\ \A j \in 1..Len(bs) : bs[j].addr = p.ptr => j = i
BY Apart DEF Kept

-----------------------------------------------------------------------------
(* kmalloc takes a free block. *)

\* The list with the free flag of one block set to f.
SetFree(bs, i, f) == [bs EXCEPT ![i].free = f]

(* Only that flag changes. *)
LEMMA Flagged ==
  ASSUME NEW bs \in Seq(Blocks), NEW i \in 1..Len(bs)
  PROVE  /\ LET t == SetFree(bs, i, TRUE)
            IN  /\ t \in Seq(Blocks) /\ Len(t) = Len(bs)
                /\ \A k \in 1..Len(bs) : k # i => t[k] = bs[k]
                /\ t[i].addr = bs[i].addr /\ t[i].size = bs[i].size /\ t[i].free
         /\ LET t == SetFree(bs, i, FALSE)
            IN  /\ t \in Seq(Blocks) /\ Len(t) = Len(bs)
                /\ \A k \in 1..Len(bs) : k # i => t[k] = bs[k]
                /\ t[i].addr = bs[i].addr /\ t[i].size = bs[i].size /\ ~t[i].free
<1>1. bs[i] \in Blocks
  BY ElementOfSeq
<1> DEFINE Changed(t, e) == /\ t \in Seq(Blocks) /\ Len(t) = Len(bs)
                            /\ \A k \in 1..Len(bs) : k # i => t[k] = bs[k]
                            /\ t[i] = e
<1>2. \A e \in Blocks : Changed([bs EXCEPT ![i] = e], e)
  BY ExceptSeq, LenProperties
<1>3. /\ [bs[i] EXCEPT !.free = TRUE] \in Blocks
      /\ [bs[i] EXCEPT !.free = TRUE].addr = bs[i].addr
      /\ [bs[i] EXCEPT !.free = TRUE].size = bs[i].size
      /\ [bs[i] EXCEPT !.free = TRUE].free
  BY <1>1 DEF Blocks
<1>4. /\ [bs[i] EXCEPT !.free = FALSE] \in Blocks
      /\ [bs[i] EXCEPT !.free = FALSE].addr = bs[i].addr
      /\ [bs[i] EXCEPT !.free = FALSE].size = bs[i].size
      /\ ~[bs[i] EXCEPT !.free = FALSE].free
  BY <1>1 DEF Blocks
<1>5. Changed(SetFree(bs, i, TRUE), [bs[i] EXCEPT !.free = TRUE])
  BY <1>2, <1>3, Zenon DEF SetFree
<1>6. Changed(SetFree(bs, i, FALSE), [bs[i] EXCEPT !.free = FALSE])
  BY <1>2, <1>4, Zenon DEF SetFree
<1> QED BY <1>3, <1>4, <1>5, <1>6, Zenon

(* Whether a list is laid out depends on addresses and sizes only. *)
LEMMA SameLayout ==
  ASSUME NEW bs, NEW cur, Laid(bs, cur), NEW t \in Seq(Blocks), Len(t) = Len(bs),
         \A k \in 1..Len(bs) : t[k].addr = bs[k].addr /\ t[k].size = bs[k].size
  PROVE  Laid(t, cur)
<1>1. \A k \in 1..Len(bs) : End(t[k]) = End(bs[k])
  BY DEF End
<1> QED BY <1>1 DEF Laid

(* Blocks that are not free any more are no new free neighbours. *)
LEMMA FewerFree ==
  ASSUME NEW bs, NEW X, Merged(bs, X), NEW t, Len(t) = Len(bs), Len(bs) \in Nat,
         \A k \in 1..Len(bs) : t[k].free => bs[k].free
  PROVE  Merged(t, X)
<1>1. \A k \in 1..(Len(bs) - 1) : k \in 1..Len(bs) /\ k + 1 \in 1..Len(bs)
  OBVIOUS
<1> QED BY <1>1 DEF Merged

(* Whoever takes the pointer of a block i that was free, with t the list   *)
(* in which that block is not free any more: nobody else is disturbed.     *)
LEMMA TakeWhole ==
  ASSUME NEW bs, NEW cur, Laid(bs, cur), NEW H, Kept(bs, H), Merged(bs, {}),
         NEW i \in 1..Len(bs), bs[i].free, NEW n \in Sizes, bs[i].size >= n,
         NEW t, t = SetFree(bs, i, FALSE),
         NEW p \in Pointers, p.ptr = bs[i].addr, p.size = n
  PROVE  Laid(t, cur) /\ Kept(t, H \cup {p}) /\ Merged(t, {})
<1>0. bs \in Seq(Blocks) /\ bs[i] \in Blocks /\ Len(bs) \in Nat
  BY ElementOfSeq, LenProperties DEF Laid
<1>1. /\ t \in Seq(Blocks) /\ Len(t) = Len(bs)
      /\ \A k \in 1..Len(bs) : k # i => t[k] = bs[k]
      /\ t[i].addr = bs[i].addr /\ t[i].size = bs[i].size /\ ~t[i].free
  BY <1>0, Flagged
<1>2. \A k \in 1..Len(bs) : t[k].addr = bs[k].addr /\ End(t[k]) = End(bs[k])
                            /\ t[k].size = bs[k].size
  BY <1>1 DEF End
<1>3. Laid(t, cur)
  BY <1>1, <1>2, SameLayout
<1>5. \A q \in H : q.ptr # p.ptr
  BY DEF Kept
<1>6. \A k \in 1..Len(bs) : bs[k].addr = bs[i].addr => k = i
  BY Apart
<1>7. Kept(t, H \cup {p})
  <2>1. H \cup {p} \subseteq Pointers
    BY DEF Kept
  <2>2. \A q \in H : \E k \in 1..Len(t) :
          t[k].addr = q.ptr /\ ~t[k].free /\ t[k].size >= q.size
    <3>1. TAKE q \in H
    <3>2. PICK k \in 1..Len(bs) : bs[k].addr = q.ptr /\ ~bs[k].free /\ bs[k].size >= q.size
      BY DEF Kept
    <3> QED BY <3>2, <1>1
  <2>3. t[i].addr = p.ptr /\ ~t[i].free /\ t[i].size >= p.size
    BY <1>1
  <2>4. \A q, r \in H \cup {p} : q.ptr = r.ptr => q = r
    BY <1>5 DEF Kept
  <2>5. \A k \in 1..Len(t) : t[k].free <=> \A q \in H \cup {p} : q.ptr # t[k].addr
    <3>1. TAKE k \in 1..Len(t)
    <3>2. CASE k = i
      BY <3>2, <1>1
    <3>3. CASE k # i
      <4>1. t[k] = bs[k] /\ p.ptr # bs[k].addr
        BY <3>3, <1>1, <1>6
      <4>2. bs[k].free <=> \A q \in H : q.ptr # bs[k].addr
        BY <1>1 DEF Kept
      <4> QED BY <4>1, <4>2
    <3> QED BY <3>2, <3>3
  <2>6. \A q \in H \cup {p} : \E k \in 1..Len(t) :
          t[k].addr = q.ptr /\ ~t[k].free /\ t[k].size >= q.size
    BY <2>2, <2>3, <1>1
  <2> QED BY <2>1, <2>4, <2>5, <2>6 DEF Kept
<1>8. Merged(t, {})
  BY <1>0, <1>1, FewerFree
<1> QED BY <1>3, <1>7, <1>8

\* t is bs with block i cut in two, c and d.
CutInTwo(t, bs, i, c, d) ==
  /\ t \in Seq(Blocks) /\ Len(t) = Len(bs) + 1
  /\ \A k \in 1..(i - 1) : t[k] = bs[k]
  /\ t[i] = c /\ t[i + 1] = d
  /\ \A k \in (i + 2)..(Len(bs) + 1) : t[k] = bs[k - 1]

(* What a split makes of the list. *)
LEMMA SplitShape ==
  ASSUME NEW bs \in Seq(Blocks), NEW i \in 1..Len(bs), NEW c \in Blocks, NEW d \in Blocks,
         NEW t, t = InsertAt([bs EXCEPT ![i] = c], i + 1, d)
  PROVE  CutInTwo(t, bs, i, c, d)
<1>0. Len(bs) \in Nat /\ i \in Nat
  BY LenProperties
<1> DEFINE x == [bs EXCEPT ![i] = c]
<1>1. /\ x \in Seq(Blocks) /\ Len(x) = Len(bs) /\ x[i] = c
      /\ \A k \in 1..Len(bs) : k # i => x[k] = bs[k]
  BY <1>0, ExceptSeq, LenProperties
<1>2. t = InsertAt(x, i + 1, d)
  OBVIOUS
<1> HIDE DEF x
<1>3. PICK j \in 1..(Len(x) + 1) : j = i + 1 /\ j - 1 = i /\ j + 1 = i + 2
  BY <1>0, <1>1
<1>4. /\ t \in Seq(Blocks) /\ Len(t) = Len(x) + 1
      /\ \A k \in 1..(j - 1) : t[k] = x[k]
      /\ t[j] = d
      /\ \A k \in j..Len(x) : t[k + 1] = x[k]
  <2>1. t = InsertAt(x, j, d) /\ x \in Seq(Blocks)
    BY <1>1, <1>2, <1>3
  <2>2. j \in 1..(Len(x) + 1) /\ d \in Blocks
    OBVIOUS
  <2>3. t \in Seq(Blocks)
    BY <2>1, <2>2, MovedUp
  <2>4. Len(t) = Len(x) + 1
    BY <2>1, <2>2, MovedUp
  <2>5. \A k \in 1..(j - 1) : t[k] = x[k]
    BY <2>1, <2>2, MovedUp
  <2>6. t[j] = d
    BY <2>1, <2>2, MovedUp
  <2>7. \A k \in j..Len(x) : t[k + 1] = x[k]
    BY <2>1, <2>2, MovedUp, SMTT(60)
  <2> QED BY <2>3, <2>4, <2>5, <2>6, <2>7
<1>5. /\ \A k \in 1..i : t[k] = x[k]
      /\ t[i + 1] = d
  BY <1>1, <1>3, <1>4
<1>6. ASSUME NEW k \in (i + 2)..(Len(bs) + 1)
      PROVE  t[k] = bs[k - 1]
  <2>1. k - 1 \in j..Len(x) /\ k - 1 \in 1..Len(bs) /\ k - 1 # i /\ (k - 1) + 1 = k
    BY <1>0, <1>1, <1>3
  <2> QED BY <2>1, <1>1, <1>4
<1>7. \A k \in 1..(i - 1) : x[k] = bs[k] /\ k \in 1..i
  BY <1>0, <1>1
<1>8. i \in 1..i
  BY <1>0
<1> QED BY <1>1, <1>4, <1>5, <1>6, <1>7, <1>8 DEF CutInTwo

(* Taking a block that is split: d is the part that is left over. *)
LEMMA TakePart ==
  ASSUME NEW bs, NEW cur, Laid(bs, cur), NEW H, Kept(bs, H), Merged(bs, {}),
         NEW i \in 1..Len(bs), bs[i].free, NEW n \in Sizes, NEW a, a = bs[i].addr,
         NEW c \in Blocks, NEW d \in Blocks, c.addr = a, c.size >= n, ~c.free, d.free,
         d.addr = End(c), End(d) = End(bs[i]),
         NEW t, CutInTwo(t, bs, i, c, d),
         NEW p \in Pointers, p.ptr = a, p.size = n
  PROVE  Laid(t, cur) /\ Kept(t, H \cup {p}) /\ Merged(t, {})
<1> USE DEF CutInTwo
<1>0. /\ bs \in Seq(Blocks) /\ bs[i] \in Blocks /\ Len(bs) \in Nat /\ i \in Nat
      /\ BLOCK_SIZE \in Nat /\ BLOCK_SIZE > 0 /\ HEAP_START \in Nat /\ n \in Nat
  BY ElementOfSeq, LenProperties, UnitAssumption DEF Laid
<1>1. /\ a \in Nat /\ End(c) < End(d) /\ a < d.addr /\ d.addr < End(d)
      /\ End(d) \in Nat /\ d.addr \in Nat /\ End(c) \in Nat
  BY <1>0, BlockEnd
<1>2. \A k \in 1..Len(bs) : /\ bs[k].addr \in Nat /\ End(bs[k]) \in Nat
                            /\ bs[k].addr < End(bs[k])
  BY <1>0, BlockEnd, ElementOfSeq
<1> DEFINE Old(k) == IF k <= i THEN k ELSE k - 1
<1>3. \A k \in 1..Len(t) : \E l \in 1..Len(bs) : l = Old(k)
  BY <1>0
<1>4. ASSUME NEW k \in 1..Len(t), NEW l \in 1..Len(bs), l = Old(k)
      PROVE  /\ t[k].addr >= bs[l].addr /\ End(t[k]) <= End(bs[l])
             /\ t[k].addr \in Nat /\ End(t[k]) \in Nat
  <2>1. CASE k < i
    <3>1. t[k] = bs[l]
      BY <2>1, <1>0, <1>4
    <3> QED BY <3>1, <1>2
  <2>2. CASE k = i
    <3>1. t[k] = c /\ l = i
      BY <2>2, <1>0, <1>4
    <3> QED BY <3>1, <1>1
  <2>3. CASE k = i + 1
    <3>1. t[k] = d /\ l = i
      BY <2>3, <1>0, <1>4
    <3> QED BY <3>1, <1>1
  <2>4. CASE k > i + 1
    <3>1. t[k] = bs[l]
      BY <2>4, <1>0, <1>4
    <3> QED BY <3>1, <1>2
  <2> QED BY <2>1, <2>2, <2>3, <2>4, <1>0
<1>5. Laid(t, cur)
  <2>1. cur \in Nat /\ HEAP_START <= cur
    BY DEF Laid
  <2>2. ASSUME NEW k \in 1..Len(t)
        PROVE  HEAP_START <= t[k].addr /\ End(t[k]) <= cur
    <3>1. PICK l \in 1..Len(bs) : l = Old(k)
      BY <1>3
    <3>2. HEAP_START <= bs[l].addr /\ End(bs[l]) <= cur
      BY DEF Laid
    <3>3. /\ t[k].addr >= bs[l].addr /\ End(t[k]) <= End(bs[l])
          /\ t[k].addr \in Nat /\ End(t[k]) \in Nat
      BY <3>1, <1>4
    <3> QED BY <3>2, <3>3, <1>2, <1>0, <2>1, SMTT(60)
  <2>3. ASSUME NEW j \in 1..Len(t), NEW k \in 1..Len(t), j < k
        PROVE  End(t[j]) <= t[k].addr
    <3>1. CASE j = i /\ k = i + 1
      BY <3>1, <1>1
    <3>2. CASE ~(j = i /\ k = i + 1)
      <4>1. PICK l \in 1..Len(bs) : l = Old(j)
        BY <1>3
      <4>2. PICK m \in 1..Len(bs) : m = Old(k)
        BY <1>3
      <4>3. l < m
        BY <3>2, <2>3, <4>1, <4>2, <1>0
      <4>4. End(bs[l]) <= bs[m].addr
        BY <4>3 DEF Laid
      <4>5. End(t[j]) <= End(bs[l]) /\ End(t[j]) \in Nat
        BY <4>1, <1>4
      <4>6. t[k].addr >= bs[m].addr /\ t[k].addr \in Nat
        BY <4>2, <1>4
      <4> QED BY <4>4, <4>5, <4>6, <1>2, SMTT(60)
    <3> QED BY <3>1, <3>2
  <2> QED BY <2>1, <2>2, <2>3 DEF Laid
<1>6. \A q \in H : q.ptr # a
  BY DEF Kept
<1>7. \A k \in 1..Len(bs) : bs[k].addr = a => k = i
  BY Apart
<1>8. ASSUME NEW l \in 1..Len(bs)
      PROVE  l = i \/ \E k \in 1..Len(t) : k # i /\ k # i + 1 /\ t[k] = bs[l]
  <2>1. CASE l < i
    <3>1. l \in 1..(i - 1) /\ l \in 1..Len(t)
      BY <2>1, <1>0
    <3> QED BY <3>1, <2>1, <1>0
  <2>2. CASE l > i
    <3>1. l + 1 \in (i + 2)..(Len(bs) + 1) /\ l + 1 \in 1..Len(t) /\ (l + 1) - 1 = l
      BY <2>2, <1>0
    <3>2. t[l + 1] = bs[l]
      BY <3>1
    <3> QED BY <3>1, <3>2, <2>2, <1>0
  <2> QED BY <2>1, <2>2, <1>0
<1>9. ASSUME NEW k \in 1..Len(t), k # i, k # i + 1
      PROVE  \E l \in 1..Len(bs) : l # i /\ t[k] = bs[l] /\ l = Old(k)
  <2>1. CASE k < i
    BY <2>1, <1>0, <1>9, SMTT(60)
  <2>2. CASE k > i + 1
    <3>1. k \in (i + 2)..(Len(bs) + 1) /\ k - 1 \in 1..Len(bs) /\ k - 1 # i /\ ~(k <= i)
      BY <2>2, <1>0
    <3> QED BY <3>1
  <2> QED BY <2>1, <2>2, <1>0, <1>9
<1>10. Kept(t, H \cup {p})
  <2>1. H \cup {p} \subseteq Pointers
    BY DEF Kept
  <2>2. ASSUME NEW q \in H
        PROVE  \E k \in 1..Len(t) : t[k].addr = q.ptr /\ ~t[k].free /\ t[k].size >= q.size
    <3>1. PICK l \in 1..Len(bs) : bs[l].addr = q.ptr /\ ~bs[l].free /\ bs[l].size >= q.size
      BY DEF Kept
    <3>2. l # i
      BY <3>1
    <3>3. PICK k \in 1..Len(t) : t[k] = bs[l]
      BY <3>2, <1>8
    <3> QED BY <3>1, <3>3
  <2>3. i \in 1..Len(t)
    BY <1>0
  <2>4. \A q \in H \cup {p} : \E k \in 1..Len(t) :
          t[k].addr = q.ptr /\ ~t[k].free /\ t[k].size >= q.size
    BY <2>2, <2>3
  <2>5. \A q, r \in H \cup {p} : q.ptr = r.ptr => q = r
    BY <1>6 DEF Kept
  <2>6. ASSUME NEW k \in 1..Len(t)
        PROVE  t[k].free <=> \A q \in H \cup {p} : q.ptr # t[k].addr
    <3>1. CASE k = i
      BY <3>1
    <3>2. CASE k = i + 1
      <4>1. ASSUME NEW q \in H
            PROVE  q.ptr # d.addr
        <5>1. PICK l \in 1..Len(bs) : bs[l].addr = q.ptr
          BY DEF Kept
        <5>2. CASE l < i
          <6>1. bs[l].addr < a
            BY <5>2, <1>2 DEF Laid
          <6> QED BY <6>1, <5>1, <1>1, <1>2
        <5>3. CASE l = i
          BY <5>1, <5>3, <1>6
        <5>4. CASE i < l
          <6>1. End(d) <= bs[l].addr
            BY <5>4 DEF Laid
          <6> QED BY <6>1, <5>1, <1>1, <1>2
        <5> QED BY <5>2, <5>3, <5>4, <1>0
      <4> QED BY <3>2, <4>1, <1>1
    <3>3. CASE k # i /\ k # i + 1
      <4>1. PICK l \in 1..Len(bs) : l # i /\ t[k] = bs[l]
        BY <3>3, <1>9
      <4>2. bs[l].addr # p.ptr
        BY <4>1, <1>7
      <4>3. bs[l].free <=> \A q \in H : q.ptr # bs[l].addr
        BY DEF Kept
      <4> QED BY <4>1, <4>2, <4>3
    <3> QED BY <3>1, <3>2, <3>3
  <2> QED BY <2>1, <2>4, <2>5, <2>6 DEF Kept
<1>11. Merged(t, {})
  <2> SUFFICES ASSUME NEW k \in 1..(Len(t) - 1), t[k].free, t[k + 1].free
               PROVE  FALSE
    BY DEF Merged
  <2>1. k # i
    OBVIOUS
  <2>2. CASE k = i + 1
    <3>1. k + 1 \in (i + 2)..(Len(bs) + 1) /\ (k + 1) - 1 = i + 1 /\ i \in 1..(Len(bs) - 1)
      BY <2>2, <1>0
    <3>2. bs[i + 1].free
      BY <3>1
    <3> QED BY <3>1, <3>2 DEF Merged
  <2>3. CASE k + 1 < i
    <3>1. k \in 1..(i - 1) /\ k + 1 \in 1..(i - 1) /\ k \in 1..(Len(bs) - 1)
      BY <2>3, <1>0
    <3> QED BY <3>1 DEF Merged
  <2>4. CASE k + 1 = i
    BY <2>4
  <2>5. CASE k > i + 1
    <3>1. /\ k \in (i + 2)..(Len(bs) + 1) /\ k + 1 \in (i + 2)..(Len(bs) + 1)
          /\ (k + 1) - 1 = (k - 1) + 1 /\ k - 1 \in 1..(Len(bs) - 1)
      BY <2>5, <1>0
    <3>2. bs[k - 1].free /\ bs[(k - 1) + 1].free
      BY <3>1
    <3> QED BY <3>1, <3>2 DEF Merged
  <2> QED BY <2>1, <2>2, <2>3, <2>4, <2>5, <1>0
<1> QED BY <1>5, <1>10, <1>11

(* find_free_block: the first free block that is large enough. *)
LEMMA FoundIsFree ==
  ASSUME NEW bs \in Seq(Blocks), NEW size
  PROVE  FindFree(bs, size) # 0 =>
           /\ FindFree(bs, size) \in 1..Len(bs)
           /\ bs[FindFree(bs, size)].free /\ bs[FindFree(bs, size)].size >= size
<1> DEFINE fits == {i \in 1..Len(bs) : bs[i].free /\ bs[i].size >= size}
<1>1. DOMAIN bs = 1..Len(bs) /\ fits \in SUBSET Nat
  BY LenProperties
<1>2. FindFree(bs, size) = IF fits = {} THEN 0 ELSE Min(fits)
  BY <1>1 DEF FindFree
<1>3. fits # {} => Min(fits) \in fits
  BY <1>1, MinIsMember
<1> QED BY <1>2, <1>3

(* kmalloc's use of a free block. *)
LEMMA SplitKeeps ==
  ASSUME NEW bs, NEW cur, Laid(bs, cur), NEW H, Kept(bs, H), Merged(bs, {}),
         NEW i \in 1..Len(bs), bs[i].free, NEW n \in Sizes, NEW size \in Nat, size >= n,
         bs[i].size >= size,
         NEW p \in Pointers, p.ptr = bs[i].addr, p.size = n
  PROVE  /\ Laid(Split(bs, i, size), cur)
         /\ Kept(Split(bs, i, size), H \cup {p})
         /\ Merged(Split(bs, i, size), {})
<1>0. /\ bs \in Seq(Blocks) /\ bs[i] \in Blocks /\ n \in Nat
      /\ BLOCK_SIZE \in Nat /\ ALIGN \in Nat
  BY ElementOfSeq, UnitAssumption DEF Laid
<1>1. CASE bs[i].size >= size + BLOCK_SIZE + ALIGN
  <2> DEFINE c == Block(bs[i].addr, size, FALSE)
             d == Block(bs[i].addr + BLOCK_SIZE + size, bs[i].size - size - BLOCK_SIZE, TRUE)
             t == Split(bs, i, size)
  <2>1. t = InsertAt([bs EXCEPT ![i] = c], i + 1, d)
    BY <1>1, Zenon DEF Split
  <2>2. bs[i].addr \in Nat /\ bs[i].size - size - BLOCK_SIZE \in Nat
    BY <1>0, <1>1, BlockEnd, SMTT(60)
  <2>3. /\ c \in Blocks /\ c.addr = bs[i].addr /\ c.size = size /\ ~c.free
    BY <2>2 DEF Block, Blocks
  <2>4. /\ d \in Blocks /\ d.addr = bs[i].addr + BLOCK_SIZE + size
        /\ d.size = bs[i].size - size - BLOCK_SIZE /\ d.free
    BY <2>2, <1>0, SMTT(60) DEF Block, Blocks
  <2> HIDE DEF c, d, t
  <2>5. d.addr = End(c) /\ End(d) = End(bs[i])
    <3>1. End(c) = c.addr + BLOCK_SIZE + c.size
      BY <2>3, BlockEnd
    <3>2. End(d) = d.addr + BLOCK_SIZE + d.size
      BY <2>4, BlockEnd
    <3>3. End(bs[i]) = bs[i].addr + BLOCK_SIZE + bs[i].size /\ bs[i].size \in Nat
      BY <1>0, BlockEnd
    <3> QED BY <3>1, <3>2, <3>3, <1>0, <2>2, <2>3, <2>4, SMTT(60)
  <2>6. CutInTwo(t, bs, i, c, d)
    BY <1>0, <2>1, <2>3, <2>4, SplitShape
  <2>7. c.size >= n
    BY <2>3
  <2>8. Laid(t, cur) /\ Kept(t, H \cup {p}) /\ Merged(t, {})
    BY <2>3, <2>4, <2>5, <2>6, <2>7, TakePart
  <2> QED BY <2>8 DEF t
<1>2. CASE ~(bs[i].size >= size + BLOCK_SIZE + ALIGN)
  <2>1. Split(bs, i, size) = SetFree(bs, i, FALSE)
    BY <1>2, Zenon DEF Split, SetFree
  <2>2. bs[i].size >= n
    BY <1>0, BlockEnd
  <2> QED BY <2>1, <2>2, TakeWhole
<1> QED BY <1>1, <1>2

-----------------------------------------------------------------------------
(* The heap grows: a new block b at the end of the list, above the others. *)
LEMMA GrownKeeps ==
  ASSUME NEW bs, NEW cur, Laid(bs, cur), NEW H, Kept(bs, H), Merged(bs, {}),
         NEW b \in Blocks, b.addr = cur, ~b.free, NEW n \in Sizes, b.size >= n,
         NEW top \in Nat, End(b) <= top,
         NEW p \in Pointers, p.ptr = cur, p.size = n
  PROVE  /\ Laid(Append(bs, b), top)
         /\ Kept(Append(bs, b), H \cup {p})
         /\ Merged(Append(bs, b), {})
<1> DEFINE t == Append(bs, b)
<1>0. /\ bs \in Seq(Blocks) /\ Len(bs) \in Nat /\ cur \in Nat /\ HEAP_START <= cur
      /\ HEAP_START \in Nat /\ cur < End(b) /\ End(b) \in Nat
  BY LenProperties, BlockEnd, UnitAssumption DEF Laid
<1>1. /\ t \in Seq(Blocks) /\ Len(t) = Len(bs) + 1
      /\ \A k \in 1..Len(bs) : t[k] = bs[k]
      /\ t[Len(bs) + 1] = b
  BY <1>0, AppendProperties
<1> HIDE DEF t
<1>2. \A k \in 1..Len(bs) : /\ bs[k].addr \in Nat /\ End(bs[k]) \in Nat
                            /\ HEAP_START <= bs[k].addr /\ End(bs[k]) <= cur
                            /\ bs[k].addr < cur
  BY <1>0, BlockEnd, ElementOfSeq, Apart DEF Laid
<1>3. \A k \in 1..Len(t) : k \in 1..Len(bs) \/ k = Len(bs) + 1
  BY <1>0, <1>1
<1>4. Laid(t, top)
  <2>1. HEAP_START <= top
    BY <1>0
  <2>2. \A k \in 1..Len(t) : HEAP_START <= t[k].addr /\ End(t[k]) <= top
    BY <1>0, <1>1, <1>2, <1>3
  <2>3. ASSUME NEW j \in 1..Len(t), NEW k \in 1..Len(t), j < k
        PROVE  End(t[j]) <= t[k].addr
    <3>1. j \in 1..Len(bs)
      BY <2>3, <1>0, <1>1
    <3>2. CASE k = Len(bs) + 1
      BY <3>1, <3>2, <1>1, <1>2
    <3>3. CASE k \in 1..Len(bs)
      BY <3>1, <3>3, <2>3, <1>1 DEF Laid
    <3> QED BY <3>2, <3>3, <1>3
  <2> QED BY <2>1, <2>2, <2>3, <1>1 DEF Laid
<1>5. \A q \in H : q.ptr # cur
  BY <1>2 DEF Kept
<1>6. Kept(t, H \cup {p})
  <2>1. H \cup {p} \subseteq Pointers
    BY DEF Kept
  <2>2. ASSUME NEW q \in H
        PROVE  \E k \in 1..Len(t) : t[k].addr = q.ptr /\ ~t[k].free /\ t[k].size >= q.size
    <3>1. PICK l \in 1..Len(bs) : bs[l].addr = q.ptr /\ ~bs[l].free /\ bs[l].size >= q.size
      BY DEF Kept
    <3>2. l \in 1..Len(t) /\ t[l] = bs[l]
      BY <1>0, <1>1
    <3> QED BY <3>1, <3>2
  <2>3. Len(bs) + 1 \in 1..Len(t)
    BY <1>0, <1>1
  <2>4. \A q \in H \cup {p} : \E k \in 1..Len(t) :
          t[k].addr = q.ptr /\ ~t[k].free /\ t[k].size >= q.size
    BY <2>2, <2>3, <1>1
  <2>5. \A q, r \in H \cup {p} : q.ptr = r.ptr => q = r
    BY <1>5 DEF Kept
  <2>6. ASSUME NEW k \in 1..Len(t)
        PROVE  t[k].free <=> \A q \in H \cup {p} : q.ptr # t[k].addr
    <3>1. CASE k = Len(bs) + 1
      BY <3>1, <1>1
    <3>2. CASE k \in 1..Len(bs)
      <4>1. t[k] = bs[k] /\ bs[k].addr # p.ptr
        BY <3>2, <1>0, <1>1, <1>2
      <4>2. bs[k].free <=> \A q \in H : q.ptr # bs[k].addr
        BY <3>2 DEF Kept
      <4> QED BY <4>1, <4>2
    <3> QED BY <3>1, <3>2, <1>3
  <2> QED BY <2>1, <2>4, <2>5, <2>6 DEF Kept
<1>7. Merged(t, {})
  <2> SUFFICES ASSUME NEW k \in 1..(Len(t) - 1), t[k].free, t[k + 1].free
               PROVE  FALSE
    BY DEF Merged
  <2>1. k + 1 # Len(bs) + 1
    BY <1>1
  <2>2. k \in 1..Len(bs) /\ k + 1 \in 1..Len(bs) /\ k \in 1..(Len(bs) - 1)
    BY <2>1, <1>0, <1>1
  <2> QED BY <2>2, <1>1 DEF Merged
<1> QED BY <1>4, <1>6, <1>7 DEF t

-----------------------------------------------------------------------------
(* kfree. *)

\* t is bs with block j + 1 merged into block j.
Joined(t, bs, j) ==
  /\ t \in Seq(Blocks) /\ Len(t) = Len(bs) - 1
  /\ \A k \in 1..(Len(bs) - 1) :
       /\ k < j => t[k] = bs[k]
       /\ k > j => t[k] = bs[k + 1]
  /\ t[j].addr = bs[j].addr
  /\ t[j].size = bs[j].size + BLOCK_SIZE + bs[j + 1].size
  /\ t[j].free <=> bs[j].free

(* MergeNext joins block i and its free list neighbour. *)
LEMMA MergeShape ==
  ASSUME NEW bs \in Seq(Blocks), NEW i \in 1..Len(bs), i < Len(bs), bs[i + 1].free,
         NEW t, t = MergeNext(bs, i)
  PROVE  Joined(t, bs, i)
<1>0. /\ Len(bs) \in Nat /\ i \in Nat /\ i + 1 \in 1..Len(bs) /\ BLOCK_SIZE \in Nat
      /\ bs[i] \in Blocks /\ bs[i + 1] \in Blocks
  BY LenProperties, ElementOfSeq, UnitAssumption
<1>a. PICK sum \in Nat : sum = bs[i].size + BLOCK_SIZE + bs[i + 1].size
  <2>1. bs[i].size \in Nat /\ bs[i + 1].size \in Nat
    BY <1>0, BlockEnd
  <2> QED BY <2>1, <1>0
<1> DEFINE e == [bs[i] EXCEPT !.size = sum]
           x == [bs EXCEPT ![i] = e]
<1>1. /\ e \in Blocks /\ e.addr = bs[i].addr /\ (e.free <=> bs[i].free)
      /\ e.size = sum
  BY <1>0 DEF Blocks
<1>2. t = RemoveAt(x, i + 1)
  BY <1>a DEF MergeNext
<1> HIDE DEF e
<1>3. /\ x \in Seq(Blocks) /\ Len(x) = Len(bs) /\ x[i] = e
      /\ \A k \in 1..Len(bs) : k # i => x[k] = bs[k]
  BY <1>0, <1>1, ExceptSeq, LenProperties
<1> HIDE DEF x
<1>4. PICK j \in 1..Len(x) : j = i + 1
  BY <1>0, <1>3
<1>5. t = RemoveAt(x, j)
  BY <1>2, <1>4
<1>6. /\ t \in Seq(Blocks) /\ Len(t) = Len(x) - 1
      /\ \A k \in 1..(Len(x) - 1) : t[k] = IF k < j THEN x[k] ELSE x[k + 1]
  <2>1. Without(t, x, j)
    BY <1>3, <1>5, MovedDown
  <2> QED BY <2>1 DEF Without
<1>7. ASSUME NEW k \in 1..(Len(bs) - 1)
      PROVE  /\ k < i => t[k] = bs[k]
             /\ k > i => t[k] = bs[k + 1]
             /\ k = i => t[k] = e
  <2>1. k \in 1..Len(bs) /\ k + 1 \in 1..Len(bs)
    BY <1>0
  <2>2. t[k] = IF k < j THEN x[k] ELSE x[k + 1]
    BY <1>3, <1>6
  <2> QED BY <2>1, <2>2, <1>0, <1>3, <1>4
<1>8. t[i] = e
  BY <1>0, <1>7
<1> QED BY <1>a, <1>1, <1>3, <1>6, <1>7, <1>8 DEF Joined

(* Two free list neighbours become one block: nobody's block is touched.   *)
(* They need not be neighbours in memory; what lies between them stays     *)
(* unused, since the new block is as long as both and no longer.           *)
LEMMA JoinKeeps ==
  ASSUME NEW bs, NEW cur, Laid(bs, cur), NEW H, Kept(bs, H),
         NEW j \in 1..(Len(bs) - 1), bs[j].free, bs[j + 1].free,
         NEW t, Joined(t, bs, j),
         NEW X, Merged(bs, X), \A x \in X : x = j - 1 \/ x = j
  PROVE  /\ Laid(t, cur) /\ Kept(t, H) /\ t[j].free /\ j \in 1..Len(t)
         /\ Merged(t, X \ {j})
<1>0. /\ bs \in Seq(Blocks) /\ Len(bs) \in Nat /\ j \in Nat /\ BLOCK_SIZE \in Nat
      /\ j \in 1..Len(bs) /\ j + 1 \in 1..Len(bs) /\ HEAP_START \in Nat
      /\ cur \in Nat /\ HEAP_START <= cur
  BY LenProperties, UnitAssumption, SMTT(60) DEF Laid
<1>1. \A k \in 1..Len(bs) : /\ bs[k] \in Blocks /\ bs[k].addr \in Nat /\ bs[k].size \in Nat
                            /\ End(bs[k]) = bs[k].addr + BLOCK_SIZE + bs[k].size
                            /\ End(bs[k]) \in Nat /\ bs[k].addr < End(bs[k])
  BY <1>0, BlockEnd, ElementOfSeq
<1>2. /\ Len(t) = Len(bs) - 1 /\ t \in Seq(Blocks)
      /\ t[j].addr = bs[j].addr
      /\ t[j].size = bs[j].size + BLOCK_SIZE + bs[j + 1].size
      /\ t[j].free
      /\ \A k \in 1..Len(t) : (k < j => t[k] = bs[k]) /\ (k > j => t[k] = bs[k + 1])
  BY DEF Joined
<1>3. End(t[j]) <= End(bs[j + 1]) /\ End(t[j]) \in Nat
  <2>1. End(bs[j]) <= bs[j + 1].addr
    BY <1>0 DEF Laid
  <2>2. End(t[j]) = bs[j].addr + BLOCK_SIZE + (bs[j].size + BLOCK_SIZE + bs[j + 1].size)
    BY <1>2 DEF End
  <2>3. /\ bs[j].addr \in Nat /\ bs[j].size \in Nat /\ bs[j + 1].addr \in Nat
        /\ bs[j + 1].size \in Nat /\ End(bs[j]) = bs[j].addr + BLOCK_SIZE + bs[j].size
        /\ End(bs[j + 1]) = bs[j + 1].addr + BLOCK_SIZE + bs[j + 1].size
    BY <1>0, <1>1
  <2>4. PICK a1, s1, a2, s2, B \in Nat : /\ a1 = bs[j].addr /\ s1 = bs[j].size
                                         /\ a2 = bs[j + 1].addr /\ s2 = bs[j + 1].size
                                         /\ B = BLOCK_SIZE
    BY <2>3, <1>0
  <2>5. a1 + B + s1 <= a2 /\ End(t[j]) = a1 + B + (s1 + B + s2)
        /\ End(bs[j + 1]) = a2 + B + s2
    BY <2>1, <2>2, <2>3, <2>4
  <2>6. a1 + B + (s1 + B + s2) <= a2 + B + s2 /\ a1 + B + (s1 + B + s2) \in Nat
    BY <2>5
  <2> QED BY <2>5, <2>6
<1> DEFINE Lo(k) == IF k <= j THEN k ELSE k + 1
           Hi(k) == IF k < j THEN k ELSE k + 1
<1>4. ASSUME NEW k \in 1..Len(t)
      PROVE  \E l, m \in 1..Len(bs) : l = Lo(k) /\ m = Hi(k)
  BY <1>0, <1>2
<1>5. ASSUME NEW k \in 1..Len(t), NEW l \in 1..Len(bs), NEW m \in 1..Len(bs),
             l = Lo(k), m = Hi(k)
      PROVE  /\ t[k].addr = bs[l].addr /\ End(t[k]) <= End(bs[m]) /\ End(t[k]) \in Nat
             /\ k # j => t[k] = bs[l]
  <2>1. CASE k = j
    BY <2>1, <1>0, <1>2, <1>3, <1>5
  <2>2. CASE k < j
    <3>1. t[k] = bs[l] /\ l = m
      BY <2>2, <1>0, <1>2, <1>5
    <3> QED BY <3>1, <1>1
  <2>3. CASE k > j
    <3>1. t[k] = bs[l] /\ l = m
      BY <2>3, <1>0, <1>2, <1>5
    <3> QED BY <3>1, <1>1
  <2> QED BY <2>1, <2>2, <2>3, <1>0
<1>6. Laid(t, cur)
  <2>1. ASSUME NEW k \in 1..Len(t)
        PROVE  HEAP_START <= t[k].addr /\ End(t[k]) <= cur
    <3>1. PICK l, m \in 1..Len(bs) : l = Lo(k) /\ m = Hi(k)
      BY <1>4
    <3>2. t[k].addr = bs[l].addr /\ End(t[k]) <= End(bs[m]) /\ End(t[k]) \in Nat
      BY <3>1, <1>5
    <3>3. HEAP_START <= bs[l].addr /\ End(bs[m]) <= cur
      BY DEF Laid
    <3> QED BY <3>2, <3>3, <1>0, <1>1
  <2>2. ASSUME NEW g \in 1..Len(t), NEW k \in 1..Len(t), g < k
        PROVE  End(t[g]) <= t[k].addr
    <3>1. PICK l, m \in 1..Len(bs) : l = Lo(k) /\ m = Hi(k)
      BY <1>4
    <3>2. PICK v, w \in 1..Len(bs) : v = Lo(g) /\ w = Hi(g)
      BY <1>4
    <3>3. w < l
      BY <3>1, <3>2, <2>2, <1>0, <1>2
    <3>4. End(bs[w]) <= bs[l].addr
      BY <3>3 DEF Laid
    <3>5. t[k].addr = bs[l].addr
      BY <3>1, <1>5
    <3>6. End(t[g]) <= End(bs[w]) /\ End(t[g]) \in Nat
      BY <3>2, <1>5
    <3> QED BY <3>4, <3>5, <3>6, <1>1, SMTT(60)
  <2> QED BY <2>1, <2>2, <1>0, <1>2 DEF Laid
<1>7. Kept(t, H)
  <2>1. H \subseteq Pointers /\ \A q, r \in H : q.ptr = r.ptr => q = r
    BY DEF Kept
  <2>2. ASSUME NEW q \in H
        PROVE  \E k \in 1..Len(t) : t[k].addr = q.ptr /\ ~t[k].free /\ t[k].size >= q.size
    <3>1. PICK l \in 1..Len(bs) : bs[l].addr = q.ptr /\ ~bs[l].free /\ bs[l].size >= q.size
      BY DEF Kept
    <3>2. l # j /\ l # j + 1
      BY <3>1
    <3>3. \E k \in 1..Len(t) : t[k] = bs[l]
      <4>1. CASE l < j
        BY <4>1, <1>0, <1>2
      <4>2. CASE l > j + 1
        <5>1. l - 1 \in 1..Len(t) /\ l - 1 > j /\ (l - 1) + 1 = l
          BY <4>2, <1>0, <1>2
        <5> QED BY <5>1, <1>2
      <4> QED BY <3>2, <4>1, <4>2, <1>0
    <3> QED BY <3>1, <3>3
  <2>3. ASSUME NEW k \in 1..Len(t)
        PROVE  t[k].free <=> \A q \in H : q.ptr # t[k].addr
    <3>1. PICK l, m \in 1..Len(bs) : l = Lo(k) /\ m = Hi(k)
      BY <1>4
    <3>2. bs[l].free <=> \A q \in H : q.ptr # bs[l].addr
      BY DEF Kept
    <3>3. CASE k = j
      <4>1. l = j
        BY <3>1, <3>3, <1>0
      <4> QED BY <4>1, <3>2, <3>3, <1>2
    <3>4. CASE k # j
      <4>1. t[k] = bs[l]
        BY <3>1, <3>4, <1>5
      <4> QED BY <4>1, <3>2
    <3> QED BY <3>3, <3>4
  <2> QED BY <2>1, <2>2, <2>3 DEF Kept
<1>8. Merged(t, X \ {j})
  <2> SUFFICES ASSUME NEW k \in 1..(Len(t) - 1), k \notin X \ {j}, t[k].free, t[k + 1].free
               PROVE  FALSE
    BY DEF Merged
  <2>0. k \in 1..Len(t) /\ k + 1 \in 1..Len(t) /\ k \in Nat
    BY <1>0, <1>2
  <2>1. CASE k = j
    <3>1. j + 1 \in 1..(Len(bs) - 1) /\ t[j + 1] = bs[(j + 1) + 1] /\ j + 1 \notin X
      BY <2>0, <2>1, <1>0, <1>2
    <3> QED BY <3>1, <2>1 DEF Merged
  <2>2. CASE k > j
    <3>1. /\ t[k] = bs[k + 1] /\ t[k + 1] = bs[(k + 1) + 1]
          /\ k + 1 \in 1..(Len(bs) - 1) /\ ~(k + 1 <= j)
      BY <2>0, <2>2, <1>0, <1>2
    <3>2. k + 1 # j - 1 /\ k + 1 # j
      BY <2>0, <2>2, <1>0
    <3>3. k + 1 \notin X
      BY <3>2
    <3> QED BY <3>1, <3>3 DEF Merged
  <2>3. CASE k < j
    <3>1. /\ bs[k].free /\ k \in 1..(Len(bs) - 1) /\ k \notin X
      BY <2>0, <2>3, <1>0, <1>2
    <3>2. bs[k + 1].free
      BY <2>0, <2>3, <1>0, <1>2
    <3> QED BY <3>1, <3>2 DEF Merged
  <2> QED BY <2>0, <2>1, <2>2, <2>3, <1>0
<1> QED BY <1>0, <1>2, <1>6, <1>7, <1>8

\* t is bs with block i marked free.
Marked(t, bs, i) ==
  /\ t \in Seq(Blocks) /\ Len(t) = Len(bs)
  /\ \A k \in 1..Len(bs) : k # i => t[k] = bs[k]
  /\ t[i].addr = bs[i].addr /\ t[i].size = bs[i].size /\ t[i].free

(* The freed block is marked; it may have free neighbours on both sides. *)
LEMMA MarkKeeps ==
  ASSUME NEW bs, NEW cur, Laid(bs, cur), NEW H, Kept(bs, H), Merged(bs, {}),
         NEW p \in H, NEW i \in 1..Len(bs), bs[i].addr = p.ptr,
         NEW t, Marked(t, bs, i)
  PROVE  /\ Laid(t, cur) /\ Kept(t, H \ {p}) /\ Merged(t, {i - 1, i})
         /\ t[i].free /\ Len(t) = Len(bs)
<1>0. bs \in Seq(Blocks) /\ Len(bs) \in Nat /\ i \in Nat
  BY LenProperties DEF Laid
<1>1. /\ t \in Seq(Blocks) /\ Len(t) = Len(bs)
      /\ \A k \in 1..Len(bs) : k # i => t[k] = bs[k]
      /\ t[i].addr = bs[i].addr /\ t[i].size = bs[i].size /\ t[i].free
  BY DEF Marked
<1>2. \A k \in 1..Len(bs) : t[k].addr = bs[k].addr /\ t[k].size = bs[k].size
  BY <1>1
<1>3. Laid(t, cur)
  BY <1>1, <1>2, SameLayout
<1>4. \A k \in 1..Len(bs) : bs[k].addr = bs[i].addr => k = i
  BY Apart
<1>5. Kept(t, H \ {p})
  <2>1. H \ {p} \subseteq Pointers /\ \A q, r \in H \ {p} : q.ptr = r.ptr => q = r
    BY DEF Kept
  <2>2. \A q \in H \ {p} : q.ptr # p.ptr
    BY DEF Kept
  <2>3. ASSUME NEW q \in H \ {p}
        PROVE  \E k \in 1..Len(t) : t[k].addr = q.ptr /\ ~t[k].free /\ t[k].size >= q.size
    <3>1. PICK l \in 1..Len(bs) : bs[l].addr = q.ptr /\ ~bs[l].free /\ bs[l].size >= q.size
      BY DEF Kept
    <3>2. l # i
      BY <3>1, <2>2
    <3> QED BY <3>1, <3>2, <1>1
  <2>4. ASSUME NEW k \in 1..Len(t)
        PROVE  t[k].free <=> \A q \in H \ {p} : q.ptr # t[k].addr
    <3>1. CASE k = i
      BY <3>1, <1>1, <2>2
    <3>2. CASE k # i
      <4>1. t[k] = bs[k] /\ p.ptr # bs[k].addr
        BY <3>2, <1>1, <1>4
      <4>2. bs[k].free <=> \A q \in H : q.ptr # bs[k].addr
        BY <1>1 DEF Kept
      <4> QED BY <4>1, <4>2
    <3> QED BY <3>1, <3>2
  <2> QED BY <2>1, <2>3, <2>4 DEF Kept
<1>6. Merged(t, {i - 1, i})
  <2> SUFFICES ASSUME NEW k \in 1..(Len(t) - 1), k # i - 1, k # i, t[k].free, t[k + 1].free
               PROVE  FALSE
    BY DEF Merged
  <2>1. /\ k \in 1..Len(bs) /\ k + 1 \in 1..Len(bs) /\ k + 1 # i
        /\ k \in 1..(Len(bs) - 1)
    BY <1>0, <1>1
  <2>2. t[k] = bs[k] /\ t[k + 1] = bs[k + 1]
    BY <2>1, <1>1
  <2> QED BY <2>1, <2>2 DEF Merged
<1> QED BY <1>1, <1>3, <1>5, <1>6

(* kfree gives the block back, merged with its free list neighbours. *)
LEMMA FreeKeeps ==
  ASSUME NEW h, NEW cur, Laid(h.blocks, cur), NEW H, Kept(h.blocks, H),
         Merged(h.blocks, {}), NEW p \in H
  PROVE  \E t : /\ Kfree(h, p.ptr) = [h EXCEPT !.blocks = t]
                /\ Laid(t, cur) /\ Kept(t, H \ {p}) /\ Merged(t, {})
<1> DEFINE bs == h.blocks
           i == CHOOSE j \in DOMAIN bs : bs[j].addr = p.ptr
           x == SetFree(bs, i, TRUE)
           y == MergeNext(x, i)
           t == MergePrev(y, i)
<1>1. i \in 1..Len(bs) /\ bs[i].addr = p.ptr
  <2>1. DOMAIN bs = 1..Len(bs)
    BY LenProperties DEF Laid
  <2> QED BY <2>1 DEF Kept
<1>2. Kfree(h, p.ptr) = [h EXCEPT !.blocks = t]
  BY Zenon DEF Kfree, SetFree
<1> HIDE DEF bs, i
<1>3. Laid(bs, cur) /\ Kept(bs, H) /\ Merged(bs, {}) /\ Len(bs) \in Nat
  BY LenProperties DEF bs, Laid
<1>4. /\ Laid(x, cur) /\ Kept(x, H \ {p}) /\ Merged(x, {i - 1, i})
      /\ x[i].free /\ Len(x) = Len(bs)
  <2>1. bs \in Seq(Blocks)
    BY <1>3 DEF Laid
  <2>2. Marked(x, bs, i)
    BY <2>1, <1>1, Flagged, Zenon DEF Marked
  <2> HIDE DEF x
  <2> QED BY <2>2, <1>1, <1>3, MarkKeeps
<1> HIDE DEF x
<1>5. /\ Laid(y, cur) /\ Kept(y, H \ {p}) /\ Merged(y, {i - 1})
      /\ y[i].free /\ i \in 1..Len(y) /\ Len(y) \in Nat
  <2>1. CASE i < Len(x) /\ x[i + 1].free
    <3>1. Joined(y, x, i)
      BY <2>1, <1>1, <1>4, MergeShape DEF Laid
    <3>2. i \in 1..(Len(x) - 1) /\ i \in Nat
      BY <2>1, <1>1, <1>3, <1>4
    <3> DEFINE X == {i - 1, i}
               G == H \ {p}
    <3>3. (\A v \in X : v = i - 1 \/ v = i) /\ Merged(x, X) /\ Kept(x, G)
      BY <1>4
    <3>4. X \ {i} = {i - 1}
      BY <3>2
    <3>5. Laid(y, cur) /\ Kept(y, G) /\ y[i].free /\ i \in 1..Len(y) /\ Merged(y, X \ {i})
      <4> HIDE DEF y, X, G
      <4>1. Laid(x, cur) /\ x[i].free /\ x[i + 1].free
        BY <2>1, <1>4
      <4> QED BY <3>1, <3>2, <3>3, <4>1, JoinKeeps
    <3> QED BY <3>4, <3>5, LenProperties DEF Laid
  <2>2. CASE ~(i < Len(x) /\ x[i + 1].free)
    <3>1. y = x
      BY <2>2 DEF MergeNext
    <3> HIDE DEF y
    <3>2. Merged(x, {i - 1})
      <4>1. i \notin 1..(Len(x) - 1) \/ ~x[i + 1].free
        BY <2>2, <1>1, <1>3, <1>4
      <4> QED BY <4>1, <1>4 DEF Merged
    <3> QED BY <3>1, <3>2, <1>1, <1>3, <1>4
  <2> QED BY <2>1, <2>2
<1> HIDE DEF y
<1>6. Laid(t, cur) /\ Kept(t, H \ {p}) /\ Merged(t, {})
  <2>1. CASE i > 1 /\ y[i - 1].free
    <3>1. PICK g \in 1..(Len(y) - 1) : g = i - 1 /\ g + 1 = i /\ g < Len(y) /\ g \in 1..Len(y)
      BY <2>1, <1>5
    <3>2. t = MergeNext(y, g) /\ y[g].free /\ y[g + 1].free
      BY <2>1, <3>1, <1>5 DEF MergePrev
    <3> HIDE DEF t
    <3>3. Joined(t, y, g)
      BY <3>1, <3>2, <1>5, MergeShape DEF Laid
    <3> DEFINE X == {g}
               G == H \ {p}
    <3>4. (\A v \in X : v = g - 1 \/ v = g) /\ Merged(y, X) /\ Kept(y, G)
      BY <3>1, <1>5
    <3>5. X \ {g} = {}
      OBVIOUS
    <3>6. Laid(t, cur) /\ Kept(t, G) /\ Merged(t, X \ {g})
      <4> HIDE DEF X, G
      <4>1. Laid(y, cur)
        BY <1>5
      <4>2. y[g].free /\ y[g + 1].free
        BY <3>2
      <4>3. g \in 1..(Len(y) - 1)
        BY <3>1
      <4>4. /\ Laid(t, cur) /\ Kept(t, G) /\ t[g].free /\ g \in 1..Len(t)
            /\ Merged(t, X \ {g})
        BY <3>3, <3>4, <4>1, <4>2, <4>3, JoinKeeps
      <4> QED BY <4>4
    <3> QED BY <3>5, <3>6
  <2>2. CASE ~(i > 1 /\ y[i - 1].free)
    <3>1. t = y
      BY <2>2 DEF MergePrev
    <3> HIDE DEF t
    <3>2. i - 1 \notin 1..(Len(y) - 1) \/ ~y[i - 1].free
      BY <2>2, <1>5
    <3>3. Merged(y, {})
      BY <3>2, <1>5 DEF Merged
    <3> QED BY <3>1, <3>3, <1>5
  <2> QED BY <2>1, <2>2
<1> QED BY <1>2, <1>6

-----------------------------------------------------------------------------
(* The calls. *)

(* More pages mapped above the blocks disturb nothing. *)
LEMMA LaidBelow ==
  ASSUME NEW bs, NEW cur, Laid(bs, cur), NEW top \in Nat, cur <= top
  PROVE  Laid(bs, top)
<1>1. \A k \in 1..Len(bs) : End(bs[k]) \in Nat /\ End(bs[k]) <= cur
  BY BlockEnd, ElementOfSeq DEF Laid
<1>2. cur \in Nat /\ HEAP_START \in Nat /\ HEAP_START <= cur
  BY UnitAssumption DEF Laid
<1>3. HEAP_START <= top /\ \A k \in 1..Len(bs) : End(bs[k]) <= top
  BY <1>1, <1>2
<1> QED BY <1>3 DEF Laid

\* What callers hold once a call for n bytes has returned r.
After(H, r, n) == IF r.ptr = NULL THEN H ELSE H \cup {[ptr |-> r.ptr, size |-> n]}

\* The call leaves a sound heap, and its pointer is nobody else's.
Good(r, H, n) == /\ Sound(r.h, After(H, r, n))
                 /\ r.ptr # NULL => \A q \in H : q.ptr # r.ptr

(* expand_heap and the end of kmalloc_aligned, when the pages suffice. *)
LEMMA ExpandKeeps ==
  ASSUME NEW h, NEW H, Sound(h, H), NEW n \in Sizes, NEW size \in Nat, size >= n,
         NEW pages \in Nat, pages * PAGE_SIZE \in Nat,
         pages * PAGE_SIZE >= BLOCK_SIZE + size
  PROVE  Good(Expand(h, pages, size), H, n)
<1> DEFINE r == Expand(h, pages, size)
<1>0. /\ h \in Heaps /\ h.blocks \in Seq(Blocks) /\ h.current \in Nat /\ h.avail \in Nat
      /\ h.avail <= MaxPages /\ PAGE_SIZE \in Nat /\ BLOCK_SIZE \in Nat /\ MaxPages \in Nat
      /\ HEAP_START \in Nat /\ HEAP_START > 0 /\ HEAP_START <= h.current
  BY UnitAssumption DEF Sound, Heaps, Laid
<1>1. CASE h.avail < pages
  <2>1. PICK top \in Nat : top = h.current + h.avail * PAGE_SIZE /\ h.current <= top
    BY <1>0, Times, SMTT(60)
  <2>2. /\ r.h = [h EXCEPT !.current = top, !.avail = 0]
        /\ r.ptr = NULL
    BY <1>1, <2>1 DEF Expand
  <2> HIDE DEF r
  <2>3. r.h \in Heaps /\ r.h.blocks = h.blocks /\ r.h.current = top
    <3>1. 0 \in 0..MaxPages
      BY <1>0
    <3> QED BY <3>1, <2>2, <1>0 DEF Heaps
  <2>4. Laid(h.blocks, top)
    BY <2>1, LaidBelow DEF Sound
  <2> QED BY <2>2, <2>3, <2>4 DEF Good, Sound, After, r
<1>2. CASE ~(h.avail < pages)
  <2> DEFINE b == Block(h.current, size, FALSE)
             t == Append(h.blocks, b)
             p == [ptr |-> h.current, size |-> n]
  <2>1. PICK top \in Nat : /\ top = h.current + pages * PAGE_SIZE
                           /\ h.current + BLOCK_SIZE + size <= top
    BY <1>0
  <2>2. b \in Blocks /\ b.addr = h.current /\ b.size = size /\ ~b.free
    BY <1>0 DEF Block, Blocks
  <2>3. /\ r.h = [h EXCEPT !.blocks = t, !.current = top, !.avail = h.avail - pages]
        /\ r.ptr = h.current
    BY <1>2, <2>1 DEF Expand
  <2>4. p \in Pointers /\ p.ptr = h.current /\ p.size = n
    BY <1>0 DEF Pointers
  <2> HIDE DEF b, p, r
  <2>5. End(b) <= top
    BY <2>1, <2>2, BlockEnd
  <2>6. Laid(t, top) /\ Kept(t, H \cup {p}) /\ Merged(t, {}) /\ t \in Seq(Blocks)
    BY <2>2, <2>4, <2>5, GrownKeeps DEF Sound, Laid
  <2> HIDE DEF t
  <2>7. h.avail - pages \in 0..MaxPages
    BY <1>0, <1>2
  <2>8. r.h \in Heaps /\ r.h.blocks = t /\ r.h.current = top
    BY <2>3, <2>6, <2>7, <1>0 DEF Heaps
  <2>9. \A q \in H : q.ptr # h.current
    <3>1. TAKE q \in H
    <3>2. PICK i \in 1..Len(h.blocks) : h.blocks[i].addr = q.ptr
      BY DEF Sound, Kept
    <3>3. h.blocks[i].addr < h.current
      BY Apart DEF Sound
    <3> QED BY <3>2, <3>3, <1>0
  <2>10. r.ptr # NULL
    BY <2>3, <1>0 DEF NULL
  <2>11. After(H, r, n) = H \cup {p}
    BY <2>3, <2>10 DEF After, p
  <2> QED BY <2>3, <2>6, <2>8, <2>9, <2>11 DEF Good, Sound, r
<1> QED BY <1>1, <1>2

(* kmalloc and kmalloc_aligned. *)
LEMMA MallocKeeps ==
  ASSUME NEW h, NEW H, Sound(h, H), NEW n \in Sizes
  PROVE  Good(Kmalloc(h, n), H, n) /\ Good(KmallocAligned(h, n), H, n)
<1>0. /\ h \in Heaps /\ h.blocks \in Seq(Blocks) /\ h.current \in Nat /\ n \in Nat
      /\ PAGE_SIZE \in Nat /\ BLOCK_SIZE \in Nat /\ HEAP_START \in Nat /\ HEAP_START > 0
  BY UnitAssumption DEF Sound, Heaps
<1>1. CASE BadSize(n)
  <2>1. Kmalloc(h, n) = Failed(h) /\ KmallocAligned(h, n) = Failed(h)
    BY <1>1 DEF Kmalloc, KmallocAligned
  <2>2. Failed(h).h = h /\ Failed(h).ptr = NULL
    BY DEF Failed
  <2> QED BY <2>1, <2>2 DEF Good, After
<1>2. CASE ~BadSize(n)
  <2> DEFINE size == AlignUp(n)
             pages == PagesFor(size)
             i == FindFree(h.blocks, size)
  <2>1. /\ size \in Nat /\ size >= n /\ pages \in Nat /\ pages * PAGE_SIZE \in Nat
        /\ pages * PAGE_SIZE >= BLOCK_SIZE + size
    BY <1>2, PagesHold
  <2>2. KmallocAligned(h, n) = Expand(h, pages, pages * PAGE_SIZE - BLOCK_SIZE)
    BY <1>2 DEF KmallocAligned
  <2>3. i # 0 => Kmalloc(h, n) = [h |-> [h EXCEPT !.blocks = Split(h.blocks, i, size)],
                                  ptr |-> h.blocks[i].addr]
    BY <1>2 DEF Kmalloc
  <2>4. i = 0 => Kmalloc(h, n) = Expand(h, pages, size)
    BY <1>2 DEF Kmalloc
  <2>5. i # 0 => i \in 1..Len(h.blocks) /\ h.blocks[i].free /\ h.blocks[i].size >= size
    BY <1>0, FoundIsFree
  <2> HIDE DEF size, pages, i
  <2>6. Good(KmallocAligned(h, n), H, n)
    <3>1. PICK all \in Nat : /\ all = pages * PAGE_SIZE - BLOCK_SIZE /\ all >= n
                             /\ pages * PAGE_SIZE >= BLOCK_SIZE + all
      BY <2>1, <1>0
    <3> QED BY <3>1, <2>1, <2>2, ExpandKeeps
  <2>7. CASE i = 0
    BY <2>1, <2>4, <2>6, <2>7, ExpandKeeps
  <2>8. CASE i # 0
    <3> DEFINE r == Kmalloc(h, n)
               t == Split(h.blocks, i, size)
               p == [ptr |-> h.blocks[i].addr, size |-> n]
    <3>1. r.h = [h EXCEPT !.blocks = t] /\ r.ptr = h.blocks[i].addr
      BY <2>3, <2>8
    <3>2. /\ h.blocks[i] \in Blocks /\ h.blocks[i].addr \in Nat
          /\ HEAP_START <= h.blocks[i].addr
      BY <2>5, <2>8, <1>0, ElementOfSeq, BlockEnd DEF Sound, Laid
    <3>3. p \in Pointers /\ p.ptr = h.blocks[i].addr /\ p.size = n
      BY <3>2 DEF Pointers
    <3> HIDE DEF r, p
    <3>4. Laid(t, h.current) /\ Kept(t, H \cup {p}) /\ Merged(t, {})
      BY <3>3, <2>1, <2>5, <2>8, SplitKeeps DEF Sound
    <3>5. t \in Seq(Blocks)
      BY <3>4 DEF Laid
    <3> HIDE DEF t
    <3>6. r.h \in Heaps /\ r.h.blocks = t /\ r.h.current = h.current
      BY <3>1, <3>5, <1>0 DEF Heaps
    <3>7. r.ptr # NULL
      BY <3>1, <3>2, <1>0 DEF NULL
    <3>8. After(H, r, n) = H \cup {p}
      BY <3>1, <3>7 DEF After, p
    <3>9. \A q \in H : q.ptr # r.ptr
      BY <3>1, <2>5, <2>8 DEF Sound, Kept
    <3>10. Good(r, H, n)
      BY <3>4, <3>6, <3>8, <3>9 DEF Good, Sound
    <3> QED BY <3>10, <2>6 DEF r
  <2> QED BY <2>7, <2>8
<1> QED BY <1>1, <1>2

(* A call that may give a pointer, as the action Take writes it down. *)
LEMMA TakeIsAfter ==
  ASSUME NEW r, NEW n, NEW kept, Take(r, n, kept)
  PROVE  heap' = r.h /\ held' = After(kept, r, n)
BY DEF Take, After

(* Free. *)
LEMMA FreeStep ==
  ASSUME Inv, NEW p \in held, Free(p)
  PROVE  Inv'
<1>1. PICK t : /\ Kfree(heap, p.ptr) = [heap EXCEPT !.blocks = t]
               /\ Laid(t, heap.current) /\ Kept(t, held \ {p}) /\ Merged(t, {})
  BY FreeKeeps DEF Inv, Sound
<1>2. t \in Seq(Blocks)
  BY <1>1 DEF Laid
<1>3. heap' = [heap EXCEPT !.blocks = t] /\ held' = held \ {p}
  BY <1>1 DEF Free
<1>4. heap' \in Heaps /\ heap'.blocks = t /\ heap'.current = heap.current
  BY <1>2, <1>3 DEF Inv, Sound, Heaps
<1> QED BY <1>1, <1>3, <1>4 DEF Inv, Sound

(* krealloc. *)
LEMMA ReallocStep ==
  ASSUME Inv, NEW p \in held, NEW n \in Sizes, Realloc(p, n)
  PROVE  Inv'
<1> DEFINE bs == heap.blocks
           b == CHOOSE c \in ToSet(bs) : c.addr = p.ptr
           r == Kmalloc(heap, n)
<1>0. Sound(heap, held) /\ bs \in Seq(Blocks) /\ DOMAIN bs = 1..Len(bs)
  BY LenProperties DEF Inv, Sound, Laid
<1>1. PICK i \in 1..Len(bs) : /\ bs[i].addr = p.ptr /\ ~bs[i].free /\ bs[i].size >= p.size
                              /\ \A j \in 1..Len(bs) : bs[j].addr = p.ptr => j = i
  BY <1>0, HeldBlock DEF Sound
<1>2. b = bs[i]
  <2>1. bs[i] \in ToSet(bs) /\ \A c \in ToSet(bs) : c.addr = p.ptr => c = bs[i]
    BY <1>0, <1>1 DEF ToSet
  <2> QED BY <2>1, <1>1
<1>3. CASE n = 0
  BY <1>3, FreeStep DEF Realloc
<1>4. CASE n # 0 /\ b.size >= n
  <2> DEFINE q == [ptr |-> p.ptr, size |-> n]
             G == (held \ {p}) \cup {q}
  <2>1. held' = G /\ heap' = heap
    BY <1>4 DEF Realloc
  <2>2. Kept(bs, held)
    BY <1>0 DEF Sound
  <2>3. p \in Pointers /\ q \in Pointers /\ q.ptr = p.ptr /\ q.size = n
    BY <2>2 DEF Kept, Pointers
  <2> HIDE DEF q
  <2>4. \A g \in held \ {p} : g.ptr # p.ptr
    BY <2>2 DEF Kept
  <2>5. Kept(bs, G)
    <3>1. G \subseteq Pointers
      BY <2>2, <2>3 DEF Kept
    <3>2. \A g \in G : \E k \in 1..Len(bs) :
            bs[k].addr = g.ptr /\ ~bs[k].free /\ bs[k].size >= g.size
      BY <2>2, <2>3, <1>1, <1>2, <1>4 DEF Kept
    <3>3. \A g, k \in G : g.ptr = k.ptr => g = k
      BY <2>2, <2>3, <2>4 DEF Kept
    <3>4. \A a : (\A g \in G : g.ptr # a) <=> (\A g \in held : g.ptr # a)
      BY <2>3
    <3>5. \A k \in 1..Len(bs) : bs[k].free <=> \A g \in held : g.ptr # bs[k].addr
      BY <2>2 DEF Kept
    <3>6. \A k \in 1..Len(bs) : bs[k].free <=> \A g \in G : g.ptr # bs[k].addr
      BY <3>4, <3>5
    <3> QED BY <3>1, <3>2, <3>3, <3>6 DEF Kept
  <2> QED BY <2>1, <2>5, <1>0 DEF Inv, Sound
<1>5. CASE n # 0 /\ ~(b.size >= n) /\ r.ptr = NULL
  <2>1. heap' = r.h /\ held' = held
    BY <1>5 DEF Realloc
  <2>2. Good(r, held, n)
    BY <1>0, MallocKeeps
  <2> HIDE DEF r
  <2> QED BY <2>1, <2>2, <1>5 DEF Inv, Good, After
<1>6. CASE n # 0 /\ ~(b.size >= n) /\ r.ptr # NULL
  <2>1. Take([r EXCEPT !.h = Kfree(r.h, p.ptr)], n, held \ {p})
    BY <1>6 DEF Realloc
  <2>2. Good(r, held, n)
    BY <1>0, MallocKeeps
  <2>3. r = [h |-> r.h, ptr |-> r.ptr]
    BY DEF Kmalloc, Failed, Expand
  <2> HIDE DEF r, b, bs
  <2> DEFINE q == [ptr |-> r.ptr, size |-> n]
             G == held \cup {q}
             s == [r EXCEPT !.h = Kfree(r.h, p.ptr)]
  <2>4. Sound(r.h, G) /\ \A g \in held : g.ptr # r.ptr
    BY <2>2, <1>6 DEF Good, After
  <2>5. p \in G /\ G \ {p} = (held \ {p}) \cup {q}
    BY <2>4
  <2>6. s.h = Kfree(r.h, p.ptr) /\ s.ptr = r.ptr
    BY <2>3
  <2>7. heap' = Kfree(r.h, p.ptr) /\ held' = (held \ {p}) \cup {q}
    BY <2>1, <2>6, <1>6, TakeIsAfter DEF After
  <2> HIDE DEF q, G, s
  <2>8. PICK t : /\ Kfree(r.h, p.ptr) = [r.h EXCEPT !.blocks = t]
                 /\ Laid(t, r.h.current) /\ Kept(t, G \ {p}) /\ Merged(t, {})
    BY <2>4, <2>5, FreeKeeps DEF Sound
  <2>9. t \in Seq(Blocks)
    BY <2>8 DEF Laid
  <2>10. heap' \in Heaps /\ heap'.blocks = t /\ heap'.current = r.h.current
    BY <2>4, <2>7, <2>8, <2>9 DEF Sound, Heaps
  <2> QED BY <2>5, <2>7, <2>8, <2>10 DEF Inv, Sound
<1> QED BY <1>3, <1>4, <1>5, <1>6

-----------------------------------------------------------------------------
(* The heap starts sound. *)
LEMMA InitSound ==
  Init => Inv
<1> SUFFICES ASSUME Init
             PROVE  Inv
  OBVIOUS
<1>0. /\ {PAGE_SIZE, BLOCK_SIZE, HEAP_START, InitPages, MaxPages} \subseteq Nat
      /\ PAGE_SIZE > BLOCK_SIZE
  BY UnitAssumption
<1> DEFINE m(a) == Min({a, InitPages})
           first(k) == Block(HEAP_START, k * PAGE_SIZE - BLOCK_SIZE, TRUE)
<1>1. PICK avail \in 0..MaxPages :
        /\ heap = [blocks |-> IF m(avail) = 0 THEN << >> ELSE <<first(m(avail))>>,
                   current |-> HEAP_START + m(avail) * PAGE_SIZE,
                   avail |-> avail - m(avail)]
        /\ held = {}
  BY DEF Init
<1>2. PICK k \in Nat : k = m(avail) /\ k <= avail
  <2>1. {avail, InitPages} \in SUBSET Nat /\ {avail, InitPages} # {}
    BY <1>0
  <2>2. Min({avail, InitPages}) \in {avail, InitPages}
    BY <2>1, MinIsMember
  <2>3. Min({avail, InitPages}) <= avail
    BY <1>0 DEF Min
  <2> QED BY <2>1, <2>2, <2>3
<1> HIDE DEF m
<1>3. PICK all \in Nat : all = k * PAGE_SIZE /\ (k > 0 => all >= PAGE_SIZE)
  BY <1>0, Times
<1>4. /\ heap.current = HEAP_START + all /\ heap.avail = avail - k
      /\ heap.blocks = IF k = 0 THEN << >> ELSE <<first(k)>>
      /\ heap = [blocks |-> heap.blocks, current |-> heap.current, avail |-> heap.avail]
  BY <1>1, <1>2, <1>3
<1>5. CASE k = 0
  <2>1. heap.blocks = << >> /\ Len(heap.blocks) = 0 /\ heap.blocks \in Seq(Blocks)
    BY <1>4, <1>5
  <2>2. heap.current \in Nat /\ HEAP_START <= heap.current /\ heap.avail \in 0..MaxPages
    BY <1>0, <1>2, <1>3, <1>4
  <2>3. heap \in Heaps
    BY <1>4, <2>1, <2>2 DEF Heaps
  <2>4. held = {} /\ \A i \in 1..Len(heap.blocks) : FALSE
    BY <1>1, <2>1
  <2>5. Laid(heap.blocks, heap.current)
    BY <2>1, <2>2, <2>4 DEF Laid
  <2>6. Kept(heap.blocks, held)
    BY <2>4 DEF Kept
  <2>7. Merged(heap.blocks, {})
    BY <2>1 DEF Merged
  <2> QED BY <2>3, <2>5, <2>6, <2>7 DEF Inv, Sound
<1>6. CASE k # 0
  <2> DEFINE f == first(k)
  <2>1. /\ f \in Blocks /\ f.addr = HEAP_START /\ f.size = all - BLOCK_SIZE /\ f.free
    BY <1>0, <1>3, <1>6 DEF Blocks, Block
  <2>2. heap.blocks = <<f>>
    BY <1>4, <1>6
  <2> HIDE DEF f
  <2>3. heap.blocks \in Seq(Blocks) /\ Len(heap.blocks) = 1 /\ heap.blocks[1] = f
    BY <2>1, <2>2
  <2>4. End(f) = HEAP_START + all
    BY <2>1, <1>0, <1>3, <1>6, BlockEnd
  <2>5. heap.current \in Nat /\ HEAP_START <= heap.current /\ heap.avail \in 0..MaxPages
    BY <1>0, <1>2, <1>3, <1>4
  <2>6. heap \in Heaps
    BY <1>4, <2>3, <2>5 DEF Heaps
  <2>7. /\ held = {} /\ HEAP_START \in Nat /\ End(f) = heap.current
        /\ \A i \in 1..Len(heap.blocks) : i = 1
    BY <1>0, <1>1, <1>4, <2>3, <2>4
  <2>8. Laid(heap.blocks, heap.current)
    <3>1. \A i \in 1..Len(heap.blocks) : /\ HEAP_START <= heap.blocks[i].addr
                                          /\ End(heap.blocks[i]) <= heap.current
      BY <2>1, <2>3, <2>5, <2>7
    <3>2. \A i, j \in 1..Len(heap.blocks) : ~(i < j)
      BY <2>7
    <3> QED BY <2>3, <2>5, <3>1, <3>2 DEF Laid
  <2>9. Kept(heap.blocks, held)
    BY <2>1, <2>3, <2>7 DEF Kept
  <2>10. Merged(heap.blocks, {})
    BY <2>3 DEF Merged
  <2> QED BY <2>6, <2>8, <2>9, <2>10 DEF Inv, Sound
<1> QED BY <1>5, <1>6

(* Every call keeps it sound. *)
LEMMA NextSound ==
  Inv /\ [Next]_vars => Inv'
<1> SUFFICES ASSUME Inv, [Next]_vars
             PROVE  Inv'
  OBVIOUS
<1>1. ASSUME NEW n \in Sizes, Malloc(n)
      PROVE  Inv'
  BY <1>1, MallocKeeps, TakeIsAfter DEF Malloc, Inv, Good
<1>2. ASSUME NEW n \in Sizes, MallocAligned(n)
      PROVE  Inv'
  BY <1>2, MallocKeeps, TakeIsAfter DEF MallocAligned, Inv, Good
<1>3. ASSUME NEW p \in held, Free(p)
      PROVE  Inv'
  BY <1>3, FreeStep
<1>4. ASSUME NEW p \in held, NEW n \in Sizes, Realloc(p, n)
      PROVE  Inv'
  BY <1>4, ReallocStep
<1>5. CASE UNCHANGED vars
  BY <1>5 DEF vars, Inv
<1>6. CASE PageTaken \/ PageFreed
  <2>1. PICK a \in 0..MaxPages : heap' = [heap EXCEPT !.avail = a] /\ held' = held
    <3>1. heap.avail \in 0..MaxPages /\ MaxPages \in Nat
      BY UnitAssumption DEF Inv, Sound, Heaps
    <3>2. CASE PageTaken
      <4>1. heap.avail - 1 \in 0..MaxPages
        BY <3>1, <3>2 DEF PageTaken
      <4> QED BY <3>2, <4>1 DEF PageTaken
    <3>3. CASE PageFreed
      <4>1. heap.avail + 1 \in 0..MaxPages
        BY <3>1, <3>3 DEF PageFreed
      <4> QED BY <3>3, <4>1 DEF PageFreed
    <3> QED BY <1>6, <3>2, <3>3
  <2>2. heap' \in Heaps /\ heap'.blocks = heap.blocks /\ heap'.current = heap.current
    BY <2>1 DEF Inv, Sound, Heaps
  <2> QED BY <2>1, <2>2 DEF Inv, Sound
<1> QED BY <1>1, <1>2, <1>3, <1>4, <1>5, <1>6 DEF Next

(* Every call of the allocator, whether it succeeds or fails, keeps the list sound. *)
LEMMA AlwaysSound ==
  Spec => []Inv
BY InitSound, NextSound, PTL DEF Spec

(***************************************************************************)
(* heap.c: whatever is allocated, resized and freed in whatever order, and *)
(* wherever the pages run out, no block reaches into the next one or out   *)
(* of the mapped part of the heap.                                         *)
(***************************************************************************)
THEOREM BlocksStayDisjoint ==
  Spec => []BlocksDisjoint
<1>1. ASSUME Inv
      PROVE  BlocksDisjoint
  <2>1. TypeOK
    BY <1>1 DEF Inv, Sound, Heaps, Kept, TypeOK, Blocks, Pointers
  <2>2. DOMAIN heap.blocks = 1..Len(heap.blocks) /\ Len(heap.blocks) \in Nat
    BY <1>1, LenProperties DEF Inv, Sound, Laid
  <2>3. ASSUME NEW i \in 1..Len(heap.blocks)
        PROVE  /\ heap.blocks[i].addr >= HEAP_START
               /\ End(heap.blocks[i]) <= IF i < Len(heap.blocks) THEN heap.blocks[i + 1].addr
                                                                 ELSE heap.current
    <3>1. HEAP_START <= heap.blocks[i].addr /\ End(heap.blocks[i]) <= heap.current
      BY <1>1 DEF Inv, Sound, Laid
    <3>2. i < Len(heap.blocks) => i + 1 \in 1..Len(heap.blocks) /\ i < i + 1
      BY <2>2
    <3>3. i < Len(heap.blocks) => End(heap.blocks[i]) <= heap.blocks[i + 1].addr
      BY <1>1, <3>2 DEF Inv, Sound, Laid
    <3>4. heap.blocks[i].addr \in Nat /\ HEAP_START \in Nat
      BY <1>1, BlockEnd, ElementOfSeq, UnitAssumption DEF Inv, Sound, Laid
    <3> QED BY <3>1, <3>3, <3>4
  <2> QED BY <2>1, <2>2, <2>3 DEF BlocksDisjoint
<1> QED BY <1>1, AlwaysSound, PTL

(***************************************************************************)
(* heap.c: every pointer that kmalloc, kmalloc_aligned or krealloc gave    *)
(* and that was not freed since has its bytes, and shares them with        *)
(* nobody.                                                                 *)
(***************************************************************************)
THEOREM HeldStaysSafe ==
  Spec => []HeldIsSafe
<1>1. ASSUME Inv
      PROVE  HeldIsSafe
  <2>1. DOMAIN heap.blocks = 1..Len(heap.blocks)
    BY <1>1, LenProperties DEF Inv, Sound, Laid
  <2> QED BY <1>1, <2>1 DEF Inv, Sound, Kept, HeldIsSafe, ToSet
<1> QED BY <1>1, AlwaysSound, PTL

(***************************************************************************)
(* kfree: nothing is lost, a block is free exactly while nobody holds it,  *)
(* and free blocks never stay list neighbours.                             *)
(***************************************************************************)
THEOREM FreedStaysMerged ==
  Spec => []FreedIsMerged
<1>1. ASSUME Inv
      PROVE  FreedIsMerged
  <2>1. DOMAIN heap.blocks = 1..Len(heap.blocks)
    BY <1>1, LenProperties DEF Inv, Sound, Laid
  <2> QED BY <1>1, <2>1 DEF Inv, Sound, Kept, Merged, FreedIsMerged
<1> QED BY <1>1, AlwaysSound, PTL
=============================================================================
