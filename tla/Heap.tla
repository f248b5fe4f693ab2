-------------------------------- MODULE Heap --------------------------------
(***************************************************************************)
(* The kernel heap, src/memory/heap.c: a list of blocks, each a header of  *)
(* BLOCK_SIZE bytes and size bytes for the caller.  The doubly linked list *)
(* is a sequence in list order; a pointer is the address of the block's    *)
(* header (the caller's pointer less BLOCK_SIZE).  The heap only ever      *)
(* grows, one mapped page at a time, from HEAP_START upwards.              *)
(*                                                                         *)
(* held is a history variable: the pointers callers hold with the number   *)
(* of bytes they asked for.  Callers free and resize only what they hold.  *)
(* The calls run in kernel code that no interrupt handler calls into, so   *)
(* each is one step.                                                       *)
(***************************************************************************)
EXTENDS Integers, Sequences, FiniteSets, SequencesExt, FiniteSetsExt

CONSTANTS PAGE_SIZE, BLOCK_SIZE, ALIGN,
          HEAP_START,
          InitPages,      \* pages heap_init asks for (64)
          Word,           \* 2^32: arithmetic on sizes wraps here
          Sizes,          \* sizes callers ask for
          MaxHeld,        \* bound: pointers held at a time
          MaxPages        \* bound: pages of the machine

ASSUME UnitAssumption == /\ {ALIGN, BLOCK_SIZE, PAGE_SIZE, HEAP_START, Word} \subseteq Nat \ {0}
                         /\ PAGE_SIZE > BLOCK_SIZE
                         /\ BLOCK_SIZE % ALIGN = 0 /\ PAGE_SIZE % ALIGN = 0
                         /\ {InitPages, MaxHeld, MaxPages} \subseteq Nat /\ Sizes \subseteq Nat

VARIABLES heap,   \* [blocks, current, avail]: heap_head's list, heap_current
                  \* and the pages pmm_alloc_page can still give
          held    \* pointers callers hold

vars == <<heap, held>>

NULL == 0
Block(addr, size, free) == [addr |-> addr, size |-> size, free |-> free]
End(b) == b.addr + BLOCK_SIZE + b.size

\* ALIGN4
AlignUp(n) == ((n + ALIGN - 1) \div ALIGN) * ALIGN

Init ==
  \E avail \in 0..MaxPages :
    LET mapped == Min({avail, InitPages})
        first == Block(HEAP_START, mapped * PAGE_SIZE - BLOCK_SIZE, TRUE)
    IN  /\ heap = [blocks |-> IF mapped = 0 THEN << >> ELSE <<first>>,
                   current |-> HEAP_START + mapped * PAGE_SIZE,
                   avail |-> avail - mapped]
        /\ held = {}

-----------------------------------------------------------------------------
\* find_free_block: index of the first fit, 0 for none.
FindFree_AnySize(bs, size) ==
  LET fits == {i \in DOMAIN bs : bs[i].free}
  IN  IF fits = {} THEN 0 ELSE Min(fits)
FindFree(bs, size) ==
  LET fits == {i \in DOMAIN bs : bs[i].free /\ bs[i].size >= size}
  IN  IF fits = {} THEN 0 ELSE Min(fits)

\* kmalloc's use of a free block: what is left over becomes a block when it
\* has room for a header and at least ALIGN bytes.
Split_NoHeader(bs, i, size) ==
  LET b == bs[i]
  IN  IF b.size >= size + ALIGN
      THEN InsertAt([bs EXCEPT ![i] = Block(b.addr, size, FALSE)], i + 1,
                    Block(b.addr + BLOCK_SIZE + size, b.size - size, TRUE))
      ELSE [bs EXCEPT ![i].free = FALSE]
Split(bs, i, size) ==
  LET b == bs[i]
  IN  IF b.size >= size + BLOCK_SIZE + ALIGN
      THEN InsertAt([bs EXCEPT ![i] = Block(b.addr, size, FALSE)], i + 1,
                    Block(b.addr + BLOCK_SIZE + size,
                          b.size - size - BLOCK_SIZE, TRUE))
      ELSE [bs EXCEPT ![i].free = FALSE]

\* The page loop of expand_heap and kmalloc_aligned, and the block they put
\* at the end of the list.  When pages run out the call fails, and the pages
\* it has mapped stay mapped.
PagesFor(size) ==
  ((((BLOCK_SIZE + size) % Word) + PAGE_SIZE - 1) % Word) \div PAGE_SIZE
Expand(h, pages, size) ==
  IF h.avail < pages
  THEN [h |-> [h EXCEPT !.current = h.current + h.avail * PAGE_SIZE,
                        !.avail = 0],
        ptr |-> NULL]
  ELSE [h |-> [h EXCEPT !.blocks = Append(h.blocks, Block(h.current, size, FALSE)),
                        !.current = h.current + pages * PAGE_SIZE,
                        !.avail = h.avail - pages],
        ptr |-> h.current]

\* The sizes kmalloc and kmalloc_aligned turn away at once.
BadSize(size) == size = 0 \/ size > Word - 1 - BLOCK_SIZE - ALIGN

\* Callers keep a page away from the largest size that is not turned away:
\* rounding such a size up to pages wraps to no page at all.  The callers in
\* the tree ask for 64 KiB and less.
ASSUME CallerAssumption ==
  \A n \in Sizes : BadSize(n) \/ n + ALIGN + BLOCK_SIZE + PAGE_SIZE <= Word

Failed(h) == [h |-> h, ptr |-> NULL]

Kmalloc(h, n) ==
  LET size == AlignUp(n)
      i == FindFree(h.blocks, size)
  IN  IF BadSize(n) THEN Failed(h)
      ELSE IF i # 0
           THEN [h |-> [h EXCEPT !.blocks = Split(h.blocks, i, size)],
                 ptr |-> h.blocks[i].addr]
      ELSE Expand(h, PagesFor(size), size)

KmallocAligned(h, n) ==
  LET pages == PagesFor(AlignUp(n))
  IN  IF BadSize(n) THEN Failed(h)
      ELSE Expand(h, pages, pages * PAGE_SIZE - BLOCK_SIZE)

\* kfree: the block is free and merges with the free neighbours it has in the
\* list, whether or not they are neighbours in memory.
MergeNext(bs, i) ==
  IF i < Len(bs) /\ bs[i + 1].free
  THEN RemoveAt([bs EXCEPT ![i].size = @ + BLOCK_SIZE + bs[i + 1].size], i + 1)
  ELSE bs
MergePrev_KeepSize(bs, i) ==
  IF i > 1 /\ bs[i - 1].free THEN MergeNext(bs, i) ELSE bs
MergePrev(bs, i) ==
  IF i > 1 /\ bs[i - 1].free THEN MergeNext(bs, i - 1) ELSE bs
Kfree(h, ptr) ==
  LET i == CHOOSE j \in DOMAIN h.blocks : h.blocks[j].addr = ptr
      freed == [h.blocks EXCEPT ![i].free = TRUE]
  IN  [h EXCEPT !.blocks = MergePrev(MergeNext(freed, i), i)]

-----------------------------------------------------------------------------
\* A call that returns pointer r.ptr for n bytes.
Take(r, n, kept) ==
  /\ heap' = r.h
  /\ held' = IF r.ptr = NULL THEN kept ELSE kept \cup {[ptr |-> r.ptr, size |-> n]}

Malloc(n) == Cardinality(held) < MaxHeld /\ Take(Kmalloc(heap, n), n, held)

MallocAligned(n) ==
  Cardinality(held) < MaxHeld /\ Take(KmallocAligned(heap, n), n, held)

Free(p) == /\ heap' = Kfree(heap, p.ptr)
           /\ held' = held \ {p}

\* krealloc of a pointer the caller holds: in place, moved, freed or refused.
Realloc(p, n) ==
  LET b == CHOOSE b \in ToSet(heap.blocks) : b.addr = p.ptr
      r == Kmalloc(heap, n)
  IN  IF n = 0 THEN Free(p)
      ELSE IF b.size >= n
           THEN /\ held' = (held \ {p}) \cup {[ptr |-> p.ptr, size |-> n]}
                /\ UNCHANGED heap
      ELSE IF r.ptr = NULL
           THEN heap' = r.h /\ UNCHANGED held
      ELSE Take([r EXCEPT !.h = Kfree(r.h, p.ptr)], n, held \ {p})

\* The page allocator has other users: process_create takes pages, and
\* process_exit gives them back.
PageTaken == /\ heap.avail > 0
             /\ heap' = [heap EXCEPT !.avail = @ - 1] /\ UNCHANGED held
PageFreed == /\ heap.avail < MaxPages
             /\ heap.current + heap.avail * PAGE_SIZE < HEAP_START + MaxPages * PAGE_SIZE
             /\ heap' = [heap EXCEPT !.avail = @ + 1] /\ UNCHANGED held

Next == \/ \E n \in Sizes : Malloc(n) \/ MallocAligned(n)
        \/ \E p \in held : Free(p)
        \/ \E p \in held, n \in Sizes : Realloc(p, n)
        \/ PageTaken \/ PageFreed

Spec == Init /\ [][Next]_vars

-----------------------------------------------------------------------------

TypeOK == /\ heap.blocks \in Seq([addr : Nat, size : Nat, free : BOOLEAN])
          /\ heap.current \in Nat /\ heap.avail \in 0..MaxPages
          /\ held \subseteq [ptr : Nat, size : Sizes]

(***************************************************************************)
(* The blocks lie in the list in the order of their addresses, none        *)
(* reaches into the next one, and the last one ends inside the mapped part *)
(* of the heap: through splits, merges of blocks that are not neighbours   *)
(* in memory, and expansions that failed half-way or succeed after such.   *)
(***************************************************************************)
BlocksDisjoint ==
  LET bs == heap.blocks IN
  /\ TypeOK
  /\ \A i \in DOMAIN bs :
       /\ bs[i].addr >= HEAP_START
       /\ End(bs[i]) <= IF i < Len(bs) THEN bs[i + 1].addr ELSE heap.current

(***************************************************************************)
(* Every pointer a caller holds is a block of the list that is not free    *)
(* and has at least the bytes asked for, and no block is held twice:       *)
(* kmalloc never hands out memory somebody still uses, kfree and krealloc  *)
(* never take it away.                                                     *)
(***************************************************************************)
HeldIsSafe ==
  /\ \A p \in held : \E b \in ToSet(heap.blocks) :
       b.addr = p.ptr /\ ~b.free /\ b.size >= p.size
  /\ \A p, q \in held : p.ptr = q.ptr => p = q

(***************************************************************************)
(* Nothing is lost from the list and nothing stays fragmented: a block is  *)
(* free exactly when nobody holds it, and two free blocks are never        *)
(* neighbours in the list, because kfree merges both ways.                 *)
(***************************************************************************)
FreedIsMerged ==
  LET bs == heap.blocks IN
  /\ \A i \in DOMAIN bs : bs[i].free <=> \A p \in held : p.ptr # bs[i].addr
  /\ \A i \in 1..(Len(bs) - 1) : ~(bs[i].free /\ bs[i + 1].free)
=============================================================================
