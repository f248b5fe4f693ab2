-------------------------------- MODULE Pmm --------------------------------
(***************************************************************************)
(* The physical page allocator, rust/src/pmm.rs, as operators on its       *)
(* state: a record of the bitmap (the set of page numbers whose bit is     *)
(* set) and the counter USED_PAGES.  rust_pmm_alloc_page runs with         *)
(* interrupts off, and no interrupt handler of this kernel allocates or    *)
(* frees a page, so each call is one atomic change of the record.          *)
(***************************************************************************)
EXTENDS Integers, FiniteSets

CONSTANT TotalPages   \* TOTAL_PAGES; page 0 always belongs to the kernel

ASSUME TotalPagesAssumption == TotalPages \in Nat \ {0}

Pages == 0..(TotalPages - 1)

PmmState == [bitmap : SUBSET Pages, used : Int]

\* rust_pmm_init: the set bits of the kernel, the bitmap and the text buffer.
PmmInit(reserved) == [bitmap |-> reserved \cap Pages,
                      used |-> Cardinality(reserved \cap Pages)]

Free(m) == Pages \ m.bitmap

\* The page rust_pmm_alloc_page returns: the first whose bit is clear.
FirstFree_NotFirst(m, p) == p \in Pages
FirstFree(m, p) == /\ p \in Free(m)
                   /\ \A q \in Free(m) : p <= q

PmmAlloc_NextBit(m, p) == [bitmap |-> m.bitmap \cup {p + 1}, used |-> m.used + 1]
PmmAlloc(m, p) == [bitmap |-> m.bitmap \cup {p}, used |-> m.used + 1]

\* rust_pmm_free_page: null, pages that do not exist and pages that are free
\* already are ignored.
PmmFree_Unchecked(m, p) ==
  IF p = 0 THEN m
  ELSE [bitmap |-> m.bitmap \ {p}, used |-> m.used - 1]
PmmFree(m, p) ==
  IF p = 0 \/ p >= TotalPages \/ p \notin m.bitmap THEN m
  ELSE [bitmap |-> m.bitmap \ {p}, used |-> m.used - 1]

\* rust_pmm_get_free_count: TOTAL_PAGES.saturating_sub(USED_PAGES)
FreeCount(m) == IF m.used >= TotalPages THEN 0 ELSE TotalPages - m.used
=============================================================================
