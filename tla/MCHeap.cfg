CONSTANTS
  PAGE_SIZE = 16
  BLOCK_SIZE = 4
  ALIGN = 2
  HEAP_START = 64
  InitPages = 2
  Word = 1024
  Sizes = {0, 3, 11, 20, 1020}
  MaxHeld = 3
  MaxPages = 5
SPECIFICATION Spec
INVARIANTS BlocksDisjoint HeldIsSafe FreedIsMerged
