CONSTANTS
  ByteBits = 1
  MemSize = 8
  Regs = {"eax", "esp"}
  Numbers = {3, 8}
  MaxSteps = 4
SPECIFICATION CpuSpec
INVARIANTS StackIntact
CHECK_DEADLOCK FALSE
