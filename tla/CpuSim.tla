------------------------------- MODULE CpuSim -------------------------------
(***************************************************************************)
(* The CPU simulator, src/tools/cpu_sim.c: nine registers, the flags and a *)
(* small memory that only push and pop use.  A word is four bytes, as in   *)
(* the code; the bits of a byte and the size of the memory are parameters. *)
(* Parsing of an instruction's text is left out: an operand is a register, *)
(* a number, or an address in brackets, which the code treats as a number  *)
(* on the right and as nowhere on the left.                                *)
(*                                                                         *)
(* The shell command asm passes its text with the blank in front of it, so *)
(* that the name of the operation it executes is always empty.             *)
(***************************************************************************)
EXTENDS Integers, Sequences, FiniteSets

CONSTANTS ByteBits,     \* bits of a byte (8 in the code)
          MemSize,      \* bytes of memory (256), a power of two
          Regs,         \* registers that instructions name
          Numbers,      \* numbers that instructions name
          MaxSteps      \* bound: calls

Byte == 2 ^ ByteBits
W == Byte * Byte * Byte * Byte           \* number of words
Word == 0..(W - 1)
Bits == 4 * ByteBits
RegNames == {"eax", "ebx", "ecx", "edx", "esi", "edi", "ebp", "esp", "eip"}
ASSUME SimAssumption == /\ ByteBits \in Nat \ {0} /\ Byte \in Nat \ {0, 1}
                        /\ MemSize \in Nat \ {0} /\ W % MemSize = 0
                        /\ Regs \subseteq RegNames /\ Numbers \subseteq Word

VARIABLES regs, flags, memory,
          ret,      \* what cpu_sim_execute returned last
          steps,
          stack     \* words pushed and neither popped nor overwritten

cpu == <<regs, flags, memory>>
cpuvars == <<cpu, ret, steps, stack>>

Zero == [r \in RegNames |-> 0]
NoMemory == [a \in 0..(MemSize - 1) |-> 0]

\* Nothing calls cpu_sim_init: the state is that of a zeroed static variable.
CpuInit == /\ regs = Zero /\ flags = {} /\ memory = NoMemory
           /\ ret = 0 /\ steps = 0 /\ stack = << >>

Step == steps < MaxSteps /\ steps' = steps + 1

-----------------------------------------------------------------------------
Operands == [reg : Regs] \union [num : Numbers] \union [addr : Numbers]

\* parse_operand: the value, never that of a memory cell.
Val(o) == IF "reg" \in DOMAIN o THEN regs[o.reg]
          ELSE IF "num" \in DOMAIN o THEN o.num ELSE o.addr

Counted == [regs EXCEPT !["eip"] = (@ + 1) % W]

\* set_operand: anything but a register is ignored.
SetOperand(rs, o, v) == IF "reg" \in DOMAIN o THEN [rs EXCEPT ![o.reg] = v] ELSE rs

\* update_flags: CF and OF are always cleared.
Ones(w) == {i \in 0..(Bits - 1) : (w \div 2^i) % 2 = 1}
EvenOnes(b) == Cardinality(Ones(b)) % 2 = 0
UpdateFlags(result) ==
  {f \in {"ZF", "SF", "PF"} :
     CASE f = "ZF" -> result = 0
       [] f = "SF" -> result >= W \div 2
       [] f = "PF" -> EvenOnes(result % Byte)}

\* The results of an operation that sets flags.  C leaves a shift by the width
\* or more undefined: the machine takes the count modulo the width, a compiler
\* that knows the count may take 0.  WithOnes(S) has the word whose bits are S.
WithOnes(S) == {w \in Word : Ones(w) = S}
Shifted(x, n) == WithOnes({i \in 0..(Bits - 1) : i - n \in Ones(x)})
ShiftBy(y) == IF y < Bits THEN {y} ELSE {y % Bits, Bits}
Results(op, x, y) ==
  CASE op = "add" -> {(x + y) % W}
    [] op \in {"sub", "cmp"} -> {(x - y) % W}
    [] op \in {"and", "test"} -> WithOnes(Ones(x) \cap Ones(y))
    [] op = "or" -> WithOnes(Ones(x) \cup Ones(y))
    [] op = "xor" -> WithOnes((Ones(x) \ Ones(y)) \cup (Ones(y) \ Ones(x)))
    [] op = "shl" -> UNION {Shifted(x, n) : n \in ShiftBy(y)}
    [] op = "shr" -> UNION {Shifted(x, -n) : n \in ShiftBy(y)}
    [] op = "inc" -> {(x + 1) % W}
    [] op = "dec" -> {(x - 1) % W}

Borrows(op, x, y) == IF op \in {"sub", "cmp"} /\ x < y THEN {"CF"} ELSE {}
AluOps == {"add", "sub", "and", "or", "xor", "shl", "shr", "inc", "dec", "cmp", "test"}

\* A write to esp ends the history of the stack.
KeepStack(o) == stack' = IF "reg" \in DOMAIN o /\ o.reg = "esp" THEN << >> ELSE stack

Alu(op, o1, o2) ==
  /\ Step
  /\ \E result \in Results(op, Val(o1), Val(o2)) :
       /\ flags' = UpdateFlags(result) \union Borrows(op, Val(o1), Val(o2))
       /\ IF op \in {"cmp", "test"} THEN regs' = Counted /\ UNCHANGED stack
          ELSE regs' = SetOperand(Counted, o1, result) /\ KeepStack(o1)
  /\ ret' = 0 /\ UNCHANGED memory

\* mov and not leave the flags alone, mul and div too.
Mov(o1, o2) == /\ Step /\ regs' = SetOperand(Counted, o1, Val(o2)) /\ KeepStack(o1)
               /\ ret' = 0 /\ UNCHANGED <<flags, memory>>
Not1(o1) == /\ Step /\ regs' = SetOperand(Counted, o1, W - 1 - Val(o1))
            /\ KeepStack(o1) /\ ret' = 0 /\ UNCHANGED <<flags, memory>>

Pair(a, d) == [Counted EXCEPT !["eax"] = a, !["edx"] = d]
Mul(o1, o2) == LET product == Val(o1) * Val(o2)
               IN  /\ Step /\ regs' = Pair(product % W, product \div W)
                   /\ ret' = 0 /\ UNCHANGED <<flags, memory, stack>>
Div(o1, o2) ==
  /\ Step
  /\ IF Val(o2) = 0 THEN ret' = -1 /\ regs' = Counted
     ELSE ret' = 0 /\ regs' = Pair(Val(o1) \div Val(o2), Val(o1) % Val(o2))
  /\ UNCHANGED <<flags, memory, stack>>

\* push and pop; the operand was read before esp moves.
Cell(esp, i) == (esp + i) % MemSize
ByteOf_Reversed(v, i) == <<(v \div (Byte * Byte * Byte)) % Byte,
                           (v \div (Byte * Byte)) % Byte,
                           (v \div Byte) % Byte, v % Byte>>[i + 1]
ByteOf(v, i) == <<v % Byte, (v \div Byte) % Byte, (v \div (Byte * Byte)) % Byte,
                  (v \div (Byte * Byte * Byte)) % Byte>>[i + 1]
Pushed(esp, v) ==
  [a \in 0..(MemSize - 1) |->
     IF \E i \in 0..3 : a = Cell(esp, i)
     THEN ByteOf(v, CHOOSE i \in 0..3 : a = Cell(esp, i))
     ELSE memory[a]]
Loaded(esp) == memory[Cell(esp, 0)]
               + Byte * (memory[Cell(esp, 1)]
               + Byte * (memory[Cell(esp, 2)] + Byte * memory[Cell(esp, 3)]))

\* Words further down than the memory is large are overwritten.
Depth == MemSize \div 4
Newest(s) == IF Len(s) > Depth THEN Tail(s) ELSE s

\* esp is unsigned and wraps.
Lowered(esp) == (esp - 4) % W

Push(o1) == LET esp == Lowered(regs["esp"])
            IN  /\ Step /\ regs' = [Counted EXCEPT !["esp"] = esp]
                /\ memory' = Pushed(esp, Val(o1))
                /\ stack' = Newest(Append(stack, Val(o1)))
                /\ ret' = 0 /\ UNCHANGED flags

Pop(o1) == LET up == [Counted EXCEPT !["esp"] = (@ + 4) % W]
           IN  /\ Step /\ regs' = SetOperand(up, o1, Loaded(regs["esp"]))
               /\ stack' = IF stack = << >> \/ o1 = [reg |-> "esp"] THEN << >>
                           ELSE SubSeq(stack, 1, Len(stack) - 1)
               /\ ret' = 0 /\ UNCHANGED <<flags, memory>>

Nop == /\ Step /\ regs' = Counted /\ ret' = 0
       /\ UNCHANGED <<flags, memory, stack>>

\* An unknown operation, which is also all that asm can execute.
Unknown == /\ Step /\ regs' = Counted /\ ret' = -1
           /\ UNCHANGED <<flags, memory, stack>>

\* The shell command reg; "flags" sets the whole of eflags.
SetReg(r, v) == /\ Step /\ regs' = [regs EXCEPT ![r] = v]
                /\ KeepStack([reg |-> r]) /\ UNCHANGED <<flags, memory, ret>>
SetFlags(f) == /\ Step /\ flags' = f
               /\ UNCHANGED <<regs, memory, ret, stack>>

\* cpu_sim_reset: esp is the last address, so words straddle the end.
Reset == /\ Step /\ regs' = [Zero EXCEPT !["esp"] = MemSize - 1] /\ flags' = {}
         /\ memory' = NoMemory /\ stack' = << >>
         /\ UNCHANGED ret

CpuNext == \/ \E o1 \in Operands :
                \/ \E o2 \in Operands : \/ \E op \in AluOps : Alu(op, o1, o2)
                                        \/ Mov(o1, o2) \/ Mul(o1, o2) \/ Div(o1, o2)
                \/ Not1(o1) \/ Push(o1) \/ Pop(o1)
           \/ Nop \/ Unknown \/ Reset
           \/ \E r \in Regs, v \in Numbers : SetReg(r, v)
           \/ \E f \in SUBSET {"CF", "ZF"} : SetFlags(f)

CpuSpec == CpuInit /\ [][CpuNext]_cpuvars

-----------------------------------------------------------------------------
(***************************************************************************)
(* The words pushed and not yet popped are in the memory below each other, *)
(* from esp upwards, also where esp or a word wraps around the end of the  *)
(* memory, until the stack is deeper than the memory: pop returns what the *)
(* matching push stored.                                                   *)
(***************************************************************************)
StackIntact ==
  \A i \in 1..Len(stack) : Loaded(regs["esp"] + 4 * (Len(stack) - i)) = stack[i]
=============================================================================
