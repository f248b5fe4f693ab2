-------------------------- MODULE SchedulerProofs --------------------------
(***************************************************************************)
(* Proofs about the process table, the scheduler and the pages of the      *)
(* stacks, for every number of slots and of pages.                         *)
(***************************************************************************)
EXTENDS Scheduler, FiniteSetTheorems, TLAPS

(* Allocating and freeing pages keeps the allocator's state well formed.   *)
LEMMA PmmTypes ==
  ASSUME NEW m \in PmmState, NEW p \in Pages, NEW q \in Nat
  PROVE  /\ PmmAlloc(m, p) \in PmmState
         /\ PmmFree(m, q) \in PmmState
  BY TotalPagesAssumption DEF PmmState, PmmAlloc, PmmFree, Pages

(* The allocator starts with a counter that is the number of set bits.     *)
LEMMA PmmInitFacts ==
  ASSUME NEW reserved
  PROVE  /\ PmmInit(reserved) \in PmmState
         /\ PmmInit(reserved).used = Cardinality(PmmInit(reserved).bitmap)
<1>1. IsFiniteSet(Pages)
  BY TotalPagesAssumption, FS_Interval DEF Pages
<1>2. IsFiniteSet(reserved \cap Pages)
  BY <1>1, FS_Subset
<1>3. Cardinality(reserved \cap Pages) \in Nat
  BY <1>2, FS_CardinalityType
<1> QED BY <1>3 DEF PmmInit, PmmState

(* The page first-fit picks is a page. *)
LEMMA FirstFreeIsPage ==
  ASSUME NEW m, NEW p, FirstFree(m, p)
  PROVE  p \in Pages /\ p \notin m.bitmap
  BY DEF FirstFree, Free

(* Addresses of user stacks lie above physical memory. *)
LEMMA UserStackIsVirtual ==
  ASSUME NEW s \in Slots
  PROVE  UserStack(s) \in Nat /\ UserStack(s) >= TotalPages /\ UserStack(s) # 0
  BY SlotsAssumption, VirtAssumption, TotalPagesAssumption DEF UserStack, Slots

(* The slots scheduler_tick searches are slots of the table. *)
LEMMA CandidateIsSlot ==
  ASSUME TypeOK, NEW i \in Slots
  PROVE  /\ Candidate(i) \in Slots
         /\ Candidate(i) = IF current + 1 + i < MAX_PROCESSES
                           THEN current + 1 + i
                           ELSE current + 1 + i - MAX_PROCESSES
  BY SlotsAssumption, SMTT(60) DEF TypeOK, Slots, NoSlot, Candidate

(* Mapping a user stack keeps the types. *)
LEMMA MapTypes ==
  ASSUME TypeOK, NEW m \in PmmState, NEW s \in Slots, NEW u \in Pages,
         MapUserStack(m, s, u)
  PROVE  pmm' \in PmmState /\ table' \in Pages /\ pte' \in [Slots -> Pages]
<1>1. CASE table # 0 /\ pmm' = m /\ pte' = [pte EXCEPT ![s] = u] /\ UNCHANGED table
  BY <1>1 DEF TypeOK
<1>2. CASE pmm' = m /\ UNCHANGED <<table, pte>>
  BY <1>2 DEF TypeOK
<1>3. CASE /\ \E t \in Pages : /\ FirstFree(m, t) /\ pmm' = PmmAlloc(m, t)
                               /\ table' = t
           /\ pte' = [pte EXCEPT ![s] = u]
  BY <1>3, PmmTypes DEF TypeOK
<1> QED BY <1>1, <1>2, <1>3 DEF MapUserStack

(* Every field of the process table and of the allocator keeps its type    *)
(* through creations, exits, yields and ticks; in particular               *)
(* current_process is always -1 or an index of the table.                  *)
THEOREM SchedulerTypeCorrect == Spec => []TypeOK
<1> USE DEF NoSlot
<1>1. Init => TypeOK
  <2> SUFFICES ASSUME Init PROVE TypeOK
    OBVIOUS
  <2>1. pmm \in PmmState
    BY PmmInitFacts DEF Init
  <2>2. 0 \in Pages
    BY TotalPagesAssumption DEF Pages
  <2>3. /\ state \in [Slots -> {"UNUSED", "READY", "RUNNING"}]
        /\ kernel_stack \in [Slots -> Pages]
        /\ user_stack \in [Slots -> Nat]
        /\ table \in Pages
        /\ pte \in [Slots -> Pages]
    BY <2>2 DEF Init
  <2>4. current = -1 /\ count = 0 /\ creating = -1
    BY DEF Init
  <2>5. halted \in BOOLEAN /\ strayed \in BOOLEAN
    BY Zenon DEF Init
  <2> QED BY <2>1, <2>3, <2>4, <2>5 DEF TypeOK
<1>2. TypeOK /\ [Next]_vars => TypeOK'
  <2> SUFFICES ASSUME TypeOK, [Next]_vars PROVE TypeOK'
    OBVIOUS
  <2>1. ASSUME NEW s \in Slots, Claim(s) PROVE TypeOK'
    BY <2>1 DEF Claim, TypeOK, memVars
  <2>2. CASE CreateNoKernelStack
    <3>1. strayed' \in BOOLEAN
      BY <2>2, Zenon DEF CreateNoKernelStack
    <3>2. /\ state' = [state EXCEPT ![creating] = "UNUSED"] /\ creating' = -1
          /\ UNCHANGED <<kernel_stack, user_stack, current, count, memVars, halted>>
      BY <2>2 DEF CreateNoKernelStack, GivenUp
    <3> QED BY <3>1, <3>2 DEF TypeOK, memVars
  <2>3. CASE CreateNoUserStack
    <3>1. creating \in Slots
      BY <2>3 DEF CreateNoUserStack, TypeOK
    <3>2. UserStack(creating) \in Nat
      BY <3>1, UserStackIsVirtual
    <3>3. PICK k \in Pages : /\ pmm' = PmmFree(PmmAlloc(pmm, k), k)
                             /\ kernel_stack' = [kernel_stack EXCEPT ![creating] = k]
      BY <2>3 DEF CreateNoUserStack
    <3>4. k \in Nat
      BY <3>3 DEF Pages
    <3>5. pmm' \in PmmState
      BY <3>3, <3>4, PmmTypes DEF TypeOK
    <3>6. strayed' \in BOOLEAN
      BY <2>3, Zenon DEF CreateNoUserStack
    <3>7. /\ state' = [state EXCEPT ![creating] = "UNUSED"] /\ creating' = -1
          /\ user_stack' = [user_stack EXCEPT ![creating] = UserStack(creating)]
          /\ UNCHANGED <<current, count, table, pte, halted>>
      BY <2>3 DEF CreateNoUserStack, GivenUp
    <3> QED BY <3>1, <3>2, <3>3, <3>5, <3>6, <3>7 DEF TypeOK
  <2>4. CASE CreateDone
    <3>1. creating \in Slots
      BY <2>4 DEF CreateDone, TypeOK
    <3>2. UserStack(creating) \in Nat
      BY <3>1, UserStackIsVirtual
    <3>3. PICK k \in Pages, u \in Pages :
            /\ MapUserStack(PmmAlloc(PmmAlloc(pmm, k), u), creating, u)
            /\ kernel_stack' = [kernel_stack EXCEPT ![creating] = k]
      BY <2>4 DEF CreateDone
    <3>4. PmmAlloc(PmmAlloc(pmm, k), u) \in PmmState
      BY <3>3, PmmTypes DEF TypeOK
    <3>5. pmm' \in PmmState /\ table' \in Pages /\ pte' \in [Slots -> Pages]
      BY <3>1, <3>3, <3>4, MapTypes
    <3>6. /\ user_stack' = [user_stack EXCEPT ![creating] = UserStack(creating)]
          /\ count' = count + 1 /\ creating' = -1
          /\ UNCHANGED <<state, current, halted, strayed>>
      BY <2>4 DEF CreateDone
    <3> QED BY <3>1, <3>2, <3>3, <3>5, <3>6 DEF TypeOK
  <2>5. CASE Exit
    <3>1. current \in Slots
      BY <2>5 DEF Exit, Syscall, TypeOK
    <3>2. kernel_stack[current] \in Nat /\ user_stack[current] \in Nat
      BY <3>1 DEF TypeOK, Pages
    <3>3. 0 \in Pages
      BY TotalPagesAssumption DEF Pages
    <3>4. PmmFree(pmm, kernel_stack[current]) \in PmmState
      BY <3>2, <3>3, PmmTypes DEF TypeOK
    <3>5. ExitPages(current) \in PmmState
      BY <3>2, <3>3, <3>4, PmmTypes DEF ExitPages
    <3>6. halted' \in BOOLEAN
      BY <2>5, Zenon DEF Exit
    <3>7. pte' \in [Slots -> Pages]
      BY <2>5, <3>3 DEF Exit, TypeOK
    <3>8. /\ kernel_stack' \in [Slots -> Pages] /\ user_stack' \in [Slots -> Nat]
          /\ state' \in [Slots -> {"UNUSED", "READY", "RUNNING"}]
      BY <2>5, <3>3 DEF Exit, TypeOK
    <3>9. /\ count' \in Int /\ current' = -1
          /\ UNCHANGED <<creating, table, strayed>>
      BY <2>5 DEF Exit, AfterExit, TypeOK
    <3>10. pmm' \in PmmState
      BY <2>5, <3>5 DEF Exit
    <3> QED BY <3>6, <3>7, <3>8, <3>9, <3>10 DEF TypeOK
  <2>6. CASE Yield
    BY <2>6 DEF Yield, Syscall, TypeOK, memVars
  <2>7. CASE Tick
    BY <2>7, CandidateIsSlot DEF Tick, Switch, TypeOK, memVars
  <2>8. CASE UNCHANGED vars
    BY <2>8 DEF vars, TypeOK
  <2> QED BY <2>1, <2>2, <2>3, <2>4, <2>5, <2>6, <2>7, <2>8 DEF Next, IdleTick
<1> QED BY <1>1, <1>2, PTL DEF Spec
-----------------------------------------------------------------------------

(* A tick takes the RUNNING mark from the process it remembers before it   *)
(* gives it to another, so at most one process is RUNNING: the current     *)
(* one, also when the process it remembers exited or was given up.         *)
THEOREM OneProcessRuns == Spec => []OnlyCurrentRuns
<1>1. Init => OnlyCurrentRuns
  BY DEF Init, OnlyCurrentRuns
<1>2. TypeOK /\ OnlyCurrentRuns /\ [Next]_vars => OnlyCurrentRuns'
  <2> SUFFICES ASSUME TypeOK, OnlyCurrentRuns, [Next]_vars
               PROVE  OnlyCurrentRuns'
    OBVIOUS
  <2>1. CASE \/ \E s \in Slots : Claim(s)
             \/ CreateNoKernelStack \/ CreateNoUserStack
    BY <2>1 DEF Claim, CreateNoKernelStack, CreateNoUserStack, GivenUp, TypeOK,
                OnlyCurrentRuns
  <2>2. CASE CreateDone
    <3>1. UNCHANGED <<state, current>>
      BY <2>2 DEF CreateDone
    <3> QED BY <3>1 DEF OnlyCurrentRuns
  <2>3. CASE Exit
    <3>1. state' = [state EXCEPT ![current] = "UNUSED"]
      BY <2>3 DEF Exit
    <3> QED BY <3>1 DEF TypeOK, OnlyCurrentRuns
  <2>4. CASE Yield
    BY <2>4 DEF Yield, TypeOK, OnlyCurrentRuns
  <2>5. CASE Tick
    BY <2>5, CandidateIsSlot DEF Tick, Switch, TypeOK, OnlyCurrentRuns
  <2>6. CASE UNCHANGED vars
    BY <2>6 DEF vars, OnlyCurrentRuns
  <2> QED BY <2>1, <2>2, <2>3, <2>4, <2>5, <2>6 DEF Next, IdleTick
<1> QED BY <1>1, <1>2, SchedulerTypeCorrect, PTL DEF Spec

(* The slot a creation is filling in is marked live, strayed or not.       *)
CreatingIsLive == creating # NoSlot => Live(creating)
TableInv == CurrentIsLive /\ CreatingIsLive

(* The finished processes.                                                 *)
BuiltSet == {s \in Slots : Built(s)}

(* A tick removes no process from the table, and it adds one only when the *)
(* slot it remembers was given up.                                         *)
LEMMA TickKeepsBuilt ==
  ASSUME TypeOK, TableInv, Tick
  PROVE  /\ TableInv' /\ BuiltSet \subseteq BuiltSet'
         /\ ~strayed => BuiltSet' = BuiltSet
<1>1. UNCHANGED <<creating, strayed>>
  BY DEF Tick
<1>2. PICK i \in Slots : /\ Found(i)
                         /\ state' = Switch(Candidate(i))
                         /\ current' = Candidate(i)
  BY DEF Tick
<1>3. Candidate(i) \in Slots /\ state[Candidate(i)] # "UNUSED"
  BY <1>2, CandidateIsSlot DEF Found, Runnable
<1>4. ~strayed /\ current # NoSlot => state[current] # "UNUSED"
  BY DEF TableInv, CurrentIsLive, Live
<1>5. /\ \A s \in Slots : state[s] # "UNUSED" => state'[s] # "UNUSED"
      /\ ~strayed => \A s \in Slots : state'[s] # "UNUSED" => state[s] # "UNUSED"
  BY <1>2, <1>3, <1>4 DEF Switch, TypeOK, NoSlot, Slots
<1>6. current' \in Slots /\ state'[current'] # "UNUSED"
  BY <1>2, <1>3, <1>5
<1>7. creating # NoSlot => creating \in Slots /\ state[creating] # "UNUSED"
  BY DEF TypeOK, TableInv, CreatingIsLive, Live
<1>8. TableInv'
  BY <1>1, <1>5, <1>6, <1>7 DEF TableInv, CurrentIsLive, CreatingIsLive, Live
<1> QED BY <1>1, <1>5, <1>8 DEF BuiltSet, Built, Live

(* What each step does to the table: CreateDone adds the new process, Exit *)
(* removes the current one, and no other step changes the set of finished  *)
(* processes, up to the first stray; after it a tick or a yield may add    *)
(* the stray slot, and an exit of it counts without removing anything.     *)
LEMMA TableSteps ==
  ASSUME TypeOK, TableInv, [Next]_vars
  PROVE  /\ TableInv'
         /\ strayed => strayed'
         /\ \/ /\ CreateDone /\ creating \in Slots \ BuiltSet
               /\ BuiltSet' = BuiltSet \cup {creating}
            \/ /\ Exit /\ current \in BuiltSet
               /\ BuiltSet' = BuiltSet \ {current}
            \/ BuiltSet' = BuiltSet /\ count' = count
            \/ strayed /\ BuiltSet \subseteq BuiltSet' /\ count' <= count
<1> USE DEF NoSlot, TableInv
<1>1. ASSUME NEW s \in Slots, Claim(s)
      PROVE  /\ TableInv' /\ strayed' = strayed
             /\ BuiltSet' = BuiltSet /\ count' = count
  <2>1. /\ state' = [state EXCEPT ![s] = "READY"] /\ state[s] = "UNUSED"
        /\ creating = -1 /\ creating' = s
        /\ UNCHANGED <<current, count, strayed>>
    BY <1>1 DEF Claim
  <2>2. current = -1 \/ current \in Slots
    BY DEF TypeOK
  <2>3. CurrentIsLive' /\ CreatingIsLive'
    BY <2>1, <2>2 DEF TypeOK, CurrentIsLive, CreatingIsLive, Live, Slots
  <2> QED BY <2>1, <2>3 DEF TypeOK, BuiltSet, Built, Live, Slots
<1>2. CASE CreateNoKernelStack \/ CreateNoUserStack
  <2>1. /\ creating \in Slots /\ creating' = -1 /\ UNCHANGED <<current, count>>
        /\ state' = [state EXCEPT ![creating] = "UNUSED"]
    BY <1>2 DEF CreateNoKernelStack, CreateNoUserStack, GivenUp, TypeOK
  <2>2. (strayed => strayed') /\ (~strayed' => ~strayed /\ current # creating)
    BY <1>2, Zenon DEF CreateNoKernelStack, CreateNoUserStack
  <2>3. TableInv'
    BY <2>1, <2>2 DEF TypeOK, CurrentIsLive, CreatingIsLive, Live, Slots
  <2> QED BY <2>1, <2>2, <2>3 DEF TypeOK, BuiltSet, Built, Live, Slots
<1>3. CASE CreateDone
  <2>1. /\ creating \in Slots /\ creating' = -1
        /\ UNCHANGED <<state, current, strayed>>
    BY <1>3 DEF CreateDone, TypeOK
  <2>2. state[creating] # "UNUSED"
    BY <2>1 DEF CreatingIsLive, Live, Slots
  <2>3. BuiltSet' = BuiltSet \cup {creating} /\ creating \notin BuiltSet
    BY <2>1, <2>2 DEF BuiltSet, Built, Live, Slots
  <2>4. TableInv'
    BY <2>1 DEF CurrentIsLive, CreatingIsLive, Live
  <2> QED BY <1>3, <2>1, <2>3, <2>4
<1>4. CASE Exit
  <2>1. /\ current \in Slots /\ creating = -1 /\ creating' = -1
        /\ current' = -1 /\ state' = [state EXCEPT ![current] = "UNUSED"]
        /\ strayed' = strayed /\ count' <= count
    BY <1>4 DEF Exit, Syscall, AfterExit, TypeOK
  <2>2. TableInv'
    BY <2>1 DEF CurrentIsLive, CreatingIsLive
  <2>3. CASE state[current] # "UNUSED"
    <3>1. current \in BuiltSet /\ BuiltSet' = BuiltSet \ {current}
      BY <2>1, <2>3 DEF TypeOK, BuiltSet, Built, Live, Slots
    <3> QED BY <1>4, <2>1, <2>2, <3>1
  <2>4. CASE state[current] = "UNUSED"
    <3>1. strayed
      BY <2>1, <2>4 DEF CurrentIsLive, Live, Slots
    <3>2. BuiltSet' = BuiltSet
      BY <2>1, <2>4 DEF TypeOK, BuiltSet, Built, Live, Slots
    <3> QED BY <2>1, <2>2, <3>1, <3>2
  <2> QED BY <2>3, <2>4
<1>5. CASE Yield
  <2>1. /\ current \in Slots /\ state' = [state EXCEPT ![current] = "READY"]
        /\ UNCHANGED <<current, creating, count, strayed>>
    BY <1>5 DEF Yield, Syscall, TypeOK
  <2>2. \A s \in Slots : state[s] # "UNUSED" => state'[s] # "UNUSED"
    BY <2>1 DEF TypeOK
  <2>3. BuiltSet \subseteq BuiltSet'
    BY <2>1, <2>2 DEF BuiltSet, Built, Live
  <2>4. TableInv'
    BY <2>1, <2>2 DEF TypeOK, CurrentIsLive, CreatingIsLive, Live
  <2>5. ~strayed => BuiltSet' = BuiltSet
    BY <2>1 DEF TypeOK, CurrentIsLive, BuiltSet, Built, Live, Slots
  <2> QED BY <2>1, <2>3, <2>4, <2>5 DEF TypeOK
<1>6. CASE Tick
  <2>1. /\ TableInv' /\ BuiltSet \subseteq BuiltSet'
        /\ ~strayed => BuiltSet' = BuiltSet
    BY <1>6, TickKeepsBuilt
  <2>2. count' = count /\ count \in Int /\ strayed' = strayed
    BY <1>6 DEF Tick, TypeOK
  <2> QED BY <2>1, <2>2
<1>7. CASE UNCHANGED vars
  BY <1>7 DEF vars, CurrentIsLive, CreatingIsLive, BuiltSet, Built, Live
<1> QED BY <1>1, <1>2, <1>3, <1>4, <1>5, <1>6, <1>7 DEF Next, IdleTick

(* With ticks anywhere inside process_create, current_process names a slot *)
(* in use or nobody, until a creation fails while its own slot is current. *)
THEOREM CurrentStaysLive == Spec => [](TableInv /\ CurrentIsLive)
<1>1. Init => TableInv
  BY DEF Init, TableInv, CurrentIsLive, CreatingIsLive
<1>2. TypeOK /\ TableInv /\ [Next]_vars => TableInv'
  BY TableSteps
<1>3. TableInv => CurrentIsLive
  BY DEF TableInv
<1> QED BY <1>1, <1>2, <1>3, SchedulerTypeCorrect, PTL DEF Spec

(* process_count never exceeds the number of finished processes, and is    *)
(* that number up to the first stray, however creations, failed creations, *)
(* exits, yields and ticks (inside creations too) alternate.               *)
THEOREM CountStaysExact == Spec => []CountIsLive
<1>1. Init => CountIsLive
  <2> SUFFICES ASSUME Init PROVE CountIsLive
    OBVIOUS
  <2>1. {s \in Slots : Built(s)} = {}
    BY DEF Init, Built, Live
  <2>2. Cardinality({s \in Slots : Built(s)}) = 0
    BY <2>1, FS_EmptySet
  <2> QED BY <2>2 DEF Init, CountIsLive
<1>2. TypeOK /\ TableInv /\ CountIsLive /\ [Next]_vars => CountIsLive'
  <2> SUFFICES ASSUME TypeOK, TableInv, CountIsLive, [Next]_vars
               PROVE  /\ count' <= Cardinality(BuiltSet')
                      /\ ~strayed' => count' = Cardinality(BuiltSet')
    BY DEF CountIsLive, BuiltSet
  <2>1. /\ IsFiniteSet(BuiltSet) /\ IsFiniteSet(BuiltSet')
        /\ count <= Cardinality(BuiltSet) /\ count \in Int
        /\ ~strayed => count = Cardinality(BuiltSet)
    <3>1. IsFiniteSet(Slots)
      BY FS_Interval, SlotsAssumption DEF Slots
    <3>2. BuiltSet \subseteq Slots /\ BuiltSet' \subseteq Slots
      BY DEF BuiltSet
    <3>3. IsFiniteSet(BuiltSet) /\ IsFiniteSet(BuiltSet')
      BY <3>1, <3>2, FS_Subset
    <3> QED BY <3>3 DEF CountIsLive, BuiltSet, TypeOK
  <2>2. Cardinality(BuiltSet) \in Nat /\ Cardinality(BuiltSet') \in Nat
    BY <2>1, FS_CardinalityType
  <2>3. strayed => strayed'
    BY TableSteps
  <2>4. CASE CreateDone /\ creating \notin BuiltSet
             /\ BuiltSet' = BuiltSet \cup {creating}
    <3>1. count' = count + 1 /\ strayed' = strayed
      BY <2>4 DEF CreateDone
    <3>2. Cardinality(BuiltSet') = Cardinality(BuiltSet) + 1
      BY <2>1, <2>4, FS_AddElement
    <3> QED BY <2>1, <2>2, <3>1, <3>2
  <2>5. CASE Exit /\ current \in BuiltSet /\ BuiltSet' = BuiltSet \ {current}
    <3>1. count' = count - 1 /\ strayed' = strayed
      BY <2>5 DEF Exit
    <3>2. Cardinality(BuiltSet') = Cardinality(BuiltSet) - 1
      BY <2>1, <2>5, FS_RemoveElement
    <3> QED BY <2>1, <2>2, <3>1, <3>2
  <2>6. CASE BuiltSet' = BuiltSet /\ count' = count
    BY <2>1, <2>3, <2>6
  <2>7. CASE strayed /\ BuiltSet \subseteq BuiltSet' /\ count' <= count
    <3>1. Cardinality(BuiltSet) <= Cardinality(BuiltSet')
      BY <2>1, <2>7, FS_Subset
    <3>2. count' \in Int
      BY <2>1 DEF Next, Claim, CreateNoKernelStack, CreateNoUserStack,
                  CreateDone, Exit, Yield, Tick, IdleTick, vars
    <3> QED BY <2>1, <2>2, <2>3, <2>7, <3>1, <3>2
  <2> QED BY <2>4, <2>5, <2>6, <2>7, TableSteps
<1> QED BY <1>1, <1>2, SchedulerTypeCorrect, CurrentStaysLive, PTL DEF Spec
-----------------------------------------------------------------------------
(* The allocator's counter follows the bitmap through every call.          *)
Exact(m) == m.used = Cardinality(m.bitmap)

LEMMA PmmExact ==
  ASSUME NEW m \in PmmState, Exact(m), NEW q \in Nat
  PROVE  /\ \A p \in Pages \ m.bitmap : Exact(PmmAlloc(m, p))
         /\ Exact(PmmFree(m, q))
<1>1. IsFiniteSet(m.bitmap)
  <2>1. IsFiniteSet(Pages)
    BY TotalPagesAssumption, FS_Interval DEF Pages
  <2> QED BY <2>1, FS_Subset DEF PmmState
<1>2. \A p \in Pages \ m.bitmap : Exact(PmmAlloc(m, p))
  BY <1>1, FS_AddElement DEF Exact, PmmAlloc
<1>3. ASSUME q \in m.bitmap PROVE Exact(PmmFree(m, q))
  BY <1>1, <1>3, FS_RemoveElement DEF Exact, PmmFree
<1>4. ASSUME q \notin m.bitmap PROVE Exact(PmmFree(m, q))
  BY <1>4 DEF PmmFree
<1> QED BY <1>2, <1>3, <1>4

(* What sys_meminfo reports is what the bitmap says: no sequence of failed *)
(* creations, of exits (of a stray slot too) that free a virtual address   *)
(* or a stale one, or of second frees makes the counter drift.             *)
THEOREM MeminfoStaysExact == Spec => []MeminfoExact
<1>1. Init => MeminfoExact
  BY PmmInitFacts DEF Init, MeminfoExact
<1>2. TypeOK /\ MeminfoExact /\ [Next]_vars => MeminfoExact'
  <2> SUFFICES ASSUME TypeOK, MeminfoExact, [Next]_vars PROVE Exact(pmm')
    BY DEF MeminfoExact, Exact
  <2>1. pmm \in PmmState /\ Exact(pmm)
    BY DEF TypeOK, MeminfoExact, Exact
  <2>2. CASE CreateNoUserStack
    <3>1. PICK k \in Pages : /\ FirstFree(pmm, k)
                             /\ pmm' = PmmFree(PmmAlloc(pmm, k), k)
      BY <2>2 DEF CreateNoUserStack
    <3>2. k \in Nat /\ k \notin pmm.bitmap
      BY <3>1, FirstFreeIsPage DEF Pages
    <3>3. PmmAlloc(pmm, k) \in PmmState /\ Exact(PmmAlloc(pmm, k))
      BY <2>1, <3>2, PmmTypes, PmmExact
    <3> QED BY <3>1, <3>2, <3>3, PmmExact
  <2>3. CASE CreateDone
    <3>1. PICK k \in Pages, u \in Pages :
            /\ FirstFree(pmm, k)
            /\ FirstFree(PmmAlloc(pmm, k), u)
            /\ MapUserStack(PmmAlloc(PmmAlloc(pmm, k), u), creating, u)
      BY <2>3 DEF CreateDone
    <3> DEFINE m1 == PmmAlloc(pmm, k)
               m2 == PmmAlloc(m1, u)
    <3>2. k \in Nat /\ u \in Nat /\ k \notin pmm.bitmap /\ u \notin m1.bitmap
      BY <3>1, FirstFreeIsPage DEF Pages
    <3>3. m1 \in PmmState /\ Exact(m1)
      BY <2>1, <3>2, PmmTypes, PmmExact
    <3> HIDE DEF m1
    <3>4. m2 \in PmmState /\ Exact(m2)
      BY <3>2, <3>3, PmmTypes, PmmExact
    <3>5. MapUserStack(m2, creating, u)
      BY <3>1 DEF m1
    <3> HIDE DEF m2
    <3>6. CASE pmm' = m2
      BY <3>4, <3>6
    <3>7. CASE \E t \in Pages : FirstFree(m2, t) /\ pmm' = PmmAlloc(m2, t)
      <4>1. PICK t \in Pages : FirstFree(m2, t) /\ pmm' = PmmAlloc(m2, t)
        BY <3>7
      <4>2. t \in Nat /\ t \notin m2.bitmap
        BY <4>1, FirstFreeIsPage DEF Pages
      <4> QED BY <3>4, <4>1, <4>2, PmmExact
    <3> QED BY <3>5, <3>6, <3>7 DEF MapUserStack
  <2>4. CASE Exit
    <3>1. kernel_stack[current] \in Nat /\ user_stack[current] \in Nat
      BY <2>4 DEF Exit, Syscall, TypeOK, Pages
    <3>2. 0 \in Pages
      BY TotalPagesAssumption DEF Pages
    <3>3. /\ PmmFree(pmm, kernel_stack[current]) \in PmmState
          /\ Exact(PmmFree(pmm, kernel_stack[current]))
      BY <2>1, <3>1, <3>2, PmmTypes, PmmExact
    <3>4. Exact(ExitPages(current))
      BY <3>1, <3>3, PmmExact DEF ExitPages
    <3> QED BY <2>4, <3>4 DEF Exit
  <2>5. CASE pmm' = pmm
    BY <2>1, <2>5
  <2> QED BY <2>2, <2>3, <2>4, <2>5
          DEF Next, Claim, CreateNoKernelStack, Yield, Tick, IdleTick, vars, memVars
<1> QED BY <1>1, <1>2, SchedulerTypeCorrect, PTL DEF Spec
-----------------------------------------------------------------------------
(* The strengthening StacksApart needs: user_stack is no address of        *)
(* physical memory, and a slot with a mapped page has a user stack.        *)
NotPhysical(page) == page = 0 \/ page >= TotalPages
StackInv ==
  /\ StacksApart
  /\ \A s \in Slots : /\ NotPhysical(user_stack[s])
                      /\ pte[s] # 0 => user_stack[s] # 0

(* A step that changes neither pages nor stacks nor the set of finished    *)
(* processes keeps the stacks apart.                                       *)
LEMMA StacksStutter ==
  ASSUME StackInv, UNCHANGED <<kernel_stack, user_stack, pmm, table, pte>>,
         \A s \in Slots : Built(s)' <=> Built(s)
  PROVE  StackInv'
  BY DEF StackInv, StacksApart

(* Freeing a page that was just taken restores the bitmap.                 *)
LEMMA TakeAndGiveBack ==
  ASSUME NEW m \in PmmState, 0 \in m.bitmap, NEW k \in Pages \ m.bitmap
  PROVE  PmmFree(PmmAlloc(m, k), k).bitmap = m.bitmap
<1>1. k # 0 /\ ~(k >= TotalPages)
  BY TotalPagesAssumption DEF Pages
<1>2. PmmAlloc(m, k).bitmap = m.bitmap \cup {k}
  BY DEF PmmAlloc
<1>3. PmmFree(PmmAlloc(m, k), k).bitmap = (m.bitmap \cup {k}) \ {k}
  BY <1>1, <1>2 DEF PmmFree
<1> QED BY <1>3

(* The bitmap and the mappings after vmm_map_page.                         *)
LEMMA MapEffect ==
  ASSUME TypeOK, NEW m \in PmmState, NEW s \in Slots, NEW u \in Pages,
         MapUserStack(m, s, u)
  PROVE  /\ m.bitmap \subseteq pmm'.bitmap
         /\ pte' = pte \/ pte' = [pte EXCEPT ![s] = u]
         /\ table' = table \/ (table = 0 /\ table' \in pmm'.bitmap \ m.bitmap)
  BY FirstFreeIsPage DEF MapUserStack, PmmAlloc

(* A finished creation takes pages nobody holds.                           *)
LEMMA CreateDoneKeepsStacks ==
  ASSUME TypeOK, TypeOK', StackInv, CreateDone,
         BuiltSet' = BuiltSet \cup {creating}, creating \in Slots \ BuiltSet
  PROVE  StackInv'
<1>1. PICK k \in Pages, u \in Pages :
        /\ FirstFree(pmm, k)
        /\ FirstFree(PmmAlloc(pmm, k), u)
        /\ MapUserStack(PmmAlloc(PmmAlloc(pmm, k), u), creating, u)
        /\ kernel_stack' = [kernel_stack EXCEPT ![creating] = k]
  BY DEF CreateDone
<1> DEFINE c == creating
           m == PmmAlloc(PmmAlloc(pmm, k), u)
<1>2. user_stack' = [user_stack EXCEPT ![c] = UserStack(c)]
  BY DEF CreateDone
<1>3. /\ m.bitmap = pmm.bitmap \cup {k, u}
      /\ k \notin pmm.bitmap /\ u \notin pmm.bitmap /\ u # k
  BY <1>1, FirstFreeIsPage DEF PmmAlloc
<1>4. m \in PmmState
  BY <1>1, PmmTypes DEF TypeOK
<1>5. /\ m.bitmap \subseteq pmm'.bitmap
      /\ pte' = pte \/ pte' = [pte EXCEPT ![c] = u]
      /\ table' = table \/ (table = 0 /\ table' \in pmm'.bitmap \ m.bitmap)
  BY <1>1, <1>4, MapEffect
<1>6. /\ NotPhysical(UserStack(c)) /\ NotPhysical(0)
      /\ UserStack(c) # 0
  BY UserStackIsVirtual DEF NotPhysical
<1>7. /\ \A s \in Slots : Built(s)' <=> (Built(s) \/ s = c)
      /\ ~Built(c)
  BY DEF BuiltSet
<1>8. pte[c] = 0
  BY <1>7 DEF StackInv, StacksApart
<1>9. /\ \A s \in Slots : kernel_stack'[s] = IF s = c THEN k ELSE kernel_stack[s]
      /\ \A s \in Slots : user_stack'[s] = IF s = c THEN UserStack(c)
                                             ELSE user_stack[s]
      /\ \A s \in Slots : pte'[s] = pte[s] \/ (s = c /\ pte'[s] = u)
  BY <1>1, <1>2, <1>5 DEF TypeOK
<1> HIDE DEF m, c
<1>10. 0 \in pmm.bitmap /\ table \in pmm.bitmap
  BY DEF StackInv, StacksApart
<1>11. {0, table'} \subseteq pmm'.bitmap
  BY <1>3, <1>5, <1>10
<1>12. \A s \in Slots : /\ NotPhysical(user_stack'[s])
                        /\ pte'[s] # 0 => user_stack'[s] # 0
  BY <1>6, <1>9 DEF StackInv
<1>13. \A s \in Slots : pte'[s] # 0 =>
         /\ Built(s)' /\ pte'[s] \in pmm'.bitmap \ {table'}
         /\ \A t \in Slots : pte'[t] = pte'[s] => t = s
  BY <1>3, <1>5, <1>7, <1>8, <1>9, <1>10 DEF StackInv, StacksApart
<1>14. \A s \in Slots : Built(s)' =>
         /\ kernel_stack'[s] \in pmm'.bitmap \ {0, table'}
         /\ \A t \in Slots :
              /\ Built(t)' /\ kernel_stack'[t] = kernel_stack'[s] => t = s
              /\ kernel_stack'[s] # pte'[t]
  BY <1>3, <1>5, <1>7, <1>8, <1>9, <1>10 DEF StackInv, StacksApart
<1> QED BY <1>11, <1>12, <1>13, <1>14 DEF StackInv, StacksApart

(* An exit gives back the kernel stack page of the current process and     *)
(* nothing that another process holds.                                     *)
LEMMA ExitKeepsStacks ==
  ASSUME TypeOK, StackInv, Exit,
         BuiltSet' = BuiltSet \ {current}, current \in BuiltSet
  PROVE  StackInv'
<1> DEFINE c == current
<1>1. c \in Slots
  BY DEF BuiltSet
<1>2. /\ kernel_stack' = [kernel_stack EXCEPT ![c] = 0]
      /\ user_stack' = [user_stack EXCEPT ![c] = 0]
      /\ pte' = IF user_stack[c] = 0 THEN pte ELSE [pte EXCEPT ![c] = 0]
      /\ table' = table /\ pmm' = ExitPages(c)
  BY DEF Exit
<1>3. NotPhysical(user_stack[c])
  BY <1>1 DEF StackInv
<1>4. pmm'.bitmap = pmm.bitmap \ {kernel_stack[c]}
  <2>1. /\ kernel_stack[c] \in pmm.bitmap \ {0}
        /\ kernel_stack[c] < TotalPages /\ kernel_stack[c] \in Nat
    BY <1>1, TotalPagesAssumption
       DEF StackInv, StacksApart, BuiltSet, TypeOK, Pages
  <2>2. PmmFree(pmm, kernel_stack[c]).bitmap = pmm.bitmap \ {kernel_stack[c]}
    BY <2>1, TotalPagesAssumption DEF PmmFree
  <2>3. ExitPages(c) = PmmFree(pmm, kernel_stack[c])
    BY <1>3 DEF ExitPages, PmmFree, NotPhysical
  <2> QED BY <1>2, <2>2, <2>3
<1>5. \A s \in Slots : Built(s)' <=> (Built(s) /\ s # c)
  BY DEF BuiltSet
<1>6. pte[c] # 0 => user_stack[c] # 0
  BY <1>1 DEF StackInv
<1>7. /\ \A s \in Slots : kernel_stack'[s] = IF s = c THEN 0 ELSE kernel_stack[s]
      /\ \A s \in Slots : user_stack'[s] = IF s = c THEN 0 ELSE user_stack[s]
      /\ \A s \in Slots : pte'[s] = IF s = c THEN 0 ELSE pte[s]
  BY <1>1, <1>2, <1>6 DEF TypeOK
<1>8. Built(c) /\ table' = table
  BY <1>2 DEF BuiltSet
<1> HIDE DEF c
<1>9. StacksApart'
  BY <1>1, <1>4, <1>5, <1>7, <1>8 DEF StackInv, StacksApart
<1>10. \A s \in Slots : /\ NotPhysical(user_stack'[s])
                        /\ pte'[s] # 0 => user_stack'[s] # 0
  BY <1>7 DEF StackInv, NotPhysical
<1> QED BY <1>9, <1>10 DEF StackInv
(* No order of creations, failed creations, exits and ticks makes two      *)
(* processes share a stack page or leaves a process with a page that was   *)
(* given back, up to the first stray.                                      *)
THEOREM StacksStayOwned == Spec => []StacksOwned
<1>1. Init => StackInv
  <2> SUFFICES ASSUME Init PROVE StackInv
    OBVIOUS
  <2>1. PICK n \in 1..TotalPages : pmm = PmmInit(0..(n - 1))
    BY DEF Init
  <2>2. 0 \in pmm.bitmap
    BY <2>1, TotalPagesAssumption DEF PmmInit, Pages
  <2>3. \A s \in Slots : ~Built(s) /\ pte[s] = 0 /\ user_stack[s] = 0
    BY DEF Init, Built, Live
  <2>4. table = 0
    BY DEF Init
  <2> QED BY <2>2, <2>3, <2>4 DEF StackInv, StacksApart, NotPhysical
<1>2. TypeOK /\ TypeOK' /\ TableInv /\ (~strayed => StackInv) /\ [Next]_vars
        => (~strayed => StackInv)'
  <2> SUFFICES ASSUME TypeOK, TypeOK', TableInv, ~strayed => StackInv,
                      [Next]_vars, ~strayed'
               PROVE  StackInv'
    OBVIOUS
  <2> SUFFICES ASSUME ~strayed, StackInv PROVE StackInv'
    BY TableSteps
  <2>1. CASE CreateDone
    <3>1. creating # NoSlot /\ ~Exit
      BY <2>1 DEF CreateDone, Exit, Syscall
    <3>2. count' # count
      BY <2>1 DEF CreateDone, TypeOK
    <3> QED BY <2>1, <3>1, <3>2, TableSteps, CreateDoneKeepsStacks
  <2>2. CASE Exit
    <3>1. ~CreateDone
      BY <2>2 DEF CreateDone, Exit, Syscall
    <3>2. count' # count
      BY <2>2 DEF Exit, TypeOK
    <3> QED BY <2>2, <3>1, <3>2, TableSteps, ExitKeepsStacks
  <2>3. CASE ~CreateDone /\ ~Exit
    <3>1. \A s \in Slots : Built(s)' <=> Built(s)
      BY <2>3, TableSteps DEF BuiltSet
    <3>2. CASE CreateNoUserStack
      <4>1. creating \in Slots /\ ~Built(creating)
        BY <3>2 DEF CreateNoUserStack, TypeOK, Built
      <4>2. PICK k \in Pages :
              /\ FirstFree(pmm, k)
              /\ pmm' = PmmFree(PmmAlloc(pmm, k), k)
              /\ kernel_stack' = [kernel_stack EXCEPT ![creating] = k]
        BY <3>2 DEF CreateNoUserStack
      <4>3. pmm'.bitmap = pmm.bitmap
        <5>1. 0 \in pmm.bitmap /\ pmm \in PmmState
          BY DEF StackInv, StacksApart, TypeOK
        <5>2. k \in Pages \ pmm.bitmap
          BY <4>2, FirstFreeIsPage
        <5> QED BY <4>2, <5>1, <5>2, TakeAndGiveBack
      <4>4. /\ user_stack' = [user_stack EXCEPT ![creating] = UserStack(creating)]
            /\ UNCHANGED <<table, pte>>
        BY <3>2 DEF CreateNoUserStack
      <4>5. NotPhysical(UserStack(creating)) /\ UserStack(creating) # 0
        BY <4>1, UserStackIsVirtual DEF NotPhysical
      <4>6. \A s \in Slots : Built(s) => kernel_stack'[s] = kernel_stack[s]
        BY <4>1, <4>2 DEF TypeOK
      <4>7. \A s \in Slots : /\ NotPhysical(user_stack'[s])
                             /\ pte'[s] # 0 => user_stack'[s] # 0
        BY <4>1, <4>4, <4>5 DEF StackInv, TypeOK
      <4>8. StacksApart'
        BY <3>1, <4>3, <4>4, <4>6 DEF StackInv, StacksApart
      <4> QED BY <4>7, <4>8 DEF StackInv
    <3>3. CASE UNCHANGED <<kernel_stack, user_stack, pmm, table, pte>>
      BY <3>1, <3>3, StacksStutter
    <3> QED BY <2>3, <3>2, <3>3
            DEF Next, Claim, CreateNoKernelStack, Yield, Tick, IdleTick, vars,
                memVars
  <2> QED BY <2>1, <2>2, <2>3
<1>3. (~strayed => StackInv) => StacksOwned
  BY DEF StackInv, StacksOwned
<1> QED BY <1>1, <1>2, <1>3, SchedulerTypeCorrect, CurrentStaysLive, PTL
        DEF Spec

-----------------------------------------------------------------------------
(* Each hand-over brings every process that goes on waiting nearer its     *)
(* turn: the search starts after the current process and takes the first   *)
(* runnable one, so it cannot jump over a waiting one.                     *)
THEOREM TurnsComeNearer == Spec => TurnsApproach
<1> DEFINE Nearer == current' # current /\ current' # NoSlot =>
             \A s \in Slots : Waiting(s) /\ Waiting(s)' =>
               Distance(current', s) < Distance(current, s)
<1>1. TypeOK /\ [Next]_vars => [Nearer]_vars
  <2> SUFFICES ASSUME TypeOK, [Next]_vars, current' # current,
                      current' # NoSlot, NEW s \in Slots, Waiting(s)
               PROVE  current' # s => Distance(current', s) < Distance(current, s)
    BY DEF Waiting
  <2>1. Tick
    BY DEF Next, Claim, CreateNoKernelStack, CreateNoUserStack, CreateDone,
           Exit, AfterExit, Yield, IdleTick, vars, NoSlot
  <2>2. PICK i \in Slots : Found(i) /\ current' = Candidate(i)
    BY <2>1 DEF Tick
  <2>3. \A j \in Slots : j < i => Candidate(j) # s
    BY <2>2 DEF Found, Runnable, Waiting
  <2>4. \A j \in Slots : Candidate(j) = IF current + 1 + j < MAX_PROCESSES
                                         THEN current + 1 + j
                                         ELSE current + 1 + j - MAX_PROCESSES
    BY CandidateIsSlot
  <2>5. \A j \in Slots : j = Distance(current, s) - 1 => Candidate(j) = s
    BY <2>4, SlotsAssumption DEF Distance, Slots, TypeOK, NoSlot
  <2>6. Distance(current, s) - 1 \in Slots
    BY SlotsAssumption DEF Distance, Slots, TypeOK, NoSlot, Waiting
  <2>7. i <= Distance(current, s) - 1
    BY <2>3, <2>5, <2>6 DEF Slots
  <2>8. current' = IF current + 1 + i < MAX_PROCESSES THEN current + 1 + i
                   ELSE current + 1 + i - MAX_PROCESSES
    BY <2>2, <2>4
  <2>9. current \in Slots \cup {-1}
    BY DEF TypeOK, NoSlot
  <2> QED BY <2>6, <2>7, <2>8, <2>9, SlotsAssumption DEF Distance, Slots
<1> QED BY <1>1, SchedulerTypeCorrect, PTL DEF Spec, TurnsApproach
=============================================================================
