------------------------------ MODULE Scheduler ------------------------------
(***************************************************************************)
(* The process table and the round-robin scheduler, src/process/           *)
(* scheduler.c, with the physical pages of the stacks (rust/src/pmm.rs)    *)
(* and the page-table entries of the user stacks (src/memory/vmm.c).       *)
(*                                                                         *)
(* One CPU.  scheduler_tick is the timer interrupt.  process_create is     *)
(* kernel code that runs with interrupts on: it publishes the slot (state  *)
(* READY) long before it finishes, so it is two steps, Claim and one of    *)
(* the outcomes, and any number of ticks falls between them.  (What lies   *)
(* between touches only pages and fields that a tick does not read, and a  *)
(* tick before the slot is claimed changes nothing the search for it       *)
(* reads, as long as current_process is a slot in use; so finer steps give *)
(* no further behaviours up to the first stray, see below.)  process_exit  *)
(* and process_yield are system calls; the gate of int 0x80 turns          *)
(* interrupts off, so each is one step.                                    *)
(*                                                                         *)
(* strayed is a history variable: it becomes TRUE when process_create      *)
(* gives up a slot that a tick has made current meanwhile.  From then on   *)
(* current_process names an unused slot, which the next tick or yield      *)
(* marks READY again, without stacks and uncounted.                        *)
(*                                                                         *)
(* A stack is named by its page number: kernel_stack is a physical page,   *)
(* user_stack a virtual one, VirtTop - slot, above all physical memory.    *)
(* Names, pids (slot + 1), exit codes, registers and time_slices are left  *)
(* out: nothing below depends on them.                                     *)
(***************************************************************************)
EXTENDS Pmm

CONSTANTS MAX_PROCESSES,       \* slots of the table (32)
          VirtTop              \* page number of 0xBFFFF000

ASSUME SlotsAssumption == MAX_PROCESSES \in Nat \ {0}
ASSUME VirtAssumption == /\ VirtTop \in Nat
                         /\ VirtTop - MAX_PROCESSES >= TotalPages

VARIABLES state,         \* processes[i].state
          kernel_stack,  \* processes[i].kernel_stack, 0 for none
          user_stack,    \* processes[i].user_stack, 0 for none
          current,       \* current_process
          count,         \* process_count
          creating,      \* slot process_create is filling in, or NoSlot
          pmm,           \* the page allocator
          table,         \* page of the page table that maps all user stacks
          pte,           \* page mapped at the user stack address of a slot
          halted,        \* cli; hlt
          strayed        \* history: a slot was given up while current

vars == <<state, kernel_stack, user_stack, current, count, creating,
          pmm, table, pte, halted, strayed>>
memVars == <<pmm, table, pte>>

Slots == 0..(MAX_PROCESSES - 1)
NoSlot == -1

Live(s) == state[s] # "UNUSED"
Runnable(s) == state[s] \in {"READY", "RUNNING"}

\* 0xBFFFF000 - slot * PAGE_SIZE
UserStack(s) == VirtTop - s

\* At boot the kernel and its page tables hold the lowest pages.
Init == /\ state = [s \in Slots |-> "UNUSED"]
        /\ kernel_stack = [s \in Slots |-> 0]
        /\ user_stack = [s \in Slots |-> 0]
        /\ current = NoSlot
        /\ count = 0
        /\ creating = NoSlot
        /\ \E n \in 1..TotalPages : pmm = PmmInit(0..(n - 1))
        /\ table = 0
        /\ pte = [s \in Slots |-> 0]
        /\ halted = FALSE
        /\ strayed = FALSE

-----------------------------------------------------------------------------
\* process_create: the first unused slot becomes READY.
Claim(s) ==
  /\ ~halted /\ creating = NoSlot
  /\ count < MAX_PROCESSES
  /\ state[s] = "UNUSED" /\ \A t \in Slots : t < s => state[t] # "UNUSED"
  /\ state' = [state EXCEPT ![s] = "READY"]
  /\ creating' = s
  /\ UNCHANGED <<kernel_stack, user_stack, current, count, memVars, halted,
                 strayed>>

\* The failure paths give the slot up, whoever is current.
GivenUp_StillReady == state
GivenUp == [state EXCEPT ![creating] = "UNUSED"]

\* No page for the kernel stack: the fields of the slot are stale.
CreateNoKernelStack ==
  /\ creating # NoSlot
  /\ Free(pmm) = {}
  /\ state' = GivenUp
  /\ creating' = NoSlot
  /\ strayed' = (strayed \/ current = creating)
  /\ UNCHANGED <<kernel_stack, user_stack, current, count, memVars, halted>>

\* No page for the user stack: the page of the kernel stack goes back, but
\* the fields of the slot still name both stacks.
CreateNoUserStack ==
  /\ creating # NoSlot
  /\ \E k \in Pages :
       /\ FirstFree(pmm, k)
       /\ Free(PmmAlloc(pmm, k)) = {}
       /\ pmm' = PmmFree(PmmAlloc(pmm, k), k)
       /\ kernel_stack' = [kernel_stack EXCEPT ![creating] = k]
  /\ user_stack' = [user_stack EXCEPT ![creating] = UserStack(creating)]
  /\ state' = GivenUp
  /\ creating' = NoSlot
  /\ strayed' = (strayed \/ current = creating)
  /\ UNCHANGED <<current, count, table, pte, halted>>

\* vmm_map_page(user_stack, u): when the page table of the user stacks does
\* not exist yet it takes a page, and when there is none nothing is mapped.
MapUserStack(m, s, u) ==
  \/ /\ table # 0
     /\ pmm' = m /\ pte' = [pte EXCEPT ![s] = u] /\ UNCHANGED table
  \/ /\ table = 0 /\ Free(m) = {}
     /\ pmm' = m /\ UNCHANGED <<table, pte>>
  \/ /\ table = 0
     /\ \E t \in Pages : /\ FirstFree(m, t)
                         /\ pmm' = PmmAlloc(m, t)
                         /\ table' = t
     /\ pte' = [pte EXCEPT ![s] = u]

\* Both stacks are there: the process counts from now on.
CreateDone ==
  /\ creating # NoSlot
  /\ \E k, u \in Pages :
       /\ FirstFree(pmm, k)
       /\ FirstFree(PmmAlloc(pmm, k), u)
       /\ MapUserStack(PmmAlloc(PmmAlloc(pmm, k), u), creating, u)
       /\ kernel_stack' = [kernel_stack EXCEPT ![creating] = k]
  /\ user_stack' = [user_stack EXCEPT ![creating] = UserStack(creating)]
  /\ count' = count + 1
  /\ creating' = NoSlot
  /\ UNCHANGED <<state, current, halted, strayed>>

-----------------------------------------------------------------------------
\* A system call: user code runs only while no kernel code is in the middle
\* of process_create.  Whether the current slot is in use is not tested.
Syscall == /\ ~halted /\ creating = NoSlot
           /\ current # NoSlot

\* process_exit.  The second pmm_free_page is given the virtual address of
\* the user stack, not the page mapped there.
ExitPages(s) == PmmFree(PmmFree(pmm, kernel_stack[s]), user_stack[s])

\* current_process is forgotten, on both branches.
AfterExit_Kept == current
AfterExit == NoSlot

Exit ==
  /\ Syscall
  /\ pmm' = ExitPages(current)
  /\ pte' = IF user_stack[current] = 0 THEN pte ELSE [pte EXCEPT ![current] = 0]
  /\ kernel_stack' = [kernel_stack EXCEPT ![current] = 0]
  /\ user_stack' = [user_stack EXCEPT ![current] = 0]
  /\ state' = [state EXCEPT ![current] = "UNUSED"]
  /\ count' = count - 1
  /\ current' = AfterExit
  /\ halted' = (count = 1)
  /\ UNCHANGED <<creating, table, strayed>>

\* process_yield
Yield == /\ Syscall
         /\ state' = [state EXCEPT ![current] = "READY"]
         /\ UNCHANGED <<kernel_stack, user_stack, current, count, creating,
                        memVars, halted, strayed>>

-----------------------------------------------------------------------------
\* The slot scheduler_tick looks at after i others; the search starts after
\* the current process, at slot 0 when there is none.
Candidate_FromZero(i) == i
Candidate(i) == (current + 1 + i) % MAX_PROCESSES

\* The first runnable slot of the search.
Found(i) == /\ Runnable(Candidate(i))
            /\ \A j \in Slots : j < i => ~Runnable(Candidate(j))

\* scheduler_tick hands the CPU over: the old process, whatever its state,
\* becomes READY.
Switch_KeepOld(next) == [state EXCEPT ![next] = "RUNNING"]
Switch(next) ==
  [s \in Slots |-> IF s = next THEN "RUNNING"
                   ELSE IF s = current THEN "READY" ELSE state[s]]

Tick == /\ ~halted
        /\ count # 0
        /\ \E i \in Slots :
             /\ Found(i)
             /\ Candidate(i) # current
             /\ state' = Switch(Candidate(i))
             /\ current' = Candidate(i)
        /\ UNCHANGED <<kernel_stack, user_stack, count, creating, memVars,
                       halted, strayed>>

\* A tick that finds nobody else returns, and a halted machine stays halted.
IdleTick == /\ \/ halted
               \/ count = 0
               \/ \A i \in Slots : Found(i) => Candidate(i) = current
            /\ UNCHANGED vars

Next == \/ \E s \in Slots : Claim(s)
        \/ CreateNoKernelStack
        \/ CreateNoUserStack
        \/ CreateDone
        \/ Exit
        \/ Yield
        \/ Tick
        \/ IdleTick

Spec == Init /\ [][Next]_vars
\* The interrupt controller latches a timer interrupt that comes while
\* interrupts are off and delivers it when they are on again, so a tick that
\* is possible again and again is taken (SF); process_create runs to its end.
Create == CreateNoKernelStack \/ CreateNoUserStack \/ CreateDone
FairSpec == Spec /\ SF_vars(Tick) /\ WF_vars(Create)

-----------------------------------------------------------------------------

TypeOK == /\ state \in [Slots -> {"UNUSED", "READY", "RUNNING"}]
          /\ kernel_stack \in [Slots -> Pages]
          /\ user_stack \in [Slots -> Nat]
          /\ current \in Slots \cup {NoSlot}
          /\ count \in Int
          /\ creating \in Slots \cup {NoSlot}
          /\ pmm \in PmmState
          /\ table \in Pages
          /\ pte \in [Slots -> Pages]
          /\ halted \in BOOLEAN
          /\ strayed \in BOOLEAN

\* A process whose creation has ended well.
Built(s) == Live(s) /\ s # creating

(***************************************************************************)
(* Whatever order creations (failed ones too), exits, yields and ticks     *)
(* come in, process_count never exceeds the number of finished processes   *)
(* in the table, and is that number unless a slot was given up while       *)
(* current.  scheduler_tick stops scheduling and process_exit halts the    *)
(* machine on the strength of it.                                          *)
(***************************************************************************)
CountIsLive ==
  /\ count <= Cardinality({s \in Slots : Built(s)})
  /\ ~strayed => count = Cardinality({s \in Slots : Built(s)})

(***************************************************************************)
(* At most one process is RUNNING, and it is the one current_process       *)
(* names: scheduler_tick, which demotes only the slot it remembers, never  *)
(* leaves a second RUNNING process behind, not even when the process it    *)
(* remembers exited or was given up half-built.                            *)
(***************************************************************************)
OnlyCurrentRuns == \A s \in Slots : state[s] = "RUNNING" => s = current

(***************************************************************************)
(* current_process names a slot in use, a finished process or the one      *)
(* being created: system calls are charged to it (scheduler_current), and  *)
(* the next tick turns it READY without looking at its state.  The one way *)
(* to break it is a creation that fails while its own slot is current.     *)
(***************************************************************************)
CurrentIsLive == ~strayed /\ current # NoSlot => Live(current)

\* No stack page has two uses, and none in use is free.
StacksApart ==
  /\ \A s \in Slots : Built(s) =>
       /\ kernel_stack[s] \in pmm.bitmap \ {0, table}
       /\ \A t \in Slots :
            /\ Built(t) /\ kernel_stack[t] = kernel_stack[s] => t = s
            /\ kernel_stack[s] # pte[t]
  /\ \A s \in Slots : pte[s] # 0 =>
       /\ Built(s) /\ pte[s] \in pmm.bitmap \ {table}
       /\ \A t \in Slots : pte[t] = pte[s] => t = s
  /\ {0, table} \subseteq pmm.bitmap

(***************************************************************************)
(* Every finished process has a kernel stack page that is allocated and    *)
(* that no other process, mapped user stack or page table uses, and every  *)
(* mapped user stack page is likewise allocated and nobody else's: no      *)
(* order of ticks, failed creations, exits and re-creations hands a stack  *)
(* page out twice or frees one in use, unless a slot was given up while    *)
(* current (an exit of that slot frees the page its stale field names).    *)
(***************************************************************************)
StacksOwned == ~strayed => StacksApart

(***************************************************************************)
(* The counter behind sys_meminfo and the memory display is the number of  *)
(* set bits of the bitmap, through failed creations, exits that free an    *)
(* address outside memory and frees of pages that are free already.        *)
(***************************************************************************)
MeminfoExact == pmm.used = Cardinality(pmm.bitmap)

\* How many slots the search of scheduler_tick goes through to reach s.
Distance(c, s) == IF s > c THEN s - c ELSE s - c + MAX_PROCESSES
Waiting(s) == state[s] = "READY" /\ s # current

(***************************************************************************)
(* Every time scheduler_tick hands the CPU over, each process that goes on *)
(* waiting is strictly nearer its turn: while no process exits, nobody is  *)
(* passed over.                                                            *)
(***************************************************************************)
TurnsApproach ==
  [][current' # current /\ current' # NoSlot =>
       \A s \in Slots : Waiting(s) /\ Waiting(s)' =>
         Distance(current', s) < Distance(current, s)]_vars

(***************************************************************************)
(* A process that is READY is scheduled, unless it or the machine goes     *)
(* away first, however the others exit, yield and are created.             *)
(***************************************************************************)
TurnComes ==
  \A s \in Slots : (state[s] = "READY" /\ s # creating)
                     ~> (current = s \/ ~Live(s) \/ halted)
=============================================================================
