# Verification of DOSFS

DOSFS is a small i386 operating system: a C kernel with a shell, drivers, an
in-memory and a FAT16 file system, a TCP/IP client, a text editor, and two parts
in Rust (the page allocator and the message queue). This directory holds TLA+
models of its parts, the TLC configurations that check them on small instances,
and TLAPS proofs of the results that hold for every size.

Paths such as `scheduler.c:33` are relative to the sources (`src/process/`,
`src/net/`, ... and `rust/src/`). `PROJECT.json` maps every definition to the
lines it models.

## 1. The system

### How it runs

- One CPU, no preemption of kernel code by kernel code. Only two interrupts do
  anything: the timer (IRQ 0, 100 Hz, calls `scheduler_tick`) and the keyboard
  (IRQ 1). Both are acknowledged after their handler returned (`idt.c:97-106`), so
  a handler never interrupts itself.
- Everything else runs in one thread: `kernel_main` initialises with interrupts
  off and then runs the shell; commands, the editor and the menu are calls of the
  shell. The network is polled: no packet is handled outside a blocking call of
  `net.c`.
- `int 0x80` is an interrupt gate: system calls run with interrupts off.
- `scheduler_tick` changes the process table only; no registers are switched, and
  `process_create` has no caller in the tree. The process model is nevertheless
  complete enough to be used, and is modelled as its interface allows.
- The interrupt flag is part of some results. The waits of `net.c` are
  `sti; hlt; cli`, and leave interrupts off unless `timer_get_ticks` (which ends
  with `sti`) is called after the last turn; the key getters end with `sti` too.
  `Curl` and `Console` carry the flag as a variable.

These facts decide what is one atomic step in each module.

### Components

| Component | State | Operations | Talks to | What makes it correct |
|---|---|---|---|---|
| Message queue (`ipc.rs`, `ipc.c`) | ring, head, tail | send, receive | system calls | bounded FIFO, no stale bytes |
| Scheduler (`scheduler.c`, `timer.c`) | process table, current, count | create, exit, yield, tick | page allocator, page tables, timer | one running process, true count, stacks owned, turns come |
| Page allocator (`pmm.rs`) | bitmap, counter | alloc, free | everybody | counter is the bitmap, no page twice |
| Virtual memory (`vmm.c`) | page directory | map, unmap | page allocator | mapped pages owned |
| Heap (`heap.c`) | block list, break | kmalloc, kmalloc_aligned, kfree, krealloc | page allocator | blocks disjoint, held memory safe, merging |
| tmpfs (`tmpfs.c`) | slots, count | create, write, read, delete | shell, editor, menu | a bounded map from names to bytes |
| Shell file commands (`shell.c`) | none of its own | touch, write, cat, rm, cp, mv | tmpfs, heap | only named files change |
| FAT16 (`fat16.c`), ATA (`ata.c`) | FAT and directory on disk, cached listing | mount, read, write, delete | disk | chains intact, listing true, reads whole |
| TCP client (`net.c`) | one connection block | connect, send, recv, close, process | `curl`, network | stream order, no mixing of connections |
| `curl` (`shell.c`) | none of its own; the interrupt flag | connect, send, read until the end or a key, close | TCP, keyboard | all data before the end, a key stops it, the prompt lives on |
| ARP, ICMP, UDP, DNS (`net.c`) | receive ring, ARP cache, pending ping and query | ping, resolve, poll | NE2000 | own answers, true cache, no re-entry |
| NE2000 driver (`ne2000.c`) | page ring of the card, CURR, BNDRY | init, poll, send | `net.c` | packets in order, each once |
| Editor (`editor.c`) | lines, cursor, scroll | keys, open, save | tmpfs, keyboard | one edit per key, saved is stored |
| Keyboard (`keyboard.c`) | modifiers, two one-place buffers | handler, getchar, get_scancode, flush | shell, menu, editor, `sys_read` | no stuck modifier, no stroke twice |
| System calls (`syscall.c`) | none of their own | exit, sleep, read, ipc_send, ipc_recv | scheduler, keyboard, queue | waiting ends |
| Menu and line reader (`tui.c`, `shell.c`) | line, selection | read keys | keyboard | waiting ends |
| CPU simulator (`cpu_sim.c`) | registers, flags, memory | instructions, reg, reset | shell | pushed words survive |

What is not modelled is in section 6, with the reasons.

### What is hard here

- *Interleavings*: a tick inside `process_create`; the keyboard interrupt between
  the test of a flag and the `hlt`, and between a read and a flush.
- *Partial failures*: pages running out in the middle of a creation or a heap
  expansion; a sector write that fails in the middle of a deletion; a table of
  files that is full when `mv` or the editor writes.
- *Crashes*: a reset between two sector writes of the FAT16 driver.
- *Unreliable delivery*: lost, repeated and late segments, ARP answers and echo
  answers; a receive ring that overflows; a card whose ring goes round and whose old
  pages are read as headers; neighbours that remember the machine from before its
  boot; handlers that poll again.
- *Waiting*: `hlt` with interrupts off, after a connection that failed at the wrong
  moment or in a system call; a server that never ends its answer.
- *Boundaries*: wraps of rings, counters and addresses; full buffers; lines and
  texts at their limits.

The list of hazards, with lines and the properties that cover them, is in
`PROJECT.json`.

## 2. Modules

| Module | Models | State and actions |
|---|---|---|
| `IpcQueue` | `rust/src/ipc.rs` | `queue`, `head`, `tail`; `Send`, `Receive`, each one step because both run with interrupts off |
| `IpcFifo` | what the queue promises | a sequence of messages; refinement target of `IpcQueue` |
| `IpcQueueProofs` | | proofs, for every ring and message size |
| `Pmm` | `rust/src/pmm.rs` | operators on bitmap and counter |
| `Scheduler` | `scheduler.c`, stacks in `pmm.rs` and `vmm.c` | `Claim` and the three outcomes of `process_create`, with ticks between them, `Exit`, `Yield`, `Tick`, `IdleTick`; `strayed` remembers a creation that failed while its own slot was current |
| `SchedulerProofs` | | proofs, for every number of slots and pages |
| `Heap` | `heap.c` | the block list as a sequence; `Malloc`, `MallocAligned`, `Free`, `Realloc`; `PageTaken` and `PageFreed` for the other users of the page allocator |
| `HeapProofs` | | proofs, for every page, header and memory size |
| `Tmpfs` | `tmpfs.c` | slots and count; the calls as operators that give the new state and the result |
| `FlatFs` | what tmpfs and the commands on it promise | a map from names to bytes; refinement target |
| `ShellFiles` | `cmd_touch` ... `cmd_mv` of `shell.c` | EXTENDS `Tmpfs`; one action per command, `OtherCaller` for single calls |
| `Fat16` | `fat16.c`, `ata_write_sectors` | FAT, directory, cache; every sector write is a step, may fail, and a reset may follow it; a read is an operator with `max_size` and the place where memory or disk fail as arguments |
| `Fat16Proofs` | | proofs, for every volume, cache and number of failures |
| `Tcp` | TCP in `net.c` | connection block; `TcpPoll` is one `net_poll` with a batch of segments (`Polled`, a recursion over `Processed`), the other actions are entry and return of the blocking calls; server (segments of any lengths up to `MaxSeg`, FIN with or without data) and wire external |
| `Curl` | `cmd_curl` and the prompt of `shell.c` | EXTENDS `Tcp`; the program of the command step by step, the interrupt flag as each call leaves it, keys |
| `CurlProofs` | | proofs about `Tcp` and `Curl`, for every buffer, stream and number of faults |
| `Ne2000` | `ne2000.c` | the card's pages, CURR and BNDRY; `CardTakes` (external) and `TakePacket`; a packet takes one or more pages, and a page in the middle of one, taken for a header, says anything |
| `Net` | the rest of `net.c` | EXTENDS `Ne2000`; receive ring, ARP cache, a stack of nested waiting calls, `net_poll` as start, card, ring, end; hosts external, some of which know the machine from before its boot |
| `NetProofs` | | proofs about `Ne2000` and `Net`, for every ring, cache and set of hosts |
| `Editor` | `editor.c` | EXTENDS `Tmpfs`; one action per kind of key, open, save, quit |
| `TextBuffer` | what an editor promises | text before and after the cursor; refinement target of `Editor` |
| `Keyboard` | `keyboard.c` | the handler as an operator on the driver's state; presses, repetitions and releases of keys and the fake shifts around arrows external |
| `Console` | `shell_run`, `tui_test`, `sys_read`, the getters of `keyboard.c`, the timer as what ends a `hlt` | EXTENDS `Keyboard`; test, halt, take, flush and the command that runs are separate steps; the interrupt flag, which a command may leave off |
| `ConsoleProofs` | | proofs about `Keyboard` and `Console`, for every set of keys and number of strokes |
| `CpuSim` | `cpu_sim.c`, `reg` of `shell.c` | registers, flags, memory; one action per instruction group |
| `ShellProofs` | | proofs about what the shell runs: tmpfs and the file commands, the editor, the CPU simulator; for every table, file, text, screen, memory and register size |

`MC...` modules give TLC the values of constants that are no plain literals.
Operators with an underscore in their name (`Forget_None`) are mutated forms of
the definition that follows them: plausible mistakes, used to see that a property
notices them.

Data is abstracted to what the properties tell apart: bytes are small numbers,
names are model values, a segment carries a few units of data, a word of the CPU
simulator has four one-bit bytes; its logical operations and shifts are stated on the set
of bits that are one (`Ones`). Names longer than a slot, directory entries that
are not of the 8.3 form, and the text of command lines are left out.

## 3. Runs

| Run | Checks | Bounds, and why they are enough |
|---|---|---|
| `ipc_queue` | `UsedIsWindow`, refinement of `IpcFifo` | 3 slots of 2 bytes: full ring, wraps, cut messages, stale bytes; the proofs cover all sizes |
| `scheduler` | types, `CountIsLive`, `OnlyCurrentRuns`, `CurrentIsLive`, `StacksOwned`, `MeminfoExact`, `TurnsApproach`, `TurnComes` | 4 slots, 10 pages: memory runs out at each of the three requests of a creation, with ticks at every point, and slots are reused |
| `heap` | `BlocksDisjoint` (with types), `HeldIsSafe`, `FreedIsMerged` | pages of 16 bytes, 5 pages, 3 held blocks: splits that just fit and just do not, expansions that fail half-way and succeed after pages came back, sizes that wrap |
| `shell_files` | `TableConsistent` (with types), refinement of `FlatFs`, `OnlyNamedFilesChange`, `MvKeepsBytes` | 2 slots, 3 names, 2-byte files: full table, reuse, cut writes; names are symmetric |
| `fat16` | `ListedIsOnDisk` (with types), `ChainsIntact`, `ReadsWhole` | 4 clusters, 3 entries, a cache of 2, one failed write and one reset at any point; every `max_size` and every place where a read may fail |
| `fat16_write` | `WriteStores` is violated | the same volume, no failures |
| `curl` | `OnlyThisConnection` (with types), `StreamPrefix`, `AckedIsStored`, `EndAfterData`, `KeyStopsCurl` | two connections, a stream of 3 units in segments of 1 and 2 with or without FIN, a buffer of 3 (so that a long segment is dropped and a short one stored after it), reads of up to 2, one loss or repetition, 2 segments under way (SYN+ACK and RST, or data and FIN, in one poll), padded and unpadded frames |
| `curl_hang` | `PromptHearsKeys` is violated | one connection, no faults |
| `net` | `OneLapLate`, `OwnAnswer`, `CacheTrue`, `NoReentry` | 2 neighbours, one of which knows the machine at boot, and a far host, 2 calls, a receive ring of 3, a card of 4 pages with packets of 1 and 2 pages and 5 arrivals (the ring goes round, old pages and middles of packets are read, and the card is full with Reserve = 2), nesting up to 2 |
| `editor` | `CursorInText` (with types), `CleanMeansSame`, `SavedIsStored`, refinement of `TextBuffer` | 3 lines of 2 characters, a screen of 2 lines, a table of 1 file |
| `keyboard` | `ModifiersTrue`, `TypedAsMeant`, `DeafOnlyAtStart`, `DeliveredOnce`, `KeyIsTaken` | 4 strokes of 8 keys: enough to open the menu, act in it and leave it, or to make and fill a read of a user program, with modifiers changing in between, or to run a command that leaves interrupts off |
| `tools` | `StackIntact` | 4 instructions on 4-bit words and 8 bytes of memory: words that wrap, a stack deeper than the memory |

Deadlock is checked except in `net` and `tools`, which stop when their bounds are
used up, and in `curl` and `keyboard`, where the code itself can stop: the prompt
after a command that came back with interrupts off, and `sys_read` without a key.
Both stops are subjects of a property (`PromptHearsKeys`, `DeafOnlyAtStart`).

Every bound is a constant with a name in the guard it limits (`MaxFaults`,
`MaxResets`, `MaxCalls`, `MaxSent`, `MaxArrivals`, `MaxTaken`, `MaxDepth`, `MaxConnects`,
`MaxSeg`, `MaxHeld`, `MaxPages`, `MaxStrokes`, `WireLen`, `MaxSteps`). `Byte` of `net` must be
larger than `MaxCalls`: the echo id is compared in both byte orders, so with 256
pings or more (in the code) ping 256 accepts a late answer to ping 1.
`CallerAssumption` bounds the sizes asked of the heap: either `kmalloc` turns them away
or they stay a page below the wrap of the address. The largest request in the tree is
64 KiB (section 5 says what lies between).

### Fairness

- `scheduler`: strong fairness of `Tick` and weak fairness of the outcomes of
  `process_create`. The interrupt controller latches a timer interrupt that comes
  while interrupts are off and delivers it when they are on again, so a tick that
  is possible again and again is taken; weak fairness would let system calls
  always win. No process is assumed to exit or yield. `TurnComes` holds although
  the search restarts at slot 0 after an exit, because every exit leaks a page:
  the number of exits is bounded by memory.
- `curl`: weak fairness of main code. Every turn of a waiting loop executes
  `sti; hlt`, so the timer gets in, ticks go on and each deadline passes; nothing is
  assumed of the server, the wire or the user. Where main code cannot go on (a `hlt`
  with interrupts off) it is not enabled and the assumption says nothing.
- `keyboard`: weak fairness of main code (the CPU goes on; commands return) and of the timer, which
  is never masked after `timer_init`. The user is not assumed to do anything.
  Without the timer `KeyIsTaken` fails: an interrupt between the test of
  `key_available` and `hlt` would be lost.

## 4. Proofs

`IpcQueueProofs`, for every `IPC_MAX_MSGS >= 1`, every message size and any sets of
callers (assumptions `SizeAssumption`, `CallAssumption`):

- `TypeCorrect`: `Spec => []TypeOK`, inductive as it stands.
- `UsedFlagsAgree`: `Spec => []UsedIsWindow`. Inductive together with `TypeOK`; the
  lemmas say that a send sets the flag of exactly the slot that enters the window
  and a release clears the one that leaves it.
- `RingRefinesFifo`: `Spec => ImplementsFifo`. The refinement mapping `Queued` reads
  the slots from head to tail. `SendAppends` and `ReleaseIsTail` show that a send
  appends to it and a receive takes its head; they need `UsedIsWindow`, since
  `rust_ipc_receive` skips a slot that is not marked used.

`SchedulerProofs`, for every number of slots and pages (assumptions
`TotalPagesAssumption`, `SlotsAssumption`, `VirtAssumption`: user stacks lie above
physical memory), with ticks at any point of a creation:

- `SchedulerTypeCorrect`, `OneProcessRuns` and `MeminfoStaysExact` hold without
  exception.
- `CurrentStaysLive`, `CountStaysExact` and `StacksStayOwned` have one: a creation that
  fails while its own slot is current (`strayed`, section 5). After it the code breaks
  all three, except that `process_count` never exceeds the finished processes.
  The inductive invariant for the table adds that the slot being filled in is live
  (`TableInv`); the one for the stacks (`StackInv`) adds that `user_stack` is never
  a physical address and that a slot with a mapped page has a user stack, without
  which `process_exit`, which frees `user_stack` as if it were physical, could free
  a page of somebody else.
- `TurnsComeNearer`: every hand-over brings each waiting process nearer its turn;
  the step to `TurnComes` is liveness and stays with TLC.

The files, in `ShellProofs`, for every number of slots, file size and set of contents
(`TableAssumption`, `BufferAssumption`: the buffer of `cat`, `cp` and `mv` holds a whole
file). Names that are cut and then no longer found (section 5) are outside of the
theorems: those that need it carry the hypothesis `NamesFit`, that a name fits its slot.

- `TableStaysConsistent`: `Spec => []TableConsistent`. The inductive form is
  `Consistent(fs)` on a table, so that each call of tmpfs is one lemma and a command
  with two or three calls chains them.
- `TableRefinesFlatFs`: `Spec => ImplementsFlatFs`, with the map `View` of the used
  slots. A write through a free slot adds one name to it; a deletion removes one. That
  no two slots hold a name makes both true.
- `OnlyNamedFilesAreChanged`, `MvMovesBytes`: action properties from the same lemmas.

The editor, in `ShellProofs`, for every number and length of lines, every screen and every
table (`EditorAssumption`; `NamesFit` as above):

- `CursorStaysInText`, `CleanStaysSame`, `SavesAreStored`. The inductive invariant is
  their conjunction with the consistent table and `FilesAreText` (what tmpfs holds is
  made of characters the editor can load).
- `EditorRefinesTextBuffer`: the text before and after the cursor. The lemmas use one
  representation (`Parted`): lines before, the two parts of the cursor's line, lines
  after; each key moves a character, a line end or nothing from one side to the other,
  and the laws of `Join` turn that into a step of `TextBuffer`.

The CPU simulator, in `ShellProofs`, for every size of a byte, of the memory and of the
registers (`SimAssumption`: the memory's size divides the number of words, as 256 does in
the code):

- `PushedWordsSurvive`: `CpuSpec => []StackIntact`. The invariant adds that registers hold
  words and memory cells bytes (a word that is not one would not survive the split into
  bytes) and that the history is no longer than the memory. The arithmetic is in lemmas on
  division: `ByteSplit` (a word is its four bytes), `CellFacts` (a cell is the same whether
  or not esp has wrapped, since the memory divides the words), `CellsApart` (cells less than
  the memory apart differ, so a push leaves older words alone).

`Fat16Proofs`, for every number of clusters, directory entries and cached files
(`VolumeAssumption`; `NameAssumption`: names of the 8.3 form, that a directory entry stores
and the cache keeps as they are; `ImageAssumption`: the disk starts as a volume without
errors, given together with the chain of each of its files):

- `ListingStaysTrue`: `Spec => []ListedIsOnDisk`, with any failed writes and resets. The
  part of the invariant is `CountInv`, that the cache has each spelling at most as often as
  the directory. After a mount this holds because the scan maps cache places one to one to
  entries (`Mirrors`); afterwards a deletion takes one from each count, unless the cache
  has none of the name, and a new file adds one to the directory and at most one to the
  cache.
- `ChainsStayIntact`: `Spec => []ChainsIntact`. `ChainInv` says, while nothing failed, that
  there is a chain for each place: one per directory entry, and place 0 for the chain a
  call has in its hands (a new cluster, or the rest of a chain that is being freed). The
  chains are complete and share no cluster, and chains in the directory are as long as
  the sizes say. Each step is one change of such a family (`SeparateDrop`, `SeparateMove`,
  `SeparateFree`, `SeparateTake`): a chain of an entry moves to the hand, loses its first
  cluster, or is started from a free one, which is in no chain (`FreeInNoChain`).
- `ReadsStayWhole`: `Spec => []ReadsWhole`. `CacheInv` adds that each used cache entry has
  start and size of a live directory entry (`Backed`) and that no name is cached twice
  (`Single`), which lets `fat16_delete_file` stop at the first. `ChainIs` says that a walk
  along the FAT that stays in a set of clusters is the part of the chain before the first
  cluster outside of the set: for all clusters it is the chain, for those below 0xFF8 what
  the driver reads. Any cut of the read (size, `max_size`, memory, disk) is a prefix of both.

The parts of the invariant of `Fat16` need each other: a deletion frees the chain of the
entry that the cache forgets, and the types of the steps (`StepInv`) say which locals of a
call are set.

`ConsoleProofs`, for every set of keys whose codes are known (`KeyAssumption`), any
number of strokes and any length of the wire:

- `FlagsFollowTheKeys`, `CharactersAreMeant`, `StrokesAreDeliveredOnce`,
  `DeafInFirstWaitOnly`. The flags lag behind the keys by what is on the wire, so the
  invariant `FlagsFollow` says that there is a row of flag states (`Leads`) from the
  driver's flags, by one byte of the wire at a time, to the flags of the keys held now;
  each stroke on the wire meant what the row has at its place. `InOrder` orders what was
  read, what is buffered and what is on the wire by stroke; `Fresh` and `FlagOff` say when
  a buffer may be read and when interrupts can be off.

`HeapProofs`, for every page, header, alignment and memory size (`UnitAssumption`,
`CallerAssumption`):

- `BlocksStayDisjoint`, `HeldStaysSafe`, `FreedStaysMerged`. The inductive invariant
  `Sound` has three parts. `Laid`: every block ends before *every* later block and before
  `heap.current`; the property speaks of neighbours only, which is not enough once a
  block between two others is merged away. `Kept`: what is held is a block of the list,
  in use and large enough. `Merged`: no two free neighbours, which `kfree` keeps because
  it merges in both directions, and an expansion because it extends a free last block.

`CurlProofs`, for every buffer, stream, padding and length of the wire
(`TcpAssumption`: no more connections than ephemeral ports):

- `NothingFromOthers`, with any losses and repetitions: connection k has port k-1, so a
  segment for the port of the open connection was sent to it. Without the bound on
  connections the property is false, since ports are reused.
- `ReceivesPrefix`, `AcksWhatItStores`, on a wire without faults, with segments of any
  lengths: the segments on the wire continue one another from the last unit acknowledged to
  the last one sent; a SYN+ACK is there at most once and before data. What is stored is in
  order and below what is acknowledged, and is all of it as long as rx_buf has room for the
  longest segment; only then can a segment be dropped and a shorter one stored after it. One `net_poll` handles many segments,
  so the invariant is also stated between two calls of `tcp_process` (`Good`) and carried
  along `Polled`.
- `DataBeforeEnd`: what `curl` was given is the beginning of `rx_buf` up to `read`, also
  with faults.

`NetProofs`, for every ring, cache, set of hosts and depth of nesting:

- `NeverWorseThanOneLap` (`Ne2000Assumption`: the card keeps at least two pages in reserve,
  and the longest packet fits the reserve). The inductive invariant has two parts. Until
  the card has written as many pages as the ring has, the headers form a row in which each
  names the next, BNDRY is the page before the next packet of that row, and what lies behind
  the last packet was never written. While every packet takes one page, the next page to
  read holds the next packet, or the one a lap before it, or was never written, and the
  number of packets accepted and not given out lies between -1 and the ring's size minus 2.
  The -1 is the packet that `ne2000_poll` reads again because an empty ring does not look
  empty.
- `AnswersAreOwn` (hypothesis `PingsFit`: fewer pings than a byte has values). Ids and
  ports only go up, every request or answer in transit (wire, card, receive ring) carries
  an id used before, and what carries the id of a waiting call belongs to that call.
  The echo id is compared in both byte orders, hence the hypothesis.
- `CacheStaysTrue`, `HandlersNeverPoll` (`SlotAssumption`: a packet is not an unwritten
  slot; `NetAssumption`: finitely many neighbours). While nothing is dropped, replayed or
  given up, and nobody sends an echo request before ARP packets were exchanged (`quiet`),
  receive ring and card hold one queue: `Calm(H, d)` says that `H[n]` is the n-th
  packet that came, that d were dispatched, and where the others lie. On that queue, an
  ARP answer under way is the one that is waited for (`Asking`), and a host that knows
  this machine is in the cache or its answer lies before its echo requests (`Heard`); so
  the entries `arp_resolve` makes are true and no handler has to resolve an address.

Where a proof needs induction over a sequence or a recursive function (`Join`, `Polled`),
it is carried out on the set of indices where the claim fails, which has no least member;
no theorem takes an operator as a parameter.

Only model-checked: the liveness properties `TurnComes`, `KeyStopsCurl` and `KeyIsTaken`,
since the prover has no rules for fairness and ENABLED. `WriteStores` and `PromptHearsKeys`
are violated by the code (section 5). Every other property of the runs is a theorem.

## 5. What the code does that a reader may not expect

Shown by the violation runs:

- `curl` can leave the machine dead. The loop of `tcp_connect` tests the state before
  the deadline; when SYN+ACK and RST (or FIN) are processed by one `net_poll`, it
  returns -1 after a `cli` (`net.c:373`), `curl` returns to the prompt, and
  `keyboard_getchar` halts with interrupts off (run `curl_hang`). All other ways back
  to the prompt pass a `sti`.
- `fatwrite` never stores data: `fat16_write_cluster` returns a byte count that
  `fat16_write_file` takes for an error code (`fat16.c:289`, run `fat16_write`).

Part of the models, as exceptions in the properties or in their comments:

- A tick inside `process_create` can make the slot current that is being filled in
  (`scheduler.c:33`). If the creation then fails, the slot is given up while
  `current_process` names it; the next tick or `process_yield` turns it READY again,
  without stacks and uncounted, and a `process_exit` of it frees the page its stale
  `kernel_stack` names. `CountIsLive`, `CurrentIsLive` and `StacksOwned` hold up to there
  (`strayed`). No caller of `process_create` exists, and it does not turn interrupts off.
- The card: `ne2000_poll` compares CURR with BNDRY, which stays one page behind the
  next packet, so an empty ring does not look empty (`ne2000.c:184`). Up to the first
  lap an unwritten page ends the reading (its length is 0); after 52 packets the page
  of an earlier packet is read again, BNDRY catches up with CURR, and from then on
  packets may be handed out a whole lap late (`OneLapLate`). With packets of several pages
  the old page may be the middle of one: its bytes are taken for a header, and BNDRY goes
  wherever the second of them says, even out of the ring (`Named`).
- `sys_read` halts with interrupts off unless a key is there when it is called
  (`syscall.c:36`); after its first key the `sti` of `keyboard_getchar` saves it. The
  prompt does the same after a command that came back with interrupts off, the case of
  `curl` above (`DeafOnlyAtStart`).
- A filtered receive looks only at the head of the queue, and the receiver of a
  message is never compared (`ipc.rs:146`).
- `process_exit` frees a virtual address, so every exit leaks the page of the user
  stack (`scheduler.c:80`); after an exit the round robin restarts at slot 0
  (`scheduler.c:95`).
- `mv` deletes the source also when the destination was not written
  (`shell.c:204`); the editor reports a save although nothing was stored
  (`editor.c:177`).
- FAT16 chains end at 0xFF8 for the driver, the mark of FAT12 (`fat16.c:178`), and a read
  that runs out of memory or meets a bad sector returns what it has as success
  (`fat16.c:180-184`).
- TCP: padding counts as data (`net.c:311`), a segment that does not fit is dropped and
  acknowledged while a later, shorter one is still stored (`net.c:324`), sequence numbers
  are not compared (`net.c:321`).
- ARP: the answer of any host ends the wait for another (`net.c:198`), and the
  wrong entry stays. A neighbour that remembers the machine from before its boot may send
  an echo request while the cache is empty, which is enough to make calls nest. A handler that has to resolve an address polls and handles
  the same packet again (`net.c:588`), without bound. When it returns, `net_poll` moves
  `rx_head` once more, past `rx_tail`, and dispatches slots again that hold old packets
  or were never written; the latter have length 0 and are ignored (`Kind`).
- Keyboard: two keys of one modifier share a flag, print screen and arrows send shifts of
  their own, and every repetition of caps lock toggles it; a key struck between
  `keyboard_get_scancode` and `keyboard_flush` in the menu is lost.
- CPU simulator: a memory operand stands for its address, `add` never sets CF,
  OF is never set, and shifts by 32 or more are undefined in C (the model allows
  both results a build gives).

Noticed and outside of the models:

- The guard of `kmalloc` (`heap.c:100`) turns away sizes whose sum with the header wraps,
  but not those whose rounding up to pages wraps (`heap.c:38`): a size within a page of
  2^32 expands the heap by no page. Nobody asks for more than 64 KiB, and
  `CallerAssumption` says so.
- The shell passes the text of `asm` with its leading blank (`shell.c:770`), so
  `cpu_sim_execute` sees an empty operation and executes nothing but `eip++`;
  nothing calls `cpu_sim_init`. `CpuSim` models this call (`Unknown`) and the
  function with well-formed text.
- Names of 64 characters and more are stored cut and compared whole
  (`tmpfs.c:30`), so `touch` creates a file nobody can name; the same holds for
  long names in the listing of FAT16 (`fat16.c:386`).
- `ne2000_init` enables the card's interrupts and unmasks IRQ 3 (`ne2000.c:125-131`),
  but `idt.c` sets no gate for vector 35. The models take the card as polled only, as
  `net.c` uses it: they say nothing about a machine where the card raises IRQ 3.

## 6. Not modelled

- *Virtual memory* (partly): `vmm_map_page` and `vmm_unmap_page` are part of
  `Scheduler`. Directories of processes (`vmm_create_directory`,
  `vmm_free_directory`, `vmm_switch_directory`) have no caller. The window of the heap
  starts inside the identity-mapped low memory (`kernel.c:52`), so heap pages shadow
  frames that the allocator may also hand out; this matters only to code that
  reaches a frame by its physical address, and `Heap` takes frames as distinct.
- *Simulated ACPI* (`acpi_sim.c`): each subcommand of `sacpi` assigns one register of a
  structure that nothing else reads. There is no interplay of steps, and a property would
  repeat the assignments. (A write to GPE0_STS sets it instead of clearing bits, and the
  SMI command is compared before it is cut to a byte.)
- *Shell* (partly): the file commands, the line reader, `curl`, `reg` and `asm` are
  modelled; history, colours and the commands that print keep no state
  that another part reads, and the tokens of a line are chosen, not parsed.
- *ATA* (partly): a sector write that succeeds or fails. The register protocol and
  its polling loops depend on the drive.
- *Start-up, descriptor tables* (`kernel.c`, `gdt.c`, `idt.c`, the assembly): run once
  with interrupts off, or are fixed tables. What they decide (which interrupts come,
  which handlers they reach) is the atomicity of the actions.
- *VGA*, *device discovery and clocks* (`pci.c`, `acpi.c`, `rtc.c`, `cpuinfo.c`):
  output only, or reads of hardware tables; no protocol between actors.
- *String library*: byte loops; their effect (cut names, cut payloads) is part of the
  modules that call them.
- *The card* (in `Ne2000`): it takes any BNDRY, also one outside of its ring, as the
  driver writes it. A new packet that overwrites the later pages of an old one leaves the
  old header as it was. Bytes from the middle of a packet, taken for one, are no frame
  that this machine answers: the hosts are honest.
- Processes that wait for one another's messages: the tree has no program that uses
  the queue, so who waits for whom would be invented.

## 7. Where to go on

Every safety property that holds is proved. Three extensions suggest themselves:

- reads of sectors that fail in `Fat16` outside of `fat16_read_file` (a deletion whose
  `fat16_get_next_cluster` fails frees part of a chain);
- what `OneLapLate` can still say after a lap when packets take several pages;
- the directories of processes in `vmm.c`, once something calls them.
