------------------------------- MODULE Console -------------------------------
(***************************************************************************)
(* The programs that read the keyboard: the line reader of the shell       *)
(* (shell_run in src/shell/shell.c, by keyboard_getchar) and the menu      *)
(* (tui_test in src/tui/tui.c, by keyboard_get_scancode), which the shell  *)
(* runs as a command; or instead of them a user program with the system    *)
(* call read (sys_read in src/syscall/syscall.c).  Interrupts come between *)
(* any two of their steps: the test of the flag, the hlt, and the part     *)
(* between cli and sti; in a system call only once a sti was executed.     *)
(***************************************************************************)
EXTENDS Keyboard

CONSTANTS CMD_BUF_SIZE,  \* also the max_len of the user program
          MENU_ITEMS

VARIABLES prog,   \* who reads: "shell", "menu", "page" (a menu's info box), or
                  \* "read" (sys_read); "user": nobody, the user program runs
          pc,     \* "test", "hlt" (about to halt), "halted", "take", "flush",
                  \* "run" (a command of the shell)
          sc,     \* the scancode the menu handles, 0: none
          len,    \* cmd_len, or i of sys_read
          iflag,  \* the interrupt flag of the CPU
          sel,    \* selected
          last    \* number of the stroke delivered last

convars == <<prog, pc, sc, len, iflag, sel, last>>
vars == <<kbvars, convars>>

Init == /\ KbInit
        /\ prog \in {"shell", "user"} /\ pc = "test" /\ sc = 0 /\ len = 0
        /\ iflag = TRUE /\ sel = 0 /\ last = 0

-----------------------------------------------------------------------------
(* keyboard_getchar and keyboard_get_scancode *)

Avail == IF prog \in {"shell", "read", "user"} THEN kb.key # Empty ELSE kb.sc # Empty

\* while (!available) hlt();
Test == /\ pc = "test" /\ prog # "user"
        /\ pc' = IF Avail THEN "take" ELSE "hlt"
        /\ UNCHANGED <<kbvars, prog, sc, len, iflag, sel, last>>
Hlt == /\ pc = "hlt" /\ pc' = "halted"
       /\ UNCHANGED <<kbvars, prog, sc, len, iflag, sel, last>>

\* Any interrupt ends the hlt; one that comes just before it does not.
Awake == IF pc = "halted" THEN "test" ELSE pc

Irq1 == /\ iflag /\ KeyboardHandler
        /\ pc' = Awake
        /\ UNCHANGED <<prog, sc, len, iflag, sel, last>>

\* The timer interrupts 100 times a second, whatever happens.
Tick_Masked == FALSE
Tick == /\ iflag /\ pc = "halted" /\ pc' = Awake
        /\ UNCHANGED <<kbvars, prog, sc, len, iflag, sel, last>>

-----------------------------------------------------------------------------
(* shell_run: the character is taken and put on the line (the take ends in *)
(* sti).  Return with a line runs a command: the menu, or one that reads   *)
(* no key itself (what curl and dano read is left out).  Keys come while   *)
(* it runs, and it may return with the interrupt flag off, as curl does    *)
(* when tcp_connect fails after its cli (net.c:373).                       *)

Edited(c) == CASE c = "bs" -> IF len > 0 THEN len - 1 ELSE len
               [] c # "bs" /\ len < CMD_BUF_SIZE - 1 -> len + 1
               [] OTHER -> len

Sti_Kept == iflag
Sti == TRUE

ShellTakes ==
  /\ pc = "take" /\ prog = "shell"
  /\ kb' = TakeKey(kb)
  /\ last' = kb.key.of.n
  /\ len' = IF kb.key.c = "nl" THEN 0 ELSE Edited(kb.key.c)
  /\ pc' = IF kb.key.c = "nl" /\ len > 0 THEN "run" ELSE "test"
  /\ iflag' = Sti
  /\ UNCHANGED <<keyboard, prog, sc, sel>>

Command == /\ pc = "run"
           /\ \/ pc' = "test" /\ iflag' \in BOOLEAN /\ UNCHANGED <<prog, sel>>
              \/ prog' = "menu" /\ pc' = "flush" /\ sel' = 0 /\ UNCHANGED iflag
           /\ UNCHANGED <<kbvars, sc, len, last>>

(***************************************************************************)
(* sys_read with a valid buffer: the gate of int 0x80 clears the flag; the *)
(* first keyboard_getchar that takes a character sets it, and until then   *)
(* nothing comes between its test and its hlt.  The call ends with return  *)
(* or a full buffer, and iret restores the flag of the caller.             *)
(***************************************************************************)
SysRead == /\ prog = "user" /\ prog' = "read"
           /\ pc' = IF Avail THEN "take" ELSE "halted"
           /\ len' = 0 /\ iflag' = FALSE
           /\ UNCHANGED <<kbvars, sc, sel, last>>

ReadTakes ==
  LET c == kb.key.c
      ends == c = "nl" \/ Edited(c) = CMD_BUF_SIZE - 1
  IN  /\ pc = "take" /\ prog = "read"
      /\ kb' = TakeKey(kb) /\ last' = kb.key.of.n
      /\ len' = IF ends THEN 0 ELSE Edited(c)
      /\ prog' = IF ends THEN "user" ELSE "read"
      /\ iflag' = (ends \/ Sti)
      /\ pc' = "test" /\ UNCHANGED <<keyboard, sc, sel>>

\* tui_test: a scancode is taken; the flush after it is a step of its own.
MenuTakes == /\ pc = "take" /\ prog \in {"menu", "page"}
             /\ kb' = TakeScancode(kb)
             /\ sc' = kb.sc.code /\ last' = kb.sc.of.n
             /\ pc' = "flush" /\ iflag' = Sti
             /\ UNCHANGED <<keyboard, prog, len, sel>>

\* What the menu does with the scancode after the flush.
AfterKey ==
  CASE prog = "page" -> prog' = "menu" /\ sel' = sel
    [] prog = "menu" /\ sc = \h01 -> prog' = "shell" /\ sel' = sel
    [] prog = "menu" /\ sc = \h48 ->
         prog' = prog /\ sel' = IF sel > 0 THEN sel - 1 ELSE sel
    [] prog = "menu" /\ sc = \h50 ->
         prog' = prog /\ sel' = IF sel < MENU_ITEMS - 1 THEN sel + 1 ELSE sel
    [] prog = "menu" /\ sc = \h1C ->
         sel' = sel /\ prog' = IF sel = MENU_ITEMS - 1 THEN "shell" ELSE "page"
    [] OTHER -> UNCHANGED <<prog, sel>>

MenuFlushes == /\ pc = "flush"
               /\ kb' = Flushed(kb)
               /\ AfterKey
               /\ pc' = "test" /\ sc' = 0
               /\ UNCHANGED <<keyboard, len, iflag, last>>

Main == Test \/ Hlt \/ ShellTakes \/ Command \/ MenuTakes \/ MenuFlushes
        \/ SysRead \/ ReadTakes

\* Halted with interrupts off: nothing happens any more, whatever is typed.
Deaf == pc = "halted" /\ ~iflag

Next == \/ Main \/ Irq1 \/ Tick
        \/ /\ ~Deaf /\ UNCHANGED convars
           /\ \E k \in Keys : Press(k) \/ Repeat(k) \/ Release(k) \/ FakeShift(k)

\* Main code runs on whenever it can, and the timer never stops.
Spec == Init /\ [][Next]_vars /\ WF_vars(Main) /\ WF_vars(Tick)

-----------------------------------------------------------------------------
(***************************************************************************)
(* Whatever the order of presses and releases, once the bytes are handled  *)
(* and no shift (ctrl) key is down, no shift (ctrl) flag stays set, also   *)
(* after print screen and after prefixed codes; with one of them down the  *)
(* flag is set, unless keys were used in a way one flag cannot follow.     *)
(***************************************************************************)
ModifiersTrue ==
  wire = << >> =>
    /\ ~kb.prefix
    /\ kb.shift => held \cap ShiftLike # {}
    /\ kb.ctrl => held \cap Ctrls # {}
    /\ ~odd => /\ kb.shift = (held \cap ShiftLike # {})
               /\ kb.ctrl = (held \cap Ctrls # {})
               /\ kb.caps = capsOn

(***************************************************************************)
(* The character a reader finds is the one its stroke meant when the key   *)
(* was struck, however late the handler sees its bytes and whatever        *)
(* modifiers changed since.                                                *)
(***************************************************************************)
TypedAsMeant == kb.key # Empty /\ ~odd => kb.key.c = kb.key.of.means

(***************************************************************************)
(* No stroke is delivered twice and none before an earlier one, although   *)
(* shell and menu read two buffers of their own and a stroke fills both: a *)
(* key that opened, moved in or left the menu is not read again by the     *)
(* other program.                                                          *)
(***************************************************************************)
DeliveredOnce ==
  [][(ShellTakes \/ MenuTakes \/ ReadTakes) => last' > last]_vars

(***************************************************************************)
(* A key that is there for the reader is taken (or flushed) in the end:    *)
(* the interrupt that comes between the test of the flag and the hlt is    *)
(* not lost for ever, because the timer ends the hlt.                      *)
(***************************************************************************)
KeyIsTaken == Avail ~> ~Avail

(***************************************************************************)
(* The CPU halts with interrupts off, for good, only in the first wait of  *)
(* a reader that was entered with interrupts off and found no key: in a    *)
(* sys_read (int 0x80 clears the flag), and at the prompt after a command  *)
(* that came back so.  Once a character was read, and in the menu, no hlt  *)
(* is the last: whoever takes a key turns interrupts on again.             *)
(***************************************************************************)
DeafOnlyAtStart ==
  Deaf => prog \in {"read", "shell"} /\ len = 0 /\ ~Avail
=============================================================================
