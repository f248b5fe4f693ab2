------------------------------ MODULE Keyboard ------------------------------
(***************************************************************************)
(* The keyboard driver, src/drivers/keyboard.c: the handler of interrupt 1 *)
(* with its modifier state, and the one-place buffers for a character and  *)
(* for a scancode between it and the programs that read them.              *)
(*                                                                         *)
(* The handler runs to its end before main code goes on: the timer may     *)
(* interrupt it after its sti, but interrupt 1 is acknowledged only after  *)
(* it returned (irq_handler in src/kernel/idt.c).                          *)
(*                                                                         *)
(* The keyboard is external: it sends the bytes of scancode set 1 in the   *)
(* order of the strokes and never drops one (its buffer has 16 bytes).     *)
(***************************************************************************)
EXTENDS Integers, Sequences

CONSTANTS Keys,         \* the keys that are used
          MaxStrokes,   \* bound: make codes sent, repetitions included
          WireLen       \* bound: bytes waiting when a key is struck or released

Code == [a |-> \h1E, one |-> \h02, enter |-> \h1C, back |-> \h0E, esc |-> \h01,
         up |-> \h48, dn |-> \h50, lshift |-> \h2A, rshift |-> \h36,
         lctrl |-> \h1D, rctrl |-> \h1D, caps |-> \h3A, prtsc |-> \h37]
Extended == {"up", "dn", "rctrl", "prtsc"}
ShiftLike == {"lshift", "rshift", "prtsc"}
Ctrls == {"lctrl", "rctrl"}
Modifiers == ShiftLike \union Ctrls \union {"caps"}
NoChar == "none"

ASSUME KeyAssumption == Keys \subseteq DOMAIN Code

VARIABLES kb,       \* the driver
          held,     \* modifier keys held down
          wire,     \* bytes not yet read from port 0x60, each with its stroke
          strokes,  \* number of strokes
          capsOn,   \* caps lock as its user counts it
          odd       \* keys were used in a way the flags cannot follow

keyboard == <<held, wire, strokes, capsOn, odd>>
kbvars == <<kb, keyboard>>

NoStroke == [n |-> 0, means |-> NoChar]
\* key_buffer, or scancode_buffer with scancode_extended_state.  A buffer is
\* Empty while it is not available: what it holds then is never read.
Empty == [c |-> NoChar, code |-> 0, ext |-> FALSE, of |-> NoStroke]
KbInit ==
  /\ kb = [ctrl |-> FALSE, shift |-> FALSE, caps |-> FALSE, prefix |-> FALSE,
           key |-> Empty, sc |-> Empty]
  /\ held = {} /\ wire = << >> /\ strokes = 0
  /\ capsOn = FALSE /\ odd = FALSE

-----------------------------------------------------------------------------
\* scancode_to_ascii and scancode_to_shift: one letter, one digit, the keys
\* that edit a line; a shifted backspace and all other codes have no entry.
Ascii(code) == CASE code = \h1E -> "a" [] code = \h02 -> "1"
                 [] code = \h1C -> "nl" [] code = \h0E -> "bs"
                 [] OTHER -> NoChar
Shifted(code) == CASE code = \h1E -> "A" [] code = \h02 -> "!"
                   [] code = \h1C -> "nl" [] OTHER -> NoChar

\* The character of a code that came without prefix.
Typed_CapsUpper(k, code) ==
  LET c == IF k.shift THEN Shifted(code) ELSE Ascii(code)
  IN  IF c \notin {"a", "A"} THEN c
      ELSE IF k.ctrl THEN "^A" ELSE IF k.caps THEN "A" ELSE c
Typed(k, code) ==
  LET c == IF k.shift THEN Shifted(code) ELSE Ascii(code)
  IN  IF c \notin {"a", "A"} THEN c
      ELSE IF k.ctrl THEN "^A"
      ELSE IF k.caps THEN (IF c = "a" THEN "A" ELSE "a") ELSE c

\* The KEY_* code of a code that came with prefix.
ExtendedKey(code) == CASE code = \h48 -> "KEY_UP" [] code = \h50 -> "KEY_DOWN"
                       [] OTHER -> NoChar

\* A make code of an ordinary key overwrites both buffers, whether or not they
\* were read; a code without character leaves the character buffer alone.
Buffered(k, code, ext, of) ==
  LET c == IF ext THEN ExtendedKey(code) ELSE Typed(k, code)
      b == [c |-> c, code |-> code, ext |-> ext, of |-> of]
  IN  [k EXCEPT !.sc = b, !.key = IF c = NoChar THEN @ ELSE b]

\* keyboard_handler, for one byte.  The modifiers ignore the prefix.
ShiftUp_LeftOnly == {\hAA}
ShiftUp == {\hAA, \hB6}
Handled(k, byte, of) ==
  LET r == [k EXCEPT !.prefix = FALSE]
  IN  CASE byte = \hE0 -> [k EXCEPT !.prefix = TRUE]
        [] byte = \h1D -> [r EXCEPT !.ctrl = TRUE]
        [] byte = \h9D -> [r EXCEPT !.ctrl = FALSE]
        [] byte \in {\h2A, \h36} -> [r EXCEPT !.shift = TRUE]
        [] byte \in ShiftUp -> [r EXCEPT !.shift = FALSE]
        [] byte = \h3A -> [r EXCEPT !.caps = ~@]
        [] byte \notin ShiftUp \union {\h9D, \hE0} /\ byte >= \h80 -> r
        [] OTHER -> Buffered(r, byte, k.prefix, of)

\* Interrupt 1.
KeyboardHandler == /\ wire # << >>
                   /\ kb' = Handled(kb, Head(wire).byte, Head(wire).of)
                   /\ wire' = Tail(wire)
                   /\ UNCHANGED <<held, strokes, capsOn, odd>>

\* What keyboard_getchar and keyboard_get_scancode do between cli and sti.
TakeKey(k) == [k EXCEPT !.key = Empty]
TakeScancode(k) == [k EXCEPT !.sc = Empty]

\* keyboard_flush
Flushed_KeyOnly(k) == [k EXCEPT !.key = Empty]
Flushed(k) == [k EXCEPT !.key = Empty, !.sc = Empty]

-----------------------------------------------------------------------------
(* The keyboard.  Print screen wraps its code in a shift of its own.  Of   *)
(* the other keys it is not recorded whether they are down: one that is    *)
(* held repeats as if struck again, and the byte of its release is one the *)
(* driver ignores.                                                         *)

Make(k) == IF k = "prtsc" THEN <<\hE0, \h2A, \hE0, \h37>>
           ELSE IF k \in Extended THEN <<\hE0, Code[k]>> ELSE <<Code[k]>>
Break(k) == IF k = "prtsc" THEN <<\hE0, \hB7, \hE0, \hAA>>
            ELSE IF k \in Extended THEN <<\hE0, Code[k] + \h80>>
            ELSE <<Code[k] + \h80>>

Sends(bytes, of) ==
  /\ Len(wire) <= WireLen
  /\ wire' = wire \o [i \in 1..Len(bytes) |-> [byte |-> bytes[i], of |-> of]]

\* The character the user means by key k, from the keys held and the number
\* of times caps lock was pressed.
Means(k) ==
  LET shift == held \cap ShiftLike # {}
  IN  CASE k = "a" -> IF held \cap Ctrls # {} THEN "^A"
                      ELSE IF shift # capsOn THEN "A" ELSE "a"
        [] k = "one" -> IF shift THEN "!" ELSE "1"
        [] k = "enter" -> "nl"
        [] k = "back" -> IF shift THEN NoChar ELSE "bs"
        [] k = "up" -> "KEY_UP"
        [] k = "dn" -> "KEY_DOWN"
        [] OTHER -> NoChar

Strike(k, bytes) ==
  /\ strokes < MaxStrokes
  /\ strokes' = strokes + 1
  /\ Sends(bytes, [n |-> strokes', means |-> Means(k)])
  /\ UNCHANGED kb

\* Two keys of one modifier held together, or a key struck while print screen
\* is down, cannot be told apart by one flag.
Press(k) == /\ k \notin held
            /\ Strike(k, Make(k))
            /\ held' = held \union ({k} \cap Modifiers)
            /\ capsOn' = IF k = "caps" THEN ~capsOn ELSE capsOn
            /\ odd' = \/ odd
                      \/ k \in ShiftLike /\ held \cap ShiftLike # {}
                      \/ k \in Ctrls /\ held \cap Ctrls # {}
                      \/ "prtsc" \in held

\* The driver takes each repetition of caps lock for a press.
Repeat(k) == /\ k \in held
             /\ Strike(k, IF k = "prtsc" THEN <<\hE0, \h37>> ELSE Make(k))
             /\ odd' = (odd \/ k = "caps")
             /\ UNCHANGED <<held, capsOn>>

Release(k) == /\ k \in held \/ k \notin Modifiers
              /\ Sends(Break(k), NoStroke)
              /\ held' = held \ {k}
              /\ UNCHANGED <<kb, strokes, capsOn, odd>>

\* Around an arrow a keyboard may lift a held shift and press it again with
\* prefixed bytes of its own.  Here it does so at any time while shift is held.
FakeShift(k) == /\ k \in held \cap {"lshift", "rshift"}
                /\ strokes < MaxStrokes /\ strokes' = strokes + 1
                /\ \E b \in {Code[k], Code[k] + \h80} : Sends(<<\hE0, b>>, NoStroke)
                /\ odd' = TRUE
                /\ UNCHANGED <<kb, held, capsOn>>
=============================================================================
