--------------------------- MODULE ConsoleProofs ---------------------------
(***************************************************************************)
(* Proofs about the keyboard driver and its readers.                       *)
(*                                                                         *)
(* The bytes on the wire will change the driver's flags later; what the    *)
(* properties say of the flags and of the characters must therefore be     *)
(* said of the flags the driver WILL have.  Leads relates the flags now to *)
(* the flags after the last byte of the wire, by the row of flags between  *)
(* them: a stroke adds bytes at its end, the interrupt takes one from its  *)
(* front.                                                                  *)
(***************************************************************************)
EXTENDS Console, SequenceTheorems, TLAPS

Chars == {NoChar, "a", "A", "^A", "1", "!", "nl", "bs", "KEY_UP", "KEY_DOWN"}
Stroke == [n : Nat, means : Chars]
Slot == [c : Chars, code : Nat, ext : BOOLEAN, of : Stroke]
Driver == [ctrl : BOOLEAN, shift : BOOLEAN, caps : BOOLEAN, prefix : BOOLEAN,
           key : Slot, sc : Slot]
WireByte == [byte : Nat, of : Stroke]

TypeOK == /\ kb \in Driver
          /\ held \subseteq Modifiers
          /\ wire \in Seq(WireByte)
          /\ strokes \in Nat
          /\ capsOn \in BOOLEAN
          /\ odd \in BOOLEAN
          /\ prog \in {"shell", "menu", "page", "read", "user"}
          /\ pc \in {"test", "hlt", "halted", "take", "flush", "run"}
          /\ iflag \in BOOLEAN
          /\ last \in Nat

-----------------------------------------------------------------------------
(* The flags of the driver, and what a byte does to them. *)

Flags == [ctrl : BOOLEAN, shift : BOOLEAN, caps : BOOLEAN, prefix : BOOLEAN]
FlagsOf(k) == [ctrl |-> k.ctrl, shift |-> k.shift, caps |-> k.caps, prefix |-> k.prefix]

Then(fl, byte) ==
  [ctrl |-> IF byte = \h1D THEN TRUE ELSE IF byte = \h9D THEN FALSE ELSE fl.ctrl,
   shift |-> IF byte \in {\h2A, \h36} THEN TRUE
             ELSE IF byte \in ShiftUp THEN FALSE ELSE fl.shift,
   caps |-> IF byte = \h3A THEN ~fl.caps ELSE fl.caps,
   prefix |-> byte = \hE0]

\* The bytes that fill the buffers.
Ordinary(byte) == byte < \h80 /\ byte \notin {\h1D, \h2A, \h36, \h3A}

CharOf(fl, byte) == IF fl.prefix THEN ExtendedKey(byte) ELSE Typed(fl, byte)

\* The byte makes the character its stroke means.
Right(fl, b) == Ordinary(b.byte) => CharOf(fl, b.byte) = b.of.means

\* The bytes of w lead from flags a to flags z; if strict, each makes the
\* character it means.
Row(f, a, w, z, strict) ==
  /\ f \in [0..Len(w) -> Flags]
  /\ f[0] = a /\ f[Len(w)] = z
  /\ \A i \in 1..Len(w) : f[i] = Then(f[i-1], w[i].byte)
  /\ strict => \A i \in 1..Len(w) : Right(f[i-1], w[i])
Leads(a, w, z, strict) == \E f \in [0..Len(w) -> Flags] : Row(f, a, w, z, strict)

\* The flags z are those of the keys that are held.
Exact(z) == /\ z.shift <=> held \cap ShiftLike # {}
            /\ z.ctrl <=> held \cap Ctrls # {}
            /\ z.caps = capsOn

\* The flags after the last byte, whether or not keys were used oddly.
AsHeld(fl) ==
  /\ ~fl.prefix
  /\ fl.shift => held \cap ShiftLike # {}
  /\ fl.ctrl => held \cap Ctrls # {}
  /\ ~odd => Exact(fl)

OneOfEach ==
  ~odd => /\ \A x, y \in held \cap ShiftLike : x = y
          /\ \A x, y \in held \cap Ctrls : x = y

FlagsFollow ==
  /\ \E fl \in Flags : AsHeld(fl) /\ Leads(FlagsOf(kb), wire, fl, ~odd)
  /\ OneOfEach

-----------------------------------------------------------------------------
(* The order of the strokes: on the wire, in the buffers, delivered. *)

InOrder ==
  /\ last <= strokes
  /\ kb.key.of.n <= strokes /\ kb.sc.of.n <= strokes
  /\ \A i \in 1..Len(wire) : Ordinary(wire[i].byte) =>
       /\ wire[i].of.n > last /\ wire[i].of.n <= strokes
       /\ wire[i].of.n > kb.key.of.n /\ wire[i].of.n > kb.sc.of.n
       /\ \A j \in 1..(i - 1) : Ordinary(wire[j].byte) => wire[j].of.n < wire[i].of.n

\* What a reader may take was not delivered before.
Fresh ==
  /\ prog \in {"shell", "read", "user"} => pc # "flush"
  /\ prog \in {"shell", "read", "user"} /\ kb.key # Empty => kb.key.of.n > last
  /\ prog \in {"menu", "page"} /\ pc # "flush" /\ kb.sc # Empty => kb.sc.of.n > last
  /\ pc = "take" => Avail

\* Interrupts are off only from the int 0x80 of sys_read, or from the return of
\* a command to the prompt, to the first character.
FlagOff ==
  /\ pc = "run" => prog = "shell" /\ len = 0
  /\ ~iflag => /\ \/ prog = "read" /\ pc \in {"take", "halted"}
                  \/ prog = "shell" /\ len = 0
                     /\ pc \in {"test", "hlt", "halted", "take"}
               /\ pc \in {"hlt", "halted"} => len = 0 /\ kb.key = Empty

Inv == TypeOK /\ FlagsFollow /\ TypedAsMeant /\ InOrder /\ Fresh /\ FlagOff

-----------------------------------------------------------------------------
(* Lemmas about bytes and flags. *)

LEMMA CodeFacts ==
  /\ DOMAIN Code = {"a", "one", "enter", "back", "esc", "up", "dn", "lshift",
                    "rshift", "lctrl", "rctrl", "caps", "prtsc"}
  /\ \A k \in DOMAIN Code : Code[k] \in Nat /\ Code[k] < \h80
  BY DEF Code

\* A byte changes the flags to flags again.
LEMMA ThenFacts ==
  ASSUME NEW fl \in Flags, NEW byte \in Nat
  PROVE  /\ Then(fl, byte) \in Flags
         /\ Then(fl, byte).ctrl <=> byte = \h1D \/ (byte # \h9D /\ fl.ctrl)
         /\ Then(fl, byte).shift <=>
              byte \in {\h2A, \h36} \/ (byte \notin {\hAA, \hB6} /\ fl.shift)
         /\ Then(fl, byte).caps <=> IF byte = \h3A THEN ~fl.caps ELSE fl.caps
         /\ Then(fl, byte).prefix <=> byte = \hE0
  BY ZenonT(60) DEF Then, Flags, ShiftUp

LEMMA FlagsOfFacts ==
  ASSUME NEW k \in Driver
  PROVE  /\ FlagsOf(k) \in Flags
         /\ FlagsOf(k).ctrl = k.ctrl /\ FlagsOf(k).shift = k.shift
         /\ FlagsOf(k).caps = k.caps /\ FlagsOf(k).prefix = k.prefix
  BY DEF FlagsOf, Driver, Flags

LEMMA FlagsEqual ==
  ASSUME NEW a \in Flags, NEW b \in Flags, a.ctrl <=> b.ctrl, a.shift <=> b.shift,
         a.caps <=> b.caps, a.prefix <=> b.prefix
  PROVE  a = b
  BY DEF Flags

\* Every code has a character, or none.
LEMMA CharType ==
  ASSUME NEW code \in Nat, NEW fl
  PROVE  ExtendedKey(code) \in Chars /\ Typed(fl, code) \in Chars
  <1>1. ExtendedKey(code) \in Chars /\ Ascii(code) \in Chars /\ Shifted(code) \in Chars
    BY DEF ExtendedKey, Ascii, Shifted, Chars, NoChar
  <1>2. Typed(fl, code) \in Chars
    BY <1>1 DEF Typed, Chars, NoChar
  <1> QED BY <1>1, <1>2

\* What the handler does to the flags, byte by byte; the bytes that are not
\* ordinary leave the buffers alone.
LEMMA HandledFields ==
  ASSUME NEW k \in Driver, NEW byte \in Nat, NEW of \in Stroke, NEW h,
         h = Handled(k, byte, of), ~Ordinary(byte)
  PROVE  /\ h \in Driver /\ h.key = k.key /\ h.sc = k.sc
         /\ h.ctrl <=> byte = \h1D \/ (byte # \h9D /\ k.ctrl)
         /\ h.shift <=> byte \in {\h2A, \h36} \/ (byte \notin {\hAA, \hB6} /\ k.shift)
         /\ h.caps <=> IF byte = \h3A THEN ~k.caps ELSE k.caps
         /\ h.prefix <=> byte = \hE0
  <1> DEFINE r == [k EXCEPT !.prefix = FALSE]
  <1>1. CASE byte = \hE0
    <2>1. h = [k EXCEPT !.prefix = TRUE]
      BY <1>1 DEF Handled, ShiftUp
    <2>2. h \in Driver /\ h.key = k.key /\ h.sc = k.sc
      BY <2>1 DEF Driver
    <2>3. h.prefix /\ h.shift = k.shift /\ h.ctrl = k.ctrl /\ h.caps = k.caps
      BY <2>1 DEF Driver
    <2> QED BY <1>1, <2>2, <2>3 DEF Ordinary
  <1>2. CASE byte = \h1D
    <2>1. h = [r EXCEPT !.ctrl = TRUE]
      BY <1>2 DEF Handled, ShiftUp
    <2>2. h \in Driver /\ h.key = k.key /\ h.sc = k.sc
      BY <2>1 DEF Driver
    <2>3. ~h.prefix /\ h.shift = k.shift /\ h.ctrl /\ h.caps = k.caps
      BY <2>1 DEF Driver
    <2> QED BY <1>2, <2>2, <2>3 DEF Ordinary
  <1>3. CASE byte = \h9D
    <2>1. h = [r EXCEPT !.ctrl = FALSE]
      BY <1>3 DEF Handled, ShiftUp
    <2>2. h \in Driver /\ h.key = k.key /\ h.sc = k.sc
      BY <2>1 DEF Driver
    <2>3. ~h.prefix /\ h.shift = k.shift /\ ~h.ctrl /\ h.caps = k.caps
      BY <2>1 DEF Driver
    <2> QED BY <1>3, <2>2, <2>3 DEF Ordinary
  <1>4. CASE byte \in {\h2A, \h36}
    <2>1. h = [r EXCEPT !.shift = TRUE]
      BY <1>4 DEF Handled, ShiftUp
    <2>2. h \in Driver /\ h.key = k.key /\ h.sc = k.sc
      BY <2>1 DEF Driver
    <2>3. ~h.prefix /\ h.shift /\ h.ctrl = k.ctrl /\ h.caps = k.caps
      BY <2>1 DEF Driver
    <2> QED BY <1>4, <2>2, <2>3 DEF Ordinary
  <1>5. CASE byte \in {\hAA, \hB6}
    <2>1. h = [r EXCEPT !.shift = FALSE]
      BY <1>5 DEF Handled, ShiftUp
    <2>2. h \in Driver /\ h.key = k.key /\ h.sc = k.sc
      BY <2>1 DEF Driver
    <2>3. ~h.prefix /\ ~h.shift /\ h.ctrl = k.ctrl /\ h.caps = k.caps
      BY <2>1 DEF Driver
    <2> QED BY <1>5, <2>2, <2>3 DEF Ordinary
  <1>6. CASE byte = \h3A
    <2>1. h = [r EXCEPT !.caps = ~@]
      BY <1>6 DEF Handled, ShiftUp
    <2>2. h \in Driver /\ h.key = k.key /\ h.sc = k.sc
      BY <2>1 DEF Driver
    <2>3. ~h.prefix /\ h.shift = k.shift /\ h.ctrl = k.ctrl /\ (h.caps <=> ~k.caps)
      BY <2>1 DEF Driver
    <2> QED BY <1>6, <2>2, <2>3 DEF Ordinary
  <1>7. CASE byte >= \h80 /\ byte \notin {\hAA, \hB6, \h9D, \hE0}
    <2>1. h = r
      BY <1>7 DEF Handled, ShiftUp
    <2>2. h \in Driver /\ h.key = k.key /\ h.sc = k.sc
      BY <2>1 DEF Driver
    <2>3. ~h.prefix /\ h.shift = k.shift /\ h.ctrl = k.ctrl /\ h.caps = k.caps
      BY <2>1 DEF Driver
    <2> QED BY <1>7, <2>2, <2>3 DEF Ordinary
  <1> QED BY <1>1, <1>2, <1>3, <1>4, <1>5, <1>6, <1>7 DEF Ordinary

\* What an ordinary byte does: it overwrites the buffers.
LEMMA HandledBuffers ==
  ASSUME NEW k \in Driver, NEW byte \in Nat, NEW of \in Stroke, NEW h,
         h = Handled(k, byte, of), Ordinary(byte)
  PROVE  /\ h \in Driver
         /\ h.ctrl = k.ctrl /\ h.shift = k.shift /\ h.caps = k.caps /\ ~h.prefix
         /\ h.sc.of = of /\ h.sc.code = byte
         /\ \/ h.key = k.key
            \/ h.key.of = of /\ h.key.c = CharOf(FlagsOf(k), byte) /\ h.key.c # NoChar
  <1> DEFINE r == [k EXCEPT !.prefix = FALSE]
             c == IF k.prefix THEN ExtendedKey(byte) ELSE Typed(r, byte)
             b == [c |-> c, code |-> byte, ext |-> k.prefix, of |-> of]
  <1>1. /\ r \in Driver /\ r.key = k.key /\ r.shift = k.shift
        /\ r.ctrl = k.ctrl /\ r.caps = k.caps /\ ~r.prefix
    BY DEF Driver
  <1>2. h = Buffered(r, byte, k.prefix, of)
    BY DEF Handled, ShiftUp, Ordinary
  <1>3. h = [r EXCEPT !.sc = b, !.key = IF c = NoChar THEN @ ELSE b]
    BY <1>2 DEF Buffered
  <1>4. c \in Chars
    BY CharType
  <1>5. c = CharOf(FlagsOf(k), byte)
    BY DEF CharOf, FlagsOf, Typed, Driver
  <1>6. b \in Slot /\ b.of = of /\ b.code = byte /\ b.c = c
    BY <1>4 DEF Slot, Driver
  <1> HIDE DEF r, c, b
  <1>7. h.sc = b /\ h.key = IF c = NoChar THEN k.key ELSE b
    BY <1>1, <1>3 DEF Driver
  <1>8. h.ctrl = k.ctrl /\ h.shift = k.shift /\ h.caps = k.caps /\ ~h.prefix
    BY <1>1, <1>3 DEF Driver
  <1>9. h \in Driver
    BY <1>1, <1>3, <1>6 DEF Driver
  <1> QED BY <1>5, <1>6, <1>7, <1>8, <1>9

\* Then is what the handler does to the flags.
LEMMA HandledFlags ==
  ASSUME NEW k \in Driver, NEW byte \in Nat, NEW of \in Stroke
  PROVE  /\ Handled(k, byte, of) \in Driver
         /\ FlagsOf(Handled(k, byte, of)) = Then(FlagsOf(k), byte)
  <1> DEFINE h == Handled(k, byte, of)
  <1>1. /\ h \in Driver
        /\ h.ctrl <=> byte = \h1D \/ (byte # \h9D /\ k.ctrl)
        /\ h.shift <=> byte \in {\h2A, \h36} \/ (byte \notin {\hAA, \hB6} /\ k.shift)
        /\ h.caps <=> IF byte = \h3A THEN ~k.caps ELSE k.caps
        /\ h.prefix <=> byte = \hE0
    <2>1. CASE Ordinary(byte)
      BY <2>1, HandledBuffers DEF Ordinary
    <2>2. CASE ~Ordinary(byte)
      BY <2>2, HandledFields
    <2> QED BY <2>1, <2>2
  <1> HIDE DEF h
  <1>2. Then(FlagsOf(k), byte) \in Flags /\ FlagsOf(h) \in Flags
    BY <1>1, FlagsOfFacts, ThenFacts
  <1>3. /\ Then(FlagsOf(k), byte).ctrl <=> FlagsOf(h).ctrl
        /\ Then(FlagsOf(k), byte).shift <=> FlagsOf(h).shift
        /\ Then(FlagsOf(k), byte).caps <=> FlagsOf(h).caps
        /\ Then(FlagsOf(k), byte).prefix <=> FlagsOf(h).prefix
    BY <1>1, FlagsOfFacts, ThenFacts
  <1>4. FlagsOf(h) = Then(FlagsOf(k), byte)
    BY <1>2, <1>3, FlagsEqual
  <1> QED BY <1>1, <1>4 DEF h

\* The first byte is handled.
LEMMA LeadsFrom ==
  ASSUME NEW a \in Flags, NEW z \in Flags, NEW w \in Seq(WireByte), w # << >>,
         NEW strict \in BOOLEAN, Leads(a, w, z, strict)
  PROVE  /\ Leads(Then(a, Head(w).byte), Tail(w), z, strict)
         /\ strict => Right(a, Head(w))
  <1>1. PICK f \in [0..Len(w) -> Flags] : Row(f, a, w, z, strict)
    BY DEF Leads
  <1> DEFINE v == Tail(w)
             g == [i \in 0..Len(v) |-> f[i+1]]
  <1>2. /\ Len(w) = Len(v) + 1 /\ Len(v) \in Nat
        /\ \A i \in 1..Len(v) : v[i] = w[i+1]
        /\ Head(w) = w[1]
    OBVIOUS
  <1> HIDE DEF v
  <1>3. g \in [0..Len(v) -> Flags]
    BY <1>2
  <1>4. g[0] = Then(a, Head(w).byte) /\ g[Len(v)] = z
    BY <1>1, <1>2 DEF Row
  <1>5. ASSUME NEW i \in 1..Len(v)
        PROVE  g[i] = Then(g[i-1], v[i].byte) /\ (strict => Right(g[i-1], v[i]))
    BY <1>1, <1>2 DEF Row
  <1>6. Row(g, Then(a, Head(w).byte), v, z, strict)
    BY <1>3, <1>4, <1>5 DEF Row
  <1>7. strict => Right(a, Head(w))
    BY <1>1, <1>2 DEF Row
  <1> QED BY <1>3, <1>6, <1>7 DEF Leads, v

LEMMA LeadsNowhere ==
  ASSUME NEW a, NEW z, NEW strict, Leads(a, << >>, z, strict)
  PROVE  a = z
  BY DEF Leads, Row

LEMMA LeadsStart ==
  ASSUME NEW a \in Flags, NEW strict PROVE Leads(a, << >>, a, strict)
  <1> DEFINE f == [i \in 0..0 |-> a]
  <1>1. f \in [0..Len(<< >>) -> Flags] /\ Row(f, a, << >>, a, strict)
    BY DEF Row
  <1> QED BY <1>1 DEF Leads

LEMMA LeadsLoosely ==
  ASSUME NEW a, NEW w, NEW z, NEW s \in BOOLEAN, NEW t \in BOOLEAN,
         t => s, Leads(a, w, z, s)
  PROVE  Leads(a, w, z, t)
  BY DEF Leads, Row

-----------------------------------------------------------------------------
(* Lemmas about the bytes the keyboard sends. *)

OnWire(byte, of) == [byte |-> byte, of |-> of]
Sent(bytes, of) == [i \in 1..Len(bytes) |-> [byte |-> bytes[i], of |-> of]]

LEMMA SentFacts ==
  ASSUME NEW bytes \in Seq(Nat), NEW of \in Stroke
  PROVE  /\ Sent(bytes, of) \in Seq(WireByte) /\ Len(Sent(bytes, of)) = Len(bytes)
         /\ \A i \in 1..Len(bytes) : Sent(bytes, of)[i] = OnWire(bytes[i], of)
  BY DEF Sent, WireByte, OnWire

\* The wire after bytes were added.
LEMMA Joined ==
  ASSUME NEW w \in Seq(WireByte), NEW u \in Seq(WireByte)
  PROVE  /\ w \o u \in Seq(WireByte) /\ Len(w \o u) = Len(w) + Len(u)
         /\ \A i \in 1..Len(w) : (w \o u)[i] = w[i]
         /\ \A i \in (Len(w) + 1)..(Len(w) + Len(u)) : (w \o u)[i] = u[i - Len(w)]
  BY ConcatProperties

\* Two rows of flags make one.
LEMMA LeadsOn ==
  ASSUME NEW a \in Flags, NEW z \in Flags, NEW y \in Flags, NEW strict \in BOOLEAN,
         NEW w \in Seq(WireByte), NEW u \in Seq(WireByte),
         Leads(a, w, z, strict), Leads(z, u, y, strict)
  PROVE  Leads(a, w \o u, y, strict)
  <1>1. PICK f \in [0..Len(w) -> Flags] : Row(f, a, w, z, strict)
    BY DEF Leads
  <1>2. PICK h \in [0..Len(u) -> Flags] : Row(h, z, u, y, strict)
    BY DEF Leads
  <1> DEFINE v == w \o u
             g == [i \in 0..Len(v) |-> IF i <= Len(w) THEN f[i] ELSE h[i - Len(w)]]
  <1>3. /\ Len(v) = Len(w) + Len(u) /\ Len(w) \in Nat /\ Len(u) \in Nat
        /\ \A i \in 1..Len(w) : v[i] = w[i]
        /\ \A i \in (Len(w) + 1)..(Len(w) + Len(u)) : v[i] = u[i - Len(w)]
    BY Joined
  <1> HIDE DEF v
  <1>4. g \in [0..Len(v) -> Flags]
    BY <1>3
  <1>5. g[0] = a /\ g[Len(v)] = y
    BY <1>1, <1>2, <1>3, SMTT(60) DEF Row
  <1>6. ASSUME NEW i \in 1..Len(v)
        PROVE  g[i] = Then(g[i-1], v[i].byte) /\ (strict => Right(g[i-1], v[i]))
    <2>1. CASE i <= Len(w)
      <3>1. i \in 1..Len(w) /\ i \in 0..Len(v) /\ i - 1 \in 0..Len(v) /\ i - 1 <= Len(w)
        BY <1>3, <2>1
      <3>2. g[i] = f[i] /\ g[i-1] = f[i-1] /\ v[i] = w[i]
        BY <1>3, <2>1, <3>1
      <3> QED BY <1>1, <3>1, <3>2 DEF Row
    <2>2. CASE i = Len(w) + 1
      <3>1. /\ i \in (Len(w) + 1)..(Len(w) + Len(u)) /\ i - Len(w) = 1 /\ 1 \in 1..Len(u)
            /\ i \in 0..Len(v) /\ i - 1 \in 0..Len(v) /\ i - 1 = Len(w) /\ ~(i <= Len(w))
        BY <1>3, <2>2
      <3>2. g[i] = h[1] /\ g[i-1] = f[Len(w)] /\ v[i] = u[1]
        BY <1>3, <3>1
      <3>3. f[Len(w)] = z /\ h[0] = z /\ 1 - 1 = 0
        BY <1>1, <1>2 DEF Row
      <3> QED BY <1>2, <3>1, <3>2, <3>3 DEF Row
    <2>3. CASE i > Len(w) + 1
      <3>0. /\ i \in (Len(w) + 1)..(Len(w) + Len(u)) /\ i \in 0..Len(v) /\ ~(i <= Len(w))
            /\ i - Len(w) \in 1..Len(u)
        BY <1>3, <2>3
      <3>1. g[i] = h[i - Len(w)] /\ v[i] = u[i - Len(w)]
        BY <1>3, <3>0
      <3>2. g[i-1] = h[(i - Len(w)) - 1]
        BY <1>3, <2>3
      <3> QED BY <1>2, <3>0, <3>1, <3>2 DEF Row
    <2> QED BY <1>3, <2>1, <2>2, <2>3
  <1>7. Row(g, a, v, y, strict)
    BY <1>4, <1>5, <1>6 DEF Row
  <1> QED BY <1>4, <1>7 DEF Leads, v

\* Where one, two or four bytes lead.
LEMMA OneLeads ==
  ASSUME NEW of \in Stroke, NEW strict \in BOOLEAN, NEW z \in Flags,
         NEW bytes \in Seq(Nat), Len(bytes) = 1, NEW b1 \in Nat, b1 = bytes[1],
         NEW z1, z1 = Then(z, b1), strict => Right(z, OnWire(b1, of))
  PROVE  z1 \in Flags /\ Leads(z, Sent(bytes, of), z1, strict)
  <1> DEFINE u == Sent(bytes, of)
             f == [i \in 0..1 |-> IF i = 0 THEN z ELSE z1]
  <1>1. Len(u) = 1 /\ u[1] = OnWire(b1, of) /\ u[1].byte = b1
    BY SentFacts DEF OnWire
  <1>2. z1 \in Flags
    BY ThenFacts
  <1> HIDE DEF u
  <1>3. f \in [0..Len(u) -> Flags] /\ Row(f, z, u, z1, strict)
    BY <1>1, <1>2 DEF Row
  <1> QED BY <1>2, <1>3 DEF Leads, u

LEMMA TwoLead ==
  ASSUME NEW of \in Stroke, NEW strict \in BOOLEAN, NEW z \in Flags,
         NEW bytes \in Seq(Nat), Len(bytes) = 2, NEW b1 \in Nat, NEW b2 \in Nat,
         b1 = bytes[1], b2 = bytes[2],
         NEW z1, z1 = Then(z, b1), NEW z2, z2 = Then(z1, b2),
         strict => Right(z, OnWire(b1, of)) /\ Right(z1, OnWire(b2, of))
  PROVE  z1 \in Flags /\ z2 \in Flags /\ Leads(z, Sent(bytes, of), z2, strict)
  <1> DEFINE u == Sent(bytes, of)
             f == [i \in 0..2 |-> IF i = 0 THEN z ELSE IF i = 1 THEN z1 ELSE z2]
  <1>1. /\ Len(u) = 2 /\ u[1] = OnWire(b1, of) /\ u[2] = OnWire(b2, of)
        /\ u[1].byte = b1 /\ u[2].byte = b2
    BY SentFacts DEF OnWire
  <1>2. z1 \in Flags
    BY ThenFacts
  <1>3. z2 \in Flags
    BY <1>2, ThenFacts
  <1> HIDE DEF u
  <1>4. f \in [0..Len(u) -> Flags]
    BY <1>1, <1>2, <1>3
  <1>5. \A i \in 1..2 : f[i] = Then(f[i-1], u[i].byte) /\ (strict => Right(f[i-1], u[i]))
    BY <1>1
  <1>6. Row(f, z, u, z2, strict)
    BY <1>1, <1>4, <1>5 DEF Row
  <1> QED BY <1>2, <1>3, <1>4, <1>6 DEF Leads, u

LEMMA FourLead ==
  ASSUME NEW of \in Stroke, NEW strict \in BOOLEAN, NEW z \in Flags,
         NEW bytes \in Seq(Nat), Len(bytes) = 4,
         NEW z1, z1 = Then(z, bytes[1]), NEW z2, z2 = Then(z1, bytes[2]),
         NEW z3, z3 = Then(z2, bytes[3]), NEW z4, z4 = Then(z3, bytes[4]),
         strict => /\ Right(z, OnWire(bytes[1], of)) /\ Right(z1, OnWire(bytes[2], of))
                   /\ Right(z2, OnWire(bytes[3], of)) /\ Right(z3, OnWire(bytes[4], of))
  PROVE  /\ z1 \in Flags /\ z2 \in Flags /\ z3 \in Flags /\ z4 \in Flags
         /\ Leads(z, Sent(bytes, of), z4, strict)
  <1> DEFINE u == Sent(bytes, of)
             f == [i \in 0..4 |-> IF i = 0 THEN z ELSE IF i = 1 THEN z1
                                  ELSE IF i = 2 THEN z2 ELSE IF i = 3 THEN z3 ELSE z4]
  <1>0. bytes[1] \in Nat /\ bytes[2] \in Nat /\ bytes[3] \in Nat /\ bytes[4] \in Nat
    <2>1. \A i \in 1..4 : bytes[i] \in Nat
      BY ElementOfSeq
    <2> QED BY <2>1
  <1>1. /\ Len(u) = 4 /\ u[1] = OnWire(bytes[1], of) /\ u[2] = OnWire(bytes[2], of)
        /\ u[3] = OnWire(bytes[3], of) /\ u[4] = OnWire(bytes[4], of)
    BY SentFacts, SMTT(60)
  <1>2. u[1].byte = bytes[1] /\ u[2].byte = bytes[2] /\ u[3].byte = bytes[3] /\ u[4].byte = bytes[4]
    BY <1>1 DEF OnWire
  <1>3. z1 \in Flags
    BY <1>0, ThenFacts
  <1>4. z2 \in Flags
    BY <1>0, <1>3, ThenFacts
  <1>5. z3 \in Flags
    BY <1>0, <1>4, ThenFacts
  <1>6. z4 \in Flags
    BY <1>0, <1>5, ThenFacts
  <1> HIDE DEF u
  <1>7. f \in [0..Len(u) -> Flags]
    BY <1>1, <1>3, <1>4, <1>5, <1>6
  <1>8. \A i \in 1..4 : f[i] = Then(f[i-1], u[i].byte) /\ (strict => Right(f[i-1], u[i]))
    BY <1>1, <1>2
  <1>9. Row(f, z, u, z4, strict)
    BY <1>1, <1>7, <1>8 DEF Row
  <1> QED BY <1>3, <1>4, <1>5, <1>6, <1>7, <1>9 DEF Leads, u

\* The codes of the modifiers, and of no other key.
LEMMA CodeKinds ==
  ASSUME NEW k \in DOMAIN Code
  PROVE  /\ Code[k] \in Nat /\ Code[k] > 0 /\ Code[k] < \h80
         /\ Code[k] = \h1D <=> k \in Ctrls
         /\ Code[k] \in {\h2A, \h36} <=> k \in {"lshift", "rshift"}
         /\ Code[k] = \h3A <=> k = "caps"
         /\ Code[k] # \h60
         /\ Ordinary(Code[k]) <=> k \notin Modifiers \ {"prtsc"}
  BY DEF Code, Ctrls, Modifiers, ShiftLike, Ordinary

LEMMA MakeShape ==
  ASSUME NEW k \in DOMAIN Code, NEW m, m = Make(k)
  PROVE  /\ m \in Seq(Nat)
         /\ k = "prtsc" => Len(m) = 4 /\ m[1] = \hE0 /\ m[2] = \h2A /\ m[3] = \hE0 /\ m[4] = \h37
         /\ k # "prtsc" /\ k \in Extended => Len(m) = 2 /\ m[1] = \hE0 /\ m[2] = Code[k]
         /\ k \notin Extended => Len(m) = 1 /\ m[1] = Code[k]
  <1>1. CASE k = "prtsc"
    BY <1>1 DEF Make, Extended
  <1>2. CASE k # "prtsc" /\ k \in Extended
    BY <1>2, CodeKinds DEF Make
  <1>3. CASE k \notin Extended
    BY <1>3, CodeKinds DEF Make, Extended
  <1> QED BY <1>1, <1>2, <1>3

LEMMA BreakShape ==
  ASSUME NEW k \in DOMAIN Code, NEW m, m = Break(k)
  PROVE  /\ m \in Seq(Nat)
         /\ k = "prtsc" => Len(m) = 4 /\ m[1] = \hE0 /\ m[2] = \hB7 /\ m[3] = \hE0 /\ m[4] = \hAA
         /\ k # "prtsc" /\ k \in Extended =>
              Len(m) = 2 /\ m[1] = \hE0 /\ m[2] = Code[k] + \h80
         /\ k \notin Extended => Len(m) = 1 /\ m[1] = Code[k] + \h80
  <1>1. CASE k = "prtsc"
    BY <1>1 DEF Break, Extended
  <1>2. CASE k # "prtsc" /\ k \in Extended
    BY <1>2, CodeKinds DEF Break
  <1>3. CASE k \notin Extended
    BY <1>3, CodeKinds DEF Break, Extended
  <1> QED BY <1>1, <1>2, <1>3

\* A key makes the character it means, when the flags are those of the keys
\* that are held.
LEMMA MakesWhatItMeans ==
  ASSUME NEW k \in DOMAIN Code, NEW z \in Flags, Ordinary(Code[k]), k # "prtsc",
         z.prefix <=> k \in Extended,
         z.shift <=> held \cap ShiftLike # {}, z.ctrl <=> held \cap Ctrls # {},
         z.caps = capsOn, capsOn \in BOOLEAN
  PROVE  CharOf(z, Code[k]) = Means(k)
  <1>0. k \in {"a", "one", "enter", "back", "esc", "up", "dn"}
    BY CodeKinds, CodeFacts DEF Modifiers, ShiftLike, Ctrls
  <1>1. CASE k = "a"
    <2>1. Code[k] = \h1E /\ ~z.prefix
      BY <1>1 DEF Code, Extended
    <2>2. CharOf(z, Code[k]) = IF z.ctrl THEN "^A"
                               ELSE IF z.caps THEN (IF z.shift THEN "a" ELSE "A")
                               ELSE IF z.shift THEN "A" ELSE "a"
      BY <2>1 DEF CharOf, Typed, Shifted, Ascii
    <2>3. Means(k) = IF held \cap Ctrls # {} THEN "^A"
                     ELSE IF (held \cap ShiftLike # {}) # capsOn THEN "A" ELSE "a"
      BY <1>1 DEF Means
    <2>4. CASE z.shift
      BY <2>2, <2>3, <2>4
    <2>5. CASE ~z.shift
      BY <2>2, <2>3, <2>5
    <2> QED BY <2>4, <2>5
  <1>2. CASE k = "one"
    <2>1. Code[k] = \h02 /\ ~z.prefix
      BY <1>2 DEF Code, Extended
    <2> QED BY <1>2, <2>1 DEF CharOf, Typed, Shifted, Ascii, Means
  <1>3. CASE k = "enter"
    <2>1. Code[k] = \h1C /\ ~z.prefix
      BY <1>3 DEF Code, Extended
    <2> QED BY <1>3, <2>1 DEF CharOf, Typed, Shifted, Ascii, Means
  <1>4. CASE k = "back"
    <2>1. Code[k] = \h0E /\ ~z.prefix
      BY <1>4 DEF Code, Extended
    <2> QED BY <1>4, <2>1 DEF CharOf, Typed, Shifted, Ascii, Means, NoChar
  <1>5. CASE k = "esc"
    <2>1. Code[k] = \h01 /\ ~z.prefix
      BY <1>5 DEF Code, Extended
    <2> QED BY <1>5, <2>1 DEF CharOf, Typed, Shifted, Ascii, Means, NoChar
  <1>6. CASE k = "up"
    <2>1. Code[k] = \h48 /\ z.prefix
      BY <1>6 DEF Code, Extended
    <2> QED BY <1>6, <2>1 DEF CharOf, ExtendedKey, Means
  <1>7. CASE k = "dn"
    <2>1. Code[k] = \h50 /\ z.prefix
      BY <1>7 DEF Code, Extended
    <2> QED BY <1>7, <2>1 DEF CharOf, ExtendedKey, Means
  <1> QED BY <1>0, <1>1, <1>2, <1>3, <1>4, <1>5, <1>6, <1>7

NotTyped(byte, of, z) == ~Ordinary(byte) => Right(z, OnWire(byte, of))
LEMMA NotOrdinary ==
  ASSUME NEW byte \in Nat, NEW of, NEW z PROVE NotTyped(byte, of, z)
  BY DEF NotTyped, Right, OnWire

\* Where the make code of a key leads.
LEMMA MakeLeads ==
  ASSUME NEW k \in DOMAIN Code, NEW z \in Flags, ~z.prefix, NEW strict \in BOOLEAN,
         NEW of \in Stroke, of.means = Means(k), capsOn \in BOOLEAN, strict => Exact(z)
  PROVE  \E y \in Flags :
           /\ Leads(z, Sent(Make(k), of), y, strict)
           /\ ~y.prefix
           /\ y.shift <=> z.shift \/ k \in ShiftLike
           /\ y.ctrl <=> z.ctrl \/ k \in Ctrls
           /\ y.caps <=> IF k = "caps" THEN ~z.caps ELSE z.caps
  <1> DEFINE m == Make(k)
  <1>0. m \in Seq(Nat) /\ Code[k] \in Nat
    BY MakeShape, CodeKinds
  <1>1. CASE k = "prtsc"
    <2>1. Len(m) = 4 /\ m[1] = \hE0 /\ m[2] = \h2A /\ m[3] = \hE0 /\ m[4] = \h37
      BY <1>1, MakeShape
    <2> HIDE DEF m
    <2> DEFINE z1 == Then(z, \hE0)
    <2>2. /\ z1 \in Flags /\ z1 = Then(z, \hE0)
          /\ z1.ctrl <=> z.ctrl
          /\ z1.caps <=> z.caps
      BY ThenFacts
    <2> HIDE DEF z1
    <2> DEFINE z2 == Then(z1, \h2A)
    <2>3. /\ z2 \in Flags /\ z2 = Then(z1, \h2A)
          /\ z2.ctrl <=> z1.ctrl
          /\ z2.caps <=> z1.caps
          /\ z2.shift
      BY <2>2, ThenFacts
    <2> HIDE DEF z2
    <2> DEFINE z3 == Then(z2, \hE0)
    <2>4. /\ z3 \in Flags /\ z3 = Then(z2, \hE0)
          /\ z3.ctrl <=> z2.ctrl
          /\ z3.caps <=> z2.caps
          /\ z3.shift /\ z3.prefix
      BY <2>3, ThenFacts
    <2> HIDE DEF z3
    <2> DEFINE z4 == Then(z3, \h37)
    <2>5. /\ z4 \in Flags /\ z4 = Then(z3, \h37)
          /\ z4.ctrl <=> z3.ctrl
          /\ z4.caps <=> z3.caps
          /\ z4.shift /\ ~z4.prefix
      BY <2>4, ThenFacts
    <2> HIDE DEF z4
    <2>6. /\ Right(z, OnWire(\hE0, of)) /\ Right(z1, OnWire(\h2A, of))
          /\ Right(z2, OnWire(\hE0, of))
      BY NotOrdinary DEF NotTyped, Ordinary
    <2>7. Right(z3, OnWire(\h37, of))
      BY <1>1, <2>4 DEF Right, OnWire, CharOf, ExtendedKey, Means
    <2>8. Leads(z, Sent(m, of), z4, strict)
      BY <1>0, <2>1, <2>2, <2>3, <2>4, <2>5, <2>6, <2>7, FourLead
    <2> QED BY <1>1, <2>2, <2>3, <2>4, <2>5, <2>8 DEF m, ShiftLike, Ctrls
  <1>2. CASE k # "prtsc" /\ k \in Extended
    <2>1. Len(m) = 2 /\ m[1] = \hE0 /\ m[2] = Code[k]
      BY <1>2, MakeShape
    <2> HIDE DEF m
    <2>a. /\ Code[k] \in Nat
          /\ Code[k] \notin {\h9D, \h2A, \h36, \hAA, \hB6, \h3A, \hE0}
          /\ Code[k] = \h1D <=> k \in Ctrls
      BY <1>2, CodeKinds DEF Extended
    <2> DEFINE z1 == Then(z, \hE0)
    <2>2. /\ z1 \in Flags /\ z1 = Then(z, \hE0)
          /\ z1.ctrl <=> z.ctrl
          /\ z1.caps <=> z.caps
          /\ z1.shift <=> z.shift
          /\ z1.prefix
      BY ThenFacts
    <2> HIDE DEF z1
    <2> DEFINE z2 == Then(z1, Code[k])
    <2>3. /\ z2 \in Flags /\ z2 = Then(z1, Code[k])
          /\ z2.ctrl <=> z1.ctrl \/ k \in Ctrls
          /\ z2.caps <=> z1.caps
          /\ z2.shift <=> z1.shift
          /\ ~z2.prefix
      <3> DEFINE b == Code[k]
      <3>1. z1 \in Flags /\ b \in Nat
        BY <2>2, <2>a
      <3> HIDE DEF b
      <3>2. /\ Then(z1, b) \in Flags
            /\ Then(z1, b).ctrl <=> b = \h1D \/ (b # \h9D /\ z1.ctrl)
            /\ Then(z1, b).shift <=>
                 b \in {\h2A, \h36} \/ (b \notin {\hAA, \hB6} /\ z1.shift)
            /\ Then(z1, b).caps <=> IF b = \h3A THEN ~z1.caps ELSE z1.caps
            /\ Then(z1, b).prefix <=> b = \hE0
        BY <3>1, ThenFacts
      <3> QED BY <3>2, <2>a DEF b
    <2> HIDE DEF z2
    <2>6. Right(z, OnWire(\hE0, of))
      BY NotOrdinary DEF NotTyped, Ordinary
    <2>7. strict => Right(z1, OnWire(Code[k], of))
      <3> SUFFICES ASSUME strict, Ordinary(Code[k])
                   PROVE  CharOf(z1, Code[k]) = Means(k)
        BY DEF Right, OnWire
      <3>1. z1.caps = capsOn
        BY <2>2 DEF Exact, Flags
      <3> QED BY <1>2, <2>2, <3>1, MakesWhatItMeans DEF Exact
    <2>8. Leads(z, Sent(m, of), z2, strict)
      BY <1>0, <2>1, <2>2, <2>3, <2>6, <2>7, TwoLead
    <2> QED BY <1>2, <2>2, <2>3, <2>8 DEF m, Extended, ShiftLike
  <1>3. CASE k \notin Extended
    <2>1. Len(m) = 1 /\ m[1] = Code[k]
      BY <1>3, MakeShape
    <2> HIDE DEF m
    <2>a. /\ Code[k] \in Nat
          /\ Code[k] \notin {\h9D, \hAA, \hB6, \hE0}
          /\ Code[k] = \h1D <=> k \in Ctrls
          /\ Code[k] \in {\h2A, \h36} <=> k \in ShiftLike
          /\ Code[k] = \h3A <=> k = "caps"
      BY <1>3, CodeKinds DEF Extended, ShiftLike
    <2> DEFINE z1 == Then(z, Code[k])
    <2>2. /\ z1 \in Flags /\ z1 = Then(z, Code[k])
          /\ ~z1.prefix
          /\ z1.ctrl <=> z.ctrl \/ k \in Ctrls
          /\ z1.shift <=> z.shift \/ k \in ShiftLike
          /\ z1.caps <=> IF k = "caps" THEN ~z.caps ELSE z.caps
      <3> DEFINE b == Code[k]
      <3>1. z \in Flags /\ b \in Nat
        BY <2>a
      <3> HIDE DEF b
      <3>2. /\ Then(z, b) \in Flags
            /\ Then(z, b).ctrl <=> b = \h1D \/ (b # \h9D /\ z.ctrl)
            /\ Then(z, b).shift <=>
                 b \in {\h2A, \h36} \/ (b \notin {\hAA, \hB6} /\ z.shift)
            /\ Then(z, b).caps <=> IF b = \h3A THEN ~z.caps ELSE z.caps
            /\ Then(z, b).prefix <=> b = \hE0
        BY <3>1, ThenFacts
      <3> QED BY <3>2, <2>a DEF b
    <2> HIDE DEF z1
    <2>3. strict => Right(z, OnWire(Code[k], of))
      <3> SUFFICES ASSUME strict, Ordinary(Code[k])
                   PROVE  CharOf(z, Code[k]) = Means(k)
        BY DEF Right, OnWire
      <3> QED BY <1>3, MakesWhatItMeans DEF Exact, Extended
    <2>4. Leads(z, Sent(m, of), z1, strict)
      BY <1>0, <2>1, <2>2, <2>3, OneLeads
    <2> QED BY <2>2, <2>4 DEF m
  <1> QED BY <1>1, <1>2, <1>3

\* The repetition of print screen has no shift of its own.
LEMMA RepeatLeads ==
  ASSUME NEW z \in Flags, ~z.prefix, NEW strict \in BOOLEAN,
         NEW of \in Stroke, of.means = NoChar
  PROVE  \E y \in Flags :
           /\ Leads(z, Sent(<<\hE0, \h37>>, of), y, strict)
           /\ ~y.prefix
           /\ y.shift <=> z.shift
           /\ y.ctrl <=> z.ctrl
           /\ y.caps <=> z.caps
  <1> DEFINE m == <<\hE0, \h37>>
  <1>1. m \in Seq(Nat) /\ Len(m) = 2 /\ m[1] = \hE0 /\ m[2] = \h37
    OBVIOUS
  <1> HIDE DEF m
  <1> DEFINE z1 == Then(z, \hE0)
  <1>2. /\ z1 \in Flags /\ z1 = Then(z, \hE0)
        /\ z1.ctrl <=> z.ctrl
        /\ z1.caps <=> z.caps
        /\ z1.shift <=> z.shift
        /\ z1.prefix
    BY ThenFacts
  <1> HIDE DEF z1
  <1> DEFINE z2 == Then(z1, \h37)
  <1>3. /\ z2 \in Flags /\ z2 = Then(z1, \h37)
        /\ z2.ctrl <=> z1.ctrl
        /\ z2.caps <=> z1.caps
        /\ z2.shift <=> z1.shift
        /\ ~z2.prefix
    BY <1>2, ThenFacts
  <1> HIDE DEF z2
  <1>4. Right(z, OnWire(\hE0, of)) /\ Right(z1, OnWire(\h37, of))
    BY <1>2 DEF Right, OnWire, Ordinary, CharOf, ExtendedKey
  <1>5. Leads(z, Sent(m, of), z2, strict)
    BY <1>1, <1>2, <1>3, <1>4, TwoLead
  <1> QED BY <1>2, <1>3, <1>5 DEF m

\* Where the break code of a key leads.
LEMMA BreakLeads ==
  ASSUME NEW k \in DOMAIN Code, NEW z \in Flags, ~z.prefix, NEW strict \in BOOLEAN,
         NEW of \in Stroke
  PROVE  \E y \in Flags :
           /\ Leads(z, Sent(Break(k), of), y, strict)
           /\ ~y.prefix
           /\ y.shift <=> z.shift /\ k \notin ShiftLike
           /\ y.ctrl <=> z.ctrl /\ k \notin Ctrls
           /\ y.caps <=> z.caps
  <1> DEFINE m == Break(k)
             c == Code[k] + \h80
  <1>0. /\ m \in Seq(Nat) /\ c \in Nat /\ ~Ordinary(c)
        /\ c = \h9D <=> k \in Ctrls
        /\ c \in {\hAA, \hB6} <=> k \in {"lshift", "rshift"}
        /\ c >= \h80 /\ c # \hE0
    BY BreakShape, CodeKinds DEF Ordinary
  <1> HIDE DEF c
  <1>1. CASE k = "prtsc"
    <2>1. Len(m) = 4 /\ m[1] = \hE0 /\ m[2] = \hB7 /\ m[3] = \hE0 /\ m[4] = \hAA
      BY <1>1, BreakShape
    <2> HIDE DEF m
    <2> DEFINE z1 == Then(z, \hE0)
    <2>2. /\ z1 \in Flags /\ z1 = Then(z, \hE0)
          /\ z1.ctrl <=> z.ctrl
          /\ z1.caps <=> z.caps
      BY ThenFacts
    <2> HIDE DEF z1
    <2> DEFINE z2 == Then(z1, \hB7)
    <2>3. /\ z2 \in Flags /\ z2 = Then(z1, \hB7)
          /\ z2.ctrl <=> z1.ctrl
          /\ z2.caps <=> z1.caps
      BY <2>2, ThenFacts
    <2> HIDE DEF z2
    <2> DEFINE z3 == Then(z2, \hE0)
    <2>4. /\ z3 \in Flags /\ z3 = Then(z2, \hE0)
          /\ z3.ctrl <=> z2.ctrl
          /\ z3.caps <=> z2.caps
      BY <2>3, ThenFacts
    <2> HIDE DEF z3
    <2> DEFINE z4 == Then(z3, \hAA)
    <2>5. /\ z4 \in Flags /\ z4 = Then(z3, \hAA)
          /\ z4.ctrl <=> z3.ctrl
          /\ z4.caps <=> z3.caps
          /\ ~z4.shift /\ ~z4.prefix
      BY <2>4, ThenFacts
    <2> HIDE DEF z4
    <2>6. /\ Right(z, OnWire(\hE0, of)) /\ Right(z1, OnWire(\hB7, of))
          /\ Right(z2, OnWire(\hE0, of)) /\ Right(z3, OnWire(\hAA, of))
      BY NotOrdinary DEF NotTyped, Ordinary
    <2>7. Leads(z, Sent(m, of), z4, strict)
      BY <1>0, <2>1, <2>2, <2>3, <2>4, <2>5, <2>6, FourLead
    <2> QED BY <1>1, <2>2, <2>3, <2>4, <2>5, <2>7 DEF m, ShiftLike, Ctrls
  <1>2. CASE k # "prtsc" /\ k \in Extended
    <2>1. Len(m) = 2 /\ m[1] = \hE0 /\ m[2] = c
      BY <1>2, BreakShape DEF c
    <2> HIDE DEF m
    <2>a. c \notin {\h1D, \h2A, \h36, \hAA, \hB6, \h3A, \hE0}
      BY <1>0, <1>2 DEF Extended
    <2> DEFINE z1 == Then(z, \hE0)
    <2>2. /\ z1 \in Flags /\ z1 = Then(z, \hE0)
          /\ z1.ctrl <=> z.ctrl
          /\ z1.caps <=> z.caps
          /\ z1.shift <=> z.shift
      BY ThenFacts
    <2> HIDE DEF z1
    <2> DEFINE z2 == Then(z1, c)
    <2>3. /\ z2 \in Flags /\ z2 = Then(z1, c)
          /\ z2.ctrl <=> z1.ctrl /\ k \notin Ctrls
          /\ z2.caps <=> z1.caps
          /\ z2.shift <=> z1.shift
          /\ ~z2.prefix
      <3> DEFINE b == c
      <3>1. z1 \in Flags /\ b \in Nat
        BY <2>2, <1>0, <2>a
      <3> HIDE DEF b
      <3>2. /\ Then(z1, b) \in Flags
            /\ Then(z1, b).ctrl <=> b = \h1D \/ (b # \h9D /\ z1.ctrl)
            /\ Then(z1, b).shift <=>
                 b \in {\h2A, \h36} \/ (b \notin {\hAA, \hB6} /\ z1.shift)
            /\ Then(z1, b).caps <=> IF b = \h3A THEN ~z1.caps ELSE z1.caps
            /\ Then(z1, b).prefix <=> b = \hE0
        BY <3>1, ThenFacts
      <3> QED BY <3>2, <1>0, <2>a DEF b
    <2> HIDE DEF z2
    <2>4. Right(z, OnWire(\hE0, of)) /\ Right(z1, OnWire(c, of))
      BY <1>0, NotOrdinary DEF NotTyped, Ordinary
    <2>5. Leads(z, Sent(m, of), z2, strict)
      BY <1>0, <2>1, <2>2, <2>3, <2>4, TwoLead
    <2> QED BY <1>2, <2>2, <2>3, <2>5 DEF m, Extended, ShiftLike
  <1>3. CASE k \notin Extended
    <2>1. Len(m) = 1 /\ m[1] = c
      BY <1>3, BreakShape DEF c
    <2> HIDE DEF m
    <2>a. /\ c \in {\hAA, \hB6} <=> k \in ShiftLike
          /\ c \notin {\h1D, \h2A, \h36, \h3A, \hE0}
      BY <1>0, <1>3 DEF Extended, ShiftLike
    <2> DEFINE z1 == Then(z, c)
    <2>2. /\ z1 \in Flags /\ z1 = Then(z, c)
          /\ ~z1.prefix
          /\ z1.ctrl <=> z.ctrl /\ k \notin Ctrls
          /\ z1.shift <=> z.shift /\ k \notin ShiftLike
          /\ z1.caps <=> z.caps
      <3> DEFINE b == c
      <3>1. z \in Flags /\ b \in Nat
        BY <1>0, <2>a
      <3> HIDE DEF b
      <3>2. /\ Then(z, b) \in Flags
            /\ Then(z, b).ctrl <=> b = \h1D \/ (b # \h9D /\ z.ctrl)
            /\ Then(z, b).shift <=>
                 b \in {\h2A, \h36} \/ (b \notin {\hAA, \hB6} /\ z.shift)
            /\ Then(z, b).caps <=> IF b = \h3A THEN ~z.caps ELSE z.caps
            /\ Then(z, b).prefix <=> b = \hE0
        BY <3>1, ThenFacts
      <3> QED BY <3>2, <1>0, <2>a DEF b
    <2> HIDE DEF z1
    <2>3. Right(z, OnWire(c, of))
      BY <1>0, NotOrdinary DEF NotTyped
    <2>4. Leads(z, Sent(m, of), z1, strict)
      BY <1>0, <2>1, <2>2, <2>3, OneLeads
    <2> QED BY <2>2, <2>4 DEF m
  <1> QED BY <1>1, <1>2, <1>3

-----------------------------------------------------------------------------
(* The keyboard's actions. *)

LEMMA MeansType == ASSUME NEW k PROVE Means(k) \in Chars
  BY DEF Means, Chars, NoChar

LEMMA StrokeType ==
  ASSUME NEW k, strokes \in Nat
  PROVE  LET of == [n |-> strokes + 1, means |-> Means(k)] IN of \in Stroke /\ of.means = Means(k)
  BY MeansType DEF Stroke

LEMMA NoStrokeType == NoStroke \in Stroke
  BY DEF NoStroke, Stroke, Chars

\* The flags follow the keys when one is pressed,
LEMMA PressFlags ==
  ASSUME TypeOK, FlagsFollow, NEW k \in DOMAIN Code, Press(k) PROVE FlagsFollow'
  <1> DEFINE of == [n |-> strokes + 1, means |-> Means(k)]
  <1>1. of \in Stroke /\ of.means = Means(k)
    BY StrokeType DEF TypeOK
  <1> HIDE DEF of
  <1>2. PICK fl \in Flags : AsHeld(fl) /\ Leads(FlagsOf(kb), wire, fl, ~odd)
    BY DEF FlagsFollow
  <1>3. kb' = kb /\ wire' = wire \o Sent(Make(k), of)
    BY DEF Press, Strike, Sends, Sent, of
  <1>4. odd' \in BOOLEAN /\ (~odd' => ~odd) /\ FlagsOf(kb) \in Flags
    BY FlagsOfFacts DEF Press, TypeOK
  <1>5. Leads(FlagsOf(kb), wire, fl, ~odd')
    <2>1. (~odd) \in BOOLEAN /\ (~odd') \in BOOLEAN
      OBVIOUS
    <2> QED BY <1>2, <1>4, <2>1, LeadsLoosely
  <1>6. PICK y \in Flags :
          /\ Leads(fl, Sent(Make(k), of), y, ~odd')
          /\ ~y.prefix
          /\ y.shift <=> fl.shift \/ k \in ShiftLike
          /\ y.ctrl <=> fl.ctrl \/ k \in Ctrls
          /\ y.caps <=> IF k = "caps" THEN ~fl.caps ELSE fl.caps
    <2>1. ~fl.prefix /\ capsOn \in BOOLEAN /\ (~odd' => Exact(fl))
      BY <1>2, <1>4 DEF AsHeld, TypeOK
    <2> QED BY <1>1, <2>1, MakeLeads
  <1>7. Leads(FlagsOf(kb), wire \o Sent(Make(k), of), y, ~odd')
    <2>1. Sent(Make(k), of) \in Seq(WireByte)
      BY <1>1, MakeShape, SentFacts
    <2> QED BY <1>4, <1>5, <1>6, <2>1, LeadsOn DEF TypeOK
  <1>8. AsHeld(y)'
    <2>1. held' \cap ShiftLike # {} <=> held \cap ShiftLike # {} \/ k \in ShiftLike
      BY DEF Press, Modifiers
    <2>2. held' \cap Ctrls # {} <=> held \cap Ctrls # {} \/ k \in Ctrls
      BY DEF Press, Modifiers
    <2>3. ~odd' => y.caps = capsOn'
      BY <1>2, <1>4, <1>6 DEF AsHeld, Exact, Press, Flags, TypeOK
    <2> QED BY <1>2, <1>4, <1>6, <2>1, <2>2, <2>3 DEF AsHeld, Exact
  <1>9. OneOfEach'
    BY DEF FlagsFollow, OneOfEach, Press, TypeOK
  <1> QED BY <1>3, <1>7, <1>8, <1>9 DEF FlagsFollow

\* when one is held,
LEMMA RepeatFlags ==
  ASSUME TypeOK, FlagsFollow, NEW k \in DOMAIN Code, Repeat(k) PROVE FlagsFollow'
  <1> DEFINE of == [n |-> strokes + 1, means |-> Means(k)]
             m == IF k = "prtsc" THEN <<\hE0, \h37>> ELSE Make(k)
  <1>1. of \in Stroke /\ of.means = Means(k)
    BY StrokeType DEF TypeOK
  <1> HIDE DEF of
  <1>2. PICK fl \in Flags : AsHeld(fl) /\ Leads(FlagsOf(kb), wire, fl, ~odd)
    BY DEF FlagsFollow
  <1>3. kb' = kb /\ wire' = wire \o Sent(m, of)
    BY DEF Repeat, Strike, Sends, Sent, of
  <1>4. odd' \in BOOLEAN /\ (~odd' => ~odd) /\ FlagsOf(kb) \in Flags
    BY FlagsOfFacts DEF Repeat, TypeOK
  <1>5. Leads(FlagsOf(kb), wire, fl, ~odd')
    <2>1. (~odd) \in BOOLEAN /\ (~odd') \in BOOLEAN
      OBVIOUS
    <2> QED BY <1>2, <1>4, <2>1, LeadsLoosely
  <1>6. PICK y \in Flags :
          /\ Leads(fl, Sent(m, of), y, ~odd')
          /\ ~y.prefix
          /\ y.shift <=> fl.shift \/ k \in {"lshift", "rshift"}
          /\ y.ctrl <=> fl.ctrl \/ k \in Ctrls
          /\ y.caps <=> IF k = "caps" THEN ~fl.caps ELSE fl.caps
    <2>1. ~fl.prefix /\ capsOn \in BOOLEAN /\ (~odd' => Exact(fl))
      BY <1>2, <1>4 DEF AsHeld, TypeOK
    <2>2. CASE k = "prtsc"
      <3>1. of.means = NoChar /\ (~odd') \in BOOLEAN
        BY <1>1, <2>2 DEF Means
      <3>2. PICK y \in Flags :
              /\ Leads(fl, Sent(<<\hE0, \h37>>, of), y, ~odd')
              /\ ~y.prefix
              /\ y.shift <=> fl.shift
              /\ y.ctrl <=> fl.ctrl
              /\ y.caps <=> fl.caps
        BY <1>1, <2>1, <3>1, RepeatLeads, ZenonT(60)
      <3>3. m = <<\hE0, \h37>> /\ k \notin {"lshift", "rshift", "caps"} /\ k \notin Ctrls
        BY <2>2 DEF Ctrls
      <3> HIDE DEF m
      <3> QED BY <3>2, <3>3
    <2>3. CASE k # "prtsc"
      BY <1>1, <2>1, <2>3, MakeLeads DEF ShiftLike
    <2> QED BY <2>2, <2>3
  <1>7. Leads(FlagsOf(kb), wire \o Sent(m, of), y, ~odd')
    <2>1. m \in Seq(Nat)
      <3>1. <<\hE0, \h37>> \in Seq(Nat)
        OBVIOUS
      <3> QED BY <3>1, MakeShape
    <2>2. Sent(m, of) \in Seq(WireByte)
      BY <1>1, <2>1, SentFacts
    <2> HIDE DEF m
    <2> QED BY <1>4, <1>5, <1>6, <2>2, LeadsOn DEF TypeOK
  <1>8. AsHeld(y)'
    <2>1. held' = held /\ capsOn' = capsOn /\ k \in held /\ (~odd' => ~odd /\ k # "caps")
      BY DEF Repeat
    <2>2. ~odd' => y.caps = capsOn'
      BY <1>2, <1>6, <2>1 DEF AsHeld, Exact, Flags, TypeOK
    <2> QED BY <1>2, <1>6, <2>1, <2>2 DEF AsHeld, Exact, ShiftLike, Ctrls
  <1>9. OneOfEach'
    BY DEF FlagsFollow, OneOfEach, Repeat
  <1> HIDE DEF m
  <1> QED BY <1>3, <1>7, <1>8, <1>9 DEF FlagsFollow

\* and when one is released.
LEMMA ReleaseFlags ==
  ASSUME TypeOK, FlagsFollow, NEW k \in DOMAIN Code, Release(k) PROVE FlagsFollow'
  <1>2. PICK fl \in Flags : AsHeld(fl) /\ Leads(FlagsOf(kb), wire, fl, ~odd)
    BY DEF FlagsFollow
  <1>3. /\ kb' = kb /\ odd' = odd /\ wire' = wire \o Sent(Break(k), NoStroke)
        /\ held' = held \ {k} /\ capsOn' = capsOn
        /\ k \in held \/ k \notin Modifiers
    BY DEF Release, Sends, Sent
  <1>4. (~odd) \in BOOLEAN /\ FlagsOf(kb) \in Flags /\ ~fl.prefix
    BY <1>2, FlagsOfFacts DEF AsHeld, TypeOK
  <1>6. PICK y \in Flags :
          /\ Leads(fl, Sent(Break(k), NoStroke), y, ~odd)
          /\ ~y.prefix
          /\ y.shift <=> fl.shift /\ k \notin ShiftLike
          /\ y.ctrl <=> fl.ctrl /\ k \notin Ctrls
          /\ y.caps <=> fl.caps
    BY <1>4, BreakLeads, NoStrokeType
  <1>7. Leads(FlagsOf(kb), wire \o Sent(Break(k), NoStroke), y, ~odd)
    <2>1. Sent(Break(k), NoStroke) \in Seq(WireByte)
      BY NoStrokeType, BreakShape, SentFacts
    <2> QED BY <1>2, <1>4, <1>6, <2>1, LeadsOn DEF TypeOK
  <1>8. AsHeld(y)'
    <2>1. k \notin ShiftLike => held' \cap ShiftLike = held \cap ShiftLike
      BY <1>3
    <2>2. k \notin Ctrls => held' \cap Ctrls = held \cap Ctrls
      BY <1>3
    <2>3. ~odd /\ k \in ShiftLike => held' \cap ShiftLike = {}
      BY <1>3 DEF FlagsFollow, OneOfEach, Modifiers
    <2>4. ~odd /\ k \in Ctrls => held' \cap Ctrls = {}
      BY <1>3 DEF FlagsFollow, OneOfEach, Modifiers
    <2>5. ~odd' => y.caps = capsOn'
      BY <1>2, <1>3, <1>6 DEF AsHeld, Exact, Flags, TypeOK
    <2> QED BY <1>2, <1>3, <1>6, <2>1, <2>2, <2>3, <2>4, <2>5 DEF AsHeld, Exact
  <1>9. OneOfEach'
    BY <1>3 DEF FlagsFollow, OneOfEach
  <1> QED BY <1>3, <1>7, <1>8, <1>9 DEF FlagsFollow

\* They follow when the keyboard lifts a held shift or presses it again.
LEMMA FakeLeads ==
  ASSUME NEW z \in Flags, NEW strict \in BOOLEAN, NEW of \in Stroke,
         NEW b \in Nat, b \in {\h2A, \h36, \hAA, \hB6}
  PROVE  \E y \in Flags : /\ Leads(z, Sent(<<\hE0, b>>, of), y, strict)
                          /\ ~y.prefix
                          /\ y.ctrl <=> z.ctrl
  <1> DEFINE m == <<\hE0, b>>
  <1>1. m \in Seq(Nat) /\ Len(m) = 2 /\ m[1] = \hE0 /\ m[2] = b
    OBVIOUS
  <1> HIDE DEF m
  <1> DEFINE z1 == Then(z, \hE0)
  <1>2. z1 \in Flags /\ z1 = Then(z, \hE0) /\ (z1.ctrl <=> z.ctrl)
    BY ThenFacts
  <1> HIDE DEF z1
  <1> DEFINE z2 == Then(z1, b)
  <1>3. z2 \in Flags /\ z2 = Then(z1, b) /\ (z2.ctrl <=> z1.ctrl) /\ ~z2.prefix
    <2>1. /\ Then(z1, b) \in Flags
          /\ Then(z1, b).ctrl <=> b = \h1D \/ (b # \h9D /\ z1.ctrl)
          /\ Then(z1, b).shift <=>
               b \in {\h2A, \h36} \/ (b \notin {\hAA, \hB6} /\ z1.shift)
          /\ Then(z1, b).caps <=> IF b = \h3A THEN ~z1.caps ELSE z1.caps
          /\ Then(z1, b).prefix <=> b = \hE0
      BY <1>2, ThenFacts
    <2> QED BY <2>1
  <1> HIDE DEF z2
  <1>4. Right(z, OnWire(\hE0, of)) /\ Right(z1, OnWire(b, of))
    BY DEF Right, OnWire, Ordinary
  <1>5. Leads(z, Sent(m, of), z2, strict)
    BY <1>1, <1>2, <1>3, <1>4, TwoLead
  <1> QED BY <1>2, <1>3, <1>5 DEF m

LEMMA FakeFlags ==
  ASSUME TypeOK, FlagsFollow, NEW k \in {"lshift", "rshift"}, k \in held, NEW b,
         b \in {Code[k], Code[k] + \h80}, wire' = wire \o Sent(<<\hE0, b>>, NoStroke),
         odd' = TRUE, kb' = kb, held' = held
  PROVE  FlagsFollow'
  <1>1. b \in {\h2A, \h36, \hAA, \hB6} /\ b \in Nat
    BY DEF Code
  <1>2. PICK fl \in Flags : AsHeld(fl) /\ Leads(FlagsOf(kb), wire, fl, ~odd)
    BY DEF FlagsFollow
  <1>3. FlagsOf(kb) \in Flags /\ (~odd) \in BOOLEAN /\ (~odd') \in BOOLEAN /\ ~(~odd')
    BY FlagsOfFacts DEF TypeOK
  <1>4. Leads(FlagsOf(kb), wire, fl, ~odd')
    BY <1>2, <1>3, LeadsLoosely
  <1>5. PICK y \in Flags :
          /\ Leads(fl, Sent(<<\hE0, b>>, NoStroke), y, ~odd')
          /\ ~y.prefix
          /\ y.ctrl <=> fl.ctrl
    <2>1. ASSUME NEW strict \in BOOLEAN
          PROVE  \E y \in Flags : /\ Leads(fl, Sent(<<\hE0, b>>, NoStroke), y, strict)
                                  /\ ~y.prefix
                                  /\ y.ctrl <=> fl.ctrl
      BY <1>1, NoStrokeType, FakeLeads
    <2>2. (~odd') \in BOOLEAN
      BY <1>3
    <2> QED BY <2>1, <2>2
  <1>6. Leads(FlagsOf(kb), wire \o Sent(<<\hE0, b>>, NoStroke), y, ~odd')
    <2>1. <<\hE0, b>> \in Seq(Nat)
      BY <1>1
    <2>2. Sent(<<\hE0, b>>, NoStroke) \in Seq(WireByte)
      BY <2>1, NoStrokeType, SentFacts
    <2> QED BY <1>3, <1>4, <1>5, <2>2, LeadsOn DEF TypeOK
  <1>7. AsHeld(y)' /\ OneOfEach'
    BY <1>2, <1>5 DEF AsHeld, OneOfEach, ShiftLike
  <1> QED BY <1>6, <1>7 DEF FlagsFollow

\* The interrupt: the flags move on, and the character is the one meant.
LEMMA HandlerFlags ==
  ASSUME TypeOK, FlagsFollow, TypedAsMeant, KeyboardHandler
  PROVE  FlagsFollow' /\ TypedAsMeant'
  <1> DEFINE b == Head(wire)
  <1>1. PICK fl \in Flags : AsHeld(fl) /\ Leads(FlagsOf(kb), wire, fl, ~odd)
    BY DEF FlagsFollow
  <1>2. /\ wire # << >> /\ kb' = Handled(kb, b.byte, b.of) /\ wire' = Tail(wire)
        /\ UNCHANGED <<held, strokes, capsOn, odd>>
    BY DEF KeyboardHandler
  <1>3. b \in WireByte /\ b.byte \in Nat /\ b.of \in Stroke
    <2>1. b \in WireByte
      BY <1>2, HeadTailProperties DEF TypeOK
    <2> QED BY <2>1 DEF WireByte
  <1>4. FlagsOf(kb) \in Flags /\ (~odd) \in BOOLEAN
    BY FlagsOfFacts DEF TypeOK
  <1>5. /\ Leads(Then(FlagsOf(kb), b.byte), Tail(wire), fl, ~odd)
        /\ ~odd => Right(FlagsOf(kb), b)
    BY <1>1, <1>2, <1>4, LeadsFrom DEF TypeOK
  <1> HIDE DEF b
  <1>6. FlagsOf(kb') = Then(FlagsOf(kb), b.byte)
    BY <1>2, <1>3, HandledFlags DEF TypeOK
  <1>7. FlagsFollow'
    <2>1. AsHeld(fl)' /\ OneOfEach'
      BY <1>1, <1>2 DEF AsHeld, Exact, FlagsFollow, OneOfEach
    <2> QED BY <1>2, <1>5, <1>6, <2>1 DEF FlagsFollow
  <1>8. TypedAsMeant'
    <2>1. CASE kb'.key = kb.key
      BY <1>2, <2>1 DEF TypedAsMeant
    <2>2. CASE kb'.key # kb.key
      <3>1. Ordinary(b.byte)
        BY <1>2, <1>3, <2>2, HandledFields DEF TypeOK
      <3>2. kb'.key.of = b.of /\ kb'.key.c = CharOf(FlagsOf(kb), b.byte)
        BY <1>2, <1>3, <2>2, <3>1, HandledBuffers DEF TypeOK
      <3> QED BY <1>2, <1>5, <3>1, <3>2 DEF TypedAsMeant, Right
    <2> QED BY <2>1, <2>2
  <1> QED BY <1>7, <1>8

-----------------------------------------------------------------------------
(* The order of the strokes. *)

\* A stroke fills the buffers at most once, and a release never.
LEMMA MakeOrdinary ==
  ASSUME NEW k \in DOMAIN Code, NEW m, m = Make(k),
         NEW i \in 1..Len(m), NEW j \in 1..Len(m), Ordinary(m[i]), Ordinary(m[j])
  PROVE  i = j
  <1>1. CASE k = "prtsc"
    <2>1. Len(m) = 4 /\ m[1] = \hE0 /\ m[2] = \h2A /\ m[3] = \hE0 /\ m[4] = \h37
      BY <1>1, MakeShape
    <2>2. ~Ordinary(m[1]) /\ ~Ordinary(m[2]) /\ ~Ordinary(m[3])
      BY <2>1 DEF Ordinary
    <2> QED BY <2>1, <2>2
  <1>2. CASE k # "prtsc" /\ k \in Extended
    <2>1. Len(m) = 2 /\ ~Ordinary(m[1])
      BY <1>2, MakeShape DEF Ordinary
    <2> QED BY <2>1
  <1>3. CASE k \notin Extended
    <2>1. Len(m) = 1
      BY <1>3, MakeShape
    <2> QED BY <2>1
  <1> QED BY <1>1, <1>2, <1>3

LEMMA BreakOrdinary ==
  ASSUME NEW k \in DOMAIN Code, NEW m, m = Break(k), NEW i \in 1..Len(m)
  PROVE  ~Ordinary(m[i])
  <1>0. Code[k] \in Nat
    BY CodeKinds
  <1>1. CASE k = "prtsc"
    <2>1. Len(m) = 4 /\ m[1] = \hE0 /\ m[2] = \hB7 /\ m[3] = \hE0 /\ m[4] = \hAA
      BY <1>1, BreakShape
    <2>2. ~Ordinary(m[1]) /\ ~Ordinary(m[2]) /\ ~Ordinary(m[3]) /\ ~Ordinary(m[4])
      BY <2>1 DEF Ordinary
    <2> QED BY <2>1, <2>2
  <1>2. CASE k # "prtsc" /\ k \in Extended
    <2>1. Len(m) = 2 /\ m[1] = \hE0 /\ m[2] = Code[k] + \h80
      BY <1>2, BreakShape
    <2>2. ~Ordinary(m[1]) /\ ~Ordinary(m[2])
      BY <1>0, <2>1 DEF Ordinary
    <2> QED BY <2>1, <2>2
  <1>3. CASE k \notin Extended
    <2>1. Len(m) = 1 /\ m[1] = Code[k] + \h80
      BY <1>3, BreakShape
    <2>2. ~Ordinary(m[1])
      BY <1>0, <2>1 DEF Ordinary
    <2> QED BY <2>1, <2>2
  <1> QED BY <1>1, <1>2, <1>3

\* The strokes stay in order when bytes of a new one, or of a release, are sent.
LEMMA SendOrder ==
  ASSUME TypeOK, InOrder, NEW bytes \in Seq(Nat), NEW of \in Stroke,
         wire' = wire \o Sent(bytes, of), kb' = kb, last' = last,
         strokes' \in {strokes, strokes + 1},
         \A i \in 1..Len(bytes) : Ordinary(bytes[i]) => of.n = strokes + 1 /\ of.n = strokes',
         \A i, j \in 1..Len(bytes) : Ordinary(bytes[i]) /\ Ordinary(bytes[j]) => i = j
  PROVE  InOrder' /\ wire' \in Seq(WireByte)
  <1> DEFINE u == Sent(bytes, of)
             n == Len(wire)
             v == wire \o u
  <1>1. /\ u \in Seq(WireByte) /\ Len(u) = Len(bytes) /\ n \in Nat /\ Len(u) \in Nat
        /\ \A i \in 1..Len(u) : u[i] = OnWire(bytes[i], of)
        /\ wire \in Seq(WireByte)
    BY SentFacts DEF TypeOK
  <1> HIDE DEF u
  <1>2. ASSUME NEW i \in 1..Len(u) PROVE u[i].byte = bytes[i] /\ u[i].of = of
    <2>1. u[i] = OnWire(bytes[i], of)
      BY <1>1
    <2> QED BY <2>1 DEF OnWire
  <1>3. /\ v \in Seq(WireByte) /\ Len(v) = n + Len(u)
        /\ \A i \in 1..n : v[i] = wire[i]
        /\ \A i \in (n + 1)..(n + Len(u)) : v[i] = u[i - n]
    BY <1>1, Joined
  <1>4. /\ last \in Nat /\ strokes \in Nat /\ kb.key.of.n \in Nat /\ kb.sc.of.n \in Nat
        /\ last <= strokes /\ kb.key.of.n <= strokes /\ kb.sc.of.n <= strokes
        /\ \A i \in 1..n : wire[i].of.n \in Nat
    <2>1. \A i \in 1..n : wire[i] \in WireByte
      BY <1>1
    <2> QED BY <2>1 DEF TypeOK, Driver, Slot, Stroke, WireByte, InOrder
  <1> HIDE DEF v
  <1>5. ASSUME NEW i \in 1..Len(v), Ordinary(v[i].byte)
        PROVE  /\ v[i].of.n > last /\ v[i].of.n <= strokes'
               /\ v[i].of.n > kb.key.of.n /\ v[i].of.n > kb.sc.of.n
               /\ \A j \in 1..(i - 1) : Ordinary(v[j].byte) => v[j].of.n < v[i].of.n
    <2>1. CASE i <= n
      <3>1. i \in 1..n /\ v[i] = wire[i] /\ \A j \in 1..(i - 1) : v[j] = wire[j]
        BY <1>1, <1>3, <2>1
      <3>2. /\ v[i].of.n > last /\ v[i].of.n <= strokes
            /\ v[i].of.n > kb.key.of.n /\ v[i].of.n > kb.sc.of.n
            /\ \A j \in 1..(i - 1) : Ordinary(wire[j].byte) => wire[j].of.n < v[i].of.n
        BY <1>5, <3>1 DEF InOrder
      <3>3. v[i].of.n <= strokes'
        BY <1>4, <3>1, <3>2
      <3> QED BY <3>1, <3>2, <3>3
    <2>2. CASE i > n
      <3>1. i - n \in 1..Len(u) /\ v[i] = u[i - n]
        BY <1>1, <1>3, <2>2
      <3>2. v[i].of.n = strokes + 1 /\ strokes' = strokes + 1 /\ Ordinary(bytes[i - n])
        BY <1>1, <1>2, <1>5, <3>1
      <3>3. ASSUME NEW j \in 1..(i - 1), Ordinary(v[j].byte)
            PROVE  v[j].of.n < v[i].of.n
        <4>1. CASE j <= n
          <5>1. j \in 1..n /\ v[j] = wire[j]
            BY <1>1, <1>3, <4>1
          <5>2. wire[j].of.n <= strokes
            BY <3>3, <5>1 DEF InOrder
          <5> QED BY <1>4, <3>2, <5>1, <5>2
        <4>2. CASE j > n
          <5>0. j \in (n + 1)..(n + Len(u))
            BY <1>1, <1>3, <2>2, <4>2
          <5>1. j - n \in 1..Len(u) /\ v[j] = u[j - n]
            BY <1>1, <1>3, <5>0
          <5>2. Ordinary(bytes[j - n])
            BY <1>2, <3>3, <5>1
          <5>3. j - n = i - n
            BY <1>1, <3>1, <3>2, <5>1, <5>2
          <5> QED BY <1>1, <5>3
        <4> QED BY <1>1, <4>1, <4>2
      <3>4. /\ v[i].of.n > last /\ v[i].of.n <= strokes'
            /\ v[i].of.n > kb.key.of.n /\ v[i].of.n > kb.sc.of.n
        BY <1>4, <3>2, SMTT(60)
      <3> QED BY <3>3, <3>4
    <2> QED BY <1>1, <1>3, <2>1, <2>2
  <1>6. wire' = v
    BY DEF v, u
  <1>7. last <= strokes' /\ kb.key.of.n <= strokes' /\ kb.sc.of.n <= strokes'
    BY <1>4
  <1> QED BY <1>3, <1>5, <1>6, <1>7 DEF InOrder

\* The interrupt moves the first byte's stroke to the buffers.
LEMMA HandlerOrder ==
  ASSUME TypeOK, InOrder, KeyboardHandler, last' = last
  PROVE  /\ InOrder'
         /\ kb' \in Driver /\ wire' \in Seq(WireByte)
         /\ kb'.key = kb.key \/ (kb'.key # Empty /\ kb'.key.of.n > last)
         /\ kb'.sc = kb.sc \/ (kb'.sc # Empty /\ kb'.sc.of.n > last)
  <1> DEFINE b == Head(wire)
             v == Tail(wire)
  <1>1. /\ wire # << >> /\ kb' = Handled(kb, b.byte, b.of) /\ wire' = v
        /\ UNCHANGED <<held, strokes, capsOn, odd>> /\ kb \in Driver
    BY DEF KeyboardHandler, TypeOK
  <1>2. /\ v \in Seq(WireByte) /\ Len(v) = Len(wire) - 1 /\ b = wire[1] /\ b \in WireByte
        /\ Len(wire) \in Nat /\ 1 \in 1..Len(wire)
        /\ \A i \in 1..Len(v) : v[i] = wire[i+1] /\ i + 1 \in 1..Len(wire)
    BY <1>1, HeadTailProperties DEF TypeOK
  <1>3. b.byte \in Nat /\ b.of \in Stroke
    BY <1>2 DEF WireByte
  <1>4. /\ last \in Nat /\ strokes \in Nat /\ kb.key.of.n \in Nat /\ kb.sc.of.n \in Nat
        /\ \A i \in 1..Len(wire) : wire[i].of.n \in Nat
    <2>1. \A i \in 1..Len(wire) : wire[i] \in WireByte
      BY DEF TypeOK
    <2> QED BY <2>1 DEF TypeOK, Driver, Slot, Stroke, WireByte
  <1> HIDE DEF b, v
  <1>5. /\ kb' \in Driver
        /\ kb'.key # kb.key =>
             Ordinary(b.byte) /\ kb'.key # Empty /\ kb'.key.of.n = b.of.n
        /\ kb'.sc # kb.sc =>
             Ordinary(b.byte) /\ kb'.sc # Empty /\ kb'.sc.of.n = b.of.n
    <2>1. CASE Ordinary(b.byte)
      <3>1. /\ kb' \in Driver /\ kb'.sc.of = b.of /\ kb'.sc.code = b.byte
            /\ kb'.key = kb.key \/ (kb'.key.of = b.of /\ kb'.key.c # NoChar)
        BY <1>1, <1>3, <2>1, HandledBuffers
      <3>2. b.of.n > 0
        BY <1>2, <1>4, <2>1 DEF InOrder
      <3>3. Empty.of.n = 0
        BY DEF Empty, NoStroke
      <3> QED BY <2>1, <3>1, <3>2, <3>3
    <2>2. CASE ~Ordinary(b.byte)
      BY <1>1, <1>3, <2>2, HandledFields
    <2> QED BY <2>1, <2>2
  <1>6. Ordinary(b.byte) => b.of.n > last /\ b.of.n <= strokes
    BY <1>2 DEF InOrder
  <1>7. ASSUME NEW i \in 1..Len(v), Ordinary(v[i].byte)
        PROVE  /\ v[i].of.n > last /\ v[i].of.n <= strokes
               /\ v[i].of.n > kb'.key.of.n /\ v[i].of.n > kb'.sc.of.n
               /\ \A j \in 1..(i - 1) : Ordinary(v[j].byte) => v[j].of.n < v[i].of.n
    <2>1. /\ v[i] = wire[i+1] /\ i + 1 \in 1..Len(wire) /\ 1 \in 1..((i + 1) - 1)
          /\ \A j \in 1..(i - 1) : v[j] = wire[j+1] /\ j + 1 \in 1..((i + 1) - 1)
      BY <1>2
    <2>2. /\ v[i].of.n > last /\ v[i].of.n <= strokes
          /\ v[i].of.n > kb.key.of.n /\ v[i].of.n > kb.sc.of.n
          /\ \A j \in 1..((i + 1) - 1) : Ordinary(wire[j].byte) => wire[j].of.n < v[i].of.n
      BY <1>7, <2>1 DEF InOrder
    <2> QED BY <1>2, <1>5, <2>1, <2>2
  <1> QED BY <1>1, <1>2, <1>4, <1>5, <1>6, <1>7 DEF InOrder

-----------------------------------------------------------------------------
(* The invariant, action by action. *)

LEMMA EmptyFacts == Empty \in Slot /\ Empty.of.n = 0 /\ Empty.c = Empty.of.means
  BY DEF Empty, Slot, NoStroke, Stroke, Chars, NoChar

LEMMA InitInv == Init => Inv
  <1> SUFFICES ASSUME Init PROVE Inv
    OBVIOUS
  <1>1. /\ kb = [ctrl |-> FALSE, shift |-> FALSE, caps |-> FALSE, prefix |-> FALSE,
                 key |-> Empty, sc |-> Empty]
        /\ held = {} /\ wire = << >> /\ strokes = 0 /\ capsOn = FALSE /\ odd = FALSE
        /\ last = 0 /\ iflag = TRUE /\ pc = "test" /\ prog \in {"shell", "user"}
    BY DEF Init, KbInit
  <1>2. << >> \in Seq(WireByte) /\ Len(<< >>) = 0
    BY EmptySeq
  <1>3. kb \in Driver /\ kb.key = Empty /\ kb.sc = Empty
    BY <1>1, EmptyFacts DEF Driver
  <1>4. ~kb.ctrl /\ ~kb.shift /\ ~kb.caps /\ ~kb.prefix
    BY <1>1
  <1>5. TypeOK
    BY <1>1, <1>2, <1>3 DEF TypeOK
  <1>6. FlagsFollow
    <2>1. FlagsOf(kb) \in Flags /\ Leads(FlagsOf(kb), wire, FlagsOf(kb), ~odd)
      BY <1>1, <1>3, FlagsOfFacts, LeadsStart
    <2>2. /\ FlagsOf(kb).ctrl = kb.ctrl /\ FlagsOf(kb).shift = kb.shift
          /\ FlagsOf(kb).caps = kb.caps /\ FlagsOf(kb).prefix = kb.prefix
      BY <1>3, FlagsOfFacts
    <2>3. kb.caps = FALSE
      BY <1>1
    <2>4. AsHeld(FlagsOf(kb))
      BY <1>1, <1>4, <2>2, <2>3 DEF AsHeld, Exact
    <2>5. OneOfEach
      BY <1>1 DEF OneOfEach
    <2> QED BY <2>1, <2>4, <2>5 DEF FlagsFollow
  <1>7. InOrder
    BY <1>1, <1>2, <1>3, EmptyFacts DEF InOrder
  <1>8. TypedAsMeant /\ Fresh /\ FlagOff
    BY <1>1, <1>3 DEF TypedAsMeant, Fresh, FlagOff
  <1> QED BY <1>5, <1>6, <1>7, <1>8 DEF Inv

\* The steps that leave the driver and the keyboard alone.
LEMMA QuietStep ==
  ASSUME Inv, kb' = kb, UNCHANGED keyboard,
         prog' \in {"shell", "menu", "page", "read", "user"},
         pc' \in {"test", "hlt", "halted", "take", "flush", "run"}, iflag' \in BOOLEAN,
         last' = last, Fresh', FlagOff'
  PROVE  Inv'
  <1>1. TypeOK'
    BY DEF Inv, TypeOK, keyboard
  <1>2. FlagsFollow' /\ TypedAsMeant'
    BY DEF Inv, FlagsFollow, AsHeld, Exact, OneOfEach, TypedAsMeant, keyboard
  <1>3. InOrder'
    BY DEF Inv, InOrder, keyboard
  <1> QED BY <1>1, <1>2, <1>3 DEF Inv

\* The steps that take from the buffers.
LEMMA TakeStep ==
  ASSUME Inv, UNCHANGED keyboard,
         kb' \in Driver, kb'.key \in {kb.key, Empty}, kb'.sc \in {kb.sc, Empty},
         FlagsOf(kb') = FlagsOf(kb),
         prog' \in {"shell", "menu", "page", "read", "user"},
         pc' \in {"test", "hlt", "halted", "take", "flush", "run"}, iflag' \in BOOLEAN,
         last' = last \/ last' = kb.key.of.n \/ last' = kb.sc.of.n, Fresh', FlagOff'
  PROVE  Inv'
  <1>0. /\ last \in Nat /\ strokes \in Nat /\ kb.key.of.n \in Nat /\ kb.sc.of.n \in Nat
        /\ \A i \in 1..Len(wire) : wire[i].of.n \in Nat
    <2>1. \A i \in 1..Len(wire) : wire[i] \in WireByte
      BY DEF Inv, TypeOK
    <2> QED BY <2>1 DEF Inv, TypeOK, Driver, Slot, Stroke, WireByte
  <1>1. TypeOK'
    BY <1>0 DEF Inv, TypeOK, keyboard
  <1>2. FlagsFollow'
    BY DEF Inv, FlagsFollow, AsHeld, Exact, OneOfEach, keyboard
  <1>3. TypedAsMeant'
    BY DEF Inv, TypedAsMeant, keyboard
  <1>4. InOrder'
    <2>1. kb'.key.of.n \in {kb.key.of.n, 0} /\ kb'.sc.of.n \in {kb.sc.of.n, 0}
      BY EmptyFacts
    <2>2. wire' = wire /\ strokes' = strokes /\ InOrder
      BY DEF keyboard, Inv
    <2>3. last' <= strokes /\ kb'.key.of.n <= strokes /\ kb'.sc.of.n <= strokes
      BY <1>0, <2>1, <2>2 DEF InOrder
    <2>4. ASSUME NEW i \in 1..Len(wire), Ordinary(wire[i].byte)
          PROVE  /\ wire[i].of.n > last' /\ wire[i].of.n <= strokes
                 /\ wire[i].of.n > kb'.key.of.n /\ wire[i].of.n > kb'.sc.of.n
                 /\ \A j \in 1..(i - 1) :
                      Ordinary(wire[j].byte) => wire[j].of.n < wire[i].of.n
      <3>1. /\ wire[i].of.n > last /\ wire[i].of.n <= strokes
            /\ wire[i].of.n > kb.key.of.n /\ wire[i].of.n > kb.sc.of.n
            /\ \A j \in 1..(i - 1) :
                 Ordinary(wire[j].byte) => wire[j].of.n < wire[i].of.n
        BY <2>2, <2>4 DEF InOrder
      <3> QED BY <1>0, <2>1, <3>1
    <2> QED BY <2>2, <2>3, <2>4 DEF InOrder
  <1> QED BY <1>1, <1>2, <1>3, <1>4 DEF Inv

LEMMA TakeFields ==
  ASSUME NEW k \in Driver, NEW h, h \in {TakeKey(k), TakeScancode(k), Flushed(k)}
  PROVE  /\ h \in Driver /\ FlagsOf(h) = FlagsOf(k)
         /\ h.key \in {k.key, Empty} /\ h.sc \in {k.sc, Empty}
         /\ h = TakeKey(k) => h.key = Empty /\ h.sc = k.sc
         /\ h = TakeScancode(k) => h.key = k.key /\ h.sc = Empty
         /\ h = Flushed(k) => h.key = Empty /\ h.sc = Empty
  <1>1. CASE h = TakeKey(k)
    BY <1>1, EmptyFacts DEF TakeKey, TakeScancode, Flushed, Driver, FlagsOf
  <1>2. CASE h = TakeScancode(k)
    BY <1>2, EmptyFacts DEF TakeKey, TakeScancode, Flushed, Driver, FlagsOf
  <1>3. CASE h = Flushed(k)
    BY <1>3, EmptyFacts DEF TakeKey, TakeScancode, Flushed, Driver, FlagsOf
  <1> QED BY <1>1, <1>2, <1>3

\* The step of a key: nothing else changes, and the CPU is not deaf.
LEMMA KeyStep ==
  ASSUME Inv, NEW k \in Keys, UNCHANGED convars,
         Press(k) \/ Repeat(k) \/ Release(k) \/ FakeShift(k)
  PROVE  Inv'
  <1> k \in DOMAIN Code
    BY KeyAssumption
  <1>0. TypeOK /\ FlagsFollow /\ InOrder
    BY DEF Inv
  <1>1. /\ kb' = kb /\ held' \subseteq Modifiers /\ capsOn' \in BOOLEAN /\ odd' \in BOOLEAN
        /\ ~odd' => ~odd
        /\ strokes' \in {strokes, strokes + 1}
    BY <1>0 DEF TypeOK, Press, Repeat, Release, FakeShift, Strike, Modifiers
  <1>2. prog' = prog /\ pc' = pc /\ sc' = sc /\ len' = len /\ iflag' = iflag /\ last' = last
    BY DEF convars
  <1>3. FlagsFollow'
    <2>1. CASE FakeShift(k)
      <3>1. PICK b : /\ b \in {Code[k], Code[k] + \h80}
                     /\ wire' = wire \o Sent(<<\hE0, b>>, NoStroke)
        BY <2>1 DEF FakeShift, Sends, Sent
      <3>2. k \in {"lshift", "rshift"} /\ k \in held /\ odd' = TRUE /\ held' = held
        BY <2>1 DEF FakeShift
      <3> QED BY <1>0, <1>1, <3>1, <3>2, FakeFlags
    <2> QED BY <1>0, <2>1, PressFlags, RepeatFlags, ReleaseFlags
  <1>4. InOrder' /\ wire' \in Seq(WireByte)
    <2> DEFINE of == [n |-> strokes + 1, means |-> Means(k)]
    <2>1. of \in Stroke /\ of.n = strokes + 1
      BY <1>0, StrokeType DEF TypeOK
    <2> HIDE DEF of
    <2>2. CASE strokes' = strokes + 1 /\ wire' = wire \o Sent(Make(k), of)
      <3> DEFINE m == Make(k)
      <3>1. m \in Seq(Nat)
        BY MakeShape
      <3>2. \A i, j \in 1..Len(m) : Ordinary(m[i]) /\ Ordinary(m[j]) => i = j
        BY MakeOrdinary
      <3> HIDE DEF m
      <3> QED BY <1>0, <1>1, <1>2, <2>1, <2>2, <3>1, <3>2, SendOrder DEF m
    <2>3. CASE strokes' = strokes + 1 /\ wire' = wire \o Sent(<<\hE0, \h37>>, of)
      <3> DEFINE m == <<\hE0, \h37>>
      <3>1. m \in Seq(Nat) /\ Len(m) = 2 /\ m[1] = \hE0
        OBVIOUS
      <3> HIDE DEF m
      <3>2. \A i, j \in 1..Len(m) : Ordinary(m[i]) /\ Ordinary(m[j]) => i = j
        BY <3>1 DEF Ordinary
      <3> QED BY <1>0, <1>1, <1>2, <2>1, <2>3, <3>1, <3>2, SendOrder DEF m
    <2>4. CASE strokes' = strokes /\ wire' = wire \o Sent(Break(k), NoStroke)
      <3> DEFINE m == Break(k)
      <3>1. m \in Seq(Nat)
        BY BreakShape
      <3>2. \A i \in 1..Len(m) : ~Ordinary(m[i])
        BY BreakOrdinary
      <3> HIDE DEF m
      <3> QED BY <1>0, <1>1, <1>2, <2>4, <3>1, <3>2, NoStrokeType, SendOrder DEF m
    <2>5. Press(k) => strokes' = strokes + 1 /\ wire' = wire \o Sent(Make(k), of)
      BY DEF Press, Strike, Sends, Sent, of
    <2>6. Repeat(k) => strokes' = strokes + 1
                       /\ wire' = wire \o Sent(IF k = "prtsc" THEN <<\hE0, \h37>>
                                               ELSE Make(k), of)
      BY DEF Repeat, Strike, Sends, Sent, of
    <2>7. Release(k) => strokes' = strokes /\ wire' = wire \o Sent(Break(k), NoStroke)
      BY DEF Release, Sends, Sent
    <2>8. CASE FakeShift(k)
      <3>1. PICK b : /\ b \in {Code[k], Code[k] + \h80} /\ k \in {"lshift", "rshift"}
                     /\ wire' = wire \o Sent(<<\hE0, b>>, NoStroke)
        BY <2>8 DEF FakeShift, Sends, Sent
      <3> DEFINE m == <<\hE0, b>>
      <3>2. ~Ordinary(b) /\ ~Ordinary(\hE0) /\ b \in Nat
        BY <3>1 DEF Code, Ordinary
      <3>3. m \in Seq(Nat) /\ \A i \in 1..Len(m) : ~Ordinary(m[i])
        BY <3>2
      <3> HIDE DEF m
      <3> QED BY <1>0, <1>1, <1>2, <3>1, <3>3, NoStrokeType, SendOrder DEF m
    <2> QED BY <2>2, <2>3, <2>4, <2>5, <2>6, <2>7, <2>8
  <1>5. TypeOK'
    BY <1>0, <1>1, <1>2, <1>4 DEF TypeOK
  <1>6. TypedAsMeant' /\ Fresh' /\ FlagOff'
    BY <1>1, <1>2 DEF Inv, TypedAsMeant, Fresh, Avail, FlagOff
  <1> QED BY <1>3, <1>4, <1>5, <1>6 DEF Inv

LEMMA NextInv == Inv /\ [Next]_vars => Inv'
  <1> SUFFICES ASSUME Inv, [Next]_vars PROVE Inv'
    OBVIOUS
  <1>0. /\ TypeOK /\ Fresh /\ FlagOff /\ kb \in Driver
        /\ last \in Nat /\ kb.key.of.n \in Nat /\ kb.sc.of.n \in Nat
    BY DEF Inv, TypeOK, Driver, Slot, Stroke
  <1>1. CASE Test
    <2>1. kb' = kb /\ UNCHANGED keyboard /\ prog' = prog /\ iflag' = iflag /\ last' = last
          /\ len' = len
      BY <1>1 DEF Test, kbvars
    <2>2. Fresh' /\ FlagOff' /\ pc' \in {"hlt", "take"}
      BY <1>0, <1>1, <2>1 DEF Test, Fresh, FlagOff, Avail
    <2> QED BY <1>0, <2>1, <2>2, QuietStep DEF TypeOK
  <1>2. CASE Hlt
    <2>1. kb' = kb /\ UNCHANGED keyboard /\ prog' = prog /\ iflag' = iflag /\ last' = last
          /\ len' = len
      BY <1>2 DEF Hlt, kbvars
    <2>2. Fresh' /\ FlagOff' /\ pc' = "halted"
      BY <1>0, <1>2, <2>1 DEF Hlt, Fresh, FlagOff, Avail
    <2> QED BY <1>0, <2>1, <2>2, QuietStep DEF TypeOK
  <1>3. CASE Tick
    <2>1. kb' = kb /\ UNCHANGED keyboard /\ prog' = prog /\ iflag' = iflag /\ last' = last
          /\ len' = len
      BY <1>3 DEF Tick, kbvars
    <2>2. Fresh' /\ FlagOff' /\ pc' = "test"
      BY <1>0, <1>3, <2>1 DEF Tick, Fresh, FlagOff, Avail, Awake
    <2> QED BY <1>0, <2>1, <2>2, QuietStep DEF TypeOK
  <1>4. CASE SysRead
    <2>1. /\ kb' = kb /\ UNCHANGED keyboard /\ prog' = "read" /\ iflag' = FALSE
          /\ last' = last /\ prog = "user" /\ len' = 0
      BY <1>4 DEF SysRead, kbvars
    <2>2. Fresh' /\ FlagOff' /\ pc' \in {"take", "halted"}
      BY <1>0, <1>4, <2>1 DEF SysRead, Fresh, FlagOff, Avail
    <2> QED BY <1>0, <2>1, <2>2, QuietStep
  <1>5. CASE Irq1
    <2>1. /\ iflag /\ KeyboardHandler /\ iflag' = iflag /\ last' = last /\ prog' = prog
          /\ pc' = Awake /\ len' = len
      BY <1>5 DEF Irq1
    <2>2. FlagsFollow' /\ TypedAsMeant'
      BY <2>1, HandlerFlags DEF Inv
    <2>3. /\ InOrder' /\ kb' \in Driver /\ wire' \in Seq(WireByte)
          /\ kb'.key = kb.key \/ (kb'.key # Empty /\ kb'.key.of.n > last)
          /\ kb'.sc = kb.sc \/ (kb'.sc # Empty /\ kb'.sc.of.n > last)
      BY <2>1, HandlerOrder DEF Inv
    <2>4. TypeOK'
      BY <1>0, <2>1, <2>3 DEF TypeOK, KeyboardHandler, Awake
    <2>5. Fresh' /\ FlagOff'
      BY <1>0, <2>1, <2>3 DEF Fresh, FlagOff, Avail, Awake
    <2> QED BY <2>2, <2>3, <2>4, <2>5 DEF Inv
  <1>6. CASE ShellTakes
    <2>1. /\ kb' = TakeKey(kb) /\ last' = kb.key.of.n /\ UNCHANGED keyboard
          /\ iflag' = TRUE /\ prog' = "shell"
          /\ pc' = "test" \/ (pc' = "run" /\ len' = 0)
      BY <1>6 DEF ShellTakes, Sti
    <2>2. kb' \in Driver /\ FlagsOf(kb') = FlagsOf(kb) /\ kb'.key = Empty /\ kb'.sc = kb.sc
      BY <1>0, <2>1, TakeFields
    <2>3. Fresh' /\ FlagOff'
      BY <1>0, <2>1, <2>2 DEF Fresh, FlagOff, Avail
    <2> QED BY <1>0, <2>1, <2>2, <2>3, TakeStep DEF TypeOK
  <1>7. CASE ReadTakes
    <2>1. /\ kb' = TakeKey(kb) /\ last' = kb.key.of.n /\ UNCHANGED keyboard
          /\ iflag' = TRUE /\ prog' \in {"user", "read"} /\ pc' = "test"
      BY <1>7 DEF ReadTakes, Sti
    <2>2. kb' \in Driver /\ FlagsOf(kb') = FlagsOf(kb) /\ kb'.key = Empty /\ kb'.sc = kb.sc
      BY <1>0, <2>1, TakeFields
    <2>3. Fresh' /\ FlagOff'
      BY <1>0, <2>1, <2>2 DEF Fresh, FlagOff, Avail
    <2> QED BY <1>0, <2>1, <2>2, <2>3, TakeStep DEF TypeOK
  <1>8. CASE MenuTakes
    <2>1. /\ kb' = TakeScancode(kb) /\ last' = kb.sc.of.n /\ UNCHANGED keyboard
          /\ iflag' = TRUE /\ prog' = prog /\ prog \in {"menu", "page"} /\ pc' = "flush"
      BY <1>8 DEF MenuTakes, Sti
    <2>2. kb' \in Driver /\ FlagsOf(kb') = FlagsOf(kb) /\ kb'.key = kb.key /\ kb'.sc = Empty
      BY <1>0, <2>1, TakeFields
    <2>3. Fresh' /\ FlagOff'
      BY <1>0, <2>1, <2>2 DEF Fresh, FlagOff, Avail
    <2> QED BY <1>0, <2>1, <2>2, <2>3, TakeStep DEF TypeOK
  <1>9. CASE MenuFlushes
    <2>1. /\ kb' = Flushed(kb) /\ last' = last /\ UNCHANGED keyboard
          /\ iflag' = iflag /\ prog \in {"menu", "page"} /\ pc' = "test"
      BY <1>0, <1>9 DEF MenuFlushes, Fresh, TypeOK
    <2>2. prog' \in {"shell", "menu", "page"}
      BY <1>9, <2>1 DEF MenuFlushes, AfterKey
    <2>3. kb' \in Driver /\ FlagsOf(kb') = FlagsOf(kb) /\ kb'.key = Empty /\ kb'.sc = Empty
      BY <1>0, <2>1, TakeFields
    <2>4. Fresh' /\ FlagOff'
      BY <1>0, <2>1, <2>2, <2>3 DEF Fresh, FlagOff, Avail
    <2> QED BY <1>0, <2>1, <2>2, <2>3, <2>4, TakeStep DEF TypeOK
  <1>10. ASSUME NEW k \in Keys, UNCHANGED convars,
                Press(k) \/ Repeat(k) \/ Release(k) \/ FakeShift(k)
         PROVE  Inv'
    BY <1>10, KeyStep
  <1>12. CASE Command
    <2>1. /\ kb' = kb /\ UNCHANGED keyboard /\ last' = last /\ len' = len
          /\ prog = "shell" /\ len = 0 /\ iflag' \in BOOLEAN
          /\ \/ prog' = "shell" /\ pc' = "test"
             \/ prog' = "menu" /\ pc' = "flush" /\ iflag' = iflag
      BY <1>0, <1>12 DEF Command, FlagOff, TypeOK, kbvars
    <2>2. Fresh' /\ FlagOff'
      BY <1>0, <1>12, <2>1 DEF Command, Fresh, FlagOff, Avail
    <2> QED BY <2>1, <2>2, QuietStep
  <1>11. CASE UNCHANGED vars
    <2>1. /\ kb' = kb /\ UNCHANGED keyboard /\ prog' = prog /\ pc' = pc /\ iflag' = iflag
          /\ last' = last /\ len' = len
      BY <1>11 DEF vars, kbvars, convars
    <2>2. Fresh' /\ FlagOff'
      BY <1>0, <2>1 DEF Fresh, FlagOff, Avail
    <2> QED BY <1>0, <2>1, <2>2, QuietStep DEF TypeOK
  <1> QED BY <1>1, <1>2, <1>3, <1>4, <1>5, <1>6, <1>7, <1>8, <1>9, <1>10, <1>11,
          <1>12 DEF Next, Main

LEMMA InvAlways == Spec => []Inv
  BY InitInv, NextInv, PTL DEF Spec

-----------------------------------------------------------------------------
(***************************************************************************)
(* With any keys, pressed and released in any order and number, and any    *)
(* delay of the interrupts: once keyboard_handler has seen every byte, its *)
(* shift and ctrl flags are those of the keys that are held, and its caps  *)
(* flag is the one the user counts, unless the keys were used oddly; and a *)
(* flag is never left set when no such key is down.                        *)
(***************************************************************************)
THEOREM FlagsFollowTheKeys == Spec => []ModifiersTrue
  <1>1. Inv => ModifiersTrue
    <2> SUFFICES ASSUME Inv, wire = << >>
                 PROVE  /\ ~kb.prefix
                        /\ kb.shift => held \cap ShiftLike # {}
                        /\ kb.ctrl => held \cap Ctrls # {}
                        /\ ~odd => /\ kb.shift = (held \cap ShiftLike # {})
                                   /\ kb.ctrl = (held \cap Ctrls # {})
                                   /\ kb.caps = capsOn
      BY DEF ModifiersTrue
    <2>1. AsHeld(FlagsOf(kb))
      BY LeadsNowhere DEF Inv, FlagsFollow
    <2>2. /\ FlagsOf(kb).ctrl = kb.ctrl /\ FlagsOf(kb).shift = kb.shift
          /\ FlagsOf(kb).caps = kb.caps /\ FlagsOf(kb).prefix = kb.prefix
          /\ kb.shift \in BOOLEAN /\ kb.ctrl \in BOOLEAN
      BY FlagsOfFacts DEF Inv, TypeOK, Driver
    <2>3. /\ ~kb.prefix
          /\ kb.shift => held \cap ShiftLike # {}
          /\ kb.ctrl => held \cap Ctrls # {}
          /\ ~odd => /\ kb.shift <=> held \cap ShiftLike # {}
                     /\ kb.ctrl <=> held \cap Ctrls # {}
                     /\ kb.caps = capsOn
      BY <2>1, <2>2 DEF AsHeld, Exact
    <2>4. ~odd => kb.shift = (held \cap ShiftLike # {})
      BY <2>2, <2>3
    <2>5. ~odd => kb.ctrl = (held \cap Ctrls # {})
      BY <2>2, <2>3
    <2> QED BY <2>3, <2>4, <2>5
  <1> QED BY <1>1, InvAlways, PTL

(***************************************************************************)
(* The character in the buffer is the one its stroke meant when the key    *)
(* was struck, although keyboard_handler makes it from flags it reads only *)
(* when the interrupt comes.                                               *)
(***************************************************************************)
THEOREM CharactersAreMeant == Spec => []TypedAsMeant
  <1>1. Inv => TypedAsMeant
    BY DEF Inv
  <1> QED BY <1>1, InvAlways, PTL

(***************************************************************************)
(* keyboard_getchar and keyboard_get_scancode deliver every stroke at most *)
(* once and in the order of the keys, although each reads a buffer of its  *)
(* own, any number of strokes overwrites them, and the programs change at  *)
(* any moment: the flushes of tui_test are where they have to be.          *)
(***************************************************************************)
THEOREM StrokesAreDeliveredOnce == Spec => DeliveredOnce
  <1>1. Inv /\ [Next]_vars => [(ShellTakes \/ MenuTakes \/ ReadTakes) => last' > last]_vars
    <2> SUFFICES ASSUME Inv, ShellTakes \/ MenuTakes \/ ReadTakes PROVE last' > last
      OBVIOUS
    <2>1. CASE ShellTakes \/ ReadTakes
      BY <2>1 DEF ShellTakes, ReadTakes, Inv, Fresh, Avail
    <2>2. CASE MenuTakes
      BY <2>2 DEF MenuTakes, Inv, Fresh, Avail
    <2> QED BY <2>1, <2>2
  <1> QED BY <1>1, InvAlways, PTL DEF Spec, DeliveredOnce

(***************************************************************************)
(* The machine stops hearing its keyboard in one way only: a reader that   *)
(* was entered with the interrupt flag off (by int 0x80, or by a command   *)
(* that returned so) finds no key and halts.  No later wait of that reader *)
(* and no wait of the menu gets there, whatever was typed in between.      *)
(***************************************************************************)
THEOREM DeafInFirstWaitOnly == Spec => []DeafOnlyAtStart
  <1>1. Inv => DeafOnlyAtStart
    BY DEF Inv, FlagOff, DeafOnlyAtStart, Deaf, Avail
  <1> QED BY <1>1, InvAlways, PTL
=============================================================================
