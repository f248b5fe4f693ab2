-------------------------------- MODULE Editor --------------------------------
(***************************************************************************)
(* The text editor, src/tools/editor.c, on the in-memory file system.      *)
(* Lines are sequences of characters, and only the line_count lines in use *)
(* are kept.  One action is one turn of the loop of editor_run: a key is   *)
(* handled, then scroll_y follows the cursor.  Between two sessions the    *)
(* shell writes and removes files.  Drawing is left out.                   *)
(***************************************************************************)
EXTENDS Tmpfs, SequencesExt

CONSTANTS EDITOR_MAX_LINES, EDITOR_LINE_LEN, CONTENT_H,
          Printable,      \* characters typed, bytes of files
          NL              \* the byte that ends a line

ASSUME EditorAssumption == /\ EDITOR_MAX_LINES \in Nat \ {0}
                           /\ EDITOR_LINE_LEN \in Nat \ {0}
                           /\ CONTENT_H \in Nat \ {0} /\ NL \notin Printable
                           /\ TMPFS_DATA_SIZE > 0
                           /\ Printable \cup {NL} \subseteq Nat
                           /\ Bodies \subseteq Seq(Printable \cup {NL})

VARIABLES ed,       \* lines, cursor_x, cursor_y, scroll_y, filename, modified, running
          base,     \* the text last loaded, or reported as saved
          status    \* the bytes the last save reported, or NoSave

evars == <<vars, ed, base, status>>
NoSave == -1

Line(e, i) == e.lines[i + 1]              \* ed.lines[i], from 0
Strlen(e) == Len(Line(e, e.cursor_y))
LineCount(e) == Len(e.lines)
Fresh(name) == [lines |-> << << >> >>, cursor_x |-> 0, cursor_y |-> 0,
                scroll_y |-> 0, filename |-> name, modified |-> FALSE,
                running |-> TRUE]

\* The lines as one text: a line end between two lines.
Join(ls) == LET upTo[n \in DOMAIN ls] == IF n = 1 THEN ls[1]
                                         ELSE upTo[n - 1] \o <<NL>> \o ls[n]
            IN  upTo[Len(ls)]

EInit == /\ Init /\ base = << >> /\ status = NoSave
         /\ ed = [Fresh(NoFile) EXCEPT !.running = FALSE]

-----------------------------------------------------------------------------
\* The loop of editor_open over the bytes read: long lines are cut, lines past
\* the last are dropped, and so is an empty line after the last line end.
Take(a, b) ==
  CASE Len(a.ls) = EDITOR_MAX_LINES -> a
    [] Len(a.ls) < EDITOR_MAX_LINES /\ b = NL ->
         [ls |-> Append(a.ls, a.cur), cur |-> << >>]
    [] OTHER -> IF Len(a.cur) < EDITOR_LINE_LEN - 1
                THEN [a EXCEPT !.cur = Append(@, b)] ELSE a
Nothing == [ls |-> << >>, cur |-> << >>]
SplitLines(buf) ==
  LET upTo[n \in 0..Len(buf)] == IF n = 0 THEN Nothing ELSE Take(upTo[n - 1], buf[n])
      a == upTo[Len(buf)]
  IN  IF a.cur # << >> \/ a.ls = << >> THEN Append(a.ls, a.cur) ELSE a.ls

Start(e) == ed' = e /\ base' = Join(e.lines) /\ status' = NoSave

\* editor_open; without memory the text is empty whatever the file holds
EditorOpen(n, memory) ==
  LET r == TmpfsRead(fs, n, TMPFS_DATA_SIZE - 1)
  IN  /\ ~ed.running
      /\ Start(IF memory /\ r.ret > 0
               THEN [Fresh(n) EXCEPT !.lines = SplitLines(r.buf)] ELSE Fresh(n))
      /\ UNCHANGED vars

EditorNew == ~ed.running /\ Start(Fresh(NoFile)) /\ UNCHANGED vars

-----------------------------------------------------------------------------
\* editor_insert_char; the cursor is on an existing line (CursorInText)
Insert_Unmarked(e, c) ==
  LET l == Line(e, e.cursor_y)
  IN  IF Len(l) >= EDITOR_LINE_LEN - 1 THEN e
      ELSE [e EXCEPT !.lines[e.cursor_y + 1] = InsertAt(l, e.cursor_x + 1, c),
                     !.cursor_x = @ + 1]
Insert(e, c) ==
  LET l == Line(e, e.cursor_y)
  IN  IF Len(l) >= EDITOR_LINE_LEN - 1 THEN e
      ELSE [e EXCEPT !.lines[e.cursor_y + 1] = InsertAt(l, e.cursor_x + 1, c),
                     !.cursor_x = @ + 1, !.modified = TRUE]

\* if (prev_len + cur_len < EDITOR_LINE_LEN)
Joins(a, b) == Len(a) + Len(b) < EDITOR_LINE_LEN

\* editor_delete_char
DeleteChar(e) ==
  LET y == e.cursor_y
      prev == Line(e, y - 1)
  IN  CASE e.cursor_x > 0 ->
             [e EXCEPT !.lines[y + 1] = RemoveAt(@, e.cursor_x),
                       !.cursor_x = @ - 1, !.modified = TRUE]
        [] e.cursor_x = 0 /\ y > 0 ->
             IF Joins(prev, Line(e, y))
             THEN [e EXCEPT !.lines = RemoveAt([@ EXCEPT ![y] = prev \o Line(e, y)],
                                               y + 1),
                            !.cursor_y = y - 1, !.cursor_x = Len(prev),
                            !.modified = TRUE]
             ELSE e
        [] OTHER -> e

\* editor_newline
CutLine_Whole(l, x) == l
CutLine(l, x) == SubSeq(l, 1, x)
Newline(e) ==
  LET y == e.cursor_y
      l == Line(e, y)
  IN  IF LineCount(e) >= EDITOR_MAX_LINES THEN e
      ELSE [e EXCEPT !.lines = InsertAt([@ EXCEPT ![y + 1] = CutLine(l, e.cursor_x)],
                                        y + 2, SubSeq(l, e.cursor_x + 1, Len(l))),
                     !.cursor_y = y + 1, !.cursor_x = 0, !.modified = TRUE]

\* if (ed.cursor_x > strlen(line)) ed.cursor_x = strlen(line)
Clamp_No(e) == e
Clamp(e) == [e EXCEPT !.cursor_x = IF @ > Strlen(e) THEN Strlen(e) ELSE @]
ToLine(e, y) == Clamp([e EXCEPT !.cursor_y = y])

Up(e) == IF e.cursor_y > 0 THEN ToLine(e, e.cursor_y - 1) ELSE e
Down(e) == IF e.cursor_y < LineCount(e) - 1 THEN ToLine(e, e.cursor_y + 1) ELSE e
Left(e) ==
  CASE e.cursor_x > 0 -> [e EXCEPT !.cursor_x = @ - 1]
    [] e.cursor_x = 0 /\ e.cursor_y > 0 ->
         [e EXCEPT !.cursor_y = @ - 1, !.cursor_x = Len(Line(e, e.cursor_y - 1))]
    [] OTHER -> e
Right(e) ==
  CASE e.cursor_x < Strlen(e) -> [e EXCEPT !.cursor_x = @ + 1]
    [] e.cursor_x = Strlen(e) /\ e.cursor_y < LineCount(e) - 1 ->
         [e EXCEPT !.cursor_y = @ + 1, !.cursor_x = 0]
    [] OTHER -> e
Home(e) == [e EXCEPT !.cursor_x = 0]
End(e) == [e EXCEPT !.cursor_x = Strlen(e)]
PgUp(e) ==
  LET y == IF e.cursor_y < CONTENT_H THEN 0 ELSE e.cursor_y - CONTENT_H
  IN  ToLine([e EXCEPT !.scroll_y = IF y > CONTENT_H THEN y - CONTENT_H + 1 ELSE 0], y)
PgDn(e) ==
  LET y == Shorter(e.cursor_y + CONTENT_H, LineCount(e) - 1)
  IN  ToLine([e EXCEPT !.scroll_y = y], y)

\* The end of each turn of the loop.
Scroll(e) ==
  [e EXCEPT !.scroll_y = CASE e.cursor_y < @ -> e.cursor_y
                           [] e.cursor_y >= @ + CONTENT_H -> e.cursor_y - CONTENT_H + 1
                           [] OTHER -> @]

Turn(e) == /\ ed.running /\ ed' = Scroll(e)
           /\ UNCHANGED <<vars, base, status>>

Typed == \E c \in Printable : Turn(Insert(ed, c))
Enter == Turn(Newline(ed))
Backspace == Turn(DeleteChar(ed))
Arrow == Turn(Up(ed)) \/ Turn(Down(ed)) \/ Turn(Left(ed)) \/ Turn(Right(ed))
Jump == Turn(Home(ed)) \/ Turn(End(ed)) \/ Turn(PgUp(ed)) \/ Turn(PgDn(ed))

\* Ctrl+Q.  What is left of ed is dropped: editor_open and editor_new, the
\* only ways back, clear it before they use it.
NoSession == [Fresh(NoFile) EXCEPT !.running = FALSE]
Quit == /\ ed.running /\ ed' = NoSession /\ base' = << >> /\ status' = NoSave
        /\ UNCHANGED vars

\* if (pos > 0)
Writes_Two(text) == Len(text) > 1
Writes(text) == Len(text) > 0

(***************************************************************************)
(* editor_save: the old file is deleted, the text written unless it is     *)
(* empty; what tmpfs_write returns is ignored and the length of the text   *)
(* reported as saved.  Nothing happens without a file name or memory.      *)
(***************************************************************************)
Save(memory) ==
  LET text == Join(ed.lines)
      d == TmpfsDelete(fs, ed.filename)
      w == TmpfsWrite(d.fs, ed.filename, text)
  IN  /\ ed.running
      /\ IF ed.filename = NoFile \/ ~memory
         THEN UNCHANGED <<vars, base, status>> /\ ed' = Scroll(ed)
         ELSE /\ IF Writes(text) THEN Returns(w) ELSE Returns(d)
              /\ status' = Len(text) /\ base' = text
              /\ ed' = Scroll([ed EXCEPT !.modified = FALSE])

\* The shell, between two sessions.
Shell == /\ ~ed.running /\ UNCHANGED <<ed, base, status>>
         /\ \E n \in Names : Delete(n) \/ \E data \in Bodies : Write(n, data)

ENext == \/ EditorNew \/ \E n \in Names, memory \in BOOLEAN : EditorOpen(n, memory)
         \/ Typed \/ Enter \/ Backspace \/ Arrow \/ Jump \/ Quit
         \/ \E memory \in BOOLEAN : Save(memory)
         \/ Shell

ESpec == EInit /\ [][ENext]_evars

-----------------------------------------------------------------------------
ETypeOK ==
  /\ ed.lines # << >> /\ LineCount(ed) <= EDITOR_MAX_LINES
  /\ \A i \in DOMAIN ed.lines : /\ Len(ed.lines[i]) < EDITOR_LINE_LEN
                                /\ ToSet(ed.lines[i]) \subseteq Printable
  /\ ed.scroll_y \in Nat /\ {ed.modified, ed.running} \subseteq BOOLEAN

(***************************************************************************)
(* Lines and text fit their arrays.                                        *)
(* The cursor is always on a line of the text and not past its end, so no  *)
(* key reads or writes outside the lines in use, and it is on the screen:  *)
(* the line of the cursor is one of the CONTENT_H lines drawn.             *)
(***************************************************************************)
CursorInText ==
  /\ ETypeOK
  /\ ed.cursor_y \in 0..(LineCount(ed) - 1) /\ ed.cursor_x \in 0..Strlen(ed)
  /\ ed.cursor_y - ed.scroll_y \in 0..(CONTENT_H - 1)

(***************************************************************************)
(* While no '*' is shown (modified is 0) the text is the one last loaded   *)
(* or reported as saved.                                                   *)
(***************************************************************************)
CleanMeansSame == (ed.running /\ ~ed.modified) => Join(ed.lines) = base

\* The text up to the cursor, and from it on.
Before == LET t == SubSeq(ed.lines, 1, ed.cursor_y + 1)
          IN  Join([t EXCEPT ![ed.cursor_y + 1] = SubSeq(@, 1, ed.cursor_x)])
After == LET t == SubSeq(ed.lines, ed.cursor_y + 1, LineCount(ed))
         IN  Join([t EXCEPT ![1] = SubSeq(@, ed.cursor_x + 1, Len(@))])

Buffer == INSTANCE TextBuffer WITH Chars <- Printable \cup {NL},
            before <- IF ed.running THEN Before ELSE << >>,
            after <- IF ed.running THEN After ELSE << >>,
            open <- ed.running

(***************************************************************************)
(* Every key types one character at the cursor, erases the one before it,  *)
(* or moves the cursor through the same text: lines that are split, joined *)
(* and shifted never lose, repeat or reorder text.                         *)
(***************************************************************************)
ImplementsTextBuffer == Buffer!BSpec

(***************************************************************************)
(* After "Saved %d bytes to %s" the file holds the text as it was at that  *)
(* save, whatever is typed since: cut to TMPFS_DATA_SIZE bytes, no file    *)
(* for an empty text.  There is one exception, which editor_save does not  *)
(* notice: the file was new and the table of files full.                   *)
(***************************************************************************)
SavedIsStored ==
  (ed.running /\ status # NoSave) =>
    \/ Content[ed.filename] = IF base = << >> THEN NoFile
                              ELSE SubSeq(base, 1, WriteSize(base))
    \/ Content[ed.filename] = NoFile /\ fs.count = TMPFS_MAX_FILES
=============================================================================
