------------------------------ MODULE TextBuffer ------------------------------
(***************************************************************************)
(* What a text editor promises about the text: it is the part before the   *)
(* cursor and the part after it, and a key types one character at the      *)
(* cursor, erases the one before it, or moves the cursor through a text    *)
(* that stays the same.  Opening a file and leaving are the only others.  *)
(***************************************************************************)
EXTENDS Sequences, SequencesExt

CONSTANT Chars      \* the characters, the line end among them

VARIABLES before, after,
          open      \* FALSE while no text is being edited

bvars == <<before, after, open>>

Load == ~open /\ open' /\ before' = << >>

Close == open /\ ~open' /\ before' = << >> /\ after' = << >>

Type == open' /\ \E c \in Chars : before' = Append(before, c) /\ after' = after

Erase == open' /\ before # << >> /\ before' = Front(before) /\ after' = after

Move == open' /\ before' \o after' = before \o after

BInit == ~open /\ before = << >> /\ after = << >>

BNext == Load \/ Close \/ (open /\ (Type \/ Erase \/ Move))

BSpec == BInit /\ [][BNext]_bvars
=============================================================================
