------------------------------- MODULE MCEditor -------------------------------
(* Three lines of at most two characters and a screen of two lines, so that *)
(* lines and the text fill up and the screen scrolls; files of the shell    *)
(* have lines too long, too many lines, and line ends at the end.           *)
EXTENDS Editor, TLC

MCNameCut == [n \in Names |-> n]
MCSymmetry == Permutations(Names)
MCBodies == { <<1, 1, 1, 10>>, <<10, 1, 10, 10, 1>> }
=============================================================================
