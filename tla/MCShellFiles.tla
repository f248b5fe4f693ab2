---------------------------- MODULE MCShellFiles ----------------------------
(* Two slots and three names that fit a slot: the table fills up, slots and *)
(* names are reused, and bodies are longer and shorter than a slot's data.  *)
(* Names are only compared, so they are interchangeable.                    *)
EXTENDS ShellFiles, TLC

MCNameCut == [n \in Names |-> n]
MCBodies == { << >>, <<1>>, <<1, 2, 2>> }
MCSymmetry == Permutations(Names)
=============================================================================
