------------------------------- MODULE MCFat16 -------------------------------
(* Four clusters and three directory entries.  The image holds a file of    *)
(* two clusters, one of them at the mark that ends a walk, or a volume      *)
(* label and a file below it, or nothing; the directory and the volume      *)
(* fill up, and the two entries of the cache run out.                       *)
EXTENDS Fat16

Unused == [mark |-> "end", name |-> "x", label |-> FALSE, first |-> 0, size |-> 0]
File(n, c, k) == [mark |-> "live", name |-> n, label |-> FALSE,
                  first |-> c, size |-> k]
Label == [mark |-> "live", name |-> "VOL", label |-> TRUE, first |-> 0, size |-> 0]
Fat(links) == [c \in Clusters |-> IF c \in DOMAIN links THEN links[c] ELSE 0]

MCImages ==
  { [fat |-> Fat(<<0, 0, 0, 5, EofMark>>), dir |-> <<File("A", 4, 2), Unused, Unused>>,
     chains |-> <<<<4, 5>>, << >>, << >>>>],
    [fat |-> Fat(<<0, EofMark, 2>>), dir |-> <<Label, File("A", 3, 2), Unused>>,
     chains |-> <<<< >>, <<3, 2>>, << >>>>],
    [fat |-> Fat(<< >>), dir |-> <<Unused, Unused, Unused>>,
     chains |-> <<<< >>, << >>, << >>>>] }

\* Names of the 8.3 form: one entry, one cache name, one spelling each.
MCParse == [n \in Names |-> IF n = "a" THEN "A" ELSE IF n = "b" THEN "B" ELSE "C"]
MCUnparse == [s \in {"A", "B", "C", "VOL", "x"} |-> s]
=============================================================================
