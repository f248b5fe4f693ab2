------------------------------- MODULE FlatFs -------------------------------
(***************************************************************************)
(* What a flat in-memory file system promises: a bounded set of named      *)
(* files, each a string of at most DataSize bytes.                         *)
(***************************************************************************)
EXTENDS Integers, Sequences, FiniteSets

CONSTANTS Names, Bodies, BufLens,
          MaxFiles, DataSize,
          NoFile      \* content of a name under which there is no file

VARIABLES content, reply

fsvars == <<content, reply>>

Least(a, b) == IF a <= b THEN a ELSE b
Cut(bytes, n) == [i \in 1..Least(Len(bytes), n) |-> bytes[i]]

\* There is a file n, or room for one; the files after data is written to n.
Room(n) == \/ content[n] # NoFile
           \/ Cardinality({m \in Names : content[m] # NoFile}) < MaxFiles
Written(n, data) == IF Room(n) THEN [content EXCEPT ![n] = Cut(data, DataSize)]
                    ELSE content
Size(n, data) == IF Room(n) THEN Least(Len(data), DataSize) ELSE -1

FInit == /\ content = [n \in Names |-> NoFile]
         /\ reply = [ret |-> 0, buf |-> << >>]

Answer(ret, buf) == reply' = [ret |-> ret, buf |-> buf]

FCreate(n) ==
  IF content[n] # NoFile THEN Answer(0, << >>) /\ UNCHANGED content
  ELSE Answer(IF Room(n) THEN 0 ELSE -1, << >>) /\ content' = Written(n, << >>)

FWrite(n, data) == Answer(Size(n, data), << >>) /\ content' = Written(n, data)

FRead(n, max_size) ==
  /\ IF content[n] = NoFile THEN Answer(-1, << >>)
     ELSE Answer(Least(Len(content[n]), max_size), Cut(content[n], max_size))
  /\ UNCHANGED content

FDelete(n) ==
  IF content[n] = NoFile THEN Answer(-1, << >>) /\ UNCHANGED content
  ELSE Answer(0, << >>) /\ content' = [content EXCEPT ![n] = NoFile]

\* A copy is a read and a write, a move deletes the source as well; without
\* room for the destination a copy does nothing and a move only deletes.
FCopy(src, dst) ==
  /\ content[src] # NoFile /\ content' = Written(dst, content[src])
  /\ Answer(Size(dst, content[src]), << >>)

FMove(src, dst) ==
  /\ content[src] # NoFile /\ Answer(0, << >>)
  /\ content' = [Written(dst, content[src]) EXCEPT ![src] = NoFile]

FNext == \/ \E n \in Names :
              \/ FCreate(n)
              \/ \E data \in Bodies : FWrite(n, data)
              \/ \E max_size \in BufLens : FRead(n, max_size)
              \/ FDelete(n)
         \/ \E src, dst \in Names : FCopy(src, dst) \/ FMove(src, dst)

FSpec == FInit /\ [][FNext]_fsvars
=============================================================================
