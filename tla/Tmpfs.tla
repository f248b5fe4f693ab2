-------------------------------- MODULE Tmpfs --------------------------------
(***************************************************************************)
(* The in-memory file system, src/fs/tmpfs.c: a table of TMPFS_MAX_FILES   *)
(* slots and the counter file_count.  The calls are operators on the state *)
(* [files, count] that give the new state and the value returned, so that  *)
(* the shell commands, which make several of them, can be built from them. *)
(*                                                                         *)
(* A name is a member of Names.  Names longer than a slot's name array are *)
(* stored cut: Stored(n) is what strncpy leaves of n in the slot, and only *)
(* that is compared afterwards.  A slot's data array keeps old bytes past  *)
(* its size after a write (a creation clears it).                          *)
(***************************************************************************)
EXTENDS Integers, Sequences, FiniteSets

CONSTANTS TMPFS_MAX_FILES, TMPFS_DATA_SIZE,
          Names, NameCut, \* NameCut[n]: n cut to TMPFS_NAME_LEN - 1 characters
          Bodies,         \* byte strings callers write
          BufLens,        \* buffer sizes of reads
          NoFile

ASSUME TableAssumption == /\ TMPFS_MAX_FILES \in Nat \ {0}
                          /\ TMPFS_DATA_SIZE \in Nat
                          /\ NameCut \in [Names -> Names]
                          /\ Bodies \subseteq Seq(Nat) /\ BufLens \subseteq Nat
                          /\ NoFile \notin Seq(Nat)

VARIABLES fs,     \* [files, count]
          reply   \* return value and buffer of the last call

vars == <<fs, reply>>

Slots == 1..TMPFS_MAX_FILES
Zeros == [i \in 1..TMPFS_DATA_SIZE |-> 0]
NoSlot == 0

Stored(n) == NameCut[n]
Shorter(a, b) == IF a <= b THEN a ELSE b
First(S) == CHOOSE i \in S : \A j \in S : i <= j

\* memset(files, 0, ...): the name of an unused slot is irrelevant.
Init == /\ \E n \in Names :
             fs = [files |-> [i \in Slots |-> [name |-> n, size |-> 0,
                                               used |-> FALSE, data |-> Zeros]],
                   count |-> 0]
        /\ reply = [ret |-> 0, buf |-> << >>]

\* find_file
Named(s, n) == {i \in Slots : s.files[i].used /\ s.files[i].name = n}
FindFile(s, n) == IF Named(s, n) = {} THEN NoSlot ELSE First(Named(s, n))

\* The slot a new file gets: zero size, zero data, counted.
NewFile_Dirty(s, n) ==
  LET i == First({j \in Slots : ~s.files[j].used})
  IN  [files |-> [s.files EXCEPT ![i].name = Stored(n), ![i].used = TRUE],
       count |-> s.count + 1]
NewFile(s, n) ==
  LET i == First({j \in Slots : ~s.files[j].used})
  IN  [files |-> [s.files EXCEPT ![i] = [name |-> Stored(n), size |-> 0,
                                         used |-> TRUE, data |-> Zeros]],
       count |-> s.count + 1]

\* tmpfs_create
TmpfsCreate(s, n) ==
  IF FindFile(s, n) # NoSlot THEN [fs |-> s, ret |-> 0]
  ELSE IF s.count >= TMPFS_MAX_FILES THEN [fs |-> s, ret |-> -1]
  ELSE IF \A i \in Slots : s.files[i].used THEN [fs |-> s, ret |-> -1]
  ELSE [fs |-> NewFile(s, n), ret |-> 0]

\* if (size > TMPFS_DATA_SIZE) size = TMPFS_DATA_SIZE
WriteSize(data) == Shorter(Len(data), TMPFS_DATA_SIZE)

\* tmpfs_write; n fits a slot's name, so the file is there after a creation.
TmpfsWrite(s, n, data) ==
  LET c == TmpfsCreate(s, n)
      i == FindFile(c.fs, n)
      size == WriteSize(data)
      old == c.fs.files[i].data
  IN  IF c.ret # 0 THEN [fs |-> s, ret |-> -1]
      ELSE [fs |-> [c.fs EXCEPT !.files[i].data =
                      [b \in 1..TMPFS_DATA_SIZE |-> IF b <= size THEN data[b]
                                                    ELSE old[b]],
                                !.files[i].size = size],
            ret |-> size]

\* tmpfs_read
ReadLen(f, max_size) == Shorter(f.size, max_size)
TmpfsRead(s, n, max_size) ==
  LET f == s.files[FindFile(s, n)]
  IN  IF FindFile(s, n) = NoSlot THEN [ret |-> -1, buf |-> << >>]
      ELSE [ret |-> ReadLen(f, max_size),
            buf |-> [b \in 1..ReadLen(f, max_size) |-> f.data[b]]]

\* tmpfs_delete
Deleted_Uncounted(s, i) == [s EXCEPT !.files[i].used = FALSE]
Deleted(s, i) == [s EXCEPT !.files[i].used = FALSE, !.count = @ - 1]
TmpfsDelete(s, n) ==
  IF FindFile(s, n) = NoSlot THEN [fs |-> s, ret |-> -1]
  ELSE [fs |-> Deleted(s, FindFile(s, n)), ret |-> 0]

-----------------------------------------------------------------------------
Returns(r) == fs' = r.fs /\ reply' = [ret |-> r.ret, buf |-> << >>]

Create(n) == Returns(TmpfsCreate(fs, n))
Write(n, data) == Returns(TmpfsWrite(fs, n, data))
Read(n, max_size) == reply' = TmpfsRead(fs, n, max_size) /\ UNCHANGED fs
Delete(n) == Returns(TmpfsDelete(fs, n))

Next == \E n \in Names :
          \/ Create(n)
          \/ \E data \in Bodies : Write(n, data)
          \/ \E max_size \in BufLens : Read(n, max_size)
          \/ Delete(n)

Spec == Init /\ [][Next]_vars

-----------------------------------------------------------------------------
TypeOK == /\ fs.files \in [Slots -> [name : Names, size : 0..TMPFS_DATA_SIZE,
                                     used : BOOLEAN,
                                     data : [1..TMPFS_DATA_SIZE -> Nat]]]
          /\ fs.count \in Int

(***************************************************************************)
(* file_count is the number of used slots and no two used slots carry the  *)
(* same name, so that find_file, which returns the first match, never      *)
(* hides a file, and tmpfs_create refuses exactly when the table is full   *)
(* (for names that fit the name array of a slot).                          *)
(***************************************************************************)
TableConsistent ==
  /\ TypeOK
  /\ fs.count = Cardinality({i \in Slots : fs.files[i].used})
  /\ \A i, j \in Slots :
       (/\ fs.files[i].used /\ fs.files[j].used
        /\ fs.files[i].name = fs.files[j].name) => i = j

\* The files as their users see them.
Content ==
  [n \in Names |->
     LET i == FindFile(fs, n)
     IN  IF i = NoSlot THEN NoFile
         ELSE [b \in 1..fs.files[i].size |-> fs.files[i].data[b]]]

Abstract == INSTANCE FlatFs WITH content <- Content,
              MaxFiles <- TMPFS_MAX_FILES, DataSize <- TMPFS_DATA_SIZE

(***************************************************************************)
(* The slot table implements a bounded map from names to byte strings: a   *)
(* read returns what the last write to that name stored, cut to the limit, *)
(* a file created anew in a slot that held another is empty, and creation  *)
(* fails only when TMPFS_MAX_FILES files exist.                            *)
(***************************************************************************)
ImplementsFlatFs == Abstract!FSpec
=============================================================================
