----------------------------- MODULE ShellProofs -----------------------------
(***************************************************************************)
(* Proofs about what the shell runs: tmpfs and the file commands, for      *)
(* every number of slots, every size of a file and any set of names that   *)
(* fit a slot; then the text editor, for texts, lines, screens and files   *)
(* of every size; then the CPU simulator, for every size of a byte and of  *)
(* the memory.                                                             *)
(***************************************************************************)
EXTENDS ShellFiles, Editor, CpuSim, FiniteSetTheorems, FunctionTheorems,
        SequenceTheorems, WellFoundedInduction, TLAPS

(* Names that fit the name array of a slot are stored as they are. *)
NamesFit == \A n \in Names : Stored(n) = n

(***************************************************************************)
(* The table as a value s: its type, its consistency (TableConsistent says *)
(* this of fs) and what its users see (Content says this of fs).           *)
(***************************************************************************)
File == [name : Names, size : 0..TMPFS_DATA_SIZE, used : BOOLEAN,
         data : [1..TMPFS_DATA_SIZE -> Nat]]
Tables == [files : [Slots -> File], count : Int]
UsedSlots(s) == {i \in Slots : s.files[i].used}
Distinct(s) == \A i, j \in Slots :
                 (/\ s.files[i].used /\ s.files[j].used
                  /\ s.files[i].name = s.files[j].name) => i = j
Consistent(s) == /\ s \in Tables
                 /\ s.count = Cardinality(UsedSlots(s))
                 /\ Distinct(s)

FirstBytes(d, size) == [b \in 1..size |-> d[b]]
Updated(view, n, bytes) == [view EXCEPT ![n] = bytes]
Bytes(f) == FirstBytes(f.data, f.size)
View(s) == [n \in Names |-> LET i == FindFile(s, n)
                            IN  IF i = NoSlot THEN NoFile ELSE Bytes(s.files[i])]

-----------------------------------------------------------------------------
(* The order of the natural numbers as a relation. *)
Less == {ss \in Nat \X Nat : ss[1] < ss[2]}

(* First returns a member of every non-empty set of numbers. *)
LEMMA FirstIsMember ==
  ASSUME NEW S \in SUBSET Nat, S # {}
  PROVE  First(S) \in S
<1>1. OpToRel(<, Nat) = Less
  BY Zenon DEF OpToRel, Less
<1>2. IsWellFoundedOn(Less, Nat)
  BY <1>1, NatLessThanWellFounded
<1>3. PICK x \in S : \A y \in S : ~(<<y, x>> \in Less)
  BY <1>2, WFMin
<1>4. \A y \in S : ~(<<y, x>> \in Less) => x <= y
  BY DEF Less
<1> QED BY <1>3, <1>4 DEF First

(* There are finitely many slots. *)
LEMMA UsedSlotsFinite ==
  ASSUME NEW s
  PROVE  IsFiniteSet(UsedSlots(s)) /\ Cardinality(UsedSlots(s)) \in Nat
<1>1. IsFiniteSet(Slots)
  BY TableAssumption, FS_Interval DEF Slots
<1> QED BY <1>1, FS_Subset, FS_CardinalityType DEF UsedSlots

(* find_file returns the only used slot of that name, or none. *)
LEMMA FindFileFacts ==
  ASSUME NEW s, Consistent(s), NEW n \in Names
  PROVE  \/ /\ FindFile(s, n) = NoSlot
            /\ \A i \in Slots : ~(s.files[i].used /\ s.files[i].name = n)
         \/ /\ FindFile(s, n) \in Slots /\ FindFile(s, n) # NoSlot
            /\ s.files[FindFile(s, n)].used
            /\ s.files[FindFile(s, n)].name = n
<1>1. CASE Named(s, n) = {}
  BY <1>1 DEF Named, FindFile
<1>2. CASE Named(s, n) # {}
  <2>1. Named(s, n) \in SUBSET Nat
    BY DEF Named, Slots
  <2>2. First(Named(s, n)) \in Named(s, n)
    BY <1>2, <2>1, FirstIsMember
  <2>3. FindFile(s, n) = First(Named(s, n))
    BY <1>2 DEF FindFile
  <2> QED BY <2>2, <2>3 DEF Named, Slots, NoSlot
<1> QED BY <1>1, <1>2

(* A slot that is used under the name n is the one find_file returns. *)
LEMMA FindFileIs ==
  ASSUME NEW s, Consistent(s), NEW i \in Slots, s.files[i].used
  PROVE  FindFile(s, s.files[i].name) = i
<1>1. s.files[i].name \in Names
  BY DEF Consistent, Tables, File
<1> QED BY <1>1, FindFileFacts DEF Consistent, Distinct

(* The bytes of a file are a sequence, so no file looks like none. *)
LEMMA BytesAreASequence ==
  ASSUME NEW f \in File
  PROVE  /\ Bytes(f) \in Seq(Nat)
         /\ Len(Bytes(f)) = f.size
         /\ Bytes(f) # NoFile
<1>1. f.size \in Nat /\ f.size <= TMPFS_DATA_SIZE
  BY TableAssumption DEF File
<1>2. \A b \in 1..f.size : f.data[b] \in Nat
  BY <1>1, TableAssumption DEF File
<1>3. Bytes(f) \in Seq(Nat) /\ Len(Bytes(f)) = f.size
  BY <1>1, <1>2 DEF Bytes, FirstBytes
<1> QED BY <1>3, TableAssumption

(* What a name shows: nothing without a slot, else the bytes of its slot. *)
LEMMA ViewFacts ==
  ASSUME NEW s, Consistent(s), NEW n \in Names
  PROVE  /\ FindFile(s, n) = NoSlot <=> View(s)[n] = NoFile
         /\ FindFile(s, n) # NoSlot =>
              /\ View(s)[n] = Bytes(s.files[FindFile(s, n)])
              /\ s.files[FindFile(s, n)] \in File
<1>1. FindFile(s, n) # NoSlot => s.files[FindFile(s, n)] \in File
  BY FindFileFacts DEF Consistent, Tables
<1> QED BY <1>1, BytesAreASequence DEF View

(* Changing what one name shows. *)
LEMMA UpdatedFacts ==
  ASSUME NEW s, NEW n \in Names, NEW x, NEW y
  PROVE  /\ Updated(View(s), n, x)[n] = x
         /\ \A m \in Names : m # n => Updated(View(s), n, x)[m] = View(s)[m]
         /\ Updated(Updated(View(s), n, x), n, y) = Updated(View(s), n, y)
         /\ Updated(View(s), n, View(s)[n]) = View(s)
  BY DEF Updated, View

LEMMA UpdatedIs ==
  ASSUME NEW s, NEW t, NEW n \in Names,
         \A m \in Names \ {n} : View(t)[m] = View(s)[m]
  PROVE  View(t) = Updated(View(s), n, View(t)[n])
<1>1. \A u : View(u) = [m \in Names |-> View(u)[m]]
  BY DEF View
<1> QED BY <1>1 DEF Updated

(* Two consistent tables that differ in the slot i only show the same      *)
(* under every name that the slot carries in neither.                      *)
LEMMA OtherNamesSame ==
  ASSUME NEW s, Consistent(s), NEW t, Consistent(t), NEW i \in Slots,
         \A j \in Slots \ {i} : t.files[j] = s.files[j],
         NEW m \in Names,
         ~(s.files[i].used /\ s.files[i].name = m),
         ~(t.files[i].used /\ t.files[i].name = m)
  PROVE  View(t)[m] = View(s)[m]
<1>1. FindFile(s, m) = FindFile(t, m)
  BY FindFileFacts DEF Consistent, Distinct
<1>2. FindFile(s, m) # NoSlot => t.files[FindFile(s, m)] = s.files[FindFile(s, m)]
  BY FindFileFacts
<1> QED BY <1>1, <1>2 DEF View

(* The files as their users count them are as many as file_count says. *)
LEMMA CountIsFiles ==
  ASSUME NEW s, Consistent(s)
  PROVE  Cardinality({m \in Names : View(s)[m] # NoFile}) = s.count
<1> DEFINE Shown == {m \in Names : View(s)[m] # NoFile}
           name == [i \in UsedSlots(s) |-> s.files[i].name]
<1>1. name \in [UsedSlots(s) -> Shown]
  <2> SUFFICES ASSUME NEW i \in UsedSlots(s) PROVE s.files[i].name \in Shown
    OBVIOUS
  <2>1. i \in Slots /\ s.files[i].used /\ s.files[i].name \in Names
    BY DEF UsedSlots, Consistent, Tables, File
  <2>2. FindFile(s, s.files[i].name) # NoSlot
    BY <2>1, FindFileIs DEF Slots, NoSlot
  <2> QED BY <2>1, <2>2, ViewFacts
<1>2. name \in Injection(UsedSlots(s), Shown)
  BY <1>1, Fun_IsInj DEF UsedSlots, Consistent, Distinct
<1>3. \A m \in Shown : \E i \in UsedSlots(s) : name[i] = m
  BY ViewFacts, FindFileFacts DEF UsedSlots
<1>4. name \in Surjection(UsedSlots(s), Shown)
  BY <1>1, <1>3, Fun_IsSurj
<1>5. ExistsBijection(UsedSlots(s), Shown)
  BY <1>2, <1>4 DEF ExistsBijection, Bijection
<1>6. Cardinality(Shown) = Cardinality(UsedSlots(s))
  BY <1>5, UsedSlotsFinite, FS_Bijection
<1> QED BY <1>6 DEF Consistent

(* file_count reaches the size of the table exactly when no slot is free. *)
LEMMA FullTable ==
  ASSUME NEW s, Consistent(s)
  PROVE  /\ s.count \in Nat /\ s.count <= TMPFS_MAX_FILES
         /\ s.count < TMPFS_MAX_FILES <=> \E i \in Slots : ~s.files[i].used
<1>1. IsFiniteSet(Slots) /\ Cardinality(Slots) = TMPFS_MAX_FILES
  BY TableAssumption, FS_Interval DEF Slots
<1>2. UsedSlots(s) \in SUBSET Slots
  BY DEF UsedSlots
<1>3. /\ Cardinality(UsedSlots(s)) <= TMPFS_MAX_FILES
      /\ Cardinality(UsedSlots(s)) = TMPFS_MAX_FILES => UsedSlots(s) = Slots
  BY <1>1, <1>2, FS_Subset
<1>4. UsedSlots(s) = Slots => Cardinality(UsedSlots(s)) = TMPFS_MAX_FILES
  BY <1>1
<1>5. UsedSlots(s) = Slots <=> ~\E i \in Slots : ~s.files[i].used
  BY DEF UsedSlots
<1>6. s.count = Cardinality(UsedSlots(s)) /\ s.count \in Nat
  BY UsedSlotsFinite DEF Consistent
<1> QED BY <1>3, <1>4, <1>5, <1>6, TableAssumption

-----------------------------------------------------------------------------
(* tmpfs_create: nothing for a file that is there or without room, else a  *)
(* new and empty file, whatever its slot held before.                      *)
LEMMA CreateFacts ==
  ASSUME NamesFit, NEW s, Consistent(s), NEW n \in Names
  PROVE  LET r == TmpfsCreate(s, n)
             room == View(s)[n] # NoFile \/ s.count < TMPFS_MAX_FILES
         IN  /\ Consistent(r.fs)
             /\ r.ret = IF room THEN 0 ELSE -1
             /\ ~room => r.fs = s
             /\ View(s)[n] # NoFile => r.fs = s
             /\ View(s)[n] = NoFile /\ room =>
                  View(r.fs) = Updated(View(s), n, << >>)
<1> DEFINE r == TmpfsCreate(s, n)
<1>1. CASE View(s)[n] # NoFile
  BY <1>1, ViewFacts DEF TmpfsCreate
<1>2. CASE View(s)[n] = NoFile /\ ~(s.count < TMPFS_MAX_FILES)
  <2>1. FindFile(s, n) = NoSlot
    BY <1>2, ViewFacts
  <2>2. s.count >= TMPFS_MAX_FILES
    BY <1>2, FullTable, TableAssumption
  <2> QED BY <1>2, <2>1, <2>2 DEF TmpfsCreate
<1>3. CASE View(s)[n] = NoFile /\ s.count < TMPFS_MAX_FILES
  <2> DEFINE free == {j \in Slots : ~s.files[j].used}
             i == First(free)
             t == NewFile(s, n)
             empty == [name |-> n, size |-> 0, used |-> TRUE, data |-> Zeros]
  <2>1. FindFile(s, n) = NoSlot
    BY <1>3, ViewFacts
  <2>2. ~(s.count >= TMPFS_MAX_FILES) /\ \E j \in Slots : ~s.files[j].used
    BY <1>3, FullTable, TableAssumption
  <2>3. r = [fs |-> t, ret |-> 0]
    BY <2>1, <2>2 DEF TmpfsCreate
  <2>4. i \in free
    <3>1. free \in SUBSET Nat /\ free # {}
      BY <2>2 DEF Slots
    <3> QED BY <3>1, FirstIsMember
  <2>5. i \in Slots /\ ~s.files[i].used
    BY <2>4
  <2>6. t = [files |-> [s.files EXCEPT ![i] = empty], count |-> s.count + 1]
    BY DEF NewFile, NamesFit
  <2>7. empty \in File
    BY TableAssumption DEF File, Zeros
  <2> HIDE DEF free, i, t, empty
  <2>8. /\ t \in Tables /\ t.files[i] = empty /\ t.count = s.count + 1
        /\ \A j \in Slots \ {i} : t.files[j] = s.files[j]
    BY <2>5, <2>6, <2>7 DEF Consistent, Tables
  <2>9. UsedSlots(t) = UsedSlots(s) \cup {i} /\ i \notin UsedSlots(s)
    BY <2>5, <2>8 DEF UsedSlots, empty
  <2>10. t.count = Cardinality(UsedSlots(t))
    BY <2>8, <2>9, UsedSlotsFinite, FS_AddElement, ZenonT(60) DEF Consistent
  <2>11. Distinct(t)
    <3>1. \A j \in Slots : ~(s.files[j].used /\ s.files[j].name = n)
      BY <2>1, FindFileFacts DEF NoSlot
    <3> QED BY <2>5, <2>8, <3>1 DEF Consistent, Distinct, empty
  <2>12. Consistent(t)
    BY <2>8, <2>10, <2>11 DEF Consistent
  <2>13. View(t)[n] = << >>
    <3>1. FindFile(t, n) = i
      BY <2>5, <2>8, <2>12, FindFileIs DEF empty
    <3>2. Bytes(empty) = << >>
      BY DEF Bytes, FirstBytes, empty
    <3> QED BY <2>5, <2>8, <3>1, <3>2 DEF View, Slots, NoSlot
  <2>14. \A m \in Names \ {n} : View(t)[m] = View(s)[m]
    BY <2>5, <2>8, <2>12, OtherNamesSame DEF empty
  <2>15. View(t) = Updated(View(s), n, << >>)
    BY <2>13, <2>14, UpdatedIs
  <2> QED BY <1>3, <2>3, <2>12, <2>15
<1> QED BY <1>1, <1>2, <1>3

(* New bytes in the slot of a file change this file only. *)
Rewritten(s, i, d, size) ==
  [s EXCEPT !.files[i].data = d, !.files[i].size = size]
LEMMA RewriteFacts ==
  ASSUME NEW s, Consistent(s), NEW n \in Names, View(s)[n] # NoFile,
         NEW d \in [1..TMPFS_DATA_SIZE -> Nat], NEW size \in 0..TMPFS_DATA_SIZE
  PROVE  LET t == Rewritten(s, FindFile(s, n), d, size)
         IN  /\ Consistent(t)
             /\ View(t) = Updated(View(s), n, FirstBytes(d, size))
<1> DEFINE i == FindFile(s, n)
           t == Rewritten(s, i, d, size)
           f == [name |-> n, size |-> size, used |-> TRUE, data |-> d]
<1>1. i \in Slots /\ i # NoSlot /\ s.files[i].used /\ s.files[i].name = n
  BY ViewFacts, FindFileFacts
<1>2. f \in File
  BY DEF File
<1> HIDE DEF i
<1>3. /\ t \in Tables /\ t.count = s.count
      /\ \A j \in Slots \ {i} : t.files[j] = s.files[j]
  BY <1>1, ZenonT(60) DEF Rewritten, Consistent, Tables, File
<1>4. t.files[i] = f
  BY <1>1 DEF Rewritten, Consistent, Tables, File
<1> HIDE DEF t
<1>5. UsedSlots(t) = UsedSlots(s) /\ Distinct(t)
  BY <1>1, <1>3, <1>4 DEF UsedSlots, Distinct, Consistent
<1>6. Consistent(t)
  BY <1>3, <1>5 DEF Consistent
<1>7. FindFile(t, n) = i
  BY <1>1, <1>4, <1>6, FindFileIs
<1>8. View(t)[n] = FirstBytes(d, size)
  <2>1. View(t)[n] = Bytes(t.files[i])
    BY <1>1, <1>7 DEF View
  <2>2. Bytes(f) = FirstBytes(d, size)
    BY DEF Bytes, FirstBytes
  <2> QED BY <1>4, <2>1, <2>2
<1>9. \A m \in Names \ {n} : View(t)[m] = View(s)[m]
  BY <1>1, <1>3, <1>4, <1>6, OtherNamesSame
<1>10. View(t) = Updated(View(s), n, FirstBytes(d, size))
  BY <1>8, <1>9, UpdatedIs
<1> QED BY <1>6, <1>10 DEF i, t

(* There is a file n, or room for one; data cut to at most k bytes. *)
RoomFor(s, n) == View(s)[n] # NoFile \/ s.count < TMPFS_MAX_FILES
CutTo(data, k) == [b \in 1..Shorter(Len(data), k) |-> data[b]]

(* tmpfs_write stores the data, cut to the size of a file, under this name *)
(* and no other, if there is room.                                         *)
LEMMA WriteFacts ==
  ASSUME NamesFit, NEW s, Consistent(s), NEW n \in Names, NEW data \in Seq(Nat)
  PROVE  LET r == TmpfsWrite(s, n, data)
         IN  /\ Consistent(r.fs)
             /\ r.ret = IF RoomFor(s, n) THEN WriteSize(data) ELSE -1
             /\ View(r.fs) = IF RoomFor(s, n)
                             THEN Updated(View(s), n, CutTo(data, TMPFS_DATA_SIZE))
                             ELSE View(s)
<1> DEFINE c == TmpfsCreate(s, n)
           r == TmpfsWrite(s, n, data)
           i == FindFile(c.fs, n)
           size == WriteSize(data)
           d == [b \in 1..TMPFS_DATA_SIZE |-> IF b <= size THEN data[b]
                                              ELSE c.fs.files[i].data[b]]
<1>1. /\ Consistent(c.fs) /\ c.ret = IF RoomFor(s, n) THEN 0 ELSE -1
      /\ View(s)[n] # NoFile => c.fs = s
      /\ View(s)[n] = NoFile /\ RoomFor(s, n) =>
           View(c.fs) = Updated(View(s), n, << >>)
  BY CreateFacts DEF RoomFor
<1>2. CASE ~RoomFor(s, n)
  BY <1>1, <1>2 DEF TmpfsWrite
<1>3. CASE RoomFor(s, n)
  <2>1. r = [fs |-> Rewritten(c.fs, i, d, size), ret |-> size]
    BY <1>1, <1>3 DEF TmpfsWrite, Rewritten
  <2>2. << >> # NoFile
    <3>1. << >> \in Seq(Nat)
      OBVIOUS
    <3> QED BY <3>1, TableAssumption
  <2>3. View(c.fs)[n] # NoFile
    BY <1>1, <1>3, <2>2, UpdatedFacts
  <2>5. size \in 0..TMPFS_DATA_SIZE /\ size <= Len(data)
    BY TableAssumption DEF WriteSize, Shorter
  <2>6. c.fs.files[i].data \in [1..TMPFS_DATA_SIZE -> Nat]
    BY <1>1, <2>3, ViewFacts DEF File
  <2>7. d \in [1..TMPFS_DATA_SIZE -> Nat]
    BY <2>5, <2>6, TableAssumption, SMTT(60)
  <2>8. FirstBytes(d, size) = CutTo(data, TMPFS_DATA_SIZE)
    BY <2>5, TableAssumption DEF CutTo, WriteSize, FirstBytes
  <2> HIDE DEF c, d, size, r
  <2>9. /\ Consistent(r.fs)
        /\ View(r.fs) = Updated(View(c.fs), n, FirstBytes(d, size))
    <3>1. r.fs = Rewritten(c.fs, FindFile(c.fs, n), d, size)
      BY <2>1
    <3>2. /\ Consistent(Rewritten(c.fs, FindFile(c.fs, n), d, size))
          /\ View(Rewritten(c.fs, FindFile(c.fs, n), d, size))
               = Updated(View(c.fs), n, FirstBytes(d, size))
      BY <1>1, <2>3, <2>5, <2>7, RewriteFacts
    <3> QED BY <3>1, <3>2
  <2>10. View(r.fs) = Updated(View(s), n, CutTo(data, TMPFS_DATA_SIZE))
    BY <1>1, <1>3, <2>8, <2>9, UpdatedFacts
  <2>11. r.ret = WriteSize(data)
    BY <2>1 DEF size
  <2> QED BY <1>3, <2>9, <2>10, <2>11 DEF r
<1> QED BY <1>2, <1>3

(* tmpfs_read gives the bytes of the file, as many as fit the buffer. *)
LEMMA ReadFacts ==
  ASSUME NEW s, Consistent(s), NEW n \in Names, NEW k \in Nat
  PROVE  LET r == TmpfsRead(s, n, k)
         IN  /\ View(s)[n] = NoFile => r = [ret |-> -1, buf |-> << >>]
             /\ View(s)[n] # NoFile =>
                  /\ View(s)[n] \in Seq(Nat)
                  /\ Len(View(s)[n]) \in 0..TMPFS_DATA_SIZE
                  /\ r = [ret |-> Shorter(Len(View(s)[n]), k),
                          buf |-> CutTo(View(s)[n], k)]
                  /\ r.ret \in Nat
<1>1. CASE View(s)[n] = NoFile
  BY <1>1, ViewFacts DEF TmpfsRead
<1>2. CASE View(s)[n] # NoFile
  <2> DEFINE f == s.files[FindFile(s, n)]
  <2>1. f \in File /\ View(s)[n] = Bytes(f) /\ FindFile(s, n) # NoSlot
    BY <1>2, ViewFacts
  <2>2. f.size \in 0..TMPFS_DATA_SIZE
    BY <2>1 DEF File
  <2>3. Bytes(f) \in Seq(Nat) /\ Len(Bytes(f)) = f.size
    BY <2>1, BytesAreASequence
  <2>4. TmpfsRead(s, n, k) = [ret |-> Shorter(f.size, k),
                              buf |-> [b \in 1..Shorter(f.size, k) |-> f.data[b]]]
    BY <2>1 DEF TmpfsRead, ReadLen
  <2> HIDE DEF f
  <2>5. [b \in 1..Shorter(f.size, k) |-> f.data[b]] = CutTo(Bytes(f), k)
    BY <2>2, <2>3, TableAssumption DEF CutTo, Bytes, FirstBytes, Shorter
  <2>6. Shorter(f.size, k) \in Nat
    BY <2>2, TableAssumption DEF Shorter
  <2>7. View(s)[n] \in Seq(Nat) /\ Len(View(s)[n]) = f.size
    BY <2>1, <2>3
  <2>8. TmpfsRead(s, n, k) = [ret |-> Shorter(Len(View(s)[n]), k),
                              buf |-> CutTo(View(s)[n], k)]
    BY <2>1, <2>4, <2>5, <2>7
  <2>9. TmpfsRead(s, n, k).ret \in Nat
    BY <2>4, <2>6
  <2> QED BY <1>2, <2>2, <2>7, <2>8, <2>9
<1> QED BY <1>1, <1>2

(* tmpfs_delete removes this file and no other. *)
LEMMA DeleteFacts ==
  ASSUME NEW s, Consistent(s), NEW n \in Names
  PROVE  LET r == TmpfsDelete(s, n)
         IN  /\ Consistent(r.fs)
             /\ View(s)[n] = NoFile => r = [fs |-> s, ret |-> -1]
             /\ View(s)[n] # NoFile => r.ret = 0
             /\ View(r.fs) = Updated(View(s), n, NoFile)
<1>1. CASE View(s)[n] = NoFile
  <2>1. TmpfsDelete(s, n) = [fs |-> s, ret |-> -1]
    BY <1>1, ViewFacts DEF TmpfsDelete
  <2>2. View(s) = Updated(View(s), n, NoFile)
    BY <1>1, UpdatedFacts
  <2> QED BY <1>1, <2>1, <2>2
<1>2. CASE View(s)[n] # NoFile
  <2> DEFINE i == FindFile(s, n)
             t == Deleted(s, i)
  <2>1. i \in Slots /\ i # NoSlot /\ s.files[i].used /\ s.files[i].name = n
    BY <1>2, ViewFacts, FindFileFacts
  <2>2. TmpfsDelete(s, n) = [fs |-> t, ret |-> 0]
    BY <2>1 DEF TmpfsDelete
  <2> HIDE DEF i
  <2>3. /\ t \in Tables /\ t.count = s.count - 1 /\ ~t.files[i].used
        /\ \A j \in Slots \ {i} : t.files[j] = s.files[j]
    <3>1. s \in Tables /\ s.count \in Int /\ s.files \in [Slots -> File]
      BY DEF Consistent, Tables
    <3>2. t.files = [s.files EXCEPT ![i].used = FALSE]
      BY <3>1 DEF Deleted, Tables
    <3>3. t.count = s.count - 1
      BY <3>1 DEF Deleted, Tables
    <3>4. t \in Tables
      <4> DEFINE u == [s EXCEPT !.files[i].used = FALSE]
      <4>1. u \in Tables
        BY <2>1, <3>1 DEF Tables, File
      <4>2. t = [u EXCEPT !.count = s.count - 1]
        BY DEF Deleted
      <4> HIDE DEF u
      <4> QED BY <3>1, <4>1, <4>2 DEF Tables
    <3> HIDE DEF t
    <3> QED BY <2>1, <3>1, <3>2, <3>3, <3>4 DEF File
  <2> HIDE DEF t
  <2>4. UsedSlots(t) = UsedSlots(s) \ {i} /\ i \in UsedSlots(s) /\ Distinct(t)
    BY <2>1, <2>3 DEF UsedSlots, Distinct, Consistent
  <2>5. Consistent(t)
    BY <2>3, <2>4, UsedSlotsFinite, FS_RemoveElement DEF Consistent
  <2>6. View(t)[n] = NoFile
    <3>1. \A j \in Slots : ~(t.files[j].used /\ t.files[j].name = n)
      BY <2>1, <2>3 DEF Consistent, Distinct
    <3> QED BY <2>5, <3>1, FindFileFacts DEF View
  <2>7. \A m \in Names \ {n} : View(t)[m] = View(s)[m]
    BY <2>1, <2>3, <2>5, OtherNamesSame
  <2>8. View(t) = Updated(View(s), n, NoFile)
    BY <2>6, <2>7, UpdatedIs
  <2> QED BY <1>2, <2>2, <2>5, <2>8
<1> QED BY <1>1, <1>2

-----------------------------------------------------------------------------
(* Cutting to the size of a file leaves what a file holds as it is. *)
LEMMA CutFacts ==
  ASSUME NEW data \in Seq(Nat), NEW k \in Nat
  PROVE  /\ CutTo(data, k) \in Seq(Nat)
         /\ CutTo(data, k) # NoFile
         /\ Len(data) <= k => CutTo(data, k) = data
<1>1. Shorter(Len(data), k) \in Nat /\ Shorter(Len(data), k) <= Len(data)
  BY DEF Shorter
<1>2. \A b \in 1..Shorter(Len(data), k) : data[b] \in Nat
  BY <1>1
<1>3. CutTo(data, k) \in Seq(Nat)
  BY <1>1, <1>2 DEF CutTo
<1>4. Len(data) <= k => CutTo(data, k) = data
  BY DEF CutTo, Shorter
<1> QED BY <1>3, <1>4, TableAssumption

(* What the read that cp and mv begin with gives them. *)
LEMMA SourceFacts ==
  ASSUME NEW s, Consistent(s), NEW src \in Names
  PROVE  LET r == TmpfsRead(s, src, TMPFS_DATA_SIZE)
         IN  /\ r.ret < 0 <=> View(s)[src] = NoFile
             /\ View(s)[src] # NoFile => View(s)[src] \in Seq(Nat) /\ r.buf = View(s)[src]
<1> DEFINE r == TmpfsRead(s, src, TMPFS_DATA_SIZE)
<1>1. TMPFS_DATA_SIZE \in Nat
  BY TableAssumption
<1>2. CASE View(s)[src] = NoFile
  <2>1. r = [ret |-> -1, buf |-> << >>]
    BY <1>1, <1>2, ReadFacts
  <2> QED BY <1>2, <2>1
<1>3. CASE View(s)[src] # NoFile
  <2>1. /\ View(s)[src] \in Seq(Nat) /\ Len(View(s)[src]) <= TMPFS_DATA_SIZE
        /\ r = [ret |-> Shorter(Len(View(s)[src]), TMPFS_DATA_SIZE),
                buf |-> CutTo(View(s)[src], TMPFS_DATA_SIZE)]
        /\ r.ret \in Nat
    BY <1>1, <1>3, ReadFacts
  <2>2. CutTo(View(s)[src], TMPFS_DATA_SIZE) = View(s)[src]
    BY <1>1, <2>1, CutFacts
  <2> QED BY <1>3, <2>1, <2>2
<1> QED BY <1>2, <1>3

(* cp: nothing, or the bytes of the source under the destination. *)
LEMMA CpFacts ==
  ASSUME NamesFit, Consistent(fs), NEW src \in Names, NEW dst \in Names,
         NEW enough \in BOOLEAN, CmdCp(src, dst, enough)
  PROVE  \/ /\ UNCHANGED vars
            /\ cmd' = [op |-> "cp", named |-> <<src, dst>>, ok |-> FALSE]
         \/ /\ View(fs)[src] # NoFile /\ View(fs)[src] \in Seq(Nat)
            /\ fs' = TmpfsWrite(fs, dst, View(fs)[src]).fs
            /\ reply' = [ret |-> TmpfsWrite(fs, dst, View(fs)[src]).ret, buf |-> << >>]
            /\ cmd' = [op |-> "cp", named |-> <<src, dst>>, ok |-> TRUE]
  BY SourceFacts DEF CmdCp, Refused, Report, Returns

(* mv: nothing, or a write of the destination and a deletion of the source. *)
LEMMA MvFacts ==
  ASSUME NamesFit, Consistent(fs), NEW src \in Names, NEW dst \in Names,
         NEW enough \in BOOLEAN, CmdMv(src, dst, enough)
  PROVE  \/ /\ UNCHANGED vars
            /\ cmd' = [op |-> "mv", named |-> <<src, dst>>, ok |-> FALSE]
         \/ /\ View(fs)[src] # NoFile /\ View(fs)[src] \in Seq(Nat)
            /\ Consistent(fs')
            /\ View(fs') = Updated(IF RoomFor(fs, dst)
                                   THEN Updated(View(fs), dst, View(fs)[src])
                                   ELSE View(fs), src, NoFile)
            /\ reply' = [ret |-> 0, buf |-> << >>]
            /\ cmd' = [op |-> "mv", named |-> <<src, dst>>, ok |-> TRUE]
<1> DEFINE r == TmpfsRead(fs, src, TMPFS_DATA_SIZE)
           w == TmpfsWrite(fs, dst, r.buf)
           x == TmpfsDelete(w.fs, src)
<1>1. CASE ~enough \/ r.ret < 0
  BY <1>1 DEF CmdMv, Refused, Report
<1>2. CASE enough /\ ~(r.ret < 0)
  <2>1. View(fs)[src] # NoFile /\ View(fs)[src] \in Seq(Nat) /\ r.buf = View(fs)[src]
    BY <1>2, SourceFacts
  <2>2. /\ fs' = x.fs /\ reply' = [ret |-> x.ret, buf |-> << >>]
        /\ cmd' = [op |-> "mv", named |-> <<src, dst>>, ok |-> TRUE]
    BY <1>2 DEF CmdMv, DeleteSource, Returns, Report
  <2>3. TMPFS_DATA_SIZE \in Nat /\ Len(View(fs)[src]) <= TMPFS_DATA_SIZE
    BY <2>1, ReadFacts, TableAssumption
  <2>4. CutTo(View(fs)[src], TMPFS_DATA_SIZE) = View(fs)[src]
    BY <2>1, <2>3, CutFacts
  <2>5. /\ Consistent(w.fs)
        /\ View(w.fs) = IF RoomFor(fs, dst) THEN Updated(View(fs), dst, View(fs)[src])
                        ELSE View(fs)
    BY <2>1, <2>4, WriteFacts
  <2>6. View(w.fs)[src] # NoFile
    <3> HIDE DEF w
    <3>1. Updated(View(fs), dst, View(fs)[src])[src] = View(fs)[src]
      BY DEF Updated, View
    <3> QED BY <2>1, <2>5, <3>1
  <2>7. Consistent(x.fs) /\ x.ret = 0 /\ View(x.fs) = Updated(View(w.fs), src, NoFile)
    BY <2>5, <2>6, DeleteFacts
  <2> QED BY <2>1, <2>2, <2>5, <2>7
<1> QED BY <1>1, <1>2

-----------------------------------------------------------------------------
(* Every command and every single call keeps the table consistent. *)
LEMMA ConsistentStep ==
  ASSUME NamesFit, Consistent(fs), [SNext]_svars
  PROVE  Consistent(fs')
<1> USE DEF Returns
<1>1. ASSUME NEW n \in Names, Create(n) \/ CmdTouch(n) PROVE Consistent(fs')
  BY <1>1, CreateFacts DEF Create, CmdTouch
<1>2. ASSUME NEW n \in Names, NEW data \in Bodies, Write(n, data) \/ CmdWrite(n, data)
      PROVE  Consistent(fs')
  BY <1>2, WriteFacts, TableAssumption, ZenonT(60) DEF Write, CmdWrite
<1>3. ASSUME NEW n \in Names, Delete(n) \/ CmdRm(n) PROVE Consistent(fs')
  BY <1>3, DeleteFacts DEF Delete, CmdRm
<1>4. ASSUME NEW src \in Names, NEW dst \in Names, NEW enough \in BOOLEAN,
             CmdCp(src, dst, enough)
      PROVE  Consistent(fs')
  BY <1>4, CpFacts, WriteFacts DEF vars
<1>5. ASSUME NEW src \in Names, NEW dst \in Names, NEW enough \in BOOLEAN,
             CmdMv(src, dst, enough)
      PROVE  Consistent(fs')
  BY <1>5, MvFacts DEF vars
<1>6. ASSUME NEW n \in Names, NEW k \in BufLens, Read(n, k) PROVE Consistent(fs')
  BY <1>6 DEF Read
<1>7. ASSUME NEW n \in Names, NEW enough \in BOOLEAN, CmdCat(n, enough)
      PROVE  Consistent(fs')
  BY <1>7 DEF CmdCat
<1>8. CASE UNCHANGED svars
  BY <1>8 DEF svars, vars
<1> QED BY <1>1, <1>2, <1>3, <1>4, <1>5, <1>6, <1>7, <1>8
        DEF SNext, Next, OtherCaller, ShortNames

(* At boot the table is empty. *)
LEMMA ConsistentInit ==
  ASSUME Init
  PROVE  Consistent(fs) /\ UsedSlots(fs) = {}
<1>1. PICK n \in Names :
        fs = [files |-> [i \in Slots |-> [name |-> n, size |-> 0,
                                          used |-> FALSE, data |-> Zeros]],
              count |-> 0]
  BY DEF Init
<1>2. fs \in Tables
  BY <1>1, TableAssumption DEF Tables, File, Zeros
<1>3. UsedSlots(fs) = {} /\ Distinct(fs) /\ fs.count = 0
  BY <1>1 DEF UsedSlots, Distinct
<1> QED BY <1>2, <1>3, FS_EmptySet DEF Consistent

(* The table with its counter stays consistent, with whatever commands and *)
(* calls, for every table size and names that fit a slot.  Consistent(fs)  *)
(* is the invariant: TableConsistent, and that fs has no other fields.     *)
THEOREM TableStaysConsistent ==
  ASSUME NamesFit
  PROVE  SSpec => []TableConsistent
<1>1. SInit => Consistent(fs)
  BY ConsistentInit DEF SInit
<1>2. Consistent(fs) /\ [SNext]_svars => Consistent(fs)'
  BY ConsistentStep
<1>3. Consistent(fs) => TableConsistent
  BY DEF Consistent, Tables, File, Distinct, UsedSlots, TableConsistent, TypeOK
<1> QED BY <1>1, <1>2, <1>3, PTL DEF SSpec

-----------------------------------------------------------------------------
(* Content and the abstract operators, in the words of the lemmas. *)
LEMMA ContentIsView == Content = View(fs)
  BY DEF Content, View, Bytes, FirstBytes

LEMMA ContentIsViewNext == Content' = View(fs')
  BY DEF Content, View, Bytes, FirstBytes, FindFile, Named, First

LEMMA SameCardinality ==
  ASSUME NEW S
  PROVE  Abstract!Cardinality(S) = Cardinality(S)
  BY DEF Cardinality, Abstract!Cardinality

LEMMA AbstractFacts ==
  ASSUME Consistent(fs), NEW n \in Names, NEW data \in Seq(Nat)
  PROVE  /\ Abstract!Room(n) <=> RoomFor(fs, n)
         /\ Abstract!Written(n, data) =
              IF RoomFor(fs, n) THEN Updated(View(fs), n, CutTo(data, TMPFS_DATA_SIZE))
              ELSE View(fs)
         /\ Abstract!Size(n, data) = IF RoomFor(fs, n) THEN WriteSize(data) ELSE -1
<1>1. Abstract!Room(n) <=> RoomFor(fs, n)
  BY ContentIsView, CountIsFiles, SameCardinality DEF Abstract!Room, RoomFor
<1>2. Abstract!Cut(data, TMPFS_DATA_SIZE) = CutTo(data, TMPFS_DATA_SIZE)
  BY DEF Abstract!Cut, Abstract!Least, CutTo, Shorter
<1>3. Abstract!Least(Len(data), TMPFS_DATA_SIZE) = WriteSize(data)
  BY DEF Abstract!Least, WriteSize, Shorter
<1> QED BY <1>1, <1>2, <1>3, ContentIsView
        DEF Abstract!Written, Abstract!Size, Updated

(* Each call and each command is a step of the flat file system. *)
LEMMA CreateRefines ==
  ASSUME NamesFit, Consistent(fs), NEW n \in Names, Returns(TmpfsCreate(fs, n))
  PROVE  Abstract!FCreate(n)
<1>1. << >> \in Seq(Nat) /\ CutTo(<< >>, TMPFS_DATA_SIZE) = << >>
  <2>1. Shorter(Len(<< >>), TMPFS_DATA_SIZE) = 0
    BY TableAssumption DEF Shorter
  <2> QED BY <2>1 DEF CutTo
<1>2. Abstract!Written(n, << >>) = IF RoomFor(fs, n) THEN Updated(View(fs), n, << >>)
                                   ELSE View(fs)
  BY <1>1, AbstractFacts
<1>3. Abstract!Room(n) <=> RoomFor(fs, n)
  BY <1>1, AbstractFacts
<1>4. /\ reply' = [ret |-> IF RoomFor(fs, n) THEN 0 ELSE -1, buf |-> << >>]
      /\ View(fs)[n] # NoFile => View(fs') = View(fs)
      /\ View(fs)[n] = NoFile => View(fs') = IF RoomFor(fs, n)
                                             THEN Updated(View(fs), n, << >>)
                                             ELSE View(fs)
  BY CreateFacts DEF Returns, RoomFor
<1>5. View(fs)[n] # NoFile => RoomFor(fs, n)
  BY DEF RoomFor
<1> QED BY <1>2, <1>3, <1>4, <1>5, ContentIsView, ContentIsViewNext
        DEF Abstract!FCreate, Abstract!Answer

LEMMA WriteRefines ==
  ASSUME NamesFit, Consistent(fs), NEW n \in Names, NEW data \in Seq(Nat),
         Returns(TmpfsWrite(fs, n, data))
  PROVE  Abstract!FWrite(n, data)
  BY WriteFacts, AbstractFacts, ContentIsViewNext
     DEF Returns, Abstract!FWrite, Abstract!Answer

LEMMA ReadRefines ==
  ASSUME Consistent(fs), NEW n \in Names, NEW k \in Nat,
         reply' = TmpfsRead(fs, n, k), UNCHANGED fs
  PROVE  Abstract!FRead(n, k)
<1>1. Content' = Content
  BY ContentIsView, ContentIsViewNext
<1>2. CASE View(fs)[n] = NoFile
  BY <1>1, <1>2, ReadFacts, ContentIsView DEF Abstract!FRead, Abstract!Answer
<1>3. CASE View(fs)[n] # NoFile
  <2>1. /\ View(fs)[n] \in Seq(Nat)
        /\ reply' = [ret |-> Shorter(Len(View(fs)[n]), k), buf |-> CutTo(View(fs)[n], k)]
    BY <1>3, ReadFacts
  <2>2. /\ Abstract!Least(Len(View(fs)[n]), k) = Shorter(Len(View(fs)[n]), k)
        /\ Abstract!Cut(View(fs)[n], k) = CutTo(View(fs)[n], k)
    BY DEF Abstract!Least, Abstract!Cut, Shorter, CutTo
  <2> QED BY <1>1, <1>3, <2>1, <2>2, ContentIsView DEF Abstract!FRead, Abstract!Answer
<1> QED BY <1>2, <1>3

LEMMA DeleteRefines ==
  ASSUME Consistent(fs), NEW n \in Names, Returns(TmpfsDelete(fs, n))
  PROVE  Abstract!FDelete(n)
<1>1. CASE View(fs)[n] = NoFile
  <2>1. fs' = fs /\ reply' = [ret |-> -1, buf |-> << >>]
    BY <1>1, DeleteFacts DEF Returns
  <2> QED BY <1>1, <2>1, ContentIsView, ContentIsViewNext
          DEF Abstract!FDelete, Abstract!Answer
<1>2. CASE View(fs)[n] # NoFile
  <2>1. reply' = [ret |-> 0, buf |-> << >>] /\ View(fs') = Updated(View(fs), n, NoFile)
    BY <1>2, DeleteFacts DEF Returns
  <2> QED BY <1>2, <2>1, ContentIsView, ContentIsViewNext
          DEF Abstract!FDelete, Abstract!Answer, Updated
<1> QED BY <1>1, <1>2

LEMMA CopyRefines ==
  ASSUME NamesFit, Consistent(fs), NEW src \in Names, NEW dst \in Names,
         NEW enough \in BOOLEAN, CmdCp(src, dst, enough)
  PROVE  Abstract!FCopy(src, dst) \/ UNCHANGED <<fs, reply>>
<1>1. CASE UNCHANGED vars
  BY <1>1 DEF vars
<1>2. CASE /\ View(fs)[src] # NoFile /\ View(fs)[src] \in Seq(Nat)
           /\ Returns(TmpfsWrite(fs, dst, View(fs)[src]))
  <2>1. Abstract!FWrite(dst, View(fs)[src])
    BY <1>2, WriteRefines
  <2> QED BY <1>2, <2>1, ContentIsView DEF Abstract!FWrite, Abstract!FCopy
<1> QED BY <1>1, <1>2, CpFacts DEF Returns

LEMMA MoveRefines ==
  ASSUME NamesFit, Consistent(fs), NEW src \in Names, NEW dst \in Names,
         NEW enough \in BOOLEAN, CmdMv(src, dst, enough)
  PROVE  Abstract!FMove(src, dst) \/ UNCHANGED <<fs, reply>>
<1>1. CASE UNCHANGED vars
  BY <1>1 DEF vars
<1>2. CASE /\ View(fs)[src] # NoFile /\ View(fs)[src] \in Seq(Nat)
           /\ View(fs') = Updated(IF RoomFor(fs, dst)
                                  THEN Updated(View(fs), dst, View(fs)[src])
                                  ELSE View(fs), src, NoFile)
           /\ reply' = [ret |-> 0, buf |-> << >>]
  <2>1. TMPFS_DATA_SIZE \in Nat /\ Len(View(fs)[src]) <= TMPFS_DATA_SIZE
    BY <1>2, ReadFacts, TableAssumption
  <2>2. CutTo(View(fs)[src], TMPFS_DATA_SIZE) = View(fs)[src]
    BY <1>2, <2>1, CutFacts
  <2>3. View(fs') = Updated(Abstract!Written(dst, View(fs)[src]), src, NoFile)
    BY <1>2, <2>2, AbstractFacts
  <2> QED BY <1>2, <2>3, ContentIsView, ContentIsViewNext
          DEF Abstract!FMove, Abstract!Answer, Updated
<1> QED BY <1>1, <1>2, MvFacts

(* The slot table with every command and call on it implements the flat    *)
(* file system, for every table size, file size and names that fit a slot: *)
(* each step is a step of FlatFs on Content, or leaves Content and reply.  *)
THEOREM TableRefinesFlatFs ==
  ASSUME NamesFit
  PROVE  SSpec => ImplementsFlatFs
<1>1. SInit => Consistent(fs)
  BY ConsistentInit DEF SInit
<1>2. Consistent(fs) /\ [SNext]_svars => Consistent(fs)'
  BY ConsistentStep
<1>3. SInit => Abstract!FInit
  <2> SUFFICES ASSUME SInit PROVE Abstract!FInit
    OBVIOUS
  <2>1. \A n \in Names : Content[n] = NoFile
    <3> SUFFICES ASSUME NEW n \in Names PROVE View(fs)[n] = NoFile
      BY ContentIsView
    <3>1. Consistent(fs) /\ UsedSlots(fs) = {}
      BY ConsistentInit DEF SInit
    <3>2. FindFile(fs, n) = NoSlot
      BY <3>1, FindFileFacts DEF UsedSlots
    <3> QED BY <3>1, <3>2, ViewFacts
  <2>2. Content = [n \in Names |-> NoFile]
    BY <2>1 DEF Content
  <2> QED BY <2>2 DEF SInit, Init, Abstract!FInit
<1>4. Consistent(fs) /\ [SNext]_svars => [Abstract!FNext]_(Abstract!fsvars)
  <2> SUFFICES ASSUME Consistent(fs), [SNext]_svars
               PROVE  Abstract!FNext \/ UNCHANGED <<fs, reply>>
    BY ContentIsView, ContentIsViewNext DEF Abstract!fsvars
  <2> USE DEF Abstract!FNext
  <2>1. ASSUME NEW n \in Names, Create(n) \/ CmdTouch(n) PROVE Abstract!FNext
    BY <2>1, CreateRefines DEF Create, CmdTouch
  <2>2. ASSUME NEW n \in Names, NEW data \in Bodies, Write(n, data) \/ CmdWrite(n, data)
        PROVE  Abstract!FNext
    BY <2>2, WriteRefines, TableAssumption DEF Write, CmdWrite
  <2>3. ASSUME NEW n \in Names, NEW k \in BufLens, Read(n, k) PROVE Abstract!FNext
    BY <2>3, ReadRefines, TableAssumption DEF Read
  <2>4. ASSUME NEW n \in Names, Delete(n) \/ CmdRm(n) PROVE Abstract!FNext
    BY <2>4, DeleteRefines DEF Delete, CmdRm
  <2>5. ASSUME NEW n \in Names, NEW enough \in BOOLEAN, CmdCat(n, enough)
        PROVE  Abstract!FNext \/ UNCHANGED <<fs, reply>>
    BY <2>5, ReadRefines, TableAssumption, BufferAssumption DEF CmdCat
  <2>6. ASSUME NEW src \in Names, NEW dst \in Names, NEW enough \in BOOLEAN,
               CmdCp(src, dst, enough)
        PROVE  Abstract!FNext \/ UNCHANGED <<fs, reply>>
    BY <2>6, CopyRefines
  <2>7. ASSUME NEW src \in Names, NEW dst \in Names, NEW enough \in BOOLEAN,
               CmdMv(src, dst, enough)
        PROVE  Abstract!FNext \/ UNCHANGED <<fs, reply>>
    BY <2>7, MoveRefines
  <2>8. CASE UNCHANGED svars
    BY <2>8 DEF svars, vars
  <2> HIDE DEF Abstract!FNext
  <2> QED BY <2>1, <2>2, <2>3, <2>4, <2>5, <2>6, <2>7, <2>8
          DEF SNext, Next, OtherCaller, ShortNames
<1> QED BY <1>1, <1>2, <1>3, <1>4, PTL DEF SSpec, ImplementsFlatFs, Abstract!FSpec

-----------------------------------------------------------------------------
(* No command changes or removes a file it does not name, although all of  *)
(* them share the slots: cmd_rm, cmd_mv, cmd_cp, cmd_touch and cmd_write   *)
(* touch the file of their last (or, for the removed one, first) argument. *)
THEOREM OnlyNamedFilesAreChanged ==
  ASSUME NamesFit
  PROVE  SSpec => OnlyNamedFilesChange
<1> DEFINE Named1(n) ==
             (Content'[n] # Content[n] /\ cmd'.op # "call") =>
               IF Content'[n] = NoFile
               THEN cmd'.op \in {"rm", "mv"} /\ cmd'.named[1] = n
               ELSE /\ cmd'.op \in {"touch", "write", "cp", "mv"}
                    /\ cmd'.named[Len(cmd'.named)] = n
<1>1. SInit => Consistent(fs)
  BY ConsistentInit DEF SInit
<1>2. Consistent(fs) /\ [SNext]_svars => Consistent(fs)'
  BY ConsistentStep
<1>3. Consistent(fs) /\ [SNext]_svars => [\A n \in Names : Named1(n)]_svars
  <2> SUFFICES ASSUME Consistent(fs), SNext, NEW m \in Names,
                      View(fs')[m] # View(fs)[m], cmd'.op # "call"
               PROVE  IF View(fs')[m] = NoFile
                      THEN cmd'.op \in {"rm", "mv"} /\ cmd'.named[1] = m
                      ELSE /\ cmd'.op \in {"touch", "write", "cp", "mv"}
                           /\ cmd'.named[Len(cmd'.named)] = m
    BY ContentIsView, ContentIsViewNext
  <2> DEFINE Goal == IF View(fs')[m] = NoFile
                     THEN cmd'.op \in {"rm", "mv"} /\ cmd'.named[1] = m
                     ELSE /\ cmd'.op \in {"touch", "write", "cp", "mv"}
                          /\ cmd'.named[Len(cmd'.named)] = m
  <2>1. ASSUME NEW n \in Names, CmdTouch(n) PROVE Goal
    <3>1. /\ cmd'.op = "touch" /\ cmd'.named = <<n>>
          /\ fs' = TmpfsCreate(fs, n).fs
      BY <2>1 DEF CmdTouch, Report, Returns
    <3>2. View(fs') = Updated(View(fs), n, << >>)
      BY <3>1, CreateFacts
    <3>3. << >> # NoFile
      BY TableAssumption, EmptySeq
    <3>4. m = n /\ View(fs')[m] # NoFile
      BY <3>2, <3>3 DEF Updated, View
    <3> QED BY <3>1, <3>4
  <2>2. ASSUME NEW n \in Names, NEW data \in Bodies, CmdWrite(n, data) PROVE Goal
    <3>1. /\ cmd'.op = "write" /\ cmd'.named = <<n>>
          /\ fs' = TmpfsWrite(fs, n, data).fs /\ data \in Seq(Nat)
      BY <2>2, TableAssumption DEF CmdWrite, Report, Returns
    <3>2. View(fs') = Updated(View(fs), n, CutTo(data, TMPFS_DATA_SIZE))
      BY <3>1, WriteFacts
    <3>3. CutTo(data, TMPFS_DATA_SIZE) # NoFile
      BY <3>1, CutFacts, TableAssumption
    <3>4. m = n /\ View(fs')[m] # NoFile
      BY <3>2, <3>3, UpdatedFacts
    <3> QED BY <3>1, <3>4
  <2>3. ASSUME NEW n \in Names, CmdRm(n) PROVE Goal
    <3>1. /\ cmd'.op = "rm" /\ cmd'.named = <<n>>
          /\ View(fs') = Updated(View(fs), n, NoFile)
      BY <2>3, DeleteFacts DEF CmdRm, Report, Returns
    <3>2. m = n /\ View(fs')[m] = NoFile
      BY <3>1, UpdatedFacts
    <3> QED BY <3>1, <3>2
  <2>4. ASSUME NEW n \in Names, NEW enough \in BOOLEAN, CmdCat(n, enough) PROVE Goal
    BY <2>4 DEF CmdCat
  <2>5. ASSUME NEW src \in Names, NEW dst \in Names, NEW enough \in BOOLEAN,
               CmdCp(src, dst, enough)
        PROVE  Goal
    <3>1. /\ View(fs)[src] \in Seq(Nat)
          /\ fs' = TmpfsWrite(fs, dst, View(fs)[src]).fs
          /\ cmd' = [op |-> "cp", named |-> <<src, dst>>, ok |-> TRUE]
      BY <2>5, CpFacts DEF vars
    <3>2. View(fs') = Updated(View(fs), dst, CutTo(View(fs)[src], TMPFS_DATA_SIZE))
      BY <3>1, WriteFacts
    <3>3. CutTo(View(fs)[src], TMPFS_DATA_SIZE) # NoFile
      BY <3>1, CutFacts, TableAssumption
    <3>4. m = dst /\ View(fs')[m] # NoFile
      <4> DEFINE c == CutTo(View(fs)[src], TMPFS_DATA_SIZE)
      <4>1. View(fs') = Updated(View(fs), dst, c) /\ c # NoFile
        BY <3>2, <3>3
      <4> HIDE DEF c
      <4> QED BY <4>1 DEF Updated, View
    <3> QED BY <3>1, <3>4
  <2>6. ASSUME NEW src \in Names, NEW dst \in Names, NEW enough \in BOOLEAN,
               CmdMv(src, dst, enough)
        PROVE  Goal
    <3>1. /\ View(fs') = Updated(IF RoomFor(fs, dst)
                                 THEN Updated(View(fs), dst, View(fs)[src])
                                 ELSE View(fs), src, NoFile)
          /\ cmd' = [op |-> "mv", named |-> <<src, dst>>, ok |-> TRUE]
          /\ View(fs)[src] # NoFile
      BY <2>6, MvFacts DEF vars
    <3>2. m = src => View(fs')[m] = NoFile
      BY <3>1 DEF Updated, View
    <3>3. m # src => m = dst /\ View(fs')[m] = View(fs)[src]
      BY <3>1 DEF Updated, View
    <3> QED BY <3>1, <3>2, <3>3
  <2>7. CASE OtherCaller
    BY <2>7 DEF OtherCaller, Report
  <2> QED BY <2>1, <2>2, <2>3, <2>4, <2>5, <2>6, <2>7 DEF SNext, ShortNames
<1> QED BY <1>1, <1>2, <1>3, PTL DEF SSpec, OnlyNamedFilesChange

(* A mv that reports success has moved the bytes, unless the destination   *)
(* is new and the table full: the case cmd_mv does not notice.             *)
THEOREM MvMovesBytes ==
  ASSUME NamesFit
  PROVE  SSpec => MvKeepsBytes
<1> DEFINE Kept == LET src == cmd'.named[1]
                       dst == cmd'.named[2]
                   IN  (cmd'.op = "mv" /\ cmd'.ok /\ cmd' # cmd /\ src # dst) =>
                         \/ Content'[dst] = Content[src]
                         \/ Content[dst] = NoFile /\ fs.count = TMPFS_MAX_FILES
<1>1. SInit => Consistent(fs)
  BY ConsistentInit DEF SInit
<1>2. Consistent(fs) /\ [SNext]_svars => Consistent(fs)'
  BY ConsistentStep
<1>3. Consistent(fs) /\ [SNext]_svars => [Kept]_svars
  <2> SUFFICES ASSUME Consistent(fs), SNext, cmd'.op = "mv", cmd'.ok,
                      cmd'.named[1] # cmd'.named[2]
               PROVE  \/ View(fs')[cmd'.named[2]] = View(fs)[cmd'.named[1]]
                      \/ /\ View(fs)[cmd'.named[2]] = NoFile
                         /\ fs.count = TMPFS_MAX_FILES
    BY ContentIsView, ContentIsViewNext
  <2>1. PICK src \in Names, dst \in Names, enough \in BOOLEAN : CmdMv(src, dst, enough)
    BY DEF SNext, ShortNames, OtherCaller, CmdTouch, CmdWrite, CmdCat, CmdRm, CmdCp,
           Refused, Report
  <2>2. /\ View(fs') = Updated(IF RoomFor(fs, dst)
                               THEN Updated(View(fs), dst, View(fs)[src])
                               ELSE View(fs), src, NoFile)
        /\ cmd' = [op |-> "mv", named |-> <<src, dst>>, ok |-> TRUE]
    BY <2>1, MvFacts
  <2>3. src # dst
    BY <2>2
  <2>4. CASE RoomFor(fs, dst)
    <3>1. View(fs')[dst] = View(fs)[src]
      BY <2>2, <2>3, <2>4 DEF Updated, View
    <3> QED BY <2>2, <3>1
  <2>5. CASE ~RoomFor(fs, dst)
    <3>1. View(fs)[dst] = NoFile /\ fs.count = TMPFS_MAX_FILES
      BY <2>5, FullTable, TableAssumption DEF RoomFor
    <3> QED BY <2>2, <3>1
  <2> QED BY <2>4, <2>5
<1> QED BY <1>1, <1>2, <1>3, PTL DEF SSpec, MvKeepsBytes

-----------------------------------------------------------------------------
(* Induction and recursion along a sequence, with sets and functions in    *)
(* the place of predicates and operators.                                  *)

(* A set that holds 0 and with every number the next holds all numbers. *)
LEMMA SetInduction ==
  ASSUME NEW L \in Nat, NEW P, 0 \in P,
         \A n \in 0..(L - 1) : n \in P => n + 1 \in P
  PROVE  0..L \subseteq P
<1> SUFFICES ASSUME ~(0..L \subseteq P) PROVE FALSE
  OBVIOUS
<1> DEFINE S == {n \in 0..L : n \notin P}
<1>1. S \in SUBSET Nat /\ S # {}
  OBVIOUS
<1>2. OpToRel(<, Nat) = Less
  BY Zenon DEF OpToRel, Less
<1>3. IsWellFoundedOn(Less, Nat)
  BY <1>2, NatLessThanWellFounded
<1>4. PICK x \in S : \A y \in S : ~(<<y, x>> \in Less)
  BY <1>1, <1>3, WFMin
<1>5. \A y \in S : ~(<<y, x>> \in Less) => x <= y
  BY DEF Less
<1>6. x \in 0..L /\ x \notin P /\ x # 0
  OBVIOUS
<1>7. x - 1 \in 0..(L - 1) /\ x - 1 < x
  BY <1>6
<1>8. x - 1 \in P
  <2>1. PICK w \in 0..(L - 1) : w = x - 1
    BY <1>7
  <2>2. \A y \in S : x <= y
    BY <1>4, <1>5
  <2>3. w \notin S
    <3> HIDE DEF S
    <3> QED BY <1>6, <2>1, <2>2
  <2> QED BY <2>1, <2>3
<1> QED BY <1>6, <1>7, <1>8

(* The values that a step function G gives one after the other exist. *)
Steps(g, m, X, x0, G) == /\ g \in [0..m -> X] /\ g[0] = x0
                         /\ \A n \in 1..m : g[n] = G[<<g[n - 1], n>>]
LEMMA Iteration ==
  ASSUME NEW L \in Nat, NEW X, NEW x0 \in X, NEW G \in [X \X (1..L) -> X]
  PROVE  \E g : Steps(g, L, X, x0, G)
<1> DEFINE P == {m \in 0..L : \E g : Steps(g, m, X, x0, G)}
<1>1. 0 \in P
  <2>1. Steps([i \in 0..0 |-> x0], 0, X, x0, G)
    BY DEF Steps
  <2>2. \E g : Steps(g, 0, X, x0, G)
    BY <2>1
  <2> QED BY <2>2
<1>2. ASSUME NEW m \in 0..(L - 1), m \in P PROVE m + 1 \in P
  <2>1. PICK g : Steps(g, m, X, x0, G)
    BY <1>2
  <2> DEFINE v == G[<<g[m], m + 1>>]
             h == [i \in 0..(m + 1) |-> IF i = m + 1 THEN v ELSE g[i]]
  <2>2. g[m] \in X /\ m + 1 \in 1..L
    BY <2>1 DEF Steps
  <2>3. v \in X
    BY <2>2
  <2>4. h \in [0..(m + 1) -> X] /\ h[0] = x0
    BY <2>1, <2>3 DEF Steps
  <2>5. ASSUME NEW n \in 1..(m + 1) PROVE h[n] = G[<<h[n - 1], n>>]
    <3>1. n - 1 \in 0..m /\ h[n - 1] = g[n - 1]
      OBVIOUS
    <3>2. CASE n = m + 1
      <4>1. n - 1 = m /\ h[n] = v
        BY <3>2
      <4> HIDE DEF h
      <4> QED BY <3>1, <3>2, <4>1
    <3>3. CASE n # m + 1
      <4>1. n \in 1..m /\ h[n] = g[n]
        BY <3>3
      <4> QED BY <2>1, <3>1, <4>1 DEF Steps
    <3> QED BY <3>2, <3>3
  <2>6. Steps(h, m + 1, X, x0, G)
    BY <2>4, <2>5 DEF Steps
  <2>7. \E f : Steps(f, m + 1, X, x0, G)
    BY <2>6
  <2> QED BY <2>2, <2>7
<1>3. 0..L \subseteq P
  <2> HIDE DEF P
  <2> QED BY <1>1, <1>2, SetInduction
<1>4. L \in P
  BY <1>3
<1> QED BY <1>4

-----------------------------------------------------------------------------
(* Sequences taken apart and put together. *)

(* A concatenation is cut where it was put together. *)
LEMMA CutConcat ==
  ASSUME NEW S, NEW p \in Seq(S), NEW q \in Seq(S)
  PROVE  /\ SubSeq(p \o q, 1, Len(p)) = p
         /\ SubSeq(p \o q, Len(p) + 1, Len(p \o q)) = q
         /\ Len(p \o q) = Len(p) + Len(q) /\ p \o q \in Seq(S)
<1>1. p \o q \in Seq(S) /\ Len(p \o q) = Len(p) + Len(q)
  BY ConcatProperties
<1>2. Len(p) \in Nat /\ Len(q) \in Nat
  BY LenProperties
<1>3. \A i \in 1..(Len(p) + Len(q)) :
        (p \o q)[i] = IF i <= Len(p) THEN p[i] ELSE q[i - Len(p)]
  BY ConcatProperties
<1>4. SubSeq(p \o q, 1, Len(p)) = p
  <2>1. /\ SubSeq(p \o q, 1, Len(p)) \in Seq(S)
        /\ Len(SubSeq(p \o q, 1, Len(p))) = Len(p)
        /\ \A i \in 1..Len(p) : SubSeq(p \o q, 1, Len(p))[i] = (p \o q)[i]
    BY <1>1, <1>2
  <2> QED BY <1>2, <1>3, <2>1, SeqEqual
<1>5. SubSeq(p \o q, Len(p) + 1, Len(p \o q)) = q
  <2>1. /\ SubSeq(p \o q, Len(p) + 1, Len(p \o q)) \in Seq(S)
        /\ Len(SubSeq(p \o q, Len(p) + 1, Len(p \o q))) = Len(q)
        /\ \A i \in 1..Len(q) :
             SubSeq(p \o q, Len(p) + 1, Len(p \o q))[i] = (p \o q)[Len(p) + i]
    BY <1>1, <1>2
  <2>2. \A i \in 1..Len(q) : (p \o q)[Len(p) + i] = q[i]
    BY <1>2, <1>3
  <2> QED BY <2>1, <2>2, SeqEqual
<1> QED BY <1>1, <1>4, <1>5

-----------------------------------------------------------------------------
(* Texts are sequences of characters and line ends.  Joined[ls] gives the  *)
(* text of the first n lines: the function Join is defined with.           *)
Text == Seq(Printable \cup {NL})
Joined(ls) == CHOOSE f : f = [n \in DOMAIN ls |->
                                IF n = 1 THEN ls[1] ELSE f[n - 1] \o <<NL>> \o ls[n]]

LEMMA JoinIsJoined ==
  ASSUME NEW ls
  PROVE  Join(ls) = Joined(ls)[Len(ls)]
BY DEF Join, Joined

LEMMA LineEnd == <<NL>> \in Text /\ << >> \in Text
BY DEF Text

LEMMA ConcatIsText ==
  ASSUME NEW s \in Text, NEW t \in Text
  PROVE  s \o t \in Text
BY ConcatProperties DEF Text

LEMMA TextAssociative ==
  \A s, t, u \in Text : (s \o t) \o u = s \o (t \o u)
BY ConcatAssociative DEF Text

LEMMA TextWithNothing ==
  \A s \in Text : s \o << >> = s /\ << >> \o s = s
BY ConcatEmptySeq DEF Text

(* The recursion is well founded, and its values are texts. *)
LEMMA JoinedFacts ==
  ASSUME NEW ls \in Seq(Text), ls # << >>
  PROVE  /\ Len(ls) \in Nat \ {0}
         /\ Joined(ls) \in [1..Len(ls) -> Text]
         /\ Joined(ls)[1] = ls[1]
         /\ \A n \in 1..(Len(ls) - 1) :
              Joined(ls)[n + 1] = Joined(ls)[n] \o <<NL>> \o ls[n + 1]
<1> DEFINE N == Len(ls)
           G == [a \in Text \X (1..(N - 1)) |-> a[1] \o <<NL>> \o ls[a[2] + 1]]
<1>1. N \in Nat \ {0} /\ DOMAIN ls = 1..N /\ \A n \in 1..N : ls[n] \in Text
  BY LenProperties, EmptySeq, ElementOfSeq
<1>2. G \in [Text \X (1..(N - 1)) -> Text]
  <2>1. ASSUME NEW a \in Text \X (1..(N - 1)) PROVE a[1] \o <<NL>> \o ls[a[2] + 1] \in Text
    <3>1. a[1] \in Text /\ a[2] \in 1..(N - 1) /\ a[2] + 1 \in 1..N
      BY <1>1
    <3>2. ls[a[2] + 1] \in Text
      BY <1>1, <3>1
    <3>3. a[1] \o <<NL>> \in Text
      BY <3>1, ConcatIsText, LineEnd
    <3> QED BY <3>2, <3>3, ConcatIsText
  <2> QED BY <2>1
<1>3. \A a \in Text, k \in 1..(N - 1) : G[<<a, k>>] = a \o <<NL>> \o ls[k + 1]
  OBVIOUS
<1> HIDE DEF G
<1>4. PICK g : Steps(g, N - 1, Text, ls[1], G)
  <2>1. N - 1 \in Nat /\ ls[1] \in Text
    BY <1>1
  <2> HIDE DEF N
  <2> QED BY <1>2, <2>1, Iteration
<1> DEFINE Is(f) == f = [n \in DOMAIN ls |->
                           IF n = 1 THEN ls[1] ELSE f[n - 1] \o <<NL>> \o ls[n]]
           f0 == [n \in 1..N |-> g[n - 1]]
<1>5. Is(f0)
  <2>1. DOMAIN f0 = DOMAIN ls
    BY <1>1
  <2>2. ASSUME NEW n \in 1..N
        PROVE  f0[n] = IF n = 1 THEN ls[1] ELSE f0[n - 1] \o <<NL>> \o ls[n]
    <3>1. f0[n] = g[n - 1]
      OBVIOUS
    <3>2. CASE n = 1
      BY <1>4, <3>1, <3>2 DEF Steps
    <3>3. CASE n # 1
      <4>1. PICK k \in 1..(N - 1) : k = n - 1
        BY <1>1, <3>3
      <4>2. g[k] = G[<<g[k - 1], k>>] /\ g[k - 1] \in Text /\ k + 1 = n
        <5>1. k - 1 \in 0..(N - 1) /\ k + 1 = n
          BY <1>1, <4>1
        <5> HIDE DEF N
        <5> QED BY <1>4, <5>1 DEF Steps
      <4>3. f0[n - 1] = g[k - 1]
        BY <4>1
      <4> QED BY <1>3, <3>1, <3>3, <4>1, <4>2, <4>3
    <3> QED BY <3>2, <3>3
  <2> HIDE DEF f0
  <2>3. f0 = [n \in DOMAIN ls |-> f0[n]]
    BY <2>1, SMTT(60) DEF f0
  <2> QED BY <1>1, <2>2, <2>3
<1>6. Is(Joined(ls))
  <2> HIDE DEF f0
  <2>1. \E f : Is(f)
    BY <1>5
  <2> QED BY <2>1 DEF Joined
<1>7. /\ \A n \in 1..N : Joined(ls)[n] = IF n = 1 THEN ls[1]
                                       ELSE Joined(ls)[n - 1] \o <<NL>> \o ls[n]
      /\ DOMAIN Joined(ls) = 1..N
      /\ Joined(ls) = [n \in 1..N |-> Joined(ls)[n]]
  BY <1>1, <1>6
<1>8. Joined(ls)[1] = ls[1]
  <2>1. 1 \in 1..N
    BY <1>1
  <2> QED BY <1>7, <2>1
<1>9. ASSUME NEW n \in 1..(N - 1)
      PROVE  Joined(ls)[n + 1] = Joined(ls)[n] \o <<NL>> \o ls[n + 1]
  <2>1. n + 1 \in 1..N /\ n + 1 # 1 /\ (n + 1) - 1 = n
    BY <1>1
  <2> QED BY <1>7, <2>1
<1> DEFINE P == {n \in 0..(N - 1) : Joined(ls)[n + 1] \in Text}
<1>10. 0..(N - 1) \subseteq P
  <2>1. 0 \in P
    BY <1>1, <1>8
  <2>2. ASSUME NEW n \in 0..((N - 1) - 1), n \in P PROVE n + 1 \in P
    <3>1. n + 1 \in 1..(N - 1) /\ Joined(ls)[n + 1] \in Text /\ n + 2 \in 1..N
      BY <1>1, <2>2
    <3>2. Joined(ls)[(n + 1) + 1] = Joined(ls)[n + 1] \o <<NL>> \o ls[(n + 1) + 1]
      BY <1>9, <3>1
    <3>3. ls[(n + 1) + 1] \in Text
      BY <1>1, <3>1
    <3>4. Joined(ls)[(n + 1) + 1] \in Text
      <4>1. Joined(ls)[n + 1] \o <<NL>> \in Text
        BY <3>1, ConcatIsText, LineEnd
      <4> QED BY <3>2, <3>3, <4>1, ConcatIsText
    <3> QED BY <1>1, <3>1, <3>4
  <2>3. N - 1 \in Nat
    BY <1>1
  <2> HIDE DEF P, N
  <2> QED BY <2>1, <2>2, <2>3, SetInduction
<1>11. ASSUME NEW n \in 1..N PROVE Joined(ls)[n] \in Text
  <2>1. PICK k \in 0..(N - 1) : n = k + 1
    BY <1>1
  <2> QED BY <1>10, <2>1
<1> QED BY <1>1, <1>7, <1>8, <1>9, <1>11

(* One more line. *)
LEMMA JoinAppend ==
  ASSUME NEW ls \in Seq(Text), NEW l \in Text
  PROVE  /\ Join(Append(ls, l)) \in Text
         /\ ls = << >> => Join(Append(ls, l)) = l
         /\ ls # << >> => /\ Join(ls) \in Text
                          /\ Join(Append(ls, l)) = Join(ls) \o <<NL>> \o l
<1> DEFINE m == Append(ls, l)  N == Len(ls)
<1>1. /\ m \in Seq(Text) /\ m # << >> /\ Len(m) = N + 1 /\ N \in Nat
      /\ \A i \in 1..N : m[i] = ls[i]
      /\ m[N + 1] = l
  BY AppendProperties, LenProperties
<1>2. /\ Joined(m) \in [1..(N + 1) -> Text] /\ Joined(m)[1] = m[1]
      /\ \A n \in 1..N : Joined(m)[n + 1] = Joined(m)[n] \o <<NL>> \o m[n + 1]
  <2>1. (N + 1) - 1 = N
    BY <1>1
  <2> HIDE DEF m, N
  <2> QED BY <1>1, <2>1, JoinedFacts
<1>3. Join(m) = Joined(m)[N + 1] /\ Join(m) \in Text
  <2> HIDE DEF m, N
  <2> QED BY <1>1, <1>2, JoinIsJoined
<1>4. CASE ls = << >>
  <2>1. N = 0 /\ 1 = N + 1
    BY <1>4
  <2> HIDE DEF m, N
  <2> QED BY <1>1, <1>2, <1>3, <1>4, <2>1
<1>5. CASE ls # << >>
  <2>1. /\ N \in Nat \ {0} /\ Joined(ls) \in [1..N -> Text] /\ Joined(ls)[1] = ls[1]
        /\ \A n \in 1..(N - 1) : Joined(ls)[n + 1] = Joined(ls)[n] \o <<NL>> \o ls[n + 1]
    BY <1>5, JoinedFacts
  <2> DEFINE P == {k \in 0..(N - 1) : Joined(m)[k + 1] = Joined(ls)[k + 1]}
  <2>2. 0 \in P
    <3>1. 0 \in 0..(N - 1) /\ 1 \in 1..N /\ 0 + 1 = 1
      BY <2>1
    <3> HIDE DEF m, N
    <3> QED BY <1>1, <1>2, <2>1, <3>1
  <2>3. ASSUME NEW k \in 0..((N - 1) - 1), k \in P PROVE k + 1 \in P
    <3>1. PICK j \in 1..(N - 1) : j = k + 1
      BY <2>1
    <3>2. j \in 1..N /\ j + 1 \in 1..N /\ Joined(m)[j] = Joined(ls)[j]
      BY <2>1, <2>3, <3>1
    <3>3. Joined(m)[j + 1] = Joined(m)[j] \o <<NL>> \o m[j + 1]
      BY <1>2, <3>2
    <3>4. Joined(ls)[j + 1] = Joined(ls)[j] \o <<NL>> \o ls[j + 1]
      BY <2>1
    <3>5. m[j + 1] = ls[j + 1]
      BY <1>1, <3>2
    <3>6. Joined(m)[j + 1] = Joined(ls)[j + 1]
      BY <3>2, <3>3, <3>4, <3>5
    <3> QED BY <2>1, <3>1, <3>6
  <2>4. 0..(N - 1) \subseteq P
    <3>1. N - 1 \in Nat
      BY <2>1
    <3> HIDE DEF P, N
    <3> QED BY <2>2, <2>3, <3>1, SetInduction
  <2>5. Joined(m)[N] = Joined(ls)[N] /\ N \in 1..N
    <3>1. PICK k \in 0..(N - 1) : N = k + 1
      BY <2>1
    <3> QED BY <2>4, <3>1
  <2>6. Join(ls) = Joined(ls)[N] /\ Join(ls) \in Text
    <3> HIDE DEF m
    <3> QED BY <2>1, <2>5, JoinIsJoined
  <2>7. Joined(m)[N + 1] = Joined(m)[N] \o <<NL>> \o m[N + 1]
    BY <1>2, <2>5
  <2> HIDE DEF m, N
  <2> QED BY <1>1, <1>3, <1>5, <2>5, <2>6, <2>7 DEF m
<1> QED BY <1>3, <1>4, <1>5

(* Concatenating one more element. *)
LEMMA ConcatTake ==
  ASSUME NEW S, NEW c \in Seq(S), NEW b \in Seq(S), NEW n \in 0..(Len(b) - 1)
  PROVE  /\ SubSeq(b, 1, n) \in Seq(S) /\ Len(SubSeq(b, 1, n)) = n
         /\ b[n + 1] \in S
         /\ c \o SubSeq(b, 1, n + 1) = Append(c \o SubSeq(b, 1, n), b[n + 1])
<1>1. Len(b) \in Nat /\ n \in Int /\ n + 1 \in 1..Len(b) /\ n + 1 \in Int
  BY LenProperties
<1>2. b[n + 1] \in S /\ \A i \in 1..(n + 1) : b[i] \in S
  BY <1>1, ElementOfSeq
<1>3. SubSeq(b, 1, n) \in Seq(S) /\ Len(SubSeq(b, 1, n)) = n
  BY <1>1, <1>2, SubSeqProperties
<1>4. SubSeq(b, 1, n + 1) = SubSeq(b, 1, n) \o <<b[n + 1]>>
  <2>1. (n + 1) - 1 = n /\ 1 \in 1..Len(b) /\ n + 1 \in 1..Len(b)
    BY <1>1
  <2>2. SubSeq(b, 1, n + 1) = SubSeq(b, 1, (n + 1) - 1) \o <<b[n + 1]>>
    BY <2>1, SubSeqRecursiveSecond
  <2> QED BY <2>1, <2>2
<1>5. <<b[n + 1]>> \in Seq(S)
  BY <1>2
<1>6. c \o SubSeq(b, 1, n + 1) = (c \o SubSeq(b, 1, n)) \o <<b[n + 1]>>
  BY <1>3, <1>4, <1>5, ConcatAssociative
<1>7. c \o SubSeq(b, 1, n) \in Seq(S)
  BY <1>3, ConcatProperties
<1>8. Append(c \o SubSeq(b, 1, n), b[n + 1]) = (c \o SubSeq(b, 1, n)) \o <<b[n + 1]>>
  BY <1>2, <1>7, AppendIsConcat
<1> QED BY <1>2, <1>3, <1>6, <1>8

(* A text may be cut anywhere: in front of q, inside of a line, it falls   *)
(* apart into the text before and the text after.                          *)
LEMMA JoinSplit ==
  ASSUME NEW a \in Seq(Text), NEW p \in Text, NEW q \in Text, NEW b \in Seq(Text)
  PROVE  /\ Join(Append(a, p \o q) \o b) = Join(Append(a, p)) \o Join(<<q>> \o b)
         /\ Join(Append(a, p)) \in Text /\ Join(<<q>> \o b) \in Text
<1> DEFINE c == Append(a, p \o q)
           before == Join(Append(a, p))
           Is(n) == /\ Join(c \o SubSeq(b, 1, n)) = before \o Join(<<q>> \o SubSeq(b, 1, n))
                    /\ Join(<<q>> \o SubSeq(b, 1, n)) \in Text
           P == {n \in 0..Len(b) : Is(n)}
<1>1. /\ p \o q \in Text /\ c \in Seq(Text) /\ <<q>> \in Seq(Text)
      /\ c # << >> /\ <<q>> # << >> /\ before \in Text
  <2>1. p \o q \in Text
    BY ConcatIsText
  <2>2. c \in Seq(Text) /\ c # << >>
    BY <2>1, AppendProperties
  <2>3. <<q>> \in Seq(Text) /\ <<q>> # << >>
    OBVIOUS
  <2> QED BY <2>1, <2>2, <2>3, JoinAppend, Zenon
<1>2. Join(c) = before \o q
  <2>1. CASE a = << >>
    <3>1. Join(c) = p \o q
      BY <1>1, <2>1, JoinAppend, Zenon
    <3>2. before = p
      BY <2>1, JoinAppend, Zenon
    <3> QED BY <3>1, <3>2, Zenon
  <2>2. CASE a # << >>
    <3>1. /\ Join(c) = Join(a) \o <<NL>> \o (p \o q) /\ Join(a) \in Text
          /\ before = Join(a) \o <<NL>> \o p
      BY <1>1, <2>2, JoinAppend
    <3>2. Join(a) \o <<NL>> \in Text
      BY <3>1, LineEnd, ConcatIsText
    <3>3. (Join(a) \o <<NL>>) \o (p \o q) = ((Join(a) \o <<NL>>) \o p) \o q
      BY <3>2, TextAssociative, Zenon
    <3> QED BY <3>1, <3>3
  <2> QED BY <2>1, <2>2
<1>3. Join(<<q>>) = q
  <2>1. <<q>> = Append(<< >>, q) /\ << >> \in Seq(Text)
    OBVIOUS
  <2> QED BY <2>1, JoinAppend
<1> HIDE DEF c, before
<1>4. 0 \in P
  <2>1. SubSeq(b, 1, 0) = << >> /\ 0 \in 0..Len(b)
    BY SubSeqEmpty, LenProperties
  <2>2. c \o << >> = c /\ <<q>> \o << >> = <<q>>
    BY <1>1, ConcatEmptySeq
  <2> QED BY <1>2, <1>3, <2>1, <2>2
<1>5. ASSUME NEW n \in 0..(Len(b) - 1), n \in P PROVE n + 1 \in P
  <2> DEFINE u == SubSeq(b, 1, n)
  <2>1. /\ u \in Seq(Text) /\ b[n + 1] \in Text
        /\ c \o SubSeq(b, 1, n + 1) = Append(c \o u, b[n + 1])
        /\ <<q>> \o SubSeq(b, 1, n + 1) = Append(<<q>> \o u, b[n + 1])
    BY <1>1, ConcatTake
  <2>2. /\ c \o u \in Seq(Text) /\ c \o u # << >>
        /\ <<q>> \o u \in Seq(Text) /\ <<q>> \o u # << >>
    BY <1>1, <2>1, ConcatProperties, ConcatEqualIffEmpty
  <2>3. /\ Join(c \o u) = before \o Join(<<q>> \o u) /\ Join(<<q>> \o u) \in Text
    BY <1>5
  <2>4. /\ Join(Append(c \o u, b[n + 1])) = Join(c \o u) \o <<NL>> \o b[n + 1]
        /\ Join(Append(<<q>> \o u, b[n + 1])) = Join(<<q>> \o u) \o <<NL>> \o b[n + 1]
        /\ Join(Append(<<q>> \o u, b[n + 1])) \in Text
    BY <2>1, <2>2, JoinAppend
  <2>5. (before \o Join(<<q>> \o u)) \o <<NL>> = before \o (Join(<<q>> \o u) \o <<NL>>)
    BY <1>1, <2>3, LineEnd, TextAssociative, ZenonT(60)
  <2>6. Join(<<q>> \o u) \o <<NL>> \in Text
    BY <2>3, LineEnd, ConcatIsText
  <2>7. (before \o (Join(<<q>> \o u) \o <<NL>>)) \o b[n + 1]
          = before \o ((Join(<<q>> \o u) \o <<NL>>) \o b[n + 1])
    BY <1>1, <2>1, <2>6, TextAssociative, ZenonT(60)
  <2>8. Is(n + 1)
    BY <2>1, <2>3, <2>4, <2>5, <2>7
  <2>9. n + 1 \in 0..Len(b)
    BY LenProperties
  <2> HIDE DEF Is
  <2> QED BY <2>8, <2>9
<1>6. Len(b) \in P
  <2>1. Len(b) \in Nat
    BY LenProperties
  <2>2. 0..Len(b) \subseteq P
    <3> HIDE DEF P
    <3> QED BY <1>4, <1>5, <2>1, SetInduction
  <2>3. Len(b) \in 0..Len(b)
    BY <2>1
  <2> HIDE DEF P
  <2> QED BY <2>2, <2>3
<1>7. SubSeq(b, 1, Len(b)) = b
  BY SubSeqFull
<1> QED BY <1>1, <1>6, <1>7 DEF c, before

-----------------------------------------------------------------------------
(* editor_open splits a file into lines that fit, and never too many. *)
Lines == {l \in Seq(Printable) : Len(l) < EDITOR_LINE_LEN}
Splits == {a \in [ls : Seq(Lines), cur : Lines] :
             /\ Len(a.ls) <= EDITOR_MAX_LINES
             /\ Len(a.ls) = EDITOR_MAX_LINES => a.cur = << >>}
Splitting(buf) == CHOOSE f : f = [n \in 0..Len(buf) |->
                                    IF n = 0 THEN Nothing ELSE Take(f[n - 1], buf[n])]

LEMMA TakeFacts ==
  ASSUME NEW a \in Splits, NEW b \in Printable \cup {NL}
  PROVE  Take(a, b) \in Splits
<1>1. /\ a \in [ls : Seq(Lines), cur : Lines] /\ a.ls \in Seq(Lines) /\ a.cur \in Lines
      /\ Len(a.ls) \in Nat /\ Len(a.ls) <= EDITOR_MAX_LINES
      /\ a.cur \in Seq(Printable) /\ Len(a.cur) \in Nat /\ << >> \in Lines
  BY EditorAssumption, LenProperties DEF Splits, Lines
<1>2. CASE Len(a.ls) = EDITOR_MAX_LINES
  BY <1>2 DEF Take
<1>3. CASE Len(a.ls) # EDITOR_MAX_LINES /\ b = NL
  <2>1. Take(a, b) = [ls |-> Append(a.ls, a.cur), cur |-> << >>]
    BY <1>1, <1>3, EditorAssumption DEF Take
  <2>2. Append(a.ls, a.cur) \in Seq(Lines) /\ Len(Append(a.ls, a.cur)) = Len(a.ls) + 1
    BY <1>1, AppendProperties
  <2>3. Len(a.ls) + 1 <= EDITOR_MAX_LINES
    BY <1>1, <1>3, EditorAssumption
  <2> QED BY <1>1, <2>1, <2>2, <2>3 DEF Splits
<1>4. CASE Len(a.ls) # EDITOR_MAX_LINES /\ b # NL
  <2>1. Take(a, b) = IF Len(a.cur) < EDITOR_LINE_LEN - 1
                     THEN [a EXCEPT !.cur = Append(@, b)] ELSE a
    BY <1>4 DEF Take
  <2>2. CASE Len(a.cur) < EDITOR_LINE_LEN - 1
    <3>1. Append(a.cur, b) \in Seq(Printable) /\ Len(Append(a.cur, b)) = Len(a.cur) + 1
      BY <1>1, <1>4, AppendProperties
    <3>2. Append(a.cur, b) \in Lines
      BY <1>1, <2>2, <3>1, EditorAssumption DEF Lines
    <3>3. Take(a, b) = [a EXCEPT !.cur = Append(a.cur, b)]
      BY <2>1, <2>2
    <3> QED BY <1>1, <1>4, <3>2, <3>3 DEF Splits
  <2>3. CASE ~(Len(a.cur) < EDITOR_LINE_LEN - 1)
    BY <2>1, <2>3
  <2> QED BY <2>2, <2>3
<1> QED BY <1>2, <1>3, <1>4

LEMMA SplittingFacts ==
  ASSUME NEW buf \in Text
  PROVE  Splitting(buf)[Len(buf)] \in Splits
<1> DEFINE N == Len(buf)
           G == [x \in Splits \X (1..N) |-> Take(x[1], buf[x[2]])]
<1>1. N \in Nat /\ \A n \in 1..N : buf[n] \in Printable \cup {NL}
  BY LenProperties, ElementOfSeq DEF Text
<1>2. G \in [Splits \X (1..N) -> Splits]
  BY <1>1, TakeFacts
<1>3. \A a \in Splits, k \in 1..N : G[<<a, k>>] = Take(a, buf[k])
  OBVIOUS
<1>4. Nothing \in Splits
  <2>1. << >> \in Lines /\ << >> \in Seq(Lines) /\ Len(<< >>) = 0
    BY EditorAssumption DEF Lines
  <2> QED BY <2>1, EditorAssumption DEF Splits, Nothing
<1> HIDE DEF G
<1>5. PICK g : Steps(g, N, Splits, Nothing, G)
  <2> HIDE DEF N
  <2> QED BY <1>1, <1>2, <1>4, Iteration
<1> DEFINE Is(f) == f = [n \in 0..N |-> IF n = 0 THEN Nothing ELSE Take(f[n - 1], buf[n])]
<1>6. Is(g)
  <2>1. ASSUME NEW n \in 0..N
        PROVE  g[n] = IF n = 0 THEN Nothing ELSE Take(g[n - 1], buf[n])
    <3>1. CASE n = 0
      BY <1>5, <3>1 DEF Steps
    <3>2. CASE n # 0
      <4>1. n \in 1..N /\ n - 1 \in 0..N
        BY <1>1, <3>2
      <4>2. g[n] = G[<<g[n - 1], n>>] /\ g[n - 1] \in Splits
        BY <1>5, <4>1 DEF Steps
      <4> QED BY <1>3, <3>2, <4>1, <4>2
    <3> QED BY <3>1, <3>2
  <2>2. g = [n \in 0..N |-> g[n]]
    BY <1>5 DEF Steps
  <2> QED BY <2>1, <2>2
<1>7. Is(Splitting(buf))
  <2>1. \E f : Is(f)
    BY <1>6
  <2> QED BY <2>1 DEF Splitting
<1>8. \A n \in 0..N : Splitting(buf)[n] = IF n = 0 THEN Nothing
                                         ELSE Take(Splitting(buf)[n - 1], buf[n])
  BY <1>7
<1> DEFINE P == {n \in 0..N : Splitting(buf)[n] \in Splits}
<1>9. 0 \in P
  <2>1. 0 \in 0..N
    BY <1>1
  <2> QED BY <1>4, <1>8, <2>1
<1>10. ASSUME NEW n \in 0..(N - 1), n \in P PROVE n + 1 \in P
  <2>1. n + 1 \in 0..N /\ n + 1 # 0 /\ (n + 1) - 1 = n /\ n + 1 \in 1..N
    BY <1>1
  <2>2. Splitting(buf)[n + 1] = Take(Splitting(buf)[n], buf[n + 1])
    BY <1>8, <2>1
  <2>3. Splitting(buf)[n] \in Splits /\ buf[n + 1] \in Printable \cup {NL}
    BY <1>1, <1>10, <2>1
  <2>4. Splitting(buf)[n + 1] \in Splits
    BY <2>2, <2>3, TakeFacts
  <2> QED BY <2>1, <2>4
<1>11. 0..N \subseteq P
  <2> HIDE DEF P, N
  <2> QED BY <1>1, <1>9, <1>10, SetInduction
<1>12. N \in 0..N
  BY <1>1
<1> QED BY <1>11, <1>12

LEMMA SplitLinesFacts ==
  ASSUME NEW buf \in Text
  PROVE  /\ SplitLines(buf) \in Seq(Lines) /\ SplitLines(buf) # << >>
         /\ Len(SplitLines(buf)) <= EDITOR_MAX_LINES
<1> DEFINE a == Splitting(buf)[Len(buf)]
<1>1. SplitLines(buf) = IF a.cur # << >> \/ a.ls = << >> THEN Append(a.ls, a.cur) ELSE a.ls
  BY DEF SplitLines, Splitting
<1>2. a \in Splits
  BY SplittingFacts
<1> HIDE DEF a
<1>3. /\ a.ls \in Seq(Lines) /\ a.cur \in Lines /\ Len(a.ls) \in Nat
      /\ Len(a.ls) <= EDITOR_MAX_LINES
      /\ Len(a.ls) = EDITOR_MAX_LINES => a.cur = << >>
  BY <1>2, LenProperties DEF Splits
<1>4. CASE a.cur # << >> \/ a.ls = << >>
  <2>1. /\ Append(a.ls, a.cur) \in Seq(Lines) /\ Append(a.ls, a.cur) # << >>
        /\ Len(Append(a.ls, a.cur)) = Len(a.ls) + 1
    BY <1>3, AppendProperties
  <2>2. a.ls = << >> => Len(a.ls) = 0
    OBVIOUS
  <2>3. Len(a.ls) + 1 <= EDITOR_MAX_LINES
    BY <1>3, <1>4, <2>2, EditorAssumption
  <2> QED BY <1>1, <1>4, <2>1, <2>3
<1>5. CASE ~(a.cur # << >> \/ a.ls = << >>)
  BY <1>1, <1>3, <1>5
<1> QED BY <1>4, <1>5

-----------------------------------------------------------------------------
(***************************************************************************)
(* The editor as a value e.  Parted says where the cursor is: a are the    *)
(* lines above it, p and q its line before and after it, b the lines below.*)
(***************************************************************************)
Editors == [lines : Seq(Lines), cursor_x : Nat, cursor_y : Nat, scroll_y : Nat,
            filename : Names \cup {NoFile}, modified : BOOLEAN, running : BOOLEAN]
Parted(e, a, p, q, b) ==
  /\ a \in Seq(Lines) /\ b \in Seq(Lines)
  /\ p \in Seq(Printable) /\ q \in Seq(Printable) /\ p \o q \in Lines
  /\ e.lines = Append(a, p \o q) \o b
  /\ e.cursor_y = Len(a) /\ e.cursor_x = Len(p)
InText(e) == /\ e \in Editors
             /\ Len(e.lines) <= EDITOR_MAX_LINES
             /\ \E a, p, q, b : Parted(e, a, p, q, b)

(* What a key may do: change the text, or move the cursor (and scroll). *)
Edited(e, ls, x, y) == [e EXCEPT !.lines = ls, !.cursor_x = x, !.cursor_y = y,
                                 !.modified = TRUE]
Moved(e, x, y, z) == [e EXCEPT !.cursor_x = x, !.cursor_y = y, !.scroll_y = z]

LEMMA EditedFacts ==
  ASSUME NEW e \in Editors, NEW ls \in Seq(Lines), NEW x \in Nat, NEW y \in Nat, NEW r,
         r = Edited(e, ls, x, y)
  PROVE  /\ r \in Editors /\ r.lines = ls /\ r.cursor_x = x /\ r.cursor_y = y
         /\ r.scroll_y = e.scroll_y /\ r.filename = e.filename
         /\ r.modified /\ (r.running <=> e.running)
BY DEF Edited, Editors

LEMMA MovedFacts ==
  ASSUME NEW e \in Editors, NEW x \in Nat, NEW y \in Nat, NEW z \in Nat, NEW r,
         r = Moved(e, x, y, z)
  PROVE  /\ r \in Editors /\ r.lines = e.lines /\ r.cursor_x = x /\ r.cursor_y = y
         /\ r.scroll_y = z /\ r.filename = e.filename
         /\ (r.modified <=> e.modified) /\ (r.running <=> e.running)
BY DEF Moved, Editors

(* Every key is one of the two. *)
LEMMA InsertIs ==
  ASSUME NEW e \in Editors, NEW c
  PROVE  Insert(e, c) = IF Strlen(e) >= EDITOR_LINE_LEN - 1 THEN e
                        ELSE Edited(e, [e.lines EXCEPT ![e.cursor_y + 1] =
                                          InsertAt(Line(e, e.cursor_y), e.cursor_x + 1, c)],
                                    e.cursor_x + 1, e.cursor_y)
BY DEF Insert, Edited, Editors, Strlen

LEMMA NewlineIs ==
  ASSUME NEW e \in Editors
  PROVE  LET y == e.cursor_y
             l == Line(e, y)
         IN  Newline(e) = IF Len(e.lines) >= EDITOR_MAX_LINES THEN e
                          ELSE Edited(e, InsertAt([e.lines EXCEPT ![y + 1] =
                                                     SubSeq(l, 1, e.cursor_x)],
                                                  y + 2, SubSeq(l, e.cursor_x + 1, Len(l))),
                                      0, y + 1)
BY DEF Newline, Edited, Editors, LineCount, CutLine

LEMMA DeleteCharIs ==
  ASSUME NEW e \in Editors
  PROVE  LET y == e.cursor_y
             l == Line(e, y)
             prev == Line(e, y - 1)
         IN  /\ e.cursor_x > 0 =>
                  DeleteChar(e) = Edited(e, [e.lines EXCEPT ![y + 1] =
                                               RemoveAt(l, e.cursor_x)],
                                         e.cursor_x - 1, y)
             /\ e.cursor_x = 0 /\ y > 0 /\ Joins(prev, l) =>
                  DeleteChar(e) = Edited(e, RemoveAt([e.lines EXCEPT ![y] = prev \o l],
                                                     y + 1),
                                         Len(prev), y - 1)
             /\ e.cursor_x = 0 /\ ~(y > 0 /\ Joins(prev, l)) => DeleteChar(e) = e
<1>0. e.cursor_x \in Nat /\ e.cursor_y \in Nat
  BY DEF Editors
<1>1. ASSUME e.cursor_x > 0
      PROVE  DeleteChar(e) = Edited(e, [e.lines EXCEPT ![e.cursor_y + 1] =
                                          RemoveAt(Line(e, e.cursor_y), e.cursor_x)],
                                    e.cursor_x - 1, e.cursor_y)
  <2> DEFINE l == RemoveAt(e.lines[e.cursor_y + 1], e.cursor_x)
  <2>1. DeleteChar(e) = [e EXCEPT !.lines[e.cursor_y + 1] = l,
                                  !.cursor_x = e.cursor_x - 1, !.modified = TRUE]
    BY <1>0, <1>1 DEF DeleteChar
  <2> HIDE DEF l
  <2>2. DeleteChar(e) = Edited(e, [e.lines EXCEPT ![e.cursor_y + 1] = l],
                               e.cursor_x - 1, e.cursor_y)
    BY <2>1 DEF Edited, Editors
  <2> QED BY <2>2 DEF l, Line
<1>2. ASSUME e.cursor_x = 0, e.cursor_y > 0, Joins(Line(e, e.cursor_y - 1), Line(e, e.cursor_y))
      PROVE  DeleteChar(e) =
               Edited(e, RemoveAt([e.lines EXCEPT ![e.cursor_y] =
                                     Line(e, e.cursor_y - 1) \o Line(e, e.cursor_y)],
                                  e.cursor_y + 1),
                      Len(Line(e, e.cursor_y - 1)), e.cursor_y - 1)
  <2> DEFINE y == e.cursor_y
             prev == Line(e, y - 1)
             ls == RemoveAt([e.lines EXCEPT ![y] = prev \o Line(e, y)], y + 1)
  <2>1. DeleteChar(e) = [e EXCEPT !.lines = ls, !.cursor_y = y - 1,
                                  !.cursor_x = Len(prev), !.modified = TRUE]
    BY <1>0, <1>2 DEF DeleteChar
  <2> HIDE DEF ls, prev
  <2>2. DeleteChar(e) = Edited(e, ls, Len(prev), y - 1)
    BY <2>1 DEF Edited, Editors
  <2> QED BY <2>2 DEF ls, prev
<1>3. ASSUME e.cursor_x = 0,
             ~(e.cursor_y > 0 /\ Joins(Line(e, e.cursor_y - 1), Line(e, e.cursor_y)))
      PROVE  DeleteChar(e) = e
  BY <1>0, <1>3 DEF DeleteChar
<1> QED BY <1>1, <1>2, <1>3, Zenon

-----------------------------------------------------------------------------
(* A place in the text; InText says that the cursor is at one. *)
Place(ls, x, y) == y \in 0..(Len(ls) - 1) /\ x \in 0..Len(ls[y + 1])

LEMMA LinesFacts ==
  ASSUME NEW ls \in Seq(Lines)
  PROVE  /\ Len(ls) \in Nat
         /\ \A i \in 1..Len(ls) : /\ ls[i] \in Lines /\ ls[i] \in Seq(Printable)
                                  /\ Len(ls[i]) \in Nat /\ Len(ls[i]) < EDITOR_LINE_LEN
<1>1. Len(ls) \in Nat /\ \A i \in 1..Len(ls) : ls[i] \in Lines
  BY LenProperties, ElementOfSeq
<1>2. \A l \in Lines : l \in Seq(Printable) /\ Len(l) \in Nat /\ Len(l) < EDITOR_LINE_LEN
  BY LenProperties DEF Lines
<1> QED BY <1>1, <1>2

(* The lines around the cursor, in the text put together from its parts. *)
LEMMA PartedFacts ==
  ASSUME NEW e, NEW a, NEW p, NEW q, NEW b, Parted(e, a, p, q, b)
  PROVE  /\ e.lines \in Seq(Lines) /\ e.lines # << >>
         /\ Len(a) \in Nat /\ Len(b) \in Nat /\ Len(p) \in Nat /\ Len(q) \in Nat
         /\ Len(e.lines) = Len(a) + 1 + Len(b)
         /\ \A i \in 1..Len(a) : e.lines[i] = a[i]
         /\ e.lines[Len(a) + 1] = p \o q
         /\ \A i \in 1..Len(b) : e.lines[Len(a) + 1 + i] = b[i]
         /\ Len(p \o q) = Len(p) + Len(q)
         /\ Place(e.lines, e.cursor_x, e.cursor_y)
<1> DEFINE l == p \o q  u == Append(a, l)
<1>1. /\ a \in Seq(Lines) /\ b \in Seq(Lines) /\ l \in Lines /\ e.lines = u \o b
      /\ p \in Seq(Printable) /\ q \in Seq(Printable)
      /\ e.cursor_y = Len(a) /\ e.cursor_x = Len(p)
  BY DEF Parted
<1>2. /\ Len(a) \in Nat /\ Len(b) \in Nat /\ Len(p) \in Nat /\ Len(q) \in Nat
      /\ Len(l) = Len(p) + Len(q)
  BY <1>1, LenProperties, ConcatProperties
<1> HIDE DEF l
<1>3. /\ u \in Seq(Lines) /\ u # << >> /\ Len(u) = Len(a) + 1
      /\ \A i \in 1..Len(a) : u[i] = a[i]
      /\ u[Len(a) + 1] = l
  BY <1>1, AppendProperties
<1> HIDE DEF u
<1>4. /\ u \o b \in Seq(Lines) /\ Len(u \o b) = Len(u) + Len(b)
      /\ \A i \in 1..(Len(u) + Len(b)) :
           (u \o b)[i] = IF i <= Len(u) THEN u[i] ELSE b[i - Len(u)]
  <2>1. u \in Seq(Lines) /\ b \in Seq(Lines)
    BY <1>1, <1>3
  <2> QED BY <2>1, ConcatProperties, Zenon
<1>5. /\ e.lines \in Seq(Lines) /\ Len(e.lines) = Len(a) + 1 + Len(b)
      /\ \A i \in 1..(Len(a) + 1) : e.lines[i] = u[i]
  BY <1>1, <1>2, <1>3, <1>4
<1>6. /\ \A i \in 1..Len(a) : e.lines[i] = a[i]
      /\ e.lines[Len(a) + 1] = l
  BY <1>2, <1>3, <1>5
<1>7. ASSUME NEW i \in 1..Len(b) PROVE e.lines[Len(a) + 1 + i] = b[i]
  <2>1. PICK j : j = Len(a) + 1 + i
    OBVIOUS
  <2>2. j \in 1..(Len(u) + Len(b)) /\ ~(j <= Len(u)) /\ j - Len(u) = i
    BY <1>2, <1>3, <2>1
  <2> QED BY <1>1, <1>4, <2>1, <2>2
<1>8. e.lines # << >>
  BY <1>2, <1>5
<1>9. Place(e.lines, e.cursor_x, e.cursor_y)
  BY <1>1, <1>2, <1>5, <1>6, SMTT(60) DEF Place
<1> QED BY <1>2, <1>5, <1>6, <1>7, <1>8, <1>9 DEF l

(* A cursor at a place of the text parts it. *)
LEMMA PlaceParts ==
  ASSUME NEW e \in Editors, Place(e.lines, e.cursor_x, e.cursor_y)
  PROVE  LET l == e.lines[e.cursor_y + 1]
         IN  Parted(e, SubSeq(e.lines, 1, e.cursor_y), SubSeq(l, 1, e.cursor_x),
                    SubSeq(l, e.cursor_x + 1, Len(l)),
                    SubSeq(e.lines, e.cursor_y + 2, Len(e.lines)))
<1>1. PICK ls \in Seq(Lines), x \in Nat, y \in Nat :
        e.lines = ls /\ e.cursor_x = x /\ e.cursor_y = y
  BY DEF Editors
<1> DEFINE l == ls[y + 1]  N == Len(ls)
           a == SubSeq(ls, 1, y)  b == SubSeq(ls, y + 2, N)
           p == SubSeq(l, 1, x)  q == SubSeq(l, x + 1, Len(l))
<1>2. /\ N \in Nat /\ y \in 0..(N - 1) /\ y + 1 \in 1..N
      /\ l \in Lines /\ l \in Seq(Printable) /\ Len(l) \in Nat /\ x \in 0..Len(l)
      /\ \A i \in 1..N : ls[i] \in Lines
  BY <1>1, LinesFacts DEF Place
<1>3. /\ p \in Seq(Printable) /\ Len(p) = x /\ q \in Seq(Printable) /\ p \o q = l
  <2> HIDE DEF l
  <2>1. \A i \in 1..Len(l) : l[i] \in Printable
    BY <1>2, ElementOfSeq
  <2>2. p \in Seq(Printable) /\ Len(p) = x
    BY <1>2, <2>1, SubSeqProperties
  <2>3. q \in Seq(Printable)
    BY <1>2, <2>1, SubSeqProperties
  <2>4. 1 \in 1..(Len(l) + 1) /\ x \in (1 - 1)..Len(l) /\ Len(l) \in x..Len(l)
    BY <1>2
  <2>5. p \o q = SubSeq(l, 1, Len(l))
    BY <1>2, <2>4, ConcatAdjacentSubSeq
  <2>6. SubSeq(l, 1, Len(l)) = l
    BY <1>2, SubSeqFull
  <2> QED BY <2>2, <2>3, <2>5, <2>6
<1>4. a \in Seq(Lines) /\ Len(a) = y
  BY <1>2, SubSeqProperties
<1>5. b \in Seq(Lines)
  BY <1>2, SubSeqProperties, SMTT(60)
<1>6. ls = Append(a, l) \o b
  <2>1. (y + 1) + 1 = y + 2 /\ N \in (y + 1)..N
    BY <1>2
  <2>2. SubSeq(ls, 1, y + 1) = SubSeq(ls, 1, (y + 1) - 1) \o <<ls[y + 1]>>
    <3>1. 1 \in 1..N /\ y + 1 \in 1..N
      BY <1>2
    <3> QED BY <1>1, <3>1, SubSeqRecursiveSecond
  <2>3. SubSeq(ls, 1, y + 1) = Append(a, l)
    <3>1. (y + 1) - 1 = y
      BY <1>2
    <3>2. Append(a, l) = a \o <<l>>
      BY <1>2, <1>4, AppendIsConcat
    <3> QED BY <2>2, <3>1, <3>2
  <2>4. SubSeq(ls, 1, y + 1) \o SubSeq(ls, (y + 1) + 1, N) = SubSeq(ls, 1, N)
    <3>1. 1 \in 1..(N + 1) /\ y + 1 \in (1 - 1)..N /\ N \in (y + 1)..N
      BY <1>2
    <3> QED BY <1>1, <3>1, ConcatAdjacentSubSeq
  <2>5. SubSeq(ls, 1, N) = ls
    BY SubSeqFull
  <2> QED BY <2>1, <2>3, <2>4, <2>5
<1>7. Parted(e, a, p, q, b)
  <2> HIDE DEF a, b, p, q, l
  <2> QED BY <1>1, <1>2, <1>3, <1>4, <1>5, <1>6 DEF Parted
<1> QED BY <1>1, <1>7

(* The editor is in its text when its cursor is at a place of it. *)
LEMMA InTextIsPlace ==
  ASSUME NEW e
  PROVE  InText(e) <=> /\ e \in Editors /\ e.lines # << >>
                       /\ Len(e.lines) <= EDITOR_MAX_LINES
                       /\ Place(e.lines, e.cursor_x, e.cursor_y)
BY PartedFacts, PlaceParts DEF InText

(* Moves go to places of the same text. *)
Moves(e, r) == \E x, y, z \in Nat : r = Moved(e, x, y, z) /\ Place(e.lines, x, y)

LEMMA ToLineMoves ==
  ASSUME NEW e \in Editors, NEW y \in 0..(Len(e.lines) - 1), NEW z \in Nat
  PROVE  Moves(e, ToLine(e, y)) /\ Moves(e, ToLine([e EXCEPT !.scroll_y = z], y))
<1>1. /\ e.lines \in Seq(Lines) /\ Len(e.lines) \in Nat /\ y + 1 \in 1..Len(e.lines)
      /\ e.cursor_x \in Nat /\ e.scroll_y \in Nat
  BY LenProperties DEF Editors
<1> DEFINE n == Len(e.lines[y + 1])
           x == IF e.cursor_x > n THEN n ELSE e.cursor_x
<1>2. n \in Nat
  BY <1>1, LinesFacts
<1>3. x \in 0..n /\ x \in Nat /\ y \in Nat
  BY <1>1, <1>2
<1>4. Place(e.lines, x, y)
  BY <1>3 DEF Place
<1>5. ToLine(e, y) = Moved(e, x, y, e.scroll_y)
  BY DEF ToLine, Clamp, Strlen, Line, Moved, Editors
<1>6. ToLine([e EXCEPT !.scroll_y = z], y) = Moved(e, x, y, z)
  BY DEF ToLine, Clamp, Strlen, Line, Moved, Editors
<1> HIDE DEF x
<1> QED BY <1>1, <1>3, <1>4, <1>5, <1>6 DEF Moves

Strokes(e) == {Up(e), Down(e), Left(e), Right(e), Home(e), End(e), PgUp(e), PgDn(e)}
LEMMA KeysMove ==
  ASSUME NEW e, InText(e), NEW r \in Strokes(e)
  PROVE  r = e \/ Moves(e, r)
<1>1. /\ e \in Editors /\ e.lines \in Seq(Lines) /\ Place(e.lines, e.cursor_x, e.cursor_y)
      /\ e.lines # << >>
  BY InTextIsPlace DEF Editors
<1>2. PICK N \in Nat, x \in Nat, y \in Nat, z \in Nat, n \in Nat :
        /\ N = Len(e.lines) /\ x = e.cursor_x /\ y = e.cursor_y /\ z = e.scroll_y
        /\ n = Strlen(e) /\ y \in 0..(N - 1) /\ x \in 0..n
  BY <1>1, LinesFacts DEF Place, Editors, Strlen, Line
<1>3. \A i \in 0..(N - 1) : /\ Len(e.lines[i + 1]) \in Nat
                             /\ Place(e.lines, 0, i) /\ Place(e.lines, Len(e.lines[i + 1]), i)
  BY <1>1, <1>2, LinesFacts, SMTT(60) DEF Place
<1>4. CASE r = Up(e)
  <2>1. y > 0 => y - 1 \in 0..(N - 1)
    BY <1>2
  <2> QED BY <1>1, <1>2, <1>4, <2>1, ToLineMoves DEF Up
<1>5. CASE r = Down(e)
  <2>1. y < N - 1 => y + 1 \in 0..(N - 1)
    BY <1>2
  <2> QED BY <1>1, <1>2, <1>5, <2>1, ToLineMoves DEF Down, LineCount
<1>6. CASE r = Left(e)
  <2>1. CASE x > 0
    <3>1. r = Moved(e, x - 1, y, z)
      <4>1. r = [e EXCEPT !.cursor_x = x - 1]
        BY <1>1, <1>2, <1>6, <2>1 DEF Left
      <4> QED BY <1>1, <1>2, <4>1 DEF Moved, Editors
    <3>2. Place(e.lines, x - 1, y) /\ x - 1 \in Nat
      BY <1>2, <2>1, SMTT(60) DEF Place, Strlen, Line
    <3> QED BY <1>2, <3>1, <3>2 DEF Moves
  <2>2. CASE x = 0 /\ y > 0
    <3>1. y - 1 \in 0..(N - 1) /\ (y - 1) + 1 = y /\ y - 1 \in Nat
      BY <1>2, <2>2
    <3>2. r = Moved(e, Len(e.lines[(y - 1) + 1]), y - 1, z)
      <4>1. r = [e EXCEPT !.cursor_y = y - 1, !.cursor_x = Len(e.lines[(y - 1) + 1])]
        BY <1>1, <1>2, <1>6, <2>2 DEF Left, Line
      <4> QED BY <1>1, <1>2, <4>1 DEF Moved, Editors
    <3> QED BY <1>2, <1>3, <3>1, <3>2 DEF Moves
  <2>3. CASE x = 0 /\ y = 0
    BY <1>2, <1>6, <2>3 DEF Left
  <2> QED BY <2>1, <2>2, <2>3
<1>7. CASE r = Right(e)
  <2>1. CASE x < n
    <3>1. r = Moved(e, x + 1, y, z)
      <4>1. r = [e EXCEPT !.cursor_x = x + 1]
        BY <1>1, <1>2, <1>7, <2>1 DEF Right
      <4> QED BY <1>1, <1>2, <4>1 DEF Moved, Editors
    <3>2. Place(e.lines, x + 1, y) /\ x + 1 \in Nat
      BY <1>2, <2>1 DEF Place, Strlen, Line
    <3> QED BY <1>2, <3>1, <3>2 DEF Moves
  <2>2. CASE x = n /\ y < N - 1
    <3>1. r = Moved(e, 0, y + 1, z)
      <4>1. r = [e EXCEPT !.cursor_y = y + 1, !.cursor_x = 0]
        BY <1>1, <1>2, <1>7, <2>2 DEF Right, LineCount
      <4> QED BY <1>1, <1>2, <4>1 DEF Moved, Editors
    <3>2. y + 1 \in 0..(N - 1) /\ y + 1 \in Nat /\ 0 \in Nat
      BY <1>2, <2>2
    <3> QED BY <1>2, <1>3, <3>1, <3>2 DEF Moves
  <2>3. CASE x = n /\ ~(y < N - 1)
    BY <1>2, <1>7, <2>3 DEF Right, LineCount
  <2> QED BY <1>2, <2>1, <2>2, <2>3
<1>8. CASE r = Home(e)
  <2>1. r = Moved(e, 0, y, z)
    BY <1>1, <1>2, <1>8 DEF Home, Moved, Editors
  <2> QED BY <1>2, <1>3, <2>1 DEF Moves
<1>9. CASE r = End(e)
  <2>1. r = Moved(e, n, y, z)
    BY <1>1, <1>2, <1>9 DEF End, Moved, Editors
  <2>2. Place(e.lines, n, y)
    BY <1>2, <1>3 DEF Strlen, Line
  <2> QED BY <1>2, <2>1, <2>2 DEF Moves
<1>10. CASE r = PgUp(e)
  <2> DEFINE y2 == IF y < CONTENT_H THEN 0 ELSE y - CONTENT_H
             z2 == IF y2 > CONTENT_H THEN y2 - CONTENT_H + 1 ELSE 0
  <2>1. y2 \in 0..(N - 1) /\ z2 \in Nat
    BY <1>2, EditorAssumption, SMTT(60)
  <2>2. r = ToLine([e EXCEPT !.scroll_y = z2], y2)
    BY <1>2, <1>10 DEF PgUp
  <2> HIDE DEF y2, z2
  <2> QED BY <1>1, <1>2, <2>1, <2>2, ToLineMoves
<1>11. CASE r = PgDn(e)
  <2> DEFINE y2 == Shorter(y + CONTENT_H, N - 1)
  <2>1. y2 \in 0..(N - 1) /\ y2 \in Nat
    BY <1>2, EditorAssumption DEF Shorter
  <2>2. r = ToLine([e EXCEPT !.scroll_y = y2], y2)
    BY <1>2, <1>11 DEF PgDn, LineCount
  <2> HIDE DEF y2
  <2> QED BY <1>1, <1>2, <2>1, <2>2, ToLineMoves
<1> QED BY <1>4, <1>5, <1>6, <1>7, <1>8, <1>9, <1>10, <1>11 DEF Strokes

(* The end of a turn moves the screen only, and brings the cursor on it. *)
OnScreen(e) == e.cursor_y - e.scroll_y \in 0..(CONTENT_H - 1)
LEMMA ScrollFacts ==
  ASSUME NEW e \in Editors
  PROVE  /\ Scroll(e) \in Editors /\ OnScreen(Scroll(e))
         /\ Scroll(e).lines = e.lines /\ Scroll(e).cursor_x = e.cursor_x
         /\ Scroll(e).cursor_y = e.cursor_y /\ Scroll(e).filename = e.filename
         /\ (Scroll(e).modified <=> e.modified) /\ (Scroll(e).running <=> e.running)
<1>1. PICK x \in Nat, y \in Nat, z \in Nat :
        x = e.cursor_x /\ y = e.cursor_y /\ z = e.scroll_y
  BY DEF Editors
<1> DEFINE t == CASE y < z -> y [] y >= z + CONTENT_H -> y - CONTENT_H + 1 [] OTHER -> z
<1>2. t \in Nat /\ y - t \in 0..(CONTENT_H - 1)
  <2>1. CASE y < z
    BY <2>1, EditorAssumption
  <2>2. CASE y >= z + CONTENT_H
    <3>1. t = y - CONTENT_H + 1
      BY <2>2, EditorAssumption
    <3> QED BY <2>2, <3>1, EditorAssumption
  <2>3. CASE ~(y < z) /\ ~(y >= z + CONTENT_H)
    BY <2>3, EditorAssumption
  <2> QED BY <2>1, <2>2, <2>3
<1>3. Scroll(e) = Moved(e, x, y, t)
  BY <1>1 DEF Scroll, Moved, Editors
<1> HIDE DEF t
<1>4. PICK r : r = Scroll(e)
  OBVIOUS
<1>5. /\ r \in Editors /\ r.lines = e.lines /\ r.cursor_x = x /\ r.cursor_y = y
      /\ r.scroll_y = t /\ r.filename = e.filename
      /\ (r.modified <=> e.modified) /\ (r.running <=> e.running)
  <2>1. t \in Nat /\ r = Moved(e, x, y, t)
    BY <1>2, <1>3, <1>4
  <2> QED BY <2>1 DEF Moved, Editors
<1> QED BY <1>1, <1>2, <1>4, <1>5 DEF OnScreen

-----------------------------------------------------------------------------
(* What the keys that edit do to the parts of the text. *)

LEMMA LinesAssociative ==
  \A s, t, u \in Seq(Lines) : (s \o t) \o u = s \o (t \o u)
BY ConcatAssociative

LEMMA ReplaceLine ==
  ASSUME NEW a \in Seq(Lines), NEW b \in Seq(Lines), NEW l \in Lines, NEW m \in Lines
  PROVE  [(Append(a, l) \o b) EXCEPT ![Len(a) + 1] = m] = Append(a, m) \o b
<1> DEFINE u == Append(a, l) \o b  v == Append(a, m) \o b
<1>1. /\ Append(a, l) \in Seq(Lines) /\ Append(a, m) \in Seq(Lines)
      /\ Len(Append(a, l)) = Len(a) + 1 /\ Len(Append(a, m)) = Len(a) + 1
      /\ Append(a, l)[Len(a) + 1] = l /\ Append(a, m)[Len(a) + 1] = m
      /\ \A i \in 1..Len(a) : Append(a, l)[i] = a[i] /\ Append(a, m)[i] = a[i]
      /\ Len(a) \in Nat /\ Len(b) \in Nat
  BY AppendProperties, LenProperties
<1>2. PICK s \in Seq(Lines), t \in Seq(Lines) : s = Append(a, l) /\ t = Append(a, m)
  BY <1>1
<1>3. /\ u \in Seq(Lines) /\ v \in Seq(Lines)
      /\ Len(u) = Len(a) + 1 + Len(b) /\ Len(v) = Len(a) + 1 + Len(b)
      /\ \A i \in 1..(Len(a) + 1 + Len(b)) :
           /\ u[i] = IF i <= Len(a) + 1 THEN s[i] ELSE b[i - (Len(a) + 1)]
           /\ v[i] = IF i <= Len(a) + 1 THEN t[i] ELSE b[i - (Len(a) + 1)]
  <2>1. Len(s) = Len(a) + 1 /\ Len(t) = Len(a) + 1 /\ u = s \o b /\ v = t \o b
    BY <1>1, <1>2
  <2>2. /\ s \o b \in Seq(Lines) /\ Len(s \o b) = Len(s) + Len(b)
        /\ \A i \in 1..(Len(s) + Len(b)) :
             (s \o b)[i] = IF i <= Len(s) THEN s[i] ELSE b[i - Len(s)]
    BY ConcatProperties, Zenon
  <2>3. /\ t \o b \in Seq(Lines) /\ Len(t \o b) = Len(t) + Len(b)
        /\ \A i \in 1..(Len(t) + Len(b)) :
             (t \o b)[i] = IF i <= Len(t) THEN t[i] ELSE b[i - Len(t)]
    BY ConcatProperties, Zenon
  <2> HIDE DEF u, v
  <2> QED BY <1>1, <2>1, <2>2, <2>3
<1>4. ASSUME NEW i \in 1..(Len(a) + 1 + Len(b))
      PROVE  v[i] = IF i = Len(a) + 1 THEN m ELSE u[i]
  <2> HIDE DEF u, v
  <2>1. \A j \in 1..Len(a) : s[j] = a[j] /\ t[j] = a[j]
    BY <1>1, <1>2
  <2>2. t[Len(a) + 1] = m
    BY <1>1, <1>2
  <2>3. CASE i \in 1..Len(a)
    BY <1>1, <1>3, <2>1, <2>3
  <2>4. CASE i = Len(a) + 1
    BY <1>1, <1>3, <2>2, <2>4
  <2>5. CASE i > Len(a) + 1
    <3>1. ~(i <= Len(a) + 1) /\ i # Len(a) + 1
      BY <1>1, <2>5
    <3>2. u[i] = b[i - (Len(a) + 1)] /\ v[i] = b[i - (Len(a) + 1)]
      BY <1>3, <3>1
    <3> QED BY <3>1, <3>2
  <2> QED BY <1>1, <2>3, <2>4, <2>5
<1> HIDE DEF u, v
<1>5. Len(a) + 1 \in 1..Len(u)
  BY <1>1, <1>3
<1>6. /\ [u EXCEPT ![Len(a) + 1] = m] \in Seq(Lines)
      /\ Len([u EXCEPT ![Len(a) + 1] = m]) = Len(u)
      /\ \A i \in 1..Len(u) : [u EXCEPT ![Len(a) + 1] = m][i]
                             = IF i = Len(a) + 1 THEN m ELSE u[i]
  BY <1>3, <1>5, ExceptSeq
<1>7. [u EXCEPT ![Len(a) + 1] = m] = v
  BY <1>3, <1>4, <1>6, SeqEqual
<1> QED BY <1>7 DEF u, v

(* A part of a line that fits is a line that fits. *)
LEMMA PartIsLine ==
  ASSUME NEW p \in Seq(Printable), NEW q \in Seq(Printable)
  PROVE  /\ Len(p) + Len(q) < EDITOR_LINE_LEN <=> p \o q \in Lines
         /\ p \o q \in Lines => p \in Lines /\ q \in Lines
         /\ Len(p) \in Nat /\ Len(q) \in Nat /\ Len(p \o q) = Len(p) + Len(q)
<1>1. Len(p) \in Nat /\ Len(q) \in Nat
  BY LenProperties
<1>2. p \o q \in Seq(Printable) /\ Len(p \o q) = Len(p) + Len(q)
  BY ConcatProperties
<1> QED BY <1>1, <1>2, EditorAssumption DEF Lines

LEMMA InsertParts ==
  ASSUME NEW e \in Editors, NEW a, NEW p, NEW q, NEW b, Parted(e, a, p, q, b),
         NEW c \in Printable, Strlen(e) < EDITOR_LINE_LEN - 1, NEW r, r = Insert(e, c)
  PROVE  /\ r \in Editors /\ Parted(r, a, Append(p, c), q, b)
         /\ r.modified /\ (r.running <=> e.running) /\ r.filename = e.filename
<1> DEFINE l == p \o q  p2 == Append(p, c)
<1>1. /\ a \in Seq(Lines) /\ b \in Seq(Lines) /\ l \in Lines
      /\ p \in Seq(Printable) /\ q \in Seq(Printable)
      /\ e.cursor_y = Len(a) /\ e.cursor_x = Len(p) /\ e.lines = Append(a, l) \o b
  BY DEF Parted
<1>2. /\ e.lines[Len(a) + 1] = l /\ Len(l) = Len(p) + Len(q)
      /\ Len(p) \in Nat /\ Len(q) \in Nat /\ Len(a) \in Nat
  BY PartedFacts, SMTT(60)
<1>3. Line(e, e.cursor_y) = l /\ Strlen(e) = Len(l)
  BY <1>1, <1>2 DEF Line, Strlen
<1>4. p2 \in Seq(Printable) /\ Len(p2) = Len(p) + 1 /\ p2 = p \o <<c>> /\ <<c>> \in Seq(Printable)
  BY <1>1, AppendProperties, AppendIsConcat
<1>5. InsertAt(l, Len(p) + 1, c) = p2 \o q
  <2>1. SubSeq(l, 1, Len(p)) = p /\ SubSeq(l, Len(p) + 1, Len(l)) = q
    BY <1>1, CutConcat
  <2>2. (Len(p) + 1) - 1 = Len(p)
    BY <1>2
  <2>3. InsertAt(l, Len(p) + 1, c) = (p \o <<c>>) \o q
    <3> HIDE DEF l
    <3> QED BY <2>1, <2>2 DEF InsertAt
  <2> QED BY <1>4, <2>3
<1>6. p2 \o q \in Lines
  <2>1. Len(p2) + Len(q) < EDITOR_LINE_LEN
    BY <1>2, <1>3, <1>4, EditorAssumption
  <2> QED BY <1>1, <1>4, <2>1, PartIsLine
<1> DEFINE ls == Append(a, p2 \o q) \o b
<1>7. r = Edited(e, ls, Len(p) + 1, Len(a))
  <2>1. ~(Strlen(e) >= EDITOR_LINE_LEN - 1)
    BY <1>2, <1>3, EditorAssumption
  <2>2. r = Edited(e, [e.lines EXCEPT ![Len(a) + 1] = InsertAt(l, Len(p) + 1, c)],
                   Len(p) + 1, Len(a))
    <3> HIDE DEF l
    <3> QED BY <1>1, <1>3, <2>1, InsertIs
  <2>3. [(Append(a, l) \o b) EXCEPT ![Len(a) + 1] = p2 \o q] = ls
    <3> HIDE DEF p2, l
    <3> QED BY <1>1, <1>6, ReplaceLine, ZenonT(60)
  <2> HIDE DEF ls, l, p2
  <2> QED BY <1>1, <1>5, <2>2, <2>3
<1>8. ls \in Seq(Lines)
  <2>1. Append(a, p2 \o q) \in Seq(Lines)
    BY <1>1, <1>6, AppendProperties
  <2> QED BY <1>1, <2>1, ConcatProperties
<1>9. /\ r \in Editors /\ r.lines = ls /\ r.cursor_x = Len(p) + 1 /\ r.cursor_y = Len(a)
      /\ r.filename = e.filename /\ r.modified /\ (r.running <=> e.running)
  <2>1. Len(p) + 1 \in Nat
    BY <1>2
  <2> HIDE DEF ls
  <2> QED BY <1>2, <1>7, <1>8, <2>1 DEF Edited, Editors
<1>10. Parted(r, a, p2, q, b)
  <2> HIDE DEF p2
  <2> QED BY <1>1, <1>4, <1>6, <1>9 DEF Parted
<1> QED BY <1>9, <1>10

LEMMA EraseParts ==
  ASSUME NEW e \in Editors, NEW a, NEW p, NEW q, NEW b, Parted(e, a, p, q, b),
         e.cursor_x > 0, NEW r, r = DeleteChar(e)
  PROVE  /\ r \in Editors /\ Parted(r, a, Front(p), q, b) /\ p # << >>
         /\ r.modified /\ (r.running <=> e.running) /\ r.filename = e.filename
<1> DEFINE l == p \o q  p2 == Front(p)
<1>1. /\ a \in Seq(Lines) /\ b \in Seq(Lines) /\ l \in Lines
      /\ p \in Seq(Printable) /\ q \in Seq(Printable)
      /\ e.cursor_y = Len(a) /\ e.cursor_x = Len(p) /\ e.lines = Append(a, l) \o b
  BY DEF Parted
<1>2. /\ e.lines[Len(a) + 1] = l /\ Len(l) = Len(p) + Len(q)
      /\ Len(p) \in Nat /\ Len(q) \in Nat /\ Len(a) \in Nat
  BY PartedFacts, SMTT(60)
<1>3. Line(e, e.cursor_y) = l /\ Len(p) > 0 /\ p # << >>
  BY <1>1, <1>2 DEF Line
<1>4. p2 \in Seq(Printable) /\ Len(p2) = Len(p) - 1
  <2>0. Len(p) - 1 \in Nat
    BY <1>2, <1>3
  <2>1. PICK k \in Nat : k = Len(p) - 1
    BY <2>0
  <2>2. \A i \in 1..k : p[i] \in Printable
    BY <1>1, <1>2, <2>1, ElementOfSeq
  <2>3. SubSeq(p, 1, k) \in Seq(Printable) /\ Len(SubSeq(p, 1, k)) = k
    BY <2>2, SubSeqProperties
  <2> QED BY <2>1, <2>3 DEF Front
<1>5. RemoveAt(l, Len(p)) = p2 \o q
  <2>1. SubSeq(l, Len(p) + 1, Len(l)) = q
    BY <1>1, CutConcat
  <2>2. SubSeq(l, 1, Len(p) - 1) = p2
    <3>1. \A i \in 1..(Len(p) - 1) : l[i] = p[i] /\ l[i] \in Printable
      BY <1>1, <1>2, ConcatProperties, ElementOfSeq
    <3>2. /\ SubSeq(l, 1, Len(p) - 1) \in Seq(Printable)
          /\ Len(SubSeq(l, 1, Len(p) - 1)) = Len(p) - 1
          /\ \A i \in 1..(Len(p) - 1) : SubSeq(l, 1, Len(p) - 1)[i] = l[i]
      <4> HIDE DEF l
      <4>1. PICK k \in Nat : k = Len(p) - 1
        BY <1>2, <1>3
      <4>2. /\ SubSeq(l, 1, k) \in Seq(Printable) /\ Len(SubSeq(l, 1, k)) = k
            /\ \A i \in 1..k : SubSeq(l, 1, k)[i] = l[i]
        BY <3>1, <4>1, SubSeqProperties
      <4> QED BY <4>1, <4>2
    <3>3. \A i \in 1..(Len(p) - 1) : p2[i] = p[i]
      BY <1>1, <1>2 DEF Front
    <3> HIDE DEF l, p2
    <3> QED BY <1>2, <1>4, <3>1, <3>2, <3>3, SeqEqual
  <2> HIDE DEF l
  <2> QED BY <2>1, <2>2 DEF RemoveAt
<1>6. p2 \o q \in Lines
  <2>1. Len(p2) + Len(q) < EDITOR_LINE_LEN
    BY <1>1, <1>2, <1>4, EditorAssumption DEF Lines
  <2> HIDE DEF p2
  <2> QED BY <1>1, <1>4, <2>1, PartIsLine
<1> DEFINE ls == Append(a, p2 \o q) \o b
<1> HIDE DEF p2
<1>7. r = Edited(e, ls, Len(p) - 1, Len(a))
  <2>2. r = Edited(e, [e.lines EXCEPT ![Len(a) + 1] = RemoveAt(l, Len(p))],
                   Len(p) - 1, Len(a))
    <3> HIDE DEF l
    <3> QED BY <1>1, <1>3, DeleteCharIs
  <2>3. [(Append(a, l) \o b) EXCEPT ![Len(a) + 1] = p2 \o q] = ls
    <3> HIDE DEF l
    <3> QED BY <1>1, <1>6, ReplaceLine, ZenonT(60)
  <2> HIDE DEF ls, l
  <2> QED BY <1>1, <1>5, <2>2, <2>3
<1>8. ls \in Seq(Lines)
  <2>1. Append(a, p2 \o q) \in Seq(Lines)
    BY <1>1, <1>6, AppendProperties
  <2> QED BY <1>1, <2>1, ConcatProperties
<1>9. /\ r \in Editors /\ r.lines = ls /\ r.cursor_x = Len(p) - 1 /\ r.cursor_y = Len(a)
      /\ r.filename = e.filename /\ r.modified /\ (r.running <=> e.running)
  <2>1. Len(p) - 1 \in Nat
    BY <1>2, <1>3
  <2> HIDE DEF ls
  <2> QED BY <1>2, <1>7, <1>8, <2>1 DEF Edited, Editors
<1>10. Parted(r, a, p2, q, b)
  BY <1>1, <1>4, <1>6, <1>9 DEF Parted
<1> QED BY <1>3, <1>9, <1>10 DEF p2

LEMMA NewlineParts ==
  ASSUME NEW e \in Editors, NEW a, NEW p, NEW q, NEW b, Parted(e, a, p, q, b),
         Len(e.lines) < EDITOR_MAX_LINES, NEW r, r = Newline(e)
  PROVE  /\ r \in Editors /\ Parted(r, Append(a, p), << >>, q, b)
         /\ r.modified /\ (r.running <=> e.running) /\ r.filename = e.filename
<1> DEFINE l == p \o q  u == Append(a, p)  ls == Append(u, q) \o b
<1>1. /\ a \in Seq(Lines) /\ b \in Seq(Lines) /\ l \in Lines
      /\ p \in Seq(Printable) /\ q \in Seq(Printable)
      /\ e.cursor_y = Len(a) /\ e.cursor_x = Len(p) /\ e.lines = Append(a, l) \o b
  BY DEF Parted
<1>2. /\ e.lines[Len(a) + 1] = l /\ Len(l) = Len(p) + Len(q)
      /\ Len(p) \in Nat /\ Len(q) \in Nat /\ Len(a) \in Nat
      /\ Len(e.lines) \in Nat
  BY PartedFacts, LenProperties, SMTT(60)
<1>3. Line(e, e.cursor_y) = l
  BY <1>1, <1>2 DEF Line
<1>4. SubSeq(l, 1, Len(p)) = p /\ SubSeq(l, Len(p) + 1, Len(l)) = q
  BY <1>1, CutConcat
<1>5. p \in Lines /\ q \in Lines
  BY <1>1, PartIsLine
<1>6. /\ u \in Seq(Lines) /\ Len(u) = Len(a) + 1 /\ <<q>> \in Seq(Lines)
      /\ Append(u, q) = u \o <<q>> /\ Append(u, q) \in Seq(Lines)
  <2>1. u \in Seq(Lines) /\ Len(u) = Len(a) + 1
    BY <1>1, <1>5, AppendProperties
  <2> HIDE DEF u
  <2> QED BY <1>5, <2>1, AppendProperties, AppendIsConcat
<1>7. InsertAt(u \o b, Len(a) + 2, q) = ls
  <2> HIDE DEF u
  <2>1. SubSeq(u \o b, 1, Len(u)) = u /\ SubSeq(u \o b, Len(u) + 1, Len(u \o b)) = b
    BY <1>1, <1>6, CutConcat
  <2>2. (Len(a) + 2) - 1 = Len(u) /\ Len(a) + 2 = Len(u) + 1
    BY <1>2, <1>6
  <2>3. InsertAt(u \o b, Len(a) + 2, q) = (u \o <<q>>) \o b
    BY <2>1, <2>2 DEF InsertAt
  <2> QED BY <1>6, <2>3
<1>8. [(Append(a, l) \o b) EXCEPT ![Len(a) + 1] = p] = u \o b
  <2> HIDE DEF l
  <2> QED BY <1>1, <1>5, ReplaceLine
<1>9. r = Edited(e, ls, 0, Len(a) + 1)
  <2>1. ~(Len(e.lines) >= EDITOR_MAX_LINES)
    BY <1>2, EditorAssumption
  <2>2. r = Edited(e, InsertAt([e.lines EXCEPT ![Len(a) + 1] = SubSeq(l, 1, Len(p))],
                               Len(a) + 2, SubSeq(l, Len(p) + 1, Len(l))),
                   0, Len(a) + 1)
    <3> HIDE DEF l
    <3> QED BY <1>1, <1>3, <2>1, NewlineIs
  <2> HIDE DEF l, u, ls
  <2> QED BY <1>1, <1>4, <1>7, <1>8, <2>2
<1>10. ls \in Seq(Lines)
  <2> HIDE DEF u
  <2> QED BY <1>1, <1>6, ConcatProperties
<1>11. /\ r \in Editors /\ r.lines = ls /\ r.cursor_x = 0 /\ r.cursor_y = Len(a) + 1
       /\ r.filename = e.filename /\ r.modified /\ (r.running <=> e.running)
  <2>0. Len(a) + 1 \in Nat /\ 0 \in Nat
    BY <1>2
  <2>1. PICK x \in Nat, y \in Nat : x = 0 /\ y = Len(a) + 1
    BY <2>0
  <2> HIDE DEF ls
  <2>2. /\ r \in Editors /\ r.lines = ls /\ r.cursor_x = x /\ r.cursor_y = y
        /\ r.filename = e.filename /\ r.modified /\ (r.running <=> e.running)
    <3>1. r = Edited(e, ls, x, y)
      BY <1>9, <2>1
    <3> QED BY <1>10, <3>1 DEF Edited, Editors
  <2> QED BY <2>1, <2>2
<1>12. Parted(r, u, << >>, q, b)
  <2>1. << >> \o q = q /\ << >> \in Seq(Printable) /\ Len(<< >>) = 0
    BY <1>1, ConcatEmptySeq
  <2> HIDE DEF u
  <2> QED BY <1>1, <1>5, <1>6, <1>11, <2>1 DEF Parted
<1> QED BY <1>11, <1>12

LEMMA JoinParts ==
  ASSUME NEW e \in Editors, NEW a, NEW p, NEW q, NEW b, Parted(e, a, p, q, b),
         e.cursor_x = 0, e.cursor_y > 0,
         Joins(Line(e, e.cursor_y - 1), Line(e, e.cursor_y)), NEW r, r = DeleteChar(e)
  PROVE  /\ r \in Editors
         /\ \E a1 \in Seq(Lines), prev \in Lines :
              a = Append(a1, prev) /\ p = << >> /\ Parted(r, a1, prev, q, b)
         /\ r.modified /\ (r.running <=> e.running) /\ r.filename = e.filename
<1>1. /\ a \in Seq(Lines) /\ b \in Seq(Lines) /\ p \o q \in Lines
      /\ p \in Seq(Printable) /\ q \in Seq(Printable)
      /\ e.cursor_y = Len(a) /\ e.cursor_x = Len(p) /\ e.lines = Append(a, p \o q) \o b
  BY DEF Parted
<1>2. /\ e.lines[Len(a) + 1] = p \o q
      /\ \A i \in 1..Len(a) : e.lines[i] = a[i]
      /\ Len(p) \in Nat /\ Len(q) \in Nat /\ Len(a) \in Nat
  BY PartedFacts
<1>3. p = << >> /\ p \o q = q /\ q \in Lines
  <2>1. Len(p) = 0
    BY <1>1
  <2>2. p = << >>
    BY <1>1, <2>1, EmptySeq
  <2>3. << >> \o q = q
    BY <1>1, ConcatEmptySeq
  <2> QED BY <1>1, <2>2, <2>3
<1>4. PICK a1 \in Seq(Lines), prev \in Lines : a = Append(a1, prev)
  <2>1. a # << >>
    BY <1>1, <1>2
  <2> QED BY <1>1, <2>1, SequenceEmptyOrAppend
<1>5. Len(a) = Len(a1) + 1 /\ a[Len(a1) + 1] = prev /\ Len(a1) \in Nat
  BY <1>4, AppendProperties, LenProperties
<1>6. Line(e, e.cursor_y) = q /\ Line(e, e.cursor_y - 1) = prev
  <2>1. Len(a1) + 1 \in 1..Len(a) /\ (e.cursor_y - 1) + 1 = Len(a1) + 1
    BY <1>1, <1>5
  <2> QED BY <1>1, <1>2, <1>3, <1>5, <2>1 DEF Line
<1>7. prev \in Seq(Printable) /\ prev \o q \in Lines /\ Len(prev) \in Nat
  <2>1. prev \in Seq(Printable)
    BY DEF Lines
  <2> QED BY <1>1, <1>6, <2>1, PartIsLine DEF Joins
<1> DEFINE u == Append(a1, prev \o q)  t == <<q>> \o b
<1>8. /\ u \in Seq(Lines) /\ Len(u) = Len(a1) + 1 /\ <<q>> \in Seq(Lines)
      /\ t \in Seq(Lines) /\ u \o <<q>> \in Seq(Lines)
      /\ Len(u \o <<q>>) = Len(u) + 1
      /\ u \o t = (u \o <<q>>) \o b
  <2>1. u \in Seq(Lines) /\ Len(u) = Len(a1) + 1
    BY <1>7, AppendProperties
  <2>2. <<q>> \in Seq(Lines) /\ Len(<<q>>) = 1
    BY <1>3
  <2> HIDE DEF u
  <2>3. t \in Seq(Lines) /\ u \o <<q>> \in Seq(Lines) /\ Len(u \o <<q>>) = Len(u) + 1
    BY <1>1, <2>1, <2>2, ConcatProperties
  <2>4. u \o t = (u \o <<q>>) \o b
    BY <1>1, <2>1, <2>2, LinesAssociative, Zenon
  <2> QED BY <2>1, <2>2, <2>3, <2>4
<1>9. e.lines = Append(a1, prev) \o t
  <2>1. Append(a, q) = a \o <<q>>
    BY <1>1, <1>3, AppendIsConcat
  <2>2. (a \o <<q>>) \o b = a \o (<<q>> \o b)
    BY <1>1, <1>8, LinesAssociative, ZenonT(60)
  <2> QED BY <1>1, <1>3, <1>4, <2>1, <2>2
<1>10. [e.lines EXCEPT ![Len(a)] = prev \o q] = u \o t
  <2> HIDE DEF t
  <2>1. [(Append(a1, prev) \o t) EXCEPT ![Len(a1) + 1] = prev \o q]
          = Append(a1, prev \o q) \o t
    BY <1>7, <1>8, ReplaceLine, ZenonT(60)
  <2> QED BY <1>5, <1>9, <2>1, Zenon
<1>11. RemoveAt(u \o t, Len(a) + 1) = u \o b
  <2> HIDE DEF u, t
  <2>1. SubSeq(u \o t, 1, Len(u)) = u
    BY <1>8, CutConcat
  <2>2. SubSeq((u \o <<q>>) \o b, Len(u \o <<q>>) + 1, Len((u \o <<q>>) \o b)) = b
    BY <1>1, <1>8, CutConcat
  <2>3. (Len(a) + 1) - 1 = Len(u) /\ (Len(a) + 1) + 1 = Len(u \o <<q>>) + 1
    BY <1>5, <1>8
  <2>4. SubSeq(u \o t, (Len(a) + 1) + 1, Len(u \o t)) = b
    BY <1>8, <2>2, <2>3
  <2> QED BY <2>1, <2>3, <2>4 DEF RemoveAt
<1>12. r = Edited(e, u \o b, Len(prev), Len(a) - 1)
  <2>1. r = Edited(e, RemoveAt([e.lines EXCEPT ![Len(a)] = prev \o q], Len(a) + 1),
                   Len(prev), Len(a) - 1)
    BY <1>1, <1>6, DeleteCharIs, Zenon
  <2> HIDE DEF u, t
  <2> QED BY <1>10, <1>11, <2>1
<1>13. u \o b \in Seq(Lines)
  <2> HIDE DEF u
  <2> QED BY <1>1, <1>8, ConcatProperties
<1>14. /\ r \in Editors /\ r.lines = u \o b /\ r.cursor_x = Len(prev)
       /\ r.cursor_y = Len(a1) /\ r.filename = e.filename
       /\ r.modified /\ (r.running <=> e.running)
  <2>1. Len(a) - 1 = Len(a1)
    BY <1>5
  <2>2. PICK ls : ls = u \o b
    OBVIOUS
  <2>3. r = Edited(e, ls, Len(prev), Len(a1)) /\ ls \in Seq(Lines)
    BY <1>12, <1>13, <2>1, <2>2
  <2>4. /\ r \in Editors /\ r.lines = ls /\ r.cursor_x = Len(prev)
        /\ r.cursor_y = Len(a1) /\ r.filename = e.filename
        /\ r.modified /\ (r.running <=> e.running)
    BY <1>5, <1>7, <2>3 DEF Edited, Editors
  <2> QED BY <2>2, <2>4
<1>15. Parted(r, a1, prev, q, b)
  BY <1>1, <1>7, <1>14 DEF Parted
<1> QED BY <1>3, <1>4, <1>14, <1>15

-----------------------------------------------------------------------------
(* The text before and after the cursor of e (Before and After say this of *)
(* ed), from the parts of the text.                                        *)
BeforeOf(e) == LET t == SubSeq(e.lines, 1, e.cursor_y + 1)
               IN  Join([t EXCEPT ![e.cursor_y + 1] = SubSeq(@, 1, e.cursor_x)])
AfterOf(e) == LET t == SubSeq(e.lines, e.cursor_y + 1, LineCount(e))
              IN  Join([t EXCEPT ![1] = SubSeq(@, e.cursor_x + 1, Len(@))])

LEMMA LinesAreTexts ==
  /\ \A l \in Seq(Printable) : l \in Text
  /\ \A l \in Lines : l \in Text
  /\ \A ls \in Seq(Lines) : ls \in Seq(Text)
<1>1. \A l \in Seq(Printable) : l \in Text
  BY SeqMonotonic DEF Text
<1>2. Lines \subseteq Text
  BY <1>1 DEF Lines
<1> QED BY <1>1, <1>2, SeqMonotonic

LEMMA BeforeIs ==
  ASSUME NEW e, NEW a, NEW p, NEW q, NEW b, Parted(e, a, p, q, b)
  PROVE  BeforeOf(e) = Join(Append(a, p))
<1> DEFINE l == p \o q  u == Append(a, l)
<1>1. /\ a \in Seq(Lines) /\ b \in Seq(Lines) /\ l \in Lines
      /\ p \in Seq(Printable) /\ q \in Seq(Printable)
      /\ e.cursor_y = Len(a) /\ e.cursor_x = Len(p) /\ e.lines = u \o b
  BY DEF Parted
<1>2. SubSeq(l, 1, Len(p)) = p /\ p \in Lines
  BY <1>1, CutConcat, PartIsLine
<1> HIDE DEF l
<1>3. u \in Seq(Lines) /\ Len(u) = Len(a) + 1 /\ u[Len(a) + 1] = l
  BY <1>1, AppendProperties
<1>4. SubSeq(e.lines, 1, Len(a) + 1) = u
  <2> HIDE DEF u
  <2>1. SubSeq(u \o b, 1, Len(u)) = u
    BY <1>1, <1>3, CutConcat
  <2> QED BY <1>1, <1>3, <2>1
<1>5. [u EXCEPT ![Len(a) + 1] = p] = Append(a, p)
  <2>0. << >> \in Seq(Lines)
    BY EmptySeq
  <2>1. PICK empty \in Seq(Lines) : empty = << >>
    BY <2>0
  <2>2. [(Append(a, l) \o empty) EXCEPT ![Len(a) + 1] = p] = Append(a, p) \o empty
    BY <1>1, <1>2, ReplaceLine, ZenonT(60)
  <2>3. u \o << >> = u
    BY <1>3, ConcatEmptySeq
  <2>4. Append(a, p) \o << >> = Append(a, p)
    BY <1>1, <1>2, AppendProperties, ConcatEmptySeq
  <2> QED BY <2>1, <2>2, <2>3, <2>4
<1> HIDE DEF u
<1>6. BeforeOf(e) = Join([u EXCEPT ![Len(a) + 1] = SubSeq(u[Len(a) + 1], 1, Len(p))])
  BY <1>1, <1>4 DEF BeforeOf
<1> QED BY <1>2, <1>3, <1>5, <1>6

LEMMA AfterIs ==
  ASSUME NEW e, NEW a, NEW p, NEW q, NEW b, Parted(e, a, p, q, b)
  PROVE  AfterOf(e) = Join(<<q>> \o b)
<1> DEFINE l == p \o q  v == <<l>> \o b
<1>1. /\ a \in Seq(Lines) /\ b \in Seq(Lines) /\ l \in Lines
      /\ p \in Seq(Printable) /\ q \in Seq(Printable)
      /\ e.cursor_y = Len(a) /\ e.cursor_x = Len(p) /\ e.lines = Append(a, l) \o b
  BY DEF Parted
<1>2. SubSeq(l, Len(p) + 1, Len(l)) = q /\ q \in Lines
  BY <1>1, CutConcat, PartIsLine
<1> HIDE DEF l
<1>3. <<l>> \in Seq(Lines) /\ <<q>> \in Seq(Lines) /\ Len(<<l>>) = 1
  BY <1>1, <1>2
<1>4. v \in Seq(Lines) /\ v[1] = l
  <2>1. Len(b) \in Nat /\ 1 \in 1..(1 + Len(b))
    BY <1>1, LenProperties
  <2> QED BY <1>1, <1>3, <2>1, ConcatProperties
<1>5. e.lines = a \o v
  <2>1. Append(a, l) = a \o <<l>>
    BY <1>1, AppendIsConcat
  <2>2. (a \o <<l>>) \o b = a \o (<<l>> \o b)
    BY <1>1, <1>3, LinesAssociative, Zenon
  <2>3. e.lines = (a \o <<l>>) \o b
    BY <1>1, <2>1, Zenon
  <2> QED BY <2>2, <2>3, Zenon
<1>6. SubSeq(e.lines, Len(a) + 1, Len(e.lines)) = v
  <2> HIDE DEF v
  <2> QED BY <1>1, <1>4, <1>5, CutConcat
<1>7. [v EXCEPT ![1] = q] = <<q>> \o b
  <2>1. << >> \in Seq(Lines) /\ Append(<< >>, l) = <<l>> /\ Append(<< >>, q) = <<q>>
    OBVIOUS
  <2>2. [(Append(<< >>, l) \o b) EXCEPT ![Len(<< >>) + 1] = q] = Append(<< >>, q) \o b
    BY <1>1, <1>2, <2>1, ReplaceLine, Zenon
  <2>3. Len(<< >>) + 1 = 1
    OBVIOUS
  <2> QED BY <2>1, <2>2, <2>3, Zenon
<1> HIDE DEF v
<1>8. AfterOf(e) = Join([v EXCEPT ![1] = SubSeq(v[1], Len(p) + 1, Len(v[1]))])
  BY <1>1, <1>6 DEF AfterOf, LineCount
<1> QED BY <1>2, <1>4, <1>7, <1>8

(* Together they are the text. *)
LEMMA WholeText ==
  ASSUME NEW e, InText(e)
  PROVE  /\ BeforeOf(e) \in Text /\ AfterOf(e) \in Text
         /\ Join(e.lines) = BeforeOf(e) \o AfterOf(e)
<1>1. PICK a, p, q, b : Parted(e, a, p, q, b)
  BY DEF InText
<1>2. a \in Seq(Text) /\ p \in Text /\ q \in Text /\ b \in Seq(Text)
  BY <1>1, LinesAreTexts DEF Parted
<1>3. /\ Join(Append(a, p \o q) \o b) = Join(Append(a, p)) \o Join(<<q>> \o b)
      /\ Join(Append(a, p)) \in Text /\ Join(<<q>> \o b) \in Text
  BY <1>2, JoinSplit, SMTT(60)
<1>4. BeforeOf(e) = Join(Append(a, p)) /\ AfterOf(e) = Join(<<q>> \o b)
  BY <1>1, BeforeIs, AfterIs, ZenonT(60)
<1>5. e.lines = Append(a, p \o q) \o b
  BY <1>1 DEF Parted
<1> QED BY <1>3, <1>4, <1>5, Zenon

(* A character more in the last line is a character more in the text, and  *)
(* so is an empty line after it.                                           *)
LEMMA JoinTyped ==
  ASSUME NEW a \in Seq(Text), NEW p \in Text, NEW c \in Printable \cup {NL}
  PROVE  /\ Join(Append(a, p)) \in Text
         /\ Join(Append(a, Append(p, c))) = Append(Join(Append(a, p)), c)
         /\ Join(Append(Append(a, p), << >>)) = Append(Join(Append(a, p)), NL)
<1>1. <<c>> \in Text /\ Append(p, c) = p \o <<c>> /\ << >> \in Seq(Text) /\ << >> \in Text
  <2>1. Append(p, c) = p \o <<c>>
    BY AppendIsConcat DEF Text
  <2> QED BY <2>1, EmptySeq DEF Text
<1>2. Join(Append(a, p)) \in Text
  BY JoinAppend
<1>3. \A s \in Text, d \in Printable \cup {NL} : Append(s, d) = s \o <<d>>
  BY AppendIsConcat DEF Text
<1>4. Join(Append(a, p \o <<c>>)) = Join(Append(a, p)) \o <<c>>
  <2>1. PICK d \in Text, empty \in Seq(Text) : d = <<c>> /\ empty = << >>
    BY <1>1
  <2>2. Join(Append(a, p \o d) \o empty) = Join(Append(a, p)) \o Join(<<d>> \o empty)
    BY JoinSplit
  <2>3. Append(a, p \o d) \o empty = Append(a, p \o d)
    <3>1. p \o d \in Text
      BY ConcatIsText
    <3>2. Append(a, p \o d) \in Seq(Text)
      BY <3>1, AppendProperties
    <3> QED BY <2>1, <3>2, ConcatEmptySeq
  <2>4. <<d>> \o empty = Append(empty, d)
    BY <2>1
  <2>5. Join(Append(empty, d)) = d
    BY <2>1, JoinAppend
  <2> QED BY <2>1, <2>2, <2>3, <2>4, <2>5, Zenon
<1>5. Append(Join(Append(a, p)), NL) = Join(Append(a, p)) \o <<NL>>
  BY <1>2, <1>3
<1>6. Join(Append(Append(a, p), << >>)) = Join(Append(a, p)) \o <<NL>>
  <2>0. Append(a, p) \in Seq(Text) /\ Append(a, p) # << >>
    BY AppendProperties
  <2>1. PICK u \in Seq(Text), empty \in Text : u = Append(a, p) /\ empty = << >> /\ u # << >>
    BY <1>1, <2>0
  <2>2. Join(Append(u, empty)) = Join(u) \o <<NL>> \o empty
    BY <2>1, JoinAppend
  <2>3. Join(u) \o <<NL>> \in Text
    BY <1>2, <2>1, LineEnd, ConcatIsText
  <2>4. (Join(u) \o <<NL>>) \o empty = Join(u) \o <<NL>>
    BY <2>1, <2>3, TextWithNothing
  <2> QED BY <2>1, <2>2, <2>4
<1> QED BY <1>1, <1>2, <1>3, <1>4, <1>5, <1>6

LEMMA FrontOfAppend ==
  ASSUME NEW S, NEW s \in Seq(S), NEW c \in S
  PROVE  Front(Append(s, c)) = s /\ Append(s, c) # << >>
<1>1. /\ Append(s, c) = s \o <<c>> /\ Append(s, c) # << >> /\ <<c>> \in Seq(S)
      /\ Len(Append(s, c)) = Len(s) + 1 /\ Len(s) \in Nat
  BY AppendIsConcat, AppendProperties, LenProperties
<1>2. SubSeq(s \o <<c>>, 1, Len(s)) = s
  BY <1>1, CutConcat
<1>3. Len(Append(s, c)) - 1 = Len(s)
  BY <1>1
<1> QED BY <1>1, <1>2, <1>3 DEF Front

LEMMA AppendOfFront ==
  ASSUME NEW S, NEW p \in Seq(S), p # << >>
  PROVE  \E c \in S : Front(p) \in Seq(S) /\ p = Append(Front(p), c)
<1>1. PICK s \in Seq(S), c \in S : p = Append(s, c)
  BY SequenceEmptyOrAppend
<1> QED BY <1>1, FrontOfAppend

-----------------------------------------------------------------------------
(* What a key may do to the text, and that every key does one of it. *)
TextStep(e, r) ==
  \/ \E c \in Printable \cup {NL} : /\ BeforeOf(r) = Append(BeforeOf(e), c)
                                    /\ AfterOf(r) = AfterOf(e)
  \/ /\ BeforeOf(e) # << >> /\ BeforeOf(r) = Front(BeforeOf(e))
     /\ AfterOf(r) = AfterOf(e)
  \/ BeforeOf(r) \o AfterOf(r) = BeforeOf(e) \o AfterOf(e)
Keeps(e, r) == /\ r \in Editors /\ (r.running <=> e.running) /\ r.filename = e.filename
               /\ (~r.modified => ~e.modified /\ r.lines = e.lines)
KeyEffect(e, r) == InText(r) /\ Keeps(e, r) /\ TextStep(e, r)

LEMMA MoveEffect ==
  ASSUME NEW e, InText(e), NEW r, r = e \/ Moves(e, r)
  PROVE  KeyEffect(e, r)
<1>1. CASE r = e
  BY <1>1 DEF KeyEffect, Keeps, TextStep, InText
<1>2. CASE Moves(e, r)
  <2>1. e \in Editors
    BY DEF InText
  <2>2. PICK x \in Nat, y \in Nat, z \in Nat : r = Moved(e, x, y, z) /\ Place(e.lines, x, y)
    BY <1>2 DEF Moves
  <2>3. /\ r \in Editors /\ r.lines = e.lines /\ r.cursor_x = x /\ r.cursor_y = y
        /\ r.filename = e.filename
        /\ (r.modified <=> e.modified) /\ (r.running <=> e.running)
    BY <2>1, <2>2 DEF Moved, Editors
  <2>4. InText(r)
    BY <2>2, <2>3, InTextIsPlace
  <2>5. BeforeOf(r) \o AfterOf(r) = BeforeOf(e) \o AfterOf(e)
    <3>1. Join(e.lines) = BeforeOf(e) \o AfterOf(e)
      BY WholeText
    <3>2. Join(r.lines) = BeforeOf(r) \o AfterOf(r)
      BY <2>4, WholeText
    <3> QED BY <2>3, <3>1, <3>2
  <2> QED BY <2>3, <2>4, <2>5 DEF KeyEffect, Keeps, TextStep
<1> QED BY <1>1, <1>2

LEMMA InsertEffect ==
  ASSUME NEW e, InText(e), NEW c \in Printable
  PROVE  KeyEffect(e, Insert(e, c))
<1>1. PICK r : r = Insert(e, c)
  OBVIOUS
<1>2. PICK a, p, q, b : Parted(e, a, p, q, b)
  BY DEF InText
<1>3. e \in Editors /\ Len(e.lines) <= EDITOR_MAX_LINES /\ Strlen(e) \in Nat
  <2>1. e \in Editors /\ Len(e.lines) <= EDITOR_MAX_LINES /\ e.lines \in Seq(Lines)
    BY DEF InText, Editors
  <2>2. Place(e.lines, e.cursor_x, e.cursor_y)
    BY <1>2, PartedFacts
  <2> QED BY <2>1, <2>2, LinesFacts DEF Strlen, Line, Place
<1>4. CASE Strlen(e) >= EDITOR_LINE_LEN - 1
  <2>1. r = e
    BY <1>1, <1>3, <1>4, InsertIs
  <2> QED BY <1>1, <2>1, MoveEffect
<1>5. CASE Strlen(e) < EDITOR_LINE_LEN - 1
  <2>1. /\ r \in Editors /\ Parted(r, a, Append(p, c), q, b)
        /\ r.modified /\ (r.running <=> e.running) /\ r.filename = e.filename
    BY <1>1, <1>2, <1>3, <1>5, InsertParts
  <2>2. InText(r)
    <3>1. Len(e.lines) = Len(a) + 1 + Len(b) /\ Len(r.lines) = Len(a) + 1 + Len(b)
      BY <1>2, <2>1, PartedFacts
    <3> QED BY <1>3, <2>1, <3>1 DEF InText
  <2>3. a \in Seq(Text) /\ p \in Text
    BY <1>2, LinesAreTexts DEF Parted
  <2>4. BeforeOf(r) = Append(BeforeOf(e), c) /\ AfterOf(r) = AfterOf(e)
    <3>1. /\ BeforeOf(e) = Join(Append(a, p)) /\ AfterOf(e) = Join(<<q>> \o b)
          /\ BeforeOf(r) = Join(Append(a, Append(p, c))) /\ AfterOf(r) = Join(<<q>> \o b)
      BY <1>2, <2>1, BeforeIs, AfterIs
    <3>2. Join(Append(a, Append(p, c))) = Append(Join(Append(a, p)), c)
      BY <2>3, JoinTyped
    <3> QED BY <3>1, <3>2
  <2> QED BY <1>1, <2>1, <2>2, <2>4 DEF KeyEffect, Keeps, TextStep
<1> QED BY <1>3, <1>4, <1>5, EditorAssumption

LEMMA NewlineEffect ==
  ASSUME NEW e, InText(e)
  PROVE  KeyEffect(e, Newline(e))
<1>1. PICK r : r = Newline(e)
  OBVIOUS
<1>2. PICK a, p, q, b : Parted(e, a, p, q, b)
  BY DEF InText
<1>3. e \in Editors /\ Len(e.lines) <= EDITOR_MAX_LINES /\ Len(e.lines) \in Nat
  BY LenProperties DEF InText, Editors
<1>4. CASE Len(e.lines) >= EDITOR_MAX_LINES
  <2>1. r = e
    BY <1>1, <1>3, <1>4, NewlineIs
  <2> QED BY <1>1, <2>1, MoveEffect
<1>5. CASE Len(e.lines) < EDITOR_MAX_LINES
  <2>1. /\ r \in Editors /\ Parted(r, Append(a, p), << >>, q, b)
        /\ r.modified /\ (r.running <=> e.running) /\ r.filename = e.filename
    BY <1>1, <1>2, <1>3, <1>5, NewlineParts
  <2>2. a \in Seq(Lines) /\ p \in Lines
    BY <1>2, PartIsLine DEF Parted
  <2>3. InText(r)
    <3>1. /\ Len(e.lines) = Len(a) + 1 + Len(b) /\ Len(a) \in Nat /\ Len(b) \in Nat
          /\ Len(r.lines) = Len(Append(a, p)) + 1 + Len(b)
      <4>1. Len(e.lines) = Len(a) + 1 + Len(b) /\ Len(a) \in Nat /\ Len(b) \in Nat
        BY <1>2, PartedFacts
      <4>2. PICK u, empty : u = Append(a, p) /\ empty = << >>
        OBVIOUS
      <4>3. Parted(r, u, empty, q, b)
        BY <2>1, <4>2
      <4>4. Len(r.lines) = Len(u) + 1 + Len(b)
        BY <4>3, PartedFacts
      <4> QED BY <4>1, <4>2, <4>4
    <3>2. Len(Append(a, p)) = Len(a) + 1
      BY <2>2, AppendProperties
    <3>3. Len(r.lines) <= EDITOR_MAX_LINES
      BY <1>5, <3>1, <3>2, EditorAssumption
    <3> QED BY <2>1, <3>3 DEF InText
  <2>4. a \in Seq(Text) /\ p \in Text /\ NL \in Printable \cup {NL}
    BY <2>2, LinesAreTexts
  <2>5. BeforeOf(r) = Append(BeforeOf(e), NL) /\ AfterOf(r) = AfterOf(e)
    <3>1. /\ BeforeOf(e) = Join(Append(a, p)) /\ AfterOf(e) = Join(<<q>> \o b)
          /\ BeforeOf(r) = Join(Append(Append(a, p), << >>)) /\ AfterOf(r) = Join(<<q>> \o b)
      BY <1>2, <2>1, BeforeIs, AfterIs
    <3>2. Join(Append(Append(a, p), << >>)) = Append(Join(Append(a, p)), NL)
      BY <2>4, JoinTyped
    <3> QED BY <3>1, <3>2
  <2> QED BY <1>1, <2>1, <2>3, <2>4, <2>5 DEF KeyEffect, Keeps, TextStep
<1> QED BY <1>3, <1>4, <1>5, EditorAssumption

LEMMA DeleteEffect ==
  ASSUME NEW e, InText(e)
  PROVE  KeyEffect(e, DeleteChar(e))
<1>1. PICK r : r = DeleteChar(e)
  OBVIOUS
<1>2. PICK a, p, q, b : Parted(e, a, p, q, b)
  BY DEF InText
<1>3. e \in Editors /\ Len(e.lines) <= EDITOR_MAX_LINES /\ e.cursor_x \in Nat
  BY DEF InText, Editors
<1>4. /\ a \in Seq(Lines) /\ p \in Seq(Printable) /\ a \in Seq(Text) /\ p \in Text
      /\ Len(e.lines) = Len(a) + 1 + Len(b) /\ Len(a) \in Nat /\ Len(b) \in Nat
      /\ BeforeOf(e) = Join(Append(a, p)) /\ AfterOf(e) = Join(<<q>> \o b)
  <2>1. a \in Seq(Lines) /\ p \in Seq(Printable)
    BY <1>2 DEF Parted
  <2>2. a \in Seq(Text) /\ p \in Text
    BY <2>1, LinesAreTexts
  <2>3. Len(e.lines) = Len(a) + 1 + Len(b) /\ Len(a) \in Nat /\ Len(b) \in Nat
    BY <1>2, PartedFacts
  <2>4. BeforeOf(e) = Join(Append(a, p)) /\ AfterOf(e) = Join(<<q>> \o b)
    BY <1>2, BeforeIs, AfterIs
  <2> QED BY <2>1, <2>2, <2>3, <2>4
<1>5. CASE e.cursor_x > 0
  <2>1. /\ r \in Editors /\ Parted(r, a, Front(p), q, b) /\ p # << >>
        /\ r.modified /\ (r.running <=> e.running) /\ r.filename = e.filename
    BY <1>1, <1>2, <1>3, <1>5, EraseParts
  <2>2. InText(r)
    <3>1. Len(r.lines) = Len(a) + 1 + Len(b)
      BY <2>1, PartedFacts
    <3> QED BY <1>3, <1>4, <2>1, <3>1 DEF InText
  <2>3. PICK c \in Printable : Front(p) \in Seq(Printable) /\ p = Append(Front(p), c)
    BY <1>4, <2>1, AppendOfFront
  <2>4. PICK f \in Text : f = Front(p)
    BY <2>3, LinesAreTexts
  <2>5. /\ Join(Append(a, f)) \in Text
        /\ Join(Append(a, Append(f, c))) = Append(Join(Append(a, f)), c)
    BY <1>4, JoinTyped
  <2>6. BeforeOf(r) = Join(Append(a, f)) /\ AfterOf(r) = Join(<<q>> \o b)
    BY <2>1, <2>4, BeforeIs, AfterIs
  <2>7. BeforeOf(e) = Append(BeforeOf(r), c) /\ AfterOf(r) = AfterOf(e) /\ BeforeOf(r) \in Text
    BY <1>4, <2>3, <2>4, <2>5, <2>6
  <2>8. BeforeOf(r) = Front(BeforeOf(e)) /\ BeforeOf(e) # << >>
    BY <2>7, FrontOfAppend DEF Text
  <2> QED BY <1>1, <2>1, <2>2, <2>7, <2>8 DEF KeyEffect, Keeps, TextStep
<1>6. CASE e.cursor_x = 0 /\ e.cursor_y > 0
             /\ Joins(Line(e, e.cursor_y - 1), Line(e, e.cursor_y))
  <2>1. /\ r \in Editors
        /\ \E a1 \in Seq(Lines), prev \in Lines :
              a = Append(a1, prev) /\ p = << >> /\ Parted(r, a1, prev, q, b)
        /\ r.modified /\ (r.running <=> e.running) /\ r.filename = e.filename
    BY <1>1, <1>2, <1>3, <1>6, JoinParts
  <2>2. PICK a1 \in Seq(Lines), prev \in Lines :
              a = Append(a1, prev) /\ p = << >> /\ Parted(r, a1, prev, q, b)
    BY <2>1
  <2>3. InText(r)
    <3>1. Len(r.lines) = Len(a1) + 1 + Len(b) /\ Len(a1) \in Nat
      BY <2>2, PartedFacts
    <3>2. Len(a) = Len(a1) + 1
      BY <2>2, AppendProperties
    <3>3. Len(r.lines) <= EDITOR_MAX_LINES
      BY <1>3, <1>4, <3>1, <3>2, EditorAssumption
    <3> QED BY <2>1, <2>2, <3>3 DEF InText
  <2>4. a1 \in Seq(Text) /\ prev \in Text /\ NL \in Printable \cup {NL}
    BY LinesAreTexts
  <2>5. /\ Join(Append(a1, prev)) \in Text
        /\ Join(Append(Append(a1, prev), << >>)) = Append(Join(Append(a1, prev)), NL)
    BY <2>4, JoinTyped
  <2>6. BeforeOf(r) = Join(Append(a1, prev)) /\ AfterOf(r) = Join(<<q>> \o b)
    BY <2>2, BeforeIs, AfterIs
  <2>7. BeforeOf(e) = Append(BeforeOf(r), NL) /\ AfterOf(r) = AfterOf(e) /\ BeforeOf(r) \in Text
    BY <1>4, <2>2, <2>5, <2>6
  <2>8. BeforeOf(r) = Front(BeforeOf(e)) /\ BeforeOf(e) # << >>
    BY <2>4, <2>7, FrontOfAppend DEF Text
  <2> QED BY <1>1, <2>1, <2>3, <2>7, <2>8 DEF KeyEffect, Keeps, TextStep
<1>7. CASE e.cursor_x = 0 /\ ~(e.cursor_y > 0
             /\ Joins(Line(e, e.cursor_y - 1), Line(e, e.cursor_y)))
  <2>1. r = e
    BY <1>1, <1>3, <1>7, DeleteCharIs, Zenon
  <2> QED BY <1>1, <2>1, MoveEffect
<1>8. e.cursor_x > 0 \/ e.cursor_x = 0
  BY <1>3
<1> QED BY <1>5, <1>6, <1>7, <1>8, Zenon

-----------------------------------------------------------------------------
(***************************************************************************)
(* The inductive invariant: the cursor in the text and on the screen, a    *)
(* consistent table whose files are texts, and what CleanMeansSame and     *)
(* SavedIsStored say, the latter with the file having a name.              *)
(***************************************************************************)
FilesAreText(s) == \A n \in Names : View(s)[n] \in Text \cup {NoFile}
StoredAs(s, n, text) ==
  \/ View(s)[n] = IF text = << >> THEN NoFile ELSE SubSeq(text, 1, WriteSize(text))
  \/ View(s)[n] = NoFile /\ s.count = TMPFS_MAX_FILES
Shown(e) == InText(e) /\ OnScreen(e)
Clean(e, text) == (e.running /\ ~e.modified) => Join(e.lines) = text
Saved(s, e, text, st) ==
  (e.running /\ st # NoSave) => e.filename \in Names /\ StoredAs(s, e.filename, text)
Inv == /\ Shown(ed) /\ Consistent(fs) /\ FilesAreText(fs)
       /\ Clean(ed, base) /\ Saved(fs, ed, base, status)

(* A text at its beginning: editor_new, editor_open and no session. *)
AtStart(e) == /\ e \in Editors /\ e.lines # << >> /\ Len(e.lines) <= EDITOR_MAX_LINES
              /\ e.cursor_x = 0 /\ e.cursor_y = 0 /\ e.scroll_y = 0 /\ ~e.modified
LEMMA StartFacts ==
  ASSUME NEW e, AtStart(e)
  PROVE  Shown(e) /\ BeforeOf(e) = << >>
<1>1. /\ e \in Editors /\ e.lines \in Seq(Lines) /\ e.lines # << >>
      /\ Len(e.lines) <= EDITOR_MAX_LINES
      /\ e.cursor_x = 0 /\ e.cursor_y = 0 /\ e.scroll_y = 0
  BY DEF AtStart, Editors
<1>2. Place(e.lines, e.cursor_x, e.cursor_y)
  <2>1. Len(e.lines) \in Nat \ {0}
    BY <1>1, EmptySeq
  <2>2. Len(e.lines[1]) \in Nat
    BY <1>1, <2>1, LinesFacts
  <2> QED BY <1>1, <2>1, <2>2 DEF Place
<1>3. InText(e)
  BY <1>1, <1>2, InTextIsPlace
<1>4. OnScreen(e)
  BY <1>1, EditorAssumption DEF OnScreen
<1>5. BeforeOf(e) = << >>
  <2>1. PICK a, p, q, b : Parted(e, a, p, q, b)
    BY <1>3 DEF InText
  <2>2. a \in Seq(Lines) /\ p \in Seq(Printable) /\ Len(a) = 0 /\ Len(p) = 0
    BY <1>1, <2>1 DEF Parted
  <2>3. a = << >> /\ p = << >>
    BY <2>2, EmptySeq
  <2>4. a \in Seq(Text) /\ p \in Text
    BY <2>2, LinesAreTexts
  <2>5. Join(Append(a, p)) = p
    BY <2>3, <2>4, JoinAppend
  <2>6. BeforeOf(e) = Join(Append(a, p))
    BY <2>1, BeforeIs
  <2> QED BY <2>3, <2>5, <2>6
<1> QED BY <1>3, <1>4, <1>5 DEF Shown

LEMMA FreshFacts ==
  ASSUME NEW n \in Names \cup {NoFile}
  PROVE  AtStart(Fresh(n)) /\ Fresh(n).running
<1>1. << >> \in Lines
  BY EditorAssumption DEF Lines
<1>a. << << >> >> \in Seq(Lines) /\ Len(<< << >> >>) = 1 /\ << << >> >> # << >>
  BY <1>1
<1>2. PICK ls \in Seq(Lines) : ls = << << >> >> /\ Len(ls) = 1 /\ ls # << >>
  BY <1>a
<1>3. Fresh(n) = [lines |-> ls, cursor_x |-> 0, cursor_y |-> 0, scroll_y |-> 0,
                  filename |-> n, modified |-> FALSE, running |-> TRUE]
  BY <1>2 DEF Fresh
<1> QED BY <1>2, <1>3, EditorAssumption DEF AtStart, Editors

LEMMA NoSessionFacts ==
  AtStart(NoSession) /\ ~NoSession.running
<1>1. PICK e : e = Fresh(NoFile)
  OBVIOUS
<1>2. AtStart(e)
  BY <1>1, FreshFacts
<1>3. NoSession = [e EXCEPT !.running = FALSE]
  BY <1>1 DEF NoSession
<1> QED BY <1>2, <1>3 DEF AtStart, Editors

LEMMA OpenedFacts ==
  ASSUME NEW n \in Names, NEW buf \in Text, NEW e,
         e = [Fresh(n) EXCEPT !.lines = SplitLines(buf)]
  PROVE  AtStart(e) /\ e.running
<1>1. PICK f, ls : f = Fresh(n) /\ ls = SplitLines(buf)
  OBVIOUS
<1>2. AtStart(f) /\ f.running
  BY <1>1, FreshFacts
<1>3. ls \in Seq(Lines) /\ ls # << >> /\ Len(ls) <= EDITOR_MAX_LINES
  BY <1>1, SplitLinesFacts
<1>4. e = [f EXCEPT !.lines = ls]
  BY <1>1
<1> QED BY <1>2, <1>3, <1>4 DEF AtStart, Editors

(* The end of a turn changes neither text nor cursor. *)
LEMMA ScrollKeeps ==
  ASSUME NEW e, InText(e)
  PROVE  /\ Shown(Scroll(e)) /\ BeforeOf(Scroll(e)) = BeforeOf(e)
         /\ AfterOf(Scroll(e)) = AfterOf(e) /\ Scroll(e).lines = e.lines
         /\ Scroll(e).filename = e.filename
         /\ (Scroll(e).modified <=> e.modified) /\ (Scroll(e).running <=> e.running)
<1>1. PICK r : r = Scroll(e)
  OBVIOUS
<1>2. e \in Editors /\ e.lines # << >> /\ Len(e.lines) <= EDITOR_MAX_LINES
      /\ Place(e.lines, e.cursor_x, e.cursor_y)
  BY InTextIsPlace
<1>3. /\ r \in Editors /\ OnScreen(r)
      /\ r.lines = e.lines /\ r.cursor_x = e.cursor_x
      /\ r.cursor_y = e.cursor_y /\ r.filename = e.filename
      /\ (r.modified <=> e.modified) /\ (r.running <=> e.running)
  BY <1>1, <1>2, ScrollFacts
<1>4. InText(r)
  BY <1>2, <1>3, InTextIsPlace
<1>5. BeforeOf(r) = BeforeOf(e) /\ AfterOf(r) = AfterOf(e)
  BY <1>3 DEF BeforeOf, AfterOf, LineCount
<1> QED BY <1>1, <1>3, <1>4, <1>5 DEF Shown

-----------------------------------------------------------------------------
(* A turn of the loop: a key, then scrolling. *)
LEMMA TurnEffect ==
  ASSUME NEW e, InText(e), NEW r, KeyEffect(e, r)
  PROVE  KeyEffect(e, Scroll(r)) /\ Shown(Scroll(r))
<1>1. PICK f : f = Scroll(r)
  OBVIOUS
<1>2. InText(r) /\ Keeps(e, r) /\ TextStep(e, r)
  BY DEF KeyEffect
<1>3. /\ Shown(f) /\ BeforeOf(f) = BeforeOf(r) /\ AfterOf(f) = AfterOf(r)
      /\ f.lines = r.lines /\ f.filename = r.filename
      /\ (f.modified <=> r.modified) /\ (f.running <=> r.running)
  BY <1>1, <1>2, ScrollKeeps
<1>4. InText(f) /\ f \in Editors
  BY <1>3 DEF Shown, InText
<1>5. Keeps(e, f)
  BY <1>2, <1>3, <1>4 DEF Keeps
<1>6. TextStep(e, f)
  BY <1>2, <1>3 DEF TextStep
<1> QED BY <1>1, <1>3, <1>4, <1>5, <1>6 DEF KeyEffect

LEMMA Turns ==
  ASSUME InText(ed), Typed \/ Enter \/ Backspace \/ Arrow \/ Jump
  PROVE  /\ ed.running /\ KeyEffect(ed, ed') /\ Shown(ed')
         /\ UNCHANGED <<vars, base, status>>
<1>1. ASSUME NEW r, KeyEffect(ed, r), Turn(r)
      PROVE  /\ ed.running /\ KeyEffect(ed, ed') /\ Shown(ed')
             /\ UNCHANGED <<vars, base, status>>
  <2>1. ed.running /\ ed' = Scroll(r) /\ UNCHANGED <<vars, base, status>>
    BY <1>1 DEF Turn
  <2>2. KeyEffect(ed, Scroll(r)) /\ Shown(Scroll(r))
    BY <1>1, TurnEffect
  <2> QED BY <2>1, <2>2
<1>2. \E r : KeyEffect(ed, r) /\ Turn(r)
  <2>1. CASE Typed
    BY <2>1, InsertEffect DEF Typed
  <2>2. CASE Enter
    BY <2>2, NewlineEffect DEF Enter
  <2>3. CASE Backspace
    BY <2>3, DeleteEffect DEF Backspace
  <2>4. CASE Arrow \/ Jump
    <3>1. \E r \in Strokes(ed) : Turn(r)
      BY <2>4 DEF Arrow, Jump, Strokes
    <3> QED BY <3>1, KeysMove, MoveEffect
  <2> QED BY <2>1, <2>2, <2>3, <2>4
<1> QED BY <1>1, <1>2

-----------------------------------------------------------------------------
(* A text cut to the size of a file or a buffer is a text, and is what     *)
(* SavedIsStored expects.                                                  *)
LEMMA CutText ==
  ASSUME NEW text \in Text, NEW k \in Nat
  PROVE  /\ text \in Seq(Nat) /\ Len(text) \in Nat
         /\ CutTo(text, k) \in Text /\ CutTo(text, k) # NoFile
         /\ CutTo(text, TMPFS_DATA_SIZE) = SubSeq(text, 1, WriteSize(text))
<1>1. PICK Chars \in SUBSET Nat : Chars = Printable \cup {NL}
  BY EditorAssumption
<1>2. text \in Seq(Chars) /\ Len(text) \in Nat
  BY <1>1, LenProperties DEF Text
<1>3. text \in Seq(Nat)
  BY <1>1, <1>2, SeqMonotonic
<1>4. CutTo(text, k) # NoFile
  BY <1>3, CutFacts
<1>5. Shorter(Len(text), k) \in Nat /\ Shorter(Len(text), k) <= Len(text)
  BY <1>2 DEF Shorter
<1>6. CutTo(text, k) \in Seq(Chars)
  BY <1>2, <1>5 DEF CutTo
<1>7. WriteSize(text) \in Nat /\ WriteSize(text) <= Len(text)
  BY <1>2, TableAssumption DEF WriteSize, Shorter
<1>8. SubSeq(text, 1, WriteSize(text)) = [b \in 1..WriteSize(text) |-> text[b]]
  BY <1>2, <1>7
<1> QED BY <1>1, <1>2, <1>3, <1>4, <1>6, <1>8 DEF Text, CutTo, WriteSize

(* A file removed, or a text written, leaves a table of texts. *)
LEMMA TextRemoved ==
  ASSUME NEW s, Consistent(s), FilesAreText(s), NEW n \in Names
  PROVE  LET d == TmpfsDelete(s, n).fs
         IN  Consistent(d) /\ FilesAreText(d) /\ View(d)[n] = NoFile
<1>1. PICK d : d = TmpfsDelete(s, n).fs
  OBVIOUS
<1>2. Consistent(d) /\ View(d) = Updated(View(s), n, NoFile)
  BY <1>1, DeleteFacts
<1>3. View(d)[n] = NoFile /\ \A m \in Names : m # n => View(d)[m] = View(s)[m]
  <2>1. /\ Updated(View(s), n, NoFile)[n] = NoFile
        /\ \A m \in Names : m # n => Updated(View(s), n, NoFile)[m] = View(s)[m]
    BY DEF Updated, View
  <2> QED BY <1>2, <2>1
<1>4. FilesAreText(d)
  BY <1>3 DEF FilesAreText
<1> QED BY <1>1, <1>2, <1>3, <1>4

LEMMA TextWritten ==
  ASSUME NamesFit, NEW s, Consistent(s), FilesAreText(s), NEW n \in Names,
         NEW text \in Text
  PROVE  LET w == TmpfsWrite(s, n, text).fs
         IN  /\ Consistent(w) /\ FilesAreText(w)
             /\ \/ View(w)[n] = SubSeq(text, 1, WriteSize(text))
                \/ w = s /\ View(s)[n] = NoFile /\ s.count = TMPFS_MAX_FILES
<1>1. PICK r : r = TmpfsWrite(s, n, text)
  OBVIOUS
<1>2. PICK cut : cut = CutTo(text, TMPFS_DATA_SIZE)
  OBVIOUS
<1>3. /\ text \in Seq(Nat) /\ Len(text) \in Nat /\ cut \in Text
      /\ cut = SubSeq(text, 1, WriteSize(text))
  BY <1>2, CutText, TableAssumption
<1>4. /\ Consistent(r.fs) /\ r.ret = IF RoomFor(s, n) THEN WriteSize(text) ELSE -1
      /\ View(r.fs) = IF RoomFor(s, n) THEN Updated(View(s), n, cut) ELSE View(s)
  BY <1>1, <1>2, <1>3, WriteFacts
<1>5. CASE RoomFor(s, n)
  <2>1. View(r.fs)[n] = cut /\ \A m \in Names : m # n => View(r.fs)[m] = View(s)[m]
    BY <1>4, <1>5, UpdatedFacts
  <2>2. FilesAreText(r.fs)
    BY <1>3, <2>1 DEF FilesAreText
  <2> QED BY <1>1, <1>3, <1>4, <2>1, <2>2
<1>6. CASE ~RoomFor(s, n)
  <2>1. View(s)[n] = NoFile /\ s.count = TMPFS_MAX_FILES
    BY <1>6, FullTable, TableAssumption DEF RoomFor
  <2>2. WriteSize(text) \in Nat
    BY <1>3, TableAssumption DEF WriteSize, Shorter
  <2>3. r = [fs |-> s, ret |-> -1] \/ r.ret = WriteSize(text)
    BY <1>1 DEF TmpfsWrite
  <2>4. r.fs = s
    BY <1>4, <1>6, <2>2, <2>3
  <2> QED BY <1>1, <2>1, <2>4
<1> QED BY <1>5, <1>6

(* editor_save stores the text as SavedIsStored says. *)
LEMMA SaveFacts ==
  ASSUME NamesFit, NEW s, Consistent(s), FilesAreText(s), NEW n \in Names,
         NEW text \in Text, NEW t,
         LET d == TmpfsDelete(s, n)
         IN  t = IF Writes(text) THEN TmpfsWrite(d.fs, n, text).fs ELSE d.fs
  PROVE  Consistent(t) /\ FilesAreText(t) /\ StoredAs(t, n, text)
<1>1. PICK d : d = TmpfsDelete(s, n).fs
  OBVIOUS
<1>2. Consistent(d) /\ FilesAreText(d) /\ View(d)[n] = NoFile
  BY <1>1, TextRemoved
<1>3. text # << >> <=> Writes(text)
  <2>1. Len(text) \in Nat /\ (text = << >> <=> Len(text) = 0)
    BY LenProperties, EmptySeq DEF Text
  <2> QED BY <2>1 DEF Writes
<1>4. t = IF Writes(text) THEN TmpfsWrite(d, n, text).fs ELSE d
  BY <1>1
<1>5. CASE Writes(text)
  <2>1. t = TmpfsWrite(d, n, text).fs
    BY <1>4, <1>5
  <2>2. /\ Consistent(t) /\ FilesAreText(t)
        /\ \/ View(t)[n] = SubSeq(text, 1, WriteSize(text))
           \/ t = d /\ View(d)[n] = NoFile /\ d.count = TMPFS_MAX_FILES
    BY <1>2, <2>1, TextWritten
  <2> QED BY <1>3, <1>5, <2>2 DEF StoredAs
<1>6. CASE ~Writes(text)
  BY <1>2, <1>3, <1>4, <1>6 DEF StoredAs
<1> QED BY <1>5, <1>6

(* editor_open and editor_new begin at the start of a text. *)
LEMMA StartsAtStart ==
  ASSUME Consistent(fs), FilesAreText(fs),
         EditorNew \/ \E n \in Names, enough \in BOOLEAN : EditorOpen(n, enough)
  PROVE  /\ ~ed.running /\ AtStart(ed') /\ ed'.running
         /\ base' = Join(ed'.lines) /\ status' = NoSave /\ UNCHANGED vars
<1>1. ASSUME NEW e, ~ed.running, Start(e), UNCHANGED vars, AtStart(e), e.running
      PROVE  /\ ~ed.running /\ AtStart(ed') /\ ed'.running
             /\ base' = Join(ed'.lines) /\ status' = NoSave /\ UNCHANGED vars
  BY <1>1 DEF Start
<1>2. CASE EditorNew
  BY <1>1, <1>2, FreshFacts DEF EditorNew
<1>3. ASSUME NEW n \in Names, NEW enough \in BOOLEAN, EditorOpen(n, enough)
      PROVE  /\ ~ed.running /\ AtStart(ed') /\ ed'.running
             /\ base' = Join(ed'.lines) /\ status' = NoSave /\ UNCHANGED vars
  <2>1. PICK k \in Nat : k = TMPFS_DATA_SIZE - 1
    BY TableAssumption, EditorAssumption
  <2>2. PICK r : r = TmpfsRead(fs, n, k)
    OBVIOUS
  <2>3. PICK e : e = IF enough /\ r.ret > 0
                     THEN [Fresh(n) EXCEPT !.lines = SplitLines(r.buf)] ELSE Fresh(n)
    OBVIOUS
  <2>4. ~ed.running /\ Start(e) /\ UNCHANGED vars
    BY <1>3, <2>1, <2>2, <2>3 DEF EditorOpen
  <2>5. CASE enough /\ r.ret > 0
    <3>1. View(fs)[n] # NoFile
      <4>1. View(fs)[n] = NoFile => r.ret = -1
        BY <2>2, ReadFacts
      <4> QED BY <2>5, <4>1
    <3>2. r.buf = CutTo(View(fs)[n], k)
      BY <2>2, <3>1, ReadFacts
    <3>3. View(fs)[n] \in Text
      BY <3>1 DEF FilesAreText
    <3>4. r.buf \in Text
      BY <3>2, <3>3, CutText
    <3>5. e = [Fresh(n) EXCEPT !.lines = SplitLines(r.buf)]
      BY <2>3, <2>5
    <3>6. AtStart(e) /\ e.running
      BY <3>4, <3>5, OpenedFacts
    <3> QED BY <1>1, <2>4, <3>6
  <2>6. CASE ~(enough /\ r.ret > 0)
    <3>1. e = Fresh(n)
      BY <2>3, <2>6
    <3>2. AtStart(e) /\ e.running
      BY <3>1, FreshFacts
    <3> QED BY <1>1, <2>4, <3>2
  <2> QED BY <2>5, <2>6
<1> QED BY <1>2, <1>3

(* Saving: without a name or enough nothing but scrolling; else the file   *)
(* is stored, and the text and the cursor stay.                            *)
LEMMA SavesFacts ==
  ASSUME NamesFit, Inv, NEW enough \in BOOLEAN, Save(enough)
  PROVE  /\ Inv' /\ ed.running /\ ed'.running
         /\ BeforeOf(ed') = BeforeOf(ed) /\ AfterOf(ed') = AfterOf(ed)
<1>1. /\ InText(ed) /\ ed \in Editors /\ ed.running
      /\ Consistent(fs) /\ FilesAreText(fs)
  BY DEF Inv, Shown, InText, Save
<1>2. PICK text \in Text : text = Join(ed.lines)
  <2>1. Join(ed.lines) \in Text
    BY <1>1, WholeText, ConcatIsText
  <2> QED BY <2>1
<1>3. CASE ed.filename = NoFile \/ ~enough
  <2>1. ed' = Scroll(ed) /\ UNCHANGED <<fs, base, status>>
    BY <1>3 DEF Save, vars
  <2>2. /\ Shown(ed') /\ BeforeOf(ed') = BeforeOf(ed)
        /\ AfterOf(ed') = AfterOf(ed) /\ ed'.lines = ed.lines
        /\ ed'.filename = ed.filename
        /\ (ed'.modified <=> ed.modified) /\ (ed'.running <=> ed.running)
    BY <1>1, <2>1, ScrollKeeps
  <2>3. Inv'
    BY <2>1, <2>2 DEF Inv, Clean, Saved
  <2> QED BY <1>1, <2>2, <2>3
<1>4. CASE ~(ed.filename = NoFile \/ ~enough)
  <2>1. PICK n \in Names : n = ed.filename
    BY <1>1, <1>4 DEF Editors
  <2>2. PICK e : e = [ed EXCEPT !.modified = FALSE]
    OBVIOUS
  <2>3. /\ e \in Editors /\ e.lines = ed.lines /\ e.cursor_x = ed.cursor_x
        /\ e.cursor_y = ed.cursor_y /\ e.filename = n /\ e.running
    BY <1>1, <2>1, <2>2 DEF Editors
  <2>4. InText(e) /\ BeforeOf(e) = BeforeOf(ed) /\ AfterOf(e) = AfterOf(ed)
    BY <1>1, <2>3, InTextIsPlace DEF BeforeOf, AfterOf, LineCount
  <2>5. /\ ed' = Scroll(e) /\ base' = text /\ status' = Len(text)
        /\ fs' = IF Writes(text) THEN TmpfsWrite(TmpfsDelete(fs, n).fs, n, text).fs
                 ELSE TmpfsDelete(fs, n).fs
    BY <1>2, <1>4, <2>1, <2>2 DEF Save, Returns
  <2>6. /\ Shown(ed') /\ BeforeOf(ed') = BeforeOf(e)
        /\ AfterOf(ed') = AfterOf(e) /\ ed'.lines = ed.lines
        /\ ed'.filename = n /\ ed'.running
    BY <2>3, <2>4, <2>5, ScrollKeeps
  <2>7. Consistent(fs') /\ FilesAreText(fs') /\ StoredAs(fs', n, text)
    BY <1>1, <2>5, SaveFacts
  <2>8. Inv'
    BY <1>2, <2>5, <2>6, <2>7 DEF Inv, Clean, Saved
  <2> QED BY <1>1, <2>4, <2>6, <2>8
<1> QED BY <1>3, <1>4

LEMMA InvInit == EInit => Inv
<1> SUFFICES ASSUME EInit PROVE Inv
  OBVIOUS
<1>1. Consistent(fs) /\ UsedSlots(fs) = {}
  BY ConsistentInit DEF EInit
<1>2. FilesAreText(fs)
  <2>1. ASSUME NEW n \in Names PROVE View(fs)[n] = NoFile
    BY <1>1, ViewFacts, FindFileFacts DEF UsedSlots
  <2> QED BY <2>1 DEF FilesAreText
<1>3. ed = NoSession
  BY DEF EInit, NoSession
<1>4. Shown(ed) /\ ~ed.running
  BY <1>3, NoSessionFacts, StartFacts
<1> QED BY <1>1, <1>2, <1>4 DEF Inv, Clean, Saved

LEMMA InvStep ==
  ASSUME NamesFit, Inv, [ENext]_evars
  PROVE  Inv'
<1>1. /\ Shown(ed) /\ InText(ed) /\ Consistent(fs) /\ FilesAreText(fs)
      /\ Clean(ed, base) /\ Saved(fs, ed, base, status)
  BY DEF Inv, Shown
<1>2. CASE EditorNew \/ \E n \in Names, enough \in BOOLEAN : EditorOpen(n, enough)
  <2>1. /\ AtStart(ed') /\ base' = Join(ed'.lines) /\ status' = NoSave /\ fs' = fs
    BY <1>1, <1>2, StartsAtStart DEF vars
  <2>2. Shown(ed')
    BY <2>1, StartFacts
  <2> QED BY <1>1, <2>1, <2>2 DEF Inv, Clean, Saved
<1>3. CASE Typed \/ Enter \/ Backspace \/ Arrow \/ Jump
  <2>1. /\ Keeps(ed, ed') /\ Shown(ed') /\ fs' = fs /\ base' = base /\ status' = status
    BY <1>1, <1>3, Turns DEF KeyEffect, vars
  <2> QED BY <1>1, <2>1 DEF Inv, Clean, Saved, Keeps
<1>4. CASE Quit
  <2>1. ed' = NoSession /\ fs' = fs
    BY <1>4 DEF Quit, vars
  <2>2. Shown(ed') /\ ~ed'.running
    BY <2>1, NoSessionFacts, StartFacts
  <2> QED BY <1>1, <2>1, <2>2 DEF Inv, Clean, Saved
<1>5. CASE \E enough \in BOOLEAN : Save(enough)
  BY <1>5, SavesFacts
<1>6. CASE Shell
  <2>1. ~ed.running /\ ed' = ed /\ base' = base
    BY <1>6 DEF Shell
  <2>2. Consistent(fs') /\ FilesAreText(fs')
    <3>1. ASSUME NEW n \in Names, Delete(n) PROVE Consistent(fs') /\ FilesAreText(fs')
      BY <1>1, <3>1, TextRemoved DEF Delete, Returns
    <3>2. ASSUME NEW n \in Names, NEW data \in Bodies, Write(n, data)
          PROVE  Consistent(fs') /\ FilesAreText(fs')
      <4>1. data \in Text
        BY EditorAssumption DEF Text
      <4> QED BY <1>1, <3>2, <4>1, TextWritten DEF Write, Returns
    <3> QED BY <1>6, <3>1, <3>2 DEF Shell
  <2> QED BY <1>1, <2>1, <2>2 DEF Inv, Clean, Saved
<1>7. CASE UNCHANGED evars
  BY <1>1, <1>7 DEF evars, vars, Inv
<1> QED BY <1>2, <1>3, <1>4, <1>5, <1>6, <1>7 DEF ENext

(* The invariant always holds. *)
LEMMA AlwaysInv ==
  ASSUME NamesFit
  PROVE  ESpec => []Inv
<1>1. EInit => Inv
  BY InvInit
<1>2. Inv /\ [ENext]_evars => Inv'
  BY InvStep
<1> QED BY <1>1, <1>2, PTL DEF ESpec

-----------------------------------------------------------------------------
(***************************************************************************)
(* editor.c: whatever is opened and typed, the lines fit their array and   *)
(* each its row of it, and the cursor is on one of them, within its        *)
(* length, and on the screen; for every number and length of lines, every  *)
(* height of the screen, and files of every size.                          *)
(***************************************************************************)
THEOREM CursorStaysInText ==
  ASSUME NamesFit
  PROVE  ESpec => []CursorInText
<1>1. Inv => CursorInText
  <2> SUFFICES ASSUME Inv PROVE CursorInText
    OBVIOUS
  <2>1. /\ ed \in Editors /\ ed.lines \in Seq(Lines) /\ ed.lines # << >>
        /\ Len(ed.lines) <= EDITOR_MAX_LINES
        /\ Place(ed.lines, ed.cursor_x, ed.cursor_y) /\ OnScreen(ed)
    BY InTextIsPlace DEF Inv, Shown, Editors
  <2>2. ASSUME NEW i \in DOMAIN ed.lines
        PROVE  /\ Len(ed.lines[i]) < EDITOR_LINE_LEN
               /\ ToSet(ed.lines[i]) \subseteq Printable
    <3>1. i \in 1..Len(ed.lines)
      BY <2>1, LenProperties
    <3>2. PICK l \in Seq(Printable) : l = ed.lines[i] /\ Len(l) < EDITOR_LINE_LEN
      BY <2>1, <3>1, LinesFacts
    <3>3. \A j \in DOMAIN l : l[j] \in Printable
      BY <3>2, ElementOfSeq, LenProperties
    <3> QED BY <3>2, <3>3 DEF ToSet
  <2>3. ed.scroll_y \in Nat /\ {ed.modified, ed.running} \subseteq BOOLEAN
    BY <2>1 DEF Editors
  <2> QED BY <2>1, <2>2, <2>3
          DEF CursorInText, ETypeOK, LineCount, Strlen, Line, Place, OnScreen
<1> QED BY <1>1, AlwaysInv, PTL

(***************************************************************************)
(* editor.c: modified is set by every key that changes the text, so while  *)
(* it is clear the text is the one last loaded or reported as saved.       *)
(***************************************************************************)
THEOREM CleanStaysSame ==
  ASSUME NamesFit
  PROVE  ESpec => []CleanMeansSame
<1>1. Inv => CleanMeansSame
  BY DEF Inv, Clean, CleanMeansSame
<1> QED BY <1>1, AlwaysInv, PTL

(***************************************************************************)
(* editor_save: the file reported as saved holds that text until the next  *)
(* save, cut to the size of a file, whatever the table held before; only a *)
(* new file in a full table is reported and not stored.                    *)
(***************************************************************************)
THEOREM SavesAreStored ==
  ASSUME NamesFit
  PROVE  ESpec => []SavedIsStored
<1>1. Inv => SavedIsStored
  BY ContentIsView DEF Inv, Saved, StoredAs, SavedIsStored
<1> QED BY <1>1, AlwaysInv, PTL

-----------------------------------------------------------------------------
(* The refinement mapping in the words of the lemmas. *)
LEMMA MappingIs == Before = BeforeOf(ed) /\ After = AfterOf(ed)
BY DEF Before, After, BeforeOf, AfterOf

LEMMA MappingIsNext == Before' = BeforeOf(ed') /\ After' = AfterOf(ed')
BY DEF Before, After, BeforeOf, AfterOf

LEMMA BufferStep ==
  ASSUME NamesFit, Inv, [ENext]_evars
  PROVE  [Buffer!BNext]_(Buffer!bvars)
<1>1. InText(ed) /\ Consistent(fs) /\ FilesAreText(fs) /\ ed \in Editors
  BY DEF Inv, Shown, InText
<1>2. CASE EditorNew \/ \E n \in Names, enough \in BOOLEAN : EditorOpen(n, enough)
  <2>1. ~ed.running /\ AtStart(ed') /\ ed'.running
    BY <1>1, <1>2, StartsAtStart
  <2>2. BeforeOf(ed') = << >>
    BY <2>1, StartFacts
  <2>3. Buffer!Load
    BY <2>1, <2>2, MappingIsNext DEF Buffer!Load
  <2> QED BY <2>3 DEF Buffer!BNext
<1>3. CASE Typed \/ Enter \/ Backspace \/ Arrow \/ Jump
  <2>1. ed.running /\ Keeps(ed, ed') /\ TextStep(ed, ed')
    BY <1>1, <1>3, Turns DEF KeyEffect
  <2>2. ed'.running
    BY <2>1 DEF Keeps
  <2>3. Buffer!Type \/ Buffer!Erase \/ Buffer!Move
    BY <2>1, <2>2, MappingIs, MappingIsNext
       DEF TextStep, Buffer!Type, Buffer!Erase, Buffer!Move, Buffer!Front, Front
  <2> QED BY <2>1, <2>3 DEF Buffer!BNext
<1>4. CASE Quit
  <2>1. ed.running /\ ed' = NoSession
    BY <1>4 DEF Quit
  <2>2. ~ed'.running
    BY <2>1, NoSessionFacts
  <2>3. Buffer!Close
    BY <2>1, <2>2 DEF Buffer!Close
  <2> QED BY <2>3 DEF Buffer!BNext
<1>5. CASE \E enough \in BOOLEAN : Save(enough)
  <2>1. /\ ed.running /\ ed'.running
        /\ BeforeOf(ed') = BeforeOf(ed) /\ AfterOf(ed') = AfterOf(ed)
    BY <1>5, SavesFacts
  <2>2. Buffer!Move
    BY <2>1, MappingIs, MappingIsNext DEF Buffer!Move
  <2> QED BY <2>1, <2>2 DEF Buffer!BNext
<1>6. CASE Shell \/ UNCHANGED evars
  <2>1. ed' = ed
    BY <1>6 DEF Shell, evars
  <2> QED BY <2>1, MappingIs, MappingIsNext DEF Buffer!bvars
<1> QED BY <1>2, <1>3, <1>4, <1>5, <1>6 DEF ENext

(***************************************************************************)
(* editor.c implements TextBuffer: every key types one character at the    *)
(* cursor, erases the one before it, or moves the cursor through the same  *)
(* text, so that splitting, joining and shifting lines never loses,        *)
(* repeats or reorders text, for every text that fits.                     *)
(***************************************************************************)
THEOREM EditorRefinesTextBuffer ==
  ASSUME NamesFit
  PROVE  ESpec => ImplementsTextBuffer
<1>1. EInit => Buffer!BInit
  BY NoSessionFacts DEF EInit, NoSession, Buffer!BInit
<1>2. Inv /\ [ENext]_evars => [Buffer!BNext]_(Buffer!bvars)
  BY BufferStep
<1> QED BY <1>1, <1>2, AlwaysInv, PTL DEF ESpec, ImplementsTextBuffer, Buffer!BSpec

-----------------------------------------------------------------------------
(* The CPU simulator: division with remainder for divisors that are not    *)
(* literals.                                                               *)

(* A number is the divisor times its quotient and the remainder. *)
LEMMA Division ==
  ASSUME NEW a \in Int, NEW d \in Nat, d > 0
  PROVE  /\ a \div d \in Int /\ a % d \in 0..(d - 1)
         /\ a = d * (a \div d) + (a % d)
OBVIOUS

(* There is only one such quotient and remainder. *)
LEMMA DivisionUnique ==
  ASSUME NEW a \in Int, NEW d \in Nat, d > 0, NEW q \in Int, NEW r \in Int,
         a = d * q + r, 0 <= r, r < d
  PROVE  a \div d = q /\ a % d = r
BY Z3

(* A multiple of the divisor does not change the remainder. *)
LEMMA ModShift ==
  ASSUME NEW a \in Int, NEW d \in Nat, d > 0, NEW k \in Int
  PROVE  (a + d * k) % d = a % d
<1> DEFINE q == a \div d
           r == a % d
<1>1. q \in Int /\ r \in Int /\ 0 <= r /\ r < d /\ a = d * q + r
  BY Division
<1> HIDE DEF q, r
<1>2. a + d * k = d * (q + k) + r
  BY <1>1
<1>3. a + d * k \in Int /\ q + k \in Int
  BY <1>1
<1>4. (a + d * k) % d = r
  BY <1>1, <1>2, <1>3, DivisionUnique
<1> QED BY <1>4 DEF r

(* Numbers less than the divisor apart have different remainders. *)
LEMMA ModApart ==
  ASSUME NEW a \in Int, NEW b \in Int, NEW d \in Nat, a < b, b - a < d
  PROVE  a % d # b % d
<1>1. SUFFICES ASSUME a % d = b % d PROVE FALSE
  OBVIOUS
<1> DEFINE x == a \div d
           y == b \div d
<1>2. d > 0
  OBVIOUS
<1>3. x \in Int /\ a % d \in Int /\ a = d * x + (a % d)
  BY <1>2, Division
<1>4. y \in Int /\ b % d \in Int /\ b = d * y + (b % d)
  BY <1>2, Division
<1> HIDE DEF x, y
<1>5. b - a = d * (y - x)
  BY <1>1, <1>3, <1>4
<1>6. CASE y - x <= 0
  BY <1>3, <1>4, <1>5, <1>6
<1>7. CASE y - x >= 1
  <2>1. d * (y - x) >= d
    BY <1>2, <1>3, <1>4, <1>7
  <2> QED BY <1>5, <2>1
<1> QED BY <1>3, <1>4, <1>6, <1>7

(* Dividing twice is dividing by the product. *)
LEMMA DivTwice ==
  ASSUME NEW v \in Int, NEW b \in Nat, NEW c \in Nat, b > 0, c > 0
  PROVE  v \div (b * c) = (v \div b) \div c
<1>1. PICK q \in Int, r \in 0..(b - 1) : v = b * q + r /\ v \div b = q
  BY Division
<1>2. PICK p \in Int, s \in 0..(c - 1) : q = c * p + s /\ q \div c = p
  BY Division
<1>3. v = (b * c) * p + (b * s + r)
  BY <1>1, <1>2
<1>4. b * s >= 0 /\ b * s <= b * (c - 1)
  BY <1>2
<1>5. b * c \in Nat /\ b * c > 0 /\ b * s + r \in Int /\ 0 <= b * s + r
  BY <1>1, <1>2, <1>4
<1>6. b * (c - 1) = b * c - b
  OBVIOUS
<1>7. b * s + r < b * c
  BY <1>1, <1>2, <1>4, <1>5, <1>6
<1> QED BY <1>1, <1>2, <1>3, <1>5, <1>7, DivisionUnique

-----------------------------------------------------------------------------
(* Words, bytes and cells. *)

(* The memory is not larger than the words, which it divides. *)
LEMMA WordFacts ==
  /\ Byte \in Nat /\ Byte > 1 /\ W \in Nat /\ W > 0
  /\ MemSize \in Nat /\ MemSize > 0 /\ MemSize <= W
  /\ \E m \in Nat : W = MemSize * m
<1>1. Byte \in Nat /\ Byte > 1 /\ MemSize \in Nat /\ MemSize > 0
  BY SimAssumption
<1>2. Byte * Byte \in Nat /\ Byte * Byte > 0
  BY <1>1
<1>3. (Byte * Byte) * Byte \in Nat /\ (Byte * Byte) * Byte > 0
  BY <1>1, <1>2
<1>4. W \in Nat /\ W > 0
  BY <1>1, <1>3 DEF W
<1> DEFINE m == W \div MemSize
<1>5. m \in Int /\ W = MemSize * m + (W % MemSize)
  BY <1>1, <1>4, Division
<1> HIDE DEF m
<1>6. W = MemSize * m
  BY <1>1, <1>4, <1>5, SimAssumption
<1>7. m >= 1
  BY <1>1, <1>4, <1>5, <1>6
<1>8. MemSize <= MemSize * m
  BY <1>1, <1>5, <1>7
<1> QED BY <1>1, <1>4, <1>5, <1>6, <1>7, <1>8

(* A cell is one of the memory, and the same before and after esp wraps. *)
LEMMA CellFacts ==
  ASSUME NEW x \in Int, NEW k \in Int, NEW i \in Int
  PROVE  /\ Cell(x, i) \in 0..(MemSize - 1)
         /\ Cell((x % W) + k, i) = Cell(x + k, i)
<1>1. Cell(x, i) \in 0..(MemSize - 1)
  BY WordFacts, Division DEF Cell
<1>2. PICK m \in Nat : W = MemSize * m
  BY WordFacts
<1>3. PICK q \in Int : x = W * q + (x % W) /\ x % W \in Int
  BY WordFacts, Division
<1>4. x + k + i = ((x % W) + k + i) + MemSize * (m * q)
  BY <1>2, <1>3, WordFacts
<1>5. (x % W) + k + i \in Int /\ m * q \in Int
  BY <1>2, <1>3
<1>6. (((x % W) + k + i) + MemSize * (m * q)) % MemSize = ((x % W) + k + i) % MemSize
  BY <1>5, WordFacts, ModShift
<1> QED BY <1>1, <1>4, <1>6 DEF Cell

(* Cells less than the memory apart are different. *)
LEMMA CellsApart ==
  ASSUME NEW x \in Int, NEW i \in Int, NEW j \in Int, i # j,
         i - j < MemSize, j - i < MemSize
  PROVE  Cell(x, i) # Cell(x, j)
<1>1. CASE i < j
  <2>1. x + i < x + j /\ (x + j) - (x + i) < MemSize
    BY <1>1
  <2>2. x + i \in Int /\ x + j \in Int /\ MemSize \in Nat
    BY WordFacts
  <2> QED BY <2>1, <2>2, ModApart DEF Cell
<1>2. CASE j < i
  <2>1. x + j < x + i /\ (x + i) - (x + j) < MemSize
    BY <1>2
  <2>2. x + i \in Int /\ x + j \in Int /\ MemSize \in Nat
    BY WordFacts
  <2> QED BY <2>1, <2>2, ModApart DEF Cell
<1> QED BY <1>1, <1>2

(* The four bytes of a word are bytes, and the word is made of them. *)
LEMMA ByteSplit ==
  ASSUME NEW v \in Word
  PROVE  /\ \A i \in 0..3 : ByteOf(v, i) \in 0..(Byte - 1)
         /\ v = ByteOf(v, 0) + Byte * (ByteOf(v, 1)
                + Byte * (ByteOf(v, 2) + Byte * ByteOf(v, 3)))
<1>0. Byte \in Nat /\ Byte > 0 /\ Byte > 1 /\ W \in Nat
  BY WordFacts
<1> USE <1>0
<1> DEFINE q1 == v \div Byte
           q2 == q1 \div Byte
           q3 == q2 \div Byte
<1>1. v \in Int /\ 0 <= v /\ v < W
  BY DEF Word
<1>2. q1 \in Int /\ v % Byte \in 0..(Byte - 1) /\ v = (v % Byte) + Byte * q1
  BY <1>1, Division
<1>3. q2 \in Int /\ q1 % Byte \in 0..(Byte - 1) /\ q1 = (q1 % Byte) + Byte * q2
  <2> HIDE DEF q1
  <2> QED BY <1>2, Division
<1>4. q3 \in Int /\ q2 % Byte \in 0..(Byte - 1) /\ q2 = (q2 % Byte) + Byte * q3
  <2> HIDE DEF q2
  <2> QED BY <1>3, Division
<1>5. v \div (Byte * Byte) = q2
  BY <1>1, DivTwice
<1>6. Byte * Byte \in Nat /\ Byte * Byte > 0
  OBVIOUS
<1>7. v \div (Byte * Byte * Byte) = q3
  <2>1. v \div ((Byte * Byte) * Byte) = (v \div (Byte * Byte)) \div Byte
    BY <1>1, <1>6, DivTwice
  <2> QED BY <2>1, <1>5
<1>8. q3 % Byte \in 0..(Byte - 1)
  BY <1>4, Division
<1> HIDE DEF q1, q2, q3
<1>9. 0 <= q1 /\ q1 < Byte * Byte * Byte
  <2>1. CASE q1 < 0
    <3>1. Byte * q1 <= Byte * (-1)
      BY <1>2, <2>1
    <3> QED BY <1>1, <1>2, <3>1
  <2>2. CASE q1 >= Byte * Byte * Byte
    <3>1. Byte * q1 >= Byte * (Byte * Byte * Byte)
      BY <1>2, <2>2, <1>6
    <3> QED BY <1>1, <1>2, <3>1, <1>6 DEF W
  <2> QED BY <1>2, <1>6, <2>1, <2>2
<1>10. 0 <= q2 /\ q2 < Byte * Byte
  <2>1. CASE q2 < 0
    <3>1. Byte * q2 <= Byte * (-1)
      BY <1>3, <2>1
    <3> QED BY <1>9, <1>2, <1>3, <3>1
  <2>2. CASE q2 >= Byte * Byte
    <3>1. Byte * q2 >= Byte * (Byte * Byte)
      BY <1>3, <2>2, <1>6
    <3> QED BY <1>2, <1>3, <1>9, <3>1, <1>6
  <2> QED BY <1>3, <1>6, <2>1, <2>2
<1>11. 0 <= q3 /\ q3 < Byte
  <2>1. CASE q3 < 0
    <3>1. Byte * q3 <= Byte * (-1)
      BY <1>4, <2>1
    <3> QED BY <1>10, <1>3, <1>4, <3>1
  <2>2. CASE q3 >= Byte
    <3>1. Byte * q3 >= Byte * Byte
      BY <1>4, <2>2, <1>6
    <3> QED BY <1>3, <1>4, <1>10, <3>1, <1>6
  <2> QED BY <1>4, <2>1, <2>2
<1>12. q3 % Byte = q3
  <2>1. q3 = Byte * 0 + q3
    BY <1>4
  <2> QED BY <2>1, <1>4, <1>11, DivisionUnique
<1>13. /\ ByteOf(v, 0) = v % Byte /\ ByteOf(v, 1) = q1 % Byte
       /\ ByteOf(v, 2) = q2 % Byte /\ ByteOf(v, 3) = q3
  BY <1>5, <1>7, <1>12 DEF ByteOf, q1
<1>14. \A i \in 0..3 : i = 0 \/ i = 1 \/ i = 2 \/ i = 3
  OBVIOUS
<1>15. \A i \in 0..3 : ByteOf(v, i) \in 0..(Byte - 1)
  BY <1>2, <1>3, <1>4, <1>8, <1>12, <1>13, <1>14
<1>16. v = (v % Byte) + Byte * ((q1 % Byte) + Byte * ((q2 % Byte) + Byte * q3))
  BY <1>2, <1>3, <1>4, Zenon
<1> QED BY <1>13, <1>15, <1>16, Zenon

-----------------------------------------------------------------------------
(* What push and pop do to the memory. *)

Memories == [0..(MemSize - 1) -> 0..(Byte - 1)]
LoadedFrom(m, x) == m[Cell(x, 0)]
                    + Byte * (m[Cell(x, 1)]
                    + Byte * (m[Cell(x, 2)] + Byte * m[Cell(x, 3)]))

(* Pop reads a word, the same one whether esp has wrapped or not. *)
LEMMA LoadedFacts ==
  ASSUME NEW m \in Memories, NEW x \in Int, NEW k \in Int
  PROVE  /\ LoadedFrom(m, x) \in Word
         /\ LoadedFrom(m, (x % W) + k) = LoadedFrom(m, x + k)
<1>1. \A i \in 0..3 : Cell(x, i) \in 0..(MemSize - 1)
  BY CellFacts
<1>2. \A i \in 0..3 : m[Cell(x, i)] \in 0..(Byte - 1)
  BY <1>1 DEF Memories
<1>3. PICK a \in 0..(Byte - 1), b \in 0..(Byte - 1),
           c \in 0..(Byte - 1), d \in 0..(Byte - 1) :
        LoadedFrom(m, x) = a + Byte * (b + Byte * (c + Byte * d))
  BY <1>2 DEF LoadedFrom
<1>4. Byte \in Nat /\ Byte > 1
  BY WordFacts
<1>5. ASSUME NEW p \in Nat, NEW n \in Nat, p < n, NEW e \in 0..(Byte - 1)
      PROVE  e + Byte * p \in Nat /\ e + Byte * p < n * Byte
  <2>1. Byte * p <= Byte * (n - 1) /\ Byte * (n - 1) = n * Byte - Byte
    BY <1>4, <1>5
  <2>2. Byte * p \in Nat /\ n * Byte \in Nat
    BY <1>4, <1>5
  <2> QED BY <1>4, <1>5, <2>1, <2>2
<1>6. c + Byte * d \in Nat /\ c + Byte * d < Byte * Byte
  BY <1>4, <1>5
<1>7. Byte * Byte \in Nat /\ Byte * Byte * Byte \in Nat
  BY <1>4
<1>8. /\ b + Byte * (c + Byte * d) \in Nat
      /\ b + Byte * (c + Byte * d) < Byte * Byte * Byte
  BY <1>5, <1>6, <1>7
<1>9. /\ a + Byte * (b + Byte * (c + Byte * d)) \in Nat
      /\ a + Byte * (b + Byte * (c + Byte * d)) < Byte * Byte * Byte * Byte
  BY <1>5, <1>7, <1>8
<1>10. LoadedFrom(m, x) \in Word
  BY <1>3, <1>9, WordFacts DEF Word, W
<1>11. \A i \in 0..3 : Cell((x % W) + k, i) = Cell(x + k, i)
  BY CellFacts
<1>12. LoadedFrom(m, (x % W) + k) = LoadedFrom(m, x + k)
  BY <1>11 DEF LoadedFrom
<1> QED BY <1>10, <1>12

(* Push leaves bytes, and those of the word where it says. *)
LEMMA PushedFacts ==
  ASSUME memory \in Memories, NEW x \in Int, NEW v \in Word
  PROVE  /\ Pushed(x, v) \in Memories
         /\ \A a \in 0..(MemSize - 1) :
              (\A i \in 0..3 : a # Cell(x, i)) => Pushed(x, v)[a] = memory[a]
         /\ 4 <= MemSize => \A i \in 0..3 : Pushed(x, v)[Cell(x, i)] = ByteOf(v, i)
<1>1. ASSUME NEW a \in 0..(MemSize - 1), NEW i \in 0..3, a = Cell(x, i)
      PROVE  \E j \in 0..3 : a = Cell(x, j) /\ Pushed(x, v)[a] = ByteOf(v, j)
  <2> DEFINE j == CHOOSE j \in 0..3 : a = Cell(x, j)
  <2>1. j \in 0..3 /\ a = Cell(x, j)
    BY <1>1
  <2>2. Pushed(x, v)[a] = ByteOf(v, j)
    BY <1>1 DEF Pushed
  <2> QED BY <2>1, <2>2
<1>2. ASSUME NEW a \in 0..(MemSize - 1), \A i \in 0..3 : a # Cell(x, i)
      PROVE  Pushed(x, v)[a] = memory[a]
  BY <1>2 DEF Pushed
<1>3. \A a \in 0..(MemSize - 1) : Pushed(x, v)[a] \in 0..(Byte - 1)
  BY <1>1, <1>2, ByteSplit DEF Memories
<1>4. Pushed(x, v) \in Memories
  BY <1>3 DEF Pushed, Memories
<1>5. ASSUME 4 <= MemSize, NEW i \in 0..3
      PROVE  Pushed(x, v)[Cell(x, i)] = ByteOf(v, i)
  <2>1. Cell(x, i) \in 0..(MemSize - 1)
    BY CellFacts
  <2>2. PICK j \in 0..3 : /\ Cell(x, i) = Cell(x, j)
                          /\ Pushed(x, v)[Cell(x, i)] = ByteOf(v, j)
    BY <1>1, <2>1
  <2>3. i - j < MemSize /\ j - i < MemSize
    BY <1>5, WordFacts
  <2>4. i = j
    BY <2>2, <2>3, CellsApart
  <2> QED BY <2>2, <2>4
<1>6. \A a \in 0..(MemSize - 1) :
        (\A i \in 0..3 : a # Cell(x, i)) => Pushed(x, v)[a] = memory[a]
  BY <1>2
<1>7. 4 <= MemSize => \A i \in 0..3 : Pushed(x, v)[Cell(x, i)] = ByteOf(v, i)
  BY <1>5
<1> QED BY <1>4, <1>6, <1>7, ZenonT(60)

(* Pop after push gives the word pushed. *)
LEMMA LoadPushed ==
  ASSUME memory \in Memories, NEW x \in Int, NEW v \in Word, 4 <= MemSize
  PROVE  LoadedFrom(Pushed(x, v), x) = v
<1>1. \A i \in 0..3 : Pushed(x, v)[Cell(x, i)] = ByteOf(v, i)
  BY PushedFacts
<1>2. LoadedFrom(Pushed(x, v), x)
        = ByteOf(v, 0) + Byte * (ByteOf(v, 1)
          + Byte * (ByteOf(v, 2) + Byte * ByteOf(v, 3)))
  BY <1>1 DEF LoadedFrom
<1> QED BY <1>2, ByteSplit, Zenon

(* Push leaves the words above it alone, as far as the memory reaches. *)
LEMMA LoadKept ==
  ASSUME memory \in Memories, NEW x \in Int, NEW v \in Word,
         NEW k \in 1..(Depth - 1)
  PROVE  LoadedFrom(Pushed(x, v), x + 4 * k) = LoadedFrom(memory, x + 4 * k)
<1>1. 4 * Depth <= MemSize /\ Depth \in Int
  BY WordFacts DEF Depth
<1>2. ASSUME NEW j \in 0..3
      PROVE  Pushed(x, v)[Cell(x + 4 * k, j)] = memory[Cell(x + 4 * k, j)]
  <2>1. Cell(x + 4 * k, j) = Cell(x, 4 * k + j)
    BY DEF Cell
  <2>2. \A i \in 0..3 : /\ 4 * k + j # i /\ i \in Int /\ 4 * k + j \in Int
                        /\ (4 * k + j) - i < MemSize /\ i - (4 * k + j) < MemSize
    BY <1>1, WordFacts
  <2>3. \A i \in 0..3 : Cell(x, 4 * k + j) # Cell(x, i)
    BY <2>2, CellsApart
  <2>4. Cell(x, 4 * k + j) \in 0..(MemSize - 1)
    <3>1. 4 * k + j \in Int
      OBVIOUS
    <3> QED BY <3>1, CellFacts
  <2> QED BY <2>1, <2>3, <2>4, PushedFacts
<1> QED BY <1>2 DEF LoadedFrom

-----------------------------------------------------------------------------
(* The inductive invariant of the CPU simulator: registers hold words, the *)
(* memory bytes, and the history no more words than fit the memory.        *)
CpuTypes == /\ regs \in [RegNames -> Word]
            /\ memory \in Memories
            /\ stack \in Seq(Word) /\ Len(stack) <= Depth
StackInv == CpuTypes /\ StackIntact

(* StackIntact with the memory as a parameter. *)
LEMMA StackIntactFacts ==
  /\ StackIntact <=> \A i \in 1..Len(stack) :
       LoadedFrom(memory, regs["esp"] + 4 * (Len(stack) - i)) = stack[i]
  /\ StackIntact' <=> \A i \in 1..Len(stack') :
       LoadedFrom(memory', regs'["esp"] + 4 * (Len(stack') - i)) = stack'[i]
  BY DEF StackIntact, Loaded, LoadedFrom, Cell

(* Operands are words, and so is what an instruction computes. *)
LEMMA Words ==
  ASSUME CpuTypes
  PROVE  /\ \A o \in Operands : Val(o) \in Word
         /\ Counted \in [RegNames -> Word]
         /\ Counted["esp"] = regs["esp"]
<1>1. \A o \in Operands : Val(o) \in Word
  <2> SUFFICES ASSUME NEW o \in Operands PROVE Val(o) \in Word
    OBVIOUS
  <2>1. CASE o \in [reg : Regs]
    BY <2>1, SimAssumption DEF CpuTypes, Val
  <2>2. CASE o \in [num : Numbers]
    BY <2>2, SimAssumption DEF Val
  <2>3. CASE o \in [addr : Numbers]
    BY <2>3, SimAssumption DEF Val
  <2> QED BY <2>1, <2>2, <2>3 DEF Operands
<1>2. "eip" \in RegNames /\ "esp" \in RegNames
  BY DEF RegNames
<1>3. (regs["eip"] + 1) % W \in Word
  BY <1>2, WordFacts, Division DEF CpuTypes, Word
<1> QED BY <1>1, <1>2, <1>3 DEF Counted, CpuTypes

(* Setting an operand keeps the registers words, and changes esp only when *)
(* esp is the operand.                                                     *)
LEMMA SetOperandFacts ==
  ASSUME NEW rs \in [RegNames -> Word], NEW o \in Operands, NEW v \in Word
  PROVE  /\ SetOperand(rs, o, v) \in [RegNames -> Word]
         /\ ~("reg" \in DOMAIN o /\ o.reg = "esp")
              => SetOperand(rs, o, v)["esp"] = rs["esp"]
         /\ ("reg" \in DOMAIN o /\ o.reg = "esp") => o = [reg |-> "esp"]
<1>1. CASE o \in [reg : Regs]
  <2>1. o.reg \in RegNames /\ "reg" \in DOMAIN o /\ "esp" \in RegNames
    BY <1>1, SimAssumption DEF RegNames
  <2>2. o.reg = "esp" => o = [reg |-> "esp"]
    BY <1>1
  <2> QED BY <2>1, <2>2 DEF SetOperand
<1>2. CASE o \in [num : Numbers] \cup [addr : Numbers]
  <2>1. "reg" \notin DOMAIN o
    BY <1>2
  <2> QED BY <2>1 DEF SetOperand
<1> QED BY <1>1, <1>2 DEF Operands

(* Every result of an operation on words is a word. *)
LEMMA ResultsAreWords ==
  ASSUME NEW op \in AluOps, NEW x \in Word, NEW y \in Word
  PROVE  Results(op, x, y) \subseteq Word
<1>1. \A a \in Int : a % W \in Word
  BY WordFacts, Division DEF Word
<1>2. x \in Int /\ y \in Int
  BY DEF Word
<1>3. (x + y) % W \in Word /\ (x - y) % W \in Word
      /\ (x + 1) % W \in Word /\ (x - 1) % W \in Word
  BY <1>1, <1>2
<1>4. \A S : WithOnes(S) \subseteq Word
  BY DEF WithOnes
<1>5. \A n : Shifted(x, n) \subseteq Word
  BY <1>4 DEF Shifted
<1>6. CASE op = "shl"
  BY <1>5, <1>6 DEF Results
<1>7. CASE op = "shr"
  BY <1>5, <1>7 DEF Results
<1>8. CASE op \in {"and", "test", "or", "xor"}
  BY <1>4, <1>8 DEF Results
<1>9. CASE op \in {"add", "sub", "cmp", "inc", "dec"}
  BY <1>3, <1>9 DEF Results
<1> QED BY <1>6, <1>7, <1>8, <1>9 DEF AluOps

(* A step that leaves the memory alone keeps the invariant when it leaves  *)
(* esp alone too, or ends the history.                                     *)
LEMMA QuietStep ==
  ASSUME StackInv, regs' \in [RegNames -> Word], memory' = memory,
         \/ stack' = << >>
         \/ stack' = stack /\ regs'["esp"] = regs["esp"]
  PROVE  StackInv'
<1>1. CASE stack' = << >>
  <2>1. Len(stack') = 0 /\ stack' \in Seq(Word) /\ 0 <= Depth
    BY <1>1, WordFacts DEF Depth
  <2>2. CpuTypes'
    BY <2>1 DEF StackInv, CpuTypes, Memories
  <2>3. StackIntact'
    BY <2>1, StackIntactFacts
  <2> QED BY <2>2, <2>3 DEF StackInv
<1>2. CASE stack' = stack /\ regs'["esp"] = regs["esp"]
  <2>1. CpuTypes'
    BY <1>2 DEF StackInv, CpuTypes, Memories
  <2>2. StackIntact'
    BY <1>2, StackIntactFacts DEF StackInv
  <2> QED BY <2>1, <2>2 DEF StackInv
<1> QED BY <1>1, <1>2

(* The same for a step that sets an operand after counting. *)
LEMMA SettingStep ==
  ASSUME StackInv, NEW o \in Operands, NEW v \in Word,
         regs' = SetOperand(Counted, o, v), KeepStack(o), memory' = memory
  PROVE  StackInv'
<1>1. CpuTypes
  BY DEF StackInv
<1>2. /\ regs' \in [RegNames -> Word]
      /\ ~("reg" \in DOMAIN o /\ o.reg = "esp") => regs'["esp"] = regs["esp"]
  BY <1>1, Words, SetOperandFacts
<1> QED BY <1>2, QuietStep DEF KeepStack

(* The same for a step that only counts. *)
LEMMA CountingStep ==
  ASSUME StackInv, regs' = Counted, memory' = memory, stack' = stack
  PROVE  StackInv'
  BY Words, QuietStep DEF StackInv

(* mul and div leave words in eax and edx, and esp alone. *)
LEMMA PairStep ==
  ASSUME StackInv, NEW a \in Word, NEW d \in Word,
         regs' = Pair(a, d), memory' = memory, stack' = stack
  PROVE  StackInv'
<1>1. Counted \in [RegNames -> Word] /\ Counted["esp"] = regs["esp"]
  BY Words DEF StackInv
<1>2. "esp" \in RegNames /\ "eax" \in RegNames /\ "edx" \in RegNames
  BY DEF RegNames
<1>3. regs' \in [RegNames -> Word] /\ regs'["esp"] = regs["esp"]
  BY <1>1, <1>2 DEF Pair
<1> QED BY <1>3, QuietStep

(* The high word of a product and the quotient of two words are words. *)
LEMMA ProductAndQuotient ==
  ASSUME NEW x \in Word, NEW y \in Word
  PROVE  /\ (x * y) % W \in Word /\ (x * y) \div W \in Word
         /\ y # 0 => x \div y \in Word /\ x % y \in Word
<1>1. W \in Nat /\ W > 0 /\ x \in Nat /\ y \in Nat /\ x < W /\ y < W
  BY WordFacts DEF Word
<1>2. x * y \in Nat /\ x * y <= W * y
  BY <1>1
<1> DEFINE q == (x * y) \div W
           r == (x * y) % W
<1>3. q \in Int /\ r \in 0..(W - 1) /\ x * y = W * q + r
  BY <1>1, <1>2, Division
<1> HIDE DEF q, r
<1>4. q >= 0
  <2> SUFFICES ASSUME q <= -1 PROVE FALSE
    BY <1>3
  <2>1. W * q <= W * (-1)
    BY <1>1, <1>3
  <2> QED BY <1>1, <1>2, <1>3, <2>1
<1>5. q < W
  <2> SUFFICES ASSUME q >= y + 1 PROVE FALSE
    BY <1>1, <1>3
  <2>1. W * q >= W * (y + 1) /\ W * (y + 1) = W * y + W
    BY <1>1, <1>3
  <2>2. W * y \in Nat
    BY <1>1
  <2> QED BY <1>1, <1>2, <1>3, <2>1, <2>2
<1>6. r \in Word /\ q \in Word
  BY <1>3, <1>4, <1>5, <1>1 DEF Word
<1>7. ASSUME y # 0 PROVE x \div y \in Word /\ x % y \in Word
  <2> DEFINE p == x \div y
             s == x % y
  <2>1. y > 0
    BY <1>1, <1>7
  <2>2. p \in Int /\ s \in 0..(y - 1) /\ x = y * p + s
    BY <1>1, <2>1, Division
  <2> HIDE DEF p, s
  <2>3. p >= 0
    <3> SUFFICES ASSUME p <= -1 PROVE FALSE
      BY <2>2
    <3>1. y * p <= y * (-1)
      BY <1>1, <2>2
    <3> QED BY <1>1, <2>2, <3>1
  <2>4. p <= y * p
    BY <1>1, <2>1, <2>2, <2>3
  <2>5. p < W
    BY <1>1, <2>2, <2>3, <2>4
  <2>6. p \in Word /\ s \in Word
    BY <1>1, <2>2, <2>3, <2>5 DEF Word
  <2> QED BY <2>6 DEF p, s
<1> QED BY <1>6, <1>7 DEF q, r

(* push keeps the words that the memory has room for. *)
LEMMA PushStep ==
  ASSUME StackInv, NEW o \in Operands, Push(o)
  PROVE  StackInv'
<1> DEFINE e == regs["esp"]
           x == Lowered(e)
           v == Val(o)
           n == Len(stack)
<1>1. CpuTypes /\ StackIntact
  BY DEF StackInv
<1>2. "esp" \in RegNames
  BY DEF RegNames
<1>3. v \in Word /\ Counted \in [RegNames -> Word]
  BY <1>1, Words
<1>4. e \in Word /\ e \in Int
  BY <1>1, <1>2 DEF CpuTypes, Word
<1>5. x = (e - 4) % W /\ x \in Word /\ x \in Int
  BY <1>4, WordFacts, Division DEF Lowered, Word
<1>6. regs' = [Counted EXCEPT !["esp"] = x]
  BY DEF Push
<1>7. regs' \in [RegNames -> Word] /\ regs'["esp"] = x
  BY <1>2, <1>3, <1>5, <1>6
<1>8. memory' = Pushed(x, v) /\ memory \in Memories
  BY <1>1 DEF Push, CpuTypes
<1>9. memory' \in Memories
  BY <1>3, <1>5, <1>8, PushedFacts
<1>10. stack \in Seq(Word) /\ n \in Nat /\ n <= Depth
  BY <1>1 DEF CpuTypes
<1>11. Depth \in Nat /\ 4 * Depth <= MemSize
  BY WordFacts DEF Depth
<1>12. stack' = Newest(Append(stack, v))
  BY DEF Push
<1> HIDE DEF x, v, e
<1>13. \A i \in 1..n : LoadedFrom(memory, e + 4 * (n - i)) = stack[i]
  BY <1>1, StackIntactFacts DEF e
<1>14. ASSUME NEW i \in 1..n, n - i + 1 <= Depth - 1
       PROVE  LoadedFrom(memory', x + 4 * (n - i + 1)) = stack[i]
  <2> DEFINE k == n - i + 1
  <2>1. k \in 1..(Depth - 1)
    BY <1>10, <1>11, <1>14
  <2>2. LoadedFrom(memory', x + 4 * k) = LoadedFrom(memory, x + 4 * k)
    BY <1>3, <1>5, <1>8, <2>1, LoadKept
  <2>3. e - 4 \in Int /\ 4 * k \in Int
    BY <1>4, <1>10
  <2>4. LoadedFrom(memory, ((e - 4) % W) + 4 * k) = LoadedFrom(memory, (e - 4) + 4 * k)
    BY <1>8, <2>3, LoadedFacts
  <2>5. (e - 4) + 4 * k = e + 4 * (n - i)
    BY <1>4, <1>10
  <2> QED BY <1>5, <1>13, <2>2, <2>4, <2>5
<1>15. ASSUME Depth >= 1
       PROVE  LoadedFrom(memory', x + 4 * 0) = v
  <2>1. 4 <= MemSize /\ x + 4 * 0 = x
    BY <1>5, <1>11, <1>15, WordFacts
  <2> QED BY <1>3, <1>5, <1>8, <2>1, LoadPushed
<1>16. CASE n < Depth
  <2>1. /\ stack' = Append(stack, v) /\ stack' \in Seq(Word) /\ Len(stack') = n + 1
        /\ stack'[n + 1] = v /\ \A i \in 1..n : stack'[i] = stack[i]
    <3>1. Len(Append(stack, v)) = n + 1
      BY <1>3, <1>10
    <3>2. stack' = Append(stack, v)
      BY <1>10, <1>11, <1>12, <1>16, <3>1 DEF Newest
    <3> QED BY <1>3, <1>10, <3>1, <3>2
  <2>2. CpuTypes'
    BY <1>7, <1>9, <1>11, <1>16, <2>1 DEF CpuTypes, Memories
  <2>3. ASSUME NEW i \in 1..Len(stack')
        PROVE  LoadedFrom(memory', regs'["esp"] + 4 * (Len(stack') - i)) = stack'[i]
    <3>1. CASE i = n + 1
      <4>1. Len(stack') - i = 0
        BY <1>10, <2>1, <3>1
      <4> QED BY <1>7, <1>10, <1>11, <1>15, <1>16, <2>1, <3>1, <4>1
    <3>2. CASE i \in 1..n
      <4>1. Len(stack') - i = n - i + 1 /\ n - i + 1 <= Depth - 1
        BY <1>10, <1>11, <1>16, <2>1, <3>2
      <4> QED BY <1>7, <1>14, <2>1, <3>2, <4>1
    <3>3. i = n + 1 \/ i \in 1..n
      BY <1>10, <2>1, <2>3
    <3> QED BY <3>1, <3>2, <3>3, Zenon
  <2>4. StackIntact'
    BY <2>3, StackIntactFacts
  <2> QED BY <2>2, <2>4 DEF StackInv
<1>17. CASE n = Depth
  <2>1. /\ stack' = Tail(Append(stack, v)) /\ stack' \in Seq(Word) /\ Len(stack') = n
        /\ \A i \in 1..n : stack'[i] = Append(stack, v)[i + 1]
    BY <1>3, <1>10, <1>12, <1>17 DEF Newest
  <2>2. CpuTypes'
    BY <1>7, <1>9, <1>11, <1>17, <2>1 DEF CpuTypes, Memories
  <2>3. ASSUME NEW i \in 1..Len(stack')
        PROVE  LoadedFrom(memory', regs'["esp"] + 4 * (Len(stack') - i)) = stack'[i]
    <3>1. CASE i = n
      <4>1. Len(stack') - i = 0 /\ stack'[i] = v
        BY <1>3, <1>10, <2>1, <3>1
      <4>2. Depth >= 1
        BY <1>10, <1>17, <2>1, <2>3, <3>1
      <4> QED BY <1>7, <1>15, <4>1, <4>2
    <3>2. CASE i \in 1..(n - 1)
      <4>1. /\ i + 1 \in 1..n /\ Len(stack') - i = n - (i + 1) + 1
            /\ n - (i + 1) + 1 <= Depth - 1
        BY <1>10, <1>11, <1>17, <2>1, <3>2
      <4>2. stack'[i] = stack[i + 1]
        BY <1>3, <1>10, <2>1, <3>2
      <4>3. LoadedFrom(memory', x + 4 * (n - (i + 1) + 1)) = stack[i + 1]
        BY <1>14, <4>1
      <4> QED BY <1>7, <4>1, <4>2, <4>3, Zenon
    <3>3. i = n \/ i \in 1..(n - 1)
      BY <1>10, <2>1, <2>3
    <3> QED BY <3>1, <3>2, <3>3, Zenon
  <2>4. StackIntact'
    BY <2>3, StackIntactFacts
  <2> QED BY <2>2, <2>4 DEF StackInv
<1> QED BY <1>10, <1>11, <1>16, <1>17

(* pop takes the newest word and leaves the others where esp now is. *)
LEMMA PopStep ==
  ASSUME StackInv, NEW o \in Operands, Pop(o)
  PROVE  StackInv'
<1> DEFINE e == regs["esp"]
           up == [Counted EXCEPT !["esp"] = (e + 4) % W]
           n == Len(stack)
<1>1. CpuTypes /\ StackIntact
  BY DEF StackInv
<1>2. "esp" \in RegNames
  BY DEF RegNames
<1>3. Counted \in [RegNames -> Word] /\ Counted["esp"] = e
  BY <1>1, Words
<1>4. e \in Word /\ e \in Int
  BY <1>1, <1>2 DEF CpuTypes, Word
<1>5. (e + 4) % W \in Word
  BY <1>4, WordFacts, Division DEF Word
<1>6. up \in [RegNames -> Word] /\ up["esp"] = (e + 4) % W
  BY <1>2, <1>3, <1>5
<1>7. memory \in Memories /\ memory' = memory
  BY <1>1 DEF CpuTypes, Pop
<1>8. Loaded(e) \in Word
  <2>1. Loaded(e) = LoadedFrom(memory, e)
    BY DEF Loaded, LoadedFrom
  <2> QED BY <1>4, <1>7, <2>1, LoadedFacts
<1>9. regs' = SetOperand(up, o, Loaded(e))
  BY <1>3 DEF Pop
<1> HIDE DEF up
<1>10. /\ regs' \in [RegNames -> Word]
       /\ ~("reg" \in DOMAIN o /\ o.reg = "esp") => regs'["esp"] = (e + 4) % W
       /\ ("reg" \in DOMAIN o /\ o.reg = "esp") => o = [reg |-> "esp"]
  BY <1>6, <1>8, <1>9, SetOperandFacts
<1>11. CASE stack = << >> \/ o = [reg |-> "esp"]
  <2>1. stack' = << >>
    BY <1>11 DEF Pop
  <2> QED BY <1>7, <1>10, <2>1, QuietStep
<1>12. CASE stack # << >> /\ o # [reg |-> "esp"]
  <2>1. stack \in Seq(Word) /\ n \in Nat /\ n <= Depth
    BY <1>1 DEF CpuTypes
  <2>2. stack' = SubSeq(stack, 1, n - 1) /\ n >= 1
    BY <1>12, <2>1 DEF Pop
  <2>3. /\ stack' \in Seq(Word) /\ Len(stack') = n - 1
        /\ \A i \in 1..(n - 1) : stack'[i] = stack[i]
    <3>1. 1 \in Int /\ n - 1 \in Int /\ \A i \in 1..(n - 1) : stack[i] \in Word
      BY <2>1
    <3>2. /\ SubSeq(stack, 1, n - 1) \in Seq(Word)
          /\ Len(SubSeq(stack, 1, n - 1)) = IF 1 <= n - 1 THEN (n - 1) - 1 + 1 ELSE 0
          /\ \A i \in 1..((n - 1) - 1 + 1) : SubSeq(stack, 1, n - 1)[i] = stack[1 + i - 1]
      BY <3>1, SubSeqProperties
    <3>3. (n - 1) - 1 + 1 = n - 1 /\ \A i \in 1..(n - 1) : 1 + i - 1 = i
      BY <2>1
    <3> QED BY <2>1, <2>2, <3>2, <3>3
  <2>4. regs'["esp"] = (e + 4) % W
    BY <1>10, <1>12
  <2>5. Depth \in Int
    BY WordFacts DEF Depth
  <2>6. CpuTypes'
    BY <1>7, <1>10, <2>1, <2>3, <2>5 DEF CpuTypes, Memories
  <2> HIDE DEF e
  <2>7. \A i \in 1..n : LoadedFrom(memory, e + 4 * (n - i)) = stack[i]
    BY <1>1, StackIntactFacts DEF e
  <2>8. ASSUME NEW i \in 1..Len(stack')
        PROVE  LoadedFrom(memory', regs'["esp"] + 4 * (Len(stack') - i)) = stack'[i]
    <3> DEFINE k == 4 * (Len(stack') - i)
    <3>1. i \in 1..(n - 1) /\ k \in Int /\ (e + 4) + k = e + 4 * (n - i) /\ i \in 1..n
      BY <1>4, <2>1, <2>3, <2>8
    <3>2. LoadedFrom(memory, ((e + 4) % W) + k) = LoadedFrom(memory, (e + 4) + k)
      <4>1. e + 4 \in Int
        BY <1>4
      <4> HIDE DEF k
      <4> QED BY <1>7, <3>1, <4>1, LoadedFacts
    <3> QED BY <1>7, <2>3, <2>4, <2>7, <3>1, <3>2
  <2>9. StackIntact'
    BY <2>8, StackIntactFacts
  <2> QED BY <2>6, <2>9 DEF StackInv
<1> QED BY <1>11, <1>12

(* Every instruction and command keeps the invariant. *)
LEMMA CpuStep ==
  ASSUME StackInv, [CpuNext]_cpuvars
  PROVE  StackInv'
<1>1. CpuTypes
  BY DEF StackInv
<1>2. ASSUME NEW op \in AluOps, NEW o1 \in Operands, NEW o2 \in Operands,
             Alu(op, o1, o2)
      PROVE  StackInv'
  <2>1. PICK result \in Results(op, Val(o1), Val(o2)) :
          IF op \in {"cmp", "test"} THEN regs' = Counted /\ UNCHANGED stack
          ELSE regs' = SetOperand(Counted, o1, result) /\ KeepStack(o1)
    BY <1>2 DEF Alu
  <2>2. result \in Word
    BY <1>1, Words, ResultsAreWords
  <2>3. memory' = memory
    BY <1>2 DEF Alu
  <2> QED BY <2>1, <2>2, <2>3, CountingStep, SettingStep
<1>3. ASSUME NEW o1 \in Operands, NEW o2 \in Operands, Mov(o1, o2)
      PROVE  StackInv'
  <2>1. Val(o2) \in Word
    BY <1>1, Words
  <2> QED BY <1>3, <2>1, SettingStep DEF Mov
<1>4. ASSUME NEW o1 \in Operands, Not1(o1)
      PROVE  StackInv'
  <2>1. Val(o1) \in Word
    BY <1>1, Words
  <2>2. W - 1 - Val(o1) \in Word
    BY <2>1, WordFacts DEF Word
  <2> QED BY <1>4, <2>2, SettingStep DEF Not1
<1>5. ASSUME NEW o1 \in Operands, NEW o2 \in Operands, Mul(o1, o2)
      PROVE  StackInv'
  <2>1. Val(o1) \in Word /\ Val(o2) \in Word
    BY <1>1, Words
  <2>2. /\ (Val(o1) * Val(o2)) % W \in Word
        /\ (Val(o1) * Val(o2)) \div W \in Word
    BY <2>1, ProductAndQuotient
  <2> QED BY <1>5, <2>2, PairStep DEF Mul
<1>6. ASSUME NEW o1 \in Operands, NEW o2 \in Operands, Div(o1, o2)
      PROVE  StackInv'
  <2>1. Val(o1) \in Word /\ Val(o2) \in Word
    BY <1>1, Words
  <2>2. CASE Val(o2) = 0
    BY <1>6, <2>2, CountingStep DEF Div
  <2>3. CASE Val(o2) # 0
    <3>1. Val(o1) \div Val(o2) \in Word /\ Val(o1) % Val(o2) \in Word
      BY <2>1, <2>3, ProductAndQuotient
    <3> QED BY <1>6, <2>3, <3>1, PairStep DEF Div
  <2> QED BY <2>2, <2>3
<1>7. ASSUME Nop \/ Unknown PROVE StackInv'
  BY <1>7, CountingStep DEF Nop, Unknown
<1>8. ASSUME Reset PROVE StackInv'
  <2>1. 0 \in Word /\ MemSize - 1 \in Word /\ 0 \in 0..(Byte - 1)
    BY WordFacts DEF Word
  <2>2. Zero \in [RegNames -> Word] /\ "esp" \in RegNames
    BY <2>1 DEF Zero, RegNames
  <2>3. regs' \in [RegNames -> Word] /\ memory' \in Memories
    BY <1>8, <2>1, <2>2 DEF Reset, NoMemory, Memories
  <2>4. stack' = << >> /\ Len(stack') = 0 /\ stack' \in Seq(Word) /\ 0 <= Depth
    BY <1>8, WordFacts DEF Reset, Depth
  <2>5. CpuTypes'
    BY <2>3, <2>4 DEF CpuTypes, Memories
  <2>6. StackIntact'
    BY <2>4, StackIntactFacts
  <2> QED BY <2>5, <2>6 DEF StackInv
<1>9. ASSUME NEW r \in Regs, NEW v \in Numbers, SetReg(r, v)
      PROVE  StackInv'
  <2>1. r \in RegNames /\ v \in Word /\ "esp" \in RegNames
    BY SimAssumption DEF RegNames
  <2>2. /\ regs' \in [RegNames -> Word]
        /\ r # "esp" => regs'["esp"] = regs["esp"]
    BY <1>1, <1>9, <2>1 DEF SetReg, CpuTypes
  <2>3. stack' = IF r = "esp" THEN << >> ELSE stack
    BY <1>9 DEF SetReg, KeepStack
  <2> QED BY <1>9, <2>2, <2>3, QuietStep DEF SetReg
<1>10. ASSUME NEW f, SetFlags(f) PROVE StackInv'
  BY <1>1, <1>10, QuietStep DEF SetFlags, CpuTypes
<1>11. CASE UNCHANGED cpuvars
  BY <1>1, <1>11, QuietStep DEF cpuvars, cpu, CpuTypes
<1> QED BY <1>2, <1>3, <1>4, <1>5, <1>6, <1>7, <1>8, <1>9, <1>10, <1>11,
           PushStep, PopStep DEF CpuNext

(***************************************************************************)
(* For every size of a byte and of the memory, and whatever instructions   *)
(* and register commands are given: pop returns what the matching push     *)
(* stored (cpu_sim_execute), also where esp or a word wraps around the end *)
(* of the memory, as long as the stack is not deeper than the memory.      *)
(***************************************************************************)
THEOREM PushedWordsSurvive == CpuSpec => []StackIntact
<1>1. CpuInit => StackInv
  <2> SUFFICES ASSUME CpuInit PROVE StackInv
    OBVIOUS
  <2>1. 0 \in Word /\ 0 \in 0..(Byte - 1) /\ 0 <= Depth
    BY WordFacts DEF Word, Depth
  <2>2. CpuTypes
    BY <2>1 DEF CpuInit, CpuTypes, Zero, NoMemory, Memories
  <2>3. stack = << >>
    BY DEF CpuInit
  <2> QED BY <2>2, <2>3 DEF StackInv, StackIntact
<1>2. StackInv => StackIntact
  BY DEF StackInv
<1> QED BY <1>1, <1>2, CpuStep, PTL DEF CpuSpec
=============================================================================
