-------------------------------- MODULE Fat16 --------------------------------
(***************************************************************************)
(* The FAT16 driver, src/fs/fat16.c, on a disk that keeps what was written *)
(* when the machine is reset.  On the disk: the first FAT and the root     *)
(* directory.  In memory: the cache fs.files, filled by fat16_mount.       *)
(*                                                                         *)
(* Every sector written is a step of its own; at any step the machine may  *)
(* be reset, and any ata_write_sectors may fail and leave the sector as it *)
(* was.  Scans only read, so they are part of the step that follows.       *)
(* Sizes are counted in clusters.  Reads of sectors fail in                *)
(* fat16_read_file; elsewhere they do not.                                 *)
(*                                                                         *)
(* The characters of names are left out: Parse is fat16_parse_name (what a *)
(* directory entry holds), Unparse is fat16_unparse_name, Keep what the    *)
(* cache keeps of a new file's name (12 characters), and Fold the name as  *)
(* strcasecmp sees it.                                                     *)
(***************************************************************************)
EXTENDS Integers, Sequences, SequencesExt, FiniteSets

CONSTANTS TotalClusters, RootEntries, FAT16_MAX_FILES,
          EndMark,   \* 0xFF8, from where a cluster number ends a chain
          EofMark,   \* 0xFFFF, what is written to end a chain
          Names, Parse, Unparse, Keep, Fold,
          Sizes,     \* sizes written, in clusters
          Images,    \* disks as a formatter and other systems leave them
          MaxFaults, MaxResets

ASSUME VolumeAssumption == /\ TotalClusters \in Nat /\ RootEntries \in Nat
                           /\ FAT16_MAX_FILES \in Nat
                           /\ EndMark \in Nat /\ EofMark \in Nat
                           /\ EofMark > TotalClusters + 1 /\ EofMark >= EndMark

\* Names of the 8.3 form: one entry's name, however it is spelled.
ASSUME NameAssumption ==
  /\ Names # {} /\ Sizes \subseteq Nat /\ Parse \in [Names -> DOMAIN Unparse]
  /\ \A n \in Names : /\ Keep[n] = Unparse[Parse[n]] /\ Fold[n] = Unparse[Parse[n]]
                       /\ \A s \in DOMAIN Unparse : Unparse[s] = Fold[n] => s = Parse[n]

VARIABLES fat, dir,   \* on disk
          files,      \* fs.files[0..file_count-1]
          pc, call,   \* the call in progress: its step and its local variables
          reply,      \* what the last call returned
          faults, resets

vars == <<fat, dir, files, pc, call, reply, faults, resets>>

Clusters == 2..(TotalClusters + 1)
Entries == 1..RootEntries
FreeEntry == 0          \* FAT value of a free cluster
NoCluster == 0
NoCall == [op |-> "none", name |-> CHOOSE n \in Names : TRUE, size |-> 0,
           first |-> NoCluster, walk |-> NoCluster, after |-> "none"]

\* An entry whose name starts with 0xE5; nothing reads the rest of it.
Erased == [mark |-> "erased", name |-> "x", label |-> FALSE,
           first |-> NoCluster, size |-> 0]

FatValues == {FreeEntry, EofMark} \cup Clusters
Starts == {NoCluster} \cup Clusters
DirEntries == [mark : {"live", "erased", "end"}, name : DOMAIN Unparse,
               label : BOOLEAN, first : Starts, size : Nat]

\* The sequence s has the clusters of a file that starts at c, in the FAT f.
IsChain(f, c, s) ==
  /\ s = << >> <=> c = NoCluster
  /\ s # << >> => s[1] = c /\ f[s[Len(s)]] = EofMark
  /\ \A j \in 1..(Len(s) - 1) : f[s[j]] = s[j + 1]
  /\ \A j, k \in 1..Len(s) : s[j] = s[k] => j = k

\* fat16_scan_root takes live entries that are no labels.
Listed(e) == e.mark = "live" /\ ~e.label

\* A volume without errors, with the clusters of each of its files: no cluster
\* belongs to two, and no two have one name.
ASSUME ImageAssumption ==
  /\ Erased \in DirEntries
  /\ \A im \in Images :
       /\ im.fat \in [Clusters -> FatValues] /\ im.dir \in [Entries -> DirEntries]
       /\ im.chains \in [Entries -> Seq(Clusters)]
       /\ \A i \in Entries : im.dir[i].mark = "live" =>
            /\ IsChain(im.fat, im.dir[i].first, im.chains[i])
            /\ Len(im.chains[i]) >= im.dir[i].size
            /\ \A j \in Entries \ {i} : im.dir[j].mark = "live" =>
                 /\ ToSet(im.chains[i]) \cap ToSet(im.chains[j]) = {}
                 /\ Listed(im.dir[i]) /\ Listed(im.dir[j]) =>
                      Unparse[im.dir[i].name] # Unparse[im.dir[j].name]

Least(S) == CHOOSE i \in S : \A j \in S : i <= j

Init == /\ \E im \in Images : fat = im.fat /\ dir = im.dir
        /\ files = << >> /\ pc = "off" /\ call = NoCall /\ reply = 0
        /\ faults = 0 /\ resets = 0

-----------------------------------------------------------------------------
\* fat16_scan_root: live files before the first end mark, as many as fit.
CacheOf(e) == [name |-> Unparse[e.name], size |-> e.size, first |-> e.first,
               used |-> TRUE]
ScanEntry(s, d, i) ==
  IF /\ Listed(d[i]) /\ Len(s) < FAT16_MAX_FILES
     /\ \A j \in 1..i : d[j].mark # "end"
  THEN Append(s, CacheOf(d[i])) ELSE s
ScanRoot(d) ==
  LET scan[i \in 0..RootEntries] ==
        IF i = 0 THEN << >> ELSE ScanEntry(scan[i - 1], d, i)
  IN  scan[RootEntries]

\* fat16_mount; a mount that fails leaves the driver refusing every call.
Mount == /\ pc = "off" /\ pc' = "idle"
         /\ files' = ScanRoot(dir)
         /\ UNCHANGED <<fat, dir, call, reply, faults, resets>>

\* Power off or reset: memory is lost, the disk stays.
Reset == /\ pc # "off" /\ resets < MaxResets
         /\ resets' = resets + 1
         /\ pc' = "off" /\ files' = << >> /\ call' = NoCall /\ reply' = 0
         /\ UNCHANGED <<fat, dir, faults>>

\* One ata_write_sectors: it succeeds, or fails if the bound on faults allows.
Ata(ok) == IF ok THEN UNCHANGED faults
           ELSE faults < MaxFaults /\ faults' = faults + 1

\* while (cluster >= 2 && cluster < 0xFF8)
InChain(c) == c >= 2 /\ c < EndMark

\* Entries fat16_delete_file finds: erased and free ones match no name.
Matches(n) == {i \in Entries : dir[i].mark = "live" /\ dir[i].name = Parse[n]}

\* Cache entries found by strcasecmp.
Cached(n) == {k \in DOMAIN files : files[k].used /\ files[k].name = Fold[n]}

\* The call returns r; the locals of the call are gone.
Return(r) == /\ pc' = "idle" /\ reply' = r
             /\ call' = [NoCall EXCEPT !.op = call.op, !.name = call.name,
                                       !.size = call.size]

\* The directory scan of fat16_delete_file, on its own or from a write.
Delete(op, n, size) ==
  LET e == dir[Least(Matches(n))]
      asked == [NoCall EXCEPT !.op = op, !.name = n, !.size = size]
  IN  /\ pc = "idle"
      /\ IF Matches(n) = {}
         THEN /\ call' = asked
              /\ IF op = "delete" THEN pc' = "idle" /\ reply' = -1
                 ELSE pc' = "alloc" /\ UNCHANGED reply
         ELSE /\ call' = [asked EXCEPT !.walk = e.first, !.after = "mark"]
              /\ pc' = IF InChain(e.first) THEN "free" ELSE "mark"
              /\ UNCHANGED reply
      /\ UNCHANGED <<fat, dir, files, faults, resets>>

\* fat16_delete_file, fat16_write_file and fat16_create_file (size 0)
DeleteFile(n) == Delete("delete", n, 0)
WriteFile(n, size) == Delete("write", n, size)

\* One turn of fat16_free_cluster_chain: a failed write is not noticed.
FreeCluster ==
  LET next == fat[call.walk]
  IN  /\ pc = "free"
      /\ \E ok \in BOOLEAN :
           /\ Ata(ok)
           /\ fat' = IF ok THEN [fat EXCEPT ![call.walk] = FreeEntry] ELSE fat
      /\ CASE InChain(next) ->
                call' = [call EXCEPT !.walk = next] /\ UNCHANGED <<pc, reply>>
           [] ~InChain(next) /\ call.after = "mark" ->
                pc' = "mark" /\ UNCHANGED <<call, reply>>
           [] ~InChain(next) /\ call.after = "fail" -> Return(-1)
      /\ UNCHANGED <<dir, files, resets>>

\* The first used cache entry of the name becomes unused.
Forget_None(n) == files
Forget(n) == IF Cached(n) = {} THEN files
             ELSE [files EXCEPT ![Least(Cached(n))].used = FALSE]

\* name[0] = 0xE5; fat16_write_file goes on whatever the deletion returned.
MarkErased ==
  /\ pc = "mark"
  /\ \E ok \in BOOLEAN :
       /\ Ata(ok)
       /\ dir' = IF ok THEN [dir EXCEPT ![Least(Matches(call.name))] = Erased]
                        ELSE dir
       /\ files' = IF ok THEN Forget(call.name) ELSE files
       /\ IF call.op = "delete" THEN Return(IF ok THEN 0 ELSE -1)
          ELSE pc' = "alloc" /\ UNCHANGED <<call, reply>>
  /\ UNCHANGED <<fat, resets>>

\* The clusters fat16_allocate_cluster may take.
FreeClusters_Any == Clusters
FreeClusters == {c \in Clusters : fat[c] = FreeEntry}

(***************************************************************************)
(* The first fat16_allocate_cluster of a write.  Without a cluster an      *)
(* empty file is entered with none and another file is refused.            *)
(***************************************************************************)
AllocateFirst ==
  LET c == Least(FreeClusters)
  IN  /\ pc = "alloc"
      /\ \E ok \in BOOLEAN :
           /\ FreeClusters = {} => ok
           /\ Ata(ok)
           /\ IF FreeClusters # {} /\ ok
              THEN /\ fat' = [fat EXCEPT ![c] = EofMark]
                   /\ call' = [call EXCEPT !.first = c]
                   /\ pc' = "data" /\ UNCHANGED reply
              ELSE /\ UNCHANGED fat
                   /\ IF call.size > 0 THEN Return(-1)
                      ELSE pc' = "enter" /\ UNCHANGED <<call, reply>>
      /\ UNCHANGED <<dir, files, resets>>

(***************************************************************************)
(* The write loop.  fat16_write_cluster returns -1 or the bytes written,   *)
(* and the caller takes every result but 0 for a failure: the loop goes on *)
(* only for an empty file, which has one turn.  So the branch that links a *)
(* second cluster is never reached and is not modelled.                    *)
(***************************************************************************)
WriteClusterFails(size) == size > 0
WriteData ==
  /\ pc = "data"
  /\ IF WriteClusterFails(call.size)
     THEN IF InChain(call.first)
          THEN /\ pc' = "free" /\ UNCHANGED reply
               /\ call' = [call EXCEPT !.walk = call.first, !.after = "fail"]
          ELSE Return(-1)
     ELSE pc' = "enter" /\ UNCHANGED <<call, reply>>
  /\ UNCHANGED <<fat, dir, files, faults, resets>>

\* The new file in the cache, if file_count has not reached the limit.
Remember(n, size, c) ==
  IF Len(files) >= FAT16_MAX_FILES THEN files
  ELSE Append(files, [name |-> Keep[n], size |-> size, first |-> c, used |-> TRUE])

\* The new directory entry goes to the first free or erased place.
Vacant == {i \in Entries : dir[i].mark # "live"}
EnterFile ==
  LET i == Least(Vacant)
      entry == [mark |-> "live", name |-> Parse[call.name], label |-> FALSE,
                first |-> call.first, size |-> call.size]
  IN  /\ pc = "enter"
      /\ \E ok \in BOOLEAN :
           /\ Vacant = {} => ok
           /\ Ata(ok)
           /\ IF Vacant # {} /\ ok
              THEN /\ dir' = [dir EXCEPT ![i] = entry]
                   /\ files' = Remember(call.name, call.size, call.first)
                   /\ Return(call.size)
              ELSE UNCHANGED <<dir, files>> /\ Return(-1)
      /\ UNCHANGED <<fat, resets>>

Next == \/ Mount \/ Reset
        \/ \E n \in Names : DeleteFile(n) \/ \E size \in Sizes : WriteFile(n, size)
        \/ FreeCluster \/ MarkErased \/ AllocateFirst \/ WriteData \/ EnterFile

Spec == Init /\ [][Next]_vars

-----------------------------------------------------------------------------
\* The clusters from c on, following the links of f while they stay in K.
Follow(s, f, c, K) ==
  LET next == IF s = << >> THEN c ELSE f[Last(s)]
  IN  IF next \in K /\ ~Contains(s, next) THEN Append(s, next) ELSE s
Chain(f, c, K) ==
  LET step[n \in 0..TotalClusters] ==
        IF n = 0 THEN << >> ELSE Follow(step[n - 1], f, c, K)
  IN  step[TotalClusters]

\* The clusters of an entry by the FAT16 format, and those the driver visits.
Format(e) == Chain(fat, e.first, Clusters)
Visited(f) == Chain(fat, f.first, {c \in Clusters : InChain(c)})

\* A read ends at the size in the cache, at max_size, or when good clusters
\* were read and kmalloc, a sector of the file or one of the FAT then fails.
Upto(size, max, good) == Least({size, max, good})

\* fat16_read_file(name, buf, max): the clusters whose bytes it returns.
ReadFile(n, max, good) ==
  LET f == files[Least(Cached(n))]
      visited == Visited(f)
      upto == Upto(f.size, max, good)
  IN  SubSeq(visited, 1, IF Len(visited) < upto THEN Len(visited) ELSE upto)

TypeOK ==
  /\ fat \in [Clusters -> FatValues] /\ dir \in [Entries -> DirEntries]
  /\ files \in Seq([name : {Unparse[s] : s \in DOMAIN Unparse}, size : Nat,
                     first : Starts, used : BOOLEAN])
  /\ Len(files) <= FAT16_MAX_FILES
  /\ pc \in {"off", "idle", "free", "mark", "alloc", "data", "enter"}
  /\ call \in [op : {"none", "delete", "write"}, name : Names, size : Nat,
               first : Starts, walk : Starts, after : {"none", "mark", "fail"}]
  /\ faults \in Nat /\ resets \in Nat

(***************************************************************************)
(* fat16_list_files and fat16_file_exists answer from the cache: a name is *)
(* never listed more often than the directory on the disk has it.  It      *)
(* holds across failed directory writes, which leave two entries of one    *)
(* name, resets, remounts and a cache that is full, for names of the 8.3   *)
(* form; and the cache never outgrows its array.                           *)
(***************************************************************************)
ListedIsOnDisk ==
  /\ TypeOK
  /\ \A k \in DOMAIN files : files[k].used =>
       LET n == files[k].name
       IN  Cardinality({j \in DOMAIN files : files[j].used /\ files[j].name = n})
             <= Cardinality({i \in Entries : Listed(dir[i])
                                             /\ Unparse[dir[i].name] = n})

Owns(i) == ToSet(Format(dir[i]))

(***************************************************************************)
(* Between calls, as long as no write has failed and no reset has come,    *)
(* every entry's chain is as long as its size says (one cluster or none    *)
(* for an empty file), ends in an end mark, and shares no cluster with     *)
(* another: what a call frees or takes belongs to no other file.           *)
(***************************************************************************)
ChainsIntact ==
  (pc = "idle" /\ faults = 0 /\ resets = 0) =>
    \A i \in Entries : dir[i].mark = "live" =>
      /\ Len(Format(dir[i])) >= dir[i].size
      /\ \A c \in Owns(i) : fat[c] \in Owns(i) \cup {EofMark}
      /\ \A j \in Entries \ {i} : dir[j].mark = "live" => Owns(i) \cap Owns(j) = {}

(***************************************************************************)
(* A write that met no failure, with a cluster and a directory entry free, *)
(* stored the file: "fatwrite <file> <data> - write FAT16 file".           *)
(***************************************************************************)
WriteStores ==
  (/\ pc = "idle" /\ call.op = "write" /\ faults = 0
   /\ FreeClusters # {} /\ Vacant # {})
    => \E i \in Entries : /\ dir[i].mark = "live" /\ dir[i].size = call.size
                          /\ dir[i].name = Parse[call.name]

(***************************************************************************)
(* fat16_read_file, which starts from the cluster and the size the cache   *)
(* has, returns the clusters of the file as it is on the disk, in order,   *)
(* through all deletions and reuses of clusters and cache entries: for     *)
(* every max_size and every place where the memory or the disk may fail    *)
(* it returns the file up to there, and nothing beyond or in between.  It  *)
(* stops even shorter, and also reports success, where the chain goes      *)
(* through a cluster from 0xFF8 on, which FAT16 allows.                    *)
(***************************************************************************)
ReadsWhole ==
  (pc = "idle" /\ faults = 0 /\ resets = 0) =>
    \A n \in Names : Cached(n) # {} =>
      \E i \in Matches(n) : \A max, good \in 0..TotalClusters :
        LET asked == SubSeq(Format(dir[i]), 1, Upto(dir[i].size, max, good))
            given == ReadFile(n, max, good)
        IN  IF \A c \in ToSet(asked) : InChain(c) THEN given = asked
            ELSE IsStrictPrefix(given, asked)
=============================================================================
