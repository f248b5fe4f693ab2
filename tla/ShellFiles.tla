----------------------------- MODULE ShellFiles -----------------------------
(***************************************************************************)
(* The file commands of the shell, src/shell/shell.c, on the in-memory     *)
(* file system: touch, write, cat, rm, cp and mv.  Each command runs to    *)
(* its end before the next is read.  cat, cp and mv ask kmalloc for a      *)
(* buffer first and give up when there is none (memory = FALSE).  Other    *)
(* callers of the file system (the editor, the menu) make single calls.    *)
(***************************************************************************)
EXTENDS Tmpfs

\* The buffers of cat, cp and mv are as long as a file may be.
ASSUME BufferAssumption == TMPFS_DATA_SIZE \in BufLens

VARIABLE cmd    \* last command: its name, the files it names, and whether it
                \* reported success

svars == <<vars, cmd>>

Report(op, named, ok) == cmd' = [op |-> op, named |-> named, ok |-> ok]

\* Names that fit the 64-byte buffers of write, cp and mv.
ShortNames == {n \in Names : Stored(n) = n}

SInit == Init /\ cmd = [op |-> "boot", named |-> << >>, ok |-> TRUE]

CmdTouch(n) == LET r == TmpfsCreate(fs, n)
               IN  Returns(r) /\ Report("touch", <<n>>, r.ret = 0)

\* The result of tmpfs_write is ignored: the command always reports success.
CmdWrite(n, data) == /\ Len(data) > 0
                     /\ Returns(TmpfsWrite(fs, n, data))
                     /\ Report("write", <<n>>, TRUE)

CmdCat(n, memory) ==
  LET r == TmpfsRead(fs, n, TMPFS_DATA_SIZE)
  IN  /\ IF memory THEN reply' = r ELSE UNCHANGED reply
      /\ Report("cat", <<n>>, memory /\ r.ret >= 0)
      /\ UNCHANGED fs

CmdRm(n) == LET r == TmpfsDelete(fs, n)
            IN  Returns(r) /\ Report("rm", <<n>>, r.ret = 0)

\* cp and mv ignore the result of tmpfs_write, mv that of tmpfs_delete too.
Refused(op, src, dst) == Report(op, <<src, dst>>, FALSE) /\ UNCHANGED vars

CmdCp(src, dst, memory) ==
  LET r == TmpfsRead(fs, src, TMPFS_DATA_SIZE)
      w == TmpfsWrite(fs, dst, r.buf)
  IN  IF ~memory \/ r.ret < 0 THEN Refused("cp", src, dst)
      ELSE Returns(w) /\ Report("cp", <<src, dst>>, TRUE)

DeleteSource_Dst(s, src, dst) == TmpfsDelete(s, dst)
DeleteSource(s, src, dst) == TmpfsDelete(s, src)
CmdMv(src, dst, memory) ==
  LET r == TmpfsRead(fs, src, TMPFS_DATA_SIZE)
      w == TmpfsWrite(fs, dst, r.buf)
  IN  IF ~memory \/ r.ret < 0 THEN Refused("mv", src, dst)
      ELSE /\ Returns(DeleteSource(w.fs, src, dst))
           /\ Report("mv", <<src, dst>>, TRUE)

\* A call of the file system by another program.
OtherCaller == Next /\ Report("call", << >>, TRUE)

SNext == \/ OtherCaller
         \/ \E n \in Names : \/ CmdTouch(n)
                             \/ CmdRm(n)
                             \/ \E memory \in BOOLEAN : CmdCat(n, memory)
         \/ \E n \in ShortNames, data \in Bodies : CmdWrite(n, data)
         \/ \E src, dst \in ShortNames, memory \in BOOLEAN :
              CmdCp(src, dst, memory) \/ CmdMv(src, dst, memory)

SSpec == SInit /\ [][SNext]_svars

-----------------------------------------------------------------------------
(***************************************************************************)
(* A file disappears only by rm of its name or as the source of mv, and    *)
(* its bytes change only when write, or cp or mv as the destination, names *)
(* it: no command disturbs another file through the slots they share.      *)
(***************************************************************************)
OnlyNamedFilesChange ==
  [][\A n \in Names : (Content'[n] # Content[n] /\ cmd'.op # "call") =>
       IF Content'[n] = NoFile
       THEN cmd'.op \in {"rm", "mv"} /\ cmd'.named[1] = n
       ELSE /\ cmd'.op \in {"touch", "write", "cp", "mv"}
            /\ cmd'.named[Len(cmd'.named)] = n]_svars

(***************************************************************************)
(* mv moves: when it reports that it moved src to another name dst, dst    *)
(* has the bytes src had.  There is one exception, which cmd_mv does not   *)
(* notice: dst is new and the table is full, and then the bytes are lost.  *)
(***************************************************************************)
MvKeepsBytes ==
  [][LET src == cmd'.named[1]
         dst == cmd'.named[2]
     IN  (cmd'.op = "mv" /\ cmd'.ok /\ cmd' # cmd /\ src # dst) =>
           \/ Content'[dst] = Content[src]
           \/ Content[dst] = NoFile /\ fs.count = TMPFS_MAX_FILES]_svars
=============================================================================
