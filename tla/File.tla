-------------------------------- MODULE File --------------------------------
(***************************************************************************)
(* Open files and the bytes behind them: the descriptors of the processes,    *)
(* the file table of file.c, and the blocks, the bitmap and the inodes of     *)
(* fs.c that readi and writei work on.                                     *)
(*                                                                         *)
(* A step is what a process does under ftable.lock, or under the lock of one  *)
(* inode in one transaction.  Names are module FileSystem's: here an inode    *)
(* has one name or none.  The bytes of a pipe are module Pipe's: here a pipe  *)
(* has its two ends.                                                        *)
(***************************************************************************)
EXTENDS Integers, Sequences, FiniteSets

CONSTANTS
  Procs,
  NOFILE, NFILE,        \* descriptors of a process, entries of ftable
  Pipes,                \* pages that kalloc has for pipes
  Inodes,
  BSIZE,                \* bytes of a block
  NDIRECT, NINDIRECT,   \* block numbers in an inode and in its indirect block
  NBlocks,              \* data blocks 1 .. NBlocks
  BPB,                  \* bits of a bitmap block
  MAXOPBLOCKS,
  Bytes,                \* the bytes that are written, not 0
  WriteSizes, ReadSize, \* the n of write and of read
  Modes,                \* the omode of open
  MaxCalls              \* bound on the number of calls

ASSUME FileAssumption ==
  /\ {NOFILE, NFILE, BSIZE, NDIRECT, NINDIRECT, NBlocks, BPB, ReadSize} \subseteq Nat \ {0}
  /\ MAXOPBLOCKS \in Nat /\ MAXOPBLOCKS >= 6 /\ MaxCalls \in Nat
  /\ Bytes \subseteq Nat \ {0} /\ WriteSizes \subseteq Nat \ {0}
  /\ Modes \subseteq {"r", "w", "rw"} /\ IsFiniteSet(Procs)

\* Removing a file fits one transaction: every bitmap block, the inode, and a block and
\* the inode of the directory.  With FSSIZE 1000 and 4096 bits in a block there is one
\* bitmap block, and MAXOPBLOCKS is 10.
ASSUME BitmapAssumption == (NBlocks - 1) \div BPB + 4 <= MAXOPBLOCKS

VARIABLES
  ofile,     \* proc->ofile
  ftable,
  ends,      \* the open ends of every pipe
  iref,      \* ip->ref
  inode,     \* the inode in memory: nlink, size and addrs; nlink -1 when it is free
  dinode,    \* the same on the disk
  bitmap,    \* the blocks that are in use
  data,      \* what every block holds
  task,      \* the call a process has not finished
  live,      \* the processes there are
  contents,  \* history: the bytes of every file, as the calls wrote them
  logged,    \* the number of blocks that the last transaction logged
  calls, panicked

tableVars == <<ofile, ftable, ends, iref, live>>
diskVars == <<inode, dinode, bitmap, data, contents, logged>>
fileVars == <<tableVars, diskVars, task, calls, panicked>>

Files == 1 .. NFILE
Fds == 0 .. NOFILE - 1
NoFile == 0
MAXFILE == NDIRECT + NINDIRECT
NoAddrs == [b \in 0 .. NDIRECT |-> 0]
FreeInode == [nlink |-> -1, size |-> 0, addrs |-> NoAddrs]
Cells == 0 .. (IF BSIZE < NINDIRECT THEN NINDIRECT ELSE BSIZE) - 1
Zeroed == [k \in Cells |-> 0]
Idle == [op |-> "none"]
Closed == [type |-> "FD_NONE", ref |-> 0, mode |-> "r", of |-> NoFile, off |-> 0]
Smaller(a, b) == IF a < b THEN a ELSE b

FileInit ==
  /\ ofile = [p \in Procs |-> [fd \in Fds |-> NoFile]]
  /\ ftable = [f \in Files |-> Closed]
  /\ ends = [q \in Pipes |-> {}]
  /\ iref = [i \in Inodes |-> 0]
  /\ inode = [i \in Inodes |-> FreeInode] /\ dinode = inode
  /\ bitmap = {} /\ data = [b \in 1 .. NBlocks |-> Zeroed]
  /\ task = [p \in Procs |-> Idle]
  /\ live = {CHOOSE p \in Procs : TRUE}
  /\ contents = [i \in Inodes |-> <<>>]
  /\ logged = 0 /\ calls = 0 /\ panicked = "no"

-----------------------------------------------------------------------------
(* fs.c: blocks.  A call works on a copy s of the disk that also holds the set *)
(* of the blocks given to log_write; s.full: balloc panicked.                *)

Disk(i) == [ip |-> inode[i], dip |-> dinode[i], map |-> bitmap, data |-> data,
            log |-> {}, full |-> FALSE, addr |-> 0]

Bitmap(b) == <<"bitmap", (b - 1) \div BPB>>

\* balloc: the first free block, zeroed by bzero.
balloc(s) ==
  LET free == (1 .. NBlocks) \ s.map
      b == CHOOSE x \in free : \A y \in free : x <= y
  IN IF free = {} THEN [s EXCEPT !.full = TRUE]
     ELSE [s EXCEPT !.map = @ \cup {b}, !.data[b] = Zeroed,
                    !.log = @ \cup {Bitmap(b), <<"data", b>>}, !.addr = b]

\* bfree of every block of B.
bfree(s, B) == [s EXCEPT !.map = @ \ B, !.log = @ \cup {Bitmap(b) : b \in B}]

iupdate(s) == [s EXCEPT !.dip = s.ip, !.log = @ \cup {<<"inode">>}]

\* The block number in a slot of the inode, allocated when it is 0.
Direct(s, k) ==
  IF s.ip.addrs[k] # 0 THEN [s EXCEPT !.addr = s.ip.addrs[k]]
  ELSE LET t == balloc(s) IN IF t.full THEN t ELSE [t EXCEPT !.ip.addrs[k] = t.addr]

\* The block number in a slot of the indirect block ind.
Indirect(s, ind, k) ==
  IF s.data[ind][k] # 0 THEN [s EXCEPT !.addr = s.data[ind][k]]
  ELSE LET t == balloc(s) IN
       IF t.full THEN t ELSE [t EXCEPT !.data[ind][k] = t.addr, !.log = @ \cup {<<"data", ind>>}]

\* bmap: the address of the block bn of an inode.
bmap(s, bn) ==
  IF bn < NDIRECT THEN Direct(s, bn)
  ELSE LET t == Direct(s, NDIRECT) IN
       IF t.full THEN t ELSE Indirect(t, t.addr, bn - NDIRECT)

\* Mutant of itrunc: the indirect block itself is kept.
itrunc_KeepsIndirect(s) ==
  LET ind == s.ip.addrs[NDIRECT]
      direct == {s.ip.addrs[k] : k \in 0 .. NDIRECT - 1}
      listed == IF ind = 0 THEN {} ELSE {s.data[ind][j] : j \in 0 .. NINDIRECT - 1}
      t == bfree(s, (direct \cup listed) \ {0})
  IN iupdate([t EXCEPT !.ip.addrs = NoAddrs, !.ip.size = 0])

\* itrunc: the direct blocks, those the indirect block lists, the indirect block.
itrunc(s) ==
  LET ind == s.ip.addrs[NDIRECT]
      direct == {s.ip.addrs[k] : k \in 0 .. NDIRECT - 1}
      listed == IF ind = 0 THEN {} ELSE {s.data[ind][j] : j \in 0 .. NINDIRECT - 1}
      t == bfree(s, (direct \cup listed \cup {ind}) \ {0})
  IN iupdate([t EXCEPT !.ip.addrs = NoAddrs, !.ip.size = 0])

\* What readi copies out: up to n bytes from off, nothing behind the end.
readi(s, off, n) ==
  IF off > s.ip.size THEN <<>>
  ELSE LET m == Smaller(n, s.ip.size - off) IN
       [k \in 1 .. m |-> LET at == off + k - 1
                         IN s.data[bmap(s, at \div BSIZE).addr][at % BSIZE]]

\* Mutant of WriteBlock: every turn writes at the start of its block.
WriteBlock_FromStart(s, bn, off, end, v) ==
  LET t == bmap(s, bn)
      here == {k \in 0 .. BSIZE - 1 : bn * BSIZE + k \in (off - (off % BSIZE)) .. end - 1}
  IN IF s.full \/ t.full THEN [s EXCEPT !.full = TRUE]
     ELSE [t EXCEPT !.data[t.addr] = [k \in DOMAIN @ |-> IF k \in here THEN v ELSE @[k]],
                    !.log = @ \cup {<<"data", t.addr>>}]

\* The turn of the loop of writei for the block bn: the bytes off .. end - 1.
WriteBlock(s, bn, off, end, v) ==
  LET t == bmap(s, bn)
      here == {k \in 0 .. BSIZE - 1 : bn * BSIZE + k \in off .. end - 1}
  IN IF s.full \/ t.full THEN [s EXCEPT !.full = TRUE]
     ELSE [t EXCEPT !.data[t.addr] = [k \in DOMAIN @ |-> IF k \in here THEN v ELSE @[k]],
                    !.log = @ \cup {<<"data", t.addr>>}]

\* writei of n bytes v at off, where the tests of off and n have passed.
writei(s, off, n, v) ==
  LET end == off + n
      first == off \div BSIZE
      turns == (end - 1) \div BSIZE - first
      turn[k \in 0 .. turns] ==
        WriteBlock(IF k = 0 THEN s ELSE turn[k - 1], first + k, off, end, v)
      t == turn[turns]
  IN IF end > t.ip.size THEN iupdate([t EXCEPT !.ip.size = end]) ELSE t

\* The end of a transaction on the inode i that also logged the blocks D of a directory.
ends_op(i, s, D) ==
  /\ inode' = [inode EXCEPT ![i] = s.ip] /\ dinode' = [dinode EXCEPT ![i] = s.dip]
  /\ bitmap' = s.map /\ data' = s.data
  /\ logged' = Cardinality(s.log \cup D)

\* What dirlink logs at most: the inode of the directory, a new block and a new
\* indirect block of it, and their bits.
Linked == {"dir"} \X (1 .. 5)

\* What taking a name out of a directory logs: its block, and the inode of the
\* directory when the name is a directory's.
Unlinked == {"dir"} \X (1 .. 2)

\* itrunc would free a block that is free already: bfree panics.
FreesFree(s) ==
  LET ind == s.ip.addrs[NDIRECT]
      at(k) == IF k < NDIRECT THEN s.ip.addrs[k]
               ELSE IF k = MAXFILE THEN ind
               ELSE IF ind = 0 THEN 0 ELSE s.data[ind][k - NDIRECT]
  IN \E k \in 0 .. MAXFILE :
       at(k) # 0 /\ (at(k) \notin s.map \/ \E l \in 0 .. MAXFILE \ {k} : at(l) = at(k))

\* iput under the lock of the inode: the last use of an inode without names frees it.
iput(i) ==
  IF iref[i] = 1 /\ inode[i].nlink = 0
  THEN LET t == itrunc(Disk(i)) IN
       /\ ends_op(i, iupdate([t EXCEPT !.ip = FreeInode]), {})
       /\ panicked' = IF FreesFree(Disk(i)) THEN "freeing_free" ELSE panicked
       /\ contents' = [contents EXCEPT ![i] = <<>>]
  ELSE logged' = 0 /\ UNCHANGED <<inode, dinode, bitmap, data, contents, panicked>>

-----------------------------------------------------------------------------
(* file.c and the descriptors of sysfile.c *)

Unused == {f \in Files : ftable[f].ref = 0}
FreeFds(p) == {fd \in Fds : ofile[p][fd] = NoFile}
First(S) == CHOOSE x \in S : \A y \in S : x <= y
Calling(p) == panicked = "no" /\ p \in live /\ task[p] = Idle
Counted == calls < MaxCalls /\ calls' = calls + 1

\* Mutant of fileclose: the type of an entry that is no longer used is kept.
fileclose_KeepsType(f) == [ftable EXCEPT ![f].ref = @ - 1]

\* The part of fileclose under ftable.lock.
fileclose(f) ==
  IF ftable[f].ref > 1 THEN [ftable EXCEPT ![f].ref = @ - 1]
  ELSE [ftable EXCEPT ![f].ref = 0, ![f].type = "FD_NONE"]

\* What a last close of f has still to do after the lock, with its copy ff.
Finishing(f) ==
  IF ftable[f].type = "FD_NONE" THEN Idle
  ELSE [op |-> ftable[f].type, of |-> ftable[f].of, mode |-> ftable[f].mode, put |-> FALSE]

\* fileclose of the entry that filealloc has just given, where a call fails: it works
\* on what the last user of the entry left there.
GiveBack(p) ==
  task' = IF Unused = {} THEN task ELSE [task EXCEPT ![p] = Finishing(First(Unused))]

\* The transaction of open: name resolution has returned the inode with a reference of
\* its own, or ialloc and dirlink have made one.
opens(i) ==
  /\ inode[i].nlink # 0
  /\ IF inode[i].nlink = -1 THEN ends_op(i, iupdate([Disk(i) EXCEPT !.ip.nlink = 1]), Linked)
                            ELSE ends_op(i, Disk(i), {})
  /\ UNCHANGED <<contents, panicked>>

sys_open(p, i, mode) ==
  /\ Calling(p) /\ Counted
  /\ Unused # {} /\ FreeFds(p) # {}
  /\ opens(i)
  /\ LET f == First(Unused) IN
       /\ ftable' = [ftable EXCEPT ![f] = [type |-> "FD_INODE", ref |-> 1, mode |-> mode,
                                           of |-> i, off |-> 0]]
       /\ ofile' = [ofile EXCEPT ![p][First(FreeFds(p))] = f]
  /\ iref' = [iref EXCEPT ![i] = @ + 1]
  /\ UNCHANGED <<ends, live, task>>

\* open without a descriptor for the entry that filealloc gave, or without an entry: a
\* new file stays.
sys_open_fails(p, i) ==
  /\ Calling(p) /\ Counted
  /\ Unused = {} \/ FreeFds(p) = {}
  /\ opens(i)
  /\ GiveBack(p)
  /\ UNCHANGED tableVars

\* unlink of the only name: its iunlockput frees the inode if it is not open.
sys_unlink(p, i) ==
  /\ Calling(p) /\ Counted
  /\ inode[i].nlink = 1
  /\ LET s == iupdate([Disk(i) EXCEPT !.ip.nlink = 0])
         t == IF iref[i] = 0 THEN iupdate([itrunc(s) EXCEPT !.ip = FreeInode]) ELSE s
     IN ends_op(i, t, Unlinked)
  /\ panicked' = IF iref[i] = 0 /\ FreesFree(Disk(i)) THEN "freeing_free" ELSE panicked
  /\ contents' = [contents EXCEPT ![i] = IF iref[i] = 0 THEN <<>> ELSE @]
  /\ UNCHANGED <<tableVars, task>>

sys_dup(p, fd) ==
  /\ Calling(p) /\ Counted
  /\ ofile[p][fd] # NoFile /\ FreeFds(p) # {}
  /\ ofile' = [ofile EXCEPT ![p][First(FreeFds(p))] = ofile[p][fd]]
  /\ ftable' = [ftable EXCEPT ![ofile[p][fd]].ref = @ + 1]
  /\ UNCHANGED <<ends, iref, live, diskVars, task, panicked>>

\* pipe: two entries, a page and two descriptors.
sys_pipe(p) ==
  /\ Calling(p) /\ Counted
  /\ Cardinality(Unused) >= 2 /\ Cardinality(FreeFds(p)) >= 2
  /\ \E q \in Pipes :
       /\ ends[q] = {}
       /\ ends' = [ends EXCEPT ![q] = {"r", "w"}]
       /\ LET f0 == First(Unused)
              f1 == First(Unused \ {f0})
              fd0 == First(FreeFds(p))
              fd1 == First(FreeFds(p) \ {fd0})
              end(m) == [type |-> "FD_PIPE", ref |-> 1, mode |-> m, of |-> q, off |-> 0]
          IN /\ ftable' = [ftable EXCEPT ![f0] = end("r"), ![f1] = end("w")]
             /\ ofile' = [ofile EXCEPT ![p][fd0] = f0, ![p][fd1] = f1]
  /\ UNCHANGED <<iref, live, diskVars, task, panicked>>

\* pipe without two entries, a page or two descriptors: in the last case the ends were
\* open and pipeclose has freed the page again.
sys_pipe_fails(p) ==
  /\ Calling(p) /\ Counted
  /\ \/ Cardinality(Unused) < 2 \/ Cardinality(FreeFds(p)) < 2
     \/ \A q \in Pipes : ends[q] # {}
  /\ IF Cardinality(Unused) >= 2 /\ \E q \in Pipes : ends[q] = {}
     THEN UNCHANGED task ELSE GiveBack(p)
  /\ UNCHANGED <<tableVars, diskVars, panicked>>

\* close, and the closing of one descriptor by exit.
close(p, fd) ==
  /\ task' = [task EXCEPT ![p] = IF ftable[ofile[p][fd]].ref > 1 THEN Idle
                                   ELSE Finishing(ofile[p][fd])]
  /\ ftable' = fileclose(ofile[p][fd])
  /\ ofile' = [ofile EXCEPT ![p][fd] = NoFile]
  /\ UNCHANGED <<ends, iref, diskVars, panicked>>

sys_close(p, fd) ==
  /\ Calling(p) /\ Counted
  /\ ofile[p][fd] # NoFile
  /\ close(p, fd) /\ UNCHANGED live

\* The last close of a file gives its inode back, in a transaction of its own.
fileclose_inode(p) ==
  /\ panicked = "no" /\ task[p].op = "FD_INODE" /\ ~task[p].put
  /\ iput(task[p].of)
  /\ task' = [task EXCEPT ![p].put = TRUE]
  /\ UNCHANGED <<tableVars, calls>>

\* The end of iput, under icache.lock: others may have come to the inode since.
iput_ref(p) ==
  /\ panicked = "no" /\ task[p].op = "FD_INODE" /\ task[p].put
  /\ iref' = [iref EXCEPT ![task[p].of] = @ - 1]
  /\ task' = [task EXCEPT ![p] = Idle]
  /\ UNCHANGED <<ofile, ftable, ends, live, diskVars, calls, panicked>>

\* The last close of an end of a pipe: pipeclose.
fileclose_pipe(p) ==
  /\ panicked = "no" /\ task[p].op = "FD_PIPE"
  /\ ends' = [ends EXCEPT ![task[p].of] = @ \ {task[p].mode}]
  /\ task' = [task EXCEPT ![p] = Idle]
  /\ UNCHANGED <<ofile, ftable, iref, live, diskVars, calls, panicked>>

\* fileread of an inode.
sys_read(p, fd) ==
  /\ Calling(p) /\ Counted
  /\ ofile[p][fd] # NoFile
  /\ LET f == ofile[p][fd]
         r == readi(Disk(ftable[f].of), ftable[f].off, ReadSize)
     IN /\ ftable[f].type = "FD_INODE" /\ ftable[f].mode # "w"
        /\ ftable' = [ftable EXCEPT ![f].off = @ + Len(r)]
  /\ UNCHANGED <<ofile, ends, iref, live, diskVars, task, panicked>>

sys_write(p, fd, n, v) ==
  /\ Calling(p) /\ Counted
  /\ ofile[p][fd] # NoFile
  /\ ftable[ofile[p][fd]].type = "FD_INODE" /\ ftable[ofile[p][fd]].mode # "r"
  /\ task' = [task EXCEPT ![p] = [op |-> "write", of |-> ofile[p][fd], n |-> n, v |-> v]]
  /\ UNCHANGED <<tableVars, diskVars, panicked>>

\* Mutant of max: no slop for writes that are not aligned.
max_NoSlop == ((MAXOPBLOCKS - 1 - 1) \div 2) * BSIZE

\* The bytes of one transaction.
max == ((MAXOPBLOCKS - 1 - 1 - 2) \div 2) * BSIZE

\* The file that a write of n bytes v at off leaves, byte by byte.
Overwritten(c, off, n, v) ==
  [k \in 1 .. (IF off + n > Len(c) THEN off + n ELSE Len(c)) |->
     IF k \in off + 1 .. off + n THEN v ELSE c[k]]

\* One turn of the loop of filewrite: a transaction of at most max bytes.
filewrite(p) ==
  /\ panicked = "no" /\ task[p].op = "write"
  /\ LET f == task[p].of
         i == ftable[f].of
         off == ftable[f].off
         n1 == Smaller(task[p].n, max)
         s == writei(Disk(i), off, n1, task[p].v)
     IN /\ off <= inode[i].size /\ off + n1 <= MAXFILE * BSIZE
        /\ ends_op(i, s, {})
        /\ panicked' = IF s.full THEN "out_of_blocks" ELSE panicked
        /\ contents' = [contents EXCEPT ![i] =
                          IF s.full THEN @ ELSE Overwritten(@, off, n1, task[p].v)]
        /\ ftable' = [ftable EXCEPT ![f].off = @ + n1]
        /\ task' = [task EXCEPT ![p] =
                      IF task[p].n = n1 THEN Idle ELSE [task[p] EXCEPT !.n = task[p].n - n1]]
  /\ UNCHANGED <<ofile, ends, iref, live, calls>>

\* writei returns -1 and the loop ends: what earlier turns wrote stays.
filewrite_fails(p) ==
  /\ panicked = "no" /\ task[p].op = "write"
  /\ LET f == task[p].of IN
       \/ ftable[f].off > inode[ftable[f].of].size
       \/ ftable[f].off + Smaller(task[p].n, max) > MAXFILE * BSIZE
  /\ task' = [task EXCEPT ![p] = Idle]
  /\ UNCHANGED <<tableVars, diskVars, calls, panicked>>

\* fork: the child shares every open file of its parent.
fork(p, c) ==
  /\ Calling(p) /\ Counted
  /\ c \in Procs \ live
  /\ live' = live \cup {c}
  /\ ofile' = [ofile EXCEPT ![c] = ofile[p]]
  /\ ftable' = [f \in Files |->
       [ftable[f] EXCEPT !.ref = @ + Cardinality({fd \in Fds : ofile[p][fd] = f})]]
  /\ UNCHANGED <<ends, iref, diskVars, task, panicked>>

\* exit closes the descriptors in their order, then the process is gone.
exit(p) ==
  /\ Calling(p) /\ live # {p}
  /\ LET open == {fd \in Fds : ofile[p][fd] # NoFile} IN
       IF open = {}
       THEN live' = live \ {p} /\ UNCHANGED <<ofile, ftable, ends, iref, diskVars, task, panicked>>
       ELSE close(p, First(open)) /\ UNCHANGED live
  /\ UNCHANGED calls

FileNext ==
  \E p \in Procs :
    \/ \E i \in Inodes : \/ \E m \in Modes : sys_open(p, i, m)
                         \/ sys_open_fails(p, i) \/ sys_unlink(p, i)
    \/ \E fd \in Fds : \/ sys_dup(p, fd) \/ sys_close(p, fd) \/ sys_read(p, fd)
                       \/ \E n \in WriteSizes, v \in Bytes : sys_write(p, fd, n, v)
    \/ sys_pipe(p) \/ sys_pipe_fails(p)
    \/ fileclose_inode(p) \/ iput_ref(p) \/ fileclose_pipe(p) \/ filewrite(p) \/ filewrite_fails(p)
    \/ exit(p) \/ \E c \in Procs : fork(p, c)

FileSpec == FileInit /\ [][FileNext]_fileVars

-----------------------------------------------------------------------------
(* Properties *)

\* Whatever readi returns, at any offset, is what write put there: through direct
\* and indirect blocks, and when processes that share a file write in turns.
ReadsWhatWasWritten ==
  panicked = "no" =>
    \A i \in Inodes, off \in 0 .. MAXFILE * BSIZE :
      off <= Len(contents[i]) =>
        readi(Disk(i), off, ReadSize)
          = SubSeq(contents[i], off + 1, Smaller(off + ReadSize, Len(contents[i])))

\* The blocks that an inode refers to, on the disk.
BlocksOf(i) ==
  LET ind == dinode[i].addrs[NDIRECT] IN
  ({dinode[i].addrs[k] : k \in 0 .. NDIRECT}
     \cup IF ind = 0 THEN {} ELSE {data[ind][j] : j \in 0 .. NINDIRECT - 1}) \ {0}

\* What a check of the disk would find after any transaction: the bitmap marks
\* exactly the blocks that the inodes on the disk refer to, and none belongs to two;
\* no free block is freed, whatever is written, truncated and removed.
NoBlockLost ==
  /\ panicked # "freeing_free"
  /\ panicked = "no" =>
    /\ bitmap = UNION {BlocksOf(i) : i \in Inodes}
    /\ \A i, j \in Inodes : i # j => BlocksOf(i) \cap BlocksOf(j) = {}

\* No transaction logs more blocks than begin_op reserved: not a turn of filewrite,
\* even if every block has a bitmap block of its own, not making or removing a file,
\* with the blocks of its directory, and not freeing one at its last close.
TransactionsFit == logged <= MAXOPBLOCKS

Holds(type, x) ==
  {f \in Files : ftable[f].ref > 0 /\ ftable[f].type = type /\ ftable[f].of = x}
Dropping(type, x) ==
  {p \in Procs : task[p].op = type /\ task[p].of = x}

\* A file is referred to by the descriptors that its count says, an inode by the
\* files, a pipe by its ends; a last close under way still holds what it copied.
RefsAreDescriptors ==
  /\ \A f \in Files :
       ftable[f].ref = Cardinality({pf \in Procs \X Fds : ofile[pf[1]][pf[2]] = f})
  /\ \A i \in Inodes :
       iref[i] = Cardinality(Holds("FD_INODE", i)) + Cardinality(Dropping("FD_INODE", i))
  /\ \A q \in Pipes :
       Cardinality(ends[q])
         = Cardinality(Holds("FD_PIPE", q)) + Cardinality(Dropping("FD_PIPE", q))
=============================================================================
