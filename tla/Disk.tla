-------------------------------- MODULE Disk --------------------------------
(***************************************************************************)
(* The buffer cache of bio.c with its sleep locks (sleeplock.c) on top of     *)
(* one of the two disk drivers: ide.c, with its queue and interrupts, or the  *)
(* disk in memory of memide.c.  Processes read, change, write and pin blocks  *)
(* the way log.c does.                                                      *)
(*                                                                         *)
(* What bcache.lock, idelock or the spin lock of a sleep lock protects is one *)
(* step.                                                                   *)
(*                                                                         *)
(* Procs are the threads of buffer use: a process that has two buffers at a   *)
(* time (write_log, install_trans) or three (bmap and itrunc, with balloc or  *)
(* bfree) is two or three members of Procs.  Its members may go on in more    *)
(* orders than the process can, so what holds of them holds of it.           *)
(***************************************************************************)
EXTENDS SleepWakeup, Integers, Sequences, FiniteSets

CONSTANTS
  NBUF,
  Blocks,        \* the block numbers in use; 0 is never cached
  Values,        \* contents of a block
  MaxPinned,     \* bound on the blocks of a transaction
  ReadFaults     \* whether a read ends with an error: a set of outcomes

NoBlock == 0
NoOne == "nobody"
NoBuf == 0

ASSUME DiskAssumption ==
  /\ NBUF \in Nat \ {0} /\ MaxPinned \in Nat /\ ReadFaults \subseteq BOOLEAN
  /\ Values # {} /\ NoBlock \notin Blocks
  /\ IsFiniteSet(Procs) /\ NoOne \notin Procs

VARIABLES
  buf,        \* the buffers: blockno, refcnt, valid, dirty, data, holder
  lru,        \* the list behind bcache.head, the most recently used first
  idequeue,   \* the requests, the active one first
  disk,       \* the contents of the disk
  hw,         \* the disk: "idle", "busy" or "interrupt"
  command,    \* the command it was given
  memdisk,    \* the kernel was linked with memide.c
  pc, b,      \* where a process is, and its buffer
  want,       \* the block it asked for
  last,       \* history: the last contents stored in each block
  panicked

bufVars == <<buf, lru>>
ideVars == <<idequeue, disk, hw, command>>
procVars == <<pc, b, want>>
diskVars == <<bufVars, ideVars, procVars, memdisk, last, panicked, chan, killed>>

Bufs == 1 .. NBUF
LockChan(x) == <<"lock", x>>
DoneChan(x) == <<"buf", x>>

DiskInit ==
  /\ SleepInit
  /\ \E v \in Values :
       /\ disk = [blk \in Blocks |-> v] /\ last = disk
       /\ buf = [x \in Bufs |-> [blockno |-> NoBlock, refcnt |-> 0, valid |-> FALSE,
                                 dirty |-> FALSE, data |-> v, holder |-> NoOne]]
  /\ lru = [i \in Bufs |-> NBUF + 1 - i]
  /\ idequeue = <<>> /\ hw = "idle" /\ command = NoBuf
  /\ memdisk \in BOOLEAN
  /\ pc = [p \in Procs |-> "user"]
  /\ b = [p \in Procs |-> NoBuf]
  /\ want = [p \in Procs |-> NoBlock]
  /\ panicked = FALSE

goto(p, where) == pc' = [pc EXCEPT ![p] = where]

-----------------------------------------------------------------------------
(* bio.c and sleeplock.c *)

Cached(blk) == {x \in Bufs : buf[x].blockno = blk}

\* The block is cached.
bget_cached(p, blk) ==
  /\ pc[p] = "user"
  /\ \E x \in Cached(blk) :
       /\ buf' = [buf EXCEPT ![x].refcnt = @ + 1]
       /\ b' = [b EXCEPT ![p] = x]
  /\ want' = [want EXCEPT ![p] = blk]
  /\ goto(p, "lock")
  /\ UNCHANGED <<lru, ideVars, memdisk, last, panicked, chan, killed>>

\* Mutant of Recyclable: a dirty buffer may be taken from the log.
Recyclable_Dirty == {x \in Bufs : buf[x].refcnt = 0}

Recyclable == {x \in Bufs : buf[x].refcnt = 0 /\ ~buf[x].dirty}

\* Not cached: the buffer not used for longest is taken; there may be none.
bget_recycle(p, blk) ==
  /\ pc[p] = "user" /\ Cached(blk) = {}
  /\ want' = [want EXCEPT ![p] = blk]
  /\ IF Recyclable = {}
       THEN panicked' = TRUE /\ goto(p, "panic") /\ UNCHANGED <<buf, b>>
       ELSE /\ \E i \in Bufs :
                 /\ lru[i] \in Recyclable
                 /\ \A j \in i + 1 .. NBUF : lru[j] \notin Recyclable
                 /\ buf' = [buf EXCEPT ![lru[i]].blockno = blk, ![lru[i]].refcnt = 1,
                                       ![lru[i]].valid = FALSE, ![lru[i]].dirty = FALSE]
                 /\ b' = [b EXCEPT ![p] = lru[i]]
            /\ goto(p, "lock")
            /\ UNCHANGED panicked
  /\ UNCHANGED <<lru, ideVars, memdisk, last, chan, killed>>

\* The sleep lock of the buffer; a process that finds it taken sleeps and tries
\* again.  bread then asks the disk for a block that is not valid.
acquiresleep(p) ==
  /\ pc[p] = "lock" /\ chan[p] = Awake
  /\ IF buf[b[p]].holder # NoOne
       THEN sleep(p, LockChan(b[p])) /\ UNCHANGED <<buf, pc>>
       ELSE /\ buf' = [buf EXCEPT ![b[p]].holder = p]
            /\ goto(p, IF buf[b[p]].valid THEN "have" ELSE "iderw")
            /\ UNCHANGED chan
  /\ UNCHANGED <<lru, ideVars, b, want, memdisk, last, panicked, killed>>

\* The contents of a locked buffer are changed, and the buffer is written ...
bwrite(p, v) ==
  /\ pc[p] = "have"
  /\ buf' = [buf EXCEPT ![b[p]].data = v, ![b[p]].dirty = TRUE]
  /\ last' = [last EXCEPT ![want[p]] = v]
  /\ goto(p, "iderw")
  /\ UNCHANGED <<lru, ideVars, b, want, memdisk, panicked, chan, killed>>

Pinned == {x \in Bufs : buf[x].dirty /\ ~\E i \in DOMAIN idequeue : idequeue[i] = x}

\* ... or pinned by log_write until the commit writes it.
log_write(p, v) ==
  /\ pc[p] = "have"
  /\ buf[b[p]].dirty \/ Cardinality(Pinned) < MaxPinned
  /\ buf' = [buf EXCEPT ![b[p]].data = v, ![b[p]].dirty = TRUE]
  /\ last' = [last EXCEPT ![want[p]] = v]
  /\ UNCHANGED <<lru, ideVars, procVars, memdisk, panicked, chan, killed>>

\* brelse: the lock first ...
releasesleep(p) ==
  /\ pc[p] = "have"
  /\ buf' = [buf EXCEPT ![b[p]].holder = NoOne]
  /\ wakeup(LockChan(b[p]))
  /\ goto(p, "put")
  /\ UNCHANGED <<lru, ideVars, b, want, memdisk, last, panicked, killed>>

\* Mutant of brelse: a buffer that others wait for keeps the reference.
brelse_Leaks(p) ==
  /\ pc[p] = "put"
  /\ buf' = IF buf[b[p]].holder = NoOne THEN [buf EXCEPT ![b[p]].refcnt = @ - 1] ELSE buf
  /\ UNCHANGED lru
  /\ b' = [b EXCEPT ![p] = NoBuf]
  /\ want' = [want EXCEPT ![p] = NoBlock]
  /\ goto(p, "user")
  /\ UNCHANGED <<ideVars, memdisk, last, panicked, chan, killed>>

\* ... then the reference, and to the front of the list with the last one.
brelse(p) ==
  /\ pc[p] = "put"
  /\ buf' = [buf EXCEPT ![b[p]].refcnt = @ - 1]
  /\ lru' = IF buf[b[p]].refcnt = 1
              THEN <<b[p]>> \o SelectSeq(lru, LAMBDA x : x # b[p])
              ELSE lru
  /\ b' = [b EXCEPT ![p] = NoBuf]
  /\ want' = [want EXCEPT ![p] = NoBlock]
  /\ goto(p, "user")
  /\ UNCHANGED <<ideVars, memdisk, last, panicked, chan, killed>>

-----------------------------------------------------------------------------
(* ide.c *)

\* The command for a buffer; the data of a write go to the disk with it.
idestart(x) ==
  /\ hw' = "busy"
  /\ command' = [blk |-> buf[x].blockno, write |-> buf[x].dirty, data |-> buf[x].data]

\* The request is queued, the disk started if it was idle, and the process
\* sleeps until its buffer is valid and clean.
iderw(p) ==
  /\ pc[p] = "iderw" /\ ~memdisk
  /\ idequeue' = Append(idequeue, b[p])
  /\ IF idequeue = <<>> THEN idestart(b[p]) ELSE UNCHANGED <<hw, command>>
  /\ sleep(p, DoneChan(b[p]))
  /\ goto(p, "wait")
  /\ UNCHANGED <<bufVars, disk, b, want, memdisk, last, panicked, killed>>

iderw_woken(p) ==
  /\ pc[p] = "wait" /\ chan[p] = Awake
  /\ IF buf[b[p]].valid /\ ~buf[b[p]].dirty
       THEN goto(p, "have") /\ UNCHANGED chan
       ELSE sleep(p, DoneChan(b[p])) /\ UNCHANGED pc
  /\ UNCHANGED <<bufVars, ideVars, b, want, memdisk, last, panicked, killed>>

\* The disk has done what it was told and raises its interrupt.
DiskDone ==
  /\ hw = "busy" /\ hw' = "interrupt"
  /\ disk' = IF command.write THEN [disk EXCEPT ![command.blk] = command.data] ELSE disk
  /\ UNCHANGED <<bufVars, idequeue, command, procVars, memdisk, last, panicked, chan, killed>>

\* Mutant of ideintr: the next request is not started.
ideintr_NoNext(failed) ==
  /\ hw = "interrupt" /\ idequeue # <<>>
  /\ LET x == Head(idequeue)
         reads == ~buf[x].dirty /\ ~failed
     IN  /\ buf' = [buf EXCEPT ![x].valid = TRUE, ![x].dirty = FALSE,
                               ![x].data = IF reads THEN disk[buf[x].blockno] ELSE @]
         /\ wakeup(DoneChan(x))
  /\ idequeue' = Tail(idequeue)
  /\ hw' = "idle" /\ UNCHANGED command
  /\ UNCHANGED <<lru, disk, procVars, memdisk, last, panicked, killed>>

\* The active request is finished: its data are read unless the disk reports an
\* error, the buffer is marked valid in any case, and the next one is started.
ideintr(failed) ==
  /\ hw = "interrupt" /\ idequeue # <<>>
  /\ LET x == Head(idequeue)
         reads == ~buf[x].dirty /\ ~failed
     IN  /\ buf' = [buf EXCEPT ![x].valid = TRUE, ![x].dirty = FALSE,
                               ![x].data = IF reads THEN disk[buf[x].blockno] ELSE @]
         /\ wakeup(DoneChan(x))
  /\ idequeue' = Tail(idequeue)
  /\ IF Len(idequeue) > 1 THEN idestart(idequeue[2])
                          ELSE hw' = "idle" /\ UNCHANGED command
  /\ UNCHANGED <<lru, disk, procVars, memdisk, last, panicked, killed>>

\* memide.c: the same promise without a queue.
iderw_mem(p) ==
  /\ pc[p] = "iderw" /\ memdisk
  /\ LET x == b[p] IN
       /\ disk' = IF buf[x].dirty THEN [disk EXCEPT ![buf[x].blockno] = buf[x].data] ELSE disk
       /\ buf' = [buf EXCEPT ![x].valid = TRUE, ![x].dirty = FALSE,
                             ![x].data = IF buf[x].dirty THEN @ ELSE disk[buf[x].blockno]]
  /\ goto(p, "have")
  /\ UNCHANGED <<lru, idequeue, hw, command, b, want, memdisk, last, panicked, chan, killed>>

-----------------------------------------------------------------------------
Caching(p) ==
  \/ \E blk \in Blocks : bget_cached(p, blk) \/ bget_recycle(p, blk)
  \/ \E v \in Values : bwrite(p, v) \/ log_write(p, v)
  \/ acquiresleep(p) \/ releasesleep(p) \/ brelse(p)

Driving(p) == iderw(p) \/ iderw_woken(p) \/ iderw_mem(p)

Interrupts == DiskDone \/ \E failed \in ReadFaults : ideintr(failed)

\* panic: the kernel loops for ever.
panic == panicked /\ UNCHANGED diskVars

DiskNext ==
  \/ ~panicked /\ (Interrupts \/ \E p \in Procs : Caching(p) \/ Driving(p))
  \/ panic

DiskSpec == DiskInit /\ [][DiskNext]_diskVars

-----------------------------------------------------------------------------
(* Properties *)

\* What bread promises: the process that has a block has it alone, and finds
\* the contents last stored in it, wherever they are: in the buffer it waited
\* for, on the disk after the buffer was recycled, or pinned and not yet written.
ReadsLatest ==
  \A p \in Procs : pc[p] = "have" =>
    /\ buf[b[p]].holder = p /\ buf[b[p]].blockno = want[p]
    /\ buf[b[p]].data = last[want[p]]
    /\ \A q \in Procs : q # p /\ pc[q] = "have" => want[q] # want[p]

\* The driver and the disk agree: the disk works for the first request of the
\* queue, with the command that belongs to its buffer, is idle only when nothing
\* is queued, and a process sleeps only for a request that is still queued.
QueueMatchesDisk ==
  /\ hw = "idle" <=> idequeue = <<>>
  /\ idequeue # <<>> =>
       command = [blk |-> buf[Head(idequeue)].blockno, write |-> buf[Head(idequeue)].dirty,
                  data |-> buf[Head(idequeue)].data]
  /\ \A i, j \in DOMAIN idequeue : idequeue[i] = idequeue[j] => i = j
  /\ \A p \in Procs : chan[p] = DoneChan(b[p]) => \E i \in DOMAIN idequeue : idequeue[i] = b[p]

InUse == {p \in Procs : b[p] # NoBuf}

\* bget panics only when the cache is full: every buffer is dirty or in somebody's
\* hands, so that as many are in use as the log leaves.  A buffer that was given back
\* is not lost to the cache, whoever waited for it in the meantime.
PanicsOnlyWhenFull ==
  panicked =>
    /\ \A x \in Bufs : buf[x].dirty \/ \E p \in InUse : b[p] = x
    /\ NBUF <= MaxPinned + Cardinality(InUse)
=============================================================================
