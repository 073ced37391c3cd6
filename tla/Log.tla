--------------------------------- MODULE Log --------------------------------
(***************************************************************************)
(* The write-ahead log of the xv6 kernel (XV6/data/log.c) on top of the       *)
(* buffer cache (bio.c): begin_op, log_write, end_op and commit by several    *)
(* processes, crashes at any point, and recovery when the machine boots.      *)
(*                                                                         *)
(* A step is a critical section of log.lock or one bwrite; writing a block    *)
(* is atomic, as for a sector of BSIZE bytes.  The array log.lh.block with     *)
(* its length log.lh.n is the sequence lh.                                   *)
(***************************************************************************)
EXTENDS Naturals, Sequences, FiniteSets

CONSTANTS
  Procs, Blocks,   \* processes, and home blocks of the file system
  Values,          \* contents of a block
  InitialDisk,     \* the file system that mkfs made
  MAXOPBLOCKS,     \* "max # of blocks any FS op writes"
  LOGSIZE,         \* "max data blocks in on-disk log"
  nlog,            \* blocks of the log, header included: log.size
  FirstInodeBlock, \* the block that follows the log on the disk
  NoBlock          \* no buffer is held

ASSUME LogAssumption ==
  /\ InitialDisk \in [Blocks -> Values]
  /\ IsFiniteSet(Procs)
  /\ MAXOPBLOCKS \in Nat \ {0} /\ LOGSIZE \in Nat /\ MAXOPBLOCKS <= LOGSIZE
  /\ nlog \in Nat \ {0}
  /\ FirstInodeBlock \in Blocks
  /\ NoBlock \notin Blocks

VARIABLES
  disk,            \* home locations on disk
  dlog, dhead,     \* data blocks and header of the log on disk
  cache, dirty,    \* contents of the buffer cache; buffers with B_DIRTY
  lh,              \* log.lh
  outstanding,     \* log.outstanding
  committing,      \* log.committing
  pc,              \* where each process is
  held,            \* the buffer each process holds locked
  used,            \* blocks that the current system call of each process wrote
  tail,            \* loop variable of write_log and install_trans
  sys              \* "read_head", "install", "run", or a halted state

diskState == <<disk, dlog, dhead>>
memory == <<cache, dirty, lh, outstanding, committing, pc, held, used, tail>>
logVars == <<diskState, memory, sys>>

Running == sys = "run"

Holders(b) == {p \in Procs : held[p] = b}

\* Nobody is in the kernel: the state right after a boot.
Reset ==
  /\ dirty' = {} /\ lh' = << >> /\ outstanding' = 0 /\ committing' = 0
  /\ pc' = [p \in Procs |-> "idle"]
  /\ held' = [p \in Procs |-> NoBlock]
  /\ used' = [p \in Procs |-> {}]
  /\ tail' = 1

LogInit ==
  /\ disk = InitialDisk /\ cache = InitialDisk
  /\ dlog \in [1 .. LOGSIZE -> {InitialDisk[b] : b \in Blocks}] /\ dhead = << >>
  /\ dirty = {} /\ lh = << >> /\ outstanding = 0 /\ committing = 0
  /\ pc = [p \in Procs |-> "idle"]
  /\ held = [p \in Procs |-> NoBlock]
  /\ used = [p \in Procs |-> {}]
  /\ tail = 1
  /\ sys = "read_head"

-----------------------------------------------------------------------------
(***************************************************************************)
(* initlog: recover_from_log, before any process makes a system call.        *)
(***************************************************************************)
read_head ==
  /\ sys = "read_head"
  /\ lh' = dhead
  /\ tail' = 1
  /\ sys' = "install"
  /\ UNCHANGED <<diskState, cache, dirty, outstanding, committing, pc, held, used>>

\* One block of install_trans: from the log to its home location, through the
\* cache; bwrite leaves the buffer clean.
InstallBlock ==
  /\ tail <= Len(lh)
  /\ disk' = [disk EXCEPT ![lh[tail]] = dlog[tail]]
  /\ cache' = [cache EXCEPT ![lh[tail]] = dlog[tail]]
  /\ dirty' = dirty \ {lh[tail]}
  /\ tail' = tail + 1

RecoverBlock ==
  /\ sys = "install"
  /\ InstallBlock
  /\ UNCHANGED <<dlog, dhead, lh, outstanding, committing, pc, held, used, sys>>

\* log.lh.n = 0; write_head()
RecoverClear ==
  /\ sys = "install"
  /\ tail > Len(lh)
  /\ lh' = << >>
  /\ dhead' = << >>
  /\ sys' = "run"
  /\ UNCHANGED <<disk, dlog, cache, dirty, outstanding, committing, pc, held, used, tail>>

-----------------------------------------------------------------------------
(***************************************************************************)
(* begin_op                                                                *)
(***************************************************************************)
\* Mutant of MustWait: the new system call is not reckoned with.
MustWait_NoReservation ==
  committing = 1 \/ Len(lh) + outstanding * MAXOPBLOCKS > LOGSIZE

\* Mutant of MustWait: log.committing is not looked at.
MustWait_IgnoresCommit ==
  Len(lh) + (outstanding + 1) * MAXOPBLOCKS > LOGSIZE

MustWait ==
  committing = 1 \/ Len(lh) + (outstanding + 1) * MAXOPBLOCKS > LOGSIZE

begin_op(p) ==
  /\ Running
  /\ pc[p] \in {"idle", "woken"}
  /\ IF MustWait
       THEN /\ pc' = [pc EXCEPT ![p] = "sleep"]
            /\ UNCHANGED <<outstanding, used>>
       ELSE /\ pc' = [pc EXCEPT ![p] = "op"]
            /\ outstanding' = outstanding + 1
            /\ used' = [used EXCEPT ![p] = {}]
  /\ UNCHANGED <<diskState, cache, dirty, lh, committing, held, tail, sys>>

\* wakeup(&log): the sleepers go round the loop of begin_op again.
Woken(f) == [p \in Procs |-> IF f[p] = "sleep" THEN "woken" ELSE f[p]]

(***************************************************************************)
(* A system call changes a buffer and hands it to log_write.                 *)
(***************************************************************************)
\* bread and the change of b->data.  A call writes at most MAXOPBLOCKS blocks.
modify(p, b, v) ==
  /\ Running
  /\ pc[p] = "op"
  /\ Holders(b) = {}
  /\ b \in used[p] \/ Cardinality(used[p]) < MAXOPBLOCKS
  /\ cache' = [cache EXCEPT ![b] = v]
  /\ held' = [held EXCEPT ![p] = b]
  /\ pc' = [pc EXCEPT ![p] = "log_write"]
  /\ UNCHANGED <<diskState, dirty, lh, outstanding, committing, used, tail, sys>>

\* The tests of log_write, made before it takes log.lock.
TooBig == Len(lh) >= LOGSIZE \/ Len(lh) >= nlog - 1

log_write_test(p) ==
  /\ Running
  /\ pc[p] = "log_write"
  /\ sys' = IF TooBig THEN "panic_too_big"
            ELSE IF outstanding < 1 THEN "panic_outside"
            ELSE sys
  /\ pc' = [pc EXCEPT ![p] = "append"]
  /\ UNCHANGED <<diskState, cache, dirty, lh, outstanding, committing, held, used, tail>>

Logged(b) == \E k \in 1 .. Len(lh) : lh[k] = b

\* The rest of log_write, under log.lock, and brelse.
log_write(p) ==
  /\ Running
  /\ pc[p] = "append"
  /\ lh' = IF Logged(held[p]) THEN lh ELSE Append(lh, held[p])
  /\ dirty' = dirty \cup {held[p]}
  /\ used' = [used EXCEPT ![p] = @ \cup {held[p]}]
  /\ held' = [held EXCEPT ![p] = NoBlock]
  /\ pc' = [pc EXCEPT ![p] = "op"]
  /\ UNCHANGED <<diskState, cache, outstanding, committing, tail, sys>>

\* bget recycles a buffer that is neither held nor dirty; the next bread of the
\* block takes it from the disk.
evict(b) ==
  /\ Running
  /\ Holders(b) = {} /\ b \notin dirty
  /\ cache' = [cache EXCEPT ![b] = disk[b]]
  /\ UNCHANGED <<diskState, dirty, lh, outstanding, committing, pc, held, used, tail, sys>>

(***************************************************************************)
(* end_op and commit                                                       *)
(***************************************************************************)
end_op(p) ==
  /\ Running
  /\ pc[p] = "op"
  /\ outstanding' = outstanding - 1
  /\ sys' = IF committing = 1 THEN "panic_committing" ELSE sys
  /\ used' = [used EXCEPT ![p] = {}]
  /\ IF outstanding = 1
       THEN /\ committing' = 1
            /\ pc' = [pc EXCEPT ![p] = IF lh = << >> THEN "committed" ELSE "write_log"]
       ELSE /\ pc' = Woken([pc EXCEPT ![p] = "idle"])
            /\ UNCHANGED committing
  /\ tail' = 1
  /\ UNCHANGED <<diskState, cache, dirty, lh, held>>

\* One block of write_log: from the cache to the log.
write_log(p) ==
  /\ Running
  /\ pc[p] = "write_log"
  /\ tail <= Len(lh) /\ tail <= nlog - 1
  /\ dlog' = [dlog EXCEPT ![tail] = cache[lh[tail]]]
  /\ tail' = tail + 1
  /\ UNCHANGED <<disk, dhead, cache, dirty, lh, outstanding, committing, pc, held, used, sys>>

\* A block more than the log holds: it is written over the first inode block.
\* What the kernel does with such a disk is not followed further.
write_log_overrun(p) ==
  /\ Running
  /\ pc[p] = "write_log"
  /\ tail <= Len(lh) /\ tail > nlog - 1
  /\ disk' = [disk EXCEPT ![FirstInodeBlock] = cache[lh[tail]]]
  /\ sys' = "overrun"
  /\ UNCHANGED <<dlog, dhead, memory>>

\* Mutant of write_head: the header is written while blocks of the log are
\* still missing.
write_head_Early(p) ==
  /\ Running
  /\ pc[p] = "write_log"
  /\ tail >= Len(lh)
  /\ dhead' = lh
  /\ tail' = 1
  /\ pc' = [pc EXCEPT ![p] = "install"]
  /\ UNCHANGED <<disk, dlog, cache, dirty, lh, outstanding, committing, held, used, sys>>

\* "This is the true point at which the current transaction commits."
write_head(p) ==
  /\ Running
  /\ pc[p] = "write_log"
  /\ tail > Len(lh)
  /\ dhead' = lh
  /\ tail' = 1
  /\ pc' = [pc EXCEPT ![p] = "install"]
  /\ UNCHANGED <<disk, dlog, cache, dirty, lh, outstanding, committing, held, used, sys>>

install_trans(p) ==
  /\ Running
  /\ pc[p] = "install"
  /\ InstallBlock
  /\ UNCHANGED <<dlog, dhead, lh, outstanding, committing, pc, held, used, sys>>

\* log.lh.n = 0; write_head()
erase(p) ==
  /\ Running
  /\ pc[p] = "install"
  /\ tail > Len(lh)
  /\ lh' = << >>
  /\ dhead' = << >>
  /\ pc' = [pc EXCEPT ![p] = "committed"]
  /\ UNCHANGED <<disk, dlog, cache, dirty, outstanding, committing, held, used, tail, sys>>

\* Mutant of end_commit: nobody is woken.
end_commit_Silent(p) ==
  /\ Running
  /\ pc[p] = "committed"
  /\ committing' = 0
  /\ pc' = [pc EXCEPT ![p] = "idle"]
  /\ UNCHANGED <<diskState, cache, dirty, lh, outstanding, held, used, tail, sys>>

\* Mutant of end_commit: log.committing is left set.
end_commit_KeepsFlag(p) ==
  /\ Running
  /\ pc[p] = "committed"
  /\ pc' = Woken([pc EXCEPT ![p] = "idle"])
  /\ UNCHANGED <<diskState, cache, dirty, lh, outstanding, committing, held, used, tail, sys>>

end_commit(p) ==
  /\ Running
  /\ pc[p] = "committed"
  /\ committing' = 0
  /\ pc' = Woken([pc EXCEPT ![p] = "idle"])
  /\ UNCHANGED <<diskState, cache, dirty, lh, outstanding, held, used, tail, sys>>

-----------------------------------------------------------------------------
\* Power loss at any moment, or the reboot after a panic: memory is lost.
Crash ==
  /\ Reset
  /\ cache' = disk
  /\ sys' = "read_head"
  /\ UNCHANGED diskState

Commits(p) ==
  \/ write_log(p) \/ write_log_overrun(p) \/ write_head(p) \/ install_trans(p)
  \/ erase(p) \/ end_commit(p)

Recovers == read_head \/ RecoverBlock \/ RecoverClear

LogNext ==
  \/ Recovers
  \/ \E p \in Procs :
       \/ begin_op(p) \/ log_write_test(p) \/ log_write(p) \/ end_op(p) \/ Commits(p)
       \/ \E b \in Blocks, v \in Values : modify(p, b, v)
  \/ \E b \in Blocks : evict(b)
  \/ Crash

\* A process that commits is scheduled until it is done; nothing else is
\* assumed to happen.
LogSpec ==
  /\ LogInit
  /\ [][LogNext]_logVars
  /\ \A p \in Procs : WF_logVars(Commits(p))

-----------------------------------------------------------------------------
Panics == {"panic_too_big", "panic_outside",
           "panic_committing"}

\* The values of the log's state.
LogTypeOK ==
  /\ disk \in [Blocks -> Values] /\ cache \in [Blocks -> Values]
  /\ dlog \in [1 .. LOGSIZE -> Values]
  /\ dhead \in Seq(Blocks) /\ lh \in Seq(Blocks)
  /\ dirty \subseteq Blocks
  /\ outstanding \in Nat /\ committing \in {0, 1}
  /\ pc \in [Procs -> {"idle", "sleep", "woken", "op", "log_write", "append",
                       "write_log", "install", "committed"}]
  /\ held \in [Procs -> Blocks \cup {NoBlock}]
  /\ used \in [Procs -> SUBSET Blocks]
  /\ tail \in Nat \ {0}
  /\ sys \in {"read_head", "install", "run", "overrun"} \cup Panics

InOp(p) == pc[p] \in {"op", "log_write", "append"}
InCommit(p) == pc[p] \in {"write_log", "install", "committed"}

\* Log space that the system calls in progress may still ask for.
Reserved ==
  {r \in Procs \X (1 .. MAXOPBLOCKS) : InOp(r[1]) /\ r[2] > Cardinality(used[r[1]])}

\* What begin_op waits for is enough: the blocks logged and those the system
\* calls in progress may still log never exceed LOGSIZE.
ReservationHolds == Len(lh) + Cardinality(Reserved) <= LOGSIZE

\* Of the panics of the log only "too big a transaction" can be reached.
NoProtocolPanic == sys \notin Panics \ {"panic_too_big"}

\* Whoever sleeps in begin_op has somebody to wake it: a commit in progress or
\* a system call whose end_op is still to come.
SleepersAreWoken ==
  Running /\ (\E p \in Procs : pc[p] = "sleep") =>
    \E q \in Procs : InOp(q) \/ InCommit(q)

\* A commit ends, unless the machine crashes or the log was overrun.
CommitEnds == committing = 1 ~> (committing = 0 \/ ~Running)

\* log_write asserts that a transaction fits into the log; what is written to
\* the log never goes beyond it.
TransactionFits == sys # "overrun"

-----------------------------------------------------------------------------
\* What recovery would make of the disk: the home locations with the committed
\* blocks of the log on top.
Recovered ==
  [b \in Blocks |->
     IF \E k \in 1 .. Len(dhead) : dhead[k] = b
       THEN dlog[CHOOSE k \in 1 .. Len(dhead) : dhead[k] = b]
       ELSE disk[b]]

D == INSTANCE AtomicDisk WITH
  durable <- Recovered,
  current <- IF sys \in {"read_head", "install"} THEN Recovered ELSE cache,
  active  <- {p \in Procs : InOp(p)}

\* The log implements the atomic disk, up to a step that overruns the log: that
\* step writes to a home location what was not committed.
ImplementsAtomicDisk == D!Init /\ [][D!Next \/ sys' = "overrun"]_<<D!diskVars>>
=============================================================================
