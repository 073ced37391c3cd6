------------------------------ MODULE LogProofs -----------------------------
(***************************************************************************)
(* Proofs about the log, for every set of processes and blocks and every      *)
(* value of MAXOPBLOCKS, LOGSIZE and nlog: its bookkeeping first, then what   *)
(* the blocks hold and that the log implements the atomic disk.               *)
(***************************************************************************)
EXTENDS Log, FiniteSetTheorems, TLAPS

\* The processes inside a system call.
Ops == {p \in Procs : InOp(p)}

\* log.outstanding counts them.
InvOutstanding == outstanding = Cardinality(Ops)

\* One process commits at a time, while no system call is active.
InvCommit ==
  /\ committing = 1 <=> \E p \in Procs : InCommit(p)
  /\ \A p, q \in Procs : InCommit(p) /\ InCommit(q) => p = q
  /\ committing = 1 => Ops = {}

\* Before recovery has ended nobody is in the kernel.
InvBoot ==
  sys \in {"read_head", "install"} =>
    committing = 0 /\ \A p \in Procs : pc[p] = "idle"

\* Without system calls and commits the log is empty.
InvQuiet ==
  /\ Running /\ Ops = {} /\ committing = 0 => lh = << >>
  /\ \A p \in Procs : pc[p] = "committed" => lh = << >>

\* A system call has logged what it has used, and has reserved what it holds.
InvUsed ==
  \A p \in Ops :
    /\ \A b \in used[p] : Logged(b)
    /\ IsFiniteSet(used[p])
    /\ pc[p] \in {"log_write", "append"} =>
         /\ held[p] \in Blocks
         /\ held[p] \in used[p] \/ Cardinality(used[p]) < MAXOPBLOCKS

\* The log on disk was once the log in memory.
InvSpace ==
  /\ ReservationHolds
  /\ Len(dhead) <= LOGSIZE

\* The bookkeeping of the log: everything but the types.
Book ==
  /\ InvOutstanding /\ InvCommit /\ InvBoot /\ InvQuiet /\ InvUsed /\ InvSpace
  /\ NoProtocolPanic /\ SleepersAreWoken

LogInv == LogTypeOK /\ Book

-----------------------------------------------------------------------------
\* Processes are finitely many, so what they reserve can be counted.
LEMMA ReservedFinite ==
  /\ IsFiniteSet(Ops) /\ Cardinality(Ops) \in Nat
  /\ IsFiniteSet(Reserved) /\ Cardinality(Reserved) \in Nat
<1>1. IsFiniteSet(Ops)
  BY LogAssumption, FS_Subset DEF Ops
<1>2. IsFiniteSet(Procs \X (1 .. MAXOPBLOCKS))
  <2>1. IsFiniteSet(1 .. MAXOPBLOCKS)
    BY LogAssumption, FS_Interval
  <2> QED
    BY <2>1, LogAssumption, FS_Product
<1>3. Reserved \subseteq Procs \X (1 .. MAXOPBLOCKS)
  BY DEF Reserved
<1>4. IsFiniteSet(Reserved)
  BY <1>2, <1>3, FS_Subset
<1> QED
  BY <1>1, <1>4, FS_CardinalityType

\* A transaction never has more blocks than LOGSIZE.
LEMMA LogLength ==
  ASSUME LogTypeOK, InvSpace
  PROVE  Len(lh) \in Nat /\ Len(lh) <= LOGSIZE
<1>1. Len(lh) \in Nat
  BY DEF LogTypeOK
<1> QED
  BY <1>1, ReservedFinite, LogAssumption DEF InvSpace, ReservationHolds

\* The blocks of the log are blocks, and what the log holds are contents.
LEMMA LogEntries ==
  ASSUME LogTypeOK, InvSpace, tail <= Len(lh)
  PROVE  lh[tail] \in Blocks /\ dlog[tail] \in Values /\ cache[lh[tail]] \in Values
<1>1. tail \in 1 .. Len(lh) /\ tail \in 1 .. LOGSIZE
  BY LogLength, LogAssumption DEF LogTypeOK
<1> QED
  BY <1>1 DEF LogTypeOK

\* The type invariant, from the bookkeeping.
LEMMA LogTypeStep ==
  ASSUME LogInv, [LogNext]_logVars
  PROVE  LogTypeOK'
<1> USE DEF LogInv
<1>1. CASE read_head
  BY <1>1 DEF read_head, diskState, LogTypeOK
<1>2. CASE RecoverBlock
  BY <1>2, LogEntries DEF RecoverBlock, InstallBlock, Book, LogTypeOK
<1>3. CASE RecoverClear
  BY <1>3 DEF RecoverClear, LogTypeOK
<1>4. ASSUME NEW p \in Procs, begin_op(p)
      PROVE  LogTypeOK'
  <2>1. pc' \in [Procs -> {"idle", "sleep", "woken", "op", "log_write", "append",
                            "write_log", "install", "committed"}]
    BY <1>4 DEF begin_op, LogTypeOK
  <2>2. outstanding' \in Nat
    BY <1>4 DEF begin_op, LogTypeOK
  <2>3. used' \in [Procs -> SUBSET Blocks]
    BY <1>4 DEF begin_op, LogTypeOK
  <2> QED
    BY <1>4, <2>1, <2>2, <2>3 DEF begin_op, diskState, LogTypeOK
<1>5. ASSUME NEW p \in Procs, log_write_test(p)
      PROVE  LogTypeOK'
  BY <1>5 DEF log_write_test, diskState, LogTypeOK, Panics
<1>6. ASSUME NEW p \in Procs, log_write(p)
      PROVE  LogTypeOK'
  <2>1. held[p] \in Blocks
    BY <1>6 DEF log_write, Book, InvUsed, Ops, InOp
  <2>2. lh' \in Seq(Blocks)
    BY <1>6, <2>1 DEF log_write, LogTypeOK
  <2> QED
    BY <1>6, <2>1, <2>2 DEF log_write, diskState, LogTypeOK
<1>7. ASSUME NEW p \in Procs, end_op(p)
      PROVE  LogTypeOK'
  <2>1. outstanding' \in Nat
    <3>1. p \in Ops
      BY <1>7 DEF end_op, Ops, InOp
    <3>2. outstanding # 0
      BY <3>1, ReservedFinite, FS_EmptySet DEF Book, InvOutstanding
    <3> QED
      BY <1>7, <3>2 DEF end_op, LogTypeOK
  <2>2. pc' \in [Procs -> {"idle", "sleep", "woken", "op", "log_write", "append",
                            "write_log", "install", "committed"}]
    BY <1>7 DEF end_op, LogTypeOK, Woken
  <2>3. committing' \in {0, 1}
    BY <1>7 DEF end_op, LogTypeOK
  <2>4. sys' \in {"read_head", "install", "run", "overrun"} \cup Panics
    BY <1>7 DEF end_op, LogTypeOK, Panics
  <2> QED
    <3>1. used' \in [Procs -> SUBSET Blocks]
      BY <1>7 DEF end_op, LogTypeOK
    <3>2. /\ tail' = 1
          /\ UNCHANGED <<disk, dlog, dhead, cache, dirty, lh, held>>
      BY <1>7 DEF end_op, diskState
    <3> QED
      BY <2>1, <2>2, <2>3, <2>4, <3>1, <3>2 DEF LogTypeOK
<1>8. ASSUME NEW p \in Procs, Commits(p)
      PROVE  LogTypeOK'
  <2>1. CASE write_log(p)
    <3>1. /\ cache[lh[tail]] \in Values /\ tail' \in Nat \ {0}
          /\ dlog' = [dlog EXCEPT ![tail] = cache[lh[tail]]]
          /\ UNCHANGED <<disk, dhead, cache, dirty, lh, outstanding, committing, pc,
                         held, used, sys>>
      BY <2>1, LogEntries DEF write_log, LogTypeOK, Book
    <3>2. dlog' \in [1 .. LOGSIZE -> Values]
      BY <3>1 DEF LogTypeOK
    <3> QED
      BY <3>1, <3>2 DEF LogTypeOK
  <2>2. CASE write_log_overrun(p)
    BY <2>2, LogEntries, LogAssumption DEF write_log_overrun, memory, LogTypeOK, Book
  <2>3. CASE write_head(p)
    BY <2>3 DEF write_head, LogTypeOK
  <2>4. CASE install_trans(p)
    BY <2>4, LogEntries DEF install_trans, InstallBlock, LogTypeOK, Book
  <2>5. CASE erase(p)
    BY <2>5 DEF erase, LogTypeOK
  <2>6. CASE end_commit(p)
    BY <2>6 DEF end_commit, diskState, LogTypeOK, Woken
  <2> QED
    BY <1>8, <2>1, <2>2, <2>3, <2>4, <2>5, <2>6 DEF Commits
<1>9. ASSUME NEW p \in Procs, NEW b \in Blocks, NEW v \in Values, modify(p, b, v)
      PROVE  LogTypeOK'
  BY <1>9 DEF modify, diskState, LogTypeOK
<1>10. ASSUME NEW b \in Blocks, evict(b)
       PROVE  LogTypeOK'
  BY <1>10 DEF evict, diskState, LogTypeOK
<1>11. CASE Crash
  BY <1>11 DEF Crash, Reset, diskState, LogTypeOK
<1>12. CASE UNCHANGED logVars
  BY <1>12 DEF logVars, diskState, memory, LogTypeOK
<1> QED
  BY <1>1, <1>2, <1>3, <1>4, <1>5, <1>6, <1>7, <1>8, <1>9, <1>10, <1>11, <1>12
  DEF LogNext, Recovers

-----------------------------------------------------------------------------
\* A step that neither enters nor leaves a system call or a commit, and logs
\* nothing, leaves the counts as they were.
LEMMA Neutral ==
  ASSUME Book, lh' = lh, outstanding' = outstanding, committing' = committing,
         used' = used,
         \A q \in Procs : InOp(q)' = InOp(q) /\ InCommit(q)' = InCommit(q)
  PROVE  Ops' = Ops /\ Reserved' = Reserved
         /\ InvOutstanding' /\ InvCommit' /\ ReservationHolds'
<1>1. Ops' = Ops
  BY DEF Ops
<1>2. Reserved' = Reserved
  BY DEF Reserved
<1>3. InvOutstanding'
  BY <1>1 DEF Book, InvOutstanding
<1>4. InvCommit'
  BY <1>1 DEF Book, InvCommit
<1>5. ReservationHolds'
  BY <1>2 DEF Book, InvSpace, ReservationHolds
<1> QED
  BY <1>1, <1>2, <1>3, <1>4, <1>5

\* Recovery, eviction and the copying of blocks leave the bookkeeping alone.
LEMMA SameBook ==
  ASSUME Book,
         UNCHANGED <<dhead, lh, outstanding, committing, pc, held, used, sys>>
  PROVE  Book'
<1>1. Ops' = Ops /\ InvOutstanding' /\ InvCommit' /\ ReservationHolds'
  BY Neutral DEF InOp, InCommit
<1>2. InvBoot'
  BY DEF Book, InvBoot
<1>3. InvQuiet'
  BY <1>1 DEF Book, InvQuiet, Running
<1>4. InvUsed'
  BY <1>1 DEF Book, InvUsed, Logged
<1>5. InvSpace'
  BY <1>1 DEF Book, InvSpace
<1>6. NoProtocolPanic'
  BY DEF Book, NoProtocolPanic
<1>7. SleepersAreWoken'
  BY DEF Book, SleepersAreWoken, Running, InOp, InCommit
<1> QED
  BY <1>1, <1>2, <1>3, <1>4, <1>5, <1>6, <1>7 DEF Book

\* With nobody inside a system call nothing is reserved.
LEMMA NothingReserved ==
  Ops = {} => Reserved = {} /\ Cardinality(Reserved) = 0
<1>1. Ops = {} => Reserved = {}
  BY DEF Ops, Reserved
<1> QED
  BY <1>1, FS_EmptySet

\* A committer excludes system calls; an active system call excludes commits.
LEMMA CommitExcludesOps ==
  ASSUME Book, NEW p \in Procs
  PROVE  /\ InCommit(p) => committing = 1 /\ Ops = {}
         /\ InOp(p) => committing # 1 /\ outstanding \in Nat /\ outstanding >= 1
<1>1. InCommit(p) => committing = 1 /\ Ops = {}
  BY DEF Book, InvCommit
<1>2. ASSUME InOp(p) PROVE committing # 1 /\ outstanding \in Nat /\ outstanding >= 1
  <2>1. p \in Ops
    BY <1>2 DEF Ops
  <2>2. Cardinality(Ops) # 0 /\ Cardinality(Ops) \in Nat
    BY <2>1, ReservedFinite, FS_EmptySet
  <2> QED
    BY <2>1, <2>2 DEF Book, InvCommit, InvOutstanding
<1> QED
  BY <1>1, <1>2

\* The same after a step.
LEMMA NothingReservedNext ==
  Ops' = {} => Reserved' = {} /\ Cardinality(Reserved)' = 0
<1>1. Ops' = {} => Reserved' = {}
  BY DEF Ops, Reserved
<1> QED
  BY <1>1, FS_EmptySet

\* When nobody is in the kernel, only the length of the log matters.
LEMMA IdleBook ==
  ASSUME \A q \in Procs : pc'[q] = "idle",
         outstanding' = 0, committing' = 0,
         sys' \in {"read_head", "install", "run"}, sys' = "run" => lh' = << >>,
         Len(lh)' \in Nat, Len(lh)' <= LOGSIZE, Len(dhead)' <= LOGSIZE
  PROVE  Book'
<1>1. Ops' = {} /\ \A q \in Procs : ~InCommit(q)'
  BY DEF Ops, InOp, InCommit
<1>2. InvOutstanding'
  BY <1>1, FS_EmptySet DEF InvOutstanding
<1>3. InvCommit' /\ InvBoot'
  BY <1>1 DEF InvCommit, InvBoot
<1>4. InvQuiet'
  BY DEF InvQuiet, Running
<1>5. InvUsed'
  BY <1>1 DEF InvUsed
<1>6. InvSpace'
  BY <1>1, NothingReservedNext, LogAssumption DEF InvSpace, ReservationHolds
<1>7. NoProtocolPanic'
  BY DEF NoProtocolPanic, Panics
<1>8. SleepersAreWoken'
  BY DEF SleepersAreWoken
<1> QED
  BY <1>2, <1>3, <1>4, <1>5, <1>6, <1>7, <1>8 DEF Book

\* Recovery and crashes.
LEMMA BootBook ==
  ASSUME LogInv, Recovers \/ Crash
  PROVE  Book'
<1> USE DEF LogInv
<1>1. ASSUME sys \in {"read_head", "install"}
      PROVE  (\A q \in Procs : pc[q] = "idle") /\ outstanding = 0 /\ committing = 0
  <2>1. committing = 0 /\ \A q \in Procs : pc[q] = "idle"
    BY <1>1 DEF Book, InvBoot
  <2>2. Ops = {}
    BY <2>1 DEF Ops, InOp
  <2> QED
    BY <2>1, <2>2, FS_EmptySet DEF Book, InvOutstanding
<1>2. CASE read_head
  <2>1. Len(dhead) \in Nat /\ Len(dhead) <= LOGSIZE
    BY DEF LogTypeOK, Book, InvSpace
  <2>2. /\ lh' = dhead /\ dhead' = dhead /\ sys' = "install"
        /\ UNCHANGED <<pc, outstanding, committing>>
    BY <1>2 DEF read_head, diskState
  <2>3. \A q \in Procs : pc'[q] = "idle"
    BY <1>1, <1>2, <2>2 DEF read_head
  <2>4. outstanding' = 0 /\ committing' = 0
    BY <1>1, <1>2, <2>2 DEF read_head
  <2>5. Len(lh)' \in Nat /\ Len(lh)' <= LOGSIZE /\ Len(dhead)' <= LOGSIZE
    BY <2>1, <2>2
  <2>6. sys' \in {"read_head", "install", "run"} /\ (sys' = "run" => lh' = << >>)
    BY <2>2
  <2> QED
    BY <2>3, <2>4, <2>5, <2>6, IdleBook
<1>3. CASE RecoverBlock
  BY <1>3, SameBook DEF RecoverBlock
<1>4. CASE RecoverClear
  <2>1. /\ lh' = << >> /\ dhead' = << >> /\ sys' = "run"
        /\ UNCHANGED <<pc, outstanding, committing>>
    BY <1>4 DEF RecoverClear
  <2>2. Len(<< >>) = 0
    OBVIOUS
  <2> QED
    BY <1>1, <1>4, <2>1, <2>2, IdleBook, LogAssumption DEF RecoverClear
<1>5. CASE Crash
  <2>1. /\ \A q \in Procs : pc'[q] = "idle"
        /\ outstanding' = 0 /\ committing' = 0 /\ lh' = << >>
        /\ sys' = "read_head" /\ dhead' = dhead
    BY <1>5 DEF Crash, Reset, diskState
  <2>2. Len(<< >>) = 0 /\ Len(dhead) <= LOGSIZE
    BY DEF Book, InvSpace
  <2> QED
    BY <2>1, <2>2, IdleBook, LogAssumption
<1> QED
  BY <1>2, <1>3, <1>4, <1>5 DEF Recovers

\* The steps of a system call between begin_op and end_op that do not log.
LEMMA CallBook ==
  ASSUME LogInv, NEW p \in Procs,
         log_write_test(p) \/ \E b \in Blocks, v \in Values : modify(p, b, v)
  PROVE  Book'
<1> USE DEF LogInv
<1>1. InOp(p) /\ InOp(p)' /\ ~InCommit(p) /\ ~InCommit(p)'
  BY DEF log_write_test, modify, InOp, InCommit, LogTypeOK
<1>2. \A q \in Procs \ {p} : pc'[q] = pc[q] /\ held'[q] = held[q]
  BY DEF log_write_test, modify, LogTypeOK
<1>3. UNCHANGED <<lh, dhead, outstanding, committing, used>>
  BY DEF log_write_test, modify, diskState
<1>4. /\ Ops' = Ops /\ InvOutstanding' /\ InvCommit' /\ ReservationHolds'
  BY <1>1, <1>2, <1>3, Neutral DEF InOp, InCommit
<1>5. Running /\ sys' \in {"run", "panic_too_big"}
  BY <1>1, CommitExcludesOps DEF log_write_test, modify, Running
<1>6. InvBoot'
  BY <1>5 DEF InvBoot
<1>7. InvQuiet'
  <2>1. p \in Ops'
    BY <1>1, <1>4 DEF Ops
  <2>2. \A q \in Procs : pc'[q] = "committed" => pc[q] = "committed"
    BY <1>1, <1>2 DEF InCommit
  <2> QED
    BY <2>1, <2>2, <1>3 DEF Book, InvQuiet
<1>8. InvUsed'
  <2>1. \A q \in Ops \ {p} : pc'[q] = pc[q] /\ held'[q] = held[q]
    BY <1>2 DEF Ops
  <2>2. pc'[p] \in {"log_write", "append"} =>
          /\ held'[p] \in Blocks
          /\ held'[p] \in used[p] \/ Cardinality(used[p]) < MAXOPBLOCKS
    <3>1. CASE log_write_test(p)
      BY <3>1, <1>1 DEF log_write_test, Book, InvUsed, Ops
    <3>2. ASSUME NEW b \in Blocks, NEW v \in Values, modify(p, b, v)
          PROVE  /\ held'[p] \in Blocks
                 /\ held'[p] \in used[p] \/ Cardinality(used[p]) < MAXOPBLOCKS
      BY <3>2 DEF modify, LogTypeOK
    <3> QED
      BY <3>1, <3>2
  <2> QED
    BY <1>3, <1>4, <2>1, <2>2 DEF Book, InvUsed, Logged
<1>9. InvSpace'
  BY <1>3, <1>4 DEF Book, InvSpace
<1>10. NoProtocolPanic'
  BY <1>5 DEF NoProtocolPanic, Panics
<1>11. SleepersAreWoken'
  BY <1>1 DEF SleepersAreWoken
<1> QED
  BY <1>4, <1>6, <1>7, <1>8, <1>9, <1>10, <1>11 DEF Book

\* begin_op: what it waits for makes room for MAXOPBLOCKS more blocks.
LEMMA BeginBook ==
  ASSUME LogInv, NEW p \in Procs, begin_op(p)
  PROVE  Book'
<1> USE DEF LogInv
<1>1. /\ Running /\ pc[p] \in {"idle", "woken"}
      /\ UNCHANGED <<dhead, lh, committing, held, sys>>
  BY DEF begin_op, diskState
<1>2. ~InOp(p) /\ ~InCommit(p)
  BY <1>1 DEF InOp, InCommit
<1>3. \A q \in Procs \ {p} : pc'[q] = pc[q]
  BY DEF begin_op, LogTypeOK
<1>4. InvBoot' /\ NoProtocolPanic'
  BY <1>1 DEF Book, InvBoot, NoProtocolPanic, Panics, Running
<1>5. CASE MustWait
  <2>1. pc'[p] = "sleep" /\ UNCHANGED <<outstanding, used>>
    BY <1>5 DEF begin_op, LogTypeOK
  <2>2. \A q \in Procs : InOp(q)' = InOp(q) /\ InCommit(q)' = InCommit(q)
    BY <1>2, <1>3, <2>1 DEF InOp, InCommit
  <2>3. Ops' = Ops /\ InvOutstanding' /\ InvCommit' /\ ReservationHolds'
    BY <1>1, <2>1, <2>2, Neutral
  <2>4. InvQuiet'
    <3>1. \A q \in Procs : pc'[q] = "committed" => pc[q] = "committed"
      BY <1>3, <2>1
    <3> QED
      BY <1>1, <2>3, <3>1 DEF Book, InvQuiet, Running
  <2>5. InvUsed'
    <3>1. \A q \in Ops : pc'[q] = pc[q]
      BY <1>2, <1>3 DEF Ops
    <3> QED
      BY <1>1, <2>1, <2>3, <3>1 DEF Book, InvUsed, Logged
  <2>6. InvSpace'
    BY <1>1, <2>3 DEF Book, InvSpace
  <2>7. SleepersAreWoken'
    <3>1. SUFFICES \E q \in Procs : InOp(q) \/ InCommit(q)
      BY <2>2 DEF SleepersAreWoken
    <3>2. CASE committing = 1
      BY <3>2 DEF Book, InvCommit
    <3>3. CASE committing # 1 /\ Ops = {}
      <4>1. outstanding = 0 /\ lh = << >>
        BY <3>3, <1>1, FS_EmptySet DEF Book, InvOutstanding, InvQuiet, LogTypeOK
      <4>2. Len(lh) = 0
        BY <4>1
      <4>3. (outstanding + 1) * MAXOPBLOCKS = MAXOPBLOCKS
        BY <4>1, LogAssumption
      <4> QED
        BY <1>5, <3>3, <4>2, <4>3, LogAssumption DEF MustWait
    <3> QED
      BY <3>2, <3>3 DEF Ops
  <2> QED
    BY <1>4, <2>3, <2>4, <2>5, <2>6, <2>7 DEF Book
<1>6. CASE ~MustWait
  <2>1. /\ pc'[p] = "op" /\ outstanding' = outstanding + 1
        /\ used' = [used EXCEPT ![p] = {}]
    BY <1>6 DEF begin_op, LogTypeOK
  <2>2. /\ \A q \in Procs : InCommit(q)' = InCommit(q)
        /\ InOp(p)' /\ \A q \in Procs \ {p} : InOp(q)' = InOp(q)
    BY <1>2, <1>3, <2>1 DEF InOp, InCommit
  <2>3. Ops' = Ops \cup {p} /\ p \notin Ops
    BY <1>2, <2>2 DEF Ops
  <2>4. IsFiniteSet(Ops') /\ Cardinality(Ops') = Cardinality(Ops) + 1
    BY <2>3, ReservedFinite, FS_AddElement
  <2>5. InvOutstanding'
    BY <2>1, <2>4 DEF Book, InvOutstanding
  <2>6. committing = 0
    BY <1>6 DEF MustWait, LogTypeOK
  <2>7. InvCommit'
    BY <1>1, <2>2, <2>6 DEF Book, InvCommit
  <2>8. InvQuiet'
    <3>1. \A q \in Procs : pc'[q] = "committed" => pc[q] = "committed"
      BY <1>3, <2>1
    <3> QED
      BY <1>1, <2>3, <3>1 DEF Book, InvQuiet
  <2>9. InvUsed'
    <3>1. /\ used'[p] = {} /\ \A q \in Procs \ {p} : used'[q] = used[q]
      BY <2>1 DEF LogTypeOK
    <3>2. \A q \in Ops : q # p /\ pc'[q] = pc[q] /\ used'[q] = used[q]
      BY <1>3, <2>3, <3>1 DEF Ops
    <3>3. \A b : Logged(b)' = Logged(b)
      BY <1>1 DEF Logged
    <3>4. \A q \in Ops :
            /\ \A b \in used'[q] : Logged(b)'
            /\ IsFiniteSet(used'[q])
            /\ pc'[q] \in {"log_write", "append"} =>
                 /\ held'[q] \in Blocks
                 /\ held'[q] \in used'[q] \/ Cardinality(used'[q]) < MAXOPBLOCKS
      BY <1>1, <3>2, <3>3 DEF Book, InvUsed
    <3>5. IsFiniteSet(used'[p]) /\ pc'[p] = "op" /\ used'[p] = {}
      BY <2>1, <3>1, FS_EmptySet
    <3> QED
      BY <2>3, <3>4, <3>5 DEF InvUsed
  <2>10. ReservationHolds'
    <3>1. Reserved' \subseteq Ops' \X (1 .. MAXOPBLOCKS)
      BY DEF Reserved, Ops
    <3>2. IsFiniteSet(1 .. MAXOPBLOCKS) /\ Cardinality(1 .. MAXOPBLOCKS) = MAXOPBLOCKS
      BY LogAssumption, FS_Interval
    <3>3. /\ IsFiniteSet(Ops' \X (1 .. MAXOPBLOCKS))
          /\ Cardinality(Ops' \X (1 .. MAXOPBLOCKS)) = Cardinality(Ops') * MAXOPBLOCKS
      BY <2>4, <3>2, FS_Product
    <3>4. /\ IsFiniteSet(Reserved') /\ Cardinality(Reserved') \in Nat
          /\ Cardinality(Reserved') <= Cardinality(Ops') * MAXOPBLOCKS
      BY <3>1, <3>3, FS_Subset, FS_CardinalityType
    <3>5. Cardinality(Ops') = outstanding + 1
      BY <2>1, <2>5 DEF InvOutstanding
    <3>6. Len(lh) + (outstanding + 1) * MAXOPBLOCKS <= LOGSIZE
      <4> DEFINE room == (outstanding + 1) * MAXOPBLOCKS
      <4>1. room \in Nat
        BY LogAssumption DEF LogTypeOK
      <4>2. ~(Len(lh) + room > LOGSIZE)
        BY <1>6 DEF MustWait
      <4>3. Len(lh) \in Nat
        BY DEF LogTypeOK
      <4> HIDE DEF room
      <4>4. Len(lh) + room <= LOGSIZE
        BY <4>1, <4>2, <4>3, LogAssumption
      <4> QED
        BY <4>4 DEF room
    <3>7. (outstanding + 1) * MAXOPBLOCKS \in Nat /\ Len(lh) \in Nat
      BY LogAssumption DEF LogTypeOK
    <3> QED
      BY <1>1, <3>4, <3>5, <3>6, <3>7, LogAssumption DEF ReservationHolds
  <2>11. InvSpace'
    BY <1>1, <2>10 DEF Book, InvSpace
  <2>12. SleepersAreWoken'
    BY <2>2 DEF SleepersAreWoken
  <2> QED
    BY <1>4, <2>5, <2>7, <2>8, <2>9, <2>11, <2>12 DEF Book
<1> QED
  BY <1>5, <1>6

\* log_write: a block that the call has not logged before takes one of the
\* places that the call has reserved.
LEMMA LogWriteBook ==
  ASSUME LogInv, NEW p \in Procs, log_write(p)
  PROVE  Book'
<1> USE DEF LogInv
<1>1. /\ Running /\ pc[p] = "append" /\ pc'[p] = "op"
      /\ lh' = IF Logged(held[p]) THEN lh ELSE Append(lh, held[p])
      /\ used' = [used EXCEPT ![p] = used[p] \cup {held[p]}]
      /\ UNCHANGED <<dhead, outstanding, committing, sys>>
  BY DEF log_write, diskState, LogTypeOK
<1>2. \A q \in Procs \ {p} :
        pc'[q] = pc[q] /\ held'[q] = held[q] /\ used'[q] = used[q]
  BY DEF log_write, LogTypeOK
<1>3. used'[p] = used[p] \cup {held[p]}
  BY <1>1 DEF LogTypeOK
<1>4. /\ InOp(p) /\ InOp(p)' /\ ~InCommit(p) /\ ~InCommit(p)'
      /\ \A q \in Procs \ {p} : InOp(q)' = InOp(q) /\ InCommit(q)' = InCommit(q)
  BY <1>1, <1>2 DEF InOp, InCommit
<1>5. p \in Ops /\ Ops' = Ops
  BY <1>4 DEF Ops
<1>6. InvOutstanding' /\ InvCommit'
  BY <1>1, <1>4, <1>5 DEF Book, InvOutstanding, InvCommit
<1>7. InvBoot' /\ NoProtocolPanic'
  BY <1>1 DEF Book, InvBoot, NoProtocolPanic, Running
<1>8. SleepersAreWoken'
  BY <1>4 DEF SleepersAreWoken
<1>9. committing # 1 /\ held[p] \in Blocks /\ lh \in Seq(Blocks)
  BY <1>1, <1>4, <1>5, CommitExcludesOps DEF Book, InvUsed, LogTypeOK
<1>10. InvQuiet'
  <2>1. \A q \in Procs : pc'[q] # "committed"
    BY <1>4, <1>9 DEF Book, InvCommit, InCommit
  <2> QED
    BY <1>5, <2>1 DEF InvQuiet
<1>11. /\ Len(lh') \in Nat /\ Len(lh') <= Len(lh) + 1
       /\ Logged(held[p]) => lh' = lh
       /\ \A b : Logged(b) \/ b = held[p] => Logged(b)'
  <2>1. CASE Logged(held[p])
    <3>1. lh' = lh /\ Len(lh) \in Nat
      BY <1>1, <1>9, <2>1
    <3>2. \A b : Logged(b)' = Logged(b)
      BY <3>1 DEF Logged
    <3> QED
      BY <2>1, <3>1, <3>2
  <2>2. CASE ~Logged(held[p])
    <3>1. /\ lh' = Append(lh, held[p]) /\ Len(lh') = Len(lh) + 1
          /\ lh'[Len(lh) + 1] = held[p]
          /\ \A k \in 1 .. Len(lh) : lh'[k] = lh[k]
      BY <1>1, <1>9, <2>2
    <3>2. Len(lh) \in Nat
      BY <1>9
    <3>3. \A b : b = held[p] => Logged(b)'
      BY <3>1, <3>2 DEF Logged
    <3>4. \A b : Logged(b) => Logged(b)'
      BY <3>1, <3>2 DEF Logged
    <3> QED
      BY <2>2, <3>1, <3>2, <3>3, <3>4
  <2> QED
    BY <2>1, <2>2
<1>12. InvUsed'
  <2>1. /\ \A b \in used'[p] : Logged(b)'
        /\ IsFiniteSet(used'[p]) /\ pc'[p] = "op"
    <3>1. IsFiniteSet(used[p]) /\ \A b \in used[p] : Logged(b)
      BY <1>5 DEF Book, InvUsed
    <3>2. IsFiniteSet(used'[p])
      BY <1>3, <3>1, FS_AddElement
    <3> QED
      BY <1>1, <1>3, <1>11, <3>1, <3>2
  <2>2. \A q \in Ops \ {p} :
          /\ \A b \in used'[q] : Logged(b)'
          /\ IsFiniteSet(used'[q])
          /\ pc'[q] \in {"log_write", "append"} =>
               /\ held'[q] \in Blocks
               /\ held'[q] \in used'[q] \/ Cardinality(used'[q]) < MAXOPBLOCKS
    <3>1. \A q \in Ops \ {p} :
            pc'[q] = pc[q] /\ held'[q] = held[q] /\ used'[q] = used[q]
      BY <1>2 DEF Ops
    <3> QED
      BY <3>1, <1>11 DEF Book, InvUsed
  <2> QED
    BY <1>5, <2>1, <2>2 DEF InvUsed
<1>13. ReservationHolds'
  <2> DEFINE n == Cardinality(used[p])
  <2>1. IsFiniteSet(used[p]) /\ n \in Nat
    BY <1>5, FS_CardinalityType DEF Book, InvUsed
  <2>2. Len(lh) \in Nat /\ Len(lh) + Cardinality(Reserved) <= LOGSIZE
    BY <1>9 DEF Book, InvSpace, ReservationHolds
  <2>3. CASE held[p] \in used[p]
    <3>1. lh' = lh /\ used' = used
      BY <1>1, <1>5, <1>11, <2>3 DEF Book, InvUsed, LogTypeOK
    <3>2. Reserved' = Reserved
      BY <1>4, <3>1 DEF Reserved
    <3> QED
      BY <2>2, <3>1, <3>2 DEF ReservationHolds
  <2>4. CASE held[p] \notin used[p]
    <3>1. Cardinality(used'[p]) = n + 1
      BY <1>3, <2>1, <2>4, FS_AddElement
    <3>2. n < MAXOPBLOCKS
      BY <1>1, <1>5, <2>4 DEF Book, InvUsed
    <3> HIDE DEF n
    <3>3. <<p, n + 1>> \in Reserved
      BY <1>4, <2>1, <3>2, LogAssumption DEF Reserved, n
    <3>4. Reserved' \subseteq Reserved \ {<<p, n + 1>>}
      <4>1. SUFFICES ASSUME NEW r \in Reserved'
                     PROVE  r \in Reserved /\ r # <<p, n + 1>>
        OBVIOUS
      <4>2. /\ r \in Procs \X (1 .. MAXOPBLOCKS) /\ InOp(r[1])'
            /\ r[2] > Cardinality(used'[r[1]])
        BY DEF Reserved
      <4>3. r[1] \in Procs /\ r[2] \in 1 .. MAXOPBLOCKS /\ r = <<r[1], r[2]>>
        BY <4>2
      <4>4. CASE r[1] = p
        <5>1. r[2] > n + 1
          BY <4>2, <4>4, <3>1
        <5>2. r[2] > n
          BY <5>1, <2>1, <4>3, LogAssumption
        <5> QED
          BY <1>4, <2>1, <4>2, <4>3, <4>4, <5>1, <5>2, LogAssumption DEF Reserved, n
      <4>5. CASE r[1] # p
        BY <1>2, <1>4, <4>2, <4>3, <4>5 DEF Reserved
      <4> QED
        BY <4>4, <4>5
    <3>5. /\ IsFiniteSet(Reserved \ {<<p, n + 1>>})
          /\ Cardinality(Reserved \ {<<p, n + 1>>}) = Cardinality(Reserved) - 1
      BY <3>3, ReservedFinite, FS_RemoveElement
    <3>6. /\ Cardinality(Reserved') \in Nat
          /\ Cardinality(Reserved') <= Cardinality(Reserved) - 1
      BY <3>4, <3>5, FS_Subset, FS_CardinalityType
    <3> QED
      BY <1>11, <2>2, <3>6, ReservedFinite, LogAssumption DEF ReservationHolds
  <2> QED
    BY <2>3, <2>4
<1>14. InvSpace'
  BY <1>1, <1>13 DEF Book, InvSpace
<1> QED
  BY <1>6, <1>7, <1>8, <1>10, <1>12, <1>14 DEF Book

\* end_op: the last system call starts the commit, any other wakes the
\* sleepers and leaves somebody behind that will.
LEMMA EndBook ==
  ASSUME LogInv, NEW p \in Procs, end_op(p)
  PROVE  Book'
<1> USE DEF LogInv
<1>1. /\ Running /\ pc[p] = "op" /\ outstanding' = outstanding - 1
      /\ UNCHANGED <<dhead, lh, held>>
  BY DEF end_op, diskState
<1>2. InOp(p) /\ p \in Ops
  BY <1>1 DEF InOp, Ops
<1>3. committing = 0 /\ outstanding \in Nat /\ outstanding >= 1 /\ sys' = sys
  BY <1>2, CommitExcludesOps DEF end_op, LogTypeOK
<1>4. ~InOp(p)' /\ \A q \in Procs \ {p} : InOp(q)' = InOp(q)
  BY DEF end_op, Woken, InOp, LogTypeOK
<1>5. Ops' = Ops \ {p} /\ Cardinality(Ops') = Cardinality(Ops) - 1
  <2>1. Ops' = Ops \ {p}
    BY <1>2, <1>4 DEF Ops
  <2> QED
    BY <1>2, <2>1, ReservedFinite, FS_RemoveElement
<1>6. InvOutstanding'
  BY <1>1, <1>5 DEF Book, InvOutstanding
<1>7. InvBoot' /\ NoProtocolPanic'
  BY <1>1, <1>3 DEF Book, InvBoot, NoProtocolPanic, Running
<1>8. \A q \in Procs \ {p} : used'[q] = used[q]
  BY DEF end_op, LogTypeOK
<1>9. InvUsed'
  <2>1. \A q \in Ops' : q \in Ops /\ q # p /\ pc'[q] = pc[q] /\ used'[q] = used[q]
    <3>1. \A q \in Procs \ {p} : InOp(q) => pc'[q] = pc[q]
      BY DEF end_op, Woken, InOp, LogTypeOK
    <3> QED
      BY <1>5, <1>8, <3>1 DEF Ops
  <2> QED
    BY <1>1, <2>1 DEF Book, InvUsed, Logged
<1>10. InvSpace'
  <2>1. Reserved' \subseteq Reserved
    BY <1>4, <1>8 DEF Reserved
  <2>2. Cardinality(Reserved') \in Nat /\ Cardinality(Reserved') <= Cardinality(Reserved)
    BY <2>1, ReservedFinite, FS_Subset, FS_CardinalityType
  <2>3. Len(lh) \in Nat
    BY DEF LogTypeOK
  <2> QED
    BY <1>1, <2>2, <2>3, ReservedFinite, LogAssumption
    DEF Book, InvSpace, ReservationHolds
<1>11. \A q \in Procs : ~InCommit(q)
  BY <1>3 DEF Book, InvCommit
<1>12. CASE outstanding = 1
  <2>1. /\ committing' = 1
        /\ pc' = [pc EXCEPT ![p] = IF lh = << >> THEN "committed" ELSE "write_log"]
    BY <1>12 DEF end_op
  <2>2. Ops' = {}
    BY <1>3, <1>5, <1>12, ReservedFinite, FS_EmptySet, FS_Subset DEF Book, InvOutstanding
  <2>3. InCommit(p)' /\ \A q \in Procs \ {p} : ~InCommit(q)'
    BY <1>11, <2>1 DEF InCommit, LogTypeOK
  <2>4. InvCommit'
    BY <2>1, <2>2, <2>3 DEF InvCommit
  <2>5. InvQuiet'
    <3>1. \A q \in Procs : pc'[q] = "committed" => q = p /\ lh = << >>
      BY <2>1, <2>3 DEF InCommit, LogTypeOK
    <3> QED
      BY <1>1, <2>1, <3>1 DEF InvQuiet
  <2>6. SleepersAreWoken'
    BY <2>3 DEF SleepersAreWoken
  <2> QED
    BY <1>6, <1>7, <1>9, <1>10, <2>4, <2>5, <2>6 DEF Book
<1>13. CASE outstanding # 1
  <2>1. committing' = 0 /\ pc' = Woken([pc EXCEPT ![p] = "idle"])
    BY <1>3, <1>13 DEF end_op
  <2>2. /\ \A q \in Procs : ~InCommit(q)' /\ pc'[q] # "sleep" /\ pc'[q] # "committed"
    BY <1>11, <2>1 DEF InCommit, Woken, LogTypeOK
  <2>3. Ops' # {}
    <3>1. Cardinality(Ops') # 0
      BY <1>3, <1>5, <1>13 DEF Book, InvOutstanding
    <3> QED
      BY <3>1, FS_EmptySet
  <2>4. InvCommit'
    BY <2>1, <2>2 DEF InvCommit
  <2>5. InvQuiet'
    BY <2>2, <2>3 DEF InvQuiet
  <2>6. SleepersAreWoken'
    BY <2>2 DEF SleepersAreWoken
  <2> QED
    BY <1>6, <1>7, <1>9, <1>10, <2>4, <2>5, <2>6 DEF Book
<1> QED
  BY <1>12, <1>13

\* The steps of a commit.
LEMMA CommitBook ==
  ASSUME LogInv, NEW p \in Procs, Commits(p)
  PROVE  Book'
<1> USE DEF LogInv
<1>1. Running /\ InCommit(p) /\ UNCHANGED <<outstanding, held, used>>
  BY DEF Commits, write_log, write_log_overrun, write_head, install_trans, erase,
         end_commit, InCommit, memory
<1>2. committing = 1 /\ Ops = {} /\ \A q \in Procs \ {p} : ~InCommit(q)
  BY <1>1, CommitExcludesOps DEF Book, InvCommit
<1>3. Ops' = {}
  <2>1. \A q \in Procs : pc'[q] \in {"op", "log_write", "append"} => pc'[q] = pc[q]
    BY DEF Commits, write_log, write_log_overrun, write_head, install_trans, erase,
           end_commit, memory, Woken, LogTypeOK
  <2> QED
    BY <1>2, <2>1 DEF Ops, InOp
<1>4. InvOutstanding'
  BY <1>1, <1>2, <1>3 DEF Book, InvOutstanding
<1>5. InvUsed'
  BY <1>3 DEF InvUsed
<1>6. Len(lh) \in Nat /\ Len(lh) <= LOGSIZE
  BY LogLength DEF Book
<1>7. CASE write_log(p) \/ install_trans(p)
  BY <1>7, SameBook DEF write_log, install_trans
<1>8. CASE write_log_overrun(p) \/ write_head(p)
  <2>1. /\ UNCHANGED <<lh, committing>> /\ dhead' \in {dhead, lh}
        /\ sys' \in {"run", "overrun"}
        /\ pc'[p] \in {"write_log", "install"}
        /\ \A q \in Procs \ {p} : pc'[q] = pc[q]
    BY <1>8 DEF write_log_overrun, write_head, memory, Running, LogTypeOK
  <2>2. InCommit(p)' /\ \A q \in Procs \ {p} : ~InCommit(q)'
    BY <1>2, <2>1 DEF InCommit
  <2>3. InvCommit'
    BY <1>2, <1>3, <2>1, <2>2 DEF InvCommit
  <2>4. InvQuiet'
    BY <1>2, <2>1, <2>2 DEF InvQuiet, InCommit
  <2>5. InvSpace'
    <3>1. Len(dhead') <= LOGSIZE
      BY <1>6, <2>1 DEF Book, InvSpace
    <3>2. Len(lh') + Cardinality(Reserved)' <= LOGSIZE
      BY <1>3, <1>6, <2>1, NothingReservedNext, LogAssumption
    <3> QED
      BY <3>1, <3>2 DEF InvSpace, ReservationHolds
  <2>6. InvBoot' /\ NoProtocolPanic'
    BY <2>1 DEF InvBoot, NoProtocolPanic, Panics
  <2>7. SleepersAreWoken'
    BY <2>2 DEF SleepersAreWoken
  <2> QED
    BY <1>4, <1>5, <2>3, <2>4, <2>5, <2>6, <2>7 DEF Book
<1>9. CASE erase(p)
  <2>1. /\ lh' = << >> /\ dhead' = << >> /\ UNCHANGED <<committing, sys>>
        /\ pc'[p] = "committed" /\ \A q \in Procs \ {p} : pc'[q] = pc[q]
    BY <1>9 DEF erase, LogTypeOK
  <2>2. InCommit(p)' /\ \A q \in Procs \ {p} : ~InCommit(q)'
    BY <1>2, <2>1 DEF InCommit
  <2>3. InvCommit'
    BY <1>2, <1>3, <2>1, <2>2 DEF InvCommit
  <2>4. InvQuiet'
    BY <2>1 DEF InvQuiet
  <2>5. InvSpace'
    <3>1. Len(<< >>) = 0
      OBVIOUS
    <3> QED
      BY <1>3, <2>1, <3>1, NothingReservedNext, LogAssumption
      DEF InvSpace, ReservationHolds
  <2>6. InvBoot' /\ NoProtocolPanic'
    BY <1>1, <2>1 DEF InvBoot, NoProtocolPanic, Panics, Running
  <2>7. SleepersAreWoken'
    BY <2>2 DEF SleepersAreWoken
  <2> QED
    BY <1>4, <1>5, <2>3, <2>4, <2>5, <2>6, <2>7 DEF Book
<1>10. CASE end_commit(p)
  <2>1. /\ committing' = 0 /\ pc' = Woken([pc EXCEPT ![p] = "idle"])
        /\ UNCHANGED <<dhead, lh, sys>> /\ lh = << >>
    BY <1>10 DEF end_commit, diskState, Book, InvQuiet
  <2>2. \A q \in Procs : ~InCommit(q)' /\ pc'[q] # "sleep"
    BY <1>2, <2>1 DEF InCommit, Woken, LogTypeOK
  <2>3. InvCommit'
    BY <2>1, <2>2 DEF InvCommit
  <2>4. InvQuiet'
    BY <2>1 DEF InvQuiet
  <2>5. InvSpace'
    <3>1. Len(dhead') <= LOGSIZE
      BY <2>1 DEF Book, InvSpace
    <3>2. Len(lh') + Cardinality(Reserved)' <= LOGSIZE
      BY <1>3, <1>6, <2>1, NothingReservedNext, LogAssumption
    <3> QED
      BY <3>1, <3>2 DEF InvSpace, ReservationHolds
  <2>6. InvBoot' /\ NoProtocolPanic'
    BY <1>1, <2>1 DEF InvBoot, NoProtocolPanic, Panics, Running
  <2>7. SleepersAreWoken'
    BY <2>2 DEF SleepersAreWoken
  <2> QED
    BY <1>4, <1>5, <2>3, <2>4, <2>5, <2>6, <2>7 DEF Book
<1> QED
  BY <1>7, <1>8, <1>9, <1>10 DEF Commits

\* Every step keeps the bookkeeping.
LEMMA BookStep ==
  ASSUME LogInv, [LogNext]_logVars
  PROVE  Book'
<1> USE DEF LogInv
<1>1. CASE Recovers \/ Crash
  BY <1>1, BootBook
<1>2. ASSUME NEW p \in Procs, begin_op(p)
      PROVE  Book'
  BY <1>2, BeginBook
<1>3. ASSUME NEW p \in Procs,
             log_write_test(p) \/ \E b \in Blocks, v \in Values : modify(p, b, v)
      PROVE  Book'
  BY <1>3, CallBook
<1>4. ASSUME NEW p \in Procs, log_write(p)
      PROVE  Book'
  BY <1>4, LogWriteBook
<1>5. ASSUME NEW p \in Procs, end_op(p)
      PROVE  Book'
  BY <1>5, EndBook
<1>6. ASSUME NEW p \in Procs, Commits(p)
      PROVE  Book'
  BY <1>6, CommitBook
<1>7. ASSUME NEW b \in Blocks, evict(b)
      PROVE  Book'
  BY <1>7, SameBook DEF evict, diskState
<1>8. CASE UNCHANGED logVars
  BY <1>8, SameBook DEF logVars, diskState, memory
<1> QED
  BY <1>1, <1>2, <1>3, <1>4, <1>5, <1>6, <1>7, <1>8 DEF LogNext

\* The machine boots with the disk that mkfs made and an empty log.
LEMMA LogInvInit == LogInit => LogInv
<1> SUFFICES ASSUME LogInit PROVE LogInv
  OBVIOUS
<1>1. LogTypeOK
  BY LogAssumption DEF LogInit, LogTypeOK
<1>2. Ops = {} /\ \A q \in Procs : ~InCommit(q)
  BY DEF LogInit, Ops, InOp, InCommit
<1>3. InvOutstanding
  BY <1>2, FS_EmptySet DEF LogInit, InvOutstanding
<1>4. InvCommit /\ InvBoot /\ InvQuiet /\ InvUsed
  BY <1>2 DEF LogInit, InvCommit, InvBoot, InvQuiet, InvUsed, Running
<1>5. InvSpace
  <2>1. lh = << >> /\ dhead = << >> /\ Len(<< >>) = 0
    BY DEF LogInit
  <2> QED
    BY <1>2, <2>1, NothingReserved, LogAssumption DEF InvSpace, ReservationHolds
<1>6. NoProtocolPanic /\ SleepersAreWoken
  BY DEF LogInit, NoProtocolPanic, Panics, SleepersAreWoken, Running
<1> QED
  BY <1>1, <1>3, <1>4, <1>5, <1>6 DEF LogInv, Book

\* The inductive invariant holds in every reachable state.
THEOREM LogCorrect == LogSpec => []LogInv
<1>1. LogInv /\ [LogNext]_logVars => LogInv'
  BY LogTypeStep, BookStep DEF LogInv
<1> QED
  BY LogInvInit, <1>1, PTL DEF LogSpec

-----------------------------------------------------------------------------
\* The state of the log, in memory and on disk, has its types, whatever crashes.
THEOREM LogTyped == LogSpec => []LogTypeOK
BY LogCorrect, PTL DEF LogInv

\* begin_op reserves enough: the blocks already logged and the blocks the
\* active system calls may still log never exceed LOGSIZE.
THEOREM ReservationSuffices == LogSpec => []ReservationHolds
<1>1. LogInv => ReservationHolds
  BY DEF LogInv, Book, InvSpace
<1> QED
  BY LogCorrect, <1>1, PTL

\* end_op never finds a commit in progress, and log_write is never called
\* outside of a transaction: two of the three panics of log.c are dead code.
THEOREM ProtocolPanicsUnreachable == LogSpec => []NoProtocolPanic
<1>1. LogInv => NoProtocolPanic
  BY DEF LogInv, Book
<1> QED
  BY LogCorrect, <1>1, PTL

\* No wakeup is lost: whoever sleeps in begin_op while the system runs has an
\* active system call or a commit in progress to wake it.
THEOREM NoLostWakeup == LogSpec => []SleepersAreWoken
<1>1. LogInv => SleepersAreWoken
  BY DEF LogInv, Book
<1> QED
  BY LogCorrect, <1>1, PTL

\* With one more block for the header, as "max data blocks" of param.h has it,
\* a commit would never write beyond the log.
THEOREM RoomyLogNeverOverruns ==
  ASSUME nlog > LOGSIZE
  PROVE  LogSpec => []TransactionFits
<1>1. LogInit => TransactionFits
  BY DEF LogInit, TransactionFits
<1>2. LogInv /\ TransactionFits /\ [LogNext]_logVars => TransactionFits'
  <2> SUFFICES ASSUME LogInv, TransactionFits, [LogNext]_logVars
               PROVE  TransactionFits'
    OBVIOUS
  <2>1. ASSUME NEW p \in Procs, write_log_overrun(p)
        PROVE  FALSE
    <3>1. tail \in Nat /\ Len(lh) \in Nat /\ Len(lh) <= LOGSIZE
      BY LogLength DEF LogInv, LogTypeOK, Book
    <3> QED
      BY <2>1, <3>1, LogAssumption DEF write_log_overrun
  <2> QED
    BY <2>1 DEF LogNext, Recovers, Commits, read_head, RecoverBlock, RecoverClear,
       begin_op, log_write_test, log_write, end_op, write_log, write_head,
       install_trans, erase, end_commit, modify, evict, Crash, logVars, TransactionFits
<1> QED
  BY <1>1, <1>2, LogCorrect, PTL DEF LogSpec
-----------------------------------------------------------------------------
(***************************************************************************)
(* The log implements the atomic disk.  To the bookkeeping above the         *)
(* argument adds what the blocks hold: where a block of the cache may differ  *)
(* from the disk, how much of the log is written or installed, and that no   *)
(* block is logged twice.                                                    *)
(***************************************************************************)
\* No block is in the log twice.
Distinct(s) == \A j, k \in 1 .. Len(s) : s[j] = s[k] => j = k

\* The blocks that install_trans has been through are home.
Installed == \A k \in 1 .. Len(lh) : k < tail => disk[lh[k]] = dlog[k]

\* The log has each block once, and a process holds a buffer only between
\* bread and brelse.
InvOnce ==
  /\ Distinct(lh) /\ Distinct(dhead)
  /\ \A p \in Procs : pc[p] \notin {"log_write", "append"} => held[p] = NoBlock

\* During recovery the cache holds what is on the disk.
InvRecovery ==
  /\ sys \in {"read_head", "install"} => cache = disk /\ dirty = {}
  /\ sys = "install" => dhead = lh /\ Installed

\* What the cache has and the disk has not is pinned by B_DIRTY or by a lock,
\* and a dirty block is in the log.
InvPinned ==
  Running =>
    /\ \A b \in dirty : Logged(b)
    /\ \A b \in Blocks : b \in dirty \/ Holders(b) # {} \/ cache[b] = disk[b]

\* The header is on disk only while a commit installs; until then the log on
\* disk fills with the blocks of the cache, from then on it holds them all.
InvCommitData ==
  Running =>
    /\ (\A p \in Procs : pc[p] # "install") => dhead = << >>
    /\ \A p \in Procs : pc[p] = "write_log" =>
         \A k \in 1 .. Len(lh) : k < tail => dlog[k] = cache[lh[k]]
    /\ \A p \in Procs : pc[p] = "install" =>
         /\ dhead = lh /\ Installed
         /\ \A k \in 1 .. Len(lh) :
              dlog[k] = cache[lh[k]] /\ (k < tail => lh[k] \notin dirty)

DataInv == InvOnce /\ InvRecovery /\ InvPinned /\ InvCommitData

-----------------------------------------------------------------------------
\* The disk dk with the blocks of a log with header hd and data lg on top.
Overlay(hd, lg, dk) ==
  [b \in Blocks |->
     IF \E k \in 1 .. Len(hd) : hd[k] = b
       THEN lg[CHOOSE k \in 1 .. Len(hd) : hd[k] = b]
       ELSE dk[b]]

\* Recovered is such an overlay, before and after a step.
LEMMA RecoveredIs ==
  /\ Recovered = Overlay(dhead, dlog, disk)
  /\ Recovered' = Overlay(dhead', dlog', disk')
BY DEF Recovered, Overlay

\* Where a block is in the log once, recovery takes it from there.
LEMMA OverlayAt ==
  ASSUME NEW hd \in Seq(Blocks), NEW lg, NEW dk, Distinct(hd), NEW k \in 1 .. Len(hd)
  PROVE  Overlay(hd, lg, dk)[hd[k]] = lg[k]
<1>1. hd[k] \in Blocks
  OBVIOUS
<1>2. (CHOOSE j \in 1 .. Len(hd) : hd[j] = hd[k]) = k
  BY DEF Distinct
<1> QED
  BY <1>1, <1>2 DEF Overlay

\* Any other block recovery leaves alone.
LEMMA OverlayElse ==
  ASSUME NEW hd, NEW lg, NEW dk, NEW b \in Blocks, ~ \E k \in 1 .. Len(hd) : hd[k] = b
  PROVE  Overlay(hd, lg, dk)[b] = dk[b]
BY DEF Overlay

\* An overlay is a disk with the given contents.
LEMMA OverlayIs ==
  ASSUME NEW hd \in Seq(Blocks), NEW lg, NEW dk, Distinct(hd),
         NEW c \in [Blocks -> Values],
         \A k \in 1 .. Len(hd) : lg[k] = c[hd[k]],
         \A b \in Blocks : (~ \E k \in 1 .. Len(hd) : hd[k] = b) => c[b] = dk[b]
  PROVE  Overlay(hd, lg, dk) = c
<1>1. ASSUME NEW b \in Blocks PROVE Overlay(hd, lg, dk)[b] = c[b]
  <2>1. CASE \E k \in 1 .. Len(hd) : hd[k] = b
    <3>1. PICK k \in 1 .. Len(hd) : hd[k] = b
      BY <2>1
    <3> QED
      BY <3>1, OverlayAt
  <2>2. CASE ~ \E k \in 1 .. Len(hd) : hd[k] = b
    BY <2>2, OverlayElse
  <2> QED
    BY <2>1, <2>2
<1>2. /\ Overlay(hd, lg, dk) = [b \in Blocks |-> Overlay(hd, lg, dk)[b]]
      /\ c = [b \in Blocks |-> c[b]]
  BY DEF Overlay
<1> QED
  BY <1>1, <1>2

\* Without a committed transaction there is nothing to recover.
LEMMA OverlayEmpty ==
  ASSUME NEW lg, NEW dk \in [Blocks -> Values]
  PROVE  Overlay(<< >>, lg, dk) = dk
<1>1. << >> \in Seq(Blocks) /\ Len(<< >>) = 0 /\ 1 .. 0 = {}
  OBVIOUS
<1>2. Distinct(<< >>)
  BY <1>1 DEF Distinct
<1> QED
  BY <1>1, <1>2, OverlayIs

\* Copying a block of the log home changes nothing that recovery will show.
LEMMA OverlayInstall ==
  ASSUME NEW hd \in Seq(Blocks), NEW lg, NEW dk \in [Blocks -> Values],
         NEW k \in 1 .. Len(hd)
  PROVE  Overlay(hd, lg, [dk EXCEPT ![hd[k]] = lg[k]]) = Overlay(hd, lg, dk)
<1>1. \A b \in Blocks : (~ \E j \in 1 .. Len(hd) : hd[j] = b) =>
         [dk EXCEPT ![hd[k]] = lg[k]][b] = dk[b]
  OBVIOUS
<1> QED
  BY <1>1 DEF Overlay

-----------------------------------------------------------------------------
\* A step that moves no data and neither starts, speeds up nor ends the copying
\* of blocks keeps what is known of the data.
LEMMA SameData ==
  ASSUME DataInv, UNCHANGED <<disk, dlog, dhead, cache, dirty, lh, held, tail>>,
         sys' \notin {"read_head", "install"}, sys' = "run" => Running,
         \A q \in Procs : pc'[q] \in {"write_log", "install"} => pc'[q] = pc[q],
         \A q \in Procs : pc[q] = "install" => pc'[q] = "install",
         \A q \in Procs : pc[q] \in {"log_write", "append"} =>
                            pc'[q] \in {"log_write", "append"}
  PROVE  DataInv'
<1>1. InvOnce'
  BY DEF DataInv, InvOnce
<1>2. InvRecovery'
  BY DEF InvRecovery
<1>3. InvPinned'
  BY DEF DataInv, InvPinned, Running, Logged, Holders
<1>4. InvCommitData'
  BY DEF DataInv, InvCommitData, Running, Installed
<1> QED
  BY <1>1, <1>2, <1>3, <1>4 DEF DataInv

\* install_trans has one more block home.
LEMMA OneMoreInstalled ==
  ASSUME LogTypeOK, Distinct(lh), Installed, tail <= Len(lh),
         disk' = [disk EXCEPT ![lh[tail]] = dlog[tail]], tail' = tail + 1,
         UNCHANGED <<dlog, lh>>
  PROVE  Installed'
<1>1. tail \in 1 .. Len(lh) /\ \A k \in 1 .. Len(lh) : lh[k] \in Blocks
  BY DEF LogTypeOK
<1>2. SUFFICES ASSUME NEW k \in 1 .. Len(lh), k < tail + 1
               PROVE  disk'[lh[k]] = dlog[k]
  BY DEF Installed
<1>3. k = tail \/ (k < tail /\ lh[k] # lh[tail])
  BY <1>1, <1>2 DEF Distinct
<1> QED
  BY <1>1, <1>3 DEF Installed, LogTypeOK

\* Recovery and crashes.
LEMMA BootData ==
  ASSUME LogInv, DataInv, Recovers \/ Crash
  PROVE  DataInv'
<1>1. CASE read_head
  <2>1. /\ lh' = dhead /\ tail' = 1 /\ sys = "read_head" /\ sys' = "install"
        /\ UNCHANGED <<disk, dlog, dhead, cache, dirty, pc, held>>
    BY <1>1 DEF read_head, diskState
  <2>2. InvOnce'
    BY <2>1 DEF DataInv, InvOnce
  <2>3. InvRecovery'
    BY <2>1 DEF DataInv, InvRecovery, Installed
  <2> QED
    BY <2>1, <2>2, <2>3 DEF DataInv, InvPinned, InvCommitData, Running
<1>2. CASE RecoverBlock
  <2>1. /\ sys = "install" /\ tail <= Len(lh) /\ cache = disk /\ dirty = {} /\ Installed
        /\ Distinct(lh)
        /\ disk' = [disk EXCEPT ![lh[tail]] = dlog[tail]]
        /\ cache' = [cache EXCEPT ![lh[tail]] = dlog[tail]]
        /\ dirty' = dirty \ {lh[tail]} /\ tail' = tail + 1
        /\ UNCHANGED <<dlog, dhead, lh, pc, held, sys>>
    BY <1>2 DEF RecoverBlock, InstallBlock, DataInv, InvRecovery, InvOnce
  <2>2. InvOnce'
    BY <2>1 DEF DataInv, InvOnce
  <2>3. Installed'
    BY <2>1, OneMoreInstalled DEF LogInv
  <2>4. InvRecovery'
    BY <2>1, <2>3 DEF DataInv, InvRecovery
  <2> QED
    BY <2>1, <2>2, <2>4 DEF DataInv, InvPinned, InvCommitData, Running
<1>3. CASE RecoverClear
  <2>1. /\ sys = "install" /\ cache = disk /\ dirty = {}
        /\ \A q \in Procs : pc[q] = "idle"
        /\ lh' = << >> /\ dhead' = << >> /\ sys' = "run"
        /\ UNCHANGED <<disk, dlog, cache, dirty, pc, held>>
    BY <1>3 DEF RecoverClear, DataInv, InvRecovery, LogInv, Book, InvBoot
  <2>2. InvOnce'
    <3>1. Len(<< >>) = 0
      OBVIOUS
    <3> QED
      BY <2>1, <3>1 DEF DataInv, InvOnce, Distinct
  <2>3. InvPinned' /\ InvCommitData'
    BY <2>1 DEF InvPinned, InvCommitData
  <2> QED
    BY <2>1, <2>2, <2>3 DEF DataInv, InvRecovery
<1>4. CASE Crash
  <2>1. /\ lh' = << >> /\ dirty' = {} /\ cache' = disk /\ sys' = "read_head"
        /\ held' = [p \in Procs |-> NoBlock]
        /\ UNCHANGED <<disk, dhead>>
    BY <1>4 DEF Crash, Reset, diskState
  <2>2. InvOnce'
    <3>1. Len(<< >>) = 0
      OBVIOUS
    <3> QED
      BY <2>1, <3>1 DEF DataInv, InvOnce, Distinct
  <2> QED
    BY <2>1, <2>2 DEF DataInv, InvRecovery, InvPinned, InvCommitData, Running
<1> QED
  BY <1>1, <1>2, <1>3, <1>4 DEF Recovers

\* While a system call is active nobody commits, and the header is clear.
LEMMA NobodyCopies ==
  ASSUME LogInv, DataInv, Running, NEW p \in Procs, InOp(p)
  PROVE  /\ \A q \in Procs : pc[q] \notin {"write_log", "install", "committed"}
         /\ dhead = << >>
<1>1. committing # 1
  BY CommitExcludesOps DEF LogInv
<1>2. \A q \in Procs : ~InCommit(q)
  BY <1>1 DEF LogInv, Book, InvCommit
<1> QED
  BY <1>2 DEF InCommit, DataInv, InvCommitData

\* Changing a buffer under its lock.
LEMMA ModifyData ==
  ASSUME LogInv, DataInv, NEW p \in Procs, NEW b \in Blocks, NEW v \in Values,
         modify(p, b, v)
  PROVE  DataInv'
<1>1. /\ Running /\ pc[p] = "op" /\ Holders(b) = {}
      /\ cache' = [cache EXCEPT ![b] = v]
      /\ held' = [held EXCEPT ![p] = b]
      /\ pc' = [pc EXCEPT ![p] = "log_write"]
      /\ UNCHANGED <<disk, dlog, dhead, dirty, lh, tail, sys>>
  BY DEF modify, diskState
<1>2. held[p] = NoBlock
  BY <1>1 DEF DataInv, InvOnce
<1>3. /\ dhead = << >>
      /\ \A q \in Procs : pc'[q] \notin {"write_log", "install"}
  BY <1>1, NobodyCopies DEF InOp, LogInv, LogTypeOK
<1>4. InvOnce'
  BY <1>1 DEF DataInv, InvOnce, LogInv, LogTypeOK
<1>5. InvRecovery'
  BY <1>1 DEF InvRecovery, Running
<1>6. InvPinned'
  <2>1. \A c \in dirty' : Logged(c)'
    BY <1>1 DEF DataInv, InvPinned, Logged
  <2>2. ASSUME NEW c \in Blocks, c \notin dirty', cache'[c] # disk'[c]
        PROVE  Holders(c)' # {}
    <3>1. CASE c = b
      <4>1. held'[p] = c
        BY <1>1, <3>1 DEF LogInv, LogTypeOK
      <4> QED
        BY <4>1 DEF Holders
    <3>2. CASE c # b
      <4>1. cache[c] # disk[c] /\ c \notin dirty
        BY <1>1, <2>2, <3>2 DEF LogInv, LogTypeOK
      <4>2. PICK q \in Procs : held[q] = c
        BY <1>1, <4>1 DEF DataInv, InvPinned, Holders
      <4>3. q # p
        BY <1>2, <4>2, LogAssumption
      <4>4. held'[q] = c
        BY <1>1, <4>2, <4>3 DEF LogInv, LogTypeOK
      <4> QED
        BY <4>4 DEF Holders
    <3> QED
      BY <3>1, <3>2
  <2> QED
    BY <2>1, <2>2 DEF InvPinned
<1>7. InvCommitData'
  BY <1>1, <1>3 DEF InvCommitData
<1> QED
  BY <1>4, <1>5, <1>6, <1>7 DEF DataInv

\* log_write absorbs a block that is logged already.
LEMMA LogWriteData ==
  ASSUME LogInv, DataInv, NEW p \in Procs, log_write(p)
  PROVE  DataInv'
<1>1. /\ Running /\ pc[p] = "append"
      /\ lh' = IF Logged(held[p]) THEN lh ELSE Append(lh, held[p])
      /\ dirty' = dirty \cup {held[p]}
      /\ held' = [held EXCEPT ![p] = NoBlock]
      /\ pc' = [pc EXCEPT ![p] = "op"]
      /\ UNCHANGED <<disk, dlog, dhead, cache, tail, sys>>
  BY DEF log_write, diskState
<1>2. /\ dhead = << >>
      /\ \A q \in Procs : pc'[q] \notin {"write_log", "install"}
  BY <1>1, NobodyCopies DEF InOp, LogInv, LogTypeOK
<1>3. held[p] \in Blocks /\ lh \in Seq(Blocks)
  BY <1>1 DEF LogInv, Book, InvUsed, Ops, InOp, LogTypeOK
<1> PICK h \in Blocks : h = held[p]
  BY <1>3
<1>4. /\ Distinct(lh')
      /\ Logged(h)' /\ \A c \in Blocks : Logged(c) => Logged(c)'
  <2>1. CASE Logged(h)
    <3>1. lh' = lh
      BY <1>1, <2>1
    <3> QED
      BY <2>1, <3>1 DEF DataInv, InvOnce, Logged
  <2>2. CASE ~Logged(h)
    <3>1. /\ Len(lh') = Len(lh) + 1 /\ Len(lh) \in Nat
          /\ lh'[Len(lh) + 1] = held[p]
          /\ \A k \in 1 .. Len(lh) : lh'[k] = lh[k] /\ lh[k] # held[p]
      BY <1>1, <1>3, <2>2 DEF Logged
    <3>2. Distinct(lh')
      <4>1. SUFFICES ASSUME NEW j \in 1 .. Len(lh) + 1, NEW k \in 1 .. Len(lh) + 1,
                            lh'[j] = lh'[k]
                     PROVE  j = k
        BY <3>1 DEF Distinct
      <4>2. CASE j \in 1 .. Len(lh) /\ k \in 1 .. Len(lh)
        BY <3>1, <4>1, <4>2 DEF DataInv, InvOnce, Distinct
      <4>3. CASE j = Len(lh) + 1 \/ k = Len(lh) + 1
        BY <3>1, <4>1, <4>3
      <4> QED
        BY <3>1, <4>2, <4>3
    <3>3. Logged(h)'
      <4>1. Len(lh) + 1 \in 1 .. Len(lh')
        BY <3>1
      <4> QED
        BY <1>1, <3>1, <4>1 DEF Logged
    <3> QED
      BY <3>1, <3>2, <3>3 DEF Logged
  <2> QED
    BY <2>1, <2>2
<1>5. InvOnce'
  BY <1>1, <1>4 DEF DataInv, InvOnce, LogInv, LogTypeOK
<1>6. InvRecovery'
  BY <1>1 DEF InvRecovery, Running
<1>7. InvPinned'
  <2>1. \A c \in dirty' : Logged(c)'
    BY <1>1, <1>4 DEF DataInv, InvPinned, LogInv, LogTypeOK
  <2>2. ASSUME NEW c \in Blocks, c \notin dirty', cache'[c] # disk'[c]
        PROVE  Holders(c)' # {}
    <3>1. cache[c] # disk[c] /\ c \notin dirty /\ c # held[p]
      BY <1>1, <2>2
    <3>2. PICK q \in Procs : held[q] = c
      BY <1>1, <3>1 DEF DataInv, InvPinned, Holders
    <3>3. held'[q] = c
      BY <1>1, <3>1, <3>2 DEF LogInv, LogTypeOK
    <3> QED
      BY <3>3 DEF Holders
  <2> QED
    BY <2>1, <2>2 DEF InvPinned
<1>8. InvCommitData'
  BY <1>1, <1>2 DEF InvCommitData
<1> QED
  BY <1>5, <1>6, <1>7, <1>8 DEF DataInv

\* bget recycles only a buffer that the disk agrees with.
LEMMA EvictIsNothing ==
  ASSUME LogInv, DataInv, NEW b \in Blocks, evict(b)
  PROVE  UNCHANGED logVars
<1>1. cache[b] = disk[b]
  BY DEF evict, DataInv, InvPinned
<1>2. cache' = cache
  BY <1>1 DEF evict, LogInv, LogTypeOK
<1> QED
  BY <1>2 DEF evict, logVars, diskState, memory

\* The last end_op starts to write the log.
LEMMA EndData ==
  ASSUME LogInv, DataInv, NEW p \in Procs, end_op(p)
  PROVE  DataInv'
<1>1. /\ Running /\ pc[p] = "op" /\ tail' = 1
      /\ UNCHANGED <<disk, dlog, dhead, cache, dirty, lh, held>>
  BY DEF end_op, diskState
<1>2. /\ dhead = << >> /\ \A q \in Procs : pc[q] # "install"
      /\ committing # 1
  BY <1>1, NobodyCopies, CommitExcludesOps DEF InOp, LogInv
<1>3. sys' = sys
  BY <1>2 DEF end_op
<1>4. \A q \in Procs : /\ pc'[q] # "install"
                       /\ pc[q] \in {"log_write", "append"} => pc'[q] = pc[q]
  BY <1>1, <1>2 DEF end_op, Woken, LogInv, LogTypeOK
<1>5. InvOnce'
  BY <1>1, <1>4 DEF DataInv, InvOnce
<1>6. InvRecovery'
  BY <1>1, <1>3 DEF InvRecovery, Running
<1>7. InvPinned'
  BY <1>1, <1>3 DEF DataInv, InvPinned, Running, Logged, Holders
<1>8. InvCommitData'
  BY <1>1, <1>2, <1>4 DEF InvCommitData
<1> QED
  BY <1>5, <1>6, <1>7, <1>8 DEF DataInv

\* The committer is alone: no other process commits and no buffer is held.
LEMMA CommitterAlone ==
  ASSUME LogInv, DataInv, NEW p \in Procs, InCommit(p)
  PROVE  /\ \A q \in Procs : q = p \/ ~InCommit(q)
         /\ \A b \in Blocks : Holders(b) = {}
<1>1. Ops = {} /\ \A q \in Procs : q = p \/ ~InCommit(q)
  BY CommitExcludesOps DEF LogInv, Book, InvCommit
<1>2. \A q \in Procs : held[q] = NoBlock
  BY <1>1 DEF Ops, InOp, DataInv, InvOnce
<1> QED
  BY <1>1, <1>2, LogAssumption DEF Holders

\* The steps of a commit.
LEMMA CommitData ==
  ASSUME LogInv, DataInv, NEW p \in Procs, Commits(p)
  PROVE  DataInv'
<1>1. Running /\ InCommit(p)
  BY DEF Commits, write_log, write_log_overrun, write_head, install_trans, erase,
         end_commit, InCommit
<1>2. /\ \A q \in Procs : q = p \/ pc[q] \notin {"write_log", "install", "committed"}
      /\ \A b \in Blocks : Holders(b) = {}
  BY <1>1, CommitterAlone DEF InCommit
<1>3. CASE write_log(p)
  <2>1. /\ pc[p] = "write_log" /\ tail <= Len(lh) /\ tail' = tail + 1
        /\ dlog' = [dlog EXCEPT ![tail] = cache[lh[tail]]]
        /\ UNCHANGED <<disk, dhead, cache, dirty, lh, pc, held, sys>>
    BY <1>3 DEF write_log
  <2>2. InvOnce' /\ InvRecovery' /\ InvPinned'
    BY <1>1, <2>1 DEF DataInv, InvOnce, InvRecovery, InvPinned, Running, Logged, Holders
  <2>3. ASSUME NEW k \in 1 .. Len(lh), k < tail + 1
        PROVE  dlog'[k] = cache[lh[k]]
    <3>1. tail \in Nat /\ k \in 1 .. LOGSIZE /\ (k = tail \/ k < tail)
      BY <2>3, LogLength, LogAssumption DEF LogInv, Book, LogTypeOK
    <3> QED
      BY <1>1, <2>1, <3>1 DEF DataInv, InvCommitData, LogInv, LogTypeOK
  <2>4. InvCommitData'
    BY <1>1, <1>2, <2>1, <2>3 DEF DataInv, InvCommitData, Running
  <2> QED
    BY <2>2, <2>4 DEF DataInv
<1>4. CASE write_log_overrun(p)
  <2>1. sys' = "overrun" /\ UNCHANGED <<dhead, lh, pc, held>>
    BY <1>4 DEF write_log_overrun, memory
  <2> QED
    BY <2>1 DEF DataInv, InvOnce, InvRecovery, InvPinned, InvCommitData, Running
<1>5. CASE write_head(p)
  <2>1. /\ pc[p] = "write_log" /\ tail > Len(lh) /\ dhead' = lh /\ tail' = 1
        /\ pc' = [pc EXCEPT ![p] = "install"]
        /\ UNCHANGED <<disk, dlog, cache, dirty, lh, held, sys>>
    BY <1>5 DEF write_head
  <2>2. pc'[p] = "install" /\ \A q \in Procs : q = p \/ pc'[q] = pc[q]
    BY <2>1 DEF LogInv, LogTypeOK
  <2>3. InvOnce'
    BY <2>1, <2>2 DEF DataInv, InvOnce
  <2>4. InvRecovery' /\ InvPinned'
    BY <1>1, <2>1 DEF DataInv, InvRecovery, InvPinned, Running, Logged, Holders
  <2>5. \A k \in 1 .. Len(lh) : k < tail /\ ~(k < 1)
    BY <2>1 DEF LogInv, LogTypeOK
  <2>6. InvCommitData'
    BY <1>1, <1>2, <2>1, <2>2, <2>5 DEF DataInv, InvCommitData, Running, Installed
  <2> QED
    BY <2>3, <2>4, <2>6 DEF DataInv
<1>6. CASE install_trans(p)
  <2>1. /\ pc[p] = "install" /\ tail <= Len(lh)
        /\ disk' = [disk EXCEPT ![lh[tail]] = dlog[tail]]
        /\ cache' = [cache EXCEPT ![lh[tail]] = dlog[tail]]
        /\ dirty' = dirty \ {lh[tail]} /\ tail' = tail + 1
        /\ UNCHANGED <<dlog, dhead, lh, pc, held, sys>>
    BY <1>6 DEF install_trans, InstallBlock
  <2>2. tail \in 1 .. Len(lh) /\ lh[tail] \in Blocks
    BY <2>1 DEF LogInv, LogTypeOK
  <2>3. dhead = lh /\ Installed /\ dlog[tail] = cache[lh[tail]]
    BY <1>1, <2>1, <2>2 DEF DataInv, InvCommitData
  <2>4. cache' = cache
    BY <2>1, <2>3 DEF LogInv, LogTypeOK
  <2>5. InvOnce' /\ InvRecovery'
    BY <1>1, <2>1 DEF DataInv, InvOnce, InvRecovery, Running
  <2>6. InvPinned'
    <3>1. \A c \in dirty' : Logged(c)'
      BY <1>1, <2>1 DEF DataInv, InvPinned, Logged
    <3>2. \A c \in Blocks : c \in dirty' \/ cache'[c] = disk'[c]
      BY <1>1, <1>2, <2>1, <2>2, <2>3, <2>4 DEF DataInv, InvPinned, LogInv, LogTypeOK
    <3> QED
      BY <3>1, <3>2 DEF InvPinned
  <2>7. Installed'
    BY <2>1, <2>3, OneMoreInstalled DEF LogInv, DataInv, InvOnce
  <2>8. ASSUME NEW k \in 1 .. Len(lh)
        PROVE  dlog[k] = cache[lh[k]] /\ (k < tail + 1 => lh[k] \notin dirty')
    <3>1. k < tail + 1 => k = tail \/ k < tail
      BY <2>2
    <3> QED
      BY <1>1, <2>1, <3>1 DEF DataInv, InvCommitData
  <2>9. InvCommitData'
    BY <1>2, <2>1, <2>3, <2>4, <2>7, <2>8 DEF InvCommitData
  <2> QED
    BY <2>5, <2>6, <2>9 DEF DataInv
<1>7. CASE erase(p)
  <2>1. /\ pc[p] = "install" /\ tail > Len(lh) /\ lh' = << >> /\ dhead' = << >>
        /\ pc' = [pc EXCEPT ![p] = "committed"]
        /\ UNCHANGED <<disk, dlog, cache, dirty, held, sys>>
    BY <1>7 DEF erase
  <2>2. pc'[p] = "committed" /\ \A q \in Procs : q = p \/ pc'[q] = pc[q]
    BY <2>1 DEF LogInv, LogTypeOK
  <2>3. \A k \in 1 .. Len(lh) : lh[k] \notin dirty
    BY <1>1, <2>1 DEF DataInv, InvCommitData, LogInv, LogTypeOK
  <2>4. dirty = {}
    BY <1>1, <2>3 DEF DataInv, InvPinned, Logged
  <2>5. InvOnce'
    <3>1. Len(<< >>) = 0
      OBVIOUS
    <3> QED
      BY <2>1, <2>2, <3>1 DEF DataInv, InvOnce, Distinct
  <2>6. InvPinned'
    BY <1>1, <2>1, <2>4 DEF DataInv, InvPinned, Holders
  <2>7. InvRecovery' /\ InvCommitData'
    BY <1>1, <1>2, <2>1, <2>2 DEF InvRecovery, InvCommitData, Running
  <2> QED
    BY <2>5, <2>6, <2>7 DEF DataInv
<1>8. CASE end_commit(p)
  <2>1. /\ pc[p] = "committed" /\ sys' = sys
        /\ UNCHANGED <<disk, dlog, dhead, cache, dirty, lh, held, tail>>
        /\ \A q \in Procs : /\ pc'[q] \in {"write_log", "install"} => pc'[q] = pc[q]
                            /\ pc[q] \in {"install", "log_write", "append"} => pc'[q] = pc[q]
    BY <1>8 DEF end_commit, diskState, Woken, LogInv, LogTypeOK
  <2> QED
    BY <1>1, <2>1, SameData DEF Running
<1> QED
  BY <1>3, <1>4, <1>5, <1>6, <1>7, <1>8 DEF Commits

\* Every step keeps what is known of the data.
LEMMA DataStep ==
  ASSUME LogInv, DataInv, [LogNext]_logVars
  PROVE  DataInv'
<1>1. CASE Recovers \/ Crash
  BY <1>1, BootData
<1>2. ASSUME NEW p \in Procs, begin_op(p) \/ log_write_test(p)
      PROVE  DataInv'
  <2>1. /\ Running /\ sys' \notin {"read_head", "install"}
        /\ UNCHANGED <<disk, dlog, dhead, cache, dirty, lh, held, tail>>
        /\ \A q \in Procs : /\ pc'[q] \in {"write_log", "install"} => pc'[q] = pc[q]
                            /\ pc[q] = "install" => pc'[q] = "install"
                            /\ pc[q] \in {"log_write", "append"} =>
                                 pc'[q] \in {"log_write", "append"}
    BY <1>2 DEF begin_op, log_write_test, diskState, Running, LogInv, LogTypeOK
  <2> QED
    BY <2>1, SameData
<1>3. ASSUME NEW p \in Procs, log_write(p)
      PROVE  DataInv'
  BY <1>3, LogWriteData
<1>4. ASSUME NEW p \in Procs, end_op(p)
      PROVE  DataInv'
  BY <1>4, EndData
<1>5. ASSUME NEW p \in Procs, Commits(p)
      PROVE  DataInv'
  BY <1>5, CommitData
<1>6. ASSUME NEW p \in Procs, NEW b \in Blocks, NEW v \in Values, modify(p, b, v)
      PROVE  DataInv'
  BY <1>6, ModifyData
<1>7. CASE UNCHANGED logVars
  BY <1>7 DEF logVars, diskState, memory, DataInv, InvOnce, InvRecovery, InvPinned,
     InvCommitData, Running, Installed, Logged, Holders
<1>8. ASSUME NEW b \in Blocks, evict(b)
      PROVE  DataInv'
  BY <1>7, <1>8, EvictIsNothing
<1> QED
  BY <1>1, <1>2, <1>3, <1>4, <1>5, <1>6, <1>7, <1>8 DEF LogNext

\* A fresh disk has nothing logged.
LEMMA DataInit == LogInit => DataInv
<1> SUFFICES ASSUME LogInit PROVE DataInv
  OBVIOUS
<1>1. Len(<< >>) = 0
  OBVIOUS
<1> QED
  BY <1>1 DEF LogInit, DataInv, InvOnce, InvRecovery, InvPinned, InvCommitData, Running,
     Distinct

\* Bookkeeping and data together hold in every reachable state: in particular
\* a block whose only up to date copy is in the cache is never recycled.
THEOREM LogDataCorrect == LogSpec => [](LogInv /\ DataInv)
<1>1. LogInit => LogInv /\ DataInv
  BY LogInvInit, DataInit
<1>2. (LogInv /\ DataInv) /\ [LogNext]_logVars => (LogInv /\ DataInv)'
  BY LogTypeStep, BookStep, DataStep DEF LogInv
<1> QED
  BY <1>1, <1>2, PTL DEF LogSpec

-----------------------------------------------------------------------------
\* What system calls see.
Current == IF sys \in {"read_head", "install"} THEN Recovered ELSE cache

\* Nothing that the atomic disk shows has changed.
SameAtomicDisk == Recovered' = Recovered /\ Current' = Current /\ Ops' = Ops

\* The actions of the atomic disk, in terms of the log.
LEMMA AtomicActions ==
  /\ SameAtomicDisk => UNCHANGED D!diskVars
  /\ \A p \in Procs :
       /\ p \notin Ops /\ Ops' = Ops \cup {p} /\ Recovered' = Recovered /\ Current' = Current
            => D!Next
       /\ p \in Ops /\ Ops' = Ops \ {p} /\ Recovered' = Recovered /\ Current' = Current
            => D!Next
       /\ \A b \in Blocks, v \in Values :
            /\ p \in Ops /\ Ops' = Ops /\ Recovered' = Recovered
            /\ Current' = [Current EXCEPT ![b] = v]
            => D!Next
  /\ Ops = {} /\ Ops' = {} /\ Recovered' = Current /\ Current' = Current => D!Next
  /\ Current' = Recovered /\ Ops' = {} /\ Recovered' = Recovered => D!Next
BY DEF SameAtomicDisk, Current, Ops, D!diskVars, D!Next, D!Begin, D!End, D!Write,
   D!Commit, D!Crash

\* Recovery shows at once what it still has to copy; a crash brings it back.
LEMMA BootImplements ==
  ASSUME LogInv, DataInv, Recovers \/ Crash
  PROVE  D!Next \/ UNCHANGED D!diskVars
<1>1. CASE read_head
  <2>1. /\ sys = "read_head" /\ sys' = "install"
        /\ UNCHANGED <<disk, dlog, dhead, pc>>
    BY <1>1 DEF read_head, diskState
  <2>2. SameAtomicDisk
    BY <2>1, RecoveredIs DEF SameAtomicDisk, Current, Ops, InOp
  <2> QED
    BY <2>2, AtomicActions
<1>2. CASE RecoverBlock
  <2>1. /\ sys = "install" /\ tail <= Len(lh) /\ dhead = lh
        /\ disk' = [disk EXCEPT ![lh[tail]] = dlog[tail]]
        /\ UNCHANGED <<dlog, dhead, pc, sys>>
    BY <1>2 DEF RecoverBlock, InstallBlock, DataInv, InvRecovery
  <2>2. tail \in 1 .. Len(lh) /\ lh \in Seq(Blocks) /\ disk \in [Blocks -> Values]
    BY <2>1 DEF LogInv, LogTypeOK
  <2>3. Recovered' = Recovered
    BY <2>1, <2>2, RecoveredIs, OverlayInstall
  <2>4. SameAtomicDisk
    BY <2>1, <2>3 DEF SameAtomicDisk, Current, Ops, InOp
  <2> QED
    BY <2>4, AtomicActions
<1>3. CASE RecoverClear
  <2>1. /\ sys = "install" /\ tail > Len(lh) /\ dhead = lh /\ cache = disk /\ Installed
        /\ Distinct(dhead)
        /\ dhead' = << >> /\ sys' = "run" /\ UNCHANGED <<disk, dlog, cache, pc>>
    BY <1>3 DEF RecoverClear, DataInv, InvRecovery, InvOnce
  <2>2. disk \in [Blocks -> Values] /\ dhead \in Seq(Blocks)
    BY DEF LogInv, LogTypeOK
  <2>3. Recovered' = disk
    BY <2>1, <2>2, RecoveredIs, OverlayEmpty
  <2>4. \A k \in 1 .. Len(dhead) : dlog[k] = disk[dhead[k]]
    BY <2>1, <2>2 DEF Installed, LogInv, LogTypeOK
  <2>5. Recovered = disk
    BY <2>1, <2>2, <2>4, RecoveredIs, OverlayIs
  <2>6. SameAtomicDisk
    BY <2>1, <2>3, <2>5 DEF SameAtomicDisk, Current, Ops, InOp
  <2> QED
    BY <2>6, AtomicActions
<1>4. CASE Crash
  <2>1. /\ sys' = "read_head" /\ pc' = [p \in Procs |-> "idle"]
        /\ UNCHANGED <<disk, dlog, dhead>>
    BY <1>4 DEF Crash, Reset, diskState
  <2>2. Recovered' = Recovered /\ Ops' = {}
    BY <2>1, RecoveredIs DEF Ops, InOp
  <2>3. Current' = Recovered
    BY <2>1, <2>2 DEF Current
  <2> QED
    BY <2>2, <2>3, AtomicActions
<1> QED
  BY <1>1, <1>2, <1>3, <1>4 DEF Recovers

\* The steps of a system call.
LEMMA CallImplements ==
  ASSUME LogInv, DataInv, NEW p \in Procs,
         \/ begin_op(p) \/ log_write_test(p) \/ log_write(p) \/ end_op(p)
         \/ \E b \in Blocks, v \in Values : modify(p, b, v)
  PROVE  D!Next \/ UNCHANGED D!diskVars
<1>1. /\ Running /\ UNCHANGED <<disk, dlog, dhead>>
      /\ sys' \notin {"read_head", "install"}
  BY DEF begin_op, log_write_test, log_write, end_op, modify, diskState, Running
<1>2. Recovered' = Recovered /\ Current = cache /\ Current' = cache'
  BY <1>1, RecoveredIs DEF Current, Running
<1>3. CASE begin_op(p)
  <2>1. /\ cache' = cache /\ pc[p] \in {"idle", "woken"}
        /\ pc'[p] \in {"sleep", "op"} /\ \A q \in Procs \ {p} : pc'[q] = pc[q]
    BY <1>3 DEF begin_op, LogInv, LogTypeOK
  <2>2. p \notin Ops /\ (Ops' = Ops \/ Ops' = Ops \cup {p})
    <3>1. CASE pc'[p] = "sleep"
      BY <2>1, <3>1 DEF Ops, InOp
    <3>2. CASE pc'[p] = "op"
      BY <2>1, <3>2 DEF Ops, InOp
    <3> QED
      BY <2>1, <3>1, <3>2
  <2> QED
    BY <1>2, <2>1, <2>2, AtomicActions DEF SameAtomicDisk
<1>4. CASE log_write_test(p) \/ log_write(p)
  <2>1. /\ cache' = cache
        /\ pc[p] \in {"log_write", "append"} /\ pc'[p] \in {"append", "op"}
        /\ \A q \in Procs \ {p} : pc'[q] = pc[q]
    BY <1>4 DEF log_write_test, log_write, LogInv, LogTypeOK
  <2>2. Ops' = Ops
    BY <2>1 DEF Ops, InOp
  <2> QED
    BY <1>2, <2>1, <2>2, AtomicActions DEF SameAtomicDisk
<1>5. CASE end_op(p)
  <2>1. cache' = cache /\ p \in Ops
    BY <1>5 DEF end_op, Ops, InOp
  <2>2. ~InOp(p)' /\ \A q \in Procs \ {p} : InOp(q)' = InOp(q)
    BY <1>5 DEF end_op, Woken, InOp, LogInv, LogTypeOK
  <2>3. Ops' = Ops \ {p}
    BY <2>1, <2>2 DEF Ops
  <2> QED
    BY <1>2, <2>1, <2>3, AtomicActions
<1>6. ASSUME NEW b \in Blocks, NEW v \in Values, modify(p, b, v)
      PROVE  D!Next
  <2>1. /\ cache' = [cache EXCEPT ![b] = v]
        /\ pc[p] = "op" /\ pc' = [pc EXCEPT ![p] = "log_write"]
    BY <1>6 DEF modify
  <2>2. p \in Ops /\ Ops' = Ops
    BY <2>1 DEF Ops, InOp, LogInv, LogTypeOK
  <2> QED
    BY <1>2, <2>1, <2>2, AtomicActions
<1> QED
  BY <1>3, <1>4, <1>5, <1>6

\* The transaction commits when the header is written, and at no other step;
\* what the other steps copy, recovery would have copied.
LEMMA CommitImplements ==
  ASSUME LogInv, DataInv, NEW p \in Procs, Commits(p)
  PROVE  D!Next \/ sys' = "overrun" \/ UNCHANGED D!diskVars
<1>1. Running /\ InCommit(p)
  BY DEF Commits, write_log, write_log_overrun, write_head, install_trans, erase,
         end_commit, InCommit
<1>2. /\ \A q \in Procs : q = p \/ pc[q] \notin {"write_log", "install", "committed"}
      /\ \A b \in Blocks : Holders(b) = {}
  BY <1>1, CommitterAlone DEF InCommit
<1>3. Ops = {} /\ Ops' = {}
  <2>1. Ops = {}
    BY <1>1, CommitExcludesOps DEF LogInv
  <2>2. \A q \in Procs : pc'[q] \in {"op", "log_write", "append"} => pc'[q] = pc[q]
    BY DEF Commits, write_log, write_log_overrun, write_head, install_trans, erase,
           end_commit, memory, Woken, LogInv, LogTypeOK
  <2> QED
    BY <2>1, <2>2 DEF Ops, InOp
<1>4. /\ disk \in [Blocks -> Values] /\ cache \in [Blocks -> Values]
      /\ lh \in Seq(Blocks) /\ tail \in Nat /\ Len(lh) \in Nat /\ Distinct(lh)
  BY DEF LogInv, LogTypeOK, DataInv, InvOnce
<1>5. CASE write_log(p)
  <2>1. /\ dhead = << >> /\ UNCHANGED <<disk, dhead, cache, sys>>
    BY <1>1, <1>2, <1>5 DEF write_log, DataInv, InvCommitData
  <2>2. Recovered' = Recovered
    BY <1>4, <2>1, RecoveredIs, OverlayEmpty
  <2> QED
    BY <1>3, <2>1, <2>2, AtomicActions DEF SameAtomicDisk, Current
<1>6. CASE write_log_overrun(p)
  BY <1>6 DEF write_log_overrun
<1>7. CASE write_head(p)
  <2>1. /\ pc[p] = "write_log" /\ tail > Len(lh) /\ dhead' = lh
        /\ UNCHANGED <<disk, dlog, cache, sys>>
    BY <1>7 DEF write_head
  <2>2. \A k \in 1 .. Len(lh) : dlog[k] = cache[lh[k]]
    <3>1. \A k \in 1 .. Len(lh) : k < tail
      BY <1>4, <2>1
    <3> QED
      BY <1>1, <2>1, <3>1 DEF DataInv, InvCommitData
  <2>3. \A b \in Blocks : (~ \E k \in 1 .. Len(lh) : lh[k] = b) => cache[b] = disk[b]
    BY <1>1, <1>2 DEF DataInv, InvPinned, Logged
  <2>4. Recovered' = cache
    BY <1>4, <2>1, <2>2, <2>3, RecoveredIs, OverlayIs
  <2>5. Current = cache /\ Current' = cache
    BY <1>1, <2>1 DEF Current, Running
  <2> QED
    BY <1>3, <2>4, <2>5, AtomicActions
<1>8. CASE install_trans(p)
  <2>1. /\ pc[p] = "install" /\ tail <= Len(lh)
        /\ disk' = [disk EXCEPT ![lh[tail]] = dlog[tail]]
        /\ cache' = [cache EXCEPT ![lh[tail]] = dlog[tail]]
        /\ UNCHANGED <<dlog, dhead, sys>>
    BY <1>8 DEF install_trans, InstallBlock
  <2>2. tail \in 1 .. Len(lh)
    BY <1>4, <2>1 DEF LogInv, LogTypeOK
  <2>3. dhead = lh /\ dlog[tail] = cache[lh[tail]]
    BY <1>1, <2>1, <2>2 DEF DataInv, InvCommitData
  <2>4. cache' = cache
    BY <1>4, <2>1, <2>2, <2>3
  <2>5. Recovered' = Recovered
    <3>1. /\ disk' = [disk EXCEPT ![dhead[tail]] = dlog[tail]]
          /\ dhead' = dhead /\ dlog' = dlog
          /\ dhead \in Seq(Blocks) /\ tail \in 1 .. Len(dhead)
      BY <1>4, <2>1, <2>2, <2>3
    <3>2. Overlay(dhead, dlog, disk') = Overlay(dhead, dlog, disk)
      BY ZenonT(30), <1>4, <3>1, OverlayInstall
    <3> QED
      BY <3>1, <3>2, RecoveredIs
  <2> QED
    BY <1>3, <2>1, <2>4, <2>5, AtomicActions DEF SameAtomicDisk, Current
<1>9. CASE erase(p)
  <2>1. /\ pc[p] = "install" /\ tail > Len(lh) /\ dhead' = << >>
        /\ UNCHANGED <<disk, dlog, cache, sys>>
    BY <1>9 DEF erase
  <2>2. dhead = lh /\ \A k \in 1 .. Len(lh) : dlog[k] = disk[lh[k]]
    <3>1. dhead = lh /\ Installed /\ \A k \in 1 .. Len(lh) : k < tail
      BY <1>1, <1>4, <2>1 DEF DataInv, InvCommitData
    <3> QED
      BY <3>1 DEF Installed
  <2>3. Recovered = disk
    BY <1>4, <2>2, RecoveredIs, OverlayIs
  <2>4. Recovered' = disk
    BY <1>4, <2>1, RecoveredIs, OverlayEmpty
  <2> QED
    BY <1>3, <2>1, <2>3, <2>4, AtomicActions DEF SameAtomicDisk, Current
<1>10. CASE end_commit(p)
  <2>1. UNCHANGED <<disk, dlog, dhead, cache, sys>>
    BY <1>10 DEF end_commit, diskState
  <2> QED
    BY <1>3, <2>1, RecoveredIs, AtomicActions DEF SameAtomicDisk, Current
<1> QED
  BY <1>5, <1>6, <1>7, <1>8, <1>9, <1>10 DEF Commits

\* Every step of the log is a step of the atomic disk, or changes nothing it
\* shows, or overruns the log.
LEMMA StepImplements ==
  ASSUME LogInv, DataInv, [LogNext]_logVars
  PROVE  D!Next \/ sys' = "overrun" \/ UNCHANGED D!diskVars
<1>1. ASSUME UNCHANGED logVars
      PROVE  UNCHANGED D!diskVars
  <2>1. SameAtomicDisk
    BY <1>1, RecoveredIs
    DEF logVars, diskState, memory, SameAtomicDisk, Current, Ops, InOp
  <2> QED
    BY <2>1, AtomicActions
<1>2. ASSUME NEW b \in Blocks, evict(b)
      PROVE  UNCHANGED D!diskVars
  BY <1>1, <1>2, EvictIsNothing
<1>3. CASE Recovers \/ Crash
  BY <1>3, BootImplements
<1>4. ASSUME NEW p \in Procs,
             \/ begin_op(p) \/ log_write_test(p) \/ log_write(p) \/ end_op(p)
             \/ \E b \in Blocks, v \in Values : modify(p, b, v)
      PROVE  D!Next \/ UNCHANGED D!diskVars
  BY <1>4, CallImplements
<1>5. ASSUME NEW p \in Procs, Commits(p)
      PROVE  D!Next \/ sys' = "overrun" \/ UNCHANGED D!diskVars
  BY <1>5, CommitImplements
<1> QED
  BY <1>1, <1>2, <1>3, <1>4, <1>5 DEF LogNext

\* The log implements the atomic disk of AtomicDisk.tla: system calls that run
\* together commit together at the one write of the header, no unfinished call
\* is ever committed, and a crash at any moment, also during recovery, brings
\* back exactly what was last committed, up to the step that overruns the log.
THEOREM LogImplementsAtomicDisk == LogSpec => ImplementsAtomicDisk
<1>1. LogInit => D!Init
  <2> SUFFICES ASSUME LogInit PROVE D!Init
    OBVIOUS
  <2>1. Recovered = InitialDisk
    <3>1. /\ dhead = << >> /\ disk = InitialDisk /\ InitialDisk \in [Blocks -> Values]
      BY LogAssumption DEF LogInit
    <3> QED
      BY <3>1, RecoveredIs, OverlayEmpty
  <2>2. Ops = {}
    BY DEF LogInit, Ops, InOp
  <2> QED
    BY <2>1, <2>2 DEF LogInit, D!Init, Ops
<1>2. LogInv /\ DataInv /\ [LogNext]_logVars
        => [D!Next \/ sys' = "overrun"]_<<D!diskVars>>
  BY StepImplements
<1> QED
  BY <1>1, <1>2, LogDataCorrect, PTL DEF LogSpec, ImplementsAtomicDisk

\* With room for the header besides LOGSIZE blocks, the log is an atomic disk
\* without exception.
THEOREM RoomyLogIsAtomic ==
  ASSUME nlog > LOGSIZE
  PROVE  LogSpec => D!Spec
<1>1. LogSpec => []TransactionFits
  BY RoomyLogNeverOverruns
<1>2. TransactionFits' /\ [D!Next \/ sys' = "overrun"]_<<D!diskVars>>
        => [D!Next]_(D!diskVars)
  BY DEF TransactionFits
<1> QED
  BY <1>1, <1>2, LogImplementsAtomicDisk, PTL DEF ImplementsAtomicDisk, D!Spec
=============================================================================
