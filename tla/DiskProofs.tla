----------------------------- MODULE DiskProofs -----------------------------
(***************************************************************************)
(* Proofs about Disk, for every number of processes, buffers and blocks: the  *)
(* driver's queue and the disk agree, a process that has a block finds its    *)
(* last contents, and bget panics only when the cache is full.                *)
(***************************************************************************)
EXTENDS Disk, FiniteSetTheorems, TLAPS

Points == {"user", "lock", "have", "put", "iderw", "wait", "panic"}

Buffer == [blockno : Blocks \cup {NoBlock}, refcnt : Int, valid : BOOLEAN, dirty : BOOLEAN,
           data : Values, holder : Procs \cup {NoOne}]

DiskTypeOK ==
  /\ buf \in [Bufs -> Buffer]
  /\ idequeue \in Seq(Bufs)
  /\ disk \in [Blocks -> Values] /\ last \in [Blocks -> Values]
  /\ hw \in {"idle", "busy", "interrupt"}
  /\ memdisk \in BOOLEAN /\ panicked \in BOOLEAN
  /\ pc \in [Procs -> Points]
  /\ b \in [Procs -> Bufs \cup {NoBuf}]
  /\ want \in [Procs -> Blocks \cup {NoBlock}]
  /\ DOMAIN chan = Procs

Queued(x) == \E i \in DOMAIN idequeue : idequeue[i] = x

\* What iderw waits for.
Done(x) == buf[x].valid /\ ~buf[x].dirty

\* Where a process is, its buffer, the lock of the buffer and its channel.
PlaceOf(p) ==
  /\ pc[p] \in {"user", "panic"} <=> b[p] = NoBuf
  /\ b[p] # NoBuf => want[p] \in Blocks /\ buf[b[p]].blockno = want[p]
  /\ pc[p] \in {"have", "iderw", "wait"} <=> b[p] # NoBuf /\ buf[b[p]].holder = p
  /\ pc[p] = "have" => buf[b[p]].valid
  /\ pc[p] = "iderw" => ~Done(b[p])
  /\ pc[p] = "wait" => Queued(b[p]) \/ Done(b[p])
  /\ \/ chan[p] = Awake
     \/ pc[p] = "lock" /\ chan[p] = LockChan(b[p])
     \/ pc[p] = "wait" /\ chan[p] = DoneChan(b[p]) /\ Queued(b[p])

PlaceInv == \A p \in Procs : PlaceOf(p)

\* A block is in one buffer, and dirty buffers are valid.
CacheInv ==
  /\ \A x, y \in Bufs : x # y /\ buf[x].blockno = buf[y].blockno => buf[x].blockno = NoBlock
  /\ \A x \in Bufs : buf[x].dirty => buf[x].valid
  /\ \A x \in Bufs : buf[x].valid => buf[x].blockno # NoBlock
  /\ \A x \in Bufs : buf[x].holder # NoOne => b[buf[x].holder] = x

\* References are counted.
Users(x) == {p \in Procs : b[p] = x}

RefInv == \A x \in Bufs : buf[x].refcnt = Cardinality(Users(x))

\* The requests are those of the processes that wait, one each, and the disk
\* works for the first.
QueueInv ==
  /\ hw = "idle" <=> idequeue = <<>>
  /\ idequeue # <<>> =>
       command = [blk |-> buf[Head(idequeue)].blockno, write |-> buf[Head(idequeue)].dirty,
                  data |-> buf[Head(idequeue)].data]
  /\ \A i, j \in DOMAIN idequeue : idequeue[i] = idequeue[j] => i = j
  /\ \A x \in Bufs : Queued(x) => ~Done(x) /\ buf[x].holder # NoOne /\ pc[buf[x].holder] = "wait"

StructInv == DiskTypeOK /\ PlaceInv /\ CacheInv /\ RefInv /\ QueueInv

\* Where the last contents of a block are.
DataInv ==
  /\ \A x \in Bufs : buf[x].valid => buf[x].data = last[buf[x].blockno]
  /\ \A blk \in Blocks : disk[blk] = last[blk] \/ \E x \in Bufs : buf[x].blockno = blk /\ buf[x].dirty
  /\ hw = "interrupt" /\ command.write => disk[command.blk] = command.data

\* The buffers that only the log keeps dirty.
Logged == {x \in Bufs : buf[x].dirty /\ \A p \in Procs : b[p] = x => pc[p] \notin {"iderw", "wait"}}

\* The log keeps no more than a transaction may.
PinInv == Cardinality(Logged) <= MaxPinned

\* A step of the kernel or of the disk: after a panic there is none.
Running == Interrupts \/ \E p \in Procs : Caching(p) \/ Driving(p)

-----------------------------------------------------------------------------
\* The values that stand for nothing are not buffers, blocks or processes.
LEMMA Sentinels == NoBuf \notin Bufs /\ NoBlock \notin Blocks /\ NoOne \notin Procs
  BY DiskAssumption DEF NoBuf, Bufs

\* The queue after iderw appends a request.
LEMMA AppendQueue ==
  ASSUME NEW x \in Bufs, idequeue \in Seq(Bufs), idequeue' = Append(idequeue, x)
  PROVE  /\ idequeue' \in Seq(Bufs) /\ idequeue' # <<>>
         /\ \A y \in Bufs : Queued(y)' <=> Queued(y) \/ y = x
         /\ Head(idequeue') = IF idequeue = <<>> THEN x ELSE Head(idequeue)
  BY DEF Queued

\* A request that was not queued is queued once.
LEMMA AppendDistinct ==
  ASSUME NEW x \in Bufs, idequeue \in Seq(Bufs), idequeue' = Append(idequeue, x), ~Queued(x),
         \A i, j \in DOMAIN idequeue : idequeue[i] = idequeue[j] => i = j
  PROVE  \A i, j \in DOMAIN idequeue' : idequeue'[i] = idequeue'[j] => i = j
  BY DEF Queued

\* The queue after ideintr takes its first request away.
LEMMA TailQueue ==
  ASSUME idequeue \in Seq(Bufs), idequeue # <<>>, idequeue' = Tail(idequeue),
         \A i, j \in DOMAIN idequeue : idequeue[i] = idequeue[j] => i = j
  PROVE  /\ idequeue' \in Seq(Bufs) /\ Head(idequeue) \in Bufs /\ Queued(Head(idequeue))
         /\ \A y \in Bufs : Queued(y)' <=> Queued(y) /\ y # Head(idequeue)
         /\ IF Len(idequeue) > 1 THEN idequeue' # <<>> /\ Head(idequeue') = idequeue[2] ELSE idequeue' = <<>>
         /\ \A i, j \in DOMAIN idequeue' : idequeue'[i] = idequeue'[j] => i = j
  <1>1. Head(idequeue) = idequeue[1] /\ Len(idequeue) \in Nat \ {0} /\ DOMAIN idequeue = 1 .. Len(idequeue)
    OBVIOUS
  <1>2. DOMAIN idequeue' = 1 .. Len(idequeue) - 1 /\ \A i \in 1 .. Len(idequeue) - 1 : idequeue'[i] = idequeue[i + 1]
    OBVIOUS
  <1>3. idequeue' \in Seq(Bufs) /\ Head(idequeue) \in Bufs /\ Queued(Head(idequeue))
    BY <1>1 DEF Queued
  <1>4. ASSUME NEW y \in Bufs PROVE Queued(y)' <=> Queued(y) /\ y # Head(idequeue)
    <2>1. ASSUME Queued(y)' PROVE Queued(y) /\ y # Head(idequeue)
      <3>1. PICK i \in 1 .. Len(idequeue) - 1 : idequeue[i + 1] = y
        BY <1>2, <2>1 DEF Queued
      <3>2. i + 1 \in DOMAIN idequeue /\ i + 1 # 1 /\ 1 \in DOMAIN idequeue
        BY <1>1, <3>1
      <3> QED
        BY <1>1, <3>1, <3>2 DEF Queued
    <2>2. ASSUME Queued(y), y # Head(idequeue) PROVE Queued(y)'
      <3>1. PICK i \in 1 .. Len(idequeue) : idequeue[i] = y
        BY <1>1, <2>2 DEF Queued
      <3>2. i - 1 \in 1 .. Len(idequeue) - 1
        BY <1>1, <2>2, <3>1
      <3>3. idequeue'[i - 1] = y
        BY <1>2, <3>1, <3>2
      <3> QED
        BY <1>2, <3>2, <3>3 DEF Queued
    <2> QED
      BY <2>1, <2>2
  <1>5. IF Len(idequeue) > 1 THEN idequeue' # <<>> /\ Head(idequeue') = idequeue[2] ELSE idequeue' = <<>>
    <2>1. CASE Len(idequeue) > 1
      BY <1>1, <1>2, <1>3, <2>1
    <2>2. CASE ~(Len(idequeue) > 1)
      BY <1>1, <1>2, <1>3, <2>2
    <2> QED
      BY <2>1, <2>2
  <1>6. ASSUME NEW i \in DOMAIN idequeue', NEW j \in DOMAIN idequeue', idequeue'[i] = idequeue'[j] PROVE i = j
    <2>1. i + 1 \in DOMAIN idequeue /\ j + 1 \in DOMAIN idequeue /\ idequeue[i + 1] = idequeue[j + 1]
      BY <1>1, <1>2, <1>6
    <2> QED
      BY <1>2, <2>1
  <1> QED
    BY <1>3, <1>4, <1>5, <1>6


-----------------------------------------------------------------------------
(* What a step does to a buffer *)

\* Buffer x has the fields given here after the step, the others are as before.
BufStep(x, n, r, vl, d, dt, h) ==
  /\ x \in Bufs /\ buf' \in [Bufs -> Buffer]
  /\ \A y \in Bufs : y # x => buf'[y] = buf[y]
  /\ buf'[x].blockno = n /\ buf'[x].refcnt = r /\ buf'[x].valid = vl
  /\ buf'[x].dirty = d /\ buf'[x].data = dt /\ buf'[x].holder = h

\* The fields of a buffer have their types.
LEMMA BufFields ==
  ASSUME buf \in [Bufs -> Buffer], NEW x \in Bufs
  PROVE  /\ buf[x].blockno \in Blocks \cup {NoBlock} /\ buf[x].refcnt \in Int
         /\ buf[x].valid \in BOOLEAN /\ buf[x].dirty \in BOOLEAN
         /\ buf[x].data \in Values /\ buf[x].holder \in Procs \cup {NoOne}
  BY DEF Buffer

\* What bget and brelse do to the count of a buffer.
LEMMA BufRefcnt ==
  ASSUME buf \in [Bufs -> Buffer], NEW x \in Bufs, NEW k \in Int, buf' = [buf EXCEPT ![x].refcnt = k]
  PROVE  BufStep(x, buf[x].blockno, k, buf[x].valid, buf[x].dirty, buf[x].data, buf[x].holder)
  BY BufFields DEF BufStep, Buffer

\* A recycled buffer is a buffer.
LEMMA RecycledBuffer ==
  ASSUME NEW r \in Buffer, NEW n \in Blocks
  PROVE  [r EXCEPT !.blockno = n, !.refcnt = 1, !.valid = FALSE, !.dirty = FALSE] \in Buffer
  <1>1. [r EXCEPT !.blockno = n] \in Buffer
    BY DEF Buffer
  <1>2. ASSUME NEW s \in Buffer PROVE [s EXCEPT !.refcnt = 1] \in Buffer
    BY DEF Buffer
  <1>3. ASSUME NEW s \in Buffer PROVE [s EXCEPT !.valid = FALSE, !.dirty = FALSE] \in Buffer
    BY DEF Buffer
  <1> QED
    BY <1>1, <1>2, <1>3

\* What bget does to a buffer it takes for another block.
LEMMA BufRecycle ==
  ASSUME buf \in [Bufs -> Buffer], NEW x \in Bufs, NEW n \in Blocks,
         buf' = [buf EXCEPT ![x].blockno = n, ![x].refcnt = 1, ![x].valid = FALSE, ![x].dirty = FALSE]
  PROVE  BufStep(x, n, 1, FALSE, FALSE, buf[x].data, buf[x].holder)
  <1>1. buf' = [buf EXCEPT ![x] = [buf[x] EXCEPT !.blockno = n, !.refcnt = 1, !.valid = FALSE, !.dirty = FALSE]]
    BY DEF Buffer
  <1>2. buf'[x] = [buf[x] EXCEPT !.blockno = n, !.refcnt = 1, !.valid = FALSE, !.dirty = FALSE]
    BY <1>1
  <1>3. buf'[x] \in Buffer
    BY <1>2, RecycledBuffer
  <1>4. /\ buf'[x].blockno = n /\ buf'[x].refcnt = 1 /\ buf'[x].valid = FALSE
        /\ buf'[x].dirty = FALSE /\ buf'[x].data = buf[x].data /\ buf'[x].holder = buf[x].holder
    BY <1>2 DEF Buffer
  <1>5. buf' \in [Bufs -> Buffer] /\ \A y \in Bufs : y # x => buf'[y] = buf[y]
    BY <1>1, <1>3
  <1> QED
    BY <1>4, <1>5 DEF BufStep

\* What acquiresleep and releasesleep do to a buffer.
LEMMA BufHolder ==
  ASSUME buf \in [Bufs -> Buffer], NEW x \in Bufs, NEW h \in Procs \cup {NoOne}, buf' = [buf EXCEPT ![x].holder = h]
  PROVE  BufStep(x, buf[x].blockno, buf[x].refcnt, buf[x].valid, buf[x].dirty, buf[x].data, h)
  BY BufFields DEF BufStep, Buffer

\* What a store does to a buffer.
LEMMA BufStore ==
  ASSUME buf \in [Bufs -> Buffer], NEW x \in Bufs, NEW v \in Values,
         buf' = [buf EXCEPT ![x].data = v, ![x].dirty = TRUE]
  PROVE  BufStep(x, buf[x].blockno, buf[x].refcnt, buf[x].valid, TRUE, v, buf[x].holder)
  BY BufFields DEF BufStep, Buffer

\* What the end of a request does to a buffer.
LEMMA BufDone ==
  ASSUME buf \in [Bufs -> Buffer], NEW x \in Bufs, NEW v \in Values,
         buf' = [buf EXCEPT ![x].valid = TRUE, ![x].dirty = FALSE, ![x].data = v]
  PROVE  BufStep(x, buf[x].blockno, buf[x].refcnt, TRUE, FALSE, v, buf[x].holder)
  BY ZenonT(30), BufFields DEF BufStep, Buffer

\* The users of a buffer can be counted.
LEMMA UsersFinite == ASSUME NEW x PROVE IsFiniteSet(Users(x)) /\ Cardinality(Users(x)) \in Nat
  BY DiskAssumption, FS_Subset, FS_CardinalityType DEF Users

\* A process whose buffer a step leaves alone stays in its place.
LEMMA OtherPlace ==
  ASSUME DiskTypeOK, NEW q \in Procs, PlaceOf(q),
         pc'[q] = pc[q], b'[q] = b[q], want'[q] = want[q], chan'[q] \in {chan[q], Awake},
         b[q] \in Bufs => /\ buf'[b[q]].blockno = buf[b[q]].blockno
                          /\ buf'[b[q]].holder = q <=> buf[b[q]].holder = q
                          /\ buf'[b[q]].valid = buf[b[q]].valid /\ buf'[b[q]].dirty = buf[b[q]].dirty
                          /\ Queued(b[q]) => Queued(b[q])'
                          /\ pc[q] = "wait" /\ ~Queued(b[q]) => Done(b[q])
  PROVE  PlaceOf(q)'
  BY Sentinels DEF PlaceOf, Done, DiskTypeOK

\* Steps that leave the queue and its buffers alone keep QueueInv.
LEMMA SameQueue ==
  ASSUME DiskTypeOK, QueueInv, UNCHANGED <<hw, idequeue, command>>,
         \A x \in Bufs : Queued(x) =>
           /\ buf'[x].blockno = buf[x].blockno /\ buf'[x].data = buf[x].data /\ buf'[x].holder = buf[x].holder
           /\ buf'[x].valid = buf[x].valid /\ buf'[x].dirty = buf[x].dirty
           /\ pc'[buf[x].holder] = pc[buf[x].holder]
  PROVE  QueueInv'
  <1>1. \A x \in Bufs : Queued(x)' <=> Queued(x)
    BY DEF Queued
  <1>2. idequeue # <<>> => Head(idequeue) \in Bufs /\ Queued(Head(idequeue))
    BY DEF DiskTypeOK, Queued
  <1> QED
    BY <1>1, <1>2 DEF QueueInv, Done

\* The holder of a lock is a process that works with the buffer.
LEMMA Holder ==
  ASSUME StructInv, NEW x \in Bufs, buf[x].holder # NoOne
  PROVE  buf[x].holder \in Procs /\ b[buf[x].holder] = x /\ pc[buf[x].holder] \in {"have", "iderw", "wait"}
  <1>1. buf[x].holder \in Procs
    BY BufFields DEF StructInv, DiskTypeOK
  <1> QED
    BY <1>1, Sentinels DEF StructInv, CacheInv, PlaceInv, PlaceOf

\* A process outside the kernel has no buffer and holds no lock.
LEMMA UserPlace ==
  ASSUME StructInv, NEW p \in Procs, pc[p] = "user"
  PROVE  b[p] = NoBuf /\ chan[p] = Awake /\ \A x \in Bufs : buf[x].holder # p
  <1>1. b[p] = NoBuf /\ chan[p] = Awake
    BY DEF StructInv, PlaceInv, PlaceOf
  <1> QED
    BY <1>1, Holder, Sentinels

\* The step of a process that does not wait for the disk.
LEMMA QuietQueue ==
  ASSUME StructInv, NEW p \in Procs, pc[p] # "wait", UNCHANGED <<hw, idequeue, command>>,
         \A q \in Procs : q # p => pc'[q] = pc[q],
         \A x \in Bufs : Queued(x) =>
           /\ buf'[x].blockno = buf[x].blockno /\ buf'[x].data = buf[x].data /\ buf'[x].holder = buf[x].holder
           /\ buf'[x].valid = buf[x].valid /\ buf'[x].dirty = buf[x].dirty
  PROVE  QueueInv'
  <1>1. \A x \in Bufs : Queued(x) => pc'[buf[x].holder] = pc[buf[x].holder]
    BY Holder DEF StructInv, QueueInv
  <1> QED
    BY <1>1, SameQueue DEF StructInv

\* Steps that leave references alone keep RefInv.
LEMMA SameRef ==
  ASSUME RefInv, UNCHANGED b, \A x \in Bufs : buf'[x].refcnt = buf[x].refcnt
  PROVE  RefInv'
  BY DEF RefInv, Users

\* A cached block is found: its buffer gets one more user.
LEMMA bget_cached_Keeps ==
  ASSUME StructInv, NEW p \in Procs, NEW blk \in Blocks, bget_cached(p, blk)
  PROVE  StructInv'
<1> USE DEF StructInv
<1>1. pc[p] = "user" /\ b[p] = NoBuf /\ chan[p] = Awake /\ \A x \in Bufs : buf[x].holder # p
  BY UserPlace DEF bget_cached
<1>2. PICK x \in Bufs : /\ buf[x].blockno = blk /\ b' = [b EXCEPT ![p] = x]
                        /\ buf' = [buf EXCEPT ![x].refcnt = @ + 1]
  BY DEF bget_cached, Cached
<1>0. buf \in [Bufs -> Buffer] /\ buf[x].refcnt + 1 \in Int /\ buf' = [buf EXCEPT ![x].refcnt = buf[x].refcnt + 1]
  BY <1>2, BufFields DEF DiskTypeOK
<1>3. BufStep(x, blk, buf[x].refcnt + 1, buf[x].valid, buf[x].dirty, buf[x].data, buf[x].holder)
  BY <1>0, <1>2, BufRefcnt
<1>4. /\ pc' = [pc EXCEPT ![p] = "lock"] /\ want' = [want EXCEPT ![p] = blk]
      /\ UNCHANGED <<idequeue, disk, hw, command, memdisk, last, panicked, chan>>
  BY DEF bget_cached, goto, ideVars
<1>5. DiskTypeOK'
  BY <1>2, <1>3, <1>4 DEF DiskTypeOK, BufStep, Points
<1>6. \A y \in Bufs : Queued(y)' <=> Queued(y)
  BY <1>4 DEF Queued
<1>7. PlaceOf(p)'
  BY <1>1, <1>2, <1>3, <1>4, Sentinels DEF DiskTypeOK, PlaceOf, BufStep
<1>8. ASSUME NEW q \in Procs, q # p PROVE PlaceOf(q)'
  BY <1>2, <1>3, <1>4, <1>6, <1>8, OtherPlace DEF DiskTypeOK, PlaceInv, PlaceOf, BufStep
<1>9. CacheInv'
  BY <1>1, <1>2, <1>3, BufFields DEF DiskTypeOK, CacheInv, BufStep
<1>10. RefInv'
  <2>1. Users(x)' = Users(x) \cup {p} /\ p \notin Users(x)
    BY <1>1, <1>2, Sentinels DEF Users, DiskTypeOK
  <2>2. \A y \in Bufs : y # x => Users(y)' = Users(y)
    BY <1>1, <1>2, Sentinels DEF Users, DiskTypeOK
  <2>3. Cardinality(Users(x)') = Cardinality(Users(x)) + 1
    BY <2>1, UsersFinite, FS_AddElement
  <2> QED
    BY <1>3, <2>2, <2>3 DEF RefInv, BufStep
<1>11. QueueInv'
  <2>1. \A q \in Procs : q # p => pc'[q] = pc[q]
    BY <1>4 DEF DiskTypeOK
  <2> QED
    BY <1>1, <1>2, <1>3, <1>4, <2>1, QuietQueue DEF BufStep
<1> QED
  BY <1>5, <1>7, <1>8, <1>9, <1>10, <1>11 DEF PlaceInv


\* A block that is not cached takes a buffer nobody uses, so that no process, lock
\* or request is left behind.
LEMMA bget_recycle_Keeps ==
  ASSUME StructInv, NEW p \in Procs, NEW blk \in Blocks, bget_recycle(p, blk)
  PROVE  StructInv'
<1> USE DEF StructInv
<1>1. pc[p] = "user" /\ b[p] = NoBuf /\ chan[p] = Awake /\ \A x \in Bufs : buf[x].holder # p
  BY UserPlace DEF bget_recycle
<1>6. \A x \in Bufs : buf[x].blockno # blk
  BY DEF bget_recycle, Cached
<1>2. /\ want' = [want EXCEPT ![p] = blk]
      /\ UNCHANGED <<idequeue, disk, hw, command, memdisk, last, chan>>
  BY DEF bget_recycle, ideVars
<1>3. \A y \in Bufs : Queued(y)' <=> Queued(y)
  BY <1>2 DEF Queued
<1>4. CASE Recyclable = {}
  <2>1. pc' = [pc EXCEPT ![p] = "panic"] /\ UNCHANGED <<buf, b>> /\ panicked' = TRUE
    BY <1>4 DEF bget_recycle, goto
  <2>2. DiskTypeOK'
    BY <1>2, <2>1 DEF DiskTypeOK, Points
  <2>3. PlaceOf(p)'
    BY <1>1, <1>2, <2>1, Sentinels DEF DiskTypeOK, PlaceOf
  <2>4. ASSUME NEW q \in Procs, q # p PROVE PlaceOf(q)'
    BY <1>2, <1>3, <2>1, <2>4, OtherPlace DEF DiskTypeOK, PlaceInv, PlaceOf
  <2>5. CacheInv' /\ RefInv'
    BY <2>1 DEF CacheInv, RefInv, Users
  <2>6. QueueInv'
    BY <1>1, <1>2, <2>1, BufFields, SameQueue DEF DiskTypeOK, QueueInv
  <2> QED
    BY <2>2, <2>3, <2>4, <2>5, <2>6 DEF PlaceInv
<1>5. CASE Recyclable # {}
  <2>1. PICK x \in Recyclable : /\ buf' = [buf EXCEPT ![x].blockno = blk, ![x].refcnt = 1,
                                                      ![x].valid = FALSE, ![x].dirty = FALSE]
                               /\ b' = [b EXCEPT ![p] = x]
    BY <1>5 DEF bget_recycle
  <2>2. x \in Bufs /\ buf[x].refcnt = 0 /\ ~buf[x].dirty
    BY <2>1 DEF Recyclable
  <2>3. BufStep(x, blk, 1, FALSE, FALSE, buf[x].data, buf[x].holder)
    BY <2>1, <2>2, BufRecycle DEF DiskTypeOK
  <2>4. pc' = [pc EXCEPT ![p] = "lock"] /\ UNCHANGED panicked
    BY <1>5 DEF bget_recycle, goto
  <2>5. Users(x) = {}
    BY <2>2, UsersFinite, FS_EmptySet DEF RefInv
  <2>6. (\A q \in Procs : b[q] # x) /\ buf[x].holder = NoOne /\ ~Queued(x)
    BY <2>2, <2>5, BufFields DEF Users, CacheInv, QueueInv, DiskTypeOK
  <2>7. DiskTypeOK'
    BY <1>2, <2>1, <2>2, <2>3, <2>4 DEF DiskTypeOK, BufStep, Points
  <2>8. PlaceOf(p)'
    BY <1>1, <1>2, <2>1, <2>2, <2>3, <2>4, <2>6, Sentinels DEF DiskTypeOK, PlaceOf, BufStep
  <2>9. ASSUME NEW q \in Procs, q # p PROVE PlaceOf(q)'
    <3>1. pc'[q] = pc[q] /\ b'[q] = b[q] /\ want'[q] = want[q] /\ chan'[q] = chan[q]
      BY <1>2, <2>1, <2>4, <2>9 DEF DiskTypeOK
    <3>2. b[q] \in Bufs => buf'[b[q]] = buf[b[q]] /\ (pc[q] = "wait" /\ ~Queued(b[q]) => Done(b[q]))
      BY <2>3, <2>6 DEF BufStep, PlaceInv, PlaceOf
    <3> QED
      BY <1>3, <3>1, <3>2, OtherPlace DEF PlaceInv
  <2>10. CacheInv'
    <3>1. \A y \in Bufs : buf'[y].holder = buf[y].holder /\ (y # x => buf'[y] = buf[y])
      BY <2>3 DEF BufStep
    <3>2. \A y \in Bufs : y # x => buf'[y].blockno # buf'[x].blockno
      BY <1>6, <2>3 DEF BufStep
    <3>3. \A y \in Bufs : buf[y].holder # NoOne => b'[buf[y].holder] = b[buf[y].holder]
      BY <1>1, <2>1, BufFields DEF DiskTypeOK
    <3>4. ~buf'[x].dirty /\ ~buf'[x].valid
      BY <2>3 DEF BufStep
    <3> QED
      BY <3>1, <3>2, <3>3, <3>4 DEF CacheInv
  <2>11. RefInv'
    <3>0. b'[p] = x /\ \A q \in Procs : q # p => b'[q] = b[q]
      BY <2>1 DEF DiskTypeOK
    <3>1. Users(x)' = {p}
      BY <2>6, <3>0 DEF Users
    <3>2. \A y \in Bufs : y # x => Users(y)' = Users(y)
      BY <1>1, <3>0, Sentinels DEF Users
    <3>3. Cardinality(Users(x)') = 1
      BY <3>1, FS_Singleton
    <3>4. buf'[x].refcnt = 1 /\ \A y \in Bufs : y # x => buf'[y] = buf[y]
      BY <2>3 DEF BufStep
    <3> QED
      BY <3>2, <3>3, <3>4 DEF RefInv
  <2>12. QueueInv'
    <3>1. \A q \in Procs : q # p => pc'[q] = pc[q]
      BY <2>4 DEF DiskTypeOK
    <3> QED
      BY <1>1, <1>2, <2>3, <2>6, <3>1, QuietQueue DEF BufStep
  <2> QED
    BY <2>7, <2>8, <2>9, <2>10, <2>11, <2>12 DEF PlaceInv
<1> QED
  BY <1>4, <1>5

\* The lock is taken, or the process sleeps for it.
LEMMA acquiresleep_Keeps ==
  ASSUME StructInv, NEW p \in Procs, acquiresleep(p)
  PROVE  StructInv'
<1> USE DEF StructInv
<1>1. pc[p] = "lock" /\ b[p] \in Bufs /\ chan[p] = Awake
  BY DEF acquiresleep, PlaceInv, PlaceOf, DiskTypeOK
<1>2. UNCHANGED <<idequeue, disk, hw, command, memdisk, last, panicked, b, want>>
  BY DEF acquiresleep, ideVars
<1>3. \A y \in Bufs : Queued(y)' <=> Queued(y)
  BY <1>2 DEF Queued
<1>4. CASE buf[b[p]].holder # NoOne
  <2>1. chan' = [chan EXCEPT ![p] = LockChan(b[p])] /\ UNCHANGED <<buf, pc>>
    BY <1>4 DEF acquiresleep, sleep
  <2>2. DiskTypeOK' /\ CacheInv' /\ RefInv'
    BY <1>2, <2>1 DEF DiskTypeOK, CacheInv, RefInv, Users
  <2>3. PlaceOf(p)'
    BY <1>1, <1>2, <2>1 DEF DiskTypeOK, PlaceInv, PlaceOf, Done
  <2>4. ASSUME NEW q \in Procs, q # p PROVE PlaceOf(q)'
    BY <1>2, <1>3, <2>1, <2>4, OtherPlace DEF DiskTypeOK, PlaceInv, PlaceOf
  <2>5. QueueInv'
    BY <1>2, <2>1, SameQueue
  <2> QED
    BY <2>2, <2>3, <2>4, <2>5 DEF PlaceInv
<1>5. CASE buf[b[p]].holder = NoOne
  <2> DEFINE x == b[p]
  <2>1. BufStep(x, buf[x].blockno, buf[x].refcnt, buf[x].valid, buf[x].dirty, buf[x].data, p)
    BY <1>1, <1>5, BufHolder DEF acquiresleep, DiskTypeOK
  <2>2. pc' = [pc EXCEPT ![p] = IF buf[x].valid THEN "have" ELSE "iderw"] /\ UNCHANGED chan
    BY <1>5 DEF acquiresleep, goto
  <2>3. DiskTypeOK'
    BY <1>2, <2>1, <2>2 DEF DiskTypeOK, BufStep, Points
  <2>4. ~Queued(x)
    BY <1>1, <1>5 DEF QueueInv
  <2>5. PlaceOf(p)'
    BY <1>1, <1>2, <2>1, <2>2, Sentinels DEF DiskTypeOK, PlaceInv, PlaceOf, BufStep, Done
  <2>6. ASSUME NEW q \in Procs, q # p PROVE PlaceOf(q)'
    BY <1>2, <1>3, <1>5, <2>1, <2>2, <2>6, Sentinels, OtherPlace
    DEF DiskTypeOK, PlaceInv, PlaceOf, BufStep
  <2>7. CacheInv'
    <3>1. \A y \in Bufs : /\ buf'[y].blockno = buf[y].blockno /\ buf'[y].dirty = buf[y].dirty
                           /\ buf'[y].valid = buf[y].valid /\ (y # x => buf'[y].holder = buf[y].holder)
      BY <2>1 DEF BufStep
    <3>2. buf'[x].holder = p
      BY <2>1 DEF BufStep
    <3> QED
      BY <1>2, <3>1, <3>2 DEF CacheInv
  <2>8. RefInv'
    BY <1>2, <2>1, SameRef DEF BufStep
  <2>9. QueueInv'
    BY <1>1, <1>2, <2>1, <2>2, <2>4, BufFields, SameQueue DEF DiskTypeOK, QueueInv, BufStep
  <2> QED
    BY <2>3, <2>5, <2>6, <2>7, <2>8, <2>9 DEF PlaceInv
<1> QED
  BY <1>4, <1>5


\* A process that does not hold the lock of its buffer minds nothing but the
\* block.
LEMMA WaiterPlace ==
  ASSUME DiskTypeOK, NEW q \in Procs, PlaceOf(q), b[q] \in Bufs, buf[b[q]].holder # q,
         pc'[q] = pc[q], b'[q] = b[q], want'[q] = want[q], chan'[q] \in {chan[q], Awake},
         buf'[b[q]].blockno = buf[b[q]].blockno, buf'[b[q]].holder # q
  PROVE  PlaceOf(q)'
  BY Sentinels DEF PlaceOf, DiskTypeOK, Points

\* What the holder of a lock does to its buffer leaves the others in their
\* places.
LEMMA OthersKeepPlace ==
  ASSUME StructInv, NEW p \in Procs, NEW x \in Bufs, buf[x].holder \in {p, NoOne},
         NEW r, NEW vl, NEW d, NEW dt, NEW h \in {p, NoOne}, BufStep(x, buf[x].blockno, r, vl, d, dt, h),
         \A q \in Procs : q # p => /\ pc'[q] = pc[q] /\ b'[q] = b[q] /\ want'[q] = want[q]
                                   /\ chan'[q] \in {chan[q], Awake},
         \A y \in Bufs : y # x /\ Queued(y) => Queued(y)'
  PROVE  \A q \in Procs : q # p => PlaceOf(q)'
<1> SUFFICES ASSUME NEW q \in Procs, q # p PROVE PlaceOf(q)'
  OBVIOUS
<1>1. DiskTypeOK /\ PlaceOf(q)
  BY DEF StructInv, PlaceInv
<1>2. CASE b[q] = x
  BY <1>1, <1>2, WaiterPlace, Sentinels DEF BufStep
<1>3. CASE b[q] # x
  <2>1. b[q] \in Bufs => buf'[b[q]] = buf[b[q]] /\ (pc[q] = "wait" /\ ~Queued(b[q]) => Done(b[q]))
    BY <1>1, <1>3 DEF BufStep, PlaceOf
  <2> QED
    BY <1>1, <1>3, <2>1, OtherPlace
<1> QED
  BY <1>2, <1>3

\* The cache after a step that leaves the blocks where they are.
LEMMA SameBlocks ==
  ASSUME StructInv, NEW x \in Bufs, buf'[x].blockno = buf[x].blockno, \A y \in Bufs : y # x => buf'[y] = buf[y],
         buf'[x].dirty => buf'[x].valid, buf'[x].valid => buf[x].blockno # NoBlock,
         buf'[x].holder # NoOne => b'[buf'[x].holder] = x,
         \A y \in Bufs : y # x /\ buf[y].holder # NoOne => b'[buf[y].holder] = y
  PROVE  CacheInv'
<1>1. \A y \in Bufs : buf'[y].blockno = buf[y].blockno
  OBVIOUS
<1>4. \A y \in Bufs : (buf'[y].dirty => buf'[y].valid) /\ (buf'[y].valid => buf'[y].blockno # NoBlock)
  BY <1>1 DEF StructInv, CacheInv
<1>5. \A y \in Bufs : buf'[y].holder # NoOne => b'[buf'[y].holder] = y
  OBVIOUS
<1>6. \A y, z \in Bufs : y # z /\ buf'[y].blockno = buf'[z].blockno => buf'[y].blockno = NoBlock
  BY <1>1 DEF StructInv, CacheInv
<1> QED
  BY <1>4, <1>5, <1>6 DEF CacheInv

\* A process that has a block.
LEMMA Having ==
  ASSUME StructInv, NEW p \in Procs, pc[p] \in {"have", "iderw"}
  PROVE  /\ b[p] \in Bufs /\ buf[b[p]].holder = p /\ (pc[p] = "have" => buf[b[p]].valid)
         /\ want[p] \in Blocks /\ buf[b[p]].blockno = want[p] /\ chan[p] = Awake /\ ~Queued(b[p])
  <1>1. /\ b[p] \in Bufs /\ buf[b[p]].holder = p /\ (pc[p] = "have" => buf[b[p]].valid)
        /\ want[p] \in Blocks /\ buf[b[p]].blockno = want[p] /\ chan[p] = Awake
    BY Sentinels DEF StructInv, DiskTypeOK, PlaceInv, PlaceOf
  <1> QED
    BY <1>1, Sentinels DEF StructInv, QueueInv

\* bwrite and log_write change the contents of a buffer that its process holds.
LEMMA Store_Keeps ==
  ASSUME StructInv, NEW p \in Procs, NEW v \in Values, bwrite(p, v) \/ log_write(p, v)
  PROVE  StructInv'
<1>1. PICK x \in Bufs : x = b[p]
  BY Having DEF bwrite, log_write
<1>2. /\ pc[p] = "have" /\ buf[x].holder = p /\ buf[x].valid
      /\ want[p] \in Blocks /\ buf[x].blockno = want[p] /\ chan[p] = Awake /\ ~Queued(x)
  BY <1>1, Having DEF bwrite, log_write
<1>3. BufStep(x, buf[x].blockno, buf[x].refcnt, buf[x].valid, TRUE, v, buf[x].holder)
  BY <1>1, BufStore DEF bwrite, log_write, StructInv, DiskTypeOK
<1>4. /\ UNCHANGED <<idequeue, disk, hw, command, memdisk, panicked, chan, b, want>>
      /\ last' = [last EXCEPT ![want[p]] = v]
  BY DEF bwrite, log_write, ideVars, procVars
<1>5. /\ pc' \in [Procs -> Points] /\ pc'[p] \in {"have", "iderw"}
      /\ \A q \in Procs : q # p => pc'[q] = pc[q]
  BY <1>2 DEF bwrite, log_write, procVars, goto, StructInv, DiskTypeOK, Points
<1>6. DiskTypeOK'
  BY <1>3, <1>4, <1>5 DEF StructInv, DiskTypeOK, BufStep
<1>7. \A y \in Bufs : Queued(y)' <=> Queued(y)
  BY <1>4 DEF Queued
<1>8. PlaceOf(p)'
  BY <1>1, <1>2, <1>3, <1>4, <1>5, Sentinels DEF PlaceOf, BufStep, Done
<1>9. \A q \in Procs : q # p => PlaceOf(q)'
  BY <1>2, <1>3, <1>4, <1>5, <1>7, OthersKeepPlace
<1>10. CacheInv'
  <2>1. \A y \in Bufs : buf[y].holder # NoOne => b'[buf[y].holder] = y
    BY <1>4 DEF StructInv, CacheInv
  <2>2. buf[x].blockno # NoBlock /\ buf[x].valid /\ (p # NoOne => b'[p] = x)
    BY <1>1, <1>2, <1>4, Sentinels
  <2> QED
    BY <1>2, <1>3, <2>1, <2>2, SameBlocks DEF BufStep
<1>11. RefInv'
  BY <1>3, <1>4, SameRef DEF StructInv, BufStep
<1>12. QueueInv'
  BY <1>2, <1>3, <1>4, <1>5, QuietQueue DEF BufStep
<1> QED
  BY <1>6, <1>8, <1>9, <1>10, <1>11, <1>12 DEF StructInv, PlaceInv

\* The lock is given back and its waiters are woken.
LEMMA releasesleep_Keeps ==
  ASSUME StructInv, NEW p \in Procs, releasesleep(p)
  PROVE  StructInv'
<1>1. PICK x \in Bufs : x = b[p]
  BY Having DEF releasesleep
<1>2. /\ pc[p] = "have" /\ buf[x].holder = p /\ buf[x].valid
      /\ want[p] \in Blocks /\ buf[x].blockno = want[p] /\ chan[p] = Awake /\ ~Queued(x)
  BY <1>1, Having DEF releasesleep
<1>3. BufStep(x, buf[x].blockno, buf[x].refcnt, buf[x].valid, buf[x].dirty, buf[x].data, NoOne)
  BY <1>1, BufHolder DEF releasesleep, StructInv, DiskTypeOK
<1>4. /\ UNCHANGED <<idequeue, disk, hw, command, memdisk, panicked, b, want, last>>
      /\ pc' = [pc EXCEPT ![p] = "put"]
  BY DEF releasesleep, ideVars, goto
<1>5. DOMAIN chan' = Procs /\ \A q \in Procs : chan'[q] \in {chan[q], Awake}
  BY DEF releasesleep, wakeup, Woken, StructInv, DiskTypeOK
<1>6. DiskTypeOK'
  BY <1>3, <1>4, <1>5 DEF StructInv, DiskTypeOK, BufStep, Points
<1>7. \A y \in Bufs : Queued(y)' <=> Queued(y)
  BY <1>4 DEF Queued
<1>13. pc'[p] = "put" /\ \A q \in Procs : q # p => pc'[q] = pc[q]
  BY <1>4 DEF StructInv, DiskTypeOK
<1>8. PlaceOf(p)'
  BY <1>1, <1>2, <1>3, <1>4, <1>5, <1>13, Sentinels DEF PlaceOf, BufStep, Done
<1>9. \A q \in Procs : q # p => PlaceOf(q)'
  BY ZenonT(30), <1>2, <1>3, <1>4, <1>5, <1>7, <1>13, OthersKeepPlace
<1>10. CacheInv'
  <2>1. \A y \in Bufs : buf[y].holder # NoOne => b'[buf[y].holder] = y
    BY <1>4 DEF StructInv, CacheInv
  <2>2. buf[x].blockno # NoBlock /\ buf[x].valid /\ (p # NoOne => b'[p] = x)
    BY <1>1, <1>2, <1>4, Sentinels
  <2> QED
    BY <1>2, <1>3, <2>1, <2>2, SameBlocks DEF BufStep
<1>11. RefInv'
  BY <1>3, <1>4, SameRef DEF StructInv, BufStep
<1>12. QueueInv'
  BY <1>2, <1>3, <1>4, <1>13, QuietQueue DEF BufStep
<1> QED
  BY <1>6, <1>8, <1>9, <1>10, <1>11, <1>12 DEF StructInv, PlaceInv


\* The reference is given back.
LEMMA brelse_Keeps ==
  ASSUME StructInv, NEW p \in Procs, brelse(p)
  PROVE  StructInv'
<1>1. PICK x \in Bufs : x = b[p]
  BY DEF brelse, StructInv, DiskTypeOK, PlaceInv, PlaceOf
<1>2. pc[p] = "put" /\ buf[x].holder # p /\ chan[p] = Awake
  BY <1>1, Sentinels DEF brelse, StructInv, PlaceInv, PlaceOf
<1>3. BufStep(x, buf[x].blockno, buf[x].refcnt - 1, buf[x].valid, buf[x].dirty, buf[x].data, buf[x].holder)
  <2>1. buf \in [Bufs -> Buffer] /\ buf[x].refcnt - 1 \in Int
    BY BufFields DEF StructInv, DiskTypeOK
  <2>2. buf' = [buf EXCEPT ![x].refcnt = buf[x].refcnt - 1]
    BY <1>1, <2>1 DEF brelse
  <2> QED
    BY <2>1, <2>2, BufRefcnt
<1>4. /\ UNCHANGED <<idequeue, disk, hw, command, memdisk, panicked, last, chan>>
      /\ pc' = [pc EXCEPT ![p] = "user"] /\ b' = [b EXCEPT ![p] = NoBuf]
      /\ want' = [want EXCEPT ![p] = NoBlock]
  BY DEF brelse, ideVars, goto
<1>5. /\ pc'[p] = "user" /\ b'[p] = NoBuf
      /\ \A q \in Procs : q # p => pc'[q] = pc[q] /\ b'[q] = b[q] /\ want'[q] = want[q]
  BY <1>4 DEF StructInv, DiskTypeOK
<1>6. DiskTypeOK'
  BY <1>3, <1>4 DEF StructInv, DiskTypeOK, BufStep, Points
<1>7. \A y \in Bufs : Queued(y)' <=> Queued(y)
  BY <1>4 DEF Queued
<1>8. PlaceOf(p)'
  BY <1>2, <1>4, <1>5 DEF PlaceOf
<1>9. ASSUME NEW q \in Procs, q # p PROVE PlaceOf(q)'
  <2>1. b[q] \in Bufs => /\ buf'[b[q]].blockno = buf[b[q]].blockno /\ buf'[b[q]].holder = buf[b[q]].holder
                         /\ buf'[b[q]].valid = buf[b[q]].valid /\ buf'[b[q]].dirty = buf[b[q]].dirty
    BY <1>3 DEF BufStep
  <2>2. DiskTypeOK /\ PlaceOf(q) /\ (b[q] \in Bufs /\ pc[q] = "wait" /\ ~Queued(b[q]) => Done(b[q]))
    BY DEF StructInv, PlaceInv, PlaceOf
  <2> QED
    BY <1>4, <1>5, <1>7, <1>9, <2>1, <2>2, OtherPlace
<1>10. CacheInv'
  <2>1. \A y \in Bufs : buf[y].holder # NoOne => b'[buf[y].holder] = y
    BY <1>1, <1>2, <1>5, Holder DEF StructInv, CacheInv
  <2>2. (buf[x].dirty => buf[x].valid) /\ (buf[x].valid => buf[x].blockno # NoBlock)
    BY DEF StructInv, CacheInv
  <2> QED
    BY <1>3, <2>1, <2>2, SameBlocks DEF BufStep
<1>11. RefInv'
  <2>1. Users(x)' = Users(x) \ {p} /\ p \in Users(x)
    BY <1>1, <1>5, Sentinels DEF Users
  <2>2. \A y \in Bufs : y # x => Users(y)' = Users(y)
    BY <1>1, <1>5, Sentinels DEF Users
  <2>3. Cardinality(Users(x)') = Cardinality(Users(x)) - 1
    BY <2>1, UsersFinite, FS_RemoveElement
  <2>4. buf'[x].refcnt = buf[x].refcnt - 1 /\ \A y \in Bufs : y # x => buf'[y] = buf[y]
    BY <1>3 DEF BufStep
  <2> QED
    BY <2>2, <2>3, <2>4 DEF StructInv, RefInv
<1>12. QueueInv'
  BY <1>2, <1>3, <1>4, <1>5, QuietQueue DEF BufStep
<1> QED
  BY <1>6, <1>8, <1>9, <1>10, <1>11, <1>12 DEF StructInv, PlaceInv

\* A request joins the queue, and starts the disk when it is the first.
LEMMA iderw_Keeps ==
  ASSUME StructInv, NEW p \in Procs, iderw(p)
  PROVE  StructInv'
<1>1. PICK x \in Bufs : x = b[p]
  BY Having DEF iderw
<1>2. /\ pc[p] = "iderw" /\ buf[x].holder = p /\ ~Done(x)
      /\ want[p] \in Blocks /\ buf[x].blockno = want[p] /\ chan[p] = Awake /\ ~Queued(x)
  BY <1>1, Having DEF iderw, StructInv, PlaceInv, PlaceOf
<1>3. /\ UNCHANGED <<buf, disk, memdisk, panicked, last, b, want>>
      /\ pc' = [pc EXCEPT ![p] = "wait"] /\ chan' = [chan EXCEPT ![p] = DoneChan(x)]
      /\ idequeue' = Append(idequeue, x)
      /\ IF idequeue = <<>> THEN idestart(x) ELSE UNCHANGED <<hw, command>>
  BY <1>1 DEF iderw, goto, sleep, bufVars
<1>4. /\ pc'[p] = "wait" /\ chan'[p] = DoneChan(x)
      /\ \A q \in Procs : q # p => pc'[q] = pc[q] /\ chan'[q] = chan[q]
  BY <1>3 DEF StructInv, DiskTypeOK
<1>5. /\ idequeue' \in Seq(Bufs) /\ idequeue' # <<>>
      /\ Head(idequeue') = IF idequeue = <<>> THEN x ELSE Head(idequeue)
      /\ \A y \in Bufs : Queued(y)' <=> Queued(y) \/ y = x
  BY <1>3, AppendQueue DEF StructInv, DiskTypeOK
<1>6. DiskTypeOK'
  BY <1>3, <1>5 DEF StructInv, DiskTypeOK, Points, idestart
<1>7. PlaceOf(p)'
  BY <1>1, <1>2, <1>3, <1>4, <1>5, Sentinels DEF PlaceOf
<1>8. ASSUME NEW q \in Procs, q # p PROVE PlaceOf(q)'
  <2>1. DiskTypeOK /\ PlaceOf(q) /\ (b[q] \in Bufs /\ pc[q] = "wait" /\ ~Queued(b[q]) => Done(b[q]))
    BY DEF StructInv, PlaceInv, PlaceOf
  <2> QED
    BY <1>3, <1>4, <1>5, <1>8, <2>1, OtherPlace
<1>9. CacheInv' /\ RefInv'
  BY <1>3 DEF StructInv, CacheInv, RefInv, Users
<1>10. QueueInv'
  <2>1. hw' # "idle"
    BY <1>3, <1>5 DEF StructInv, QueueInv, idestart
  <2>2. command' = [blk |-> buf[Head(idequeue')].blockno, write |-> buf[Head(idequeue')].dirty,
                    data |-> buf[Head(idequeue')].data]
    BY <1>3, <1>5 DEF StructInv, QueueInv, idestart
  <2>3. \A i, j \in DOMAIN idequeue' : idequeue'[i] = idequeue'[j] => i = j
    BY <1>2, <1>3, AppendDistinct DEF StructInv, DiskTypeOK, QueueInv
  <2>4. ASSUME NEW y \in Bufs, Queued(y)'
        PROVE  ~Done(y)' /\ buf'[y].holder # NoOne /\ pc'[buf'[y].holder] = "wait"
    <3>1. CASE y = x
      BY <1>2, <1>3, <1>4, <3>1, Sentinels DEF Done
    <3>2. CASE Queued(y)
      <4>1. ~Done(y) /\ buf[y].holder # NoOne /\ pc[buf[y].holder] = "wait"
        BY <3>2 DEF StructInv, QueueInv
      <4> QED
        BY <1>2, <1>3, <1>4, <4>1, Holder DEF Done
    <3> QED
      BY <1>5, <2>4, <3>1, <3>2
  <2> QED
    BY <1>3, <1>5, <2>1, <2>2, <2>3, <2>4 DEF QueueInv
<1> QED
  BY <1>6, <1>7, <1>8, <1>9, <1>10 DEF StructInv, PlaceInv

\* A process that was woken goes on when its request is done, or sleeps again.
LEMMA iderw_woken_Keeps ==
  ASSUME StructInv, NEW p \in Procs, iderw_woken(p)
  PROVE  StructInv'
<1>1. PICK x \in Bufs : x = b[p]
  BY DEF iderw_woken, StructInv, DiskTypeOK, PlaceInv, PlaceOf
<1>2. /\ pc[p] = "wait" /\ buf[x].holder = p /\ want[p] \in Blocks /\ buf[x].blockno = want[p]
      /\ chan[p] = Awake /\ (Queued(x) \/ Done(x))
  BY <1>1, Sentinels DEF iderw_woken, StructInv, PlaceInv, PlaceOf
<1>3. /\ UNCHANGED <<buf, idequeue, disk, hw, command, memdisk, panicked, last, b, want>>
      /\ IF Done(x) THEN pc' = [pc EXCEPT ![p] = "have"] /\ UNCHANGED chan
                    ELSE chan' = [chan EXCEPT ![p] = DoneChan(x)] /\ UNCHANGED pc
  BY <1>1 DEF iderw_woken, goto, sleep, bufVars, ideVars, Done
<1>4. /\ IF Done(x) THEN pc'[p] = "have" /\ chan'[p] = Awake ELSE pc'[p] = "wait" /\ chan'[p] = DoneChan(x)
      /\ \A q \in Procs : q # p => pc'[q] = pc[q] /\ chan'[q] = chan[q]
  BY <1>2, <1>3 DEF StructInv, DiskTypeOK
<1>5. \A y \in Bufs : Queued(y)' <=> Queued(y)
  BY <1>3 DEF Queued
<1>6. DiskTypeOK'
  BY <1>3 DEF StructInv, DiskTypeOK, Points
<1>7. PlaceOf(p)'
  BY <1>1, <1>2, <1>3, <1>4, <1>5, Sentinels DEF PlaceOf, Done
<1>8. ASSUME NEW q \in Procs, q # p PROVE PlaceOf(q)'
  <2>1. DiskTypeOK /\ PlaceOf(q) /\ (b[q] \in Bufs /\ pc[q] = "wait" /\ ~Queued(b[q]) => Done(b[q]))
    BY DEF StructInv, PlaceInv, PlaceOf
  <2> QED
    BY <1>3, <1>4, <1>5, <1>8, <2>1, OtherPlace
<1>9. CacheInv' /\ RefInv'
  BY <1>3 DEF StructInv, CacheInv, RefInv, Users
<1>10. QueueInv'
  <2>1. ASSUME NEW y \in Bufs, Queued(y) PROVE pc'[buf[y].holder] = pc[buf[y].holder]
    <3>1. ~Done(y) /\ buf[y].holder # NoOne
      BY <2>1 DEF StructInv, QueueInv
    <3>2. buf[y].holder \in Procs /\ b[buf[y].holder] = y
      BY <3>1, Holder
    <3> QED
      BY <1>1, <1>2, <1>4, <3>1, <3>2
  <2> QED
    BY <1>3, <2>1, SameQueue DEF StructInv
<1> QED
  BY <1>6, <1>7, <1>8, <1>9, <1>10 DEF StructInv, PlaceInv

\* The disk ends its command.
LEMMA DiskDone_Keeps ==
  ASSUME StructInv, DiskDone
  PROVE  StructInv'
<1>1. /\ UNCHANGED <<buf, idequeue, command, memdisk, panicked, last, b, want, pc, chan>>
      /\ hw = "busy" /\ hw' = "interrupt"
  BY DEF DiskDone, bufVars, procVars
<1>2. \A y \in Bufs : (Queued(y)' <=> Queued(y)) /\ (Done(y)' <=> Done(y))
  BY <1>1 DEF Queued, Done
<1>3. disk' \in [Blocks -> Values]
  <2>1. CASE command.write
    <3>1. idequeue # <<>> /\ Head(idequeue) \in Bufs
      BY <1>1 DEF StructInv, QueueInv, DiskTypeOK
    <3>2. command.data = buf[Head(idequeue)].data
      BY <3>1 DEF StructInv, QueueInv
    <3>3. command.data \in Values
      BY <3>1, <3>2, BufFields DEF StructInv, DiskTypeOK
    <3> QED
      BY <2>1, <3>3 DEF DiskDone, StructInv, DiskTypeOK
  <2>2. CASE ~command.write
    BY <2>2 DEF DiskDone, StructInv, DiskTypeOK
  <2> QED
    BY <2>1, <2>2
<1>4. DiskTypeOK'
  BY <1>1, <1>3 DEF StructInv, DiskTypeOK
<1>5. PlaceInv'
  BY <1>1, <1>2 DEF StructInv, DiskTypeOK, PlaceInv, PlaceOf
<1>6. CacheInv' /\ RefInv'
  BY <1>1 DEF StructInv, CacheInv, RefInv, Users
<1>7. QueueInv'
  BY <1>1, <1>2 DEF StructInv, QueueInv
<1> QED
  BY <1>4, <1>5, <1>6, <1>7 DEF StructInv


\* The disk in memory serves a request at once.
LEMMA iderw_mem_Keeps ==
  ASSUME StructInv, NEW p \in Procs, iderw_mem(p)
  PROVE  StructInv'
<1>1. PICK x \in Bufs : x = b[p]
  BY Having DEF iderw_mem
<1>2. /\ pc[p] = "iderw" /\ buf[x].holder = p /\ want[p] \in Blocks /\ buf[x].blockno = want[p]
      /\ chan[p] = Awake /\ ~Queued(x)
  BY <1>1, Having DEF iderw_mem
<1>3. PICK v \in Values : /\ BufStep(x, buf[x].blockno, buf[x].refcnt, TRUE, FALSE, v, buf[x].holder)
                          /\ v = IF buf[x].dirty THEN buf[x].data ELSE disk[buf[x].blockno]
  <2>1. buf[x].data \in Values /\ disk[buf[x].blockno] \in Values /\ buf \in [Bufs -> Buffer]
    BY <1>2, BufFields DEF StructInv, DiskTypeOK
  <2>2. PICK v \in Values : v = IF buf[x].dirty THEN buf[x].data ELSE disk[buf[x].blockno]
    BY <2>1
  <2>3. buf' = [buf EXCEPT ![x].valid = TRUE, ![x].dirty = FALSE, ![x].data = v]
    BY <1>1, <2>1, <2>2 DEF iderw_mem
  <2> QED
    BY <2>1, <2>2, <2>3, BufDone
<1>4. /\ UNCHANGED <<idequeue, hw, command, memdisk, panicked, last, b, want, chan>>
      /\ pc' = [pc EXCEPT ![p] = "have"]
      /\ disk' = IF buf[x].dirty THEN [disk EXCEPT ![buf[x].blockno] = buf[x].data] ELSE disk
  BY <1>1 DEF iderw_mem, goto
<1>5. pc'[p] = "have" /\ \A q \in Procs : q # p => pc'[q] = pc[q]
  BY <1>4 DEF StructInv, DiskTypeOK
<1>6. DiskTypeOK'
  <2>1. disk' \in [Blocks -> Values]
    BY <1>4, BufFields DEF StructInv, DiskTypeOK
  <2> QED
    BY <1>3, <1>4, <2>1 DEF StructInv, DiskTypeOK, BufStep, Points
<1>7. \A y \in Bufs : Queued(y)' <=> Queued(y)
  BY <1>4 DEF Queued
<1>8. PlaceOf(p)'
  BY <1>1, <1>2, <1>3, <1>4, <1>5, Sentinels DEF PlaceOf, BufStep, Done
<1>9. \A q \in Procs : q # p => PlaceOf(q)'
  BY <1>2, <1>3, <1>4, <1>5, <1>7, OthersKeepPlace
<1>10. CacheInv'
  <2>1. \A y \in Bufs : buf[y].holder # NoOne => b'[buf[y].holder] = y
    BY <1>4 DEF StructInv, CacheInv
  <2>2. buf[x].blockno # NoBlock /\ b'[p] = x
    BY <1>1, <1>2, <1>4, Sentinels
  <2> QED
    BY <1>2, <1>3, <2>1, <2>2, SameBlocks DEF BufStep
<1>11. RefInv'
  BY <1>3, <1>4, SameRef DEF StructInv, BufStep
<1>12. QueueInv'
  BY <1>2, <1>3, <1>4, <1>5, QuietQueue DEF BufStep
<1> QED
  BY <1>6, <1>8, <1>9, <1>10, <1>11, <1>12 DEF StructInv, PlaceInv

\* The request that is served is that of the holder of its buffer.
LEMMA ideintr_Effect ==
  ASSUME StructInv, NEW failed \in BOOLEAN, ideintr(failed), NEW x, x = Head(idequeue)
  PROVE  /\ x \in Bufs /\ Queued(x) /\ ~Done(x) /\ buf[x].blockno \in Blocks
         /\ BufStep(x, buf[x].blockno, buf[x].refcnt, TRUE, FALSE,
                    IF ~buf[x].dirty /\ ~failed THEN disk[buf[x].blockno] ELSE buf[x].data, buf[x].holder)
         /\ buf[x].holder \in Procs /\ b[buf[x].holder] = x /\ pc[buf[x].holder] = "wait"
         /\ \A y \in Bufs : Queued(y)' <=> Queued(y) /\ y # x
         /\ UNCHANGED <<disk, memdisk, panicked, last, pc, b, want>>
<1>1. idequeue \in Seq(Bufs) /\ idequeue # <<>> /\ buf \in [Bufs -> Buffer] /\ idequeue' = Tail(idequeue)
  BY DEF ideintr, StructInv, DiskTypeOK
<1>2. x \in Bufs /\ Queued(x) /\ \A y \in Bufs : Queued(y)' <=> Queued(y) /\ y # x
  BY <1>1, TailQueue DEF StructInv, QueueInv
<1>3. ~Done(x) /\ buf[x].holder # NoOne /\ pc[buf[x].holder] = "wait"
  BY <1>2 DEF StructInv, QueueInv
<1>4. buf[x].holder \in Procs /\ b[buf[x].holder] = x
  BY <1>2, <1>3, Holder
<1>5. buf[x].blockno \in Blocks
  BY <1>2, <1>4, Sentinels DEF StructInv, PlaceInv, PlaceOf
<1>6. PICK v \in Values : v = IF ~buf[x].dirty /\ ~failed THEN disk[buf[x].blockno] ELSE buf[x].data
  BY <1>1, <1>2, <1>5, BufFields DEF StructInv, DiskTypeOK
<1>7. buf' = [buf EXCEPT ![x].valid = TRUE, ![x].dirty = FALSE, ![x].data = v]
  BY <1>1, <1>2, <1>6 DEF ideintr
<1>8. UNCHANGED <<disk, memdisk, panicked, last, pc, b, want>>
  BY DEF ideintr, procVars
<1> QED
  BY <1>1, <1>2, <1>3, <1>4, <1>5, <1>6, <1>7, <1>8, BufDone

\* The interrupt ends the first request, wakes its process and starts the next.
LEMMA ideintr_Keeps ==
  ASSUME StructInv, NEW failed \in BOOLEAN, ideintr(failed)
  PROVE  StructInv'
<1>1. PICK x \in Bufs, p \in Procs : x = Head(idequeue) /\ p = buf[x].holder
  BY ideintr_Effect
<1>2. PICK v : v = IF ~buf[x].dirty /\ ~failed THEN disk[buf[x].blockno] ELSE buf[x].data
  OBVIOUS
<1>3. /\ buf[x].blockno \in Blocks /\ b[p] = x /\ pc[p] = "wait"
      /\ BufStep(x, buf[x].blockno, buf[x].refcnt, TRUE, FALSE, v, p)
      /\ UNCHANGED <<disk, memdisk, panicked, last, pc, b, want>>
      /\ \A y \in Bufs : Queued(y)' <=> Queued(y) /\ y # x
  BY <1>1, <1>2, ideintr_Effect
<1>4. /\ idequeue \in Seq(Bufs) /\ idequeue # <<>> /\ idequeue' = Tail(idequeue) /\ chan' = Woken(DoneChan(x))
      /\ IF Len(idequeue) > 1 THEN idestart(idequeue[2]) ELSE hw' = "idle" /\ UNCHANGED command
  BY <1>1 DEF ideintr, wakeup, StructInv, DiskTypeOK
<1>5. /\ idequeue' \in Seq(Bufs)
      /\ IF Len(idequeue) > 1 THEN idequeue' # <<>> /\ Head(idequeue') = idequeue[2] ELSE idequeue' = <<>>
      /\ \A i, j \in DOMAIN idequeue' : idequeue'[i] = idequeue'[j] => i = j
  BY <1>4, TailQueue DEF StructInv, QueueInv
<1>6. DiskTypeOK'
  BY <1>3, <1>4, <1>5 DEF StructInv, DiskTypeOK, BufStep, Woken, idestart
<1>7. \A q \in Procs : chan'[q] = IF chan[q] = DoneChan(x) THEN Awake ELSE chan[q]
  BY <1>4 DEF Woken
<1>8. PlaceOf(p)'
  <2>1. chan'[p] = Awake
    BY <1>3, <1>7 DEF StructInv, PlaceInv, PlaceOf
  <2>2. buf'[x].holder = p /\ buf'[x].blockno = buf[x].blockno /\ buf'[x].valid /\ ~buf'[x].dirty
    BY <1>3 DEF BufStep
  <2>3. want[p] \in Blocks /\ buf[x].blockno = want[p]
    BY <1>3, Sentinels DEF StructInv, PlaceInv, PlaceOf
  <2> QED
    BY <1>3, <2>1, <2>2, <2>3, Sentinels DEF PlaceOf, Done
<1>9. \A q \in Procs : q # p => PlaceOf(q)'
  <2>1. \A q \in Procs : chan'[q] \in {chan[q], Awake} /\ pc'[q] = pc[q] /\ b'[q] = b[q] /\ want'[q] = want[q]
    BY <1>3, <1>7
  <2>2. buf[x].holder \in {p, NoOne} /\ p \in {p, NoOne} /\ \A y \in Bufs : y # x /\ Queued(y) => Queued(y)'
    BY <1>1, <1>3
  <2>3. BufStep(x, buf[x].blockno, buf[x].refcnt, TRUE, FALSE, v, p)
    BY <1>3
  <2> QED
    BY <2>1, <2>2, <2>3, OthersKeepPlace
<1>10. CacheInv'
  <2>1. \A y \in Bufs : buf[y].holder # NoOne => b'[buf[y].holder] = y
    BY <1>3 DEF StructInv, CacheInv
  <2>2. buf[x].blockno # NoBlock
    BY <1>3, Sentinels
  <2> QED
    BY <1>3, <2>1, <2>2, SameBlocks DEF BufStep
<1>11. RefInv'
  BY <1>3, SameRef DEF StructInv, BufStep
<1>12. QueueInv'
  <2>1. hw' = "idle" <=> idequeue' = <<>>
    BY <1>4, <1>5 DEF idestart
  <2>2. ASSUME idequeue' # <<>>
        PROVE  command' = [blk |-> buf'[Head(idequeue')].blockno, write |-> buf'[Head(idequeue')].dirty,
                           data |-> buf'[Head(idequeue')].data]
    <3>1. Len(idequeue) > 1 /\ Head(idequeue') = idequeue[2] /\ idestart(idequeue[2])
      BY <1>4, <1>5, <2>2
    <3>2. idequeue[2] \in Bufs /\ idequeue[2] # x
      BY <1>1, <1>4, <3>1 DEF StructInv, QueueInv
    <3>3. buf'[idequeue[2]] = buf[idequeue[2]]
      BY <1>3, <3>2 DEF BufStep
    <3> QED
      BY <3>1, <3>3 DEF idestart
  <2>3. ASSUME NEW y \in Bufs, Queued(y)'
        PROVE  ~Done(y)' /\ buf'[y].holder # NoOne /\ pc'[buf'[y].holder] = "wait"
    <3>1. Queued(y) /\ buf'[y] = buf[y]
      BY <1>3, <2>3 DEF BufStep
    <3>2. ~Done(y) /\ buf[y].holder # NoOne /\ pc[buf[y].holder] = "wait"
      BY <3>1 DEF StructInv, QueueInv
    <3> QED
      BY <1>3, <3>1, <3>2 DEF Done
  <2> QED
    BY <1>5, <2>1, <2>2, <2>3 DEF QueueInv
<1> QED
  BY <1>6, <1>8, <1>9, <1>10, <1>11, <1>12 DEF StructInv, PlaceInv

-----------------------------------------------------------------------------
\* The structural invariant holds when the kernel starts.
LEMMA StructInit == DiskInit => StructInv
<1> SUFFICES ASSUME DiskInit PROVE StructInv
  OBVIOUS
<1>1. PICK v \in Values :
        /\ disk = [blk \in Blocks |-> v] /\ last = disk
        /\ buf = [x \in Bufs |-> [blockno |-> NoBlock, refcnt |-> 0, valid |-> FALSE,
                                  dirty |-> FALSE, data |-> v, holder |-> NoOne]]
  BY DEF DiskInit
<1>2. /\ idequeue = <<>> /\ hw = "idle" /\ memdisk \in BOOLEAN /\ panicked = FALSE
      /\ pc = [p \in Procs |-> "user"] /\ b = [p \in Procs |-> NoBuf] /\ want = [p \in Procs |-> NoBlock]
      /\ chan = [p \in Procs |-> Awake]
  BY DEF DiskInit, SleepInit
<1>3. \A x \in Bufs : ~Queued(x)
  BY <1>2 DEF Queued
<1>4. DiskTypeOK
  <2>1. buf \in [Bufs -> Buffer]
    <3>1. [blockno |-> NoBlock, refcnt |-> 0, valid |-> FALSE, dirty |-> FALSE, data |-> v, holder |-> NoOne] \in Buffer
      BY DEF Buffer
    <3> QED
      BY <1>1, <3>1
  <2>2. disk \in [Blocks -> Values] /\ last \in [Blocks -> Values]
    BY <1>1
  <2>3. pc \in [Procs -> Points] /\ DOMAIN chan = Procs
    BY <1>2 DEF Points
  <2>4. b \in [Procs -> Bufs \cup {NoBuf}] /\ want \in [Procs -> Blocks \cup {NoBlock}] /\ idequeue \in Seq(Bufs)
    BY <1>2
  <2> QED
    BY <1>2, <2>1, <2>2, <2>3, <2>4 DEF DiskTypeOK
<1>5. PlaceInv
  BY <1>2 DEF PlaceInv, PlaceOf
<1>6. CacheInv
  BY <1>1 DEF CacheInv
<1>7. RefInv
  <2>1. \A x \in Bufs : Users(x) = {}
    BY <1>2, Sentinels DEF Users
  <2> QED
    BY <1>1, <2>1, FS_EmptySet DEF RefInv
<1>8. QueueInv
  BY <1>2, <1>3 DEF QueueInv
<1> QED
  BY <1>4, <1>5, <1>6, <1>7, <1>8 DEF StructInv

\* Every step keeps the structural invariant.
LEMMA StructStep == StructInv /\ [DiskNext]_diskVars => StructInv'
<1>1. ASSUME StructInv, Running PROVE StructInv'
  BY <1>1, bget_cached_Keeps, bget_recycle_Keeps, acquiresleep_Keeps, Store_Keeps,
     releasesleep_Keeps, brelse_Keeps,
     iderw_Keeps, iderw_woken_Keeps, iderw_mem_Keeps, DiskDone_Keeps, ideintr_Keeps, DiskAssumption
  DEF Running, Interrupts, Caching, Driving
<1>2. ASSUME StructInv, UNCHANGED diskVars PROVE StructInv'
  BY <1>2
  DEF diskVars, bufVars, ideVars, procVars, StructInv, DiskTypeOK, PlaceInv, PlaceOf, CacheInv,
      RefInv, Users,
     QueueInv, Queued, Done
<1> QED
  BY <1>1, <1>2 DEF DiskNext, panic, Running

\* Locks, references, places and the queue agree in every reachable state of
\* bio.c, sleeplock.c and ide.c, whatever the disk answers.
THEOREM DiskStructure == DiskSpec => []StructInv
  BY StructInit, StructStep, PTL DEF DiskSpec

\* QueueMatchesDisk for every number of processes, buffers and blocks: the disk
\* works for the first request of idequeue, with that buffer's command, and every
\* process asleep in iderw has a request that is still queued.
THEOREM QueueAndDiskAgree == DiskSpec => []QueueMatchesDisk
<1>1. StructInv => QueueMatchesDisk
  <2> SUFFICES ASSUME StructInv PROVE QueueMatchesDisk
    OBVIOUS
  <2>1. ASSUME NEW p \in Procs, chan[p] = DoneChan(b[p]) PROVE \E i \in DOMAIN idequeue : idequeue[i] = b[p]
    <3>1. chan[p] # Awake /\ chan[p] # LockChan(b[p])
      BY <2>1 DEF DoneChan, LockChan, Awake
    <3> QED
      BY <3>1 DEF StructInv, PlaceInv, PlaceOf, Queued
  <2> QED
    BY <2>1 DEF StructInv, QueueInv, QueueMatchesDisk
<1> QED
  BY <1>1, DiskStructure, PTL


-----------------------------------------------------------------------------
(* The contents of the blocks *)

\* Steps that neither store nor move contents.
LEMMA SameData ==
  ASSUME DataInv, UNCHANGED <<disk, last>>, hw' = "interrupt" => hw = "interrupt" /\ UNCHANGED command,
         \A x \in Bufs : /\ buf'[x].blockno = buf[x].blockno /\ buf'[x].data = buf[x].data
                         /\ buf'[x].valid = buf[x].valid /\ buf'[x].dirty = buf[x].dirty
  PROVE  DataInv'
  BY DEF DataInv

\* The block of a buffer that is not dirty is on the disk.
LEMMA CleanIsOnDisk ==
  ASSUME StructInv, DataInv, NEW x \in Bufs, buf[x].blockno \in Blocks, ~buf[x].dirty
  PROVE  disk[buf[x].blockno] = last[buf[x].blockno]
  BY Sentinels DEF StructInv, CacheInv, DataInv

\* A store makes its buffer the only place with the latest contents.
LEMMA Store_KeepsData ==
  ASSUME StructInv, DataInv, NEW p \in Procs, NEW v \in Values, bwrite(p, v) \/ log_write(p, v)
  PROVE  DataInv'
<1>1. PICK x \in Bufs : x = b[p]
  BY Having DEF bwrite, log_write
<1>2. pc[p] = "have" /\ buf[x].valid /\ want[p] \in Blocks /\ buf[x].blockno = want[p]
  BY <1>1, Having DEF bwrite, log_write
<1>3. BufStep(x, buf[x].blockno, buf[x].refcnt, buf[x].valid, TRUE, v, buf[x].holder)
  BY <1>1, BufStore DEF bwrite, log_write, StructInv, DiskTypeOK
<1>4. UNCHANGED <<disk, hw, command>> /\ last' = [last EXCEPT ![want[p]] = v]
  BY DEF bwrite, log_write, ideVars
<1>5. last'[want[p]] = v /\ \A blk \in Blocks : blk # want[p] => last'[blk] = last[blk]
  BY <1>2, <1>4 DEF StructInv, DiskTypeOK
<1>6. ASSUME NEW y \in Bufs, buf'[y].valid PROVE buf'[y].data = last'[buf'[y].blockno]
  <2>1. CASE y = x
    BY <1>2, <1>3, <1>5, <2>1 DEF BufStep
  <2>2. CASE y # x
    <3>1. buf'[y] = buf[y] /\ buf[y].valid
      BY <1>3, <1>6, <2>2 DEF BufStep
    <3>2. buf[y].blockno \in Blocks /\ buf[y].blockno # want[p]
      BY <1>2, <2>2, <3>1, BufFields, Sentinels DEF StructInv, DiskTypeOK, CacheInv
    <3> QED
      BY <1>5, <3>1, <3>2 DEF DataInv
  <2> QED
    BY <2>1, <2>2
<1>7. ASSUME NEW blk \in Blocks
      PROVE  disk'[blk] = last'[blk] \/ \E y \in Bufs : buf'[y].blockno = blk /\ buf'[y].dirty
  <2>1. CASE blk = want[p]
    BY <1>2, <1>3, <2>1 DEF BufStep
  <2>2. CASE blk # want[p]
    BY <1>2, <1>3, <1>4, <1>5, <2>2 DEF DataInv, BufStep
  <2> QED
    BY <2>1, <2>2
<1> QED
  BY <1>4, <1>6, <1>7 DEF DataInv

\* The buffer that is recycled was not dirty, so nothing is lost with it.
LEMMA bget_recycle_KeepsData ==
  ASSUME StructInv, DataInv, NEW p \in Procs, NEW blk \in Blocks, bget_recycle(p, blk)
  PROVE  DataInv'
<1>1. UNCHANGED <<disk, hw, command, last>>
  BY DEF bget_recycle, ideVars
<1>2. CASE Recyclable = {}
  BY <1>1, <1>2, SameData DEF bget_recycle
<1>3. CASE Recyclable # {}
  <2>1. PICK x \in Recyclable : buf' = [buf EXCEPT ![x].blockno = blk, ![x].refcnt = 1,
                                                   ![x].valid = FALSE, ![x].dirty = FALSE]
    BY <1>3 DEF bget_recycle
  <2>2. x \in Bufs /\ ~buf[x].dirty
    BY <2>1 DEF Recyclable
  <2>3. BufStep(x, blk, 1, FALSE, FALSE, buf[x].data, buf[x].holder)
    BY <2>1, <2>2, BufRecycle DEF StructInv, DiskTypeOK
  <2>4. \A y \in Bufs : buf'[y].valid => y # x /\ buf'[y] = buf[y]
    BY <2>3 DEF BufStep
  <2>5. \A y \in Bufs : buf[y].dirty => buf'[y] = buf[y]
    BY <2>2, <2>3 DEF BufStep
  <2> QED
    BY <1>1, <2>4, <2>5 DEF DataInv
<1> QED
  BY <1>2, <1>3

\* The disk in memory moves the latest contents one way or the other.
LEMMA iderw_mem_KeepsData ==
  ASSUME StructInv, DataInv, NEW p \in Procs, iderw_mem(p)
  PROVE  DataInv'
<1>1. PICK x \in Bufs : x = b[p]
  BY Having DEF iderw_mem
<1>2. buf[x].blockno \in Blocks /\ ~Queued(x)
  BY <1>1, Having DEF iderw_mem
<1>3. UNCHANGED <<idequeue, hw, command, last>>
  BY DEF iderw_mem
<1>4. PICK v : v = IF buf[x].dirty THEN buf[x].data ELSE disk[buf[x].blockno]
  OBVIOUS
<1>5. v = last[buf[x].blockno]
  BY <1>2, <1>4, CleanIsOnDisk DEF StructInv, CacheInv, DataInv
<1>6. BufStep(x, buf[x].blockno, buf[x].refcnt, TRUE, FALSE, v, buf[x].holder)
  <2>1. v \in Values /\ buf \in [Bufs -> Buffer]
    BY <1>2, <1>4, BufFields DEF StructInv, DiskTypeOK
  <2>2. buf' = [buf EXCEPT ![x].valid = TRUE, ![x].dirty = FALSE, ![x].data = v]
    BY <1>1, <1>4, <2>1 DEF iderw_mem
  <2> QED
    BY <2>1, <2>2, BufDone
<1>7. /\ disk'[buf[x].blockno] = last[buf[x].blockno]
      /\ \A blk \in Blocks : blk # buf[x].blockno => disk'[blk] = disk[blk]
  <2>1. CASE buf[x].dirty
    BY <1>1, <1>2, <1>4, <1>5, <2>1 DEF iderw_mem, StructInv, DiskTypeOK
  <2>2. CASE ~buf[x].dirty
    BY <1>1, <1>4, <1>5, <2>2 DEF iderw_mem
  <2> QED
    BY <2>1, <2>2
<1>8. \A y \in Bufs : buf'[y].valid => buf'[y].data = last[buf'[y].blockno]
  BY <1>5, <1>6 DEF BufStep, DataInv
<1>9. ASSUME NEW blk \in Blocks
      PROVE  disk'[blk] = last[blk] \/ \E y \in Bufs : buf'[y].blockno = blk /\ buf'[y].dirty
  BY <1>6, <1>7 DEF BufStep, DataInv
<1>10. ASSUME hw = "interrupt", command.write PROVE disk'[command.blk] = command.data
  <2>1. /\ Head(idequeue) \in Bufs /\ Queued(Head(idequeue))
        /\ command.blk = buf[Head(idequeue)].blockno
    BY <1>10 DEF StructInv, QueueInv, DiskTypeOK, Queued
  <2>2. Head(idequeue) # x /\ command.blk # buf[x].blockno
    BY <1>2, <2>1, Sentinels DEF StructInv, CacheInv
  <2>3. command.blk \in Blocks
    BY <2>1, Holder, Sentinels DEF StructInv, QueueInv, PlaceInv, PlaceOf
  <2> QED
    BY <1>7, <1>10, <2>2, <2>3 DEF DataInv
<1> QED
  BY <1>3, <1>8, <1>9, <1>10 DEF DataInv

\* The request the disk works for.
LEMMA ActiveRequest ==
  ASSUME StructInv, hw # "idle"
  PROVE  \E x \in Bufs : /\ x = Head(idequeue) /\ buf[x].blockno \in Blocks /\ command.blk = buf[x].blockno
                         /\ command.write = buf[x].dirty /\ command.data = buf[x].data
<1>1. /\ Head(idequeue) \in Bufs /\ Queued(Head(idequeue))
      /\ command = [blk |-> buf[Head(idequeue)].blockno, write |-> buf[Head(idequeue)].dirty,
                    data |-> buf[Head(idequeue)].data]
  BY DEF StructInv, QueueInv, DiskTypeOK, Queued
<1>2. buf[Head(idequeue)].blockno \in Blocks
  BY <1>1, Holder, Sentinels DEF StructInv, QueueInv, PlaceInv, PlaceOf
<1> QED
  BY <1>1, <1>2

\* What the disk writes is the latest.
LEMMA DiskDone_KeepsData ==
  ASSUME StructInv, DataInv, DiskDone
  PROVE  DataInv'
<1>1. PICK x \in Bufs : /\ x = Head(idequeue) /\ buf[x].blockno \in Blocks /\ command.blk = buf[x].blockno
                        /\ command.write = buf[x].dirty /\ command.data = buf[x].data
  BY ActiveRequest DEF DiskDone
<1>2. UNCHANGED <<buf, last, command>>
  BY DEF DiskDone, bufVars
<1>3. CASE buf[x].dirty
  <2>1. disk' = [disk EXCEPT ![buf[x].blockno] = buf[x].data]
    BY <1>1, <1>3 DEF DiskDone
  <2>2. buf[x].data = last[buf[x].blockno]
    BY <1>3 DEF StructInv, CacheInv, DataInv
  <2>3. /\ disk'[buf[x].blockno] = buf[x].data
        /\ \A blk \in Blocks : blk # buf[x].blockno => disk'[blk] = disk[blk]
    BY <1>1, <2>1 DEF StructInv, DiskTypeOK
  <2> QED
    BY <1>1, <1>2, <2>2, <2>3 DEF DataInv
<1>4. CASE ~buf[x].dirty
  BY <1>1, <1>2, <1>4 DEF DiskDone, DataInv
<1> QED
  BY <1>3, <1>4

\* What the interrupt reads is the latest, when the disk reports no error.
LEMMA ideintr_KeepsData ==
  ASSUME StructInv, DataInv, ideintr(FALSE)
  PROVE  DataInv'
<1>1. PICK x \in Bufs : /\ x = Head(idequeue) /\ buf[x].blockno \in Blocks /\ command.blk = buf[x].blockno
                        /\ command.write = buf[x].dirty /\ command.data = buf[x].data
  BY ActiveRequest DEF ideintr
<1>2. PICK v : v = IF ~buf[x].dirty /\ ~FALSE THEN disk[buf[x].blockno] ELSE buf[x].data
  OBVIOUS
<1>3. BufStep(x, buf[x].blockno, buf[x].refcnt, TRUE, FALSE, v, buf[x].holder) /\ UNCHANGED <<disk, last>>
  BY <1>1, <1>2, ideintr_Effect
<1>4. disk[buf[x].blockno] = last[buf[x].blockno] /\ v = last[buf[x].blockno]
  <2>1. CASE buf[x].dirty
    BY <1>1, <1>2, <2>1 DEF ideintr, StructInv, CacheInv, DataInv
  <2>2. CASE ~buf[x].dirty
    BY <1>1, <1>2, <2>2, CleanIsOnDisk
  <2> QED
    BY <2>1, <2>2
<1>5. hw' # "interrupt"
  BY DEF ideintr, idestart
<1>6. \A y \in Bufs : buf'[y].valid => buf'[y].data = last[buf'[y].blockno]
  BY <1>3, <1>4 DEF BufStep, DataInv
<1>7. ASSUME NEW blk \in Blocks
      PROVE  disk[blk] = last[blk] \/ \E y \in Bufs : buf'[y].blockno = blk /\ buf'[y].dirty
  BY <1>3, <1>4 DEF BufStep, DataInv
<1> QED
  BY <1>3, <1>5, <1>6, <1>7 DEF DataInv

\* The other steps leave contents and blocks alone.
LEMMA Contents ==
  ASSUME StructInv, DataInv, NEW p \in Procs,
         \/ \E blk \in Blocks : bget_cached(p, blk)
         \/ acquiresleep(p) \/ releasesleep(p) \/ brelse(p) \/ iderw(p) \/ iderw_woken(p)
  PROVE  DataInv'
<1>1. UNCHANGED <<disk, last>> /\ (hw' = "interrupt" => hw = "interrupt" /\ UNCHANGED command)
  BY DEF bget_cached, acquiresleep, releasesleep, brelse, iderw, iderw_woken, idestart, ideVars
<1>2. \A x \in Bufs : /\ buf'[x].blockno = buf[x].blockno /\ buf'[x].data = buf[x].data
                      /\ buf'[x].valid = buf[x].valid /\ buf'[x].dirty = buf[x].dirty
  <2>1. \/ UNCHANGED buf
        \/ \E y \in Bufs : buf' = [buf EXCEPT ![y].refcnt = buf[y].refcnt + 1]
        \/ \E y \in Bufs : buf' = [buf EXCEPT ![y].refcnt = buf[y].refcnt - 1]
        \/ \E y \in Bufs, h \in Procs \cup {NoOne} : buf' = [buf EXCEPT ![y].holder = h]
    <3>1. pc[p] \notin {"user", "panic"} => b[p] \in Bufs
      BY DEF StructInv, DiskTypeOK, PlaceInv, PlaceOf
    <3>2. CASE \E blk \in Blocks : bget_cached(p, blk)
      BY <3>2 DEF bget_cached, Cached, StructInv, DiskTypeOK, Buffer
    <3>3. CASE acquiresleep(p)
      BY <3>1, <3>3 DEF acquiresleep
    <3>4. CASE releasesleep(p)
      BY <3>1, <3>4 DEF releasesleep
    <3>5. CASE brelse(p)
      BY <3>1, <3>5 DEF brelse, StructInv, DiskTypeOK, Buffer
    <3>6. CASE iderw(p) \/ iderw_woken(p)
      BY <3>6 DEF iderw, iderw_woken, bufVars
    <3> QED
      BY <3>2, <3>3, <3>4, <3>5, <3>6
  <2>2. buf \in [Bufs -> Buffer] /\ \A y \in Bufs : buf[y].refcnt + 1 \in Int /\ buf[y].refcnt - 1 \in Int
    BY BufFields DEF StructInv, DiskTypeOK
  <2>3. ASSUME NEW y \in Bufs, NEW k \in Int, buf' = [buf EXCEPT ![y].refcnt = k]
        PROVE  \A x \in Bufs : /\ buf'[x].blockno = buf[x].blockno /\ buf'[x].data = buf[x].data
                               /\ buf'[x].valid = buf[x].valid /\ buf'[x].dirty = buf[x].dirty
    BY <2>2, <2>3, BufRefcnt DEF BufStep
  <2>4. ASSUME NEW y \in Bufs, NEW h \in Procs \cup {NoOne}, buf' = [buf EXCEPT ![y].holder = h]
        PROVE  \A x \in Bufs : /\ buf'[x].blockno = buf[x].blockno /\ buf'[x].data = buf[x].data
                               /\ buf'[x].valid = buf[x].valid /\ buf'[x].dirty = buf[x].dirty
    BY <2>2, <2>4, BufHolder DEF BufStep
  <2> QED
    BY <2>1, <2>2, <2>3, <2>4
<1> QED
  BY <1>1, <1>2, SameData

\* Nothing is cached when the kernel starts.
LEMMA DataInit == DiskInit => DataInv
<1> SUFFICES ASSUME DiskInit PROVE DataInv
  OBVIOUS
<1>1. (\A x \in Bufs : ~buf[x].valid) /\ last = disk /\ hw = "idle"
  BY DEF DiskInit
<1> QED
  BY <1>1 DEF DataInv

\* Every step keeps the latest contents where DataInv says, if no read fails.
LEMMA DataStep ==
  ASSUME ReadFaults \subseteq {FALSE}, StructInv, DataInv, [DiskNext]_diskVars
  PROVE  DataInv'
<1>1. CASE Running
  BY <1>1, Contents, bget_recycle_KeepsData, Store_KeepsData, iderw_mem_KeepsData,
     DiskDone_KeepsData, ideintr_KeepsData
  DEF Running, Interrupts, Caching, Driving
<1>2. CASE UNCHANGED diskVars
  BY <1>2, SameData DEF diskVars, bufVars, ideVars
<1> QED
  BY <1>1, <1>2 DEF DiskNext, panic, Running

\* ReadsLatest for every number of processes, buffers and blocks: what bread
\* returns is the last contents stored, and the process has the block alone.  The
\* hypothesis is needed: ide.c marks a buffer valid after a read that failed.
THEOREM BlocksReadLatest ==
  ASSUME ReadFaults \subseteq {FALSE}
  PROVE  DiskSpec => []ReadsLatest
<1>1. StructInv /\ DataInv => ReadsLatest
  <2> SUFFICES ASSUME StructInv, DataInv, NEW p \in Procs, pc[p] = "have"
               PROVE  /\ buf[b[p]].holder = p /\ buf[b[p]].blockno = want[p]
                      /\ buf[b[p]].data = last[want[p]]
                      /\ \A q \in Procs : q # p /\ pc[q] = "have" => want[q] # want[p]
    BY DEF ReadsLatest
  <2>1. /\ b[p] \in Bufs /\ buf[b[p]].holder = p /\ buf[b[p]].valid
        /\ buf[b[p]].blockno = want[p] /\ want[p] \in Blocks
    BY Having
  <2>2. buf[b[p]].data = last[want[p]]
    BY <2>1 DEF DataInv
  <2>3. ASSUME NEW q \in Procs, q # p, pc[q] = "have" PROVE want[q] # want[p]
    <3>1. b[q] \in Bufs /\ buf[b[q]].holder = q /\ buf[b[q]].blockno = want[q]
      BY <2>3, Having
    <3> QED
      BY <2>1, <2>3, <3>1, Sentinels DEF StructInv, CacheInv
  <2> QED
    BY <2>1, <2>2, <2>3
<1>2. StructInv /\ DataInv /\ [DiskNext]_diskVars => DataInv'
  BY DataStep
<1> QED
  BY <1>1, <1>2, DataInit, DiskStructure, PTL DEF DiskSpec


-----------------------------------------------------------------------------
(* Enough buffers *)

\* The logged buffers can be counted.
LEMMA LoggedFinite == IsFiniteSet(Logged) /\ Cardinality(Logged) \in Nat
  <1>1. IsFiniteSet(Bufs)
    BY DiskAssumption, FS_Interval DEF Bufs
  <1>2. Logged \in SUBSET Bufs
    BY DEF Logged
  <1> QED
    BY <1>1, <1>2, FS_Subset, FS_CardinalityType

\* A step after which the log keeps no more buffers than before.
LEMMA FewerLogged ==
  ASSUME PinInv, \A x \in Bufs : x \in Logged' => x \in Logged
  PROVE  PinInv'
  <1>1. Logged' \in SUBSET Logged
    BY DEF Logged
  <1>2. Cardinality(Logged') <= Cardinality(Logged) /\ Cardinality(Logged') \in Nat
    BY <1>1, LoggedFinite, FS_Subset, FS_CardinalityType
  <1> QED
    BY <1>2, LoggedFinite, DiskAssumption DEF PinInv

\* The processes that write, and the dirty buffers, decide what is logged.
LEMMA SameLogged ==
  ASSUME NEW x \in Bufs, x \in Logged', buf'[x].dirty => buf[x].dirty,
         \A q \in Procs : b[q] = x /\ pc[q] \in {"iderw", "wait"} => b'[q] = x /\ pc'[q] \in {"iderw", "wait"}
  PROVE  x \in Logged
  BY DEF Logged

\* log_write keeps one more buffer only while the transaction has room.
LEMMA log_write_KeepsPin ==
  ASSUME StructInv, PinInv, NEW p \in Procs, NEW v \in Values, log_write(p, v)
  PROVE  PinInv'
<1>1. PICK x \in Bufs : x = b[p]
  BY Having DEF log_write
<1>2. buf[x].holder = p /\ pc[p] = "have" /\ ~Queued(x)
  BY <1>1, Having DEF log_write
<1>3. \A y \in Bufs : y # x => buf'[y] = buf[y]
  BY <1>1, BufStore DEF log_write, StructInv, DiskTypeOK, BufStep
<1>4. UNCHANGED <<pc, b>>
  BY DEF log_write, procVars
<1>5. Logged' \in SUBSET (Logged \cup {x})
  BY <1>3, <1>4 DEF Logged
<1>6. CASE buf[x].dirty
  <2>1. x \in Logged
    BY <1>1, <1>2, <1>6 DEF Logged, StructInv, PlaceInv, PlaceOf
  <2> QED
    BY <1>5, <2>1, FewerLogged
<1>7. CASE ~buf[x].dirty
  <2>1. Logged \in SUBSET Pinned
    <3>1. ASSUME NEW y \in Bufs, y \in Logged, Queued(y) PROVE FALSE
      BY <3>1, Holder DEF Logged, StructInv, QueueInv
    <3> QED
      BY <3>1 DEF Logged, Pinned, Queued
  <2>2. IsFiniteSet(Pinned) /\ Cardinality(Pinned) \in Nat
    <3>1. IsFiniteSet(Bufs) /\ Pinned \in SUBSET Bufs
      BY DiskAssumption, FS_Interval DEF Bufs, Pinned
    <3> QED
      BY <3>1, FS_Subset, FS_CardinalityType
  <2>3. Cardinality(Logged) < MaxPinned
    <3>1. Cardinality(Logged) <= Cardinality(Pinned) /\ Cardinality(Logged) \in Nat
      BY <2>1, <2>2, FS_Subset, LoggedFinite
    <3>2. Cardinality(Pinned) < MaxPinned
      BY <1>1, <1>7 DEF log_write
    <3> QED
      BY <2>2, <3>1, <3>2, DiskAssumption
  <2>4. IsFiniteSet(Logged \cup {x}) /\ Cardinality(Logged \cup {x}) <= Cardinality(Logged) + 1
    <3>1. /\ IsFiniteSet(Logged \cup {x})
          /\ Cardinality(Logged \cup {x}) = IF x \in Logged THEN Cardinality(Logged) ELSE Cardinality(Logged) + 1
      BY LoggedFinite, FS_AddElement
    <3> QED
      BY <3>1, LoggedFinite
  <2>5. Cardinality(Logged') <= Cardinality(Logged \cup {x}) /\ Cardinality(Logged') \in Nat
    BY <1>5, <2>4, FS_Subset, FS_CardinalityType
  <2>6. Cardinality(Logged \cup {x}) \in Nat
    BY <2>4, FS_CardinalityType
  <2> QED
    BY <2>3, <2>4, <2>5, <2>6, LoggedFinite, DiskAssumption DEF PinInv
<1> QED
  BY <1>6, <1>7

\* No step but log_write adds to what the log keeps.
LEMMA PinStep ==
  ASSUME StructInv, PinInv, Running
  PROVE  PinInv'
<1>1. ASSUME NEW p \in Procs, NEW blk \in Blocks, bget_cached(p, blk) PROVE PinInv'
  <2>1. pc[p] = "user" /\ \A q \in Procs : q # p => pc'[q] = pc[q] /\ b'[q] = b[q]
    BY <1>1 DEF bget_cached, goto, StructInv, DiskTypeOK
  <2>2. \A x \in Bufs : buf'[x].dirty = buf[x].dirty
    BY <1>1 DEF bget_cached, Cached, StructInv, DiskTypeOK, Buffer
  <2> QED
    BY <2>1, <2>2, SameLogged, FewerLogged
<1>2. ASSUME NEW p \in Procs, NEW blk \in Blocks, bget_recycle(p, blk) PROVE PinInv'
  <2>1. pc[p] = "user" /\ \A q \in Procs : q # p => pc'[q] = pc[q] /\ b'[q] = b[q]
    BY <1>2 DEF bget_recycle, goto, StructInv, DiskTypeOK
  <2>2. \A x \in Bufs : buf'[x].dirty => buf[x].dirty
    <3>1. CASE Recyclable = {}
      BY <1>2, <3>1 DEF bget_recycle
    <3>2. CASE Recyclable # {}
      <4>1. PICK y \in Recyclable : buf' = [buf EXCEPT ![y].blockno = blk, ![y].refcnt = 1,
                                                       ![y].valid = FALSE, ![y].dirty = FALSE]
        BY <1>2, <3>2 DEF bget_recycle
      <4>2. y \in Bufs
        BY <4>1 DEF Recyclable
      <4> QED
        BY <4>1, <4>2, BufRecycle DEF BufStep, StructInv, DiskTypeOK
    <3> QED
      BY <3>1, <3>2
  <2> QED
    BY <2>1, <2>2, SameLogged, FewerLogged
<1>3. ASSUME NEW p \in Procs, acquiresleep(p) PROVE PinInv'
  <2>1. pc[p] = "lock" /\ UNCHANGED b /\ \A q \in Procs : q # p => pc'[q] = pc[q]
    BY <1>3 DEF acquiresleep, goto, StructInv, DiskTypeOK
  <2>2. \A x \in Bufs : buf'[x].dirty => buf[x].dirty
    BY ZenonT(30), <1>3 DEF acquiresleep, StructInv, DiskTypeOK, Buffer
  <2> QED
    BY <2>1, <2>2, SameLogged, FewerLogged
<1>4. ASSUME NEW p \in Procs, NEW v \in Values, bwrite(p, v) PROVE PinInv'
  <2>1. pc[p] = "have" /\ pc'[p] = "iderw" /\ UNCHANGED b /\ \A q \in Procs : q # p => pc'[q] = pc[q]
    BY <1>4 DEF bwrite, goto, StructInv, DiskTypeOK
  <2>2. \A x \in Bufs : x # b[p] => buf'[x] = buf[x]
    BY <1>4 DEF bwrite, StructInv, DiskTypeOK
  <2>3. b[p] \notin Logged'
    BY <2>1 DEF Logged
  <2> QED
    BY <2>1, <2>2, <2>3, SameLogged, FewerLogged
<1>5. ASSUME NEW p \in Procs, releasesleep(p) PROVE PinInv'
  <2>1. pc[p] = "have" /\ UNCHANGED b /\ \A q \in Procs : q # p => pc'[q] = pc[q]
    BY <1>5 DEF releasesleep, goto, StructInv, DiskTypeOK
  <2>2. \A x \in Bufs : buf'[x].dirty => buf[x].dirty
    BY <1>5 DEF releasesleep, StructInv, DiskTypeOK, Buffer
  <2> QED
    BY <2>1, <2>2, SameLogged, FewerLogged
<1>6. ASSUME NEW p \in Procs, brelse(p) PROVE PinInv'
  <2>1. pc[p] = "put" /\ \A q \in Procs : q # p => pc'[q] = pc[q] /\ b'[q] = b[q]
    BY <1>6 DEF brelse, goto, StructInv, DiskTypeOK
  <2>2. \A x \in Bufs : buf'[x].dirty => buf[x].dirty
    BY <1>6 DEF brelse, StructInv, DiskTypeOK, Buffer
  <2> QED
    BY <2>1, <2>2, SameLogged, FewerLogged
<1>7. ASSUME NEW p \in Procs, iderw(p) PROVE PinInv'
  <2>1. pc'[p] = "wait" /\ UNCHANGED <<b, buf>> /\ \A q \in Procs : q # p => pc'[q] = pc[q]
    BY <1>7 DEF iderw, goto, bufVars, StructInv, DiskTypeOK
  <2> QED
    BY <2>1, SameLogged, FewerLogged
<1>8. ASSUME NEW p \in Procs, iderw_woken(p) PROVE PinInv'
  <2>1. UNCHANGED <<b, buf>> /\ \A q \in Procs : q # p => pc'[q] = pc[q]
    BY <1>8 DEF iderw_woken, goto, bufVars, StructInv, DiskTypeOK
  <2>2. pc'[p] = "wait" \/ b[p] \notin Logged'
    BY <1>8 DEF iderw_woken, goto, bufVars, StructInv, DiskTypeOK, Logged
  <2> QED
    BY <2>1, <2>2, SameLogged, FewerLogged
<1>9. ASSUME NEW p \in Procs, iderw_mem(p) PROVE PinInv'
  <2>1. UNCHANGED b /\ \A q \in Procs : q # p => pc'[q] = pc[q]
    BY <1>9 DEF iderw_mem, goto, StructInv, DiskTypeOK
  <2>2. b[p] \in Bufs
    BY <1>9, Having DEF iderw_mem
  <2>3. (\A x \in Bufs : x # b[p] => buf'[x] = buf[x]) /\ ~buf'[b[p]].dirty
    BY <1>9, <2>2 DEF iderw_mem, StructInv, DiskTypeOK, Buffer
  <2>4. b[p] \notin Logged'
    BY <2>3 DEF Logged
  <2> QED
    BY <2>1, <2>3, <2>4, SameLogged, FewerLogged
<1>10. ASSUME DiskDone PROVE PinInv'
  BY <1>10 DEF DiskDone, bufVars, procVars, PinInv, Logged
<1>11. ASSUME NEW failed \in BOOLEAN, ideintr(failed) PROVE PinInv'
  <2>1. UNCHANGED <<pc, b>> /\ \A x \in Bufs : buf'[x].dirty => buf[x].dirty
    BY <1>11, ideintr_Effect DEF BufStep
  <2> QED
    BY <2>1, SameLogged, FewerLogged
<1> QED
  BY <1>1, <1>2, <1>3, <1>4, <1>5, <1>6, <1>7, <1>8, <1>9, <1>10, <1>11, log_write_KeepsPin,
     DiskAssumption
  DEF Running, Interrupts, Caching, Driving

\* Without a buffer to recycle, every buffer is in use or kept by the log.
LEMMA BuffersTaken ==
  ASSUME StructInv, PinInv, Recyclable = {}
  PROVE  /\ \A x \in Bufs : buf[x].dirty \/ \E p \in InUse : b[p] = x
         /\ NBUF <= MaxPinned + Cardinality(InUse)
<1> DEFINE Used == {x \in Bufs : \E q \in InUse : b[q] = x}
           f == [q \in InUse |-> b[q]]
<1>1. \A x \in Bufs : buf[x].refcnt # 0 \/ buf[x].dirty
  BY DEF Recyclable
<1>2. \A x \in Bufs : buf[x].refcnt # 0 => x \in Used
  <2> SUFFICES ASSUME NEW x \in Bufs, buf[x].refcnt # 0 PROVE x \in Used
    OBVIOUS
  <2>1. Users(x) # {}
    BY FS_EmptySet DEF StructInv, RefInv
  <2> QED
    BY <2>1, Sentinels DEF Users, InUse
<1>3. Bufs \in SUBSET (Used \cup Logged)
  <2> SUFFICES ASSUME NEW x \in Bufs, x \notin Logged PROVE x \in Used
    OBVIOUS
  <2>1. CASE buf[x].refcnt # 0
    BY <1>2, <2>1
  <2>2. CASE buf[x].dirty
    BY <2>2, Sentinels DEF Logged, InUse
  <2> QED
    BY <1>1, <2>1, <2>2
<1>4. IsFiniteSet(InUse) /\ Cardinality(InUse) \in Nat
  <2>1. InUse \in SUBSET Procs
    BY DEF InUse
  <2> QED
    BY <2>1, DiskAssumption, FS_Subset, FS_CardinalityType
<1>5. f \in Surjection(InUse, Used)
  <2>1. \A q \in InUse : b[q] \in Bufs
    BY DEF InUse, StructInv, DiskTypeOK
  <2> QED
    BY <2>1 DEF Surjection
<1>6. IsFiniteSet(Used) /\ Cardinality(Used) <= Cardinality(InUse) /\ Cardinality(Used) \in Nat
  <2> HIDE DEF Used, f
  <2> QED
    BY <1>4, <1>5, FS_Surjection, FS_CardinalityType
<1>7. \A x \in Bufs : buf[x].dirty \/ \E p \in InUse : b[p] = x
  BY <1>1, <1>2
<1> HIDE DEF Used, f
<1>8. /\ IsFiniteSet(Used \cup Logged) /\ Cardinality(Used \cap Logged) \in Nat
      /\ Cardinality(Used \cup Logged) = Cardinality(Used) + Cardinality(Logged) - Cardinality(Used \cap Logged)
  BY <1>6, LoggedFinite, FS_Union, FS_Intersection, FS_CardinalityType
<1>9. IsFiniteSet(Bufs) /\ Cardinality(Bufs) = NBUF
  BY DiskAssumption, FS_Interval DEF Bufs
<1>10. NBUF <= Cardinality(Used \cup Logged) /\ NBUF \in Nat /\ MaxPinned \in Nat
  BY <1>3, <1>8, <1>9, FS_Subset, DiskAssumption
<1>11. NBUF <= MaxPinned + Cardinality(InUse)
  BY <1>4, <1>6, <1>8, <1>10, LoggedFinite DEF PinInv
<1> QED
  BY <1>7, <1>11

\* For every number of buffers and of uses: when bget panics, every buffer is dirty or in
\* somebody's hands, and as many are in use as the log leaves.
THEOREM PanicMeansFull == DiskSpec => []PanicsOnlyWhenFull
<1>1. DiskInit => PinInv /\ PanicsOnlyWhenFull
  <2> SUFFICES ASSUME DiskInit PROVE PinInv /\ PanicsOnlyWhenFull
    OBVIOUS
  <2>1. Logged = {} /\ ~panicked
    BY DEF DiskInit, Logged
  <2> QED
    BY <2>1, FS_EmptySet, DiskAssumption DEF PinInv, PanicsOnlyWhenFull
<1>2. ASSUME StructInv, PinInv, PanicsOnlyWhenFull, [DiskNext]_diskVars PROVE PinInv' /\ PanicsOnlyWhenFull'
  <2>1. CASE ~panicked /\ (Interrupts \/ \E p \in Procs : Caching(p) \/ Driving(p))
    <3>1. ASSUME panicked' PROVE PanicsOnlyWhenFull'
      <4>1. PICK p \in Procs, blk \in Blocks : bget_recycle(p, blk) /\ panicked' # panicked
        BY ZenonT(30), <2>1, <3>1
        DEF Interrupts, Caching, Driving, bget_cached, bwrite, log_write, acquiresleep,
           releasesleep, brelse, iderw, iderw_woken, iderw_mem, DiskDone, ideintr
      <4>2. Recyclable = {} /\ UNCHANGED <<buf, b>>
        BY <4>1 DEF bget_recycle
      <4>3. /\ \A x \in Bufs : buf[x].dirty \/ \E q \in InUse : b[q] = x
            /\ NBUF <= MaxPinned + Cardinality(InUse)
        BY <1>2, <4>2, BuffersTaken
      <4> QED
        BY <4>2, <4>3 DEF PanicsOnlyWhenFull, InUse
    <3>2. PinInv'
      BY <1>2, <2>1, PinStep DEF Running
    <3> QED
      BY <3>1, <3>2 DEF PanicsOnlyWhenFull
  <2>2. CASE UNCHANGED diskVars
    BY <1>2, <2>2 DEF diskVars, bufVars, procVars, PinInv, Logged, PanicsOnlyWhenFull, InUse
  <2> QED
    BY <1>2, <2>1, <2>2 DEF DiskNext, panic
<1> QED
  BY <1>1, <1>2, DiskStructure, PTL DEF DiskSpec
=============================================================================
