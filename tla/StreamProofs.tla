---------------------------- MODULE StreamProofs ----------------------------
(***************************************************************************)
(* Proofs about the console and the pipe of a pipeline (module Stream), for   *)
(* rings of any size, screens of any size and indices of any width: nobody   *)
(* sleeps for what is already there, and the screen shows what was typed of   *)
(* the line since others printed.                                          *)
(***************************************************************************)
EXTENDS Stream, TLAPS

-----------------------------------------------------------------------------
(* Remainders *)

\* What % and \div are.
LEMMA Remainder ==
  ASSUME NEW a \in Int, NEW m \in Nat \ {0}
  PROVE  /\ a % m \in 0 .. m - 1 /\ a \div m \in Int
         /\ a = m * (a \div m) + (a % m)
OBVIOUS

\* A multiple of m that is less than m is 0.
LEMMA SmallMultiple ==
  ASSUME NEW m \in Nat \ {0}, NEW d \in Int, m * d < m, -m < m * d
  PROVE  d = 0
<1>1. ASSUME d >= 1 PROVE FALSE
  <2>1. PICK c \in Nat : d = 1 + c
    <3>1. d - 1 \in Nat /\ d = 1 + (d - 1)
      BY <1>1
    <3> QED
      BY <3>1
  <2>2. m * d = m + m * c /\ m * c \in Nat
    BY <2>1
  <2> QED
    BY <2>2
<1>2. ASSUME d <= -1 PROVE FALSE
  <2>1. PICK c \in Nat : d = -1 - c
    <3>1. -1 - d \in Nat /\ d = -1 - (-1 - d)
      BY <1>2
    <3> QED
      BY <3>1
  <2>2. m * d = -m - m * c /\ m * c \in Nat
    BY <2>1
  <2> QED
    BY <2>2
<1> QED
  BY <1>1, <1>2

\* The remainder is unique.
LEMMA RemainderIs ==
  ASSUME NEW m \in Nat \ {0}, NEW q \in Int, NEW r \in 0 .. m - 1
  PROVE  (m * q + r) % m = r
<1>1. PICK a \in Int : a = m * q + r
  OBVIOUS
<1>2. PICK p \in Int, s \in 0 .. m - 1 : a = m * p + s /\ s = a % m
  BY <1>1, Remainder
<1>3. PICK d \in Int : d = q - p
  OBVIOUS
<1> PICK x \in Int, y \in Int : x = m * q /\ y = m * p
  OBVIOUS
<1>4. m * d = x - y
  BY <1>3
<1>5. m * d = s - r
  <2>1. a = x + r /\ a = y + s
    BY <1>1, <1>2
  <2>2. x - y = s - r
    BY <2>1
  <2> QED
    BY <1>4, <2>2
<1>6. m * d < m /\ -m < m * d
  BY <1>5
<1>7. d = 0
  BY <1>6, SmallMultiple
<1>8. s = r
  BY <1>5, <1>7
<1> QED
  BY <1>1, <1>2, <1>8

\* Small numbers are their own remainders.
LEMMA SmallRemainder ==
  ASSUME NEW m \in Nat \ {0}, NEW r \in 0 .. m - 1
  PROVE  r % m = r
<1>1. (m * 0 + r) % m = r
  BY RemainderIs
<1> QED
  BY <1>1

\* A remainder may be taken early.
LEMMA RemainderPlus ==
  ASSUME NEW m \in Nat \ {0}, NEW a \in Int, NEW b \in Int
  PROVE  ((a % m) + b) % m = (a + b) % m
<1>1. PICK p \in Int, s \in 0 .. m - 1 : a = m * p + s /\ s = a % m
  BY Remainder
<1>2. PICK q \in Int, t \in 0 .. m - 1 : a + b = m * q + t /\ t = (a + b) % m
  <2>1. PICK c \in Int : c = a + b
    OBVIOUS
  <2>2. c % m \in 0 .. m - 1 /\ c \div m \in Int /\ c = m * (c \div m) + (c % m)
    BY Remainder
  <2> QED
    BY <2>1, <2>2
<1>3. s + b = m * q - m * p + t /\ m * (q - p) = m * q - m * p
  BY <1>1, <1>2
<1>4. s + b = m * (q - p) + t /\ q - p \in Int
  BY <1>3
<1>5. (m * (q - p) + t) % m = t
  BY <1>4, RemainderIs
<1> QED
  BY <1>1, <1>2, <1>4, <1>5

\* A remainder of a remainder, when the first divisor is a multiple of the second.
LEMMA RemainderTwice ==
  ASSUME NEW m \in Nat \ {0}, NEW n \in Nat \ {0}, m % n = 0, NEW a \in Int
  PROVE  (a % m) % n = a % n
<1>1. PICK k \in Int : m = n * k
  BY Remainder
<1>2. PICK p \in Int, s \in 0 .. m - 1 : a = m * p + s /\ s = a % m
  BY Remainder
<1>3. PICK q \in Int, t \in 0 .. n - 1 : s = n * q + t /\ t = s % n
  <2>1. s \in Int
    OBVIOUS
  <2>2. s % n \in 0 .. n - 1 /\ s \div n \in Int /\ s = n * (s \div n) + (s % n)
    BY <2>1, Remainder
  <2> QED
    BY <2>2
<1>4. PICK j \in Int : j = k * p + q
  BY <1>1
<1>5. m * p = n * (k * p)
  BY <1>1
<1>6. n * j = n * (k * p) + n * q
  BY <1>4
<1>7. a = n * j + t
  <2> PICK x \in Int, y \in Int : x = n * (k * p) /\ y = n * q
    BY <1>1
  <2>1. a = x + s /\ s = y + t /\ n * j = x + y
    BY <1>2, <1>3, <1>5, <1>6
  <2>2. a = (x + y) + t
    BY <2>1
  <2> QED
    BY <2>1, <2>2
<1>8. (n * j + t) % n = t
  BY RemainderIs
<1> QED
  BY <1>2, <1>3, <1>7, <1>8

-----------------------------------------------------------------------------
(* The pipe: who sleeps *)

Ends == {pipeWriter, pipeReader}

WriterAt == {"user", "write", "writeloop", "writesleep", "failed", "close", "closing", "closed"}
ReaderAt == {"user", "read", "readloop", "readsleep", "failed", "close", "closing", "closed"}

\* Where p->lock is held.
InLock == {"writeloop", "writesleep", "readloop", "readsleep", "closing"}

\* Processes are in one call at a time, and asleep only where it sleeps.
PipeTypeOK ==
  /\ consReader = pipeWriter
  /\ DOMAIN chan = Procs
  /\ DOMAIN pipe = {"data", "nread", "nwrite", "readopen", "writeopen"}
  /\ pipe.nread \in Nat /\ pipe.nwrite \in Nat
  /\ ppc \in [Ends -> WriterAt \cup ReaderAt]
  /\ ppc[pipeWriter] \in WriterAt /\ ppc[pipeReader] \in ReaderAt
  /\ rpc # "user" => ppc[pipeWriter] = "user"
  /\ chan[pipeWriter] = WriteChan => ppc[pipeWriter] = "write"
  /\ chan[pipeReader] = ReadChan => ppc[pipeReader] = "read"

\* p->lock is with the process that is between acquire and release.
PipeLockInv == \A p \in Ends : plock = p <=> ppc[p] \in InLock

\* A writer that sleeps, or is about to, has a full pipe and a reader; a reader an
\* empty pipe and a writer, unless the writer has stored something and will wake it.
SleeperInv ==
  /\ ppc[pipeWriter] = "writesleep" \/ chan[pipeWriter] = WriteChan => Full /\ pipe.readopen
  /\ ppc[pipeReader] = "readsleep" => pipe.nread = pipe.nwrite /\ pipe.writeopen
  /\ chan[pipeReader] = ReadChan =>
       /\ pipe.writeopen
       /\ pipe.nread = pipe.nwrite \/ ppc[pipeWriter] \in Leaving \cup {"writeloop"}

SleepInv == PipeTypeOK /\ PipeLockInv /\ SleeperInv

\* The two ends are two processes and the channels are three.
LEMMA StreamNames ==
  /\ pipeWriter \in Ends /\ pipeReader \in Ends /\ pipeWriter # pipeReader
  /\ Ends \subseteq Procs /\ NoPipeLock \notin Ends
  /\ ReadChan # WriteChan /\ ReadChan # InputChan /\ WriteChan # InputChan
  /\ Awake # ReadChan /\ Awake # WriteChan
BY PipeAssumption DEF Ends, NoPipeLock, ReadChan, WriteChan, InputChan, Awake

\* A step that leaves the pipe alone may wake processes.
LEMMA SleepersWake ==
  ASSUME SleepInv, UNCHANGED pipeVars, DOMAIN chan' = Procs,
         rpc' # "user" => ppc[pipeWriter] = "user",
         \A p \in Ends : chan'[p] \in {ReadChan, WriteChan} => chan'[p] = chan[p]
  PROVE  SleepInv'
<1>1. UNCHANGED <<pipe, plock, ppc>>
  BY DEF pipeVars
<1>2. Full' = Full
  BY <1>1 DEF Full
<1> QED
  BY <1>1, <1>2, StreamNames DEF SleepInv, PipeTypeOK, PipeLockInv, SleeperInv

\* Nobody else sleeps on the channels of the pipe because of the console.
LEMMA ConsoleSleepers ==
  ASSUME SleepInv, Typing \/ Reading(consReader) \/ Killing
  PROVE  SleepInv'
<1>1. UNCHANGED pipeVars
  BY DEF Typing, Reading, Killing
<1>2. CASE Typing
  <2>1. /\ rpc' = rpc
        /\ chan' = chan \/ chan' = Woken(InputChan)
    <3>1. ASSUME NEW c, consoleintr(c) PROVE chan' = chan \/ chan' = Woken(InputChan)
      <4>1. ASSUME Store(c) PROVE chan' = chan \/ chan' = Woken(InputChan)
        BY <4>1 DEF Store
      <4> QED
        BY <3>1, <4>1 DEF consoleintr
    <3>2. ASSUME NEW c, uartintr(c)
          PROVE  rpc' = rpc /\ (chan' = chan \/ chan' = Woken(InputChan))
      BY <3>1, <3>2 DEF uartintr, readVars
    <3>3. ASSUME NEW key, NEW up, kbdintr(key, up)
          PROVE  rpc' = rpc /\ (chan' = chan \/ chan' = Woken(InputChan))
      <4>1. rpc' = rpc /\ \E c : consoleintr(c)
        BY <3>3 DEF kbdintr, readVars
      <4> QED
        BY <3>1, <4>1
    <3>4. ASSUME NEW c, cprintf(c) PROVE rpc' = rpc /\ chan' = chan
      BY <3>4 DEF cprintf, readVars
    <3> QED
      BY <1>2, <3>2, <3>3, <3>4 DEF Typing
  <2>2. /\ DOMAIN chan' = Procs
        /\ \A p \in Ends : chan'[p] \in {ReadChan, WriteChan} => chan'[p] = chan[p]
    BY <2>1, StreamNames DEF Woken, SleepInv, PipeTypeOK
  <2>3. rpc' # "user" => ppc[pipeWriter] = "user"
    BY <2>1 DEF SleepInv, PipeTypeOK
  <2> QED
    BY <1>1, <2>2, <2>3, SleepersWake
<1>3. CASE Reading(consReader)
  <2>1. /\ rpc # "user"
        /\ chan' = chan \/ chan' = [chan EXCEPT ![consReader] = InputChan]
    BY <1>3 DEF Reading, consoleread, consoleread_empty, consoleread_sleep, consoleread_char,
                sleep
  <2>2. /\ DOMAIN chan' = Procs
        /\ \A p \in Ends : chan'[p] \in {ReadChan, WriteChan} => chan'[p] = chan[p]
    BY <2>1, StreamNames DEF SleepInv, PipeTypeOK
  <2>3. ppc[pipeWriter] = "user"
    BY <2>1 DEF SleepInv, PipeTypeOK
  <2> QED
    BY <1>1, <2>2, <2>3, SleepersWake
<1>4. CASE Killing
  <2>1. /\ rpc' = rpc
        /\ \E q \in Procs : chan' = [chan EXCEPT ![q] = Awake]
    BY <1>4 DEF Killing, kill, consoleVars, readVars
  <2>2. /\ DOMAIN chan' = Procs
        /\ \A p \in Ends : chan'[p] \in {ReadChan, WriteChan} => chan'[p] = chan[p]
    BY <2>1, StreamNames DEF SleepInv, PipeTypeOK
  <2>3. rpc' # "user" => ppc[pipeWriter] = "user"
    BY <2>1 DEF SleepInv, PipeTypeOK
  <2> QED
    BY <1>1, <2>2, <2>3, SleepersWake
<1> QED
  BY <1>2, <1>3, <1>4

\* A program between two calls goes to another call or ends.
LEMMA ProgramSleepers ==
  ASSUME SleepInv, NEW p \in Ends,
         \/ cat_read(p) /\ p = pipeWriter
         \/ cat_write(p) /\ p = pipeWriter
         \/ (wc_read(p) \/ wc_end(p)) /\ p = pipeReader
         \/ exit(p)
  PROVE  SleepInv'
<1>1. UNCHANGED <<pipe, plock, chan>>
  BY DEF cat_read, cat_write, wc_read, wc_end, exit
<1>2. PICK to \in {"user", "write", "read", "close"} :
        /\ ppc' = [ppc EXCEPT ![p] = to] /\ ppc[p] \in {"user", "failed"}
        /\ to = "write" => p = pipeWriter
        /\ to = "read" => p = pipeReader
        /\ to = "user" => ppc[p] = "user"
        /\ ppc[p] = "failed" => to = "close"
        /\ p = pipeWriter /\ rpc' # "user" => to = "user" /\ ppc[p] = "user"
        /\ p = pipeReader => rpc' = rpc
        /\ p = pipeWriter \/ p = pipeReader
  <2>0. ppc \in [Ends -> WriterAt \cup ReaderAt] /\ (rpc # "user" => ppc[pipeWriter] = "user")
    BY DEF SleepInv, PipeTypeOK
  <2>1. CASE cat_read(p) /\ p = pipeWriter
    <3>1. CASE killed[p]
      BY <2>1, <3>1 DEF cat_read, goto
    <3>2. CASE ~killed[p]
      <4>1. ppc' = [ppc EXCEPT ![p] = "user"] /\ ppc[p] = "user"
        BY <2>0, <2>1, <3>2 DEF cat_read
      <4> QED
        BY <2>1, <4>1, StreamNames
    <3> QED
      BY <3>1, <3>2
  <2>2. CASE cat_write(p) /\ p = pipeWriter
    BY <2>0, <2>2, StreamNames DEF cat_write, goto
  <2>3. CASE (wc_read(p) \/ wc_end(p)) /\ p = pipeReader
    BY <2>3, StreamNames DEF wc_read, wc_end, goto, consoleVars, readVars
  <2>4. CASE exit(p)
    BY <2>0, <2>4 DEF exit, goto, consoleVars, readVars, Ends
  <2> QED
    BY <2>1, <2>2, <2>3, <2>4
<1>3. /\ ppc'[p] = to /\ \A q \in Ends : q # p => ppc'[q] = ppc[q]
      /\ ppc' \in [Ends -> WriterAt \cup ReaderAt]
  BY <1>2 DEF SleepInv, PipeTypeOK, WriterAt, ReaderAt
<1>4. PipeTypeOK'
  BY <1>1, <1>2, <1>3, StreamNames DEF SleepInv, PipeTypeOK, WriterAt, ReaderAt
<1>5. PipeLockInv'
  BY <1>1, <1>2, <1>3, StreamNames DEF SleepInv, PipeLockInv, InLock
<1>6. Full' = Full
  BY <1>1 DEF Full
<1>7. SleeperInv'
  BY <1>1, <1>2, <1>3, <1>6, StreamNames DEF SleepInv, PipeTypeOK, SleeperInv, Leaving
<1> QED
  BY <1>4, <1>5, <1>7 DEF SleepInv

\* Waking the sleepers of a channel, as wakeup does.
LEMMA WokenSleepers ==
  ASSUME DOMAIN chan = Procs, NEW ch, chan' = Woken(ch)
  PROVE  /\ DOMAIN chan' = Procs
         /\ \A p \in Ends : chan'[p] = chan[p] \/ chan'[p] = Awake
         /\ \A p \in Ends : chan'[p] = ch => ch = Awake
BY StreamNames DEF Woken

\* Where goto leads, and what it leaves alone.
LEMMA Gone ==
  ASSUME PipeTypeOK, NEW p \in Ends, NEW to \in WriterAt \cup ReaderAt, goto(p, to)
  PROVE  /\ ppc' \in [Ends -> WriterAt \cup ReaderAt]
         /\ ppc'[p] = to /\ \A q \in Ends : q # p => ppc'[q] = ppc[q]
BY DEF PipeTypeOK, goto

\* A step of the writer.
LEMMA WriterSleepers ==
  ASSUME SleepInv,
         \/ pipewrite(pipeWriter) \/ pipewrite_full(pipeWriter)
         \/ pipewrite_sleep(pipeWriter) \/ pipewrite_done(pipeWriter),
         rpc' = rpc
  PROVE  SleepInv'
<1>1. CASE pipewrite(pipeWriter)
  <2>1. /\ ppc[pipeWriter] = "writeloop" /\ UNCHANGED <<plock, ppc, chan>>
        /\ pipe' = [pipe EXCEPT !.data[pipe.nwrite % PIPESIZE] = addr[sent + 1],
                                !.nwrite = puint(@ + 1)]
    BY <1>1 DEF pipewrite
  <2>2. /\ pipe'.readopen = pipe.readopen /\ pipe'.writeopen = pipe.writeopen
        /\ DOMAIN pipe' = DOMAIN pipe /\ pipe'.nread = pipe.nread
        /\ pipe'.nwrite = puint(pipe.nwrite + 1)
    BY <2>1 DEF SleepInv, PipeTypeOK
  <2>6. pipe'.nwrite \in Nat
    BY <2>2, PipeAssumption DEF SleepInv, PipeTypeOK, puint
  <2>3. PipeTypeOK' /\ PipeLockInv'
    BY <2>1, <2>2, <2>6 DEF SleepInv, PipeTypeOK, PipeLockInv
  <2>4. /\ chan[pipeWriter] # WriteChan /\ plock = pipeWriter /\ ppc[pipeReader] # "readsleep"
    BY <2>1, StreamNames DEF SleepInv, PipeTypeOK, PipeLockInv, InLock
  <2>5. SleeperInv'
    BY <2>1, <2>2, <2>4 DEF SleepInv, SleeperInv
  <2> QED
    BY <2>3, <2>5 DEF SleepInv
<1>2. CASE pipewrite_full(pipeWriter)
  <2>1. /\ ppc[pipeWriter] = "writeloop" /\ Full /\ UNCHANGED pipe
        /\ \/ /\ plock' = NoPipeLock /\ goto(pipeWriter, "failed") /\ chan' = chan
           \/ /\ pipe.readopen /\ plock' = plock /\ goto(pipeWriter, "writesleep")
              /\ chan' = Woken(ReadChan)
    BY <1>2 DEF pipewrite_full, release, wakeup
  <2>2. plock = pipeWriter /\ ppc[pipeReader] \notin InLock /\ chan[pipeWriter] # WriteChan
    BY <2>1, StreamNames DEF SleepInv, PipeTypeOK, PipeLockInv, InLock
  <2>3. Full' = Full
    BY <2>1 DEF Full
  <2>4. CASE plock' = NoPipeLock /\ goto(pipeWriter, "failed") /\ chan' = chan
    <3>1. /\ ppc' \in [Ends -> WriterAt \cup ReaderAt]
          /\ ppc'[pipeWriter] = "failed" /\ ppc'[pipeReader] = ppc[pipeReader]
      BY <2>4, StreamNames, Gone DEF SleepInv, WriterAt
    <3>2. PipeTypeOK' /\ PipeLockInv'
      BY <2>1, <2>2, <2>4, <3>1, StreamNames
      DEF SleepInv, PipeTypeOK, PipeLockInv, InLock, WriterAt, Ends
    <3>3. SleeperInv'
      BY <2>1, <2>2, <2>3, <2>4, <3>1 DEF SleepInv, SleeperInv, Leaving, InLock
    <3> QED
      BY <3>2, <3>3 DEF SleepInv
  <2>5. CASE /\ pipe.readopen /\ plock' = plock /\ goto(pipeWriter, "writesleep")
             /\ chan' = Woken(ReadChan)
    <3>1. /\ ppc' \in [Ends -> WriterAt \cup ReaderAt]
          /\ ppc'[pipeWriter] = "writesleep" /\ ppc'[pipeReader] = ppc[pipeReader]
      BY <2>5, StreamNames, Gone DEF SleepInv, WriterAt
    <3>2. /\ DOMAIN chan' = Procs /\ chan'[pipeReader] # ReadChan
          /\ chan'[pipeWriter] # WriteChan
      BY <2>2, <2>5, StreamNames, WokenSleepers DEF SleepInv, PipeTypeOK
    <3>3. PipeTypeOK' /\ PipeLockInv'
      BY <2>1, <2>2, <2>5, <3>1, <3>2, StreamNames
      DEF SleepInv, PipeTypeOK, PipeLockInv, InLock, WriterAt, Ends
    <3>4. SleeperInv'
      BY <2>1, <2>2, <2>3, <2>5, <3>1, <3>2 DEF SleeperInv, InLock
    <3> QED
      BY <3>3, <3>4 DEF SleepInv
  <2> QED
    BY <2>1, <2>4, <2>5
<1>3. CASE pipewrite_sleep(pipeWriter)
  <2>1. /\ ppc[pipeWriter] = "writesleep" /\ UNCHANGED pipe /\ plock' = NoPipeLock
        /\ goto(pipeWriter, "write") /\ chan' = [chan EXCEPT ![pipeWriter] = WriteChan]
    BY <1>3 DEF pipewrite_sleep, release, sleep
  <2>2. plock = pipeWriter /\ ppc[pipeReader] \notin InLock
    BY <2>1, StreamNames DEF SleepInv, PipeLockInv, InLock
  <2>3. Full' = Full
    BY <2>1 DEF Full
  <2>4. /\ ppc' \in [Ends -> WriterAt \cup ReaderAt]
        /\ ppc'[pipeWriter] = "write" /\ ppc'[pipeReader] = ppc[pipeReader]
    BY <2>1, StreamNames, Gone DEF SleepInv, WriterAt
  <2>5. DOMAIN chan' = Procs /\ chan'[pipeReader] = chan[pipeReader]
    BY <2>1, StreamNames DEF SleepInv, PipeTypeOK
  <2>6. PipeTypeOK' /\ PipeLockInv'
    BY <2>1, <2>2, <2>4, <2>5, StreamNames
    DEF SleepInv, PipeTypeOK, PipeLockInv, InLock, WriterAt, Ends
  <2>7. SleeperInv'
    BY <2>1, <2>2, <2>3, <2>4, <2>5 DEF SleepInv, SleeperInv, Leaving, InLock
  <2> QED
    BY <2>6, <2>7 DEF SleepInv
<1>4. CASE pipewrite_done(pipeWriter)
  <2>1. /\ ppc[pipeWriter] = "writeloop" /\ UNCHANGED pipe /\ plock' = NoPipeLock
        /\ goto(pipeWriter, "user") /\ chan' = Woken(ReadChan)
    BY <1>4 DEF pipewrite_done, release, wakeup
  <2>2. plock = pipeWriter /\ ppc[pipeReader] \notin InLock /\ chan[pipeWriter] # WriteChan
    BY <2>1, StreamNames DEF SleepInv, PipeTypeOK, PipeLockInv, InLock
  <2>4. /\ ppc' \in [Ends -> WriterAt \cup ReaderAt]
        /\ ppc'[pipeWriter] = "user" /\ ppc'[pipeReader] = ppc[pipeReader]
    BY <2>1, StreamNames, Gone DEF SleepInv, WriterAt
  <2>5. /\ DOMAIN chan' = Procs /\ chan'[pipeReader] # ReadChan
        /\ chan'[pipeWriter] # WriteChan
    BY <2>1, <2>2, StreamNames, WokenSleepers DEF SleepInv, PipeTypeOK
  <2>6. PipeTypeOK' /\ PipeLockInv'
    BY <2>1, <2>2, <2>4, <2>5, StreamNames
    DEF SleepInv, PipeTypeOK, PipeLockInv, InLock, WriterAt, Ends
  <2>7. SleeperInv'
    BY <2>2, <2>4, <2>5 DEF SleeperInv, InLock
  <2> QED
    BY <2>6, <2>7 DEF SleepInv
<1> QED
  BY <1>1, <1>2, <1>3, <1>4

\* A step of the reader.
LEMMA ReaderSleepers ==
  ASSUME SleepInv,
         piperead_empty(pipeReader) \/ piperead_sleep(pipeReader) \/ piperead(pipeReader),
         rpc' = rpc
  PROVE  SleepInv'
<1>1. CASE piperead_empty(pipeReader)
  <2>1. /\ ppc[pipeReader] = "readloop" /\ UNCHANGED <<pipe, chan>>
        /\ pipe.nread = pipe.nwrite /\ pipe.writeopen
        /\ \/ plock' = NoPipeLock /\ goto(pipeReader, "failed")
           \/ plock' = plock /\ goto(pipeReader, "readsleep")
    BY <1>1 DEF piperead_empty, release
  <2>2. plock = pipeReader /\ ppc[pipeWriter] \notin InLock /\ chan[pipeReader] # ReadChan
    BY <2>1, StreamNames DEF SleepInv, PipeTypeOK, PipeLockInv, InLock
  <2>3. Full' = Full
    BY <2>1 DEF Full
  <2>4. PICK to \in {"failed", "readsleep"} :
          /\ goto(pipeReader, to)
          /\ plock' = IF to = "failed" THEN NoPipeLock ELSE plock
    BY <2>1
  <2>5. /\ ppc' \in [Ends -> WriterAt \cup ReaderAt]
        /\ ppc'[pipeReader] = to /\ ppc'[pipeWriter] = ppc[pipeWriter]
    BY <2>4, StreamNames, Gone DEF SleepInv, ReaderAt
  <2>6. PipeTypeOK' /\ PipeLockInv'
    BY <2>1, <2>2, <2>4, <2>5, StreamNames
    DEF SleepInv, PipeTypeOK, PipeLockInv, InLock, ReaderAt, Ends
  <2>7. SleeperInv'
    BY <2>1, <2>2, <2>3, <2>5 DEF SleepInv, SleeperInv
  <2> QED
    BY <2>6, <2>7 DEF SleepInv
<1>2. CASE piperead_sleep(pipeReader)
  <2>1. /\ ppc[pipeReader] = "readsleep" /\ UNCHANGED pipe /\ plock' = NoPipeLock
        /\ goto(pipeReader, "read") /\ chan' = [chan EXCEPT ![pipeReader] = ReadChan]
    BY <1>2 DEF piperead_sleep, release, sleep
  <2>2. plock = pipeReader /\ ppc[pipeWriter] \notin InLock
    BY <2>1, StreamNames DEF SleepInv, PipeLockInv, InLock
  <2>3. Full' = Full
    BY <2>1 DEF Full
  <2>4. /\ ppc' \in [Ends -> WriterAt \cup ReaderAt]
        /\ ppc'[pipeReader] = "read" /\ ppc'[pipeWriter] = ppc[pipeWriter]
    BY <2>1, StreamNames, Gone DEF SleepInv, ReaderAt
  <2>5. DOMAIN chan' = Procs /\ chan'[pipeWriter] = chan[pipeWriter]
    BY <2>1, StreamNames DEF SleepInv, PipeTypeOK
  <2>6. PipeTypeOK' /\ PipeLockInv'
    BY <2>1, <2>2, <2>4, <2>5, StreamNames
    DEF SleepInv, PipeTypeOK, PipeLockInv, InLock, ReaderAt, Ends
  <2>7. SleeperInv'
    BY <2>1, <2>2, <2>3, <2>4, <2>5 DEF SleepInv, SleeperInv
  <2> QED
    BY <2>6, <2>7 DEF SleepInv
<1>3. CASE piperead(pipeReader)
  <2>1. /\ ppc[pipeReader] = "readloop" /\ plock' = NoPipeLock
        /\ pipe' = [pipe EXCEPT !.nread = puint(@ + AtMost(PipeReadSize, Queued))]
        /\ goto(pipeReader, "failed") \/ goto(pipeReader, "user")
        /\ chan' = Woken(WriteChan)
    BY <1>3 DEF piperead, release, wakeup
  <2>2. plock = pipeReader /\ ppc[pipeWriter] \notin InLock /\ chan[pipeReader] # ReadChan
    BY <2>1, StreamNames DEF SleepInv, PipeTypeOK, PipeLockInv, InLock
  <2>3. PICK to \in {"failed", "user"} : goto(pipeReader, to)
    BY <2>1
  <2>4. /\ ppc' \in [Ends -> WriterAt \cup ReaderAt]
        /\ ppc'[pipeReader] = to /\ ppc'[pipeWriter] = ppc[pipeWriter]
    BY <2>3, StreamNames, Gone DEF SleepInv, ReaderAt
  <2>5. /\ DOMAIN chan' = Procs /\ chan'[pipeReader] # ReadChan
        /\ chan'[pipeWriter] # WriteChan
    BY <2>1, <2>2, StreamNames, WokenSleepers DEF SleepInv, PipeTypeOK
  <2>6. DOMAIN pipe' = DOMAIN pipe /\ pipe'.nread \in Nat /\ pipe'.nwrite \in Nat
    <3>1. Queued \in Nat
      BY PipeAssumption DEF SleepInv, PipeTypeOK, Queued, puint
    <3>2. AtMost(PipeReadSize, Queued) \in Nat
      BY <3>1, PipeAssumption DEF AtMost
    <3>3. puint(pipe.nread + AtMost(PipeReadSize, Queued)) \in Nat
      BY <3>2, PipeAssumption DEF SleepInv, PipeTypeOK, puint
    <3> QED
      BY <2>1, <3>3 DEF SleepInv, PipeTypeOK
  <2>7. PipeTypeOK' /\ PipeLockInv'
    BY <2>1, <2>2, <2>4, <2>5, <2>6, StreamNames
    DEF SleepInv, PipeTypeOK, PipeLockInv, InLock, ReaderAt, Ends
  <2>8. SleeperInv'
    BY <2>2, <2>4, <2>5 DEF SleeperInv, InLock
  <2> QED
    BY <2>7, <2>8 DEF SleepInv
<1> QED
  BY <1>1, <1>2, <1>3

\* A step that takes the lock, or closes an end.
LEMMA EndSleepers ==
  ASSUME SleepInv, NEW p \in Ends, acquire(p) \/ pipeclose(p), rpc' = rpc
  PROVE  SleepInv'
<1>1. CASE acquire(p)
  <2>1. PICK to \in {"writeloop", "readloop", "closing"} :
          /\ goto(p, to)
          /\ to = "writeloop" => ppc[p] = "write"
          /\ to = "readloop" => ppc[p] = "read"
          /\ to = "closing" => ppc[p] = "close"
    BY <1>1 DEF acquire
  <2>2. /\ chan[p] = Awake /\ plock = NoPipeLock /\ plock' = p /\ UNCHANGED <<pipe, chan>>
    BY <1>1 DEF acquire
  <2>3. Full' = Full
    BY <2>2 DEF Full
  <2>4. /\ ppc' \in [Ends -> WriterAt \cup ReaderAt]
        /\ ppc'[p] = to /\ \A q \in Ends : q # p => ppc'[q] = ppc[q]
    BY <2>1, Gone DEF SleepInv, ReaderAt, WriterAt
  <2>5. PipeTypeOK'
    BY <2>1, <2>2, <2>4, StreamNames DEF SleepInv, PipeTypeOK, ReaderAt, WriterAt
  <2>6. PipeLockInv'
    BY <2>1, <2>2, <2>4, StreamNames DEF SleepInv, PipeLockInv, InLock
  <2>7. SleeperInv'
    BY <2>1, <2>2, <2>3, <2>4, StreamNames DEF SleepInv, SleeperInv, Leaving
  <2> QED
    BY <2>5, <2>6, <2>7 DEF SleepInv
<1>2. CASE pipeclose(p)
  <2>1. /\ ppc[p] = "closing" /\ plock' = NoPipeLock /\ goto(p, "closed")
        /\ pipe' = IF p = pipeWriter THEN [pipe EXCEPT !.writeopen = FALSE]
                                     ELSE [pipe EXCEPT !.readopen = FALSE]
        /\ chan' = Woken(IF p = pipeWriter THEN ReadChan ELSE WriteChan)
    BY <1>2 DEF pipeclose, release, wakeup
  <2>2. /\ plock = p /\ \A q \in Ends : q # p => ppc[q] \notin InLock
        /\ p = pipeWriter \/ p = pipeReader
        /\ p = pipeWriter => chan[p] # WriteChan
        /\ p = pipeReader => chan[p] # ReadChan
    BY <2>1, StreamNames DEF SleepInv, PipeTypeOK, PipeLockInv, InLock, Ends
  <2>3. /\ DOMAIN pipe' = DOMAIN pipe
        /\ pipe'.nread = pipe.nread /\ pipe'.nwrite = pipe.nwrite
        /\ p = pipeWriter => pipe'.readopen = pipe.readopen
        /\ p = pipeReader => pipe'.writeopen = pipe.writeopen
    BY <2>1, StreamNames DEF SleepInv, PipeTypeOK
  <2>4. Full' = Full
    BY <2>3 DEF Full
  <2>5. /\ ppc' \in [Ends -> WriterAt \cup ReaderAt]
        /\ ppc'[p] = "closed" /\ \A q \in Ends : q # p => ppc'[q] = ppc[q]
    BY <2>1, Gone DEF SleepInv, ReaderAt
  <2>6. /\ DOMAIN chan' = Procs
        /\ \A q \in Ends : chan'[q] = chan[q] \/ chan'[q] = Awake
        /\ p = pipeWriter => chan'[pipeReader] # ReadChan
        /\ p = pipeReader => chan'[pipeWriter] # WriteChan
    BY <2>1, StreamNames, WokenSleepers DEF SleepInv, PipeTypeOK
  <2>7. PipeTypeOK'
    BY <2>1, <2>2, <2>3, <2>5, <2>6, StreamNames
    DEF SleepInv, PipeTypeOK, ReaderAt, WriterAt
  <2>8. PipeLockInv'
    BY <2>1, <2>2, <2>5, StreamNames DEF SleepInv, PipeLockInv, InLock
  <2>9. SleeperInv'
    <3>1. CASE p = pipeWriter
      BY <2>2, <2>5, <2>6, <3>1, StreamNames DEF SleepInv, PipeTypeOK, SleeperInv, InLock
    <3>2. CASE p = pipeReader
      BY <2>2, <2>3, <2>5, <2>6, <3>2, StreamNames
      DEF SleepInv, PipeTypeOK, SleeperInv, InLock
    <3> QED
      BY <2>2, <3>1, <3>2
  <2> QED
    BY <2>7, <2>8, <2>9 DEF SleepInv
<1> QED
  BY <1>1, <1>2

\* Nobody sleeps for what is already there, and nobody waits at a pipe that the
\* other process has left (pipe.c), whatever the size of the ring, whatever is
\* typed and whoever is killed.
THEOREM NoSleepInVain == StreamSpec => []NobodySleepsInVain
<1>1. StreamInit => SleepInv
  <2> SUFFICES ASSUME StreamInit PROVE SleepInv
    OBVIOUS
  <2>1. /\ chan = [p \in Procs |-> Awake] /\ rpc = "user" /\ consReader = pipeWriter
        /\ plock = NoPipeLock /\ ppc = [p \in Ends |-> "user"]
        /\ pipe = [data |-> [i \in 0 .. PIPESIZE - 1 |-> " "], nread |-> 0, nwrite |-> 0,
                   readopen |-> TRUE, writeopen |-> TRUE]
    BY DEF StreamInit, SleepInit, ConsoleInit, PipeInit, Ends
  <2>2. PipeTypeOK
    BY <2>1, StreamNames DEF PipeTypeOK, WriterAt, ReaderAt
  <2>3. PipeLockInv /\ SleeperInv
    BY <2>1, StreamNames DEF PipeLockInv, SleeperInv, InLock
  <2> QED
    BY <2>2, <2>3 DEF SleepInv
<1>2. SleepInv /\ [StreamNext]_streamVars => SleepInv'
  <2> SUFFICES ASSUME SleepInv, [StreamNext]_streamVars PROVE SleepInv'
    OBVIOUS
  <2>1. consReader = pipeWriter
    BY DEF SleepInv, PipeTypeOK
  <2>2. CASE Typing \/ Killing \/ Reading(consReader)
    BY <2>2, ConsoleSleepers
  <2>3. CASE \/ cat_read(consReader) \/ cat_write(consReader) \/ wc_read(pipeReader)
             \/ wc_end(pipeReader)
    BY <2>1, <2>3, StreamNames, ProgramSleepers
  <2>4. CASE \E p \in Ends : exit(p)
    <3>1. PICK p \in Ends : exit(p)
      BY <2>4
    <3> QED
      BY <3>1, ProgramSleepers
  <2>5. CASE PipeNext /\ UNCHANGED consoleVars
    <3>1. rpc' = rpc
      BY <2>5 DEF consoleVars, readVars
    <3> QED
      BY <2>5, <3>1, WriterSleepers, ReaderSleepers, EndSleepers DEF PipeNext, Ends
  <2>6. CASE UNCHANGED streamVars
    BY <2>6, SleepersWake DEF streamVars, consoleVars, readVars, SleepInv, PipeTypeOK
  <2> QED
    BY <2>2, <2>3, <2>4, <2>5, <2>6 DEF StreamNext, Programs, Ends
<1>3. SleepInv => NobodySleepsInVain
  <2> SUFFICES ASSUME SleepInv, plock = NoPipeLock,
                      chan[pipeReader] = ReadChan
               PROVE  pipe.writeopen /\ (Queued = 0 \/ ppc[pipeWriter] \in Leaving)
    BY DEF NobodySleepsInVain, SleepInv, SleeperInv
  <2>1. ppc[pipeWriter] # "writeloop"
    BY StreamNames DEF SleepInv, PipeLockInv, InLock
  <2>2. /\ pipe.writeopen
        /\ pipe.nread = pipe.nwrite \/ ppc[pipeWriter] \in Leaving
    BY <2>1 DEF SleepInv, SleeperInv
  <2>3. ASSUME pipe.nread = pipe.nwrite PROVE Queued = 0
    <3>1. pipe.nwrite - pipe.nread = 0
      BY <2>3 DEF SleepInv, PipeTypeOK
    <3>2. 0 % PUINT = 0
      BY SmallRemainder, PipeAssumption
    <3> QED
      BY <3>1, <3>2 DEF Queued, puint
  <2> QED
    BY <2>2, <2>3
<1> QED
  BY <1>1, <1>2, <1>3, PTL DEF StreamSpec
-----------------------------------------------------------------------------
(* The console: the ring, the line and the screen *)

\* A remainder may be taken early, of what is taken away too.
LEMMA RemainderMinus ==
  ASSUME NEW m \in Nat \ {0}, NEW a \in Int, NEW b \in Int
  PROVE  /\ ((a % m) - b) % m = (a - b) % m
         /\ (a - (b % m)) % m = (a - b) % m
<1>1. ((a % m) - b) % m = (a - b) % m
  <2> PICK c \in Int : c = -b
    OBVIOUS
  <2>1. ((a % m) + c) % m = (a + c) % m
    BY RemainderPlus
  <2>2. (a % m) + c = (a % m) - b /\ a + c = a - b
    BY Remainder
  <2> QED
    BY <2>1, <2>2
<1>2. (a - (b % m)) % m = (a - b) % m
  <2>1. PICK q \in Int, s \in Int : b = m * q + s /\ s = b % m
    <3>1. b % m \in Int /\ b \div m \in Int /\ b = m * (b \div m) + (b % m)
      BY Remainder
    <3> QED
      BY <3>1
  <2>2. PICK p \in Int : p = m * q /\ b = p + s
    BY <2>1
  <2>3. PICK c \in Int, d \in Int : c = a - s /\ d = a - b
    OBVIOUS
  <2>4. PICK k \in Int, t \in 0 .. m - 1 : c = m * k + t /\ t = c % m
    BY Remainder
  <2>5. PICK x \in Int, y \in Int : x = m * k /\ y = m * (k - q)
    OBVIOUS
  <2>6. y = x - p
    BY <2>2, <2>5
  <2>7. d = y + t
    <3>1. c = x + t
      BY <2>4, <2>5
    <3> QED
      BY <2>2, <2>3, <2>6, <3>1
  <2>8. (m * (k - q) + t) % m = t
    BY RemainderIs
  <2> QED
    BY <2>1, <2>3, <2>4, <2>5, <2>7, <2>8
<1> QED
  BY <1>1, <1>2

\* Multiples are ordered as their factors.
LEMMA Multiples ==
  ASSUME NEW a \in Nat, NEW b \in Nat, NEW n \in Nat, a <= b
  PROVE  n * a <= n * b
<1>1. PICK d \in Nat : b = a + d
  <2>1. b - a \in Nat /\ b = a + (b - a)
    OBVIOUS
  <2> QED BY <2>1
<1>2. n * b = n * a + n * d /\ n * d \in Nat /\ n * a \in Nat
  BY <1>1
<1> QED
  BY <1>2

\* When a position is below a row.
LEMMA RowOf ==
  ASSUME NEW a \in Nat, NEW m \in Nat \ {0}, NEW n \in Nat
  PROVE  a \div m >= n <=> a >= n * m
<1>1. PICK q \in Nat, x \in Nat : q = a \div m /\ x = m * q /\ x <= a /\ a < x + m
  OBVIOUS
<1>2. PICK y \in Nat : y = n * m
  OBVIOUS
<1>3. ASSUME q >= n PROVE a >= y
  <2>1. m * n <= m * q /\ m * n = y
    BY <1>2, <1>3, Multiples
  <2> QED
    BY <1>1, <2>1
<1>4. ASSUME q + 1 <= n PROVE a < y
  <2>1. m * (q + 1) <= m * n /\ m * n = y
    BY <1>2, <1>4, Multiples
  <2>2. m * (q + 1) = x + m
    BY <1>1
  <2> QED
    BY <1>1, <2>1, <2>2
<1> QED
  BY <1>1, <1>2, <1>3, <1>4

\* The ring of the console and the screen.
EchoTypeOK ==
  /\ DOMAIN input = {"buf", "r", "w", "e"} /\ DOMAIN input.buf = 0 .. INPUT_BUF - 1
  /\ input.r \in 0 .. UINT - 1 /\ input.w \in 0 .. UINT - 1 /\ input.e \in 0 .. UINT - 1
  /\ DOMAIN crt = 0 .. (ROWS + 1) * COLS /\ pos \in 0 .. ROWS * COLS - 1
  /\ own \in Nat

\* The characters between the reader and the editor fit into the ring, the line
\* is the last of them, and no newline is in the line.
EchoInv ==
  /\ EchoTypeOK
  /\ uint(input.e - input.w) <= uint(input.e - input.r)
  /\ uint(input.e - input.r) <= INPUT_BUF
  /\ \A i \in 1 .. uint(input.e - input.w) : input.buf[Slot(uint(input.e - i))] # Newline
  /\ EchoShowsLine

\* The unsigned indices of the ring.
LEMMA RingIndices ==
  ASSUME NEW e \in 0 .. UINT - 1, NEW w \in 0 .. UINT - 1
  PROVE  /\ uint(e - w) \in 0 .. UINT - 1
         /\ uint(e - w) = 0 => e = w
         /\ uint(e - w) + 1 < UINT => uint(uint(e + 1) - w) = uint(e - w) + 1
         /\ uint(e + 1) \in 0 .. UINT - 1
         /\ \A n \in 0 .. uint(e - w) : uint(uint(e - n) - w) = uint(e - w) - n
         /\ \A n \in Int : uint(e - n) \in 0 .. UINT - 1
         /\ uint(e - w) > 0 => uint(e - uint(w + 1)) = uint(e - w) - 1
<1>1. UINT \in Nat \ {0} /\ e \in Int /\ w \in Int
  BY ConsoleAssumption
<1>2. ASSUME NEW x \in Int PROVE uint(x) \in 0 .. UINT - 1
  BY <1>1, Remainder DEF uint
<1>3. ASSUME NEW x \in 0 .. UINT - 1 PROVE uint(x) = x
  BY <1>1, SmallRemainder DEF uint
<1>4. ASSUME NEW a \in Int, NEW b \in Int
      PROVE  /\ uint(uint(a) + b) = uint(a + b) /\ uint(uint(a) - b) = uint(a - b)
             /\ uint(a - uint(b)) = uint(a - b)
  BY <1>1, RemainderPlus, RemainderMinus DEF uint
<1>5. PICK l \in 0 .. UINT - 1 : l = uint(e - w)
  BY <1>1, <1>2
<1>6. ASSUME l = 0 PROVE e = w
  <2>1. uint(l + w) = uint((e - w) + w)
    BY <1>1, <1>4, <1>5
  <2>2. (e - w) + w = e /\ l + w = w
    BY <1>1, <1>6
  <2> QED
    BY <1>3, <2>1, <2>2
<1>7. ASSUME l + 1 < UINT PROVE uint(uint(e + 1) - w) = l + 1
  <2> PICK x \in Int, y \in Int : x = e + 1 /\ y = e - w
    BY <1>1
  <2>1. uint(uint(x) - w) = uint(x - w) /\ uint(uint(y) + 1) = uint(y + 1)
    BY <1>1, <1>4
  <2>2. x - w = y + 1 /\ uint(y) = l /\ l + 1 \in 0 .. UINT - 1
    BY <1>1, <1>5, <1>7
  <2> QED
    BY <1>3, <2>1, <2>2
<1>8. ASSUME NEW n \in 0 .. l PROVE uint(uint(e - n) - w) = l - n
  <2> PICK x \in Int, y \in Int : x = e - n /\ y = e - w
    BY <1>1, <1>5
  <2>1. n \in Int
    OBVIOUS
  <2>2. uint(uint(x) - w) = uint(x - w)
    BY <1>1, <1>4
  <2>3. uint(uint(y) - n) = uint(y - n)
    BY <1>4, <2>1
  <2>4. x - w = y - n /\ uint(y) = l /\ l - n \in 0 .. UINT - 1
    BY <1>1, <1>5
  <2> QED
    BY <1>3, <2>2, <2>3, <2>4
<1>9. ASSUME l > 0 PROVE uint(e - uint(w + 1)) = l - 1
  <2> PICK x \in Int, y \in Int : x = w + 1 /\ y = e - w
    BY <1>1, <1>5
  <2>1. uint(e - uint(x)) = uint(e - x)
    BY <1>1, <1>4
  <2>2. uint(uint(y) - 1) = uint(y - 1)
    BY <1>4
  <2>3. e - x = y - 1 /\ uint(y) = l /\ l - 1 \in 0 .. UINT - 1
    BY <1>1, <1>5, <1>9
  <2> QED
    BY <1>3, <2>1, <2>2, <2>3
<1> QED
  BY <1>1, <1>2, <1>5, <1>6, <1>7, <1>8, <1>9

\* The slots of the ring: an earlier one is seen from a moved index, and the
\* one that is written is none of the line.
LEMMA RingSlots ==
  ASSUME NEW e \in 0 .. UINT - 1
  PROVE  /\ Slot(e) \in 0 .. INPUT_BUF - 1
         /\ \A i \in Int : Slot(uint(e - i)) \in 0 .. INPUT_BUF - 1
         /\ \A n, i \in Int : Slot(uint(uint(e - n) - i)) = Slot(uint(e - (n + i)))
         /\ \A i \in Int : Slot(uint(uint(e + 1) - i)) = Slot(uint(e - (i - 1)))
         /\ Slot(uint(e - 0)) = Slot(e)
         /\ \A i \in 1 .. INPUT_BUF - 1 : Slot(uint(e - i)) # Slot(e)
<1>1. /\ UINT \in Nat \ {0} /\ INPUT_BUF \in Nat \ {0} /\ UINT % INPUT_BUF = 0 /\ e \in Int
  BY ConsoleAssumption
<1>2. ASSUME NEW x \in Int
      PROVE  uint(x) \in 0 .. UINT - 1 /\ Slot(x) \in 0 .. INPUT_BUF - 1
  BY <1>1, Remainder DEF uint, Slot
<1>3. ASSUME NEW n \in Int, NEW i \in Int
      PROVE  Slot(uint(uint(e - n) - i)) = Slot(uint(e - (n + i)))
  <2> PICK x \in Int : x = e - n
    BY <1>1
  <2>1. uint(uint(x) - i) = uint(x - i)
    BY <1>1, RemainderMinus DEF uint
  <2>2. x - i = e - (n + i)
    BY <1>1
  <2> QED
    BY <2>1, <2>2
<1>4. ASSUME NEW i \in Int PROVE Slot(uint(uint(e + 1) - i)) = Slot(uint(e - (i - 1)))
  <2> PICK x \in Int : x = e + 1
    BY <1>1
  <2>1. uint(uint(x) - i) = uint(x - i)
    BY ZenonT(30), <1>1, RemainderMinus DEF uint
  <2>2. x - i = e - (i - 1)
    BY <1>1
  <2> QED
    BY <2>1, <2>2
<1>5. Slot(uint(e - 0)) = Slot(e)
  <2>1. e - 0 = e /\ uint(e) = e
    BY <1>1, SmallRemainder DEF uint
  <2> QED
    BY <2>1
<1>6. ASSUME NEW i \in 1 .. INPUT_BUF - 1, Slot(uint(e - i)) = Slot(e) PROVE FALSE
  <2>1. PICK a \in Int : a = e - i
    BY <1>1
  <2>2. a % INPUT_BUF = e % INPUT_BUF
    BY <1>1, <1>6, <2>1, RemainderTwice DEF uint, Slot
  <2>3. PICK p \in Int, t \in Int : a = INPUT_BUF * p + t /\ t = a % INPUT_BUF
    <3>1. a % INPUT_BUF \in Int /\ a \div INPUT_BUF \in Int
          /\ a = INPUT_BUF * (a \div INPUT_BUF) + (a % INPUT_BUF)
      BY <1>1, Remainder
    <3> QED
      BY <3>1
  <2>4. PICK q \in Int : e = INPUT_BUF * q + t
    <3>1. e \div INPUT_BUF \in Int /\ e = INPUT_BUF * (e \div INPUT_BUF) + (e % INPUT_BUF)
      BY <1>1, Remainder
    <3> QED
      BY <2>2, <2>3, <3>1
  <2>5. PICK x \in Int, y \in Int : x = INPUT_BUF * p /\ y = INPUT_BUF * q
    BY <1>1
  <2>6. INPUT_BUF * (q - p) = y - x
    BY <1>1, <2>5
  <2>7. i = y - x
    BY <1>1, <2>1, <2>3, <2>4, <2>5
  <2>8. INPUT_BUF * (q - p) < INPUT_BUF /\ -INPUT_BUF < INPUT_BUF * (q - p)
    BY <1>1, <2>6, <2>7
  <2>9. q - p = 0
    BY <1>1, <2>8, SmallMultiple
  <2> QED
    BY <1>1, <2>5, <2>7, <2>9
<1>7. ASSUME NEW i \in Int PROVE Slot(uint(e - i)) \in 0 .. INPUT_BUF - 1
  <2>1. PICK x \in Int : x = uint(e - i)
    BY <1>1, <1>2
  <2> QED
    BY <1>2, <2>1
<1> QED
  BY <1>1, <1>2, <1>3, <1>4, <1>5, <1>6, <1>7

\* The ring loses n characters, none of them given to the reader.
LEMMA RingBack ==
  ASSUME NEW e \in 0 .. UINT - 1, NEW w \in 0 .. UINT - 1, NEW n \in 0 .. uint(e - w)
  PROVE  uint(uint(e - n) - w) = uint(e - w) - n
<1>1. \A k \in 0 .. uint(e - w) : uint(uint(e - k) - w) = uint(e - w) - k
  BY RingIndices
<1> QED
  BY <1>1

\* The ring gains the character that is stored.
LEMMA RingNext ==
  ASSUME NEW e \in 0 .. UINT - 1, NEW w \in 0 .. UINT - 1, uint(e - w) + 1 < UINT
  PROVE  uint(uint(e + 1) - w) = uint(e - w) + 1
<1>1. uint(e - w) + 1 < UINT => uint(uint(e + 1) - w) = uint(e - w) + 1
  BY RingIndices
<1> QED
  BY <1>1

\* The reader takes one character of the ring.
LEMMA RingRead ==
  ASSUME NEW e \in 0 .. UINT - 1, NEW w \in 0 .. UINT - 1, uint(e - w) > 0
  PROVE  uint(e - uint(w + 1)) = uint(e - w) - 1
<1>1. uint(e - w) > 0 => uint(e - uint(w + 1)) = uint(e - w) - 1
  BY RingIndices
<1> QED
  BY <1>1

\* The line that is left after n characters is in the slots it was in.
LEMMA SlotBack ==
  ASSUME NEW e \in 0 .. UINT - 1, NEW n \in Int, NEW i \in Int
  PROVE  Slot(uint(uint(e - n) - i)) = Slot(uint(e - (n + i)))
<1>1. \A m, j \in Int : Slot(uint(uint(e - m) - j)) = Slot(uint(e - (m + j)))
  BY RingSlots
<1> QED
  BY <1>1

\* The slot that is written is none of those of the line.
LEMMA SlotFree ==
  ASSUME NEW e \in 0 .. UINT - 1, NEW i \in 1 .. INPUT_BUF - 1
  PROVE  Slot(uint(e - i)) # Slot(e) /\ Slot(uint(e - i)) \in 0 .. INPUT_BUF - 1
<1>1. /\ \A k \in 1 .. INPUT_BUF - 1 : Slot(uint(e - k)) # Slot(e)
      /\ \A k \in Int : Slot(uint(e - k)) \in 0 .. INPUT_BUF - 1
  BY RingSlots
<1>2. i \in Int
  BY ConsoleAssumption
<1> QED
  BY <1>1, <1>2

\* cgaputc draws in front of the cursor, before and after the screen scrolls.
LEMMA Drawn ==
  ASSUME EchoTypeOK, NEW c, cgaputc(c)
  PROVE  /\ DOMAIN crt' = DOMAIN crt /\ pos' \in 0 .. ROWS * COLS - 1
         /\ c # Newline =>
              \A i \in 1 .. INPUT_BUF : i - 1 <= pos =>
                i <= pos' /\ crt'[pos' - i] = IF i = 1 THEN c ELSE crt[pos - (i - 1)]
<1> DEFINE after == IF c = Newline THEN pos + COLS - (pos % COLS) ELSE pos + 1
           drawn == IF c = Newline THEN crt ELSE [crt EXCEPT ![pos] = c]
           scrolls == after \div COLS >= ROWS
           cursor == IF scrolls THEN after - COLS ELSE after
           moved == [i \in DOMAIN crt |->
                       IF i < (ROWS - 1) * COLS THEN drawn[i + COLS] ELSE drawn[i]]
           scrolled == [i \in DOMAIN crt |->
                          IF i \in cursor .. ROWS * COLS - 1 THEN Blank ELSE moved[i]]
<1>1. /\ pos' = cursor
      /\ crt' = [(IF scrolls THEN scrolled ELSE drawn) EXCEPT ![cursor] = Blank]
  BY DEF cgaputc
<1>2. /\ COLS \in Nat \ {0} /\ ROWS \in Nat \ {0} /\ INPUT_BUF \in Nat
      /\ pos \in Nat /\ INPUT_BUF <= (ROWS - 1) * COLS
  BY ConsoleAssumption DEF EchoTypeOK
<1>3. PICK top \in Nat : /\ top = (ROWS - 1) * COLS /\ ROWS * COLS = top + COLS
                         /\ (ROWS + 1) * COLS = top + COLS + COLS
  BY <1>2
<1>4. /\ DOMAIN crt = 0 .. top + COLS + COLS /\ pos < top + COLS /\ INPUT_BUF <= top
  BY <1>2, <1>3 DEF EchoTypeOK
<1>5. after \in Nat /\ (scrolls <=> after >= top + COLS)
  <2>1. after \in Nat
    BY <1>2, Remainder
  <2> HIDE DEF after
  <2> QED
    BY <1>2, <1>3, <2>1, RowOf
<1>6. pos' \in 0 .. ROWS * COLS - 1
  <2>1. CASE c # Newline
    <3>1. after = pos + 1
      BY <2>1
    <3> HIDE DEF after
    <3> QED
      BY SMTT(30), <1>1, <1>2, <1>3, <1>4, <1>5, <3>1
  <2>2. CASE c = Newline
    <3>1. pos % COLS \in 0 .. COLS - 1 /\ after = pos + COLS - (pos % COLS)
      BY <1>2, <2>2, Remainder
    <3>2. pos % COLS <= pos
      BY <1>2
    <3>3. PICK z \in Nat : z = pos % COLS /\ z <= pos /\ z < COLS /\ after = pos + COLS - z
      BY <1>2, <3>1, <3>2
    <3>4. pos' = IF scrolls THEN after - COLS ELSE after
      BY <1>1
    <3> HIDE DEF after, scrolls
    <3>5. CASE scrolls
      <4>1. pos' = pos - z
        BY <1>2, <3>3, <3>4, <3>5
      <4> QED
        BY <1>2, <1>3, <1>4, <3>3, <4>1
    <3>6. CASE ~scrolls
      <4>1. pos' = after /\ after \in Nat /\ after < top + COLS
        BY <1>2, <1>3, <1>5, <3>4, <3>6
      <4> QED
        BY <1>2, <1>3, <4>1
    <3> QED
      BY <3>5, <3>6
  <2> QED
    BY <2>1, <2>2
<1>7. DOMAIN crt' = DOMAIN crt
  BY <1>1
<1>8. ASSUME c # Newline, NEW i \in 1 .. INPUT_BUF, i - 1 <= pos
      PROVE  i <= pos' /\ crt'[pos' - i] = IF i = 1 THEN c ELSE crt[pos - (i - 1)]
  <2>1. after = pos + 1 /\ drawn = [crt EXCEPT ![pos] = c]
    BY <1>8
  <2>2. PICK k \in 0 .. pos : k = pos + 1 - i
    BY <1>2, <1>8
  <2>3. drawn[k] = IF i = 1 THEN c ELSE crt[pos - (i - 1)]
    BY <1>2, <1>4, <2>1, <2>2
  <2>4. CASE pos + 1 >= top + COLS
    <3>1. scrolls /\ cursor = top
      BY <1>2, <1>4, <1>5, <2>1, <2>4
    <3>2. pos' = top /\ crt' = [scrolled EXCEPT ![cursor] = Blank]
      BY <1>1, <3>1
    <3>3. i <= top /\ top - i \in DOMAIN crt /\ top - i # cursor /\ top - i < top
          /\ top - i + COLS = k
      BY <1>2, <1>4, <2>2, <2>4, <3>1
    <3>4. crt'[top - i] = scrolled[top - i]
      BY <3>2, <3>3
    <3>5. scrolled[top - i] = moved[top - i]
      BY <1>2, <3>1, <3>3
    <3>6. moved[top - i] = drawn[k]
      BY <1>3, <3>3
    <3> QED
      BY <2>3, <3>2, <3>3, <3>4, <3>5, <3>6
  <2>5. CASE pos + 1 < top + COLS
    <3>1. ~scrolls /\ cursor = pos + 1
      BY <1>2, <1>4, <1>5, <2>1, <2>5
    <3>2. pos' = pos + 1 /\ crt' = [drawn EXCEPT ![pos + 1] = Blank]
      BY <1>1, <3>1
    <3>3. pos + 1 - i = k /\ k # pos + 1 /\ k \in DOMAIN drawn
      BY <1>2, <1>4, <2>1, <2>2
    <3>4. crt'[k] = drawn[k]
      BY <3>2, <3>3
    <3> QED
      BY <1>2, <2>3, <3>2, <3>3, <3>4
  <2> QED
    BY <1>2, <2>4, <2>5
<1> QED
  BY <1>6, <1>7, <1>8

\* consputc(BACKSPACE) erases in front of the cursor only, and stops at the corner.
LEMMA Erased ==
  ASSUME EchoTypeOK, NEW n \in Nat, backspace(n)
  PROVE  /\ pos' \in 0 .. ROWS * COLS - 1 /\ DOMAIN crt' = DOMAIN crt
         /\ n <= pos => /\ pos' = pos - n
                        /\ \A k \in 0 .. pos - n - 1 : crt'[k] = crt[k]
<1>1. /\ COLS \in Nat \ {0} /\ ROWS \in Nat \ {0} /\ ROWS * COLS \in Nat
      /\ DOMAIN crt = 0 .. (ROWS + 1) * COLS /\ pos \in Nat /\ pos < ROWS * COLS
      /\ ROWS * COLS <= (ROWS + 1) * COLS /\ (ROWS + 1) * COLS \in Nat
  BY ConsoleAssumption DEF EchoTypeOK
<1>2. PICK cursor \in Nat :
        /\ cursor = IF n <= pos THEN pos - n ELSE 0
        /\ pos' = cursor /\ cursor <= pos
        /\ crt' = [i \in DOMAIN crt |-> IF i \in cursor .. pos - 1 THEN Blank ELSE crt[i]]
  <2>1. (IF n <= pos THEN pos - n ELSE 0) \in Nat
    BY <1>1
  <2>2. PICK cursor \in Nat : cursor = IF n <= pos THEN pos - n ELSE 0
    BY <2>1
  <2>3. cursor <= pos
    BY <1>1, <2>2
  <2>4. /\ pos' = cursor
        /\ crt' = [i \in DOMAIN crt |-> IF i \in cursor .. pos - 1 THEN Blank ELSE crt[i]]
    BY <2>2 DEF backspace
  <2> QED
    BY <2>2, <2>3, <2>4
<1>3. \A k \in 0 .. cursor - 1 : k \in DOMAIN crt /\ k \notin cursor .. pos - 1
  BY <1>1, <1>2
<1> QED
  BY <1>1, <1>2, <1>3

\* control-U and control-H: the ring and the screen lose the same characters.
LEMMA EraseEcho ==
  ASSUME EchoInv, input.e # input.w,
         NEW n \in 0 .. uint(input.e - input.w),
         input' = [input EXCEPT !.e = uint(@ - n)], backspace(n),
         own' = IF n <= own THEN own - n ELSE 0
  PROVE  EchoInv'
<1> PICK e \in 0 .. UINT - 1, w \in 0 .. UINT - 1, r \in 0 .. UINT - 1, buf \in {input.buf} :
      e = input.e /\ w = input.w /\ r = input.r /\ buf = input.buf
  BY DEF EchoInv, EchoTypeOK
<1>0. UINT \in Nat /\ uint(e - w) \in 0 .. UINT - 1 /\ uint(e - r) \in 0 .. UINT - 1
  BY RingIndices, ConsoleAssumption
<1>1. PICK l \in Nat, d \in Nat : /\ l = uint(e - w) /\ d = uint(e - r) /\ l <= d
                                  /\ d <= INPUT_BUF
  BY <1>0 DEF EchoInv
<1>2. /\ input'.e = uint(e - n) /\ input'.w = w /\ input'.r = r /\ input'.buf = buf
      /\ DOMAIN input' = DOMAIN input
  BY DEF EchoInv, EchoTypeOK
<1>3. PICK o \in Nat : o = own /\ o <= l
  BY <1>1 DEF EchoInv, EchoTypeOK, EchoShowsLine
<1>11. \A i \in 1 .. o : i <= pos /\ crt[pos - i] = buf[Slot(uint(e - i))]
  BY <1>1, <1>3 DEF EchoInv, EchoShowsLine
<1>12. \A i \in 1 .. l : buf[Slot(uint(e - i))] # Newline
  BY <1>1 DEF EchoInv
<1>4. n \in 0 .. l /\ n \in Nat /\ pos \in Nat /\ (n <= o => n <= pos)
  BY <1>1, <1>3, <1>11 DEF EchoInv, EchoTypeOK
<1>5. /\ pos' \in 0 .. ROWS * COLS - 1 /\ DOMAIN crt' = DOMAIN crt
      /\ n <= o => pos' = pos - n /\ \A k \in 0 .. pos - n - 1 : crt'[k] = crt[k]
  BY <1>4, Erased DEF EchoInv
<1>13. /\ own' \in Nat /\ own' <= l - n
       /\ n <= o => own' = o - n
       /\ n > o => own' = 0
  BY <1>1, <1>3, <1>4
<1>6. /\ uint(uint(e - n) - w) = l - n /\ uint(uint(e - n) - r) = d - n
      /\ uint(e - n) \in 0 .. UINT - 1
  <2>1. n \in 0 .. uint(e - w) /\ n \in 0 .. uint(e - r) /\ n \in Int
    BY <1>1, <1>4
  <2>2. uint(uint(e - n) - w) = l - n
    BY <1>1, <2>1, RingBack
  <2>3. uint(uint(e - n) - r) = d - n
    BY <1>1, <2>1, RingBack
  <2>4. \A k \in Int : uint(e - k) \in 0 .. UINT - 1
    BY RingIndices
  <2> QED
    BY <2>1, <2>2, <2>3, <2>4
<1>7. EchoTypeOK'
  BY <1>2, <1>5, <1>6, <1>13 DEF EchoInv, EchoTypeOK
<1>8. ASSUME NEW i \in 1 .. l - n
      PROVE  /\ buf[Slot(uint(uint(e - n) - i))] # Newline
             /\ i <= own' =>
                  i <= pos' /\ crt'[pos' - i] = buf[Slot(uint(uint(e - n) - i))]
  <2>1. PICK j \in 1 .. l : j = n + i
    BY <1>1, <1>4
  <2>2. Slot(uint(uint(e - n) - i)) = Slot(uint(e - j))
    <3>1. n \in Int /\ i \in Int
      BY <1>1, <1>4
    <3>2. Slot(uint(uint(e - n) - i)) = Slot(uint(e - (n + i)))
      BY <3>1, SlotBack
    <3> QED
      BY <2>1, <3>2
  <2>3. buf[Slot(uint(e - j))] # Newline
    BY <1>12
  <2>4. ASSUME i <= own'
        PROVE  i <= pos' /\ crt'[pos' - i] = buf[Slot(uint(e - j))]
    <3>1. n <= o /\ j \in 1 .. o
      BY <1>3, <1>4, <1>13, <2>1, <2>4
    <3>2. j <= pos /\ crt[pos - j] = buf[Slot(uint(e - j))]
      BY <1>11, <3>1
    <3>3. i <= pos' /\ pos' - i = pos - j /\ pos - j \in 0 .. pos - n - 1
      BY <1>4, <1>5, <2>1, <3>1, <3>2
    <3> QED
      BY <1>5, <3>1, <3>2, <3>3
  <2> QED
    BY <2>2, <2>3, <2>4
<1>9. /\ uint(input'.e - input'.w) = l - n /\ uint(input'.e - input'.r) = d - n
      /\ l - n <= d - n /\ d - n <= INPUT_BUF
  BY <1>1, <1>2, <1>4, <1>6, ConsoleAssumption
<1>14. \A i \in 1 .. own' : i \in 1 .. l - n
  BY <1>1, <1>4, <1>13
<1>10. EchoShowsLine'
  BY <1>2, <1>8, <1>9, <1>13, <1>14 DEF EchoShowsLine
<1> QED
  BY <1>2, <1>7, <1>8, <1>9, <1>10 DEF EchoInv

\* A character is stored and drawn.
LEMMA StoreEcho ==
  ASSUME EchoInv, NEW c, uint(input.e - input.r) < INPUT_BUF, Store(c)
  PROVE  EchoInv'
<1> PICK e \in 0 .. UINT - 1, w \in 0 .. UINT - 1, r \in 0 .. UINT - 1, buf \in {input.buf} :
      e = input.e /\ w = input.w /\ r = input.r /\ buf = input.buf
  BY DEF EchoInv, EchoTypeOK
<1>0. UINT \in Nat /\ uint(e - w) \in 0 .. UINT - 1 /\ uint(e - r) \in 0 .. UINT - 1
  BY RingIndices, ConsoleAssumption
<1>1. PICK l \in Nat, d \in Nat : /\ l = uint(e - w) /\ d = uint(e - r) /\ l <= d
                                  /\ d < INPUT_BUF
  BY <1>0 DEF EchoInv
<1>2. /\ INPUT_BUF \in Nat /\ UINT \in Nat /\ INPUT_BUF < UINT
  BY ConsoleAssumption
<1>3. PICK f \in 0 .. UINT - 1 : f = uint(e + 1)
  BY RingIndices
<1>4. /\ DOMAIN input' = DOMAIN input /\ input'.e = f /\ input'.r = r
      /\ input'.buf = [buf EXCEPT ![Slot(e)] = c]
      /\ \/ input'.w = f /\ own' = 0
         \/ input'.w = w /\ c # Newline /\ own' = own + 1
      /\ cgaputc(c)
  <2>1. DOMAIN input = {"buf", "r", "w", "e"}
    BY DEF EchoInv, EchoTypeOK
  <2>2. PICK stored : stored = [input EXCEPT !.buf[Slot(input.e)] = c, !.e = f]
    OBVIOUS
  <2>3. /\ DOMAIN stored = DOMAIN input /\ stored.e = f /\ stored.r = r /\ stored.w = w
        /\ stored.buf = [buf EXCEPT ![Slot(e)] = c]
    BY <2>1, <2>2
  <2>4. /\ \/ input' = stored /\ own' = own + 1
           \/ input' = [stored EXCEPT !.w = f] /\ own' = 0
        /\ c = Newline => input' = [stored EXCEPT !.w = f] /\ own' = 0
        /\ cgaputc(c)
    BY <1>3, <2>2 DEF Store
  <2> QED
    BY <2>1, <2>3, <2>4
<1>5. /\ DOMAIN crt' = DOMAIN crt /\ pos' \in 0 .. ROWS * COLS - 1
      /\ c # Newline =>
           \A i \in 1 .. INPUT_BUF : i - 1 <= pos =>
             i <= pos' /\ crt'[pos' - i] = IF i = 1 THEN c ELSE crt[pos - (i - 1)]
  BY <1>4, Drawn DEF EchoInv
<1>6. uint(f - r) = d + 1 /\ uint(f - w) = l + 1
  <2>1. uint(e - r) + 1 < UINT /\ uint(e - w) + 1 < UINT
    BY <1>1, <1>2
  <2>2. uint(uint(e + 1) - r) = uint(e - r) + 1
    BY <2>1, RingNext
  <2>3. uint(uint(e + 1) - w) = uint(e - w) + 1
    BY <2>1, RingNext
  <2> QED
    BY <1>1, <1>3, <2>2, <2>3
<1>10. PICK o \in Nat : o = own /\ o <= l
  BY <1>1 DEF EchoInv, EchoTypeOK, EchoShowsLine
<1>7. EchoTypeOK'
  BY <1>4, <1>5, <1>10 DEF EchoInv, EchoTypeOK
<1>8. CASE input'.w = f /\ own' = 0
  <2>1. uint(input'.e - input'.w) = 0
    <3>1. f - f = 0 /\ 0 % UINT = 0
      BY <1>2, SmallRemainder
    <3> QED
      BY <1>4, <1>8, <3>1 DEF uint
  <2>2. 1 .. uint(input'.e - input'.w) = {} /\ 1 .. own' = {}
    BY <1>8, <2>1
  <2>3. uint(input'.e - input'.r) = d + 1
    BY <1>4, <1>6
  <2> QED
    BY <1>1, <1>2, <1>7, <1>8, <2>1, <2>2, <2>3 DEF EchoInv, EchoShowsLine
<1>9. CASE input'.w = w /\ c # Newline /\ own' = own + 1
  <2>1. uint(input'.e - input'.w) = l + 1 /\ uint(input'.e - input'.r) = d + 1
    BY <1>4, <1>6, <1>9
  <2>2. ASSUME NEW i \in 1 .. l + 1
        PROVE  /\ input'.buf[Slot(uint(f - i))] # Newline
               /\ i <= o + 1 =>
                    i <= pos' /\ crt'[pos' - i] = input'.buf[Slot(uint(f - i))]
    <3>1. Slot(uint(f - i)) = Slot(uint(e - (i - 1)))
      BY <1>3, RingSlots
    <3>2. CASE i = 1
      <4>1. Slot(uint(f - i)) = Slot(e) /\ Slot(e) \in DOMAIN buf
        <5>1. Slot(uint(e - 0)) = Slot(e) /\ Slot(e) \in 0 .. INPUT_BUF - 1
          BY RingSlots
        <5>2. DOMAIN buf = 0 .. INPUT_BUF - 1
          BY DEF EchoInv, EchoTypeOK
        <5>3. i - 1 = 0
          BY <3>2
        <5> QED
          BY <3>1, <5>1, <5>2, <5>3
      <4>2. input'.buf[Slot(e)] = c
        BY <1>4, <4>1
      <4>3. i - 1 <= pos /\ i \in 1 .. INPUT_BUF
        BY <1>1, <1>2, <3>2 DEF EchoInv, EchoTypeOK
      <4> QED
        BY <1>5, <1>9, <3>2, <4>1, <4>2, <4>3
    <3>3. CASE i # 1
      <4>1. PICK j \in 1 .. l : j = i - 1
        BY <1>1, <3>3
      <4>2. /\ buf[Slot(uint(e - j))] # Newline
            /\ j <= o => j <= pos /\ crt[pos - j] = buf[Slot(uint(e - j))]
        BY <1>1, <1>10 DEF EchoInv, EchoShowsLine
      <4>3. j \in 1 .. INPUT_BUF - 1 /\ i \in 1 .. INPUT_BUF
        BY <1>1, <1>2, <4>1
      <4>4. Slot(uint(e - j)) # Slot(e) /\ Slot(uint(e - j)) \in DOMAIN buf
        <5>1. DOMAIN buf = 0 .. INPUT_BUF - 1
          BY DEF EchoInv, EchoTypeOK
        <5> QED
          BY <4>3, <5>1, SlotFree
      <4>5. input'.buf[Slot(uint(e - j))] = buf[Slot(uint(e - j))]
        BY <1>4, <4>4
      <4>6. ASSUME i <= o + 1
            PROVE  i <= pos' /\ crt'[pos' - i] = buf[Slot(uint(e - j))]
        <5>1. j <= o /\ i - 1 <= pos
          BY <1>10, <4>1, <4>2, <4>6 DEF EchoInv, EchoTypeOK
        <5>2. i <= pos' /\ crt'[pos' - i] = crt[pos - j]
          BY <1>5, <1>9, <3>3, <4>1, <4>3, <5>1
        <5> QED
          BY <4>2, <5>1, <5>2
      <4>7. i - 1 = j
        BY <4>1
      <4> QED
        BY <3>1, <4>2, <4>5, <4>6, <4>7
    <3> QED
      BY <3>2, <3>3
  <2>4. own' = o + 1 /\ \A i \in 1 .. own' : i \in 1 .. l + 1
    BY <1>1, <1>9, <1>10
  <2>3. EchoShowsLine'
    BY <1>1, <1>4, <1>10, <2>1, <2>2, <2>4 DEF EchoShowsLine
  <2> QED
    BY <1>1, <1>2, <1>4, <1>7, <2>1, <2>2, <2>3 DEF EchoInv
<1> QED
  BY <1>4, <1>8, <1>9

\* Others print: nothing of the line is known to stand in front of the cursor.
LEMMA PrintEcho ==
  ASSUME EchoInv, NEW c, cprintf(c)
  PROVE  EchoInv'
<1>1. input' = input /\ own' = 0 /\ cgaputc(c)
  BY DEF cprintf
<1>2. DOMAIN crt' = DOMAIN crt /\ pos' \in 0 .. ROWS * COLS - 1
  BY <1>1, Drawn DEF EchoInv
<1>3. EchoTypeOK'
  BY <1>1, <1>2 DEF EchoInv, EchoTypeOK
<1>4. uint(input.e - input.w) >= 0 /\ 1 .. own' = {}
  <2>1. uint(input.e - input.w) \in 0 .. UINT - 1
    BY RingIndices DEF EchoInv, EchoTypeOK
  <2> QED
    BY <1>1, <2>1, ConsoleAssumption
<1>5. EchoShowsLine'
  BY <1>1, <1>4 DEF EchoShowsLine
<1> QED
  BY <1>1, <1>3, <1>5 DEF EchoInv

\* What control-U erases is the whole line.
LEMMA WholeLine ==
  ASSUME EchoInv
  PROVE  LineLength = uint(input.e - input.w)
<1>0. input.e \in 0 .. UINT - 1 /\ input.w \in 0 .. UINT - 1 /\ UINT \in Nat
  BY ConsoleAssumption DEF EchoInv, EchoTypeOK
<1>1. PICK l \in Nat : l = uint(input.e - input.w)
  <2>1. uint(input.e - input.w) \in 0 .. UINT - 1
    BY <1>0, RingIndices
  <2> QED
    BY <1>0, <2>1
<1>2. \A i \in 1 .. l : input.buf[Slot(uint(input.e - i))] # Newline
  BY <1>1 DEF EchoInv
<1>3. ASSUME NEW n \in 0 .. l, input.buf[Slot(uint(input.e - n - 1))] = Newline, n # l
      PROVE  FALSE
  <2>1. PICK j \in 1 .. l : j = n + 1
    BY <1>3
  <2>2. input.e - n - 1 = input.e - j
    BY <2>1 DEF EchoInv, EchoTypeOK
  <2> QED
    BY <1>2, <1>3, <2>2
<1>4. l \in 0 .. l
  OBVIOUS
<1> QED
  BY <1>1, <1>2, <1>3, <1>4 DEF LineLength

\* A character of the keyboard or of the serial line.
LEMMA TypedEcho ==
  ASSUME EchoInv, NEW c, consoleintr(c)
  PROVE  EchoInv'
<1>1. ASSUME UNCHANGED inputVars PROVE EchoInv'
  BY <1>1 DEF inputVars, EchoInv, EchoTypeOK, EchoShowsLine
<1>2. ASSUME NEW n \in 0 .. uint(input.e - input.w), Erase(n)
      PROVE  EchoInv'
  BY <1>1, <1>2, EraseEcho DEF Erase
<1>3. CASE Erase(LineLength)
  <2>1. input.e \in 0 .. UINT - 1 /\ input.w \in 0 .. UINT - 1 /\ UINT \in Nat
    BY ConsoleAssumption DEF EchoInv, EchoTypeOK
  <2>2. PICK l \in Nat : l = uint(input.e - input.w)
    <3>1. uint(input.e - input.w) \in 0 .. UINT - 1
      BY <2>1, RingIndices
    <3> QED
      BY <2>1, <3>1
  <2>3. LineLength \in 0 .. uint(input.e - input.w)
    BY <2>2, WholeLine
  <2> QED
    BY <1>2, <1>3, <2>3
<1>4. CASE Erase(1)
  <2>1. CASE input.e # input.w
    <3>1. input.e \in 0 .. UINT - 1 /\ input.w \in 0 .. UINT - 1 /\ UINT \in Nat
      BY ConsoleAssumption DEF EchoInv, EchoTypeOK
    <3>2. uint(input.e - input.w) \in Nat /\ uint(input.e - input.w) # 0
      BY <2>1, <3>1, RingIndices
    <3>3. 1 \in 0 .. uint(input.e - input.w)
      BY <3>2
    <3> QED
      BY <1>2, <1>4, <3>3
  <2>2. CASE input.e = input.w
    BY <1>1, <1>4, <2>2 DEF Erase
  <2> QED
    BY <2>1, <2>2
<1>5. CASE uint(input.e - input.r) < INPUT_BUF /\ Store(c)
  BY <1>5, StoreEcho
<1> QED
  BY <1>1, <1>3, <1>4, <1>5 DEF consoleintr

\* A character is read.
LEMMA ReadEcho ==
  ASSUME EchoInv, NEW p, consoleread_char(p)
  PROVE  EchoInv'
<1>1. /\ input.r # input.w /\ UNCHANGED <<crt, pos, own>>
      /\ input' = input \/ input' = [input EXCEPT !.r = uint(@ + 1)]
  BY DEF consoleread_char
<1>2. CASE input' = input
  BY <1>1, <1>2 DEF EchoInv, EchoTypeOK, EchoShowsLine
<1>3. CASE input' = [input EXCEPT !.r = uint(@ + 1)]
  <2> PICK e \in 0 .. UINT - 1, w \in 0 .. UINT - 1, r \in 0 .. UINT - 1 :
        e = input.e /\ w = input.w /\ r = input.r
    BY DEF EchoInv, EchoTypeOK
  <2>1. /\ input'.e = e /\ input'.w = w /\ input'.r = uint(r + 1) /\ input'.buf = input.buf
        /\ DOMAIN input' = DOMAIN input /\ uint(r + 1) \in 0 .. UINT - 1
    BY <1>3, RingIndices DEF EchoInv, EchoTypeOK
  <2>0. UINT \in Nat /\ uint(e - w) \in 0 .. UINT - 1 /\ uint(e - r) \in 0 .. UINT - 1
    BY RingIndices, ConsoleAssumption
  <2>2. PICK l \in Nat, d \in Nat : /\ l = uint(e - w) /\ d = uint(e - r) /\ l <= d
                                    /\ d <= INPUT_BUF
    BY <2>0 DEF EchoInv
  <2>3. l # d
    <3>1. ASSUME l = d PROVE FALSE
      <4>1. PICK x \in Int, y \in Int : x = e - w /\ y = e - r
        OBVIOUS
      <4>2. UINT \in Nat \ {0}
        BY ConsoleAssumption
      <4>3. (e - (x % UINT)) % UINT = (e - x) % UINT /\ (e - (y % UINT)) % UINT = (e - y) % UINT
        <5>1. e \in Int
          OBVIOUS
        <5>2. (e - (x % UINT)) % UINT = (e - x) % UINT
          BY <4>2, <5>1, RemainderMinus
        <5>3. (e - (y % UINT)) % UINT = (e - y) % UINT
          BY <4>2, <5>1, RemainderMinus
        <5> QED
          BY <5>2, <5>3
      <4>4. x % UINT = y % UINT
        BY <2>2, <3>1, <4>1 DEF uint
      <4>5. e - x = w /\ e - y = r
        BY <4>1
      <4>6. w % UINT = w /\ r % UINT = r
        BY <4>2, SmallRemainder
      <4> QED
        BY <1>1, <4>3, <4>4, <4>5, <4>6
    <3> QED
      BY <3>1
  <2>4. uint(e - uint(r + 1)) = d - 1
    <3>1. uint(e - r) > 0
      BY <2>2, <2>3
    <3> QED
      BY <2>2, <3>1, RingRead
  <2>5. EchoTypeOK'
    BY <1>1, <2>1 DEF EchoInv, EchoTypeOK
  <2>6. EchoShowsLine'
    BY <1>1, <2>1 DEF EchoInv, EchoShowsLine
  <2>7. uint(input'.e - input'.w) = l /\ uint(input'.e - input'.r) = d - 1
    BY <2>1, <2>2, <2>4
  <2>8. l <= d - 1 /\ d - 1 <= INPUT_BUF
    BY <2>2, <2>3, ConsoleAssumption
  <2>9. \A i \in 1 .. l : input'.buf[Slot(uint(input'.e - i))] # Newline
    BY <2>1, <2>2 DEF EchoInv
  <2> QED
    BY <2>5, <2>6, <2>7, <2>8, <2>9 DEF EchoInv
<1> QED
  BY <1>1, <1>2, <1>3

\* The screen shows what was typed of the line since others printed (console.c,
\* consoleintr, cgaputc and cprintf): what a key erases of that on the screen is what it
\* erases from the ring, wherever the indices wrap around and however often the
\* screen scrolls, and nothing that procdump or another process prints changes it.
THEOREM EchoIsLine == StreamSpec => []EchoShowsLine
<1>1. StreamInit => EchoInv
  <2> SUFFICES ASSUME ConsoleInit PROVE EchoInv
    BY DEF StreamInit
  <2>1. /\ UINT \in Nat \ {0} /\ INPUT_BUF \in Nat /\ ROWS \in Nat \ {0} /\ COLS \in Nat \ {0}
    BY ConsoleAssumption
  <2>2. /\ input = [buf |-> [i \in 0 .. INPUT_BUF - 1 |-> Blank], r |-> 0, w |-> 0, e |-> 0]
        /\ crt = [i \in 0 .. (ROWS + 1) * COLS |-> Blank] /\ pos = 0 /\ own = 0
    BY DEF ConsoleInit
  <2>3. uint(0 - 0) = 0
    <3>1. 0 - 0 = 0 /\ 0 % UINT = 0
      BY <2>1, SmallRemainder
    <3> QED
      BY <3>1 DEF uint
  <2>4. ROWS * COLS \in Nat \ {0}
    BY <2>1
  <2>5. EchoTypeOK
    BY <2>1, <2>2, <2>4 DEF EchoTypeOK
  <2>6. uint(input.e - input.w) = 0 /\ uint(input.e - input.r) = 0
    BY <2>2, <2>3
  <2>7. 1 .. uint(input.e - input.w) = {} /\ 1 .. own = {}
    BY <2>2, <2>6
  <2> QED
    BY <2>1, <2>2, <2>5, <2>6, <2>7 DEF EchoInv, EchoShowsLine
<1>2. EchoInv /\ [StreamNext]_streamVars => EchoInv'
  <2> SUFFICES ASSUME EchoInv, [StreamNext]_streamVars PROVE EchoInv'
    OBVIOUS
  <2>1. ASSUME UNCHANGED inputVars PROVE EchoInv'
    BY <2>1 DEF inputVars, EchoInv, EchoTypeOK, EchoShowsLine
  <2>2. CASE Typing
    BY <2>2, TypedEcho, PrintEcho DEF Typing, uartintr, kbdintr
  <2>3. CASE Reading(consReader)
    BY <2>1, <2>3, ReadEcho
    DEF Reading, consoleread, consoleread_empty, consoleread_sleep
  <2>4. CASE Killing
    BY <2>1, <2>4 DEF Killing, consoleVars
  <2>5. CASE \/ cat_read(consReader) \/ cat_write(consReader) \/ wc_read(pipeReader)
             \/ wc_end(pipeReader) \/ \E p \in Ends : exit(p)
    BY <2>1, <2>5 DEF cat_read, cat_write, wc_read, wc_end, exit, consoleVars
  <2>6. CASE PipeNext /\ UNCHANGED consoleVars
    BY <2>1, <2>6 DEF consoleVars
  <2>7. CASE UNCHANGED streamVars
    BY <2>1, <2>7 DEF streamVars, consoleVars
  <2> QED
    BY <2>2, <2>3, <2>4, <2>5, <2>6, <2>7 DEF StreamNext, Programs, Ends
<1>3. EchoInv => EchoShowsLine
  BY DEF EchoInv
<1> QED
  BY <1>1, <1>2, <1>3, PTL DEF StreamSpec
=============================================================================
