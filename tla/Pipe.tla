-------------------------------- MODULE Pipe --------------------------------
(***************************************************************************)
(* pipe.c: a ring of PIPESIZE characters between a process that writes and    *)
(* one that reads, their two channels, and the ends that are closed.          *)
(***************************************************************************)
EXTENDS SleepWakeup, Integers, Sequences

CONSTANTS
  PIPESIZE,
  PUINT,                  \* an unsigned int counts modulo PUINT
  PipeReadSize,           \* n of piperead
  pipeWriter, pipeReader

ASSUME PipeAssumption ==
  /\ PIPESIZE \in Nat \ {0} /\ PUINT \in Nat /\ PUINT > PIPESIZE
  /\ PUINT % PIPESIZE = 0
  /\ PipeReadSize \in Nat \ {0}
  /\ pipeWriter \in Procs /\ pipeReader \in Procs /\ pipeWriter # pipeReader
  /\ "unlocked" \notin Procs

VARIABLES
  pipe,        \* data, nread, nwrite, readopen, writeopen
  freed,       \* the page of the pipe was given back
  plock,       \* the process that holds p->lock, or NoPipeLock
  ppc,         \* where a process is in this module
  addr, sent,  \* what pipewrite was given, and its i
  got          \* what piperead has returned so far, and copies now

callVars == <<addr, sent, got>>
pipeVars == <<pipe, freed, plock, ppc, callVars>>

NoPipeLock == "unlocked"
ReadChan == <<"nread">>
WriteChan == <<"nwrite">>

puint(x) == x % PUINT
Queued == puint(pipe.nwrite - pipe.nread)

\* pipealloc has succeeded and the two ends were given to two processes.
PipeInit ==
  /\ pipe = [data |-> [i \in 0 .. PIPESIZE - 1 |-> " "], nread |-> 0, nwrite |-> 0,
             readopen |-> TRUE, writeopen |-> TRUE]
  /\ freed = FALSE
  /\ plock = NoPipeLock
  /\ ppc = [p \in {pipeWriter, pipeReader} |-> "user"]
  /\ addr = <<>> /\ sent = 0 /\ got = <<>>

goto(p, where) == ppc' = [ppc EXCEPT ![p] = where]

\* acquire at the head of a call, and again at the end of sleep.
acquire(p) ==
  /\ ppc[p] \in {"write", "read", "close"} /\ chan[p] = Awake
  /\ plock = NoPipeLock /\ plock' = p
  /\ goto(p, CASE ppc[p] = "write" -> "writeloop" [] ppc[p] = "read" -> "readloop"
               [] ppc[p] = "close" -> "closing")
  /\ UNCHANGED <<pipe, freed, callVars, chan, killed>>

release(p, where) == plock' = NoPipeLock /\ goto(p, where)

\* Mutant of Full: the indices are compared before they wrap around.
Full_Signed == pipe.nwrite = pipe.nread + PIPESIZE

Full == pipe.nwrite = puint(pipe.nread + PIPESIZE)

\* The next character of the call is stored.
pipewrite(p) ==
  /\ ppc[p] = "writeloop" /\ sent < Len(addr) /\ ~Full
  /\ pipe' = [pipe EXCEPT !.data[pipe.nwrite % PIPESIZE] = addr[sent + 1],
                          !.nwrite = puint(@ + 1)]
  /\ sent' = sent + 1
  /\ UNCHANGED <<freed, plock, ppc, addr, got, chan, killed>>

\* The pipe is full: leave, or wake the reader and be about to sleep.
pipewrite_full(p) ==
  /\ ppc[p] = "writeloop" /\ sent < Len(addr) /\ Full
  /\ IF ~pipe.readopen \/ killed[p]
       THEN release(p, "failed") /\ UNCHANGED chan
       ELSE wakeup(ReadChan) /\ goto(p, "writesleep") /\ UNCHANGED plock
  /\ UNCHANGED <<pipe, freed, callVars, killed>>

\* Mutant of pipewrite_sleep: the lock is released before the process sleeps.
pipewrite_sleep_Unlocked(p) ==
  \/ /\ ppc[p] = "writesleep" /\ plock = p
     /\ plock' = NoPipeLock
     /\ UNCHANGED <<pipe, freed, ppc, callVars, chan, killed>>
  \/ /\ ppc[p] = "writesleep" /\ plock # p
     /\ sleep(p, WriteChan) /\ goto(p, "write")
     /\ UNCHANGED <<pipe, freed, plock, callVars, killed>>

pipewrite_sleep(p) ==
  /\ ppc[p] = "writesleep"
  /\ sleep(p, WriteChan)
  /\ release(p, "write")
  /\ UNCHANGED <<pipe, freed, callVars, killed>>

pipewrite_done(p) ==
  /\ ppc[p] = "writeloop" /\ sent = Len(addr)
  /\ wakeup(ReadChan)
  /\ release(p, "user")
  /\ UNCHANGED <<pipe, freed, callVars, killed>>

\* Nothing to read and the other end open: leave or be about to sleep.
piperead_empty(p) ==
  /\ ppc[p] = "readloop" /\ pipe.nread = pipe.nwrite /\ pipe.writeopen
  /\ IF killed[p] THEN release(p, "failed")
                  ELSE goto(p, "readsleep") /\ UNCHANGED plock
  /\ UNCHANGED <<pipe, freed, callVars, chan, killed>>

piperead_sleep(p) ==
  /\ ppc[p] = "readsleep"
  /\ sleep(p, ReadChan)
  /\ release(p, "read")
  /\ UNCHANGED <<pipe, freed, callVars, killed>>

AtMost(a, b) == IF a <= b THEN a ELSE b

\* Up to n characters are copied and the writer is woken; nothing to read with
\* the other end closed is the end of the file.
piperead(p) ==
  /\ ppc[p] = "readloop"
  /\ pipe.nread # pipe.nwrite \/ ~pipe.writeopen
  /\ LET n == AtMost(PipeReadSize, Queued) IN
       /\ got' = got \o [i \in 1 .. n |-> pipe.data[puint(pipe.nread + i - 1) % PIPESIZE]]
       /\ pipe' = [pipe EXCEPT !.nread = puint(@ + n)]
       /\ release(p, IF n = 0 THEN "failed" ELSE "user")
  /\ wakeup(WriteChan)
  /\ UNCHANGED <<freed, addr, sent, killed>>

\* Mutant of pipeclose: the process at the other end is not woken.
pipeclose_NoWakeup(p) ==
  /\ ppc[p] = "closing"
  /\ LET closed == IF p = pipeWriter THEN [pipe EXCEPT !.writeopen = FALSE]
                                     ELSE [pipe EXCEPT !.readopen = FALSE]
     IN  /\ pipe' = closed
         /\ freed' = (~closed.readopen /\ ~closed.writeopen)
  /\ release(p, "closed")
  /\ UNCHANGED <<callVars, chan, killed>>

\* One end is closed and the other woken; the last one frees the page.
pipeclose(p) ==
  /\ ppc[p] = "closing"
  /\ LET closed == IF p = pipeWriter THEN [pipe EXCEPT !.writeopen = FALSE]
                                     ELSE [pipe EXCEPT !.readopen = FALSE]
     IN  /\ pipe' = closed
         /\ freed' = (~closed.readopen /\ ~closed.writeopen)
  /\ wakeup(IF p = pipeWriter THEN ReadChan ELSE WriteChan)
  /\ release(p, "closed")
  /\ UNCHANGED <<callVars, killed>>

PipeNext ==
  \/ pipewrite(pipeWriter) \/ pipewrite_full(pipeWriter)
  \/ pipewrite_sleep(pipeWriter) \/ pipewrite_done(pipeWriter)
  \/ piperead_empty(pipeReader) \/ piperead_sleep(pipeReader) \/ piperead(pipeReader)
  \/ \E p \in {pipeWriter, pipeReader} : acquire(p) \/ pipeclose(p)

-----------------------------------------------------------------------------
(* Properties *)

\* A call has failed and exit is on its way to pipeclose.
Leaving == {"failed", "close", "closing"}

\* Nobody sleeps for what is already there, and no process waits at a pipe that
\* the other one has left: the writer asleep has a full pipe and a reader, the
\* reader asleep an empty pipe and a writer.  (A killed writer that finds the
\* pipe full leaves without a wakeup; its pipeclose is the one.)
NobodySleepsInVain ==
  plock = NoPipeLock =>
    /\ chan[pipeWriter] = WriteChan => Full /\ pipe.readopen
    /\ chan[pipeReader] = ReadChan =>
         pipe.writeopen /\ (Queued = 0 \/ ppc[pipeWriter] \in Leaving)
=============================================================================
