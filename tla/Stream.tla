------------------------------- MODULE Stream -------------------------------
(***************************************************************************)
(* A pipeline that reads the console: what  cat | wc  does at the prompt of   *)
(* the xv6 shell.  The first process copies the lines of consoleread into    *)
(* the pipe, the second one reads them; either may be killed, the second may  *)
(* stop early, and both close their end when they leave.                     *)
(***************************************************************************)
EXTENDS Console, Pipe

streamVars == <<consoleVars, pipeVars, chan, killed>>

StreamInit ==
  /\ SleepInit /\ ConsoleInit /\ PipeInit
  /\ consReader = pipeWriter

\* The reader of the console asks for more, or has been killed.
cat_read(p) ==
  /\ rpc = "user" /\ ppc[p] = "user"
  /\ IF killed[p] THEN goto(p, "close") /\ UNCHANGED <<rpc, dst>>
                  ELSE rpc' = "read" /\ dst' = <<>> /\ UNCHANGED ppc
  /\ UNCHANGED <<inputVars, keyVars, typed, conslock, pipe, freed, plock, callVars, chan, killed>>

\* What it got is written; nothing, or an error, ends the program.
cat_write(p) ==
  /\ rpc \in {"done", "failed"}
  /\ rpc' = "user"
  /\ IF rpc = "done" /\ dst # <<>> /\ ~killed[p]
       THEN goto(p, "write") /\ addr' = dst /\ sent' = 0
       ELSE goto(p, "close") /\ UNCHANGED <<addr, sent>>
  /\ UNCHANGED <<inputVars, keyVars, typed, conslock, dst, pipe, freed, plock, got, chan, killed>>

\* The second program reads again, or ends.
wc_read(p) ==
  /\ ppc[p] = "user"
  /\ goto(p, IF killed[p] THEN "close" ELSE "read")
  /\ UNCHANGED <<consoleVars, pipe, freed, plock, callVars, chan, killed>>

wc_end(p) ==
  /\ ppc[p] = "user"
  /\ goto(p, "close")
  /\ UNCHANGED <<consoleVars, pipe, freed, plock, callVars, chan, killed>>

\* A call that failed: exit closes the pipe.
exit(p) ==
  /\ ppc[p] = "failed"
  /\ goto(p, "close")
  /\ UNCHANGED <<consoleVars, pipe, freed, plock, callVars, chan, killed>>

Typing ==
  \/ \E c \in Serial : uartintr(c) /\ UNCHANGED pipeVars
  \/ \E key \in Keys, up \in BOOLEAN : kbdintr(key, up) /\ UNCHANGED pipeVars
  \/ \E c \in Printed : cprintf(c) /\ UNCHANGED pipeVars

Reading(p) ==
  /\ consoleread(p) \/ consoleread_empty(p) \/ consoleread_sleep(p) \/ consoleread_char(p)
  /\ UNCHANGED pipeVars

Killing == \E p \in Procs : kill(p) /\ UNCHANGED <<consoleVars, pipeVars>>

Programs ==
  \/ Reading(consReader) \/ cat_read(consReader) \/ cat_write(consReader)
  \/ wc_read(pipeReader) \/ \E p \in {pipeWriter, pipeReader} : exit(p)
  \/ PipeNext /\ UNCHANGED consoleVars

StreamNext == Typing \/ Killing \/ Programs \/ wc_end(pipeReader)

\* The scheduler runs every process that can run; nobody has to type.
StreamSpec == StreamInit /\ [][StreamNext]_streamVars /\ WF_streamVars(Programs)

-----------------------------------------------------------------------------
(* Properties *)

\* The characters that are still in the ring of the console.
Unread == Chars(input.r, uint(input.w - input.r))

\* The characters that consoleread has taken and pipewrite has not stored.
InHand ==
  IF rpc # "user" THEN dst
  ELSE IF ppc[pipeWriter] \in {"write", "writeloop", "writesleep"}
         THEN SubSeq(addr, sent + 1, Len(addr))
         ELSE <<>>

InPipe == [i \in 1 .. Queued |-> pipe.data[puint(pipe.nread + i - 1) % PIPESIZE]]

Text(s) == SelectSeq(s, LAMBDA c : c # ControlD)

\* No character is lost, doubled or reordered from the keyboard to the last
\* reader: what was finished with the enter key is what was received, followed
\* by what is in the pipe, in the hands of the first process and in the ring.
\* (A program that leaves drops what it holds.)
NothingLost ==
  ppc[pipeWriter] \notin Leaving \cup {"closed"} =>
    Text(committed) = got \o InPipe \o InHand \o Text(Unread)

\* Every finished line arrives, or the second program has seen the end of the
\* file and left; only the characters of a line that is not finished wait in the
\* first program.
LinesArrive ==
  <>[](\/ ppc[pipeReader] = "closed"
       \/ /\ Text(committed) = got \o InHand
          /\ \A i \in 1 .. Len(InHand) : InHand[i] # Newline)
=============================================================================
