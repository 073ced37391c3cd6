------------------------------ MODULE Console ------------------------------
(***************************************************************************)
(* console.c with its sources kbd.c and uart.c: the ring buffer of typed     *)
(* characters with its three unsigned indices, the editing of the line that   *)
(* is not finished, its echo on the screen, what others print meanwhile, and  *)
(* one process in consoleread.                                             *)
(***************************************************************************)
EXTENDS SleepWakeup, Integers, Sequences

CONSTANTS
  INPUT_BUF,    \* size of input.buf
  UINT,         \* an unsigned int counts modulo UINT
  COLS, ROWS,   \* the screen: 80 columns, 24 rows that scroll
  Serial,       \* the characters the serial line may deliver
  Printed,      \* the characters that others print
  MaxTyped,     \* bound on the characters and key strokes, printed ones included
  ReadSize,     \* n of consoleread
  consReader    \* the process that reads the console

\* A line that fills input.buf fits on the screen after it has scrolled.
ASSUME ConsoleAssumption ==
  /\ INPUT_BUF \in Nat \ {0} /\ UINT \in Nat /\ UINT > INPUT_BUF
  /\ UINT % INPUT_BUF = 0
  /\ COLS \in Nat \ {0} /\ ROWS \in Nat \ {0} /\ INPUT_BUF <= (ROWS - 1) * COLS
  /\ MaxTyped \in Nat /\ ReadSize \in Nat \ {0} /\ consReader \in Procs

VARIABLES
  input,      \* buf, r, w, e
  crt, pos,   \* the characters of the screen and the cursor
  own,        \* history: the characters of the line echoed since others printed
  shift,      \* the modifiers that kbdgetc remembers
  held,       \* the keys that are pressed
  typed,      \* number of characters and strokes so far
  conslock,   \* the process that holds cons.lock, or NoLock
  rpc, dst,   \* where consoleread is and what it has copied
  committed   \* history: every character given to readers

inputVars == <<input, crt, pos, own, committed>>
keyVars == <<shift, held>>
readVars == <<conslock, rpc, dst>>
consoleVars == <<inputVars, keyVars, typed, readVars>>

NoLock == "unlocked"
Blank == " "
Newline == "nl"
ControlD == "^D"
ControlU == "^U"
ControlH == "^H"
ControlP == "^P"
InputChan == <<"input.r">>

uint(x) == x % UINT
Slot(x) == x % INPUT_BUF

ConsoleInit ==
  /\ input = [buf |-> [i \in 0 .. INPUT_BUF - 1 |-> Blank], r |-> 0, w |-> 0, e |-> 0]
  /\ crt = [i \in 0 .. (ROWS + 1) * COLS |-> Blank] /\ pos = 0 /\ own = 0
  /\ shift = {} /\ held = {} /\ typed = 0
  /\ conslock = NoLock /\ rpc = "user" /\ dst = <<>>
  /\ committed = <<>>

-----------------------------------------------------------------------------
(* The screen *)

\* One character at the cursor; past the last row the screen scrolls.
cgaputc(c) ==
  LET after == IF c = Newline THEN pos + COLS - (pos % COLS) ELSE pos + 1
      drawn == IF c = Newline THEN crt ELSE [crt EXCEPT ![pos] = c]
      scrolls == after \div COLS >= ROWS
      cursor == IF scrolls THEN after - COLS ELSE after
      moved == [i \in DOMAIN crt |->
                  IF i < (ROWS - 1) * COLS THEN drawn[i + COLS] ELSE drawn[i]]
      scrolled == [i \in DOMAIN crt |->
                     IF i \in cursor .. ROWS * COLS - 1 THEN Blank ELSE moved[i]]
  IN  /\ pos' = cursor
      /\ crt' = [(IF scrolls THEN scrolled ELSE drawn) EXCEPT ![cursor] = Blank]

\* consputc(BACKSPACE), n times.
backspace(n) ==
  LET cursor == IF n <= pos THEN pos - n ELSE 0
  IN  /\ pos' = cursor
      /\ crt' = [i \in DOMAIN crt |-> IF i \in cursor .. pos - 1 THEN Blank ELSE crt[i]]

-----------------------------------------------------------------------------
(* The interrupt handlers *)

\* The characters of the ring from index a, n of them.
Chars(a, n) == [i \in 1 .. n |-> input.buf[Slot(uint(a + i - 1))]]

\* How many of the last characters control-U erases.
LineLength ==
  CHOOSE n \in 0 .. uint(input.e - input.w) :
    /\ \A i \in 1 .. n : input.buf[Slot(uint(input.e - i))] # Newline
    /\ \/ n = uint(input.e - input.w)
       \/ input.buf[Slot(uint(input.e - n - 1))] = Newline

\* Mutant of Erase: nothing protects the characters already given to readers.
Erase_Committed(n) ==
  /\ input' = [input EXCEPT !.e = uint(@ - n)]
  /\ backspace(n) /\ own' = IF n <= own THEN own - n ELSE 0
  /\ UNCHANGED committed

Erase(n) ==
  IF input.e # input.w
    THEN /\ input' = [input EXCEPT !.e = uint(@ - n)]
         /\ backspace(n) /\ own' = IF n <= own THEN own - n ELSE 0
         /\ UNCHANGED committed
    ELSE UNCHANGED inputVars

\* A new character; a finished line, or a full buffer, is given to the reader.
Store(c) ==
  LET e == uint(input.e + 1)
      commits == c \in {Newline, ControlD} \/ e = uint(input.r + INPUT_BUF)
      stored == [input EXCEPT !.buf[Slot(input.e)] = c, !.e = e]
  IN  /\ input' = IF commits THEN [stored EXCEPT !.w = e] ELSE stored
      /\ committed' = IF commits
                        THEN Append(committed \o Chars(input.w, uint(input.e - input.w)), c)
                        ELSE committed
      /\ chan' = IF commits THEN Woken(InputChan) ELSE chan
      /\ cgaputc(c) /\ own' = IF commits THEN 0 ELSE own + 1

\* Others print at the cursor, under cons.lock: the listing of procdump after control-P,
\* cprintf in the kernel, consolewrite of any process.
cprintf(c) ==
  /\ typed < MaxTyped /\ typed' = typed + 1
  /\ conslock = NoLock
  /\ cgaputc(c) /\ own' = 0
  /\ UNCHANGED <<input, committed, keyVars, readVars, chan, killed>>

\* One character from the keyboard or the serial line; NUL stands for the 0 of
\* kbdgetc and is dropped, as is everything that finds the buffer full.  What
\* control-P asks for is printed after the handler.
consoleintr(c) ==
  /\ conslock = NoLock
  /\ \/ c = ControlU /\ Erase(LineLength) /\ UNCHANGED chan
     \/ c = ControlH /\ Erase(1) /\ UNCHANGED chan
     \/ /\ c \notin {ControlU, ControlH, ControlP, "NUL"}
        /\ uint(input.e - input.r) < INPUT_BUF
        /\ Store(c)
     \/ /\ \/ c \in {ControlP, "NUL"}
           \/ c \notin {ControlU, ControlH} /\ uint(input.e - input.r) >= INPUT_BUF
        /\ UNCHANGED <<inputVars, chan>>

uartintr(c) ==
  /\ typed < MaxTyped /\ typed' = typed + 1
  /\ consoleintr(c)
  /\ UNCHANGED <<keyVars, readVars, killed>>

\* The keys: a letter with its control character, and the right control key,
\* which the keyboard announces with the byte E0.
Keys == {"d", "ctl"}
shiftcode(key) == IF key = "ctl" THEN {"CTL"} ELSE {}

\* A byte of the keyboard: the modifiers after it and the character it means.
kbdgetc(s, byte) ==
  IF byte.key = "E0" THEN [shift |-> s \cup {"E0ESC"}, c |-> "NUL"]
  ELSE IF byte.up THEN [shift |-> s \ (shiftcode(byte.key) \cup {"E0ESC"}), c |-> "NUL"]
  ELSE LET t == (s \ {"E0ESC"}) \cup shiftcode(byte.key)
       IN  [shift |-> t,
            c |-> IF byte.key # "d" \/ "E0ESC" \in s THEN "NUL"
                  ELSE IF "CTL" \in t THEN ControlD ELSE "d"]

\* A key is pressed, repeated or released.
kbdintr(key, up) ==
  LET s == IF key = "ctl" THEN kbdgetc(shift, [key |-> "E0", up |-> FALSE]).shift ELSE shift
      got == kbdgetc(s, [key |-> key, up |-> up])
  IN  /\ typed < MaxTyped /\ typed' = typed + 1
      /\ up => key \in held
      /\ held' = IF up THEN held \ {key} ELSE held \cup {key}
      /\ shift' = got.shift
      /\ consoleintr(got.c)
      /\ UNCHANGED <<readVars, killed>>

-----------------------------------------------------------------------------
(* consoleread *)

consoleread(p) ==
  /\ rpc = "read" /\ chan[p] = Awake
  /\ conslock = NoLock /\ conslock' = p
  /\ rpc' = "loop"
  /\ UNCHANGED <<inputVars, keyVars, typed, dst, chan, killed>>

\* Nothing to read: a killed process leaves, another one is about to sleep.
consoleread_empty(p) ==
  /\ rpc = "loop" /\ input.r = input.w
  /\ IF killed[p] THEN rpc' = "failed" /\ conslock' = NoLock
                  ELSE rpc' = "sleep" /\ UNCHANGED conslock
  /\ UNCHANGED <<inputVars, keyVars, typed, dst, chan, killed>>

consoleread_sleep(p) ==
  /\ rpc = "sleep"
  /\ sleep(p, InputChan)
  /\ conslock' = NoLock
  /\ rpc' = "read"
  /\ UNCHANGED <<inputVars, keyVars, typed, dst, killed>>

\* One character; the read ends after n of them, after a newline, and at a
\* control-D, which is kept for the next read unless it is the first.
consoleread_char(p) ==
  /\ rpc = "loop" /\ input.r # input.w
  /\ LET c == input.buf[Slot(input.r)]
         ends == c \in {Newline, ControlD} \/ Len(dst) + 1 = ReadSize
     IN  /\ dst' = IF c = ControlD THEN dst ELSE Append(dst, c)
         /\ input' = IF c = ControlD /\ dst # <<>> THEN input
                     ELSE [input EXCEPT !.r = uint(@ + 1)]
         /\ rpc' = IF ends THEN "done" ELSE "loop"
         /\ conslock' = IF ends THEN NoLock ELSE conslock
  /\ UNCHANGED <<crt, pos, own, committed, keyVars, typed, chan, killed>>

-----------------------------------------------------------------------------
(* Properties *)

\* Echo and buffer agree: what was typed of the line since others printed stands in
\* front of the cursor, so that control-H and control-U take from the screen what they
\* take from the buffer, across the edges of both rings and scrolling.  (What was typed
\* before that stays on the screen when it is erased, and others' characters go.)
EchoShowsLine ==
  /\ own <= uint(input.e - input.w)
  /\ \A i \in 1 .. own : i <= pos /\ crt[pos - i] = input.buf[Slot(uint(input.e - i))]
=============================================================================
