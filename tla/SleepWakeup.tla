----------------------------- MODULE SleepWakeup -----------------------------
(***************************************************************************)
(* What the drivers of the xv6 kernel see of proc.c: a process sleeps on a   *)
(* channel and gives up its lock in the same step, wakeup makes every         *)
(* process on the channel runnable, kill marks a process and wakes it.        *)
(* Module Proc has the implementation.                                      *)
(***************************************************************************)
CONSTANT Procs

VARIABLES
  chan,      \* the channel a process sleeps on, or Awake
  killed     \* p->killed

Awake == <<"awake">>

SleepInit ==
  /\ chan = [p \in Procs |-> Awake]
  /\ killed = [p \in Procs |-> FALSE]

sleep(p, ch) == chan' = [chan EXCEPT ![p] = ch]

Woken(ch) == [p \in Procs |-> IF chan[p] = ch THEN Awake ELSE chan[p]]

wakeup(ch) == chan' = Woken(ch)

kill(p) ==
  /\ ~killed[p]
  /\ killed' = [killed EXCEPT ![p] = TRUE]
  /\ chan' = [chan EXCEPT ![p] = Awake]
=============================================================================
