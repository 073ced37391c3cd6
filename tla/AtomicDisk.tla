----------------------------- MODULE AtomicDisk -----------------------------
(***************************************************************************)
(* What the log of xv6 promises the file system: system calls that run       *)
(* together commit together, a commit never takes in an unfinished system    *)
(* call, and a crash brings back exactly what was last committed.            *)
(***************************************************************************)
CONSTANTS Procs, Blocks, Values, InitialDisk

VARIABLES
  durable,   \* contents a crash would leave, once recovered
  current,   \* contents that system calls see
  active     \* processes inside a file system call

diskVars == <<durable, current, active>>

Init ==
  /\ durable = InitialDisk
  /\ current = InitialDisk
  /\ active = {}

Begin(p) ==
  /\ p \notin active
  /\ active' = active \cup {p}
  /\ UNCHANGED <<durable, current>>

Write(p, b, v) ==
  /\ p \in active
  /\ current' = [current EXCEPT ![b] = v]
  /\ UNCHANGED <<durable, active>>

End(p) ==
  /\ p \in active
  /\ active' = active \ {p}
  /\ UNCHANGED <<durable, current>>

Commit ==
  /\ active = {}
  /\ durable' = current
  /\ UNCHANGED <<current, active>>

Crash ==
  /\ current' = durable
  /\ active' = {}
  /\ UNCHANGED durable

Next ==
  \/ \E p \in Procs : Begin(p) \/ End(p)
  \/ \E p \in Procs, b \in Blocks, v \in Values : Write(p, b, v)
  \/ Commit
  \/ Crash

Spec == Init /\ [][Next]_diskVars
=============================================================================
