----------------------------- MODULE ProcProofs -----------------------------
(***************************************************************************)
(* Proofs about Proc, for every number of processes and CPUs: the hand-over  *)
(* of ptable.lock between processes and schedulers keeps every kernel stack   *)
(* on one CPU, the panics of sched cannot happen, no wake-up is lost, and     *)
(* every process keeps a parent that can collect it.                         *)
(***************************************************************************)
EXTENDS Proc, TLAPS

Places == {"idle", "scan", "run", "swtch", "irq", "tick", "intr"}

\* Where a kernel thread can be when the timer interrupts it.
Interruptible == {"user", "fork", "copyuvm", "wait", "kill", "sleep", "exit", "reacquire"}

Points == Interruptible \cup {"forkret", "sleeptest", "sleeping", "slept"}

ProcTypeOK ==
  /\ state \in [Slots -> States]
  /\ pid \in [Slots -> Nat]
  /\ parent \in [Slots -> Slots \cup {NoProc}]
  /\ killed \in [Slots -> BOOLEAN]
  /\ chan \in [Slots -> Slots \cup {NoProc, TicksChan}]
  /\ pc \in [Slots -> Points]
  /\ yielded \in [Slots -> BOOLEAN]
  /\ np \in [Slots -> Slots \cup {NoProc}]
  /\ ticks0 \in [Slots -> Nat]
  /\ saved \in [Slots -> BOOLEAN]
  /\ nextpid \in Nat /\ ticks \in Nat
  /\ ptlock \in Cpus \cup {None} /\ tickslock \in Cpus \cup {None}
  /\ proc \in [Cpus -> Slots \cup {NoProc}]
  /\ at \in [Cpus -> Places]
  /\ scan \in [Cpus -> Nat]
  /\ ncli \in [Cpus -> Int]
  /\ intena \in [Cpus -> BOOLEAN]
  /\ fl_if \in [Cpus -> BOOLEAN]

\* The thread will find itself the holder of ptable.lock when it runs.
Resumes(p) == yielded[p] \/ pc[p] \in {"forkret", "slept"} \/ (pc[p] = "wait" /\ chan[p] # NoProc)

HoldsPtable(c) == at[c] \in {"scan", "swtch"} \/ (at[c] = "run" /\ Resumes(proc[c]))

HoldsTicks(c) == at[c] = "tick" \/ (at[c] = "run" /\ pc[proc[c]] \in {"sleeptest", "sleeping"})

\* Who holds the locks follows from where the CPUs are, and ncli counts them.
LockInv ==
  \A c \in Cpus :
    /\ ptlock = c <=> HoldsPtable(c)
    /\ tickslock = c <=> HoldsTicks(c)
    /\ ncli[c] = IF HoldsPtable(c) \/ HoldsTicks(c) THEN 1 ELSE 0

\* Interrupts are off where a lock is held and in a handler, on everywhere
\* else but in exit; the last release of a process turns them on again, that of
\* the clock handler does not.
FlagOf(c) ==
  /\ ncli[c] = 1 \/ at[c] \in {"irq", "tick", "intr"} => ~fl_if[c]
  /\ at[c] = "idle" => fl_if[c]
  /\ at[c] = "run" /\ ncli[c] = 0 /\ ~fl_if[c] => pc[proc[c]] = "exit"
  /\ at[c] = "run" /\ tickslock = c => intena[c]
  /\ at[c] = "tick" => ~intena[c]

FlagInv == \A c \in Cpus : FlagOf(c)

\* cpu->proc and the states of the table.
CpuOf(c) ==
  /\ at[c] \in {"idle", "scan"} => proc[c] = NoProc
  /\ at[c] \in {"run", "swtch"} => proc[c] # NoProc
  /\ proc[c] # NoProc =>
       /\ at[c] = "swtch" => state[proc[c]] \in {"RUNNABLE", "SLEEPING", "ZOMBIE"}
       /\ at[c] # "swtch" => state[proc[c]] = "RUNNING"
       /\ at[c] \in {"irq", "tick", "intr"} => ~Resumes(proc[c]) /\ pc[proc[c]] \in Interruptible

CpuInv ==
  /\ \A c \in Cpus : CpuOf(c)
  /\ \A c, d \in Cpus : c # d /\ proc[c] = proc[d] => proc[c] = NoProc
  /\ \A p \in Slots : state[p] = "RUNNING" => \E c \in Cpus : proc[c] = p

\* Where a kernel thread is, for every state of its process.
ThreadOf(p) ==
  /\ state[p] \in {"RUNNABLE", "SLEEPING"} => Resumes(p)
  /\ state[p] = "SLEEPING" => chan[p] # NoProc
  /\ state[p] \in {"UNUSED", "EMBRYO", "ZOMBIE"} =>
       ~yielded[p] /\ chan[p] = NoProc /\ pc[p] \in {"forkret", "exit"}
  /\ chan[p] # NoProc =>
       /\ saved[p]
       /\ (pc[p] = "wait" /\ chan[p] = p) \/ (pc[p] = "slept" /\ chan[p] = TicksChan)
  /\ pc[p] = "slept" => chan[p] # NoProc
  /\ yielded[p] => chan[p] = NoProc /\ pc[p] \in Interruptible

ThreadInv == \A p \in Slots : ThreadOf(p)

\* The slot a process in fork has allocated is its own.
ForkInv ==
  /\ \A p \in Slots : pc[p] = "copyuvm" <=> np[p] # NoProc
  /\ \A p \in Slots : np[p] # NoProc => state[np[p]] = "EMBRYO"
  /\ \A p, q \in Slots : np[p] # NoProc /\ np[p] = np[q] => p = q

\* init lives for ever, and free slots are nobody's children.
FamilyInv ==
  /\ state[initproc] \notin {"UNUSED", "EMBRYO", "ZOMBIE"}
  /\ pid[initproc] = 1 /\ parent[initproc] = NoProc
  /\ ~killed[initproc] /\ pc[initproc] # "exit"
  /\ \A p \in Slots : parent[p] # p
  /\ \A p \in Slots : state[p] \in {"UNUSED", "EMBRYO"} => parent[p] = NoProc

\* A process that sleeps in wait has a child to wait for, and none is a zombie.
WaitInv ==
  \A p \in Slots : state[p] = "SLEEPING" /\ chan[p] = p =>
    Children(p) # {} /\ ZombieChildren(p) = {} /\ ~killed[p]

\* A process in sys_sleep has ticks left, or the CPU that counted the last one
\* is about to announce it.
TickInv ==
  /\ \A p \in Slots : state[p] = "SLEEPING" /\ chan[p] = TicksChan =>
       ~Expired(p) \/ \E c \in Cpus : at[c] = "tick"
  /\ \A p \in Slots : pc[p] = "sleeping" => ~Expired(p)

ProcInv ==
  /\ ProcTypeOK
  /\ LockInv /\ FlagInv /\ CpuInv /\ ThreadInv
  /\ ForkInv /\ FamilyInv /\ ZombiesHaveReaper /\ WaitInv /\ TickInv

\* The sentinels are no processes and no CPUs, and init has a slot.
LEMMA Names ==
  /\ NoProc \notin Slots /\ TicksChan \notin Slots /\ NoProc # TicksChan
  /\ None \notin Cpus /\ initproc \in Slots /\ Slots \subseteq Nat
  BY ProcAssumption DEF Slots, Cpus, NoProc, TicksChan, None, initproc

\* pushcli, with or without its popcli, keeps the fields of struct cpu well typed.
LEMMA PushcliType ==
  ASSUME ProcTypeOK, NEW c \in Cpus, pushcli(c) \/ pushpopcli(c)
  PROVE  ncli' \in [Cpus -> Int] /\ intena' \in [Cpus -> BOOLEAN] /\ fl_if' \in [Cpus -> BOOLEAN]
  <1>1. [intena EXCEPT ![c] = fl_if[c]] \in [Cpus -> BOOLEAN]
    BY DEF ProcTypeOK
  <1>2. [fl_if EXCEPT ![c] = FALSE] \in [Cpus -> BOOLEAN]
    BY DEF ProcTypeOK
  <1>3. [ncli EXCEPT ![c] = @ + 1] \in [Cpus -> Int]
    BY DEF ProcTypeOK
  <1> QED
    BY <1>1, <1>2, <1>3, Zenon DEF pushcli, pushpopcli, ProcTypeOK

\* So does popcli.
LEMMA PopcliType ==
  ASSUME ProcTypeOK, NEW c \in Cpus, NEW old \in BOOLEAN, NEW flag \in BOOLEAN, popcli(c, old, flag)
  PROVE  ncli' \in [Cpus -> Int] /\ intena' \in [Cpus -> BOOLEAN] /\ fl_if' \in [Cpus -> BOOLEAN]
  BY DEF popcli, ProcTypeOK

\* The process a CPU runs is a slot of the table, and no other CPU runs it.
LEMMA OnCpu ==
  ASSUME ProcTypeOK, CpuInv, NEW c \in Cpus, at[c] = "run"
  PROVE  /\ proc[c] \in Slots /\ \A d \in Cpus : d # c => proc[d] # proc[c]
         /\ saved[proc[c]] \in BOOLEAN /\ killed[proc[c]] \in BOOLEAN /\ yielded[proc[c]] \in BOOLEAN
  <1>1. proc[c] \in Slots /\ \A d \in Cpus : d # c => proc[d] # proc[c]
    BY DEF ProcTypeOK, CpuInv, CpuOf
  <1> QED
    BY <1>1, Zenon DEF ProcTypeOK

\* What popcli leaves in the fields of its CPU and of the others.
LEMMA Popcli ==
  ASSUME ProcTypeOK, NEW c \in Cpus, NEW old \in BOOLEAN, NEW flag \in BOOLEAN, popcli(c, old, flag)
  PROVE  /\ ncli'[c] = ncli[c] - 1 /\ intena'[c] = old
         /\ fl_if'[c] <=> flag \/ (ncli[c] = 1 /\ old)
         /\ \A d \in Cpus : d # c => ncli'[d] = ncli[d] /\ intena'[d] = intena[d] /\ fl_if'[d] = fl_if[d]
  BY DEF popcli, ProcTypeOK

\* A free slot, or one that fork is filling, is on no CPU.
LEMMA FreeSlot ==
  ASSUME ProcTypeOK, CpuInv, NEW p \in Slots, state[p] \in {"UNUSED", "EMBRYO"}, NEW d \in Cpus
  PROVE  proc[d] # p
  BY Names DEF CpuInv, CpuOf

\* The slot fork fills is neither its caller nor a process of any CPU.
LEMMA ForkSlot ==
  ASSUME ProcTypeOK, CpuInv, ForkInv, NEW c \in Cpus, Running(c, "copyuvm")
  PROVE  /\ proc[c] \in Slots /\ np[proc[c]] \in Slots /\ np[proc[c]] # proc[c]
         /\ state[proc[c]] = "RUNNING" /\ state[np[proc[c]]] = "EMBRYO"
         /\ \A d \in Cpus : d # c => proc[d] # proc[c] /\ proc[d] # np[proc[c]]
  <1>1. proc[c] \in Slots /\ state[proc[c]] = "RUNNING" /\ \A d \in Cpus : d # c => proc[d] # proc[c]
    BY OnCpu, Names DEF Running, CpuInv, CpuOf
  <1>2. np[proc[c]] \in Slots /\ state[np[proc[c]]] = "EMBRYO"
    BY <1>1 DEF Running, ForkInv, ProcTypeOK
  <1> QED
    BY <1>1, <1>2, FreeSlot

-----------------------------------------------------------------------------

\* Every step keeps the types.
LEMMA TypeStep ==
  ASSUME ProcTypeOK, CpuInv, ForkInv, ProcNext
  PROVE  ProcTypeOK'
  <1>1. ASSUME NEW c \in Cpus, scheduler(c) PROVE ProcTypeOK'
    BY <1>1, Names, PushcliType
    DEF scheduler, acquire, ProcTypeOK, Places, Interruptible, Points, States, CpuInv, CpuOf,
        ForkInv, tableVars, threadVars, clockVars
  <1>2. ASSUME NEW c \in Cpus, scheduler_run(c) PROVE ProcTypeOK'
    BY <1>2, Names, PushcliType
    DEF scheduler_run, Runnable, ProcTypeOK, Places, Interruptible, Points, States, CpuInv, CpuOf,
        ForkInv, threadVars, clockVars, cliVars
  <1>3. ASSUME NEW c \in Cpus, scheduler_release(c) PROVE ProcTypeOK'
    <2>1. intena[c] \in BOOLEAN
      BY <1>3, Names
      DEF scheduler_release, release, ProcTypeOK, Places, Interruptible, Points, States, CpuInv,
          CpuOf, ForkInv, tableVars, threadVars, clockVars
    <2>2. popcli(c, intena[c], TRUE)
      BY <1>3
      DEF scheduler_release, release, ProcTypeOK, Places, Interruptible, Points, States, CpuInv,
          CpuOf, ForkInv, tableVars, threadVars, clockVars
    <2>3. ncli' \in [Cpus -> Int] /\ intena' \in [Cpus -> BOOLEAN] /\ fl_if' \in [Cpus -> BOOLEAN]
      BY <2>1, <2>2, PopcliType
    <2> QED
      BY <1>3, <2>3, Names
      DEF scheduler_release, release, ProcTypeOK, Places, Interruptible, Points, States, CpuInv,
          CpuOf, ForkInv, tableVars, threadVars, clockVars
  <1>4. ASSUME NEW c \in Cpus, swtch(c) PROVE ProcTypeOK'
    BY <1>4, Names, PushcliType
    DEF swtch, ProcTypeOK, Places, Interruptible, Points, States, CpuInv, CpuOf, ForkInv, tableVars,
        threadVars, clockVars, cliVars
  <1>5. ASSUME NEW c \in Cpus, forkret(c) PROVE ProcTypeOK'
    <2>1. intena[c] \in BOOLEAN
      BY <1>5, Names
      DEF forkret, Running, release, ProcTypeOK, Places, Interruptible, Points, States, CpuInv,
          CpuOf, ForkInv, tableVars, clockVars, cpuVars
    <2>2. popcli(c, intena[c], TRUE)
      BY <1>5
      DEF forkret, Running, release, ProcTypeOK, Places, Interruptible, Points, States, CpuInv,
          CpuOf, ForkInv, tableVars, clockVars, cpuVars
    <2>3. ncli' \in [Cpus -> Int] /\ intena' \in [Cpus -> BOOLEAN] /\ fl_if' \in [Cpus -> BOOLEAN]
      BY <2>1, <2>2, PopcliType
    <2> QED
      BY <1>5, <2>3, Names
      DEF forkret, Running, release, ProcTypeOK, Places, Interruptible, Points, States, CpuInv,
          CpuOf, ForkInv, tableVars, clockVars, cpuVars
  <1>6. ASSUME NEW c \in Cpus, timer(c) PROVE ProcTypeOK'
    BY <1>6, Names, PushcliType
    DEF timer, ProcTypeOK, Places, Interruptible, Points, States, CpuInv, CpuOf, ForkInv, tableVars,
        threadVars, clockVars
  <1>7. ASSUME NEW c \in Cpus, tick(c) PROVE ProcTypeOK'
    BY <1>7, Names, PushcliType
    DEF tick, acquire, ProcTypeOK, Places, Interruptible, Points, States, CpuInv, CpuOf, ForkInv,
        tableVars, threadVars
  <1>8. ASSUME NEW c \in Cpus, wakeup_ticks(c) PROVE ProcTypeOK'
    <2>1. intena[c] \in BOOLEAN
      BY <1>8, Names
      DEF wakeup_ticks, Woken, release, ProcTypeOK, Places, Interruptible, Points, States, CpuInv,
          CpuOf, ForkInv, threadVars
    <2>2. popcli(c, intena[c], FALSE)
      BY <1>8
      DEF wakeup_ticks, Woken, release, ProcTypeOK, Places, Interruptible, Points, States, CpuInv,
          CpuOf, ForkInv, threadVars
    <2>3. ncli' \in [Cpus -> Int] /\ intena' \in [Cpus -> BOOLEAN] /\ fl_if' \in [Cpus -> BOOLEAN]
      BY <2>1, <2>2, PopcliType
    <2> QED
      BY <1>8, <2>3, Names
      DEF wakeup_ticks, Woken, release, ProcTypeOK, Places, Interruptible, Points, States, CpuInv,
          CpuOf, ForkInv, threadVars
  <1>9. ASSUME NEW c \in Cpus, intr_idle(c) PROVE ProcTypeOK'
    BY <1>9, Names, PushcliType
    DEF intr_idle, ProcTypeOK, Places, Interruptible, Points, States, CpuInv, CpuOf, ForkInv,
        tableVars, threadVars, clockVars
  <1>10. ASSUME NEW c \in Cpus, intr_killed(c) PROVE ProcTypeOK'
    BY <1>10, Names, PushcliType
    DEF intr_killed, ProcTypeOK, Places, Interruptible, Points, States, CpuInv, CpuOf, ForkInv,
        tableVars, clockVars, cliVars
  <1>11. ASSUME NEW c \in Cpus, yield(c) PROVE ProcTypeOK'
    BY <1>11, Names, PushcliType
    DEF yield, acquire, sched, ProcTypeOK, Places, Interruptible, Points, States, CpuInv, CpuOf,
        ForkInv, clockVars
  <1>12. ASSUME NEW c \in Cpus, yield_return(c) PROVE ProcTypeOK'
    <2> DEFINE dies == pc[proc[c]] = "user" /\ killed[proc[c]]
    <2>1. saved[proc[c]] \in BOOLEAN /\ proc[c] \in Slots
      BY <1>12, OnCpu DEF yield_return
    <2>2. popcli(c, saved[proc[c]], ~dies)
      BY <1>12 DEF yield_return, release
    <2>3. ncli' \in [Cpus -> Int] /\ intena' \in [Cpus -> BOOLEAN] /\ fl_if' \in [Cpus -> BOOLEAN]
      BY <2>1, <2>2, PopcliType
    <2> QED
      BY <1>12, <2>1, <2>3, Names
      DEF yield_return, release, ProcTypeOK, Places, Interruptible, Points, States, CpuInv, CpuOf,
          ForkInv, tableVars, clockVars, cpuVars
  <1>13. ASSUME NEW c \in Cpus, allocproc(c) PROVE ProcTypeOK'
    BY SMTT(30), <1>13, Names, PushcliType
    DEF allocproc, Running, Return, Unused, ProcTypeOK, Places, Interruptible, Points, States,
        CpuInv, CpuOf, ForkInv, clockVars, cpuVars
  <1>14. ASSUME NEW c \in Cpus, fork_fails(c) PROVE ProcTypeOK'
    BY <1>14, Names, PushcliType
    DEF fork_fails, Running, Return, ProcTypeOK, Places, Interruptible, Points, States, CpuInv,
        CpuOf, ForkInv, clockVars, cpuVars, cliVars
  <1>15. ASSUME NEW c \in Cpus, fork(c) PROVE ProcTypeOK'
    BY <1>15, Names, PushcliType
    DEF fork, Running, Return, ProcTypeOK, Places, Interruptible, Points, States, CpuInv, CpuOf,
        ForkInv, clockVars, cpuVars
  <1>16. ASSUME NEW c \in Cpus, exit(c) PROVE ProcTypeOK'
    <2>1. proc[c] \in Slots
      BY <1>16, OnCpu DEF exit, Running
    <2>2. state' \in [Slots -> States] /\ parent' \in [Slots -> Slots \cup {NoProc}]
      BY <1>16, <2>1, Names DEF exit, Woken, States, ProcTypeOK
    <2>3. saved' \in [Slots -> BOOLEAN]
      BY <1>16, <2>1, PushcliType DEF exit, acquire, sched, ProcTypeOK
    <2> QED
      BY <1>16, <2>1, <2>2, <2>3, PushcliType
      DEF exit, acquire, sched, ProcTypeOK, Places, clockVars
  <1>17. ASSUME NEW c \in Cpus, wait_found(c) PROVE ProcTypeOK'
    <2>1. saved[proc[c]] \in BOOLEAN /\ proc[c] \in Slots
      BY <1>17, OnCpu DEF wait_found, InWait, Running
    <2>2. ncli' \in [Cpus -> Int] /\ intena' \in [Cpus -> BOOLEAN] /\ fl_if' \in [Cpus -> BOOLEAN]
      BY <1>17, <2>1, PopcliType, PushcliType DEF wait_found, wait_release, release, cliVars
    <2>3. ptlock' \in Cpus \cup {None}
      BY <1>17 DEF wait_found, wait_release, release, ProcTypeOK
    <2>4. pc' \in [Slots -> Points]
      BY <1>17, <2>1 DEF wait_found, Return, Points, Interruptible, ProcTypeOK
    <2> QED
      BY <1>17, <2>1, <2>2, <2>3, <2>4, Names
      DEF ZombieChildren, Children, wait_found, InWait, Running, release, Return, ProcTypeOK, Places,
          Interruptible, Points, States, CpuInv, CpuOf, ForkInv, clockVars, cpuVars
  <1>18. ASSUME NEW c \in Cpus, wait_fails(c) PROVE ProcTypeOK'
    <2>1. saved[proc[c]] \in BOOLEAN /\ proc[c] \in Slots
      BY <1>18, OnCpu DEF wait_fails, InWait, Running
    <2>2. ncli' \in [Cpus -> Int] /\ intena' \in [Cpus -> BOOLEAN] /\ fl_if' \in [Cpus -> BOOLEAN]
      BY <1>18, <2>1, PopcliType, PushcliType DEF wait_fails, wait_release, release, cliVars
    <2>3. ptlock' \in Cpus \cup {None}
      BY <1>18 DEF wait_fails, wait_release, release, ProcTypeOK
    <2>4. pc' \in [Slots -> Points]
      BY <1>18, <2>1 DEF wait_fails, Return, Points, Interruptible, ProcTypeOK
    <2> QED
      BY <1>18, <2>1, <2>2, <2>3, <2>4, Names
      DEF ZombieChildren, Children, wait_fails, InWait, Running, release, Return, ProcTypeOK, Places,
          Interruptible, Points, States, CpuInv, CpuOf, ForkInv, clockVars, cpuVars
  <1>19. ASSUME NEW c \in Cpus, wait_sleep(c) PROVE ProcTypeOK'
    <2>1. saved[proc[c]] \in BOOLEAN /\ proc[c] \in Slots
      BY <1>19, OnCpu DEF wait_sleep, InWait, Running
    <2>2. [intena EXCEPT ![c] = saved[proc[c]]] \in [Cpus -> BOOLEAN]
      BY <2>1 DEF ProcTypeOK
    <2>3. ncli' \in [Cpus -> Int] /\ intena' \in [Cpus -> BOOLEAN] /\ fl_if' \in [Cpus -> BOOLEAN]
      BY <1>19, <2>1, <2>2, PushcliType, Zenon DEF wait_sleep, ProcTypeOK
    <2> QED
      BY ZenonT(30), <1>19, <2>1, <2>3, Names
      DEF wait_sleep, InWait, Running, sched, ProcTypeOK, Places, Interruptible, Points, States,
          CpuInv, CpuOf, ForkInv, clockVars
  <1>20. ASSUME NEW c \in Cpus, sys_sleep(c) PROVE ProcTypeOK'
    BY <1>20, Names, PushcliType
    DEF sys_sleep, Running, acquire, ProcTypeOK, Places, Interruptible, Points, States, CpuInv,
        CpuOf, ForkInv, tableVars, cpuVars
  <1>21. ASSUME NEW c \in Cpus, sys_sleep_test(c) PROVE ProcTypeOK'
    <2>1. intena[c] \in BOOLEAN /\ proc[c] \in Slots
      BY <1>21, OnCpu DEF sys_sleep_test, Running, ProcTypeOK
    <2>2. ncli' \in [Cpus -> Int] /\ intena' \in [Cpus -> BOOLEAN] /\ fl_if' \in [Cpus -> BOOLEAN]
      BY ZenonT(30), <1>21, <2>1, PopcliType DEF sys_sleep_test, cliVars, ProcTypeOK
    <2>3. pc' \in [Slots -> Points] /\ tickslock' \in Cpus \cup {None}
      BY ZenonT(30), <1>21, <2>1 DEF sys_sleep_test, Return, Points, Interruptible, ProcTypeOK
    <2> QED
      BY <1>21, <2>1, <2>2, <2>3, Names
      DEF sys_sleep_test, Running, Return, ProcTypeOK, Places, Interruptible, Points, States, CpuInv,
          CpuOf, ForkInv, tableVars, cpuVars, cliVars
  <1>22. ASSUME NEW c \in Cpus, sleep(c) PROVE ProcTypeOK'
    BY <1>22, Names, PushcliType
    DEF sleep, Running, sched, ProcTypeOK, Places, Interruptible, Points, States, CpuInv, CpuOf,
        ForkInv
  <1>23. ASSUME NEW c \in Cpus, sleep_return(c) PROVE ProcTypeOK'
    <2>1. saved[proc[c]] \in BOOLEAN /\ proc[c] \in Slots
      BY <1>23, OnCpu DEF sleep_return, Running
    <2>2. popcli(c, saved[proc[c]], FALSE)
      BY <1>23 DEF sleep_return, release
    <2>3. ncli' \in [Cpus -> Int] /\ intena' \in [Cpus -> BOOLEAN] /\ fl_if' \in [Cpus -> BOOLEAN]
      BY <2>1, <2>2, PopcliType
    <2> QED
      BY <1>23, <2>1, <2>3, Names
      DEF sleep_return, Running, release, ProcTypeOK, Places, Interruptible, Points, States, CpuInv,
          CpuOf, ForkInv, clockVars, cpuVars
  <1>24. ASSUME NEW c \in Cpus, sleep_reacquire(c) PROVE ProcTypeOK'
    BY <1>24, Names, PushcliType
    DEF sleep_reacquire, Running, acquire, ProcTypeOK, Places, Interruptible, Points, States, CpuInv,
        CpuOf, ForkInv, tableVars, cpuVars
  <1>25. ASSUME NEW c \in Cpus, NEW call \in Calls, syscall(c, call) PROVE ProcTypeOK'
    BY <1>25, Names, PushcliType
    DEF syscall, Running, ProcTypeOK, Places, Interruptible, Points, States, Calls, CpuInv, CpuOf,
        ForkInv, tableVars, clockVars, cpuVars, cliVars
  <1>26. ASSUME NEW c \in Cpus, NEW k \in KillPids, kill(c, k) PROVE ProcTypeOK'
    BY <1>26, Names, PushcliType
    DEF kill, Running, Return, ProcTypeOK, Places, Interruptible, Points, States, CpuInv, CpuOf,
        ForkInv, clockVars, cpuVars
  <1> QED
    BY <1>1, <1>2, <1>3, <1>4, <1>5, <1>6, <1>7, <1>8, <1>9, <1>10, <1>11, <1>12, <1>13, <1>14,
       <1>15, <1>16, <1>17, <1>18, <1>19, <1>20, <1>21, <1>22, <1>23, <1>24, <1>25, <1>26
    DEF ProcNext, Scheduling, Clock, Forking, Waiting, Sleeping

-----------------------------------------------------------------------------

\* Every step keeps LockInv: a lock changes hands only with the place of its
\* holder, and other CPUs do not notice.
LEMMA LockStep ==
  ASSUME ProcTypeOK, ProcTypeOK', LockInv, FlagInv, CpuInv, ThreadInv, ForkInv, ProcNext
  PROVE  LockInv'
  <1>1. ASSUME NEW c \in Cpus, scheduler(c) PROVE LockInv'
    BY <1>1, Names
    DEF scheduler, acquire, pushcli, LockInv, HoldsPtable, HoldsTicks, Resumes, ProcTypeOK, FlagInv,
        FlagOf, CpuInv, CpuOf, ThreadInv, ThreadOf, ForkInv, Interruptible, Points, Places, States,
        tableVars, threadVars, clockVars
  <1>2. ASSUME NEW c \in Cpus, scheduler_run(c) PROVE LockInv'
    BY <1>2, Names
    DEF scheduler_run, Runnable, LockInv, HoldsPtable, HoldsTicks, Resumes, ProcTypeOK, FlagInv,
        FlagOf, CpuInv, CpuOf, ThreadInv, ThreadOf, ForkInv, Interruptible, Points, Places, States,
        threadVars, clockVars, cliVars
  <1>3. ASSUME NEW c \in Cpus, scheduler_release(c) PROVE LockInv'
    BY <1>3, Names
    DEF scheduler_release, release, popcli, LockInv, HoldsPtable, HoldsTicks, Resumes, ProcTypeOK,
        FlagInv, FlagOf, CpuInv, CpuOf, ThreadInv, ThreadOf, ForkInv, Interruptible, Points, Places,
        States, tableVars, threadVars, clockVars
  <1>4. ASSUME NEW c \in Cpus, swtch(c) PROVE LockInv'
    BY <1>4, Names
    DEF swtch, LockInv, HoldsPtable, HoldsTicks, Resumes, ProcTypeOK, FlagInv, FlagOf, CpuInv, CpuOf,
        ThreadInv, ThreadOf, ForkInv, Interruptible, Points, Places, States, tableVars, threadVars,
        clockVars, cliVars
  <1>5. ASSUME NEW c \in Cpus, forkret(c) PROVE LockInv'
    BY <1>5, Names
    DEF forkret, Running, release, popcli, LockInv, HoldsPtable, HoldsTicks, Resumes, ProcTypeOK,
        FlagInv, FlagOf, CpuInv, CpuOf, ThreadInv, ThreadOf, ForkInv, Interruptible, Points, Places,
        States, tableVars, clockVars, cpuVars
  <1>6. ASSUME NEW c \in Cpus, timer(c) PROVE LockInv'
    BY <1>6, Names
    DEF timer, LockInv, HoldsPtable, HoldsTicks, Resumes, ProcTypeOK, FlagInv, FlagOf, CpuInv, CpuOf,
        ThreadInv, ThreadOf, ForkInv, Interruptible, Points, Places, States, tableVars, threadVars,
        clockVars
  <1>7. ASSUME NEW c \in Cpus, tick(c) PROVE LockInv'
    BY <1>7, Names
    DEF tick, acquire, pushcli, LockInv, HoldsPtable, HoldsTicks, Resumes, ProcTypeOK, FlagInv,
        FlagOf, CpuInv, CpuOf, ThreadInv, ThreadOf, ForkInv, Interruptible, Points, Places, States,
        tableVars, threadVars
  <1>8. ASSUME NEW c \in Cpus, wakeup_ticks(c) PROVE LockInv'
    BY <1>8, Names
    DEF wakeup_ticks, Woken, release, popcli, LockInv, HoldsPtable, HoldsTicks, Resumes, ProcTypeOK,
        FlagInv, FlagOf, CpuInv, CpuOf, ThreadInv, ThreadOf, ForkInv, Interruptible, Points, Places,
        States, threadVars
  <1>9. ASSUME NEW c \in Cpus, intr_idle(c) PROVE LockInv'
    BY <1>9, Names
    DEF intr_idle, LockInv, HoldsPtable, HoldsTicks, Resumes, ProcTypeOK, FlagInv, FlagOf, CpuInv,
        CpuOf, ThreadInv, ThreadOf, ForkInv, Interruptible, Points, Places, States, tableVars,
        threadVars, clockVars
  <1>10. ASSUME NEW c \in Cpus, intr_killed(c) PROVE LockInv'
    BY <1>10, Names
    DEF intr_killed, LockInv, HoldsPtable, HoldsTicks, Resumes, ProcTypeOK, FlagInv, FlagOf, CpuInv,
        CpuOf, ThreadInv, ThreadOf, ForkInv, Interruptible, Points, Places, States, tableVars,
        clockVars, cliVars
  <1>11. ASSUME NEW c \in Cpus, yield(c) PROVE LockInv'
    BY <1>11, Names
    DEF yield, acquire, pushcli, sched, LockInv, HoldsPtable, HoldsTicks, Resumes, ProcTypeOK,
        FlagInv, FlagOf, CpuInv, CpuOf, ThreadInv, ThreadOf, ForkInv, Interruptible, Points, Places,
        States, clockVars
  <1>12. ASSUME NEW c \in Cpus, yield_return(c) PROVE LockInv'
    <2>1. proc[c] \in Slots /\ at[c] = "run" /\ yielded[proc[c]] /\ \A d \in Cpus : d # c => proc[d] # proc[c]
      BY <1>12, OnCpu DEF yield_return, CpuInv, CpuOf
    <2>2. pc'[proc[c]] \in {pc[proc[c]], "exit"} /\ \A p \in Slots : p # proc[c] => pc'[p] = pc[p]
      BY <1>12, <2>1 DEF yield_return, ProcTypeOK
    <2>3. /\ yielded' = [yielded EXCEPT ![proc[c]] = FALSE]
          /\ ptlock = c /\ ptlock' = None /\ ncli' = [ncli EXCEPT ![c] = @ - 1]
          /\ UNCHANGED <<at, proc, chan, tickslock>>
      BY <1>12 DEF yield_return, release, popcli, tableVars, clockVars, cpuVars
    <2>7. HoldsPtable(c) /\ ~HoldsTicks(c) /\ ~HoldsPtable(c)' /\ ~HoldsTicks(c)'
      BY ZenonT(30), <2>1, <2>2, <2>3, Names
      DEF ProcTypeOK, ThreadInv, ThreadOf, Interruptible, HoldsPtable, HoldsTicks, Resumes
    <2>8. ASSUME NEW d \in Cpus, d # c
          PROVE  (HoldsPtable(d)' <=> HoldsPtable(d)) /\ (HoldsTicks(d)' <=> HoldsTicks(d))
      BY ZenonT(30), <2>1, <2>2, <2>3, <2>8, Names
      DEF HoldsPtable, HoldsTicks, Resumes, CpuInv, CpuOf, ProcTypeOK
    <2> QED
      BY <2>3, <2>7, <2>8, Names DEF LockInv, ProcTypeOK
  <1>13. ASSUME NEW c \in Cpus, allocproc(c) PROVE LockInv'
    <2>1. proc[c] \in Slots /\ Running(c, "fork") /\ \A d \in Cpus : d # c => proc[d] # proc[c]
      BY <1>13, OnCpu DEF allocproc, Running, CpuInv, CpuOf
    <2>2. pc'[proc[c]] \in {"copyuvm", "user", "exit"} /\ \A p \in Slots : p # proc[c] => pc'[p] = pc[p]
      BY <1>13, <2>1 DEF allocproc, Return, ProcTypeOK
    <2>3. UNCHANGED <<at, proc, chan, yielded, tickslock, ptlock, ncli>>
      BY <1>13 DEF allocproc, pushpopcli, clockVars, cpuVars
    <2>7. ~HoldsPtable(c) /\ ~HoldsTicks(c) /\ ~HoldsPtable(c)' /\ ~HoldsTicks(c)'
      BY <2>1, <2>2, <2>3, Names DEF Running, HoldsPtable, HoldsTicks, Resumes
    <2>8. ASSUME NEW d \in Cpus, d # c
          PROVE  (HoldsPtable(d)' <=> HoldsPtable(d)) /\ (HoldsTicks(d)' <=> HoldsTicks(d))
      BY <2>1, <2>2, <2>3, <2>8, Names
      DEF HoldsPtable, HoldsTicks, Resumes, CpuInv, CpuOf, ProcTypeOK
    <2> QED
      BY <2>3, <2>7, <2>8, Names DEF LockInv, ProcTypeOK
  <1>14. ASSUME NEW c \in Cpus, fork_fails(c) PROVE LockInv'
    BY <1>14, Names
    DEF fork_fails, Running, Return, LockInv, HoldsPtable, HoldsTicks, Resumes, ProcTypeOK, FlagInv,
        FlagOf, CpuInv, CpuOf, ThreadInv, ThreadOf, ForkInv, Interruptible, Points, Places, States,
        clockVars, cpuVars, cliVars
  <1>15. ASSUME NEW c \in Cpus, fork(c) PROVE LockInv'
    <2>0. proc[c] \in Slots /\ Running(c, "copyuvm") /\ \A d \in Cpus : d # c => proc[d] # proc[c]
      BY <1>15, OnCpu DEF fork, Running, CpuInv, CpuOf
    <2>9. np[proc[c]] \in Slots /\ state[np[proc[c]]] = "EMBRYO"
      BY <2>0 DEF Running, ForkInv, ProcTypeOK
    <2>1. /\ proc[c] \in Slots /\ Running(c, "copyuvm")
          /\ \A d \in Cpus : d # c => proc[d] # proc[c] /\ proc[d] # np[proc[c]]
      BY <2>0, <2>9, Names DEF CpuInv, CpuOf
    <2>2. pc'[proc[c]] \in {"user", "exit"} /\ \A p \in Slots \ {proc[c], np[proc[c]]} : pc'[p] = pc[p]
      BY <1>15, <2>0, <2>9 DEF fork, Running, Return, CpuInv, CpuOf, ProcTypeOK
    <2>3. UNCHANGED <<at, proc, chan, yielded, tickslock, ptlock, ncli>>
      BY <1>15 DEF fork, pushpopcli, clockVars, cpuVars
    <2>7. ~HoldsPtable(c) /\ ~HoldsTicks(c) /\ ~HoldsPtable(c)' /\ ~HoldsTicks(c)'
      BY <2>1, <2>2, <2>3, Names DEF Running, HoldsPtable, HoldsTicks, Resumes
    <2>8. ASSUME NEW d \in Cpus, d # c
          PROVE  (HoldsPtable(d)' <=> HoldsPtable(d)) /\ (HoldsTicks(d)' <=> HoldsTicks(d))
      BY <2>1, <2>2, <2>3, <2>8, Names
      DEF HoldsPtable, HoldsTicks, Resumes, CpuInv, CpuOf, ProcTypeOK
    <2> QED
      BY <2>3, <2>7, <2>8, Names DEF LockInv, ProcTypeOK
  <1>16. ASSUME NEW c \in Cpus, exit(c) PROVE LockInv'
    BY SMTT(30), <1>16, Names
    DEF exit, Running, acquire, pushcli, sched, Woken, LockInv, HoldsPtable, HoldsTicks, Resumes,
        ProcTypeOK, FlagInv, FlagOf, CpuInv, CpuOf, ThreadInv, ThreadOf, ForkInv, Interruptible,
        Points, Places, States, clockVars
  <1>17. ASSUME NEW c \in Cpus, wait_found(c) PROVE LockInv'
    BY <1>17, Names
    DEF wait_found, InWait, Running, wait_release, release, popcli, pushpopcli, Return, LockInv,
        HoldsPtable, HoldsTicks, Resumes, ProcTypeOK, FlagInv, FlagOf, CpuInv, CpuOf, ThreadInv,
        ThreadOf, ForkInv, Interruptible, Points, Places, States, clockVars, cpuVars
  <1>18. ASSUME NEW c \in Cpus, wait_fails(c) PROVE LockInv'
    BY <1>18, Names
    DEF wait_fails, InWait, Running, wait_release, release, popcli, pushpopcli, Return, LockInv,
        HoldsPtable, HoldsTicks, Resumes, ProcTypeOK, FlagInv, FlagOf, CpuInv, CpuOf, ThreadInv,
        ThreadOf, ForkInv, Interruptible, Points, Places, States, clockVars, cpuVars
  <1>19. ASSUME NEW c \in Cpus, wait_sleep(c) PROVE LockInv'
    BY <1>19, Names
    DEF wait_sleep, InWait, Running, pushcli, sched, LockInv, HoldsPtable, HoldsTicks, Resumes,
        ProcTypeOK, FlagInv, FlagOf, CpuInv, CpuOf, ThreadInv, ThreadOf, ForkInv, Interruptible,
        Points, Places, States, clockVars
  <1>20. ASSUME NEW c \in Cpus, sys_sleep(c) PROVE LockInv'
    BY <1>20, Names
    DEF sys_sleep, Running, acquire, pushcli, LockInv, HoldsPtable, HoldsTicks, Resumes, ProcTypeOK,
        FlagInv, FlagOf, CpuInv, CpuOf, ThreadInv, ThreadOf, ForkInv, Interruptible, Points, Places,
        States, tableVars, cpuVars
  <1>21. ASSUME NEW c \in Cpus, sys_sleep_test(c) PROVE LockInv'
    <2>1. proc[c] \in Slots /\ Running(c, "sleeptest") /\ \A d \in Cpus : d # c => proc[d] # proc[c]
      BY <1>21, OnCpu DEF sys_sleep_test, Running, CpuInv, CpuOf
    <2>2. \A p \in Slots : p # proc[c] => pc'[p] = pc[p]
      BY ZenonT(30), <1>21, <2>1 DEF sys_sleep_test, Return, ProcTypeOK
    <2>3. UNCHANGED <<at, proc, chan, yielded, ptlock>>
      BY <1>21 DEF sys_sleep_test, tableVars, cpuVars
    <2>4. CASE Expired(proc[c]) \/ killed[proc[c]]
      <3>1. pc'[proc[c]] \in {"user", "exit"} 
        BY <1>21, <2>1, <2>4 DEF sys_sleep_test, Return, ProcTypeOK
      <3>2. tickslock' = None /\ ncli' = [ncli EXCEPT ![c] = @ - 1]
        BY <1>21, <2>4 DEF sys_sleep_test, popcli
      <3>7. ~HoldsPtable(c) /\ HoldsTicks(c) /\ ~HoldsPtable(c)' /\ ~HoldsTicks(c)'
        BY <2>1, <2>2, <2>3, <3>1, Names DEF Running, HoldsPtable, HoldsTicks, Resumes
      <3>8. ASSUME NEW d \in Cpus, d # c
          PROVE  (HoldsPtable(d)' <=> HoldsPtable(d)) /\ (HoldsTicks(d)' <=> HoldsTicks(d))
        BY ZenonT(30), <2>1, <2>2, <2>3, <3>8, Names
        DEF HoldsPtable, HoldsTicks, Resumes, CpuInv, CpuOf, ProcTypeOK
      <3> QED
        BY <2>3, <3>2, <3>7, <3>8, Names DEF LockInv, ProcTypeOK
    <2>5. CASE ~(Expired(proc[c]) \/ killed[proc[c]])
      <3>1. pc'[proc[c]] = "sleeping"
        BY <1>21, <2>1, <2>5 DEF sys_sleep_test, ProcTypeOK
      <3>2. UNCHANGED <<tickslock, ncli>>
        BY <1>21, <2>5 DEF sys_sleep_test, cliVars
      <3>7. ~HoldsPtable(c) /\ HoldsTicks(c) /\ ~HoldsPtable(c)' /\ HoldsTicks(c)'
        BY <2>1, <2>2, <2>3, <3>1, Names DEF Running, HoldsPtable, HoldsTicks, Resumes
      <3>8. ASSUME NEW d \in Cpus, d # c
          PROVE  (HoldsPtable(d)' <=> HoldsPtable(d)) /\ (HoldsTicks(d)' <=> HoldsTicks(d))
        BY ZenonT(30), <2>1, <2>2, <2>3, <3>8, Names
        DEF HoldsPtable, HoldsTicks, Resumes, CpuInv, CpuOf, ProcTypeOK
      <3> QED
        BY <2>3, <3>2, <3>7, <3>8, Names DEF LockInv, ProcTypeOK
    <2> QED
      BY <2>4, <2>5
  <1>22. ASSUME NEW c \in Cpus, sleep(c) PROVE LockInv'
    BY <1>22, Names
    DEF sleep, Running, pushpopcli, sched, LockInv, HoldsPtable, HoldsTicks, Resumes, ProcTypeOK,
        FlagInv, FlagOf, CpuInv, CpuOf, ThreadInv, ThreadOf, ForkInv, Interruptible, Points, Places,
        States
  <1>23. ASSUME NEW c \in Cpus, sleep_return(c) PROVE LockInv'
    BY <1>23, Names
    DEF sleep_return, Running, release, popcli, LockInv, HoldsPtable, HoldsTicks, Resumes,
        ProcTypeOK, FlagInv, FlagOf, CpuInv, CpuOf, ThreadInv, ThreadOf, ForkInv, Interruptible,
        Points, Places, States, clockVars, cpuVars
  <1>24. ASSUME NEW c \in Cpus, sleep_reacquire(c) PROVE LockInv'
    BY <1>24, Names
    DEF sleep_reacquire, Running, acquire, pushcli, LockInv, HoldsPtable, HoldsTicks, Resumes,
        ProcTypeOK, FlagInv, FlagOf, CpuInv, CpuOf, ThreadInv, ThreadOf, ForkInv, Interruptible,
        Points, Places, States, tableVars, cpuVars
  <1>25. ASSUME NEW c \in Cpus, NEW call \in Calls, syscall(c, call) PROVE LockInv'
    <2>1. proc[c] \in Slots /\ Running(c, "user") /\ \A d \in Cpus : d # c => proc[d] # proc[c]
      BY <1>25, OnCpu DEF syscall, Running, CpuInv, CpuOf
    <2>2. pc'[proc[c]] \in Calls /\ \A p \in Slots : p # proc[c] => pc'[p] = pc[p]
      BY <1>25, <2>1 DEF syscall, Calls, ProcTypeOK
    <2>3. UNCHANGED <<at, proc, chan, yielded, tickslock, ptlock, ncli>>
      BY <1>25 DEF syscall, tableVars, clockVars, cpuVars, cliVars
    <2>7. ~HoldsPtable(c) /\ ~HoldsTicks(c) /\ ~HoldsPtable(c)' /\ ~HoldsTicks(c)'
      BY <2>1, <2>2, <2>3, Names
      DEF Running, Calls, ThreadInv, ThreadOf, HoldsPtable, HoldsTicks, Resumes
    <2>8. ASSUME NEW d \in Cpus, d # c
          PROVE  (HoldsPtable(d)' <=> HoldsPtable(d)) /\ (HoldsTicks(d)' <=> HoldsTicks(d))
      BY <2>1, <2>2, <2>3, <2>8, Names
      DEF HoldsPtable, HoldsTicks, Resumes, CpuInv, CpuOf, ProcTypeOK
    <2> QED
      BY <2>3, <2>7, <2>8, Names DEF LockInv, ProcTypeOK
  <1>26. ASSUME NEW c \in Cpus, NEW k \in KillPids, kill(c, k) PROVE LockInv'
    BY <1>26, Names
    DEF kill, Running, pushpopcli, Return, LockInv, HoldsPtable, HoldsTicks, Resumes, ProcTypeOK,
        FlagInv, FlagOf, CpuInv, CpuOf, ThreadInv, ThreadOf, ForkInv, Interruptible, Points, Places,
        States, clockVars, cpuVars
  <1> QED
    BY <1>1, <1>2, <1>3, <1>4, <1>5, <1>6, <1>7, <1>8, <1>9, <1>10, <1>11, <1>12, <1>13, <1>14,
       <1>15, <1>16, <1>17, <1>18, <1>19, <1>20, <1>21, <1>22, <1>23, <1>24, <1>25, <1>26
    DEF ProcNext, Scheduling, Clock, Forking, Waiting, Sleeping

-----------------------------------------------------------------------------
\* A CPU whose own fields a step leaves alone keeps its flags.
LEMMA OtherFlags ==
  ASSUME ProcTypeOK, CpuInv, FlagInv, NEW c \in Cpus, NEW d \in Cpus, d # c,
         at'[d] = at[d], proc'[d] = proc[d], ncli'[d] = ncli[d], fl_if'[d] = fl_if[d], intena'[d] = intena[d],
         tickslock' \in {tickslock, None, c},
         proc[d] \in Slots => pc'[proc[d]] = pc[proc[d]]
  PROVE  FlagOf(d)'
  BY Names DEF FlagInv, FlagOf, CpuInv, CpuOf, ProcTypeOK

\* Every step keeps FlagInv: interrupts come back with the last release.
LEMMA FlagStep ==
  ASSUME ProcTypeOK, ProcTypeOK', LockInv, LockInv', FlagInv, CpuInv, ThreadInv, ForkInv, ProcNext
  PROVE  FlagInv'
  <1>1. ASSUME NEW c \in Cpus, scheduler(c) PROVE FlagInv'
    BY <1>1, Names
    DEF scheduler, acquire, pushcli, FlagInv, LockInv, HoldsPtable, HoldsTicks, Resumes, ProcTypeOK,
        CpuInv, CpuOf, ThreadInv, ThreadOf, ForkInv, Interruptible, FlagOf, tableVars, threadVars,
        clockVars
  <1>2. ASSUME NEW c \in Cpus, scheduler_run(c) PROVE FlagInv'
    BY <1>2, Names
    DEF scheduler_run, Runnable, FlagInv, LockInv, HoldsPtable, HoldsTicks, Resumes, ProcTypeOK,
        CpuInv, CpuOf, ThreadInv, ThreadOf, ForkInv, Interruptible, FlagOf, threadVars, clockVars,
        cliVars
  <1>3. ASSUME NEW c \in Cpus, scheduler_release(c) PROVE FlagInv'
    <2>1. popcli(c, intena[c], TRUE) /\ intena[c] \in BOOLEAN
      BY <1>3, OnCpu DEF scheduler_release, InWait, Running, release, ProcTypeOK
    <2>2. /\ ncli'[c] = ncli[c] - 1 /\ intena'[c] = intena[c]
          /\ fl_if'[c] <=> TRUE \/ (ncli[c] = 1 /\ intena[c])
          /\ \A d \in Cpus : d # c => ncli'[d] = ncli[d] /\ intena'[d] = intena[d] /\ fl_if'[d] = fl_if[d]
      BY <2>1, Popcli
    <2> QED
      BY <1>3, <2>2, Names
      DEF scheduler_release, release, FlagInv, LockInv, HoldsPtable, HoldsTicks, Resumes, ProcTypeOK,
          CpuInv, CpuOf, ThreadInv, ThreadOf, ForkInv, Interruptible, FlagOf, tableVars, threadVars,
          clockVars
  <1>4. ASSUME NEW c \in Cpus, swtch(c) PROVE FlagInv'
    BY <1>4, Names
    DEF swtch, FlagInv, LockInv, HoldsPtable, HoldsTicks, Resumes, ProcTypeOK, CpuInv, CpuOf,
        ThreadInv, ThreadOf, ForkInv, Interruptible, FlagOf, tableVars, threadVars, clockVars,
        cliVars
  <1>5. ASSUME NEW c \in Cpus, forkret(c) PROVE FlagInv'
    <2>1. popcli(c, intena[c], TRUE) /\ intena[c] \in BOOLEAN
      BY <1>5, OnCpu DEF forkret, InWait, Running, release, ProcTypeOK
    <2>2. /\ ncli'[c] = ncli[c] - 1 /\ intena'[c] = intena[c]
          /\ fl_if'[c] <=> TRUE \/ (ncli[c] = 1 /\ intena[c])
          /\ \A d \in Cpus : d # c => ncli'[d] = ncli[d] /\ intena'[d] = intena[d] /\ fl_if'[d] = fl_if[d]
      BY <2>1, Popcli
    <2> QED
      BY <1>5, <2>2, Names
      DEF forkret, Running, release, FlagInv, LockInv, HoldsPtable, HoldsTicks, Resumes, ProcTypeOK,
          CpuInv, CpuOf, ThreadInv, ThreadOf, ForkInv, Interruptible, FlagOf, tableVars, clockVars,
          cpuVars
  <1>6. ASSUME NEW c \in Cpus, timer(c) PROVE FlagInv'
    BY <1>6, Names
    DEF timer, FlagInv, LockInv, HoldsPtable, HoldsTicks, Resumes, ProcTypeOK, CpuInv, CpuOf,
        ThreadInv, ThreadOf, ForkInv, Interruptible, FlagOf, tableVars, threadVars, clockVars
  <1>7. ASSUME NEW c \in Cpus, tick(c) PROVE FlagInv'
    BY <1>7, Names
    DEF tick, acquire, pushcli, FlagInv, LockInv, HoldsPtable, HoldsTicks, Resumes, ProcTypeOK,
        CpuInv, CpuOf, ThreadInv, ThreadOf, ForkInv, Interruptible, FlagOf, tableVars, threadVars
  <1>8. ASSUME NEW c \in Cpus, wakeup_ticks(c) PROVE FlagInv'
    <2>1. popcli(c, intena[c], FALSE) /\ intena[c] \in BOOLEAN
      BY <1>8, OnCpu DEF wakeup_ticks, InWait, Running, release, ProcTypeOK
    <2>2. /\ ncli'[c] = ncli[c] - 1 /\ intena'[c] = intena[c]
          /\ fl_if'[c] <=> FALSE \/ (ncli[c] = 1 /\ intena[c])
          /\ \A d \in Cpus : d # c => ncli'[d] = ncli[d] /\ intena'[d] = intena[d] /\ fl_if'[d] = fl_if[d]
      BY <2>1, Popcli
    <2>3. FlagOf(c)'
      BY <1>8, <2>2, Names
      DEF wakeup_ticks, release, ProcTypeOK, LockInv, HoldsPtable, FlagInv, FlagOf
    <2>4. ASSUME NEW d \in Cpus, d # c PROVE FlagOf(d)'
      <3>1. at'[d] = at[d] /\ proc'[d] = proc[d] /\ tickslock' \in {tickslock, None} /\ (proc[d] \in Slots => pc'[proc[d]] = pc[proc[d]])
        BY <1>8, <2>4, OnCpu
        DEF wakeup_ticks, Running, release, ProcTypeOK, cpuVars, clockVars, threadVars
      <3> QED
        BY <2>2, <2>4, <3>1, OtherFlags, Zenon
    <2> QED
      BY <2>3, <2>4 DEF FlagInv
  <1>9. ASSUME NEW c \in Cpus, intr_idle(c) PROVE FlagInv'
    BY <1>9, Names
    DEF intr_idle, FlagInv, LockInv, HoldsPtable, HoldsTicks, Resumes, ProcTypeOK, CpuInv, CpuOf,
        ThreadInv, ThreadOf, ForkInv, Interruptible, FlagOf, tableVars, threadVars, clockVars
  <1>10. ASSUME NEW c \in Cpus, intr_killed(c) PROVE FlagInv'
    BY <1>10, Names
    DEF intr_killed, FlagInv, LockInv, HoldsPtable, HoldsTicks, Resumes, ProcTypeOK, CpuInv, CpuOf,
        ThreadInv, ThreadOf, ForkInv, Interruptible, FlagOf, tableVars, clockVars, cliVars
  <1>11. ASSUME NEW c \in Cpus, yield(c) PROVE FlagInv'
    BY <1>11, Names
    DEF yield, acquire, pushcli, sched, FlagInv, LockInv, HoldsPtable, HoldsTicks, Resumes,
        ProcTypeOK, CpuInv, CpuOf, ThreadInv, ThreadOf, ForkInv, Interruptible, FlagOf, clockVars
  <1>12. ASSUME NEW c \in Cpus, yield_return(c) PROVE FlagInv'
    <2>1. popcli(c, saved[proc[c]], (~(pc[proc[c]] = "user" /\ killed[proc[c]]))) /\ saved[proc[c]] \in BOOLEAN
      BY <1>12, OnCpu DEF yield_return, InWait, Running, release, ProcTypeOK
    <2>2. /\ ncli'[c] = ncli[c] - 1 /\ intena'[c] = saved[proc[c]]
          /\ fl_if'[c] <=> (~(pc[proc[c]] = "user" /\ killed[proc[c]])) \/ (ncli[c] = 1 /\ saved[proc[c]])
          /\ \A d \in Cpus : d # c => ncli'[d] = ncli[d] /\ intena'[d] = intena[d] /\ fl_if'[d] = fl_if[d]
      BY <2>1, Popcli
    <2> QED
      BY <1>12, <2>2, Names
      DEF yield_return, release, FlagInv, LockInv, HoldsPtable, HoldsTicks, Resumes, ProcTypeOK,
          CpuInv, CpuOf, ThreadInv, ThreadOf, ForkInv, Interruptible, FlagOf, tableVars, clockVars,
          cpuVars
  <1>13. ASSUME NEW c \in Cpus, allocproc(c) PROVE FlagInv'
    <2>1. proc[c] \in Slots /\ Running(c, "fork") /\ \A d \in Cpus : d # c => proc[d] # proc[c]
      BY <1>13, OnCpu DEF allocproc, Running
    <2>2. UNCHANGED <<at, proc, tickslock, ncli, fl_if>> /\ \A d \in Cpus : d # c => intena'[d] = intena[d]
      BY <1>13 DEF allocproc, pushpopcli, ProcTypeOK, cpuVars, clockVars
    <2>3. \A d \in Cpus : d # c /\ proc[d] \in Slots => pc'[proc[d]] = pc[proc[d]]
      BY <1>13, <2>1 DEF allocproc, ProcTypeOK
    <2>4. ncli[c] = 0 /\ tickslock # c /\ fl_if[c]
      BY <2>1
      DEF LockInv, HoldsPtable, HoldsTicks, Resumes, ThreadInv, ThreadOf, Running, FlagInv, FlagOf
    <2>5. FlagOf(c)'
      BY <2>1, <2>2, <2>4 DEF Running, FlagOf
    <2>6. ASSUME NEW d \in Cpus, d # c PROVE FlagOf(d)'
      BY <2>2, <2>3, <2>6, OtherFlags
    <2> QED
      BY <2>5, <2>6 DEF FlagInv
  <1>14. ASSUME NEW c \in Cpus, fork_fails(c) PROVE FlagInv'
    BY <1>14, Names
    DEF fork_fails, Running, Return, FlagInv, LockInv, HoldsPtable, HoldsTicks, Resumes, ProcTypeOK,
        CpuInv, CpuOf, ThreadInv, ThreadOf, ForkInv, Interruptible, FlagOf, clockVars, cpuVars,
        cliVars
  <1>15. ASSUME NEW c \in Cpus, fork(c) PROVE FlagInv'
    <2>1. proc[c] \in Slots /\ Running(c, "copyuvm") /\ \A d \in Cpus : d # c => proc[d] # proc[c]
      BY <1>15, OnCpu DEF fork, Running
    <2>2. UNCHANGED <<at, proc, tickslock, ncli, fl_if>> /\ \A d \in Cpus : d # c => intena'[d] = intena[d]
      BY <1>15 DEF fork, pushpopcli, ProcTypeOK, cpuVars, clockVars
    <2>3. \A d \in Cpus : d # c /\ proc[d] \in Slots => pc'[proc[d]] = pc[proc[d]]
      BY <1>15, <2>1, ForkSlot DEF fork, ProcTypeOK
    <2>4. ncli[c] = 0 /\ tickslock # c /\ fl_if[c]
      BY <2>1
      DEF LockInv, HoldsPtable, HoldsTicks, Resumes, ThreadInv, ThreadOf, Running, FlagInv, FlagOf
    <2>5. FlagOf(c)'
      BY <2>1, <2>2, <2>4 DEF Running, FlagOf
    <2>6. ASSUME NEW d \in Cpus, d # c PROVE FlagOf(d)'
      BY <2>2, <2>3, <2>6, OtherFlags
    <2> QED
      BY <2>5, <2>6 DEF FlagInv
  <1>16. ASSUME NEW c \in Cpus, exit(c) PROVE FlagInv'
    BY <1>16, Names
    DEF exit, Running, acquire, pushcli, sched, Woken, FlagInv, LockInv, HoldsPtable, HoldsTicks,
        Resumes, ProcTypeOK, CpuInv, CpuOf, ThreadInv, ThreadOf, ForkInv, Interruptible, FlagOf,
        clockVars
  <1>17. ASSUME NEW c \in Cpus, wait_found(c) PROVE FlagInv'
    <2>1. /\ proc[c] \in Slots /\ saved[proc[c]] \in BOOLEAN /\ Running(c, "wait") /\ \A d \in Cpus : d # c => proc[d] # proc[c]
          /\ pc' = [pc EXCEPT ![proc[c]] = Return(proc[c])] /\ UNCHANGED <<at, proc, tickslock>>
      BY <1>17, OnCpu DEF wait_found, InWait, Running, cpuVars, clockVars
    <2>2. /\ pc'[proc[c]] \in {"user", "exit"}
          /\ \A d \in Cpus : d # c /\ proc[d] \in Slots => pc'[proc[d]] = pc[proc[d]]
      BY <2>1 DEF Return, ProcTypeOK
    <2>3. CASE ptlock = c
      <3>1. popcli(c, saved[proc[c]], FALSE)
        BY <1>17, <2>3 DEF wait_found, wait_release, release
      <3>2. /\ ncli'[c] = ncli[c] - 1 /\ intena'[c] = saved[proc[c]]
            /\ fl_if'[c] <=> FALSE \/ (ncli[c] = 1 /\ saved[proc[c]])
            /\ \A d \in Cpus : d # c => ncli'[d] = ncli[d] /\ intena'[d] = intena[d] /\ fl_if'[d] = fl_if[d]
        BY <2>1, <3>1, Popcli
      <3>3. saved[proc[c]] /\ ncli[c] = 1 /\ tickslock # c
        BY ZenonT(30), <2>1, <2>3, Names
        DEF LockInv, HoldsPtable, HoldsTicks, Resumes, Running, ThreadInv, ThreadOf
      <3>4. ncli'[c] = 0 /\ fl_if'[c]
        BY <3>2, <3>3
      <3>6. FlagOf(c)'
        BY <2>1, <3>3, <3>4 DEF Running, FlagOf
      <3>5. ASSUME NEW d \in Cpus, d # c PROVE FlagOf(d)'
        BY <2>1, <2>2, <3>2, <3>5, OtherFlags, Zenon
      <3> QED
        BY <3>5, <3>6 DEF FlagInv
    <2>4. CASE ptlock # c
      <3>1. UNCHANGED <<ncli, fl_if>> /\ \A d \in Cpus : d # c => intena'[d] = intena[d]
        BY <1>17, <2>4 DEF wait_found, wait_release, pushpopcli, ProcTypeOK
      <3>2. ncli[c] = 0 /\ tickslock # c
        BY <2>1, <2>4 DEF LockInv, HoldsTicks, Running
      <3>3. FlagOf(c)'
        BY <2>1, <2>2, <3>1, <3>2 DEF Running, FlagInv, FlagOf
      <3>4. ASSUME NEW d \in Cpus, d # c PROVE FlagOf(d)'
        BY <2>1, <2>2, <3>1, <3>4, OtherFlags
      <3> QED
        BY <3>3, <3>4 DEF FlagInv
    <2> QED
      BY <2>3, <2>4
  <1>18. ASSUME NEW c \in Cpus, wait_fails(c) PROVE FlagInv'
    <2>1. /\ proc[c] \in Slots /\ saved[proc[c]] \in BOOLEAN /\ Running(c, "wait") /\ \A d \in Cpus : d # c => proc[d] # proc[c]
          /\ pc' = [pc EXCEPT ![proc[c]] = Return(proc[c])] /\ UNCHANGED <<at, proc, tickslock>>
      BY <1>18, OnCpu DEF wait_fails, InWait, Running, cpuVars, clockVars
    <2>2. /\ pc'[proc[c]] \in {"user", "exit"}
          /\ \A d \in Cpus : d # c /\ proc[d] \in Slots => pc'[proc[d]] = pc[proc[d]]
      BY <2>1 DEF Return, ProcTypeOK
    <2>3. CASE ptlock = c
      <3>1. popcli(c, saved[proc[c]], FALSE)
        BY <1>18, <2>3 DEF wait_fails, wait_release, release
      <3>2. /\ ncli'[c] = ncli[c] - 1 /\ intena'[c] = saved[proc[c]]
            /\ fl_if'[c] <=> FALSE \/ (ncli[c] = 1 /\ saved[proc[c]])
            /\ \A d \in Cpus : d # c => ncli'[d] = ncli[d] /\ intena'[d] = intena[d] /\ fl_if'[d] = fl_if[d]
        BY <2>1, <3>1, Popcli
      <3>3. saved[proc[c]] /\ ncli[c] = 1 /\ tickslock # c
        BY ZenonT(30), <2>1, <2>3, Names
        DEF LockInv, HoldsPtable, HoldsTicks, Resumes, Running, ThreadInv, ThreadOf
      <3>4. ncli'[c] = 0 /\ fl_if'[c]
        BY <3>2, <3>3
      <3>6. FlagOf(c)'
        BY <2>1, <3>3, <3>4 DEF Running, FlagOf
      <3>5. ASSUME NEW d \in Cpus, d # c PROVE FlagOf(d)'
        BY <2>1, <2>2, <3>2, <3>5, OtherFlags, Zenon
      <3> QED
        BY <3>5, <3>6 DEF FlagInv
    <2>4. CASE ptlock # c
      <3>1. UNCHANGED <<ncli, fl_if>> /\ \A d \in Cpus : d # c => intena'[d] = intena[d]
        BY <1>18, <2>4 DEF wait_fails, wait_release, pushpopcli, ProcTypeOK
      <3>2. ncli[c] = 0 /\ tickslock # c
        BY <2>1, <2>4 DEF LockInv, HoldsTicks, Running
      <3>3. FlagOf(c)'
        BY <2>1, <2>2, <3>1, <3>2 DEF Running, FlagInv, FlagOf
      <3>4. ASSUME NEW d \in Cpus, d # c PROVE FlagOf(d)'
        BY <2>1, <2>2, <3>1, <3>4, OtherFlags
      <3> QED
        BY <3>3, <3>4 DEF FlagInv
    <2> QED
      BY <2>3, <2>4
  <1>19. ASSUME NEW c \in Cpus, wait_sleep(c) PROVE FlagInv'
    BY <1>19, Names
    DEF wait_sleep, InWait, Running, pushcli, sched, FlagInv, LockInv, HoldsPtable, HoldsTicks,
        Resumes, ProcTypeOK, CpuInv, CpuOf, ThreadInv, ThreadOf, ForkInv, Interruptible, FlagOf,
        clockVars
  <1>20. ASSUME NEW c \in Cpus, sys_sleep(c) PROVE FlagInv'
    BY <1>20, Names
    DEF sys_sleep, Running, acquire, pushcli, FlagInv, LockInv, HoldsPtable, HoldsTicks, Resumes,
        ProcTypeOK, CpuInv, CpuOf, ThreadInv, ThreadOf, ForkInv, Interruptible, FlagOf, tableVars,
        cpuVars
  <1>21. ASSUME NEW c \in Cpus, sys_sleep_test(c) PROVE FlagInv'
    <2>1. proc[c] \in Slots /\ Running(c, "sleeptest") /\ intena[c] \in BOOLEAN /\ \A d \in Cpus : d # c => proc[d] # proc[c]
      BY <1>21, OnCpu DEF sys_sleep_test, Running, ProcTypeOK
    <2>2. UNCHANGED <<at, proc>> /\ \A d \in Cpus : d # c /\ proc[d] \in Slots => pc'[proc[d]] = pc[proc[d]]
      BY <1>21, <2>1 DEF sys_sleep_test, ProcTypeOK, cpuVars
    <2>3. ncli[c] = 1 /\ tickslock = c /\ ~fl_if[c] /\ intena[c]
      BY <2>1 DEF LockInv, HoldsTicks, Running, FlagInv, FlagOf
    <2>4. CASE Expired(proc[c]) \/ killed[proc[c]]
      <3>1. popcli(c, intena[c], FALSE) /\ tickslock' = None
        BY <1>21, <2>4 DEF sys_sleep_test
      <3>2. /\ ncli'[c] = ncli[c] - 1 /\ intena'[c] = intena[c]
            /\ fl_if'[c] <=> FALSE \/ (ncli[c] = 1 /\ intena[c])
            /\ \A d \in Cpus : d # c => ncli'[d] = ncli[d] /\ intena'[d] = intena[d] /\ fl_if'[d] = fl_if[d]
        BY <2>1, <3>1, Popcli
      <3>5. ncli'[c] = 0 /\ fl_if'[c]
        BY <2>3, <3>2
      <3>3. FlagOf(c)'
        BY <2>1, <2>2, <3>1, <3>5, Names DEF Running, FlagOf
      <3>4. ASSUME NEW d \in Cpus, d # c PROVE FlagOf(d)'
        BY <2>2, <3>1, <3>2, <3>4, OtherFlags, Zenon
      <3> QED
        BY <3>3, <3>4 DEF FlagInv
    <2>5. CASE ~(Expired(proc[c]) \/ killed[proc[c]])
      <3>1. UNCHANGED <<tickslock, ncli, intena, fl_if>>
        BY <1>21, <2>5 DEF sys_sleep_test, cliVars
      <3>2. FlagOf(c)'
        BY <2>1, <2>2, <2>3, <3>1 DEF Running, FlagOf
      <3>3. ASSUME NEW d \in Cpus, d # c PROVE FlagOf(d)'
        BY <2>2, <3>1, <3>3, OtherFlags
      <3> QED
        BY <3>2, <3>3 DEF FlagInv
    <2> QED
      BY <2>4, <2>5
  <1>22. ASSUME NEW c \in Cpus, sleep(c) PROVE FlagInv'
    BY <1>22, Names
    DEF sleep, Running, pushpopcli, sched, FlagInv, LockInv, HoldsPtable, HoldsTicks, Resumes,
        ProcTypeOK, CpuInv, CpuOf, ThreadInv, ThreadOf, ForkInv, Interruptible, FlagOf
  <1>23. ASSUME NEW c \in Cpus, sleep_return(c) PROVE FlagInv'
    <2>1. popcli(c, saved[proc[c]], FALSE) /\ saved[proc[c]] \in BOOLEAN
      BY <1>23, OnCpu DEF sleep_return, InWait, Running, release, ProcTypeOK
    <2>2. /\ ncli'[c] = ncli[c] - 1 /\ intena'[c] = saved[proc[c]]
          /\ fl_if'[c] <=> FALSE \/ (ncli[c] = 1 /\ saved[proc[c]])
          /\ \A d \in Cpus : d # c => ncli'[d] = ncli[d] /\ intena'[d] = intena[d] /\ fl_if'[d] = fl_if[d]
      BY <2>1, Popcli
    <2>3. FlagOf(c)'
      <3>1. saved[proc[c]] /\ ncli[c] = 1 /\ tickslock # c
        BY <1>23, OnCpu, Names
        DEF sleep_return, LockInv, HoldsPtable, HoldsTicks, Resumes, Running, ThreadInv, ThreadOf
      <3> QED
        BY <1>23, <2>2, <3>1, OnCpu
        DEF sleep_return, Running, FlagOf, cpuVars, clockVars, ProcTypeOK
    <2>4. ASSUME NEW d \in Cpus, d # c PROVE FlagOf(d)'
      <3>1. at'[d] = at[d] /\ proc'[d] = proc[d] /\ tickslock' \in {tickslock, None} /\ (proc[d] \in Slots => pc'[proc[d]] = pc[proc[d]])
        BY <1>23, <2>4, OnCpu
        DEF sleep_return, Running, release, ProcTypeOK, cpuVars, clockVars, threadVars
      <3> QED
        BY <2>2, <2>4, <3>1, OtherFlags, Zenon
    <2> QED
      BY <2>3, <2>4 DEF FlagInv
  <1>24. ASSUME NEW c \in Cpus, sleep_reacquire(c) PROVE FlagInv'
    BY <1>24, Names
    DEF sleep_reacquire, Running, acquire, pushcli, FlagInv, LockInv, HoldsPtable, HoldsTicks,
        Resumes, ProcTypeOK, CpuInv, CpuOf, ThreadInv, ThreadOf, ForkInv, Interruptible, FlagOf,
        tableVars, cpuVars
  <1>25. ASSUME NEW c \in Cpus, NEW call \in Calls, syscall(c, call) PROVE FlagInv'
    BY <1>25, Names
    DEF syscall, Running, FlagInv, LockInv, HoldsPtable, HoldsTicks, Resumes, ProcTypeOK, CpuInv,
        CpuOf, ThreadInv, ThreadOf, ForkInv, Interruptible, Calls, FlagOf, tableVars, clockVars,
        cpuVars, cliVars
  <1>26. ASSUME NEW c \in Cpus, NEW k \in KillPids, kill(c, k) PROVE FlagInv'
    BY <1>26, Names
    DEF kill, Running, pushpopcli, Return, FlagInv, LockInv, HoldsPtable, HoldsTicks, Resumes,
        ProcTypeOK, CpuInv, CpuOf, ThreadInv, ThreadOf, ForkInv, Interruptible, FlagOf, clockVars,
        cpuVars
  <1> QED
    BY <1>1, <1>2, <1>3, <1>4, <1>5, <1>6, <1>7, <1>8, <1>9, <1>10, <1>11, <1>12, <1>13, <1>14,
       <1>15, <1>16, <1>17, <1>18, <1>19, <1>20, <1>21, <1>22, <1>23, <1>24, <1>25, <1>26
    DEF ProcNext, Scheduling, Clock, Forking, Waiting, Sleeping

-----------------------------------------------------------------------------
\* A CPU whose process a step leaves alone keeps CpuOf.
LEMMA OtherCpu ==
  ASSUME ProcTypeOK, CpuInv, NEW c \in Cpus, NEW d \in Cpus, d # c,
         at'[d] = at[d], proc'[d] = proc[d],
         proc[d] \in Slots => /\ state'[proc[d]] = state[proc[d]] /\ pc'[proc[d]] = pc[proc[d]]
                             /\ yielded'[proc[d]] = yielded[proc[d]] /\ chan'[proc[d]] = chan[proc[d]]
  PROVE  CpuOf(d)'
  BY DEF CpuInv, CpuOf, Resumes, ProcTypeOK

\* Every step keeps CpuInv: a process that is off its CPU is out of reach of
\* the other schedulers until its own has put ptable.lock back.
LEMMA CpuStep ==
  ASSUME ProcTypeOK, ProcTypeOK', LockInv, FlagInv, CpuInv, ThreadInv, ForkInv, ProcNext
  PROVE  CpuInv'
  <1>1. ASSUME NEW c \in Cpus, scheduler(c) PROVE CpuInv'
    BY <1>1, Names
    DEF scheduler, acquire, pushcli, CpuInv, CpuOf, LockInv, HoldsPtable, HoldsTicks, Resumes,
        ProcTypeOK, FlagInv, FlagOf, ThreadInv, ThreadOf, ForkInv, Interruptible, tableVars,
        threadVars, clockVars
  <1>2. ASSUME NEW c \in Cpus, scheduler_run(c) PROVE CpuInv'
    BY <1>2, Names
    DEF scheduler_run, Runnable, CpuInv, CpuOf, LockInv, HoldsPtable, HoldsTicks, Resumes,
        ProcTypeOK, FlagInv, FlagOf, ThreadInv, ThreadOf, ForkInv, Interruptible, threadVars,
        clockVars, cliVars
  <1>3. ASSUME NEW c \in Cpus, scheduler_release(c) PROVE CpuInv'
    BY <1>3, Names
    DEF scheduler_release, release, popcli, CpuInv, CpuOf, LockInv, HoldsPtable, HoldsTicks, Resumes,
        ProcTypeOK, FlagInv, FlagOf, ThreadInv, ThreadOf, ForkInv, Interruptible, tableVars,
        threadVars, clockVars
  <1>4. ASSUME NEW c \in Cpus, swtch(c) PROVE CpuInv'
    BY <1>4, Names
    DEF swtch, CpuInv, CpuOf, LockInv, HoldsPtable, HoldsTicks, Resumes, ProcTypeOK, FlagInv, FlagOf,
        ThreadInv, ThreadOf, ForkInv, Interruptible, tableVars, threadVars, clockVars, cliVars
  <1>5. ASSUME NEW c \in Cpus, forkret(c) PROVE CpuInv'
    BY <1>5, Names
    DEF forkret, Running, release, popcli, CpuInv, CpuOf, LockInv, HoldsPtable, HoldsTicks, Resumes,
        ProcTypeOK, FlagInv, FlagOf, ThreadInv, ThreadOf, ForkInv, Interruptible, tableVars,
        clockVars, cpuVars
  <1>6. ASSUME NEW c \in Cpus, timer(c) PROVE CpuInv'
    <2>1. ncli[c] = 0 /\ ~HoldsPtable(c) /\ ~HoldsTicks(c)
      BY <1>6 DEF timer, LockInv, FlagInv, FlagOf, ProcTypeOK
    <2>2. /\ at[c] \in {"idle", "run"} /\ at'[c] \in {"irq", "intr"}
          /\ UNCHANGED <<proc, state, pc, yielded, chan>> /\ \A d \in Cpus : d # c => at'[d] = at[d]
      BY <1>6 DEF timer, tableVars, threadVars, ProcTypeOK
    <2>3. CpuOf(c)'
      BY <2>1, <2>2
      DEF HoldsPtable, HoldsTicks, CpuInv, CpuOf, Resumes, ProcTypeOK, Points, Interruptible
    <2>4. ASSUME NEW d \in Cpus, d # c PROVE CpuOf(d)'
      BY <2>2, <2>4, OtherCpu
    <2> QED
      BY <2>2, <2>3, <2>4 DEF CpuInv, CpuOf
  <1>7. ASSUME NEW c \in Cpus, tick(c) PROVE CpuInv'
    BY <1>7, Names
    DEF tick, acquire, pushcli, CpuInv, CpuOf, LockInv, HoldsPtable, HoldsTicks, Resumes, ProcTypeOK,
        FlagInv, FlagOf, ThreadInv, ThreadOf, ForkInv, Interruptible, tableVars, threadVars
  <1>8. ASSUME NEW c \in Cpus, wakeup_ticks(c) PROVE CpuInv'
    BY <1>8, Names
    DEF wakeup_ticks, Woken, release, popcli, CpuInv, CpuOf, LockInv, HoldsPtable, HoldsTicks,
        Resumes, ProcTypeOK, FlagInv, FlagOf, ThreadInv, ThreadOf, ForkInv, Interruptible,
        threadVars
  <1>9. ASSUME NEW c \in Cpus, intr_idle(c) PROVE CpuInv'
    BY <1>9, Names
    DEF intr_idle, CpuInv, CpuOf, LockInv, HoldsPtable, HoldsTicks, Resumes, ProcTypeOK, FlagInv,
        FlagOf, ThreadInv, ThreadOf, ForkInv, Interruptible, tableVars, threadVars, clockVars
  <1>10. ASSUME NEW c \in Cpus, intr_killed(c) PROVE CpuInv'
    BY <1>10, Names
    DEF intr_killed, CpuInv, CpuOf, LockInv, HoldsPtable, HoldsTicks, Resumes, ProcTypeOK, FlagInv,
        FlagOf, ThreadInv, ThreadOf, ForkInv, Interruptible, tableVars, clockVars, cliVars
  <1>11. ASSUME NEW c \in Cpus, yield(c) PROVE CpuInv'
    BY <1>11, Names
    DEF yield, acquire, pushcli, sched, CpuInv, CpuOf, LockInv, HoldsPtable, HoldsTicks, Resumes,
        ProcTypeOK, FlagInv, FlagOf, ThreadInv, ThreadOf, ForkInv, Interruptible, clockVars
  <1>12. ASSUME NEW c \in Cpus, yield_return(c) PROVE CpuInv'
    BY <1>12, Names
    DEF yield_return, release, popcli, CpuInv, CpuOf, LockInv, HoldsPtable, HoldsTicks, Resumes,
        ProcTypeOK, FlagInv, FlagOf, ThreadInv, ThreadOf, ForkInv, Interruptible, tableVars,
        clockVars, cpuVars
  <1>13. ASSUME NEW c \in Cpus, allocproc(c) PROVE CpuInv'
    <2>1. /\ proc[c] \in Slots /\ state[proc[c]] = "RUNNING" /\ at[c] = "run"
          /\ \A d \in Cpus : d # c => proc[d] # proc[c]
      BY <1>13, OnCpu, Names DEF allocproc, Running, CpuInv, CpuOf
    <2>2. UNCHANGED <<at, proc, yielded, chan>>
      BY <1>13 DEF allocproc, cpuVars
    <2>3. /\ \A p \in Slots : p # proc[c] => pc'[p] = pc[p]
          /\ \A p \in Slots : state'[p] = state[p] \/ (state[p] = "UNUSED" /\ state'[p] = "EMBRYO")
      BY <1>13, <2>1 DEF allocproc, Unused, ProcTypeOK
    <2>4. \A d \in Cpus : proc[d] \in Slots => state'[proc[d]] = state[proc[d]]
      BY <2>3, FreeSlot
    <2>7. CpuOf(c)'
      BY <2>1, <2>2, <2>4, Names DEF CpuOf
    <2>8. ASSUME NEW d \in Cpus, d # c PROVE CpuOf(d)'
      BY <2>1, <2>2, <2>3, <2>4, <2>8, OtherCpu
    <2> QED
      BY <2>1, <2>2, <2>3, <2>7, <2>8 DEF CpuInv, ProcTypeOK
  <1>14. ASSUME NEW c \in Cpus, fork_fails(c) PROVE CpuInv'
    <2>1. /\ proc[c] \in Slots /\ np[proc[c]] \in Slots /\ np[proc[c]] # proc[c]
          /\ state[proc[c]] = "RUNNING" /\ at[c] = "run" /\ state[np[proc[c]]] = "EMBRYO"
          /\ \A d \in Cpus : d # c => proc[d] # proc[c] /\ proc[d] # np[proc[c]]
      BY <1>14, ForkSlot DEF fork_fails, Running
    <2>2. UNCHANGED <<at, proc, yielded, chan>>
      BY <1>14 DEF fork_fails, cpuVars
    <2>3. /\ state'[np[proc[c]]] \in {"UNUSED", "RUNNABLE"}
          /\ \A p \in Slots \ {np[proc[c]]} : state'[p] = state[p]
          /\ \A p \in Slots \ {proc[c], np[proc[c]]} : pc'[p] = pc[p]
      BY <1>14, <2>1 DEF fork_fails, ProcTypeOK
    <2>7. CpuOf(c)'
      BY <2>1, <2>2, <2>3, Names DEF CpuOf
    <2>8. ASSUME NEW d \in Cpus, d # c PROVE CpuOf(d)'
      BY <2>1, <2>2, <2>3, <2>8, OtherCpu
    <2> QED
      BY <2>1, <2>2, <2>3, <2>7, <2>8 DEF CpuInv, ProcTypeOK
  <1>15. ASSUME NEW c \in Cpus, fork(c) PROVE CpuInv'
    <2>1. /\ proc[c] \in Slots /\ np[proc[c]] \in Slots /\ np[proc[c]] # proc[c]
          /\ state[proc[c]] = "RUNNING" /\ at[c] = "run" /\ state[np[proc[c]]] = "EMBRYO"
          /\ \A d \in Cpus : d # c => proc[d] # proc[c] /\ proc[d] # np[proc[c]]
      BY <1>15, ForkSlot DEF fork, Running
    <2>2. UNCHANGED <<at, proc, yielded, chan>>
      BY <1>15 DEF fork, cpuVars
    <2>3. /\ state'[np[proc[c]]] \in {"UNUSED", "RUNNABLE"}
          /\ \A p \in Slots \ {np[proc[c]]} : state'[p] = state[p]
          /\ \A p \in Slots \ {proc[c], np[proc[c]]} : pc'[p] = pc[p]
      BY <1>15, <2>1 DEF fork, ProcTypeOK
    <2>7. CpuOf(c)'
      BY <2>1, <2>2, <2>3, Names DEF CpuOf
    <2>8. ASSUME NEW d \in Cpus, d # c PROVE CpuOf(d)'
      BY <2>1, <2>2, <2>3, <2>8, OtherCpu
    <2> QED
      BY <2>1, <2>2, <2>3, <2>7, <2>8 DEF CpuInv, ProcTypeOK
  <1>16. ASSUME NEW c \in Cpus, exit(c) PROVE CpuInv'
    <2>1. /\ proc[c] \in Slots /\ state[proc[c]] = "RUNNING" /\ \A d \in Cpus : d # c => proc[d] # proc[c]
      BY <1>16, OnCpu, Names DEF exit, Running, CpuInv, CpuOf
    <2>2. UNCHANGED <<proc, pc, yielded, chan>> /\ at' = [at EXCEPT ![c] = "swtch"]
      BY <1>16 DEF exit, sched
    <2>3. /\ state'[proc[c]] = "ZOMBIE"
          /\ \A p \in Slots \ {proc[c]} : state'[p] = state[p] \/ (state[p] = "SLEEPING" /\ state'[p] = "RUNNABLE")
      BY <1>16, <2>1 DEF exit, Woken, ProcTypeOK
    <2>4. ASSUME NEW d \in Cpus, d # c PROVE state[proc[d]] # "SLEEPING" \/ proc[d] \notin Slots
      <3>1. at[d] # "swtch"
        BY <1>16, <2>4, Names DEF exit, acquire, LockInv, HoldsPtable
      <3> QED
        BY <3>1, <2>4, Names DEF CpuInv, CpuOf
    <2>7. CpuOf(c)'
      BY <2>1, <2>2, <2>3, Names DEF CpuOf, ProcTypeOK
    <2>8. ASSUME NEW d \in Cpus, d # c PROVE CpuOf(d)'
      <3>1. proc[d] \in Slots => state'[proc[d]] = state[proc[d]]
        BY <2>1, <2>3, <2>4, <2>8
      <3> QED
        BY <2>2, <2>8, <3>1, OtherCpu DEF ProcTypeOK
    <2> QED
      BY ZenonT(30), <2>1, <2>2, <2>3, <2>7, <2>8 DEF CpuInv, ProcTypeOK
  <1>17. ASSUME NEW c \in Cpus, wait_found(c) PROVE CpuInv'
    <2>1. /\ proc[c] \in Slots /\ state[proc[c]] = "RUNNING" /\ at[c] = "run" /\ \A d \in Cpus : d # c => proc[d] # proc[c]
      BY <1>17, OnCpu, Names DEF wait_found, InWait, Running, CpuInv, CpuOf
    <2>2. /\ UNCHANGED <<at, proc, yielded>> 
          /\ \A p \in Slots : p # proc[c] => pc'[p] = pc[p] /\ chan'[p] = chan[p]
      BY <1>17, <2>1 DEF wait_found, cpuVars, ProcTypeOK
    <2>3. \A p \in Slots : state'[p] = state[p] \/ (state[p] = "ZOMBIE" /\ state'[p] = "UNUSED")
      BY <1>17 DEF wait_found, ZombieChildren, Children, ProcTypeOK
    <2>4. ASSUME NEW d \in Cpus PROVE proc[d] \in Slots => state'[proc[d]] = state[proc[d]]
      <3>1. at[d] # "swtch"
        BY <1>17, <2>1, Names DEF wait_found, InWait, LockInv, HoldsPtable, ProcTypeOK
      <3> QED
        BY <3>1, <2>3, Names DEF CpuInv, CpuOf
    <2>7. CpuOf(c)'
      BY <2>1, <2>2, <2>4, Names DEF CpuOf
    <2>8. ASSUME NEW d \in Cpus, d # c PROVE CpuOf(d)'
      BY <2>1, <2>2, <2>4, <2>8, OtherCpu
    <2> QED
      BY <2>1, <2>2, <2>3, <2>7, <2>8 DEF CpuInv, ProcTypeOK
  <1>18. ASSUME NEW c \in Cpus, wait_fails(c) PROVE CpuInv'
    BY <1>18, Names
    DEF wait_fails, InWait, Running, wait_release, release, popcli, pushpopcli, Return, CpuInv,
        CpuOf, LockInv, HoldsPtable, HoldsTicks, Resumes, ProcTypeOK, FlagInv, FlagOf, ThreadInv,
        ThreadOf, ForkInv, Interruptible, clockVars, cpuVars
  <1>19. ASSUME NEW c \in Cpus, wait_sleep(c) PROVE CpuInv'
    BY <1>19, Names
    DEF wait_sleep, InWait, Running, pushcli, sched, CpuInv, CpuOf, LockInv, HoldsPtable, HoldsTicks,
        Resumes, ProcTypeOK, FlagInv, FlagOf, ThreadInv, ThreadOf, ForkInv, Interruptible, clockVars
  <1>20. ASSUME NEW c \in Cpus, sys_sleep(c) PROVE CpuInv'
    BY <1>20, Names
    DEF sys_sleep, Running, acquire, pushcli, CpuInv, CpuOf, LockInv, HoldsPtable, HoldsTicks,
        Resumes, ProcTypeOK, FlagInv, FlagOf, ThreadInv, ThreadOf, ForkInv, Interruptible, tableVars,
        cpuVars
  <1>21. ASSUME NEW c \in Cpus, sys_sleep_test(c) PROVE CpuInv'
    <2>1. /\ proc[c] \in Slots /\ state[proc[c]] = "RUNNING" /\ at[c] = "run" /\ \A d \in Cpus : d # c => proc[d] # proc[c]
      BY <1>21, OnCpu, Names DEF sys_sleep_test, Running, CpuInv, CpuOf
    <2>2. UNCHANGED <<at, proc, state, yielded, chan>>
      BY <1>21 DEF sys_sleep_test, cpuVars, tableVars
    <2>3. \A p \in Slots : p # proc[c] => pc'[p] = pc[p]
      BY <1>21, <2>1 DEF sys_sleep_test, ProcTypeOK
    <2>7. CpuOf(c)'
      BY <2>1, <2>2, Names DEF CpuOf
    <2>8. ASSUME NEW d \in Cpus, d # c PROVE CpuOf(d)'
      BY <2>1, <2>2, <2>3, <2>8, OtherCpu
    <2> QED
      BY <2>1, <2>2, <2>3, <2>7, <2>8 DEF CpuInv, ProcTypeOK
  <1>22. ASSUME NEW c \in Cpus, sleep(c) PROVE CpuInv'
    BY <1>22, Names
    DEF sleep, Running, pushpopcli, sched, CpuInv, CpuOf, LockInv, HoldsPtable, HoldsTicks, Resumes,
        ProcTypeOK, FlagInv, FlagOf, ThreadInv, ThreadOf, ForkInv, Interruptible
  <1>23. ASSUME NEW c \in Cpus, sleep_return(c) PROVE CpuInv'
    BY <1>23, Names
    DEF sleep_return, Running, release, popcli, CpuInv, CpuOf, LockInv, HoldsPtable, HoldsTicks,
        Resumes, ProcTypeOK, FlagInv, FlagOf, ThreadInv, ThreadOf, ForkInv, Interruptible, clockVars,
        cpuVars
  <1>24. ASSUME NEW c \in Cpus, sleep_reacquire(c) PROVE CpuInv'
    BY <1>24, Names
    DEF sleep_reacquire, Running, acquire, pushcli, CpuInv, CpuOf, LockInv, HoldsPtable, HoldsTicks,
        Resumes, ProcTypeOK, FlagInv, FlagOf, ThreadInv, ThreadOf, ForkInv, Interruptible, tableVars,
        cpuVars
  <1>25. ASSUME NEW c \in Cpus, NEW call \in Calls, syscall(c, call) PROVE CpuInv'
    BY <1>25, Names
    DEF syscall, Running, CpuInv, CpuOf, LockInv, HoldsPtable, HoldsTicks, Resumes, ProcTypeOK,
        FlagInv, FlagOf, ThreadInv, ThreadOf, ForkInv, Interruptible, Calls, tableVars, clockVars,
        cpuVars, cliVars
  <1>26. ASSUME NEW c \in Cpus, NEW k \in KillPids, kill(c, k) PROVE CpuInv'
    BY <1>26, Names
    DEF kill, Running, pushpopcli, Return, CpuInv, CpuOf, LockInv, HoldsPtable, HoldsTicks, Resumes,
        ProcTypeOK, FlagInv, FlagOf, ThreadInv, ThreadOf, ForkInv, Interruptible, clockVars, cpuVars
  <1> QED
    BY <1>1, <1>2, <1>3, <1>4, <1>5, <1>6, <1>7, <1>8, <1>9, <1>10, <1>11, <1>12, <1>13, <1>14,
       <1>15, <1>16, <1>17, <1>18, <1>19, <1>20, <1>21, <1>22, <1>23, <1>24, <1>25, <1>26
    DEF ProcNext, Scheduling, Clock, Forking, Waiting, Sleeping

-----------------------------------------------------------------------------

\* Every step keeps ThreadInv.
LEMMA ThreadStep ==
  ASSUME ProcTypeOK, ProcTypeOK', LockInv, FlagInv, CpuInv, ThreadInv, ForkInv, ProcNext
  PROVE  ThreadInv'
  <1>1. ASSUME NEW c \in Cpus, scheduler(c) PROVE ThreadInv'
    BY <1>1, Names
    DEF scheduler, acquire, pushcli, ThreadInv, ThreadOf, LockInv, HoldsPtable, HoldsTicks, Resumes,
        ProcTypeOK, FlagInv, FlagOf, CpuInv, CpuOf, ForkInv, Interruptible, tableVars, threadVars,
        clockVars
  <1>2. ASSUME NEW c \in Cpus, scheduler_run(c) PROVE ThreadInv'
    <2>1. /\ UNCHANGED <<pc, yielded, saved, chan>>
          /\ \A p \in Slots : state'[p] = state[p] \/ (state[p] = "RUNNABLE" /\ state'[p] = "RUNNING")
      BY <1>2 DEF scheduler_run, Runnable, threadVars, ProcTypeOK
    <2> QED
      BY <2>1 DEF ThreadInv, ThreadOf, Resumes
  <1>3. ASSUME NEW c \in Cpus, scheduler_release(c) PROVE ThreadInv'
    BY <1>3, Names
    DEF scheduler_release, release, popcli, ThreadInv, ThreadOf, LockInv, HoldsPtable, HoldsTicks,
        Resumes, ProcTypeOK, FlagInv, FlagOf, CpuInv, CpuOf, ForkInv, Interruptible, tableVars,
        threadVars, clockVars
  <1>4. ASSUME NEW c \in Cpus, swtch(c) PROVE ThreadInv'
    BY <1>4, Names
    DEF swtch, ThreadInv, ThreadOf, LockInv, HoldsPtable, HoldsTicks, Resumes, ProcTypeOK, FlagInv,
        FlagOf, CpuInv, CpuOf, ForkInv, Interruptible, tableVars, threadVars, clockVars, cliVars
  <1>5. ASSUME NEW c \in Cpus, forkret(c) PROVE ThreadInv'
    BY <1>5, Names
    DEF forkret, Running, release, popcli, ThreadInv, ThreadOf, LockInv, HoldsPtable, HoldsTicks,
        Resumes, ProcTypeOK, FlagInv, FlagOf, CpuInv, CpuOf, ForkInv, Interruptible, tableVars,
        clockVars, cpuVars
  <1>6. ASSUME NEW c \in Cpus, timer(c) PROVE ThreadInv'
    BY <1>6, Names
    DEF timer, ThreadInv, ThreadOf, LockInv, HoldsPtable, HoldsTicks, Resumes, ProcTypeOK, FlagInv,
        FlagOf, CpuInv, CpuOf, ForkInv, Interruptible, tableVars, threadVars, clockVars
  <1>7. ASSUME NEW c \in Cpus, tick(c) PROVE ThreadInv'
    BY <1>7, Names
    DEF tick, acquire, pushcli, ThreadInv, ThreadOf, LockInv, HoldsPtable, HoldsTicks, Resumes,
        ProcTypeOK, FlagInv, FlagOf, CpuInv, CpuOf, ForkInv, Interruptible, tableVars, threadVars
  <1>8. ASSUME NEW c \in Cpus, wakeup_ticks(c) PROVE ThreadInv'
    BY <1>8, Names
    DEF wakeup_ticks, Woken, release, popcli, ThreadInv, ThreadOf, LockInv, HoldsPtable, HoldsTicks,
        Resumes, ProcTypeOK, FlagInv, FlagOf, CpuInv, CpuOf, ForkInv, Interruptible, threadVars
  <1>9. ASSUME NEW c \in Cpus, intr_idle(c) PROVE ThreadInv'
    BY <1>9, Names
    DEF intr_idle, ThreadInv, ThreadOf, LockInv, HoldsPtable, HoldsTicks, Resumes, ProcTypeOK,
        FlagInv, FlagOf, CpuInv, CpuOf, ForkInv, Interruptible, tableVars, threadVars, clockVars
  <1>10. ASSUME NEW c \in Cpus, intr_killed(c) PROVE ThreadInv'
    BY <1>10, Names
    DEF intr_killed, ThreadInv, ThreadOf, LockInv, HoldsPtable, HoldsTicks, Resumes, ProcTypeOK,
        FlagInv, FlagOf, CpuInv, CpuOf, ForkInv, Interruptible, tableVars, clockVars, cliVars
  <1>11. ASSUME NEW c \in Cpus, yield(c) PROVE ThreadInv'
    BY <1>11, Names
    DEF yield, acquire, pushcli, sched, ThreadInv, ThreadOf, LockInv, HoldsPtable, HoldsTicks,
        Resumes, ProcTypeOK, FlagInv, FlagOf, CpuInv, CpuOf, ForkInv, Interruptible, clockVars
  <1>12. ASSUME NEW c \in Cpus, yield_return(c) PROVE ThreadInv'
    BY <1>12, Names
    DEF yield_return, release, popcli, ThreadInv, ThreadOf, LockInv, HoldsPtable, HoldsTicks,
        Resumes, ProcTypeOK, FlagInv, FlagOf, CpuInv, CpuOf, ForkInv, Interruptible, tableVars,
        clockVars, cpuVars
  <1>13. ASSUME NEW c \in Cpus, allocproc(c) PROVE ThreadInv'
    BY <1>13, Names
    DEF allocproc, Running, pushpopcli, Return, Unused, ThreadInv, ThreadOf, LockInv, HoldsPtable,
        HoldsTicks, Resumes, ProcTypeOK, FlagInv, FlagOf, CpuInv, CpuOf, ForkInv, Interruptible,
        clockVars, cpuVars
  <1>14. ASSUME NEW c \in Cpus, fork_fails(c) PROVE ThreadInv'
    <2>1. proc[c] \in Slots /\ np[proc[c]] \in Slots /\ state[proc[c]] = "RUNNING" /\ state[np[proc[c]]] = "EMBRYO"
      BY <1>14, ForkSlot DEF fork_fails
    <2>2. ~yielded[proc[c]] /\ chan[proc[c]] = NoProc
      BY <1>14, <2>1 DEF fork_fails, Running, ThreadInv, ThreadOf
    <2>3. /\ UNCHANGED <<yielded, saved, chan>>
          /\ \A p \in Slots : p # np[proc[c]] => state'[p] = state[p]
          /\ \A p \in Slots : p # proc[c] => pc'[p] = pc[p]
          /\ state'[np[proc[c]]] = "UNUSED" /\ pc'[proc[c]] \in {"exit", "user"}
      BY <1>14, <2>1 DEF fork_fails, Return, ProcTypeOK
    <2> QED
      BY <2>1, <2>2, <2>3 DEF ThreadInv, ThreadOf, Resumes
  <1>15. ASSUME NEW c \in Cpus, fork(c) PROVE ThreadInv'
    <2>1. /\ proc[c] \in Slots /\ np[proc[c]] \in Slots /\ np[proc[c]] # proc[c]
          /\ state[proc[c]] = "RUNNING" /\ state[np[proc[c]]] = "EMBRYO"
      BY <1>15, ForkSlot DEF fork
    <2>2. ~yielded[proc[c]] /\ chan[proc[c]] = NoProc /\ ~yielded[np[proc[c]]] /\ chan[np[proc[c]]] = NoProc
      BY <1>15, <2>1 DEF fork, Running, ThreadInv, ThreadOf
    <2>3. /\ UNCHANGED <<yielded, saved, chan>>
          /\ \A p \in Slots : p # np[proc[c]] => state'[p] = state[p]
          /\ \A p \in Slots : p # proc[c] /\ p # np[proc[c]] => pc'[p] = pc[p]
          /\ state'[np[proc[c]]] = "RUNNABLE"
          /\ pc'[proc[c]] \in {"exit", "user"} /\ pc'[np[proc[c]]] = "forkret"
      BY <1>15, <2>1 DEF fork, Return, ProcTypeOK
    <2> QED
      BY <2>1, <2>2, <2>3 DEF ThreadInv, ThreadOf, Resumes
  <1>16. ASSUME NEW c \in Cpus, exit(c) PROVE ThreadInv'
    <2>1. /\ proc[c] \in Slots /\ state[proc[c]] = "RUNNING"
          /\ pc[proc[c]] = "exit" /\ ~yielded[proc[c]]
      BY <1>16, OnCpu, Names DEF exit, Running, CpuInv, CpuOf
    <2>2. UNCHANGED <<pc, yielded, chan>> /\ \A p \in Slots \ {proc[c]} : saved'[p] = saved[p]
      BY <1>16, <2>1 DEF exit, sched, ProcTypeOK
    <2>3. /\ state'[proc[c]] = "ZOMBIE"
          /\ \A p \in Slots \ {proc[c]} : state'[p] = state[p] \/ (state[p] = "SLEEPING" /\ state'[p] = "RUNNABLE")
      BY <1>16, <2>1 DEF exit, Woken, ProcTypeOK
    <2>4. chan[proc[c]] = NoProc
      BY <2>1 DEF ThreadInv, ThreadOf
    <2> SUFFICES ASSUME NEW p \in Slots PROVE ThreadOf(p)'
      BY DEF ThreadInv
    <2>5. CASE p = proc[c]
      BY <2>1, <2>2, <2>3, <2>4, <2>5 DEF ThreadOf
    <2>6. CASE p # proc[c]
      BY <2>2, <2>3, <2>6 DEF ThreadInv, ThreadOf, Resumes
    <2> QED
      BY <2>5, <2>6
  <1>17. ASSUME NEW c \in Cpus, wait_found(c) PROVE ThreadInv'
    <2>1. proc[c] \in Slots /\ state[proc[c]] = "RUNNING" /\ ~yielded[proc[c]]
      BY <1>17, OnCpu, Names DEF wait_found, InWait, Running, CpuInv, CpuOf
    <2>2. /\ UNCHANGED <<yielded, saved>>
          /\ \A p \in Slots : p # proc[c] => pc'[p] = pc[p] /\ chan'[p] = chan[p]
          /\ pc'[proc[c]] \in {"exit", "user"} /\ chan'[proc[c]] = NoProc
      BY <1>17, <2>1 DEF wait_found, Return, ProcTypeOK
    <2>3. \A p \in Slots : state'[p] = state[p] \/ (state[p] = "ZOMBIE" /\ state'[p] = "UNUSED")
      BY <1>17 DEF wait_found, ZombieChildren, Children, ProcTypeOK
    <2> QED
      BY <2>1, <2>2, <2>3 DEF ThreadInv, ThreadOf, Resumes
  <1>18. ASSUME NEW c \in Cpus, wait_fails(c) PROVE ThreadInv'
    BY <1>18, Names
    DEF wait_fails, InWait, Running, wait_release, release, popcli, pushpopcli, Return, ThreadInv,
        ThreadOf, LockInv, HoldsPtable, HoldsTicks, Resumes, ProcTypeOK, FlagInv, FlagOf, CpuInv,
        CpuOf, ForkInv, Interruptible, clockVars, cpuVars
  <1>19. ASSUME NEW c \in Cpus, wait_sleep(c) PROVE ThreadInv'
    BY <1>19, Names
    DEF wait_sleep, InWait, Running, pushcli, sched, ThreadInv, ThreadOf, LockInv, HoldsPtable,
        HoldsTicks, Resumes, ProcTypeOK, FlagInv, FlagOf, CpuInv, CpuOf, ForkInv, Interruptible,
        clockVars
  <1>20. ASSUME NEW c \in Cpus, sys_sleep(c) PROVE ThreadInv'
    BY <1>20, Names
    DEF sys_sleep, Running, acquire, pushcli, ThreadInv, ThreadOf, LockInv, HoldsPtable, HoldsTicks,
        Resumes, ProcTypeOK, FlagInv, FlagOf, CpuInv, CpuOf, ForkInv, Interruptible, tableVars,
        cpuVars
  <1>21. ASSUME NEW c \in Cpus, sys_sleep_test(c) PROVE ThreadInv'
    BY <1>21, Names
    DEF sys_sleep_test, Running, popcli, Return, ThreadInv, ThreadOf, LockInv, HoldsPtable,
        HoldsTicks, Resumes, ProcTypeOK, FlagInv, FlagOf, CpuInv, CpuOf, ForkInv, Interruptible,
        tableVars, cpuVars, cliVars
  <1>22. ASSUME NEW c \in Cpus, sleep(c) PROVE ThreadInv'
    BY <1>22, Names
    DEF sleep, Running, pushpopcli, sched, ThreadInv, ThreadOf, LockInv, HoldsPtable, HoldsTicks,
        Resumes, ProcTypeOK, FlagInv, FlagOf, CpuInv, CpuOf, ForkInv, Interruptible
  <1>23. ASSUME NEW c \in Cpus, sleep_return(c) PROVE ThreadInv'
    BY <1>23, Names
    DEF sleep_return, Running, release, popcli, ThreadInv, ThreadOf, LockInv, HoldsPtable,
        HoldsTicks, Resumes, ProcTypeOK, FlagInv, FlagOf, CpuInv, CpuOf, ForkInv, Interruptible,
        clockVars, cpuVars
  <1>24. ASSUME NEW c \in Cpus, sleep_reacquire(c) PROVE ThreadInv'
    <2>1. proc[c] \in Slots /\ state[proc[c]] = "RUNNING" /\ ~yielded[proc[c]] /\ pc[proc[c]] = "reacquire"
      BY <1>24, OnCpu, Names DEF sleep_reacquire, Running, CpuInv, CpuOf
    <2>2. UNCHANGED <<state, yielded, saved, chan>> /\ pc' = [pc EXCEPT ![proc[c]] = "sleeptest"]
      BY <1>24 DEF sleep_reacquire, tableVars
    <2> QED
      BY <2>1, <2>2 DEF ThreadInv, ThreadOf, Resumes, ProcTypeOK
  <1>25. ASSUME NEW c \in Cpus, NEW call \in Calls, syscall(c, call) PROVE ThreadInv'
    BY <1>25, Names
    DEF syscall, Running, ThreadInv, ThreadOf, LockInv, HoldsPtable, HoldsTicks, Resumes, ProcTypeOK,
        FlagInv, FlagOf, CpuInv, CpuOf, ForkInv, Interruptible, Calls, tableVars, clockVars, cpuVars,
        cliVars
  <1>26. ASSUME NEW c \in Cpus, NEW k \in KillPids, kill(c, k) PROVE ThreadInv'
    BY <1>26, Names
    DEF kill, Running, pushpopcli, Return, ThreadInv, ThreadOf, LockInv, HoldsPtable, HoldsTicks,
        Resumes, ProcTypeOK, FlagInv, FlagOf, CpuInv, CpuOf, ForkInv, Interruptible, clockVars,
        cpuVars
  <1> QED
    BY <1>1, <1>2, <1>3, <1>4, <1>5, <1>6, <1>7, <1>8, <1>9, <1>10, <1>11, <1>12, <1>13, <1>14,
       <1>15, <1>16, <1>17, <1>18, <1>19, <1>20, <1>21, <1>22, <1>23, <1>24, <1>25, <1>26
    DEF ProcNext, Scheduling, Clock, Forking, Waiting, Sleeping

-----------------------------------------------------------------------------

\* Every step keeps ForkInv: allocproc gives a slot to one process only.
LEMMA ForkStep ==
  ASSUME ProcTypeOK, ProcTypeOK', CpuInv, ThreadInv, ForkInv, ProcNext
  PROVE  ForkInv'
  <1>1. ASSUME NEW c \in Cpus, scheduler(c) PROVE ForkInv'
    BY <1>1, Names
    DEF scheduler, acquire, pushcli, ForkInv, ProcTypeOK, CpuInv, CpuOf, ThreadInv, ThreadOf,
        Interruptible, tableVars, threadVars, clockVars
  <1>2. ASSUME NEW c \in Cpus, scheduler_run(c) PROVE ForkInv'
    BY <1>2, Names
    DEF scheduler_run, Runnable, ForkInv, ProcTypeOK, CpuInv, CpuOf, ThreadInv, ThreadOf,
        Interruptible, threadVars, clockVars, cliVars
  <1>3. ASSUME NEW c \in Cpus, scheduler_release(c) PROVE ForkInv'
    BY <1>3, Names
    DEF scheduler_release, release, popcli, ForkInv, ProcTypeOK, CpuInv, CpuOf, ThreadInv, ThreadOf,
        Interruptible, tableVars, threadVars, clockVars
  <1>4. ASSUME NEW c \in Cpus, swtch(c) PROVE ForkInv'
    BY <1>4, Names
    DEF swtch, ForkInv, ProcTypeOK, CpuInv, CpuOf, ThreadInv, ThreadOf, Interruptible, tableVars,
        threadVars, clockVars, cliVars
  <1>5. ASSUME NEW c \in Cpus, forkret(c) PROVE ForkInv'
    BY <1>5, Names
    DEF forkret, Running, release, popcli, ForkInv, ProcTypeOK, CpuInv, CpuOf, ThreadInv, ThreadOf,
        Interruptible, tableVars, clockVars, cpuVars
  <1>6. ASSUME NEW c \in Cpus, timer(c) PROVE ForkInv'
    BY <1>6, Names
    DEF timer, ForkInv, ProcTypeOK, CpuInv, CpuOf, ThreadInv, ThreadOf, Interruptible, tableVars,
        threadVars, clockVars
  <1>7. ASSUME NEW c \in Cpus, tick(c) PROVE ForkInv'
    BY <1>7, Names
    DEF tick, acquire, pushcli, ForkInv, ProcTypeOK, CpuInv, CpuOf, ThreadInv, ThreadOf,
        Interruptible, tableVars, threadVars
  <1>8. ASSUME NEW c \in Cpus, wakeup_ticks(c) PROVE ForkInv'
    BY <1>8, Names
    DEF wakeup_ticks, Woken, release, popcli, ForkInv, ProcTypeOK, CpuInv, CpuOf, ThreadInv,
        ThreadOf, Interruptible, threadVars
  <1>9. ASSUME NEW c \in Cpus, intr_idle(c) PROVE ForkInv'
    BY <1>9, Names
    DEF intr_idle, ForkInv, ProcTypeOK, CpuInv, CpuOf, ThreadInv, ThreadOf, Interruptible, tableVars,
        threadVars, clockVars
  <1>10. ASSUME NEW c \in Cpus, intr_killed(c) PROVE ForkInv'
    BY <1>10, Names
    DEF intr_killed, ForkInv, ProcTypeOK, CpuInv, CpuOf, ThreadInv, ThreadOf, Interruptible,
        tableVars, clockVars, cliVars
  <1>11. ASSUME NEW c \in Cpus, yield(c) PROVE ForkInv'
    BY <1>11, Names
    DEF yield, acquire, pushcli, sched, ForkInv, ProcTypeOK, CpuInv, CpuOf, ThreadInv, ThreadOf,
        Interruptible, clockVars
  <1>12. ASSUME NEW c \in Cpus, yield_return(c) PROVE ForkInv'
    BY <1>12, Names
    DEF yield_return, release, popcli, ForkInv, ProcTypeOK, CpuInv, CpuOf, ThreadInv, ThreadOf,
        Interruptible, tableVars, clockVars, cpuVars
  <1>13. ASSUME NEW c \in Cpus, allocproc(c) PROVE ForkInv'
    <2>1. proc[c] \in Slots /\ np[proc[c]] = NoProc /\ UNCHANGED killed
      BY <1>13, OnCpu DEF allocproc, Running, ForkInv
    <2>2. CASE Unused # {} /\ nextpid <= MaxPid
      <3>1. PICK s \in Slots : /\ state[s] = "UNUSED" /\ state' = [state EXCEPT ![s] = "EMBRYO"]
                               /\ np' = [np EXCEPT ![proc[c]] = s] /\ pc' = [pc EXCEPT ![proc[c]] = "copyuvm"]
        BY <1>13, <2>2 DEF allocproc, Unused
      <3>2. \A q \in Slots : np[q] # s
        BY <3>1, Names DEF ForkInv
      <3> QED
        BY <2>1, <3>1, <3>2, Names DEF ForkInv, ProcTypeOK
    <2>3. CASE ~(Unused # {} /\ nextpid <= MaxPid)
      BY <1>13, <2>1, <2>3 DEF allocproc, Running, Return, ForkInv, ProcTypeOK
    <2> QED
      BY <2>2, <2>3
  <1>14. ASSUME NEW c \in Cpus, fork_fails(c) PROVE ForkInv'
    <2>1. proc[c] \in Slots /\ np[proc[c]] \in Slots
      BY <1>14, ForkSlot DEF fork_fails
    <2>2. /\ np' = [np EXCEPT ![proc[c]] = NoProc] /\ state' = [state EXCEPT ![np[proc[c]]] = "UNUSED"]
          /\ \A p \in Slots : p # proc[c] => pc'[p] = pc[p]
          /\ pc'[proc[c]] \in {"exit", "user"}
      BY <1>14, <2>1 DEF fork_fails, Return, ProcTypeOK
    <2>3. \A q \in Slots : q # proc[c] => np[q] # np[proc[c]]
      BY <2>1, Names DEF ForkInv
    <2>4. \A q \in Slots : q # proc[c] /\ np[q] # NoProc => np[q] \in Slots /\ state'[np[q]] = "EMBRYO"
      BY <2>2, <2>3 DEF ForkInv, ProcTypeOK
    <2> QED
      BY <2>1, <2>2, <2>4, Names DEF ForkInv, ProcTypeOK
  <1>15. ASSUME NEW c \in Cpus, fork(c) PROVE ForkInv'
    <2>1. /\ proc[c] \in Slots /\ np[proc[c]] \in Slots /\ np[proc[c]] # proc[c]
          /\ state[np[proc[c]]] = "EMBRYO" /\ pc[np[proc[c]]] # "copyuvm"
      BY <1>15, ForkSlot DEF fork, ThreadInv, ThreadOf
    <2>2. /\ np' = [np EXCEPT ![proc[c]] = NoProc] /\ state' = [state EXCEPT ![np[proc[c]]] = "RUNNABLE"]
          /\ \A p \in Slots : p # proc[c] /\ p # np[proc[c]] => pc'[p] = pc[p]
          /\ pc'[proc[c]] \in {"exit", "user"} /\ pc'[np[proc[c]]] = "forkret"
      BY <1>15, <2>1 DEF fork, Return, ProcTypeOK
    <2>3. \A q \in Slots : q # proc[c] => np[q] # np[proc[c]]
      BY <2>1, Names DEF ForkInv
    <2>4. \A q \in Slots : q # proc[c] /\ np[q] # NoProc => np[q] \in Slots /\ state'[np[q]] = "EMBRYO"
      BY <2>2, <2>3 DEF ForkInv, ProcTypeOK
    <2> QED
      BY <2>1, <2>2, <2>4, Names DEF ForkInv, ProcTypeOK
  <1>16. ASSUME NEW c \in Cpus, exit(c) PROVE ForkInv'
    <2>1. proc[c] \in Slots /\ state[proc[c]] = "RUNNING"
      BY <1>16, OnCpu, Names DEF exit, Running, CpuInv, CpuOf
    <2>2. UNCHANGED <<np, pc>> /\ \A p \in Slots : state[p] = "EMBRYO" => state'[p] = "EMBRYO"
      BY <1>16, <2>1 DEF exit, Woken, ProcTypeOK
    <2> QED
      BY <2>2 DEF ForkInv, ProcTypeOK
  <1>17. ASSUME NEW c \in Cpus, wait_found(c) PROVE ForkInv'
    <2>1. proc[c] \in Slots /\ pc[proc[c]] = "wait"
      BY <1>17, OnCpu DEF wait_found, InWait, Running
    <2>2. /\ UNCHANGED np /\ \A p \in Slots : p # proc[c] => pc'[p] = pc[p]
          /\ pc'[proc[c]] \in {"exit", "user"}
      BY <1>17, <2>1 DEF wait_found, Return, ProcTypeOK
    <2>3. \A p \in Slots : state[p] = "EMBRYO" => state'[p] = "EMBRYO"
      BY <1>17 DEF wait_found, ZombieChildren, Children, ProcTypeOK
    <2> QED
      BY <2>1, <2>2, <2>3 DEF ForkInv, ProcTypeOK
  <1>18. ASSUME NEW c \in Cpus, wait_fails(c) PROVE ForkInv'
    BY <1>18, Names
    DEF wait_fails, InWait, Running, wait_release, release, popcli, pushpopcli, Return, ForkInv,
        ProcTypeOK, CpuInv, CpuOf, ThreadInv, ThreadOf, Interruptible, clockVars, cpuVars
  <1>19. ASSUME NEW c \in Cpus, wait_sleep(c) PROVE ForkInv'
    BY <1>19, Names
    DEF wait_sleep, InWait, Running, pushcli, sched, ForkInv, ProcTypeOK, CpuInv, CpuOf, ThreadInv,
        ThreadOf, Interruptible, clockVars
  <1>20. ASSUME NEW c \in Cpus, sys_sleep(c) PROVE ForkInv'
    BY <1>20, Names
    DEF sys_sleep, Running, acquire, pushcli, ForkInv, ProcTypeOK, CpuInv, CpuOf, ThreadInv,
        ThreadOf, Interruptible, tableVars, cpuVars
  <1>21. ASSUME NEW c \in Cpus, sys_sleep_test(c) PROVE ForkInv'
    BY <1>21, Names
    DEF sys_sleep_test, Running, popcli, Return, ForkInv, ProcTypeOK, CpuInv, CpuOf, ThreadInv,
        ThreadOf, Interruptible, tableVars, cpuVars, cliVars
  <1>22. ASSUME NEW c \in Cpus, sleep(c) PROVE ForkInv'
    BY <1>22, Names
    DEF sleep, Running, pushpopcli, sched, ForkInv, ProcTypeOK, CpuInv, CpuOf, ThreadInv, ThreadOf,
        Interruptible
  <1>23. ASSUME NEW c \in Cpus, sleep_return(c) PROVE ForkInv'
    BY <1>23, Names
    DEF sleep_return, Running, release, popcli, ForkInv, ProcTypeOK, CpuInv, CpuOf, ThreadInv,
        ThreadOf, Interruptible, clockVars, cpuVars
  <1>24. ASSUME NEW c \in Cpus, sleep_reacquire(c) PROVE ForkInv'
    BY <1>24, Names
    DEF sleep_reacquire, Running, acquire, pushcli, ForkInv, ProcTypeOK, CpuInv, CpuOf, ThreadInv,
        ThreadOf, Interruptible, tableVars, cpuVars
  <1>25. ASSUME NEW c \in Cpus, NEW call \in Calls, syscall(c, call) PROVE ForkInv'
    BY <1>25, Names
    DEF syscall, Running, ForkInv, ProcTypeOK, CpuInv, CpuOf, ThreadInv, ThreadOf, Interruptible,
        Calls, tableVars, clockVars, cpuVars, cliVars
  <1>26. ASSUME NEW c \in Cpus, NEW k \in KillPids, kill(c, k) PROVE ForkInv'
    BY <1>26, Names
    DEF kill, Running, pushpopcli, Return, ForkInv, ProcTypeOK, CpuInv, CpuOf, ThreadInv, ThreadOf,
        Interruptible, clockVars, cpuVars
  <1> QED
    BY <1>1, <1>2, <1>3, <1>4, <1>5, <1>6, <1>7, <1>8, <1>9, <1>10, <1>11, <1>12, <1>13, <1>14,
       <1>15, <1>16, <1>17, <1>18, <1>19, <1>20, <1>21, <1>22, <1>23, <1>24, <1>25, <1>26
    DEF ProcNext, Scheduling, Clock, Forking, Waiting, Sleeping

-----------------------------------------------------------------------------

\* Every step keeps FamilyInv: init is neither killed nor collected.
LEMMA FamilyStep ==
  ASSUME ProcTypeOK, ProcTypeOK', CpuInv, ThreadInv, ForkInv, FamilyInv, ProcNext
  PROVE  FamilyInv'
  <1>1. ASSUME NEW c \in Cpus, scheduler(c) PROVE FamilyInv'
    BY <1>1, Names, ProcAssumption
    DEF scheduler, acquire, pushcli, FamilyInv, ProcTypeOK, CpuInv, CpuOf, ThreadInv, ThreadOf,
        ForkInv, Children, ZombieChildren, tableVars, threadVars, clockVars
  <1>2. ASSUME NEW c \in Cpus, scheduler_run(c) PROVE FamilyInv'
    BY <1>2, Names, ProcAssumption
    DEF scheduler_run, Runnable, FamilyInv, ProcTypeOK, CpuInv, CpuOf, ThreadInv, ThreadOf, ForkInv,
        Children, ZombieChildren, threadVars, clockVars, cliVars
  <1>3. ASSUME NEW c \in Cpus, scheduler_release(c) PROVE FamilyInv'
    BY <1>3, Names, ProcAssumption
    DEF scheduler_release, release, popcli, FamilyInv, ProcTypeOK, CpuInv, CpuOf, ThreadInv,
        ThreadOf, ForkInv, Children, ZombieChildren, tableVars, threadVars, clockVars
  <1>4. ASSUME NEW c \in Cpus, swtch(c) PROVE FamilyInv'
    BY <1>4, Names, ProcAssumption
    DEF swtch, FamilyInv, ProcTypeOK, CpuInv, CpuOf, ThreadInv, ThreadOf, ForkInv, Children,
        ZombieChildren, tableVars, threadVars, clockVars, cliVars
  <1>5. ASSUME NEW c \in Cpus, forkret(c) PROVE FamilyInv'
    BY <1>5, Names, ProcAssumption
    DEF forkret, Running, release, popcli, FamilyInv, ProcTypeOK, CpuInv, CpuOf, ThreadInv, ThreadOf,
        ForkInv, Children, ZombieChildren, tableVars, clockVars, cpuVars
  <1>6. ASSUME NEW c \in Cpus, timer(c) PROVE FamilyInv'
    BY <1>6, Names, ProcAssumption
    DEF timer, FamilyInv, ProcTypeOK, CpuInv, CpuOf, ThreadInv, ThreadOf, ForkInv, Children,
        ZombieChildren, tableVars, threadVars, clockVars
  <1>7. ASSUME NEW c \in Cpus, tick(c) PROVE FamilyInv'
    BY <1>7, Names, ProcAssumption
    DEF tick, acquire, pushcli, FamilyInv, ProcTypeOK, CpuInv, CpuOf, ThreadInv, ThreadOf, ForkInv,
        Children, ZombieChildren, tableVars, threadVars
  <1>8. ASSUME NEW c \in Cpus, wakeup_ticks(c) PROVE FamilyInv'
    BY <1>8, Names, ProcAssumption
    DEF wakeup_ticks, Woken, release, popcli, FamilyInv, ProcTypeOK, CpuInv, CpuOf, ThreadInv,
        ThreadOf, ForkInv, Children, ZombieChildren, threadVars
  <1>9. ASSUME NEW c \in Cpus, intr_idle(c) PROVE FamilyInv'
    BY <1>9, Names, ProcAssumption
    DEF intr_idle, FamilyInv, ProcTypeOK, CpuInv, CpuOf, ThreadInv, ThreadOf, ForkInv, Children,
        ZombieChildren, tableVars, threadVars, clockVars
  <1>10. ASSUME NEW c \in Cpus, intr_killed(c) PROVE FamilyInv'
    BY <1>10, Names, ProcAssumption
    DEF intr_killed, FamilyInv, ProcTypeOK, CpuInv, CpuOf, ThreadInv, ThreadOf, ForkInv, Children,
        ZombieChildren, tableVars, clockVars, cliVars
  <1>11. ASSUME NEW c \in Cpus, yield(c) PROVE FamilyInv'
    BY <1>11, Names, ProcAssumption
    DEF yield, acquire, pushcli, sched, FamilyInv, ProcTypeOK, CpuInv, CpuOf, ThreadInv, ThreadOf,
        ForkInv, Children, ZombieChildren, clockVars
  <1>12. ASSUME NEW c \in Cpus, yield_return(c) PROVE FamilyInv'
    BY <1>12, Names, ProcAssumption
    DEF yield_return, release, popcli, FamilyInv, ProcTypeOK, CpuInv, CpuOf, ThreadInv, ThreadOf,
        ForkInv, Children, ZombieChildren, tableVars, clockVars, cpuVars
  <1>13. ASSUME NEW c \in Cpus, allocproc(c) PROVE FamilyInv'
    BY <1>13, Names, ProcAssumption
    DEF allocproc, Running, pushpopcli, Return, Unused, FamilyInv, ProcTypeOK, CpuInv, CpuOf,
        ThreadInv, ThreadOf, ForkInv, Children, ZombieChildren, clockVars, cpuVars
  <1>14. ASSUME NEW c \in Cpus, fork_fails(c) PROVE FamilyInv'
    <2>1. /\ proc[c] \in Slots /\ np[proc[c]] \in Slots /\ state[np[proc[c]]] = "EMBRYO"
      BY <1>14, ForkSlot DEF fork_fails
    <2>2. /\ UNCHANGED <<pid, parent, killed>> /\ state' = [state EXCEPT ![np[proc[c]]] = "UNUSED"]
          /\ pc' = [pc EXCEPT ![proc[c]] = Return(proc[c])]
      BY <1>14 DEF fork_fails
    <2> QED
      BY <2>1, <2>2, Names DEF FamilyInv, Return, ProcTypeOK
  <1>15. ASSUME NEW c \in Cpus, fork(c) PROVE FamilyInv'
    <2>1. /\ proc[c] \in Slots /\ np[proc[c]] \in Slots /\ np[proc[c]] # proc[c]
          /\ state[np[proc[c]]] = "EMBRYO" /\ np[proc[c]] # initproc
      BY <1>15, ForkSlot DEF fork, FamilyInv
    <2>2. /\ UNCHANGED <<pid, killed>>
          /\ parent' = [parent EXCEPT ![np[proc[c]]] = proc[c]]
          /\ state' = [state EXCEPT ![np[proc[c]]] = "RUNNABLE"]
          /\ pc' = [pc EXCEPT ![proc[c]] = Return(proc[c]), ![np[proc[c]]] = "forkret"]
      BY <1>15 DEF fork
    <2> QED
      BY <2>1, <2>2, Names DEF FamilyInv, Return, ProcTypeOK
  <1>16. ASSUME NEW c \in Cpus, exit(c) PROVE FamilyInv'
    BY SMTT(30), <1>16, Names, ProcAssumption
    DEF exit, Running, acquire, pushcli, sched, Woken, FamilyInv, ProcTypeOK, CpuInv, CpuOf,
        ThreadInv, ThreadOf, ForkInv, Children, ZombieChildren, clockVars
  <1>17. ASSUME NEW c \in Cpus, wait_found(c) PROVE FamilyInv'
    BY <1>17, Names, ProcAssumption
    DEF wait_found, InWait, Running, wait_release, release, popcli, pushpopcli, Return, FamilyInv,
        ProcTypeOK, CpuInv, CpuOf, ThreadInv, ThreadOf, ForkInv, Children, ZombieChildren, clockVars,
        cpuVars
  <1>18. ASSUME NEW c \in Cpus, wait_fails(c) PROVE FamilyInv'
    BY <1>18, Names, ProcAssumption
    DEF wait_fails, InWait, Running, wait_release, release, popcli, pushpopcli, Return, FamilyInv,
        ProcTypeOK, CpuInv, CpuOf, ThreadInv, ThreadOf, ForkInv, Children, ZombieChildren, clockVars,
        cpuVars
  <1>19. ASSUME NEW c \in Cpus, wait_sleep(c) PROVE FamilyInv'
    BY <1>19, Names, ProcAssumption
    DEF wait_sleep, InWait, Running, pushcli, sched, FamilyInv, ProcTypeOK, CpuInv, CpuOf, ThreadInv,
        ThreadOf, ForkInv, Children, ZombieChildren, clockVars
  <1>20. ASSUME NEW c \in Cpus, sys_sleep(c) PROVE FamilyInv'
    BY <1>20, Names, ProcAssumption
    DEF sys_sleep, Running, acquire, pushcli, FamilyInv, ProcTypeOK, CpuInv, CpuOf, ThreadInv,
        ThreadOf, ForkInv, Children, ZombieChildren, tableVars, cpuVars
  <1>21. ASSUME NEW c \in Cpus, sys_sleep_test(c) PROVE FamilyInv'
    BY <1>21, Names, ProcAssumption
    DEF sys_sleep_test, Running, popcli, Return, FamilyInv, ProcTypeOK, CpuInv, CpuOf, ThreadInv,
        ThreadOf, ForkInv, Children, ZombieChildren, tableVars, cpuVars, cliVars
  <1>22. ASSUME NEW c \in Cpus, sleep(c) PROVE FamilyInv'
    BY <1>22, Names, ProcAssumption
    DEF sleep, Running, pushpopcli, sched, FamilyInv, ProcTypeOK, CpuInv, CpuOf, ThreadInv, ThreadOf,
        ForkInv, Children, ZombieChildren
  <1>23. ASSUME NEW c \in Cpus, sleep_return(c) PROVE FamilyInv'
    BY <1>23, Names, ProcAssumption
    DEF sleep_return, Running, release, popcli, FamilyInv, ProcTypeOK, CpuInv, CpuOf, ThreadInv,
        ThreadOf, ForkInv, Children, ZombieChildren, clockVars, cpuVars
  <1>24. ASSUME NEW c \in Cpus, sleep_reacquire(c) PROVE FamilyInv'
    BY <1>24, Names, ProcAssumption
    DEF sleep_reacquire, Running, acquire, pushcli, FamilyInv, ProcTypeOK, CpuInv, CpuOf, ThreadInv,
        ThreadOf, ForkInv, Children, ZombieChildren, tableVars, cpuVars
  <1>25. ASSUME NEW c \in Cpus, NEW call \in Calls, syscall(c, call) PROVE FamilyInv'
    BY <1>25, Names, ProcAssumption
    DEF syscall, Running, FamilyInv, ProcTypeOK, CpuInv, CpuOf, ThreadInv, ThreadOf, ForkInv, Calls,
        Children, ZombieChildren, tableVars, clockVars, cpuVars, cliVars
  <1>26. ASSUME NEW c \in Cpus, NEW k \in KillPids, kill(c, k) PROVE FamilyInv'
    BY <1>26, Names, ProcAssumption
    DEF kill, Running, pushpopcli, Return, FamilyInv, ProcTypeOK, CpuInv, CpuOf, ThreadInv, ThreadOf,
        ForkInv, Children, ZombieChildren, clockVars, cpuVars
  <1> QED
    BY <1>1, <1>2, <1>3, <1>4, <1>5, <1>6, <1>7, <1>8, <1>9, <1>10, <1>11, <1>12, <1>13, <1>14,
       <1>15, <1>16, <1>17, <1>18, <1>19, <1>20, <1>21, <1>22, <1>23, <1>24, <1>25, <1>26
    DEF ProcNext, Scheduling, Clock, Forking, Waiting, Sleeping

-----------------------------------------------------------------------------
\* Steps that neither end a process nor change a parent keep the reapers.
LEMMA SameReaper ==
  ASSUME ZombiesHaveReaper, ProcTypeOK, UNCHANGED parent,
         \A p \in Slots : /\ state'[p] \in {"UNUSED", "EMBRYO"} <=> state[p] \in {"UNUSED", "EMBRYO"}
                          /\ state'[p] = "ZOMBIE" => state[p] = "ZOMBIE"
  PROVE  ZombiesHaveReaper'
  BY DEF ZombiesHaveReaper, ProcTypeOK

\* Every step keeps ZombiesHaveReaper: exit hands its children to init.
LEMMA ReaperStep ==
  ASSUME ProcTypeOK, ProcTypeOK', CpuInv, ForkInv, FamilyInv, FamilyInv', ZombiesHaveReaper, ProcNext
  PROVE  ZombiesHaveReaper'
  <1>1. ASSUME NEW c \in Cpus, scheduler(c) PROVE ZombiesHaveReaper'
    BY <1>1, Names
    DEF scheduler, acquire, pushcli, ZombiesHaveReaper, ProcTypeOK, CpuInv, CpuOf, FamilyInv,
        ForkInv, Children, ZombieChildren, tableVars, threadVars, clockVars
  <1>2. ASSUME NEW c \in Cpus, scheduler_run(c) PROVE ZombiesHaveReaper'
    BY <1>2, SameReaper DEF scheduler_run, Runnable, ProcTypeOK
  <1>3. ASSUME NEW c \in Cpus, scheduler_release(c) PROVE ZombiesHaveReaper'
    BY <1>3, Names
    DEF scheduler_release, release, popcli, ZombiesHaveReaper, ProcTypeOK, CpuInv, CpuOf, FamilyInv,
        ForkInv, Children, ZombieChildren, tableVars, threadVars, clockVars
  <1>4. ASSUME NEW c \in Cpus, swtch(c) PROVE ZombiesHaveReaper'
    BY <1>4, Names
    DEF swtch, ZombiesHaveReaper, ProcTypeOK, CpuInv, CpuOf, FamilyInv, ForkInv, Children,
        ZombieChildren, tableVars, threadVars, clockVars, cliVars
  <1>5. ASSUME NEW c \in Cpus, forkret(c) PROVE ZombiesHaveReaper'
    BY <1>5, Names
    DEF forkret, Running, release, popcli, ZombiesHaveReaper, ProcTypeOK, CpuInv, CpuOf, FamilyInv,
        ForkInv, Children, ZombieChildren, tableVars, clockVars, cpuVars
  <1>6. ASSUME NEW c \in Cpus, timer(c) PROVE ZombiesHaveReaper'
    BY <1>6, Names
    DEF timer, ZombiesHaveReaper, ProcTypeOK, CpuInv, CpuOf, FamilyInv, ForkInv, Children,
        ZombieChildren, tableVars, threadVars, clockVars
  <1>7. ASSUME NEW c \in Cpus, tick(c) PROVE ZombiesHaveReaper'
    BY <1>7, Names
    DEF tick, acquire, pushcli, ZombiesHaveReaper, ProcTypeOK, CpuInv, CpuOf, FamilyInv, ForkInv,
        Children, ZombieChildren, tableVars, threadVars
  <1>8. ASSUME NEW c \in Cpus, wakeup_ticks(c) PROVE ZombiesHaveReaper'
    BY <1>8, Names
    DEF wakeup_ticks, Woken, release, popcli, ZombiesHaveReaper, ProcTypeOK, CpuInv, CpuOf,
        FamilyInv, ForkInv, Children, ZombieChildren, threadVars
  <1>9. ASSUME NEW c \in Cpus, intr_idle(c) PROVE ZombiesHaveReaper'
    BY <1>9, Names
    DEF intr_idle, ZombiesHaveReaper, ProcTypeOK, CpuInv, CpuOf, FamilyInv, ForkInv, Children,
        ZombieChildren, tableVars, threadVars, clockVars
  <1>10. ASSUME NEW c \in Cpus, intr_killed(c) PROVE ZombiesHaveReaper'
    BY <1>10, Names
    DEF intr_killed, ZombiesHaveReaper, ProcTypeOK, CpuInv, CpuOf, FamilyInv, ForkInv, Children,
        ZombieChildren, tableVars, clockVars, cliVars
  <1>11. ASSUME NEW c \in Cpus, yield(c) PROVE ZombiesHaveReaper'
    BY <1>11, Names
    DEF yield, acquire, pushcli, sched, ZombiesHaveReaper, ProcTypeOK, CpuInv, CpuOf, FamilyInv,
        ForkInv, Children, ZombieChildren, clockVars
  <1>12. ASSUME NEW c \in Cpus, yield_return(c) PROVE ZombiesHaveReaper'
    BY <1>12, Names
    DEF yield_return, release, popcli, ZombiesHaveReaper, ProcTypeOK, CpuInv, CpuOf, FamilyInv,
        ForkInv, Children, ZombieChildren, tableVars, clockVars, cpuVars
  <1>13. ASSUME NEW c \in Cpus, allocproc(c) PROVE ZombiesHaveReaper'
    BY <1>13, SameReaper DEF allocproc, Unused, ProcTypeOK
  <1>14. ASSUME NEW c \in Cpus, fork_fails(c) PROVE ZombiesHaveReaper'
    BY <1>14, ForkSlot, SameReaper DEF fork_fails, ProcTypeOK
  <1>15. ASSUME NEW c \in Cpus, fork(c) PROVE ZombiesHaveReaper'
    <2>1. /\ proc[c] \in Slots /\ np[proc[c]] \in Slots /\ np[proc[c]] # proc[c]
          /\ state[proc[c]] = "RUNNING" /\ state[np[proc[c]]] = "EMBRYO"
      BY <1>15, ForkSlot DEF fork
    <2>2. /\ parent' = [parent EXCEPT ![np[proc[c]]] = proc[c]]
          /\ state' = [state EXCEPT ![np[proc[c]]] = "RUNNABLE"]
      BY <1>15 DEF fork
    <2>3. /\ parent'[np[proc[c]]] = proc[c] /\ state'[proc[c]] = "RUNNING"
          /\ \A p \in Slots : p # np[proc[c]] => parent'[p] = parent[p] /\ state'[p] = state[p]
      BY <2>1, <2>2 DEF ProcTypeOK
    <2>4. ASSUME NEW p \in Slots \ {initproc}, state'[p] \notin {"UNUSED", "EMBRYO"}
          PROVE  parent'[p] # NoProc /\ state'[parent'[p]] \notin {"UNUSED", "EMBRYO", "ZOMBIE"}
      <3>1. CASE p = np[proc[c]]
        BY <2>1, <2>3, <3>1, Names
      <3>2. CASE p # np[proc[c]]
        BY <2>1, <2>3, <2>4, <3>2 DEF ZombiesHaveReaper, ProcTypeOK
      <3> QED
        BY <3>1, <3>2
    <2> QED
      BY <2>4 DEF ZombiesHaveReaper
  <1>16. ASSUME NEW c \in Cpus, exit(c) PROVE ZombiesHaveReaper'
    <2>1. proc[c] \in Slots /\ state[proc[c]] = "RUNNING" /\ proc[c] # initproc
      BY <1>16, OnCpu, Names DEF exit, Running, CpuInv, CpuOf, FamilyInv
    <2>2. /\ state'[proc[c]] = "ZOMBIE"
          /\ \A p \in Slots \ {proc[c]} : state'[p] = state[p] \/ (state[p] = "SLEEPING" /\ state'[p] = "RUNNABLE")
      BY <1>16, <2>1 DEF exit, Woken, ProcTypeOK
    <2>3. \A p \in Slots : parent'[p] = IF parent[p] = proc[c] THEN initproc ELSE parent[p]
      BY <1>16 DEF exit, Children, ProcTypeOK
    <2>4. state'[initproc] \notin {"UNUSED", "EMBRYO", "ZOMBIE"}
      BY <2>1, <2>2, Names DEF FamilyInv
    <2>5. ASSUME NEW p \in Slots, p # initproc, state'[p] \notin {"UNUSED", "EMBRYO"}
          PROVE  parent'[p] # NoProc /\ state'[parent'[p]] \notin {"UNUSED", "EMBRYO", "ZOMBIE"}
      <3>1. parent[p] \in Slots /\ state[parent[p]] \notin {"UNUSED", "EMBRYO", "ZOMBIE"}
        BY <2>1, <2>2, <2>5 DEF ZombiesHaveReaper, ProcTypeOK
      <3>2. CASE parent[p] = proc[c]
        BY <2>3, <2>4, <2>5, <3>2, Names
      <3>3. CASE parent[p] # proc[c]
        BY ZenonT(30), <2>2, <2>3, <2>5, <3>1, <3>3, Names
      <3> QED
        BY <3>2, <3>3
    <2> QED
      BY <2>5 DEF ZombiesHaveReaper
  <1>17. ASSUME NEW c \in Cpus, wait_found(c) PROVE ZombiesHaveReaper'
    BY <1>17, Names
    DEF wait_found, InWait, Running, wait_release, release, popcli, pushpopcli, Return,
        ZombiesHaveReaper, ProcTypeOK, CpuInv, CpuOf, FamilyInv, ForkInv, Children, ZombieChildren,
        clockVars, cpuVars
  <1>18. ASSUME NEW c \in Cpus, wait_fails(c) PROVE ZombiesHaveReaper'
    BY <1>18, Names
    DEF wait_fails, InWait, Running, wait_release, release, popcli, pushpopcli, Return,
        ZombiesHaveReaper, ProcTypeOK, CpuInv, CpuOf, FamilyInv, ForkInv, Children, ZombieChildren,
        clockVars, cpuVars
  <1>19. ASSUME NEW c \in Cpus, wait_sleep(c) PROVE ZombiesHaveReaper'
    BY <1>19, Names
    DEF wait_sleep, InWait, Running, pushcli, sched, ZombiesHaveReaper, ProcTypeOK, CpuInv, CpuOf,
        FamilyInv, ForkInv, Children, ZombieChildren, clockVars
  <1>20. ASSUME NEW c \in Cpus, sys_sleep(c) PROVE ZombiesHaveReaper'
    BY <1>20, Names
    DEF sys_sleep, Running, acquire, pushcli, ZombiesHaveReaper, ProcTypeOK, CpuInv, CpuOf,
        FamilyInv, ForkInv, Children, ZombieChildren, tableVars, cpuVars
  <1>21. ASSUME NEW c \in Cpus, sys_sleep_test(c) PROVE ZombiesHaveReaper'
    BY <1>21, Names
    DEF sys_sleep_test, Running, popcli, Return, ZombiesHaveReaper, ProcTypeOK, CpuInv, CpuOf,
        FamilyInv, ForkInv, Children, ZombieChildren, tableVars, cpuVars, cliVars
  <1>22. ASSUME NEW c \in Cpus, sleep(c) PROVE ZombiesHaveReaper'
    BY <1>22, Names
    DEF sleep, Running, pushpopcli, sched, ZombiesHaveReaper, ProcTypeOK, CpuInv, CpuOf, FamilyInv,
        ForkInv, Children, ZombieChildren
  <1>23. ASSUME NEW c \in Cpus, sleep_return(c) PROVE ZombiesHaveReaper'
    BY <1>23, Names
    DEF sleep_return, Running, release, popcli, ZombiesHaveReaper, ProcTypeOK, CpuInv, CpuOf,
        FamilyInv, ForkInv, Children, ZombieChildren, clockVars, cpuVars
  <1>24. ASSUME NEW c \in Cpus, sleep_reacquire(c) PROVE ZombiesHaveReaper'
    BY <1>24, Names
    DEF sleep_reacquire, Running, acquire, pushcli, ZombiesHaveReaper, ProcTypeOK, CpuInv, CpuOf,
        FamilyInv, ForkInv, Children, ZombieChildren, tableVars, cpuVars
  <1>25. ASSUME NEW c \in Cpus, NEW call \in Calls, syscall(c, call) PROVE ZombiesHaveReaper'
    BY <1>25, Names
    DEF syscall, Running, ZombiesHaveReaper, ProcTypeOK, CpuInv, CpuOf, FamilyInv, ForkInv, Children,
        ZombieChildren, tableVars, clockVars, cpuVars, cliVars
  <1>26. ASSUME NEW c \in Cpus, NEW k \in KillPids, kill(c, k) PROVE ZombiesHaveReaper'
    BY <1>26, Names
    DEF kill, Running, pushpopcli, Return, ZombiesHaveReaper, ProcTypeOK, CpuInv, CpuOf, FamilyInv,
        ForkInv, Children, ZombieChildren, clockVars, cpuVars
  <1> QED
    BY <1>1, <1>2, <1>3, <1>4, <1>5, <1>6, <1>7, <1>8, <1>9, <1>10, <1>11, <1>12, <1>13, <1>14,
       <1>15, <1>16, <1>17, <1>18, <1>19, <1>20, <1>21, <1>22, <1>23, <1>24, <1>25, <1>26
    DEF ProcNext, Scheduling, Clock, Forking, Waiting, Sleeping

-----------------------------------------------------------------------------
\* Steps without new sleepers, new zombies or new parents keep WaitInv.
LEMMA SameWait ==
  ASSUME WaitInv, ProcTypeOK, UNCHANGED <<parent, killed>>,
         \A p \in Slots : state'[p] = "SLEEPING" => state[p] = "SLEEPING" /\ chan'[p] = chan[p],
         \A p \in Slots : state'[p] = "ZOMBIE" => state[p] = "ZOMBIE"
  PROVE  WaitInv'
  BY DEF WaitInv, Children, ZombieChildren

\* Every step keeps WaitInv: exit wakes the parent, and init when it inherits a
\* zombie, in the step that makes the zombie.
LEMMA WaitStep ==
  ASSUME ProcTypeOK, ProcTypeOK', CpuInv, ThreadInv, ForkInv, FamilyInv, ZombiesHaveReaper, WaitInv, ProcNext
  PROVE  WaitInv'
  <1>1. ASSUME NEW c \in Cpus, scheduler(c) PROVE WaitInv'
    BY <1>1, Names
    DEF scheduler, acquire, pushcli, WaitInv, ProcTypeOK, CpuInv, CpuOf, ThreadInv, ThreadOf,
        FamilyInv, ForkInv, ZombiesHaveReaper, Children, ZombieChildren, tableVars, threadVars,
        clockVars
  <1>2. ASSUME NEW c \in Cpus, scheduler_run(c) PROVE WaitInv'
    BY <1>2, SameWait DEF scheduler_run, Runnable, ProcTypeOK
  <1>3. ASSUME NEW c \in Cpus, scheduler_release(c) PROVE WaitInv'
    BY <1>3, Names
    DEF scheduler_release, release, popcli, WaitInv, ProcTypeOK, CpuInv, CpuOf, ThreadInv, ThreadOf,
        FamilyInv, ForkInv, ZombiesHaveReaper, Children, ZombieChildren, tableVars, threadVars,
        clockVars
  <1>4. ASSUME NEW c \in Cpus, swtch(c) PROVE WaitInv'
    BY <1>4, Names
    DEF swtch, WaitInv, ProcTypeOK, CpuInv, CpuOf, ThreadInv, ThreadOf, FamilyInv, ForkInv,
        ZombiesHaveReaper, Children, ZombieChildren, tableVars, threadVars, clockVars, cliVars
  <1>5. ASSUME NEW c \in Cpus, forkret(c) PROVE WaitInv'
    BY <1>5, Names
    DEF forkret, Running, release, popcli, WaitInv, ProcTypeOK, CpuInv, CpuOf, ThreadInv, ThreadOf,
        FamilyInv, ForkInv, ZombiesHaveReaper, Children, ZombieChildren, tableVars, clockVars,
        cpuVars
  <1>6. ASSUME NEW c \in Cpus, timer(c) PROVE WaitInv'
    BY <1>6, Names
    DEF timer, WaitInv, ProcTypeOK, CpuInv, CpuOf, ThreadInv, ThreadOf, FamilyInv, ForkInv,
        ZombiesHaveReaper, Children, ZombieChildren, tableVars, threadVars, clockVars
  <1>7. ASSUME NEW c \in Cpus, tick(c) PROVE WaitInv'
    BY <1>7, Names
    DEF tick, acquire, pushcli, WaitInv, ProcTypeOK, CpuInv, CpuOf, ThreadInv, ThreadOf, FamilyInv,
        ForkInv, ZombiesHaveReaper, Children, ZombieChildren, tableVars, threadVars
  <1>8. ASSUME NEW c \in Cpus, wakeup_ticks(c) PROVE WaitInv'
    BY <1>8, Names
    DEF wakeup_ticks, Woken, release, popcli, WaitInv, ProcTypeOK, CpuInv, CpuOf, ThreadInv,
        ThreadOf, FamilyInv, ForkInv, ZombiesHaveReaper, Children, ZombieChildren, threadVars
  <1>9. ASSUME NEW c \in Cpus, intr_idle(c) PROVE WaitInv'
    BY <1>9, Names
    DEF intr_idle, WaitInv, ProcTypeOK, CpuInv, CpuOf, ThreadInv, ThreadOf, FamilyInv, ForkInv,
        ZombiesHaveReaper, Children, ZombieChildren, tableVars, threadVars, clockVars
  <1>10. ASSUME NEW c \in Cpus, intr_killed(c) PROVE WaitInv'
    BY <1>10, Names
    DEF intr_killed, WaitInv, ProcTypeOK, CpuInv, CpuOf, ThreadInv, ThreadOf, FamilyInv, ForkInv,
        ZombiesHaveReaper, Children, ZombieChildren, tableVars, clockVars, cliVars
  <1>11. ASSUME NEW c \in Cpus, yield(c) PROVE WaitInv'
    BY <1>11, Names
    DEF yield, acquire, pushcli, sched, WaitInv, ProcTypeOK, CpuInv, CpuOf, ThreadInv, ThreadOf,
        FamilyInv, ForkInv, ZombiesHaveReaper, Children, ZombieChildren, clockVars
  <1>12. ASSUME NEW c \in Cpus, yield_return(c) PROVE WaitInv'
    BY <1>12, Names
    DEF yield_return, release, popcli, WaitInv, ProcTypeOK, CpuInv, CpuOf, ThreadInv, ThreadOf,
        FamilyInv, ForkInv, ZombiesHaveReaper, Children, ZombieChildren, tableVars, clockVars,
        cpuVars
  <1>13. ASSUME NEW c \in Cpus, allocproc(c) PROVE WaitInv'
    <2>1. /\ UNCHANGED <<parent, killed, chan>>
          /\ \A p \in Slots : state'[p] = state[p] \/ state'[p] = "EMBRYO"
      BY <1>13 DEF allocproc, Unused, ProcTypeOK
    <2> QED
      BY <2>1, SameWait
  <1>14. ASSUME NEW c \in Cpus, fork_fails(c) PROVE WaitInv'
    BY <1>14, Names
    DEF fork_fails, Running, Return, WaitInv, ProcTypeOK, CpuInv, CpuOf, ThreadInv, ThreadOf,
        FamilyInv, ForkInv, ZombiesHaveReaper, Children, ZombieChildren, clockVars, cpuVars, cliVars
  <1>15. ASSUME NEW c \in Cpus, fork(c) PROVE WaitInv'
    <2>1. /\ proc[c] \in Slots /\ np[proc[c]] \in Slots
          /\ state[proc[c]] = "RUNNING" /\ state[np[proc[c]]] = "EMBRYO" /\ parent[np[proc[c]]] = NoProc
      BY <1>15, ForkSlot DEF fork, FamilyInv
    <2>2. /\ parent' = [parent EXCEPT ![np[proc[c]]] = proc[c]]
          /\ state' = [state EXCEPT ![np[proc[c]]] = "RUNNABLE"]
          /\ UNCHANGED <<killed, chan>>
      BY <1>15 DEF fork
    <2>3. ASSUME NEW p \in Slots, state'[p] = "SLEEPING", chan'[p] = p
          PROVE  Children(p)' # {} /\ ZombieChildren(p)' = {} /\ ~killed'[p]
      <3>1. state[p] = "SLEEPING" /\ chan[p] = p /\ p # proc[c]
        BY <2>1, <2>2, <2>3 DEF ProcTypeOK
      <3>2. Children(p)' = Children(p)
        BY <2>1, <2>2, <3>1, Names DEF Children, ProcTypeOK
      <3>3. ZombieChildren(p)' \subseteq ZombieChildren(p)
        BY <2>1, <2>2, <3>2 DEF ZombieChildren, ProcTypeOK, Children
      <3> QED
        BY <2>2, <3>1, <3>2, <3>3 DEF WaitInv
    <2> QED
      BY <2>3 DEF WaitInv
  <1>16. ASSUME NEW c \in Cpus, exit(c) PROVE WaitInv'
    <2> DEFINE me == proc[c]
    <2>1. me \in Slots /\ state[me] = "RUNNING" /\ parent[me] # me
      BY <1>16, OnCpu, Names DEF exit, Running, CpuInv, CpuOf, FamilyInv
    <2>2. \A p \in Slots : parent'[p] = IF parent[p] = me THEN initproc ELSE parent[p]
      BY <1>16 DEF exit, Children, ProcTypeOK
    <2>3. UNCHANGED <<killed, chan>> /\ \A p \in Slots : state'[p] = "ZOMBIE" => state[p] = "ZOMBIE" \/ p = me
      BY <1>16, <2>1 DEF exit, Woken, ProcTypeOK
    <2>4. ASSUME NEW p \in Slots, state'[p] = "SLEEPING", chan'[p] = p
          PROVE  Children(p)' # {} /\ ZombieChildren(p)' = {} /\ ~killed'[p]
      <3>1. state[p] = "SLEEPING" /\ chan[p] = p /\ p # parent[me] /\ p # me
        BY <1>16, <2>1, <2>3, <2>4 DEF exit, Woken, ProcTypeOK
      <3>2. Children(p) # {} /\ ZombieChildren(p) = {} /\ ~killed[p]
        BY <3>1 DEF WaitInv
      <3>3. \A q \in Slots : parent[q] = p => parent'[q] = p
        BY <2>2, <3>1
      <3>4. p = initproc => \A q \in Slots : parent[q] = me => state[q] # "ZOMBIE"
        BY <1>16, <2>1, <2>4, <3>1 DEF exit, Woken, Children, ProcTypeOK
      <3>5. \A q \in Slots : parent'[q] = p => state'[q] # "ZOMBIE"
        BY <2>1, <2>2, <2>3, <3>1, <3>2, <3>4 DEF ZombieChildren, Children
      <3> QED
        BY <2>3, <3>2, <3>3, <3>5 DEF ZombieChildren, Children
    <2> QED
      BY <2>4 DEF WaitInv
  <1>17. ASSUME NEW c \in Cpus, wait_found(c) PROVE WaitInv'
    BY <1>17, Names
    DEF wait_found, InWait, Running, wait_release, release, popcli, pushpopcli, Return, WaitInv,
        ProcTypeOK, CpuInv, CpuOf, ThreadInv, ThreadOf, FamilyInv, ForkInv, ZombiesHaveReaper,
        Children, ZombieChildren, clockVars, cpuVars
  <1>18. ASSUME NEW c \in Cpus, wait_fails(c) PROVE WaitInv'
    BY <1>18, Names
    DEF wait_fails, InWait, Running, wait_release, release, popcli, pushpopcli, Return, WaitInv,
        ProcTypeOK, CpuInv, CpuOf, ThreadInv, ThreadOf, FamilyInv, ForkInv, ZombiesHaveReaper,
        Children, ZombieChildren, clockVars, cpuVars
  <1>19. ASSUME NEW c \in Cpus, wait_sleep(c) PROVE WaitInv'
    BY <1>19, Names
    DEF wait_sleep, InWait, Running, pushcli, sched, WaitInv, ProcTypeOK, CpuInv, CpuOf, ThreadInv,
        ThreadOf, FamilyInv, ForkInv, ZombiesHaveReaper, Children, ZombieChildren, clockVars
  <1>20. ASSUME NEW c \in Cpus, sys_sleep(c) PROVE WaitInv'
    BY <1>20, Names
    DEF sys_sleep, Running, acquire, pushcli, WaitInv, ProcTypeOK, CpuInv, CpuOf, ThreadInv,
        ThreadOf, FamilyInv, ForkInv, ZombiesHaveReaper, Children, ZombieChildren, tableVars,
        cpuVars
  <1>21. ASSUME NEW c \in Cpus, sys_sleep_test(c) PROVE WaitInv'
    BY <1>21, Names
    DEF sys_sleep_test, Running, popcli, Return, WaitInv, ProcTypeOK, CpuInv, CpuOf, ThreadInv,
        ThreadOf, FamilyInv, ForkInv, ZombiesHaveReaper, Children, ZombieChildren, tableVars,
        cpuVars, cliVars
  <1>22. ASSUME NEW c \in Cpus, sleep(c) PROVE WaitInv'
    BY <1>22, Names
    DEF sleep, Running, pushpopcli, sched, WaitInv, ProcTypeOK, CpuInv, CpuOf, ThreadInv, ThreadOf,
        FamilyInv, ForkInv, ZombiesHaveReaper, Children, ZombieChildren
  <1>23. ASSUME NEW c \in Cpus, sleep_return(c) PROVE WaitInv'
    BY <1>23, Names
    DEF sleep_return, Running, release, popcli, WaitInv, ProcTypeOK, CpuInv, CpuOf, ThreadInv,
        ThreadOf, FamilyInv, ForkInv, ZombiesHaveReaper, Children, ZombieChildren, clockVars,
        cpuVars
  <1>24. ASSUME NEW c \in Cpus, sleep_reacquire(c) PROVE WaitInv'
    BY <1>24, Names
    DEF sleep_reacquire, Running, acquire, pushcli, WaitInv, ProcTypeOK, CpuInv, CpuOf, ThreadInv,
        ThreadOf, FamilyInv, ForkInv, ZombiesHaveReaper, Children, ZombieChildren, tableVars,
        cpuVars
  <1>25. ASSUME NEW c \in Cpus, NEW call \in Calls, syscall(c, call) PROVE WaitInv'
    BY <1>25, Names
    DEF syscall, Running, WaitInv, ProcTypeOK, CpuInv, CpuOf, ThreadInv, ThreadOf, FamilyInv,
        ForkInv, ZombiesHaveReaper, Children, ZombieChildren, tableVars, clockVars, cpuVars, cliVars
  <1>26. ASSUME NEW c \in Cpus, NEW k \in KillPids, kill(c, k) PROVE WaitInv'
    BY <1>26, Names
    DEF kill, Running, pushpopcli, Return, WaitInv, ProcTypeOK, CpuInv, CpuOf, ThreadInv, ThreadOf,
        FamilyInv, ForkInv, ZombiesHaveReaper, Children, ZombieChildren, clockVars, cpuVars
  <1> QED
    BY <1>1, <1>2, <1>3, <1>4, <1>5, <1>6, <1>7, <1>8, <1>9, <1>10, <1>11, <1>12, <1>13, <1>14,
       <1>15, <1>16, <1>17, <1>18, <1>19, <1>20, <1>21, <1>22, <1>23, <1>24, <1>25, <1>26
    DEF ProcNext, Scheduling, Clock, Forking, Waiting, Sleeping

-----------------------------------------------------------------------------
\* Between its test of ticks and its sleep a process holds tickslock.
LEMMA SleepingHoldsTicks ==
  ASSUME ProcTypeOK, LockInv, CpuInv, ThreadInv, NEW p \in Slots, pc[p] = "sleeping"
  PROVE  tickslock # None
  <1>1. ~Resumes(p) /\ p # NoProc
    BY Names DEF Resumes, ThreadInv, ThreadOf, Interruptible
  <1>2. PICK c \in Cpus : proc[c] = p
    BY <1>1 DEF ThreadInv, ThreadOf, CpuInv, CpuOf, ProcTypeOK, States
  <1>3. at[c] = "run"
    <2>1. state[p] = "RUNNING"
      BY <1>1 DEF ThreadInv, ThreadOf, ProcTypeOK, States
    <2> QED
      BY <1>1, <1>2, <2>1 DEF CpuInv, CpuOf, Interruptible, ProcTypeOK, Places
  <1> QED
    BY <1>2, <1>3, Names DEF LockInv, HoldsTicks

\* Every step keeps TickInv: no tick is counted between the test and the sleep.
LEMMA TickStep ==
  ASSUME ProcTypeOK, ProcTypeOK', LockInv, CpuInv, ThreadInv, ForkInv, TickInv, ProcNext
  PROVE  TickInv'
  <1>1. ASSUME NEW c \in Cpus, scheduler(c) PROVE TickInv'
    BY <1>1, Names
    DEF scheduler, acquire, pushcli, TickInv, ProcTypeOK, LockInv, HoldsTicks, CpuInv, CpuOf,
        ThreadInv, ThreadOf, ForkInv, Expired, tableVars, threadVars, clockVars
  <1>2. ASSUME NEW c \in Cpus, scheduler_run(c) PROVE TickInv'
    BY <1>2, Names
    DEF scheduler_run, Runnable, TickInv, ProcTypeOK, LockInv, HoldsTicks, CpuInv, CpuOf, ThreadInv,
        ThreadOf, ForkInv, Expired, threadVars, clockVars, cliVars
  <1>3. ASSUME NEW c \in Cpus, scheduler_release(c) PROVE TickInv'
    BY <1>3, Names
    DEF scheduler_release, release, popcli, TickInv, ProcTypeOK, LockInv, HoldsTicks, CpuInv, CpuOf,
        ThreadInv, ThreadOf, ForkInv, Expired, tableVars, threadVars, clockVars
  <1>4. ASSUME NEW c \in Cpus, swtch(c) PROVE TickInv'
    BY <1>4, Names
    DEF swtch, TickInv, ProcTypeOK, LockInv, HoldsTicks, CpuInv, CpuOf, ThreadInv, ThreadOf, ForkInv,
        Expired, tableVars, threadVars, clockVars, cliVars
  <1>5. ASSUME NEW c \in Cpus, forkret(c) PROVE TickInv'
    BY <1>5, Names
    DEF forkret, Running, release, popcli, TickInv, ProcTypeOK, LockInv, HoldsTicks, CpuInv, CpuOf,
        ThreadInv, ThreadOf, ForkInv, Expired, tableVars, clockVars, cpuVars
  <1>6. ASSUME NEW c \in Cpus, timer(c) PROVE TickInv'
    BY <1>6, Names
    DEF timer, TickInv, ProcTypeOK, LockInv, HoldsTicks, CpuInv, CpuOf, ThreadInv, ThreadOf, ForkInv,
        Expired, tableVars, threadVars, clockVars
  <1>7. ASSUME NEW c \in Cpus, tick(c) PROVE TickInv'
    <2>1. at'[c] = "tick" /\ UNCHANGED <<state, chan, pc>>
      BY <1>7 DEF tick, tableVars, threadVars, ProcTypeOK
    <2>2. \A p \in Slots : pc[p] # "sleeping"
      BY <1>7, SleepingHoldsTicks DEF tick, acquire
    <2> QED
      BY <2>1, <2>2 DEF TickInv
  <1>8. ASSUME NEW c \in Cpus, wakeup_ticks(c) PROVE TickInv'
    BY <1>8, Names
    DEF wakeup_ticks, Woken, release, popcli, TickInv, ProcTypeOK, LockInv, HoldsTicks, CpuInv,
        CpuOf, ThreadInv, ThreadOf, ForkInv, Expired, threadVars
  <1>9. ASSUME NEW c \in Cpus, intr_idle(c) PROVE TickInv'
    BY <1>9, Names
    DEF intr_idle, TickInv, ProcTypeOK, LockInv, HoldsTicks, CpuInv, CpuOf, ThreadInv, ThreadOf,
        ForkInv, Expired, tableVars, threadVars, clockVars
  <1>10. ASSUME NEW c \in Cpus, intr_killed(c) PROVE TickInv'
    BY <1>10, Names
    DEF intr_killed, TickInv, ProcTypeOK, LockInv, HoldsTicks, CpuInv, CpuOf, ThreadInv, ThreadOf,
        ForkInv, Expired, tableVars, clockVars, cliVars
  <1>11. ASSUME NEW c \in Cpus, yield(c) PROVE TickInv'
    BY <1>11, Names
    DEF yield, acquire, pushcli, sched, TickInv, ProcTypeOK, LockInv, HoldsTicks, CpuInv, CpuOf,
        ThreadInv, ThreadOf, ForkInv, Expired, clockVars
  <1>12. ASSUME NEW c \in Cpus, yield_return(c) PROVE TickInv'
    BY <1>12, Names
    DEF yield_return, release, popcli, TickInv, ProcTypeOK, LockInv, HoldsTicks, CpuInv, CpuOf,
        ThreadInv, ThreadOf, ForkInv, Expired, tableVars, clockVars, cpuVars
  <1>13. ASSUME NEW c \in Cpus, allocproc(c) PROVE TickInv'
    <2>1. UNCHANGED <<chan, ticks, ticks0, at>>
      BY <1>13 DEF allocproc, clockVars, cpuVars
    <2>2. \A p \in Slots : state'[p] = "SLEEPING" => state[p] = "SLEEPING"
      BY <1>13 DEF allocproc, Unused, ProcTypeOK
    <2>3. \A p \in Slots : pc'[p] = "sleeping" => pc[p] = "sleeping"
      BY <1>13 DEF allocproc, Return, ProcTypeOK
    <2> QED
      BY <2>1, <2>2, <2>3 DEF TickInv, Expired
  <1>14. ASSUME NEW c \in Cpus, fork_fails(c) PROVE TickInv'
    BY <1>14, Names
    DEF fork_fails, Running, Return, TickInv, ProcTypeOK, LockInv, HoldsTicks, CpuInv, CpuOf,
        ThreadInv, ThreadOf, ForkInv, Expired, clockVars, cpuVars, cliVars
  <1>15. ASSUME NEW c \in Cpus, fork(c) PROVE TickInv'
    BY <1>15, Names
    DEF fork, Running, pushpopcli, Return, TickInv, ProcTypeOK, LockInv, HoldsTicks, CpuInv, CpuOf,
        ThreadInv, ThreadOf, ForkInv, Expired, clockVars, cpuVars
  <1>16. ASSUME NEW c \in Cpus, exit(c) PROVE TickInv'
    <2>1. proc[c] \in Slots /\ at[c] = "run"
      BY <1>16, OnCpu DEF exit, Running
    <2>2. /\ UNCHANGED <<pc, chan, ticks, ticks0>> /\ at' = [at EXCEPT ![c] = "swtch"]
          /\ \A p \in Slots : state'[p] = "SLEEPING" => state[p] = "SLEEPING"
      BY <1>16, <2>1 DEF exit, Woken, sched, clockVars, ProcTypeOK
    <2> QED
      BY <2>1, <2>2 DEF TickInv, Expired, ProcTypeOK
  <1>17. ASSUME NEW c \in Cpus, wait_found(c) PROVE TickInv'
    BY <1>17, Names
    DEF wait_found, InWait, Running, wait_release, release, popcli, pushpopcli, Return, TickInv,
        ProcTypeOK, LockInv, HoldsTicks, CpuInv, CpuOf, ThreadInv, ThreadOf, ForkInv, Expired,
        clockVars, cpuVars
  <1>18. ASSUME NEW c \in Cpus, wait_fails(c) PROVE TickInv'
    BY <1>18, Names
    DEF wait_fails, InWait, Running, wait_release, release, popcli, pushpopcli, Return, TickInv,
        ProcTypeOK, LockInv, HoldsTicks, CpuInv, CpuOf, ThreadInv, ThreadOf, ForkInv, Expired,
        clockVars, cpuVars
  <1>19. ASSUME NEW c \in Cpus, wait_sleep(c) PROVE TickInv'
    BY <1>19, Names
    DEF wait_sleep, InWait, Running, pushcli, sched, TickInv, ProcTypeOK, LockInv, HoldsTicks,
        CpuInv, CpuOf, ThreadInv, ThreadOf, ForkInv, Expired, clockVars
  <1>20. ASSUME NEW c \in Cpus, sys_sleep(c) PROVE TickInv'
    BY <1>20, Names
    DEF sys_sleep, Running, acquire, pushcli, TickInv, ProcTypeOK, LockInv, HoldsTicks, CpuInv,
        CpuOf, ThreadInv, ThreadOf, ForkInv, Expired, tableVars, cpuVars
  <1>21. ASSUME NEW c \in Cpus, sys_sleep_test(c) PROVE TickInv'
    BY <1>21, Names
    DEF sys_sleep_test, Running, popcli, Return, TickInv, ProcTypeOK, LockInv, HoldsTicks, CpuInv,
        CpuOf, ThreadInv, ThreadOf, ForkInv, Expired, tableVars, cpuVars, cliVars
  <1>22. ASSUME NEW c \in Cpus, sleep(c) PROVE TickInv'
    BY <1>22, Names
    DEF sleep, Running, pushpopcli, sched, TickInv, ProcTypeOK, LockInv, HoldsTicks, CpuInv, CpuOf,
        ThreadInv, ThreadOf, ForkInv, Expired
  <1>23. ASSUME NEW c \in Cpus, sleep_return(c) PROVE TickInv'
    BY <1>23, Names
    DEF sleep_return, Running, release, popcli, TickInv, ProcTypeOK, LockInv, HoldsTicks, CpuInv,
        CpuOf, ThreadInv, ThreadOf, ForkInv, Expired, clockVars, cpuVars
  <1>24. ASSUME NEW c \in Cpus, sleep_reacquire(c) PROVE TickInv'
    BY <1>24, Names
    DEF sleep_reacquire, Running, acquire, pushcli, TickInv, ProcTypeOK, LockInv, HoldsTicks, CpuInv,
        CpuOf, ThreadInv, ThreadOf, ForkInv, Expired, tableVars, cpuVars
  <1>25. ASSUME NEW c \in Cpus, NEW call \in Calls, syscall(c, call) PROVE TickInv'
    <2>1. proc[c] \in Slots
      BY <1>25, OnCpu DEF syscall, Running
    <2>2. /\ UNCHANGED <<state, chan, ticks, ticks0, at>>
          /\ \A p \in Slots : pc'[p] = "sleeping" => pc[p] = "sleeping"
      BY <1>25, <2>1 DEF syscall, Calls, tableVars, clockVars, cpuVars, ProcTypeOK
    <2> QED
      BY <2>2 DEF TickInv, Expired
  <1>26. ASSUME NEW c \in Cpus, NEW k \in KillPids, kill(c, k) PROVE TickInv'
    BY <1>26, Names
    DEF kill, Running, pushpopcli, Return, TickInv, ProcTypeOK, LockInv, HoldsTicks, CpuInv, CpuOf,
        ThreadInv, ThreadOf, ForkInv, Expired, clockVars, cpuVars
  <1> QED
    BY <1>1, <1>2, <1>3, <1>4, <1>5, <1>6, <1>7, <1>8, <1>9, <1>10, <1>11, <1>12, <1>13, <1>14,
       <1>15, <1>16, <1>17, <1>18, <1>19, <1>20, <1>21, <1>22, <1>23, <1>24, <1>25, <1>26
    DEF ProcNext, Scheduling, Clock, Forking, Waiting, Sleeping

-----------------------------------------------------------------------------
(* Theorems *)

\* The inductive invariant of the processes: every step of every CPU keeps it.
THEOREM ProcInductive == ProcSpec => []ProcInv
<1>1. ProcInit => ProcInv
  <2> SUFFICES ASSUME ProcInit PROVE ProcInv
    OBVIOUS
  <2>1. ProcTypeOK
    BY Names DEF ProcInit, ProcTypeOK, States, Points, Interruptible, Places
  <2>2. LockInv /\ FlagInv /\ CpuInv /\ ThreadInv
    BY <2>1, Names DEF ProcInit, ProcTypeOK, LockInv, HoldsPtable, HoldsTicks, FlagInv, FlagOf,
                       CpuInv, CpuOf, ThreadInv, ThreadOf, Resumes
  <2>3. ForkInv /\ FamilyInv /\ ZombiesHaveReaper
    BY Names DEF ProcInit, ForkInv, FamilyInv, ZombiesHaveReaper
  <2>4. WaitInv /\ TickInv
    BY DEF ProcInit, WaitInv, TickInv
  <2> QED
    BY <2>1, <2>2, <2>3, <2>4 DEF ProcInv
<1>2. ProcInv /\ [ProcNext]_procVars => ProcInv'
  <2>1. ASSUME ProcInv, ProcNext PROVE ProcInv'
    <3> USE <2>1 DEF ProcInv
    <3>1. ProcTypeOK'
      BY TypeStep
    <3>2. LockInv'
      BY <3>1, LockStep
    <3>3. FlagInv' /\ CpuInv' /\ ThreadInv' /\ ForkInv' /\ FamilyInv'
      BY <3>1, <3>2, FlagStep, CpuStep, ThreadStep, ForkStep, FamilyStep
    <3>4. ZombiesHaveReaper' /\ WaitInv' /\ TickInv'
      BY <3>1, <3>3, ReaperStep, WaitStep, TickStep
    <3> QED
      BY <3>1, <3>2, <3>3, <3>4
  <2>2. ASSUME ProcInv, UNCHANGED procVars PROVE ProcInv'
    BY <2>2 DEF procVars, tableVars, threadVars, clockVars, cpuVars, cliVars, ProcInv, ProcTypeOK,
                LockInv, HoldsPtable, HoldsTicks, Resumes, FlagInv, FlagOf, CpuInv, CpuOf, ThreadInv,
                ThreadOf,
                ForkInv, FamilyInv, ZombiesHaveReaper, WaitInv, TickInv, Children, ZombieChildren,
                Expired
  <2> QED
    BY <2>1, <2>2
<1> QED
  BY <1>1, <1>2, PTL DEF ProcSpec

\* No two CPUs run on one kernel stack, none runs on that of a free slot, and
\* the table says who is running whenever its lock is free.
THEOREM OneCpuPerStack == ProcSpec => []StackOnOneCpu
<1>1. ProcInv => StackOnOneCpu
  <2> SUFFICES ASSUME ProcInv PROVE StackOnOneCpu
    OBVIOUS
  <2>1. \A c \in Cpus : proc[c] # NoProc => state[proc[c]] \notin {"UNUSED", "EMBRYO"}
    BY DEF ProcInv, CpuInv, CpuOf
  <2>2. ASSUME ptlock = None, NEW p \in Slots, NEW c \in Cpus, proc[c] = p PROVE state[p] = "RUNNING"
    BY <2>2, Names DEF ProcInv, CpuInv, CpuOf, LockInv, HoldsPtable
  <2> QED
    BY <2>1, <2>2 DEF ProcInv, CpuInv, StackOnOneCpu
<1> QED
  BY <1>1, ProcInductive, PTL

\* The panics of sched cannot happen, and interrupts are never left disabled.
THEOREM SchedCannotPanic == ProcSpec => []SchedPreconditions
<1>1. ProcInv => SchedPreconditions
  BY
  DEF ProcInv, ProcTypeOK, LockInv, HoldsPtable, HoldsTicks, FlagInv, FlagOf, CpuInv, CpuOf,
      SchedPreconditions
<1> QED
  BY <1>1, ProcInductive, PTL

\* No process sleeps in wait or in sys_sleep for what has already happened.
THEOREM NoWakeupLost == ProcSpec => []NoLostWakeup
<1>1. ProcInv => NoLostWakeup
  <2> SUFFICES ASSUME ProcInv, NEW p \in Slots, state[p] = "SLEEPING"
               PROVE  /\ chan[p] = p /\ ptlock = None =>
                           Children(p) # {} /\ ZombieChildren(p) = {} /\ ~killed[p]
                      /\ chan[p] = TicksChan /\ tickslock = None => ~Expired(p)
    BY DEF NoLostWakeup
  <2>1. ASSUME tickslock = None, NEW c \in Cpus PROVE at[c] # "tick"
    BY <2>1, Names DEF ProcInv, LockInv, HoldsTicks
  <2> QED
    BY <2>1 DEF ProcInv, WaitInv, TickInv
<1> QED
  BY <1>1, ProcInductive, PTL

\* Every process keeps a live parent that can collect it.
THEOREM EveryProcessHasReaper == ProcSpec => []ZombiesHaveReaper
<1>1. ProcInv => ZombiesHaveReaper
  BY DEF ProcInv
<1> QED
  BY <1>1, ProcInductive, PTL

=============================================================================
