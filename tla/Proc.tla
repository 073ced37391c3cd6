-------------------------------- MODULE Proc --------------------------------
(***************************************************************************)
(* Processes of the xv6 kernel: proc.c, the spin locks of spinlock.c with    *)
(* their nesting of cli, the traps of trap.c and the calls of sysproc.c.      *)
(* Several CPUs run the scheduler and the kernel side of processes; ptable    *)
(* lock is passed from a process to the scheduler of its CPU and on to the    *)
(* next process.                                                            *)
(*                                                                         *)
(* A step is what a CPU does between two points where another CPU, or an     *)
(* interrupt on the same CPU, can see a difference.  A critical section of   *)
(* ptable.lock that does not switch is one step.                            *)
(***************************************************************************)
EXTENDS Integers, FiniteSets

CONSTANTS
  NPROC, NCPU,   \* sizes of ptable.proc and cpus
  MaxPid,        \* bound on nextpid
  MaxTicks,      \* bound on the ticks counted
  KillPids,      \* the numbers programs pass to kill
  SleepTicks     \* the number programs pass to sleep

Slots == 1 .. NPROC
Cpus == 0 .. NCPU - 1
initproc == 1
None == -1          \* a free lock
NoProc == 0         \* a null struct proc pointer
TicksChan == -2     \* the address &ticks; a process sleeps in wait on its own

\* init is never killed: its exit is a panic of its own (proc.c:236).
ASSUME ProcAssumption ==
  /\ NPROC \in Nat \ {0} /\ NCPU \in Nat \ {0}
  /\ MaxPid \in Nat /\ MaxTicks \in Nat /\ SleepTicks \in Nat
  /\ KillPids \subseteq Nat \ {1}

VARIABLES
  state, pid, parent, killed, chan,   \* fields of struct proc
  pc,          \* where the kernel thread of the process is
  yielded,     \* it was interrupted there and has yielded
  np,          \* local variable of fork: the slot allocated
  ticks0,      \* local variable of sys_sleep
  saved,       \* local variable intena of sched
  nextpid, ticks,
  ptlock, tickslock,   \* the CPU that holds the lock, or None
  proc,        \* cpu->proc
  at,          \* what the CPU executes
  scan,        \* p of scheduler
  ncli, intena,        \* fields of struct cpu
  fl_if        \* interrupts are enabled on the CPU

tableVars == <<state, pid, parent, killed, chan, nextpid>>
threadVars == <<pc, yielded, np, ticks0, saved>>
clockVars == <<ticks, tickslock>>
cpuVars == <<proc, at, scan>>
cliVars == <<ncli, intena, fl_if>>
procVars == <<tableVars, threadVars, clockVars, ptlock, cpuVars, cliVars>>

States == {"UNUSED", "EMBRYO", "SLEEPING", "RUNNABLE", "RUNNING", "ZOMBIE"}
Calls == {"fork", "wait", "kill", "sleep", "exit"}

\* userinit has made the first process, every CPU has entered scheduler.
ProcInit ==
  /\ state = [p \in Slots |-> IF p = initproc THEN "RUNNABLE" ELSE "UNUSED"]
  /\ pid = [p \in Slots |-> IF p = initproc THEN 1 ELSE 0]
  /\ parent = [p \in Slots |-> NoProc]
  /\ killed = [p \in Slots |-> FALSE]
  /\ chan = [p \in Slots |-> NoProc]
  /\ pc = [p \in Slots |-> "forkret"]
  /\ yielded = [p \in Slots |-> FALSE]
  /\ np = [p \in Slots |-> NoProc]
  /\ ticks0 = [p \in Slots |-> 0]
  /\ saved = [p \in Slots |-> FALSE]
  /\ nextpid = 2 /\ ticks = 0
  /\ ptlock = None /\ tickslock = None
  /\ proc = [c \in Cpus |-> NoProc]
  /\ at = [c \in Cpus |-> "idle"]
  /\ scan = [c \in Cpus |-> 1]
  /\ ncli = [c \in Cpus |-> 0]
  /\ intena = [c \in Cpus |-> FALSE]
  /\ fl_if = [c \in Cpus |-> TRUE]

-----------------------------------------------------------------------------
(* spinlock.c *)

\* The outermost pushcli records whether interrupts were enabled.
pushcli(c) ==
  /\ intena' = IF ncli[c] = 0 THEN [intena EXCEPT ![c] = fl_if[c]] ELSE intena
  /\ ncli' = [ncli EXCEPT ![c] = @ + 1]
  /\ fl_if' = [fl_if EXCEPT ![c] = FALSE]

\* popcli by a thread whose intena is old; flag: an sti or an iret follows in
\* the same step.
popcli(c, old, flag) ==
  /\ ncli' = [ncli EXCEPT ![c] = @ - 1]
  /\ intena' = [intena EXCEPT ![c] = old]
  /\ fl_if' = [fl_if EXCEPT ![c] = flag \/ (ncli[c] = 1 /\ old)]

\* A lock is acquired and released within the step.
pushpopcli(c) ==
  /\ intena' = IF ncli[c] = 0 THEN [intena EXCEPT ![c] = fl_if[c]] ELSE intena
  /\ UNCHANGED <<ncli, fl_if>>

\* A lock that is free is taken, interrupts disabled first.
acquire(lk, c) == lk = None /\ lk' = c /\ pushcli(c)

\* A lock is given back by its holder.
release(lk, c, old, flag) == lk = c /\ lk' = None /\ popcli(c, old, flag)

-----------------------------------------------------------------------------
(* scheduler, sched and the ways into and out of them *)

\* The top of the loop: sti, then acquire(&ptable.lock).
scheduler(c) ==
  /\ at[c] = "idle"
  /\ acquire(ptlock, c)
  /\ scan' = [scan EXCEPT ![c] = 1]
  /\ at' = [at EXCEPT ![c] = "scan"]
  /\ UNCHANGED <<tableVars, threadVars, clockVars, proc>>

Runnable(c) == {p \in Slots : p >= scan[c] /\ state[p] = "RUNNABLE"}

\* The next process of the table that can run is switched to, the lock held.
scheduler_run(c) ==
  /\ at[c] = "scan"
  /\ \E p \in Runnable(c) :
       /\ \A q \in Runnable(c) : p <= q
       /\ proc' = [proc EXCEPT ![c] = p]
       /\ state' = [state EXCEPT ![p] = "RUNNING"]
       /\ scan' = [scan EXCEPT ![c] = p + 1]
  /\ at' = [at EXCEPT ![c] = "run"]
  /\ UNCHANGED <<pid, parent, killed, chan, nextpid, threadVars, clockVars, ptlock, cliVars>>

\* The end of the table: release, and sti at the top of the loop.
scheduler_release(c) ==
  /\ at[c] = "scan"
  /\ Runnable(c) = {}
  /\ release(ptlock, c, intena[c], TRUE)
  /\ at' = [at EXCEPT ![c] = "idle"]
  /\ UNCHANGED <<tableVars, threadVars, clockVars, proc, scan>>

\* Back in the scheduler, which goes on with the table.
swtch(c) ==
  /\ at[c] = "swtch"
  /\ proc' = [proc EXCEPT ![c] = NoProc]
  /\ at' = [at EXCEPT ![c] = "scan"]
  /\ UNCHANGED <<tableVars, threadVars, clockVars, ptlock, scan, cliVars>>

\* sched, called with the new state set: intena is kept for the return.
sched(c) ==
  /\ saved' = [saved EXCEPT ![proc[c]] = intena'[c]]
  /\ at' = [at EXCEPT ![c] = "swtch"]
  /\ UNCHANGED <<proc, scan>>

Running(c, where) == at[c] = "run" /\ pc[proc[c]] = where /\ ~yielded[proc[c]]

\* The end of trap: a killed process does not return to user space.
Return(p) == IF killed'[p] THEN "exit" ELSE "user"

\* A process that runs for the first time.
forkret(c) ==
  /\ Running(c, "forkret")
  /\ release(ptlock, c, intena[c], TRUE)
  /\ pc' = [pc EXCEPT ![proc[c]] = "user"]
  /\ UNCHANGED <<tableVars, yielded, np, ticks0, saved, clockVars, cpuVars>>

-----------------------------------------------------------------------------
(* trap: system calls and the clock *)

\* A system call; a process killed before it exits instead.  init only forks
\* and waits.
syscall(c, call) ==
  /\ Running(c, "user")
  /\ proc[c] = initproc => call \in {"fork", "wait"}
  /\ pc' = [pc EXCEPT ![proc[c]] = IF killed[proc[c]] THEN "exit" ELSE call]
  /\ UNCHANGED <<tableVars, yielded, np, ticks0, saved, clockVars, ptlock, cpuVars, cliVars>>

\* The timer interrupts the scheduler or a process; CPU 0 counts the ticks.
timer(c) ==
  /\ fl_if[c]
  /\ at[c] \in {"idle", "run"}
  /\ fl_if' = [fl_if EXCEPT ![c] = FALSE]
  /\ at' = [at EXCEPT ![c] = IF c = 0 /\ ticks < MaxTicks THEN "irq" ELSE "intr"]
  /\ UNCHANGED <<tableVars, threadVars, clockVars, ptlock, proc, scan, ncli, intena>>

tick(c) ==
  /\ at[c] = "irq"
  /\ acquire(tickslock, c)
  /\ ticks' = ticks + 1
  /\ at' = [at EXCEPT ![c] = "tick"]
  /\ UNCHANGED <<tableVars, threadVars, ptlock, proc, scan>>

Woken(ch, s) == [p \in Slots |-> IF s[p] = "SLEEPING" /\ chan[p] = ch THEN "RUNNABLE" ELSE s[p]]

wakeup_ticks(c) ==
  /\ at[c] = "tick"
  /\ ptlock = None
  /\ state' = Woken(TicksChan, state)
  /\ release(tickslock, c, intena[c], FALSE)
  /\ at' = [at EXCEPT ![c] = "intr"]
  /\ UNCHANGED <<pid, parent, killed, chan, nextpid, threadVars, ticks, ptlock, proc, scan>>

\* The scheduler was interrupted: iret.
intr_idle(c) ==
  /\ at[c] = "intr"
  /\ proc[c] = NoProc
  /\ at' = [at EXCEPT ![c] = "idle"]
  /\ fl_if' = [fl_if EXCEPT ![c] = TRUE]
  /\ UNCHANGED <<tableVars, threadVars, clockVars, ptlock, proc, scan, ncli, intena>>

\* A process killed in user space exits, interrupts still disabled.
intr_killed(c) ==
  /\ at[c] = "intr"
  /\ proc[c] # NoProc
  /\ pc[proc[c]] = "user" /\ killed[proc[c]]
  /\ pc' = [pc EXCEPT ![proc[c]] = "exit"]
  /\ at' = [at EXCEPT ![c] = "run"]
  /\ UNCHANGED <<tableVars, yielded, np, ticks0, saved, clockVars, ptlock, proc, scan, cliVars>>

\* Mutant of yield: the lock is released before the switch.
yield_Unlocked(c) ==
  /\ at[c] = "intr"
  /\ proc[c] # NoProc
  /\ ~(pc[proc[c]] = "user" /\ killed[proc[c]])
  /\ ptlock = None
  /\ pushcli(c)
  /\ state' = [state EXCEPT ![proc[c]] = "RUNNABLE"]
  /\ yielded' = [yielded EXCEPT ![proc[c]] = TRUE]
  /\ sched(c)
  /\ UNCHANGED <<ptlock, pid, parent, killed, chan, nextpid, pc, np, ticks0, clockVars>>

\* Every other process gives up its CPU.
yield(c) ==
  /\ at[c] = "intr"
  /\ proc[c] # NoProc
  /\ ~(pc[proc[c]] = "user" /\ killed[proc[c]])
  /\ acquire(ptlock, c)
  /\ state' = [state EXCEPT ![proc[c]] = "RUNNABLE"]
  /\ yielded' = [yielded EXCEPT ![proc[c]] = TRUE]
  /\ sched(c)
  /\ UNCHANGED <<pid, parent, killed, chan, nextpid, pc, np, ticks0, clockVars>>

\* Back from yield: release, the second test of killed, iret.
yield_return(c) ==
  /\ at[c] = "run"
  /\ yielded[proc[c]]
  /\ yielded' = [yielded EXCEPT ![proc[c]] = FALSE]
  /\ LET dies == pc[proc[c]] = "user" /\ killed[proc[c]] IN
       /\ pc' = IF dies THEN [pc EXCEPT ![proc[c]] = "exit"] ELSE pc
       /\ release(ptlock, c, saved[proc[c]], ~dies)
  /\ UNCHANGED <<tableVars, np, ticks0, saved, clockVars, cpuVars>>

-----------------------------------------------------------------------------
(* fork, exit, wait, kill *)

Unused == {p \in Slots : state[p] = "UNUSED"}

\* allocproc; without a free slot fork fails.
allocproc(c) ==
  /\ Running(c, "fork")
  /\ ptlock = None /\ pushpopcli(c)
  /\ IF Unused # {} /\ nextpid <= MaxPid
       THEN \E s \in Unused :
              /\ \A q \in Unused : s <= q
              /\ state' = [state EXCEPT ![s] = "EMBRYO"]
              /\ pid' = [pid EXCEPT ![s] = nextpid]
              /\ nextpid' = nextpid + 1
              /\ np' = [np EXCEPT ![proc[c]] = s]
              /\ pc' = [pc EXCEPT ![proc[c]] = "copyuvm"]
              /\ UNCHANGED killed
       ELSE /\ UNCHANGED <<state, pid, nextpid, np, killed>>
            /\ pc' = [pc EXCEPT ![proc[c]] = Return(proc[c])]
  /\ UNCHANGED <<parent, chan, yielded, ticks0, saved, clockVars, ptlock, cpuVars>>

\* No memory for the stack or the copy: the slot is given back, its pid and
\* killed left as they are.
fork_fails(c) ==
  /\ Running(c, "copyuvm")
  /\ state' = [state EXCEPT ![np[proc[c]]] = "UNUSED"]
  /\ np' = [np EXCEPT ![proc[c]] = NoProc]
  /\ UNCHANGED killed
  /\ pc' = [pc EXCEPT ![proc[c]] = Return(proc[c])]
  /\ UNCHANGED <<pid, parent, chan, nextpid, yielded, ticks0, saved, clockVars, ptlock, cpuVars, cliVars>>

\* The copy of the process, then the child is made runnable.
fork(c) ==
  /\ Running(c, "copyuvm")
  /\ ptlock = None /\ pushpopcli(c)
  /\ LET p == proc[c]  s == np[proc[c]] IN
       /\ parent' = [parent EXCEPT ![s] = p]
       /\ state' = [state EXCEPT ![s] = "RUNNABLE"]
       /\ UNCHANGED killed
       /\ pc' = [pc EXCEPT ![p] = Return(p), ![s] = "forkret"]
       /\ np' = [np EXCEPT ![p] = NoProc]
  /\ UNCHANGED <<pid, chan, nextpid, yielded, ticks0, saved, clockVars, ptlock, cpuVars>>

Children(p) == {q \in Slots : parent[q] = p}

\* Mutant of exit: abandoned children keep their parent.
exit_KeepsChildren(c) ==
  /\ Running(c, "exit")
  /\ acquire(ptlock, c)
  /\ state' = [Woken(parent[proc[c]], state) EXCEPT ![proc[c]] = "ZOMBIE"]
  /\ UNCHANGED parent
  /\ sched(c)
  /\ UNCHANGED <<pid, killed, chan, nextpid, pc, yielded, np, ticks0, clockVars>>

\* The parent is woken, the children go to init, which is woken for those that
\* are zombies, and the process is a zombie before the lock is given away.
exit(c) ==
  /\ Running(c, "exit")
  /\ acquire(ptlock, c)
  /\ LET p == proc[c]
         s == Woken(parent[p], state)
         t == IF \E q \in Children(p) : s[q] = "ZOMBIE" THEN Woken(initproc, s) ELSE s
     IN  /\ state' = [t EXCEPT ![p] = "ZOMBIE"]
         /\ parent' = [q \in Slots |-> IF q \in Children(p) THEN initproc ELSE parent[q]]
  /\ sched(c)
  /\ UNCHANGED <<pid, killed, chan, nextpid, pc, yielded, np, ticks0, clockVars>>

\* wait holds the lock when it comes back from sleep and takes it otherwise.
InWait(c) == Running(c, "wait") /\ (ptlock = c \/ ptlock = None)

ZombieChildren(p) == {q \in Children(p) : state[q] = "ZOMBIE"}

\* The scan of wait is over: the lock is released, or was taken and released.
wait_release(c) ==
  IF ptlock = c THEN release(ptlock, c, saved[proc[c]], FALSE)
                ELSE UNCHANGED ptlock /\ pushpopcli(c)

\* The first zombie child is collected and its slot cleared.
wait_found(c) ==
  /\ InWait(c)
  /\ \E q \in ZombieChildren(proc[c]) :
       /\ \A r \in ZombieChildren(proc[c]) : q <= r
       /\ state' = [state EXCEPT ![q] = "UNUSED"]
       /\ pid' = [pid EXCEPT ![q] = 0]
       /\ parent' = [parent EXCEPT ![q] = NoProc]
       /\ killed' = [killed EXCEPT ![q] = FALSE]
  /\ chan' = [chan EXCEPT ![proc[c]] = NoProc]
  /\ wait_release(c)
  /\ pc' = [pc EXCEPT ![proc[c]] = Return(proc[c])]
  /\ UNCHANGED <<nextpid, yielded, np, ticks0, saved, clockVars, cpuVars>>

\* No children, or killed: -1.
wait_fails(c) ==
  /\ InWait(c)
  /\ ZombieChildren(proc[c]) = {}
  /\ Children(proc[c]) = {} \/ killed[proc[c]]
  /\ chan' = [chan EXCEPT ![proc[c]] = NoProc]
  /\ wait_release(c)
  /\ UNCHANGED <<state, pid, parent, killed, nextpid>>
  /\ pc' = [pc EXCEPT ![proc[c]] = Return(proc[c])]
  /\ UNCHANGED <<yielded, np, ticks0, saved, clockVars, cpuVars>>

\* Children, none of them a zombie: sleep on the own struct proc.
wait_sleep(c) ==
  /\ InWait(c)
  /\ ZombieChildren(proc[c]) = {}
  /\ Children(proc[c]) # {} /\ ~killed[proc[c]]
  /\ ptlock' = c
  /\ IF ptlock = c THEN intena' = [intena EXCEPT ![c] = saved[proc[c]]] /\ UNCHANGED <<ncli, fl_if>>
                   ELSE pushcli(c)
  /\ chan' = [chan EXCEPT ![proc[c]] = proc[c]]
  /\ state' = [state EXCEPT ![proc[c]] = "SLEEPING"]
  /\ sched(c)
  /\ UNCHANGED <<pid, parent, killed, nextpid, pc, yielded, np, ticks0, clockVars>>

\* Mutant of kill: a sleeping process is not woken.
kill_NoWakeup(c, k) ==
  /\ Running(c, "kill")
  /\ ptlock = None /\ pushpopcli(c)
  /\ LET hit == {p \in Slots : pid[p] = k /\ \A q \in Slots : q < p => pid[q] # k} IN
       /\ killed' = [p \in Slots |-> killed[p] \/ p \in hit]
       /\ UNCHANGED state
  /\ pc' = [pc EXCEPT ![proc[c]] = Return(proc[c])]
  /\ UNCHANGED <<pid, parent, chan, nextpid, yielded, np, ticks0, saved, clockVars, ptlock, cpuVars>>

\* The first slot with that pid, whatever its state.
kill(c, k) ==
  /\ Running(c, "kill")
  /\ ptlock = None /\ pushpopcli(c)
  /\ LET hit == {p \in Slots : pid[p] = k /\ \A q \in Slots : q < p => pid[q] # k} IN
       /\ killed' = [p \in Slots |-> killed[p] \/ p \in hit]
       /\ state' = [p \in Slots |-> IF p \in hit /\ state[p] = "SLEEPING" THEN "RUNNABLE" ELSE state[p]]
  /\ pc' = [pc EXCEPT ![proc[c]] = Return(proc[c])]
  /\ UNCHANGED <<pid, parent, chan, nextpid, yielded, np, ticks0, saved, clockVars, ptlock, cpuVars>>

-----------------------------------------------------------------------------
(* sys_sleep, the caller of sleep with a lock of its own *)

sys_sleep(c) ==
  /\ Running(c, "sleep")
  /\ acquire(tickslock, c)
  /\ ticks0' = [ticks0 EXCEPT ![proc[c]] = ticks]
  /\ pc' = [pc EXCEPT ![proc[c]] = "sleeptest"]
  /\ UNCHANGED <<tableVars, yielded, np, saved, ticks, ptlock, cpuVars>>

Expired(p) == ticks - ticks0[p] >= SleepTicks

\* The head of the loop: done, killed, or on to sleep.
sys_sleep_test(c) ==
  /\ Running(c, "sleeptest")
  /\ UNCHANGED tableVars
  /\ IF Expired(proc[c]) \/ killed[proc[c]]
       THEN /\ tickslock' = None
            /\ popcli(c, intena[c], FALSE)
            /\ pc' = [pc EXCEPT ![proc[c]] = Return(proc[c])]
       ELSE /\ pc' = [pc EXCEPT ![proc[c]] = "sleeping"]
            /\ UNCHANGED <<tickslock, cliVars>>
  /\ UNCHANGED <<yielded, np, ticks0, saved, ticks, ptlock, cpuVars>>

\* Mutant of sleep: the caller's lock is kept while the process sleeps.
sleep_KeepsLock(c) ==
  /\ Running(c, "sleeping")
  /\ ptlock = None /\ ptlock' = c
  /\ ncli' = [ncli EXCEPT ![c] = @ + 1]
  /\ UNCHANGED <<intena, fl_if, tickslock>>
  /\ chan' = [chan EXCEPT ![proc[c]] = TicksChan]
  /\ state' = [state EXCEPT ![proc[c]] = "SLEEPING"]
  /\ pc' = [pc EXCEPT ![proc[c]] = "slept"]
  /\ sched(c)
  /\ UNCHANGED <<pid, parent, killed, nextpid, yielded, np, ticks0, ticks>>

\* sleep takes ptable.lock before it gives up the caller's lock.
sleep(c) ==
  /\ Running(c, "sleeping")
  /\ ptlock = None /\ ptlock' = c
  /\ tickslock' = None
  /\ pushpopcli(c)
  /\ chan' = [chan EXCEPT ![proc[c]] = TicksChan]
  /\ state' = [state EXCEPT ![proc[c]] = "SLEEPING"]
  /\ pc' = [pc EXCEPT ![proc[c]] = "slept"]
  /\ sched(c)
  /\ UNCHANGED <<pid, parent, killed, nextpid, yielded, np, ticks0, ticks>>

\* Woken: tidy up and exchange the locks again.
sleep_return(c) ==
  /\ Running(c, "slept")
  /\ ptlock = c
  /\ chan' = [chan EXCEPT ![proc[c]] = NoProc]
  /\ release(ptlock, c, saved[proc[c]], FALSE)
  /\ pc' = [pc EXCEPT ![proc[c]] = "reacquire"]
  /\ UNCHANGED <<state, pid, parent, killed, nextpid, yielded, np, ticks0, saved, clockVars, cpuVars>>

sleep_reacquire(c) ==
  /\ Running(c, "reacquire")
  /\ acquire(tickslock, c)
  /\ pc' = [pc EXCEPT ![proc[c]] = "sleeptest"]
  /\ UNCHANGED <<tableVars, yielded, np, ticks0, saved, ticks, ptlock, cpuVars>>

-----------------------------------------------------------------------------
Scheduling(c) == scheduler(c) \/ scheduler_run(c) \/ scheduler_release(c) \/ swtch(c) \/ forkret(c)

Clock(c) ==
  \/ timer(c) \/ tick(c) \/ wakeup_ticks(c)
  \/ intr_idle(c) \/ intr_killed(c) \/ yield(c) \/ yield_return(c)

Forking(c) == allocproc(c) \/ fork_fails(c) \/ fork(c)

Waiting(c) == exit(c) \/ wait_found(c) \/ wait_fails(c) \/ wait_sleep(c)

Sleeping(c) == sys_sleep(c) \/ sys_sleep_test(c) \/ sleep(c) \/ sleep_return(c) \/ sleep_reacquire(c)

ProcNext ==
  \E c \in Cpus :
    \/ Scheduling(c) \/ Clock(c) \/ Forking(c) \/ Waiting(c) \/ Sleeping(c)
    \/ \E call \in Calls : syscall(c, call)
    \/ \E k \in KillPids : kill(c, k)

ProcSpec == ProcInit /\ [][ProcNext]_procVars

-----------------------------------------------------------------------------
(* Properties *)

\* The kernel stack of a process is in use on at most one CPU, and never after
\* wait has freed it; the states of the table say which processes are on a CPU
\* whenever ptable.lock is free.
StackOnOneCpu ==
  /\ \A c, d \in Cpus : c # d /\ proc[c] = proc[d] => proc[c] = NoProc
  /\ \A c \in Cpus : proc[c] # NoProc => state[proc[c]] \notin {"UNUSED", "EMBRYO"}
  /\ ptlock = None =>
       \A p \in Slots : state[p] = "RUNNING" <=> \E c \in Cpus : proc[c] = p

\* The four panics of sched do not happen, no CPU waits with interrupts disabled
\* for a lock it holds itself, and a process that returns from its last release
\* runs with interrupts on again: otherwise no timer would take its CPU away.
SchedPreconditions ==
  \A c \in Cpus :
    /\ at[c] = "swtch" => /\ ptlock = c /\ ncli[c] = 1 /\ ~fl_if[c]
                          /\ state[proc[c]] # "RUNNING"
    /\ at[c] = "irq" => tickslock # c
    /\ at[c] \in {"irq", "tick", "intr"} => ptlock # c
    /\ fl_if[c] => ptlock # c /\ tickslock # c /\ ncli[c] = 0
    /\ at[c] = "run" /\ ncli[c] = 0 /\ ~fl_if[c] => pc[proc[c]] = "exit"

\* Nobody sleeps for what has already happened: a parent in wait has a child,
\* none of its children is a zombie and it was not killed; a process in
\* sys_sleep has ticks left.
NoLostWakeup ==
  \A p \in Slots : state[p] = "SLEEPING" =>
    /\ chan[p] = p /\ ptlock = None =>
         Children(p) # {} /\ ZombieChildren(p) = {} /\ ~killed[p]
    /\ chan[p] = TicksChan /\ tickslock = None => ~Expired(p)

\* Every process but init has a parent that will be able to collect it: the
\* parent is neither an exited process nor a free slot.
ZombiesHaveReaper ==
  \A p \in Slots \ {initproc} :
    state[p] \notin {"UNUSED", "EMBRYO"} =>
      parent[p] # NoProc /\ state[parent[p]] \notin {"UNUSED", "EMBRYO", "ZOMBIE"}

=============================================================================
