------------------------------- MODULE Memory -------------------------------
(***************************************************************************)
(* Physical pages and address spaces of xv6: the page allocator of kalloc.c,  *)
(* the page tables of vm.c, and the calls that build, copy, grow and free an  *)
(* address space: userinit, fork, exec, sbrk, exit and wait.               *)
(*                                                                         *)
(* An address space is its page directory, its page tables and a function     *)
(* from user pages to physical pages.  The free list is a set: pages on it    *)
(* hold the same junk, so that it does not matter which one is taken.  Every   *)
(* call of kalloc is a step of its own: processes meet there, under kmem.lock. *)
(* Pages with page tables are counted, what they hold is not followed in mem.  *)
(***************************************************************************)
EXTENDS Integers, Sequences, FiniteSets

CONSTANTS
  Procs, initproc,
  PGSIZE,            \* bytes of a page
  EndOfKernel,       \* end, the first address after the kernel
  EntryMapped,       \* 4 MB, what entrypgdir maps
  PHYSTOP,
  KERNBASE,
  DEVSPACE,          \* kmap maps no page from P2V(PHYSTOP) to here
  UINT,              \* 2 ^ 32
  NPTE,              \* pages that a page table maps
  KTables,           \* page tables that kmap needs
  NCPU,
  Execs,             \* calls of exec: the program headers, the bytes of the arguments
  Sbrk,              \* the arguments of sbrk
  MaxCalls           \* bound on the number of calls

\* Program headers; complete: the file has the filesz bytes that loaduvm reads.
ProgHeaders == [load : BOOLEAN, vaddr : 0 .. UINT - 1, memsz : 0 .. UINT - 1,
                filesz : 0 .. UINT - 1, complete : BOOLEAN]

\* The argument of sbrk is an int, and below KERNBASE it does not wrap around.
ASSUME MemoryAssumption ==
  /\ {PGSIZE, EntryMapped, PHYSTOP, KERNBASE, UINT, NPTE, KTables, NCPU} \subseteq Nat \ {0}
  /\ initproc \in Procs /\ EndOfKernel \in Nat /\ MaxCalls \in Nat
  /\ KERNBASE % PGSIZE = 0 /\ EntryMapped % PGSIZE = 0
  /\ PGSIZE < KERNBASE /\ KERNBASE + PGSIZE < UINT
  /\ DEVSPACE \in Nat /\ KERNBASE + PHYSTOP <= DEVSPACE /\ DEVSPACE <= UINT
  /\ EndOfKernel <= EntryMapped /\ EntryMapped <= PHYSTOP
  /\ Execs \subseteq [prog : Seq(ProgHeaders), args : Nat]
  /\ Sbrk \subseteq Int /\ \A n \in Sbrk : KERNBASE + n <= UINT
  /\ "nothing" \notin Procs

VARIABLES
  boot,      \* how far main has come
  free,      \* kmem.freelist
  mem,       \* what every physical page holds
  kernel,    \* kpgdir and the stacks of the other processors
  pipes,     \* the pages of pipes
  state, kstack, pgdir, sz,    \* of each process
  task,      \* the call of each process that allocates
  build,     \* the address space that it works on
  fresh,     \* the page that it has from kalloc and has not mapped yet
  stale,     \* pages freed by a process whose TLB may still have them
  view,      \* history: what each process has put into its pages
  calls,
  panicked   \* "no", or why the model stops: a panic of the kernel, "twice" when a
             \* page is freed that is free, "wild" when the kernel or a process may
             \* write to a page that is not its own

procVars == <<state, kstack, pgdir, sz, view, stale>>
memVars == <<boot, free, mem, kernel, pipes, procVars, task, build, fresh, calls, panicked>>

Pages == 0 .. PHYSTOP \div PGSIZE - 1
UPages == 0 .. KERNBASE \div PGSIZE - 1
UTables == 0 .. (Cardinality(UPages) + NPTE - 1) \div NPTE - 1
None == -1
NoSpace == [dir |-> {}, tabs |-> [k \in UTables |-> None], pte |-> [v \in UPages |-> None],
            user |-> {}]
NoTask == [op |-> "none"]
Blank == [v \in UPages |-> "nothing"]
RoundUp(a) == (a + PGSIZE - 1) \div PGSIZE       \* PGROUNDUP, as a page number
One(S) == CHOOSE x \in S : TRUE

MemInit ==
  /\ boot = "kinit1"
  /\ free = {} /\ mem = [g \in Pages |-> "junk"]
  /\ kernel = {} /\ pipes = {}
  /\ state = [p \in Procs |-> "UNUSED"] /\ kstack = [p \in Procs |-> None]
  /\ pgdir = [p \in Procs |-> NoSpace] /\ sz = [p \in Procs |-> 0]
  /\ task = [p \in Procs |-> NoTask] /\ build = [p \in Procs |-> NoSpace]
  /\ fresh = [p \in Procs |-> None] /\ stale = [p \in Procs |-> {}]
  /\ view = [p \in Procs |-> Blank]
  /\ calls = 0 /\ panicked = "no"

-----------------------------------------------------------------------------
(* kalloc.c *)

freerange(vstart, vend) ==
  {g \in Pages : g >= RoundUp(vstart) /\ (g + 1) * PGSIZE <= vend}

kalloc == One(free)

\* n calls of it, by main, when nobody else runs.
kallocs(n) == CHOOSE S \in SUBSET free : Cardinality(S) = n

\* kfree of some pages, once when none is named twice: it panics for a page of the
\* kernel, and does not see that a page is on the list already.
Freeing(gs, once) ==
  IF \E g \in gs \ {None} : g * PGSIZE < EndOfKernel THEN "kfree"
  ELSE IF once /\ gs \cap free = {} THEN "no" ELSE "twice"
kfree(gs, once) ==
  /\ free' = free \cup (gs \ {None})
  /\ mem' = [g \in Pages |-> IF g \in gs THEN "junk" ELSE mem[g]]
  /\ panicked' = Freeing(gs, once)

(* vm.c *)

Tables(space) == {space.tabs[k] : k \in UTables} \cup space.dir
Mapped(space) == {space.pte[v] : v \in UPages}

\* No page is twice in the space, so that freevm frees each one once.
UsedOnce(space) ==
  /\ Tables(space) \cap Mapped(space) \subseteq {None}
  /\ \A v, w \in UPages : v # w /\ space.pte[v] # None => space.pte[v] # space.pte[w]
  /\ \A k, l \in UTables : k # l /\ space.tabs[k] # None => space.tabs[k] # space.tabs[l]
  /\ \A k \in UTables : space.tabs[k] \notin space.dir

\* The pages of a directory and of the page tables for kmap, by setupkvm.
SetupPages == 1 + KTables

\* The kernel boots: entrypgdir maps enough memory for the page table and the stacks
\* of the kernel, and userinit finds what it needs.
ASSUME BootAssumption ==
  /\ Cardinality(freerange(EndOfKernel, EntryMapped)) >= SetupPages + NCPU - 1
  /\ Cardinality(freerange(EndOfKernel, PHYSTOP)) >= 2 * SetupPages + NCPU + 2

\* What freevm frees: the user pages, the tables and the directory.
freevm(space) == Mapped(space) \cup Tables(space)

\* The page that mappages enters at v needs a page table, by walkpgdir.
NeedsTable(space, v) == space.tabs[v \div NPTE] = None
mappages(space, v, g, table) ==
  [space EXCEPT !.pte[v] = g, !.user = @ \cup {v},
                !.tabs[v \div NPTE] = IF @ = None THEN table ELSE @]

\* The user pages that deallocuvm(oldsz, newsz) frees, and what it leaves.
Deallocated(oldsz, newsz) == {v \in UPages : v >= RoundUp(newsz) /\ v * PGSIZE < oldsz}
deallocuvm(space, gone) ==
  [space EXCEPT !.pte = [v \in UPages |-> IF v \in gone THEN None ELSE @[v]], !.user = @ \ gone]

-----------------------------------------------------------------------------
(* main.c *)

kinit1 ==
  /\ boot = "kinit1" /\ boot' = "startothers"
  /\ free' = freerange(EndOfKernel, EntryMapped)
  /\ UNCHANGED <<mem, kernel, pipes, procVars, task, build, fresh, calls, panicked>>

\* kvmalloc, and the stacks that startothers gives the other processors.
startothers ==
  /\ boot = "startothers" /\ boot' = "kinit2"
  /\ kernel' = kallocs(SetupPages + NCPU - 1)
  /\ free' = free \ kernel'
  /\ mem' = [g \in Pages |-> IF g \in kernel' THEN "kernel" ELSE mem[g]]
  /\ UNCHANGED <<pipes, procVars, task, build, fresh, calls, panicked>>

kinit2 ==
  /\ boot = "kinit2" /\ boot' = "userinit"
  /\ free' = free \cup freerange(EntryMapped, PHYSTOP)
  /\ UNCHANGED <<mem, kernel, pipes, procVars, task, build, fresh, calls, panicked>>

\* userinit: a kernel stack, a directory and, by inituvm, the page of initcode.
userinit ==
  /\ boot = "userinit" /\ boot' = "up"
  /\ LET taken == kallocs(SetupPages + 3)
         g == One(taken)
         table == One(taken \ {g})
         stack == One(taken \ {g, table})
         space == mappages([NoSpace EXCEPT !.dir = taken \ {g, table, stack}], 0, g, table)
     IN /\ free' = free \ taken
        /\ mem' = [mem EXCEPT ![g] = "initcode"]
        /\ kstack' = [kstack EXCEPT ![initproc] = stack]
        /\ pgdir' = [pgdir EXCEPT ![initproc] = space]
  /\ state' = [state EXCEPT ![initproc] = "RUNNABLE"]
  /\ sz' = [sz EXCEPT ![initproc] = PGSIZE]
  /\ view' = [view EXCEPT ![initproc][0] = "initcode"]
  /\ UNCHANGED <<kernel, pipes, stale, task, build, fresh, calls, panicked>>

-----------------------------------------------------------------------------
(* System calls that allocate.  A task says which pages are still to be mapped, *)
(* from at to last, and what the call does then.                             *)

\* A process runs as long as the page with its next instruction is mapped; otherwise
\* it takes a page fault, and trap kills it.
Runs(p) == /\ boot = "up" /\ panicked = "no" /\ state[p] = "RUNNABLE"
           /\ 0 \in pgdir[p].user /\ task[p] = NoTask
Busy(p, op) == panicked = "no" /\ task[p].op = op
Counted == calls < MaxCalls /\ calls' = calls + 1
does(p, what) == task' = [task EXCEPT ![p] = what]

\* setupkvm needs left more pages, or the next page of allocuvm or copyuvm is at.
Setting(p) == task[p].op \in {"fork", "headers"} /\ task[p].left > 0
Mapping(p) == /\ task[p].op \in {"grow", "fork", "segment", "stack"} /\ ~Setting(p)
              /\ task[p].at <= task[p].last

\* A page for setupkvm: the directory, or a page table for kmap.
setup_page(p) ==
  /\ panicked = "no" /\ Setting(p) /\ free # {}
  /\ build' = [build EXCEPT ![p].dir = @ \cup {kalloc}]
  /\ free' = free \ {kalloc}
  /\ does(p, [task[p] EXCEPT !.left = @ - 1])
  /\ UNCHANGED <<boot, mem, kernel, pipes, procVars, fresh, calls, panicked>>

\* Mutant of Filling: a new page is not cleared.
Filling_NotCleared(p) ==
  IF task[p].op = "fork" THEN mem[pgdir[p].pte[task[p].at]] ELSE "junk"

\* memset, or the memmove of copyuvm.
Filling(p) == IF task[p].op = "fork" THEN mem[pgdir[p].pte[task[p].at]] ELSE "zero"

\* mappages enters the page; it panics if there is one already.
maps(p, g, table) ==
  /\ build' = [build EXCEPT ![p] = mappages(@, task[p].at, g, table)]
  /\ panicked' = IF build[p].pte[task[p].at] # None THEN "remap" ELSE "no"
  /\ does(p, [task[p] EXCEPT !.at = @ + 1])

\* copyuvm panics if the page of the parent is not there.
Missing(p) == task[p].op = "fork" /\ pgdir[p].pte[task[p].at] = None

\* The page of allocuvm or copyuvm, mapped at once if there is a page table for it.
map_page(p) ==
  /\ panicked = "no" /\ Mapping(p) /\ fresh[p] = None
  /\ IF Missing(p)
     THEN panicked' = "copyuvm" /\ UNCHANGED <<build, fresh, free, mem, task>>
     ELSE /\ free # {}
          /\ free' = free \ {kalloc}
          /\ mem' = [mem EXCEPT ![kalloc] = Filling(p)]
          /\ IF NeedsTable(build[p], task[p].at)
             THEN /\ fresh' = [fresh EXCEPT ![p] = kalloc]
                  /\ UNCHANGED <<build, task, panicked>>
             ELSE maps(p, kalloc, None) /\ UNCHANGED fresh
  /\ UNCHANGED <<boot, kernel, pipes, procVars, calls>>

\* walkpgdir takes the page table, and the page is mapped.
map_table(p) ==
  /\ panicked = "no" /\ Mapping(p) /\ fresh[p] # None /\ free # {}
  /\ maps(p, fresh[p], kalloc)
  /\ free' = free \ {kalloc} /\ fresh' = [fresh EXCEPT ![p] = None]
  /\ UNCHANGED <<boot, mem, kernel, pipes, procVars, calls>>

\* The next kalloc fails.
NoMemory(p) == free = {} /\ (Setting(p) \/ (Mapping(p) /\ ~Missing(p)))

\* A call that fails gives up what it has built.
gives_up(p) ==
  /\ build' = [build EXCEPT ![p] = NoSpace] /\ fresh' = [fresh EXCEPT ![p] = None]
  /\ does(p, NoTask)
BuiltOnce(p) == UsedOnce(build[p]) /\ fresh[p] \notin freevm(build[p]) \ {None}

\* sbrk: growproc with a positive n.
sbrk_grow(p, n) ==
  /\ Runs(p) /\ Counted
  /\ n > 0 /\ (sz[p] + n) % UINT < KERNBASE
  /\ does(p, [op |-> "grow", at |-> RoundUp(sz[p]), last |-> RoundUp(sz[p] + n) - 1, n |-> n])
  /\ build' = [build EXCEPT ![p] = pgdir[p]]
  /\ UNCHANGED <<boot, free, mem, kernel, pipes, procVars, fresh, panicked>>

sbrk_end(p) ==
  /\ Busy(p, "grow") /\ ~Mapping(p)
  /\ pgdir' = [pgdir EXCEPT ![p] = build[p]] /\ build' = [build EXCEPT ![p] = NoSpace]
  /\ sz' = [sz EXCEPT ![p] = @ + task[p].n]
  /\ view' = [view EXCEPT ![p] = [v \in UPages |->
                IF @[v] = "nothing" /\ v * PGSIZE < sz'[p] THEN "zero" ELSE @[v]]]
  /\ does(p, NoTask)
  /\ UNCHANGED <<boot, free, mem, kernel, pipes, state, kstack, stale, fresh, calls, panicked>>

\* Mutant of sbrk_undo: what was mapped before memory ran out stays mapped.
sbrk_undo_NotUndone(p) ==
  /\ Busy(p, "grow") /\ NoMemory(p)
  /\ kfree({fresh[p]}, BuiltOnce(p))
  /\ pgdir' = [pgdir EXCEPT ![p] = build[p]]
  /\ gives_up(p)
  /\ UNCHANGED <<boot, kernel, pipes, state, kstack, sz, view, stale, calls>>

\* Without memory allocuvm frees what it has mapped and its last page; new tables stay.
sbrk_undo(p) ==
  /\ Busy(p, "grow") /\ NoMemory(p)
  /\ LET gone == Deallocated(sz[p] + task[p].n, sz[p]) IN
       /\ kfree({build[p].pte[v] : v \in gone} \cup {fresh[p]}, BuiltOnce(p))
       /\ pgdir' = [pgdir EXCEPT ![p] = deallocuvm(build[p], gone)]
  /\ gives_up(p)
  /\ UNCHANGED <<boot, kernel, pipes, state, kstack, sz, view, stale, calls>>

\* growproc with a negative n, unless n is below -sz and wraps around.  It takes the
\* size 0 for a failure: it keeps sz and returns before switchuvm.
sbrk_shrink(p, n) ==
  /\ Runs(p) /\ Counted
  /\ n < 0 /\ sz[p] + n >= 0
  /\ LET gone == Deallocated(sz[p], sz[p] + n) IN
       /\ kfree({pgdir[p].pte[v] : v \in gone}, UsedOnce(pgdir[p]))
       /\ pgdir' = [pgdir EXCEPT ![p] = deallocuvm(@, gone)]
       /\ view' = [view EXCEPT ![p] = [v \in UPages |-> IF v \in gone THEN "nothing" ELSE @[v]]]
       /\ stale' = [stale EXCEPT ![p] = IF sz[p] + n = 0 THEN Mapped(pgdir[p]) \ {None} ELSE @]
  /\ sz' = [sz EXCEPT ![p] = IF @ + n = 0 THEN @ ELSE @ + n]
  /\ UNCHANGED <<boot, kernel, pipes, state, kstack, task, build, fresh>>

\* The processor runs another process before p goes on, and p takes a page fault then.
switchuvm(p) ==
  /\ panicked = "no" /\ stale[p] # {}
  /\ stale' = [stale EXCEPT ![p] = {}]
  /\ UNCHANGED <<boot, free, mem, kernel, pipes, state, kstack, pgdir, sz, view, task, build,
                 fresh, calls, panicked>>

\* The process goes on in the pages that it has freed: it writes to one of them, or its
\* next call finds no page below sz, where fork panics.
goes_on(p) ==
  /\ boot = "up" /\ panicked = "no" /\ stale[p] # {} /\ panicked' = "wild"
  /\ \/ \E g \in stale[p] : mem' = [mem EXCEPT ![g] = p]
     \/ UNCHANGED mem
  /\ UNCHANGED <<boot, free, kernel, pipes, procVars, task, build, fresh, calls>>

\* fork: allocproc takes a kernel stack.
fork(p, c) ==
  /\ Runs(p) /\ Counted
  /\ state[c] = "UNUSED"
  /\ IF free = {} THEN UNCHANGED <<free, task, state, kstack>>
     ELSE /\ free' = free \ {kalloc}
          /\ state' = [state EXCEPT ![c] = "EMBRYO"]
          /\ kstack' = [kstack EXCEPT ![c] = kalloc]
          /\ does(p, [op |-> "fork", left |-> SetupPages, at |-> 0,
                      last |-> RoundUp(sz[p]) - 1, child |-> c])
  /\ UNCHANGED <<boot, mem, kernel, pipes, pgdir, sz, view, stale, build, fresh, panicked>>

fork_end(p) ==
  /\ Busy(p, "fork") /\ ~Setting(p) /\ ~Mapping(p)
  /\ LET c == task[p].child IN
       /\ state' = [state EXCEPT ![c] = "RUNNABLE"]
       /\ pgdir' = [pgdir EXCEPT ![c] = [build[p] EXCEPT !.user = pgdir[p].user]]
       /\ sz' = [sz EXCEPT ![c] = sz[p]]
       /\ view' = [view EXCEPT ![c] = view[p]]
  /\ build' = [build EXCEPT ![p] = NoSpace] /\ does(p, NoTask)
  /\ UNCHANGED <<boot, free, mem, kernel, pipes, kstack, stale, fresh, calls, panicked>>

\* A copy that fails: freevm, and fork frees the stack.
fork_bad(p) ==
  /\ Busy(p, "fork") /\ NoMemory(p)
  /\ LET c == task[p].child IN
       /\ kfree(freevm(build[p]) \cup {fresh[p], kstack[c]}, BuiltOnce(p))
       /\ kstack' = [kstack EXCEPT ![c] = None]
       /\ state' = [state EXCEPT ![c] = "UNUSED"]
  /\ gives_up(p)
  /\ UNCHANGED <<boot, kernel, pipes, pgdir, sz, view, stale, calls>>

-----------------------------------------------------------------------------
(* exec.c *)

\* The arguments are strings of the process.
exec(p, prog, args) ==
  /\ Runs(p) /\ Counted
  /\ args <= sz[p]
  /\ does(p, [op |-> "headers", left |-> SetupPages, prog |-> prog, args |-> args, size |-> 0])
  /\ UNCHANGED <<boot, free, mem, kernel, pipes, procVars, build, fresh, panicked>>

\* The end of a segment, and the tests of its header before allocuvm.
End(ph) == (ph.vaddr + ph.memsz) % UINT
BadHeader(ph) == ph.memsz < ph.filesz \/ End(ph) < ph.vaddr \/ End(ph) >= KERNBASE

\* The part of a task that remembers the program.
In(p, op, at, last) ==
  [op |-> op, prog |-> task[p].prog, args |-> task[p].args, size |-> task[p].size,
   at |-> at, last |-> last]

\* The next program header: allocuvm starts, or a header is skipped.
exec_header(p) ==
  /\ Busy(p, "headers") /\ ~Setting(p) /\ task[p].prog # <<>>
  /\ LET ph == Head(task[p].prog) IN
       \/ /\ ~ph.load
          /\ does(p, [task[p] EXCEPT !.prog = Tail(@)])
       \/ /\ ph.load /\ ~BadHeader(ph)
          /\ does(p, In(p, "segment", RoundUp(task[p].size), RoundUp(End(ph)) - 1))
  /\ UNCHANGED <<boot, free, mem, kernel, pipes, procVars, build, fresh, calls, panicked>>

\* loaduvm, once the pages are there.
Loadable(ph) == ph.vaddr % PGSIZE = 0 /\ ph.complete
Filled(ph) == {v \in UPages : v * PGSIZE \in ph.vaddr .. ph.vaddr + ph.filesz - 1}
exec_load(p) ==
  /\ Busy(p, "segment") /\ ~Mapping(p)
  /\ LET ph == Head(task[p].prog)
         size == IF End(ph) < task[p].size THEN task[p].size ELSE End(ph)
         there == {build[p].pte[v] : v \in Filled(ph)}
     IN /\ Loadable(ph) /\ size # 0
        /\ mem' = [g \in Pages |-> IF g \in there THEN "program" ELSE mem[g]]
        /\ panicked' = IF None \in there THEN "loaduvm" ELSE "no"
        /\ does(p, [op |-> "headers", left |-> 0, prog |-> Tail(task[p].prog),
                    args |-> task[p].args, size |-> size])
  /\ UNCHANGED <<boot, free, kernel, pipes, procVars, build, fresh, calls>>

\* Two more pages: the guard and the stack.
StackAt(p) == RoundUp(task[p].size)
StackFits(p) == (StackAt(p) + 2) * PGSIZE < KERNBASE
exec_stack(p) ==
  /\ Busy(p, "headers") /\ ~Setting(p) /\ task[p].prog = <<>> /\ StackFits(p)
  /\ does(p, In(p, "stack", StackAt(p), StackAt(p) + 1))
  /\ UNCHANGED <<boot, free, mem, kernel, pipes, procVars, build, fresh, calls, panicked>>

\* The arguments are on the stack: the new image replaces the old one, which is freed.
\* The history takes what the new pages hold.
exec_commit(p) ==
  /\ Busy(p, "stack") /\ ~Mapping(p) /\ task[p].args <= PGSIZE
  /\ LET guard == StackAt(p)
         old == freevm(pgdir[p]) \ {None}
         new == [build[p] EXCEPT !.user = @ \ {guard}]
     IN /\ free' = free \cup old
        /\ mem' = [g \in Pages |-> IF g \in old THEN "junk"
                                   ELSE IF g = new.pte[guard + 1] THEN "stack" ELSE mem[g]]
        /\ panicked' = Freeing(old, UsedOnce(pgdir[p]))
        /\ pgdir' = [pgdir EXCEPT ![p] = new]
        /\ sz' = [sz EXCEPT ![p] = (guard + 2) * PGSIZE]
        /\ view' = [view EXCEPT ![p] = [v \in UPages |->
                      CASE v < guard -> mem[new.pte[v]] [] v = guard -> "zero"
                        [] v = guard + 1 -> "stack" [] OTHER -> "nothing"]]
  /\ build' = [build EXCEPT ![p] = NoSpace] /\ does(p, NoTask)
  /\ UNCHANGED <<boot, kernel, pipes, state, kstack, stale, fresh, calls>>

\* copyout puts the arguments below the end of the stack: more than a page of them meets
\* the guard page, or wraps around to the pages of the kernel or to where no page table is.
StackPointer(p) == ((StackAt(p) + 2) * PGSIZE - task[p].args) % UINT
NoPageTable(p) == StackPointer(p) >= KERNBASE + PHYSTOP /\ StackPointer(p) < DEVSPACE
TooLong(p) == task[p].op = "stack" /\ ~Mapping(p) /\ task[p].args > PGSIZE

\* uva2ka then takes what is at address 0 for the entry of a page table: it refuses, or
\* copyout writes wherever that says, or faults.
copyout_wild(p) ==
  /\ panicked = "no" /\ TooLong(p) /\ NoPageTable(p) /\ panicked' = "wild"
  /\ \/ \E g \in Pages : mem' = [mem EXCEPT ![g] = "stack"]
     \/ UNCHANGED mem
  /\ UNCHANGED <<boot, free, kernel, pipes, procVars, task, build, fresh, calls>>

\* Everything that leads to the label bad: a header, memory, an unaligned segment, a
\* short file, no room below KERNBASE, arguments that copyout refuses.
Fails(p) ==
  \/ NoMemory(p) /\ task[p].op \in {"headers", "segment", "stack"}
  \/ task[p].op = "headers" /\ ~Setting(p) /\ task[p].prog # <<>> /\ Head(task[p].prog).load
       /\ BadHeader(Head(task[p].prog))
  \/ task[p].op = "segment" /\ ~Mapping(p)
       /\ (Loadable(Head(task[p].prog)) => End(Head(task[p].prog)) = 0 /\ task[p].size = 0)
  \/ task[p].op = "headers" /\ ~Setting(p) /\ task[p].prog = <<>> /\ ~StackFits(p)
  \/ TooLong(p)

\* Mutant of exec_bad: only the user pages are freed.
exec_bad_KeepsTables(p) ==
  /\ panicked = "no" /\ Fails(p)
  /\ kfree(Mapped(build[p]) \cup {fresh[p]}, BuiltOnce(p))
  /\ gives_up(p)
  /\ UNCHANGED <<boot, kernel, pipes, procVars, calls>>

exec_bad(p) ==
  /\ panicked = "no" /\ Fails(p)
  /\ kfree(freevm(build[p]) \cup {fresh[p]}, BuiltOnce(p))
  /\ gives_up(p)
  /\ UNCHANGED <<boot, kernel, pipes, procVars, calls>>

-----------------------------------------------------------------------------
(* Pipes take a page each; who holds the two ends is the matter of module Pipe. *)

pipealloc(p) ==
  /\ Runs(p) /\ Counted
  /\ IF free = {} THEN UNCHANGED <<free, mem, pipes>>
     ELSE /\ free' = free \ {kalloc} /\ pipes' = pipes \cup {kalloc}
          /\ mem' = [mem EXCEPT ![kalloc] = "pipe"]
  /\ UNCHANGED <<boot, kernel, procVars, task, build, fresh, panicked>>

\* The second end is closed.
pipeclose(g) ==
  /\ panicked = "no" /\ g \in pipes
  /\ kfree({g}, TRUE)
  /\ pipes' = pipes \ {g}
  /\ UNCHANGED <<boot, kernel, procVars, task, build, fresh, calls>>

-----------------------------------------------------------------------------

\* The kernel writes size bytes of p at an address that argptr lets pass, as in read;
\* it has no handler for a page fault of its own.
argptr(p, i, size) ==
  /\ Runs(p)
  /\ i < sz[p] /\ (i + size) % UINT <= sz[p]
  /\ LET at == i \div PGSIZE .. (i + size - 1) \div PGSIZE
         there == {pgdir[p].pte[v] : v \in at}
     IN IF None \in there THEN panicked' = "page_fault" /\ UNCHANGED <<mem, view>>
        ELSE /\ mem' = [g \in Pages |-> IF g \in there THEN p ELSE mem[g]]
             /\ view' = [view EXCEPT ![p] = [v \in UPages |-> IF v \in at THEN p ELSE @[v]]]
             /\ UNCHANGED panicked
  /\ UNCHANGED <<boot, free, kernel, pipes, state, kstack, pgdir, sz, stale, task, build, fresh,
                 calls>>

\* exit, called by the process or by trap after a page fault.
exit(p) ==
  /\ boot = "up" /\ panicked = "no"
  /\ p # initproc /\ state[p] = "RUNNABLE" /\ task[p] = NoTask
  /\ state' = [state EXCEPT ![p] = "ZOMBIE"]
  /\ stale' = [stale EXCEPT ![p] = {}]
  /\ UNCHANGED <<boot, free, mem, kernel, pipes, kstack, pgdir, sz, view, task, build, fresh,
                 calls, panicked>>

\* wait frees the stack and the address space of a zombie.
wait(c) ==
  /\ panicked = "no" /\ state[c] = "ZOMBIE"
  /\ kfree(freevm(pgdir[c]) \cup {kstack[c]},
           UsedOnce(pgdir[c]) /\ kstack[c] \notin freevm(pgdir[c]) \ {None})
  /\ pgdir' = [pgdir EXCEPT ![c] = NoSpace]
  /\ kstack' = [kstack EXCEPT ![c] = None]
  /\ state' = [state EXCEPT ![c] = "UNUSED"]
  /\ sz' = [sz EXCEPT ![c] = 0] /\ view' = [view EXCEPT ![c] = Blank]
  /\ UNCHANGED <<boot, kernel, pipes, stale, task, build, fresh, calls>>

MemNext ==
  \/ kinit1 \/ startothers \/ kinit2 \/ userinit
  \/ \E p \in Procs :
       \/ setup_page(p) \/ map_page(p) \/ map_table(p)
       \/ \E n \in Sbrk : sbrk_grow(p, n) \/ sbrk_shrink(p, n)
       \/ sbrk_end(p) \/ sbrk_undo(p) \/ switchuvm(p) \/ goes_on(p)
       \/ \E c \in Procs : fork(p, c)
       \/ fork_end(p) \/ fork_bad(p)
       \/ \E e \in Execs : exec(p, e.prog, e.args)
       \/ exec_header(p) \/ exec_load(p) \/ exec_stack(p) \/ exec_commit(p)
       \/ copyout_wild(p) \/ exec_bad(p) \/ pipealloc(p)
       \/ \E i \in 0 .. sz[p] - 1, size \in 1 .. PGSIZE : argptr(p, i, size)
       \/ exit(p) \/ wait(p)
  \/ \E g \in Pages : pipeclose(g)

MemSpec == MemInit /\ [][MemNext]_memVars

-----------------------------------------------------------------------------
(* Properties *)

\* The pages of a process, those of the address space it builds included.
Owned(p) == (freevm(pgdir[p]) \cup freevm(build[p]) \cup {kstack[p], fresh[p]}) \ {None}

\* Once main has given all memory to the allocator, every page above the kernel is
\* on the free list or has exactly one use, in a process, a pipe or the kernel, and none
\* is freed twice, whichever kalloc failed on the way.
EveryPageHasOneUse ==
  boot \in {"userinit", "up"} /\ panicked # "wild" =>
    /\ panicked # "twice"
    /\ free \cup kernel \cup pipes \cup UNION {Owned(p) : p \in Procs}
         = freerange(EndOfKernel, PHYSTOP)
    /\ (free \cup kernel \cup pipes) \cap UNION {Owned(p) : p \in Procs} = {}
    /\ free \cap (kernel \cup pipes) = {} /\ kernel \cap pipes = {}
    /\ \A p, q \in Procs : p # q => Owned(p) \cap Owned(q) = {}
    /\ \A p \in Procs : UsedOnce(pgdir[p]) /\ BuiltOnce(p)

\* Every process sees what it, its program or its parent before fork put into its
\* memory, zeroes where it grew, and never what another process or the allocator left;
\* and nobody writes to the page of a pipe.
MemoryIsPrivate ==
  panicked # "wild" =>
    /\ \A p \in Procs : \A v \in UPages :
         IF view[p][v] = "nothing" THEN pgdir[p].pte[v] = None
         ELSE pgdir[p].pte[v] # None /\ mem[pgdir[p].pte[v]] = view[p][v]
    /\ \A g \in pipes : mem[g] = "pipe"

\* The panics of vm.c and kfree, and a page fault of the kernel at a checked address, do
\* not happen: pages below sz are mapped, and none above, unless the model stops at one
\* of the two places where the kernel goes wild.
NoMemoryPanic == panicked \in {"no", "twice", "wild"}
=============================================================================
