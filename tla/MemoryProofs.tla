---------------------------- MODULE MemoryProofs ----------------------------
(***************************************************************************)
(* Proofs about the pages of xv6 (module Memory), for every number of pages  *)
(* and of processes, every program and every place where memory runs out:   *)
(* every page has one use and is freed once, no process sees memory of       *)
(* another one, and the panics of vm.c are unreachable, as long as none of    *)
(* the two steps that write to any page (goes_on, copyout_wild) is taken.     *)
(***************************************************************************)
EXTENDS Memory, FiniteSetTheorems, TLAPS

-----------------------------------------------------------------------------
(* The inductive invariant *)

\* A page directory with its tables and pages.
IsSpace(s) ==
  /\ DOMAIN s = {"dir", "tabs", "pte", "user"}
  /\ s.dir \subseteq Pages /\ s.user \subseteq UPages
  /\ s.tabs \in [UTables -> Pages \cup {None}] /\ s.pte \in [UPages -> Pages \cup {None}]

\* The pages that freevm gives back.
PagesOf(s) == freevm(s) \ {None}

\* The calls that map pages, and those that build a space beside the one in use.
Mappers == {"grow", "fork", "segment", "stack"}
Builders == {"fork", "headers", "segment", "stack"}
Executing == {"headers", "segment", "stack"}

MemTypeOK ==
  /\ boot \in {"kinit1", "startothers", "kinit2", "userinit", "up"} /\ panicked = "no"
  /\ DOMAIN mem = Pages /\ DOMAIN state = Procs
  /\ DOMAIN pgdir = Procs /\ DOMAIN build = Procs /\ DOMAIN task = Procs
  /\ kstack \in [Procs -> Pages \cup {None}] /\ sz \in [Procs -> 0 .. KERNBASE - 1]
  /\ \A p \in Procs : IsSpace(pgdir[p]) /\ IsSpace(build[p])
  /\ fresh \in [Procs -> Pages \cup {None}]
  /\ DOMAIN view = Procs /\ \A p \in Procs : DOMAIN view[p] = UPages

\* The fields of a task.
TaskTypeOK(t) ==
  /\ t.op \in {"none", "headers"} \cup Mappers
  /\ t.op = "none" => t = NoTask
  /\ t.op \in Mappers =>
       {"op", "at", "last"} \subseteq DOMAIN t /\ t.at \in Nat /\ t.last \in Int
       /\ t.last < KERNBASE \div PGSIZE /\ t.at <= KERNBASE \div PGSIZE
  /\ t.op \in Executing =>
       /\ {"op", "prog", "args", "size"} \subseteq DOMAIN t
       /\ t.size \in 0 .. KERNBASE - 1 /\ t.prog \in Seq(ProgHeaders)
  /\ t.op = "grow" => "n" \in DOMAIN t /\ t.n \in Nat \ {0}
  /\ t.op = "fork" => "child" \in DOMAIN t /\ t.child \in Procs
  /\ t.op \in {"fork", "headers"} => "left" \in DOMAIN t /\ t.left \in Nat

\* The pages of a process in use are those below sz, and after sbrk(-sz) none.
ExtentOK(p) ==
  /\ \A v \in UPages : v >= RoundUp(sz[p]) => pgdir[p].pte[v] = None
  /\ 0 \in pgdir[p].user => \A v \in UPages : v < RoundUp(sz[p]) => pgdir[p].pte[v] # None

\* The pages of a space that is being built are those below the next one to map.
FrontOK(s, front) == \A v \in UPages : s.pte[v] # None <=> v < front

\* Where each call is.
GrowOK(p, t) ==
  /\ sz[p] + t.n < KERNBASE /\ t.last = RoundUp(sz[p] + t.n) - 1
  /\ RoundUp(sz[p]) <= t.at /\ t.at <= t.last + 1
  /\ 0 \in pgdir[p].user /\ build[p].dir = pgdir[p].dir
  /\ \A v \in UPages : v < RoundUp(sz[p]) => build[p].pte[v] = pgdir[p].pte[v]
  /\ \A k \in UTables : pgdir[p].tabs[k] # None => build[p].tabs[k] = pgdir[p].tabs[k]
ForkOK(p, t) ==
  /\ t.left # 0 => t.at = 0
  /\ t.last = RoundUp(sz[p]) - 1 /\ t.at <= t.last + 1
  /\ 0 \in pgdir[p].user /\ state[t.child] = "EMBRYO"
SegmentOK(t) ==
  /\ t.prog # <<>> /\ Head(t.prog).load /\ ~BadHeader(Head(t.prog))
  /\ t.last = RoundUp(End(Head(t.prog))) - 1
  /\ RoundUp(t.size) <= t.at /\ (t.at = RoundUp(t.size) \/ t.at <= t.last + 1)
StackOK(t) ==
  /\ t.prog = <<>> /\ (RoundUp(t.size) + 2) * PGSIZE < KERNBASE
  /\ t.last = RoundUp(t.size) + 1 /\ RoundUp(t.size) <= t.at /\ t.at <= t.last + 1

TaskOK(p) ==
  LET t == task[p] IN
    /\ TaskTypeOK(t)
    /\ t.op = "none" => build[p] = NoSpace
    /\ t.op # "none" => state[p] = "RUNNABLE"
    /\ t.op \in Mappers => FrontOK(build[p], t.at)
    /\ t.op = "headers" => FrontOK(build[p], RoundUp(t.size))
    /\ t.op = "grow" => GrowOK(p, t)
    /\ t.op = "fork" => ForkOK(p, t)
    /\ t.op = "segment" => SegmentOK(t)
    /\ t.op = "stack" => StackOK(t)
    /\ fresh[p] # None =>
         /\ t.op \in Mappers /\ t.at <= t.last /\ (t.op = "fork" => t.left = 0)
         /\ NeedsTable(build[p], t.at)

\* The slots of the process table.
SlotsOK ==
  /\ \A p \in Procs : state[p] \in {"UNUSED", "EMBRYO", "RUNNABLE", "ZOMBIE"}
  /\ \A p \in Procs : state[p] = "UNUSED" => kstack[p] = None
  /\ \A p \in Procs : state[p] \in {"UNUSED", "EMBRYO"} => pgdir[p] = NoSpace /\ sz[p] = 0
  /\ boot # "up" => \A p \in Procs : state[p] = "UNUSED"
  /\ \A p, q \in Procs : p # q /\ task[p].op = "fork" /\ task[q].op = "fork" =>
       task[p].child # task[q].child

ShapeInv ==
  /\ MemTypeOK /\ SlotsOK
  /\ \A p \in Procs : ExtentOK(p) /\ TaskOK(p)

\* The pages that main has given to the allocator so far.
GivenPages ==
  CASE boot = "kinit1" -> {}
    [] boot \in {"startothers", "kinit2"} -> freerange(EndOfKernel, EntryMapped)
    [] OTHER -> freerange(EndOfKernel, PHYSTOP)

\* The pages A are divided between F, K and the owners.
Divided(F, K, O, A) ==
  /\ F \subseteq A /\ K \subseteq A /\ F \cap K = {}
  /\ \A p \in Procs : O[p] \subseteq A /\ O[p] \cap F = {} /\ O[p] \cap K = {}
  /\ \A p, q \in Procs : p # q => O[p] \cap O[q] = {}
  /\ \A g \in A : g \in F \/ g \in K \/ \E p \in Procs : g \in O[p]

KernelOK ==
  /\ IF boot \in {"kinit1", "startothers"} THEN kernel = {}
     ELSE IsFiniteSet(kernel) /\ Cardinality(kernel) = SetupPages + NCPU - 1
  /\ kernel \cap pipes = {} /\ (boot # "up" => pipes = {})

\* The spaces of a process: no page twice, and apart unless one becomes the other; and
\* the page that is not mapped yet is in none of them.
ApartOK(p) ==
  /\ UsedOnce(pgdir[p]) /\ UsedOnce(build[p])
  /\ kstack[p] \notin PagesOf(pgdir[p]) /\ kstack[p] \notin PagesOf(build[p])
  /\ task[p].op \in Builders => PagesOf(build[p]) \cap PagesOf(pgdir[p]) = {}
  /\ fresh[p] # None => /\ fresh[p] \notin PagesOf(pgdir[p]) /\ fresh[p] \notin PagesOf(build[p])
                        /\ fresh[p] # kstack[p]

UseInv ==
  /\ Divided(free, kernel \cup pipes, [p \in Procs |-> Owned(p)], GivenPages)
  /\ KernelOK
  /\ \A p \in Procs : ApartOK(p)

\* What the pages hold.
GrowData(p) ==
  \A v \in UPages : v >= RoundUp(sz[p]) /\ v < task[p].at => mem[build[p].pte[v]] = "zero"
ForkData(p) ==
  \A v \in UPages : v < task[p].at => mem[build[p].pte[v]] = view[p][v]
StackData(p) ==
  RoundUp(task[p].size) < task[p].at => mem[build[p].pte[RoundUp(task[p].size)]] = "zero"

\* What the next page is filled with, and the page that waits for its page table.
Content(p) == IF task[p].op = "fork" THEN view[p][task[p].at] ELSE "zero"
FreshData(p) == fresh[p] # None => mem[fresh[p]] = Content(p)

PrivateOK(p) ==
  \A v \in UPages : IF view[p][v] = "nothing" THEN pgdir[p].pte[v] = None
                    ELSE pgdir[p].pte[v] # None /\ mem[pgdir[p].pte[v]] = view[p][v]

DataOK(p) ==
  /\ PrivateOK(p)
  /\ FreshData(p)
  /\ task[p].op = "grow" => GrowData(p)
  /\ task[p].op = "fork" => ForkData(p)
  /\ task[p].op = "stack" => StackData(p)

DataInv ==
  /\ \A g \in Pages : mem[g] # "nothing"
  /\ \A g \in pipes : mem[g] = "pipe"
  /\ \A p \in Procs : DataOK(p)

-----------------------------------------------------------------------------
(* Pages and sizes *)

\* Multiples are ordered as their factors.
LEMMA Multiples ==
  ASSUME NEW a \in Nat, NEW b \in Nat, NEW n \in Nat, a <= b
  PROVE  n * a <= n * b
<1>1. PICK d \in Nat : b = a + d
  <2>1. b - a \in Nat /\ b = a + (b - a)
    OBVIOUS
  <2> QED BY <2>1
<1>2. n * b = n * a + n * d /\ n * d \in Nat /\ n * a \in Nat
  BY <1>1
<1> QED
  BY <1>2

\* What a quotient is not below.
LEMMA Quotient ==
  ASSUME NEW a \in Nat, NEW m \in Nat \ {0}, NEW n \in Nat
  PROVE  a \div m \in Nat /\ (a \div m >= n <=> a >= n * m)
<1>1. PICK q \in Nat, x \in Nat : q = a \div m /\ x = m * q /\ x <= a /\ a < x + m
  OBVIOUS
<1>2. PICK y \in Nat : y = n * m
  OBVIOUS
<1>3. ASSUME q >= n PROVE a >= y
  <2>1. m * n <= m * q /\ m * n = y
    BY <1>2, <1>3, Multiples
  <2> QED
    BY <1>1, <2>1
<1>4. ASSUME q + 1 <= n PROVE a < y
  <2>1. m * (q + 1) <= m * n /\ m * n = y
    BY <1>2, <1>4, Multiples
  <2>2. m * (q + 1) = x + m
    BY <1>1
  <2> QED
    BY <1>1, <2>1, <2>2
<1> QED
  BY <1>1, <1>2, <1>3, <1>4

\* The constants, one by one.
LEMMA Sizes ==
  /\ PGSIZE \in Nat \ {0} /\ EntryMapped \in Nat \ {0} /\ PHYSTOP \in Nat \ {0}
  /\ KERNBASE \in Nat \ {0} /\ UINT \in Nat \ {0} /\ NPTE \in Nat \ {0}
  /\ KTables \in Nat \ {0} /\ NCPU \in Nat \ {0} /\ EndOfKernel \in Nat
  /\ PGSIZE < KERNBASE /\ KERNBASE + PGSIZE < UINT
  /\ EndOfKernel <= EntryMapped /\ EntryMapped <= PHYSTOP
  /\ initproc \in Procs /\ SetupPages \in Nat \ {0}
BY MemoryAssumption DEF SetupPages

\* PGROUNDUP: a page is below it when it begins below the address.
LEMMA RoundUpIs ==
  ASSUME NEW a \in Nat
  PROVE  RoundUp(a) \in Nat /\ \A v \in Nat : v < RoundUp(a) <=> v * PGSIZE < a
<1>1. PICK b \in Nat : b = a + PGSIZE - 1
  BY Sizes
<1>2. RoundUp(a) = b \div PGSIZE /\ b \div PGSIZE \in Nat
  BY <1>1, Quotient, Sizes DEF RoundUp
<1>3. ASSUME NEW v \in Nat PROVE v < RoundUp(a) <=> v * PGSIZE < a
  <2>1. b \div PGSIZE >= v + 1 <=> b >= (v + 1) * PGSIZE
    BY Quotient, Sizes
  <2>2. PICK x \in Nat : x = v * PGSIZE /\ (v + 1) * PGSIZE = x + PGSIZE
    BY Sizes
  <2> QED
    BY <1>1, <1>2, <2>1, <2>2, Sizes
<1> QED
  BY <1>2, <1>3

\* The pages of user space.
LEMMA UserPages ==
  /\ KERNBASE \div PGSIZE \in Nat \ {0} /\ UPages = 0 .. KERNBASE \div PGSIZE - 1
  /\ \A v \in Nat : v \in UPages <=> v * PGSIZE < KERNBASE
<1>1. PICK k \in Nat : k = KERNBASE \div PGSIZE /\ KERNBASE = k * PGSIZE
  BY MemoryAssumption, Sizes
<1>2. ASSUME NEW v \in Nat PROVE v < k <=> v * PGSIZE < KERNBASE
  <2>1. KERNBASE \div PGSIZE >= v <=> KERNBASE >= v * PGSIZE
    BY Quotient, Sizes
  <2>2. KERNBASE \div PGSIZE >= v + 1 <=> KERNBASE >= (v + 1) * PGSIZE
    BY Quotient, Sizes
  <2>3. PICK x \in Nat : x = v * PGSIZE /\ (v + 1) * PGSIZE = x + PGSIZE
    BY Sizes
  <2>4. ASSUME v >= k PROVE v * PGSIZE >= KERNBASE
    <3>1. PGSIZE * k <= PGSIZE * v
      BY <2>4, Multiples, Sizes
    <3>2. PGSIZE * k = KERNBASE /\ PGSIZE * v = x
      BY <1>1, <2>3, Sizes
    <3> QED
      BY <2>3, <3>1, <3>2
  <2> QED
    BY <1>1, <2>2, <2>3, <2>4, Sizes
<1>3. k # 0
  <2>1. KERNBASE >= 1 * PGSIZE
    BY Sizes
  <2> QED
    BY <1>1, <2>1, Quotient, Sizes
<1> QED
  BY <1>1, <1>2, <1>3 DEF UPages

\* The pages below a size below KERNBASE are pages of user space.
LEMMA BelowSize ==
  ASSUME NEW a \in 0 .. KERNBASE - 1
  PROVE  /\ RoundUp(a) \in 0 .. KERNBASE \div PGSIZE
         /\ \A v \in Nat : v < RoundUp(a) <=> v * PGSIZE < a
<1>1. a \in Nat /\ a < KERNBASE
  BY Sizes
<1>2. RoundUp(a) \in Nat /\ \A v \in Nat : v < RoundUp(a) <=> v * PGSIZE < a
  BY <1>1, RoundUpIs
<1>3. ASSUME RoundUp(a) > KERNBASE \div PGSIZE PROVE FALSE
  <2>1. PICK v \in Nat : v = KERNBASE \div PGSIZE
    BY UserPages
  <2>2. PICK x \in Nat : x = v * PGSIZE
    BY Sizes
  <2>3. x < a /\ ~(x < KERNBASE)
    BY <1>2, <1>3, <2>1, <2>2, UserPages
  <2> QED
    BY <1>1, <2>2, <2>3, Sizes
<1> QED
  BY <1>2, <1>3, UserPages

\* Sizes and page numbers grow together.
LEMMA RoundUpGrows ==
  ASSUME NEW a \in Nat, NEW b \in Nat, a <= b
  PROVE  RoundUp(a) <= RoundUp(b)
<1>1. RoundUp(a) \in Nat /\ RoundUp(b) \in Nat
  BY RoundUpIs
<1>2. ASSUME RoundUp(b) < RoundUp(a) PROVE FALSE
  <2>1. PICK v \in Nat, x \in Nat : v = RoundUp(b) /\ x = v * PGSIZE
    BY <1>1, Sizes
  <2>2. x < a
    BY <1>2, <2>1, RoundUpIs
  <2>3. ~(x < b)
    BY <2>1, RoundUpIs
  <2> QED
    BY <2>1, <2>2, <2>3
<1> QED
  BY <1>1, <1>2

\* The page table of a user page.
LEMMA TableOf ==
  ASSUME NEW v \in UPages
  PROVE  v \div NPTE \in UTables
<1>1. PICK k \in Nat \ {0} : k = KERNBASE \div PGSIZE /\ UPages = 0 .. k - 1
  BY UserPages
<1>2. Cardinality(UPages) = k
  BY <1>1, FS_Interval
<1>3. v \in Nat /\ v <= k - 1
  BY <1>1
<1>4. PICK q \in Nat, x \in Nat : q = v \div NPTE /\ x = q * NPTE /\ x <= v
  BY <1>3, Sizes
<1>5. PICK b \in Nat : b = k + NPTE - 1
  BY Sizes
<1>6. b >= (q + 1) * NPTE
  <2>1. (q + 1) * NPTE = x + NPTE
    BY <1>4, Sizes
  <2> QED
    BY <1>3, <1>4, <1>5, <2>1, Sizes
<1>7. b \div NPTE \in Nat /\ b \div NPTE >= q + 1
  BY <1>6, Quotient, Sizes
<1>8. UTables = 0 .. b \div NPTE - 1
  BY <1>2, <1>5 DEF UTables
<1> QED
  BY <1>4, <1>7, <1>8

\* main gives the allocator all pages above the kernel, in two parts.
LEMMA TwoRanges ==
  /\ freerange(EndOfKernel, EntryMapped) \cup freerange(EntryMapped, PHYSTOP)
       = freerange(EndOfKernel, PHYSTOP)
  /\ freerange(EndOfKernel, EntryMapped) \cap freerange(EntryMapped, PHYSTOP) = {}
  /\ freerange(EndOfKernel, PHYSTOP) \subseteq Pages /\ IsFiniteSet(Pages) /\ None \notin Pages
<1>1. PICK e \in Nat : EntryMapped = e * PGSIZE
  <2>1. PICK k \in Nat : k = EntryMapped \div PGSIZE /\ EntryMapped = k * PGSIZE
    BY MemoryAssumption, Sizes
  <2> QED
    BY <2>1
<1>2. RoundUp(EntryMapped) \in Nat /\ RoundUp(EndOfKernel) \in Nat
  BY RoundUpIs, Sizes
<1>3. RoundUp(EndOfKernel) <= RoundUp(EntryMapped)
  BY RoundUpGrows, Sizes
<1>4. ASSUME NEW g \in Nat
      PROVE  /\ g < RoundUp(EntryMapped) <=> (g + 1) * PGSIZE <= EntryMapped
             /\ (g + 1) * PGSIZE <= EntryMapped => (g + 1) * PGSIZE <= PHYSTOP
  <2>1. g < RoundUp(EntryMapped) <=> g * PGSIZE < EntryMapped
    BY RoundUpIs, Sizes
  <2>2. PICK x \in Nat : x = g * PGSIZE /\ (g + 1) * PGSIZE = x + PGSIZE
    BY Sizes
  <2>3. ASSUME g < e PROVE x + PGSIZE <= EntryMapped
    <3>1. PGSIZE * (g + 1) <= PGSIZE * e
      BY <2>3, Multiples, Sizes
    <3>2. PGSIZE * (g + 1) = x + PGSIZE /\ PGSIZE * e = EntryMapped
      BY <1>1, <2>2, Sizes
    <3> QED
      BY <3>1, <3>2
  <2>4. ASSUME e <= g PROVE EntryMapped <= x
    <3>1. PGSIZE * e <= PGSIZE * g
      BY <2>4, Multiples, Sizes
    <3>2. PGSIZE * g = x /\ PGSIZE * e = EntryMapped
      BY <1>1, <2>2, Sizes
    <3> QED
      BY <3>1, <3>2
  <2> QED
    BY <2>1, <2>2, <2>3, <2>4, Sizes
<1>5. PICK n \in Int : Pages = 0 .. n
  <2>1. PHYSTOP \div PGSIZE - 1 \in Int
    BY Sizes
  <2> QED
    BY <2>1 DEF Pages
<1>6. IsFiniteSet(Pages) /\ Pages \subseteq Nat /\ None \notin Pages
  BY <1>5, FS_Interval DEF None
<1>7. /\ freerange(EndOfKernel, EntryMapped) \cup freerange(EntryMapped, PHYSTOP)
           = freerange(EndOfKernel, PHYSTOP)
      /\ freerange(EndOfKernel, EntryMapped) \cap freerange(EntryMapped, PHYSTOP) = {}
  <2>1. ASSUME NEW g \in Pages
        PROVE  /\ g \in freerange(EndOfKernel, EntryMapped) \/ g \in freerange(EntryMapped, PHYSTOP)
                    <=> g \in freerange(EndOfKernel, PHYSTOP)
               /\ ~(g \in freerange(EndOfKernel, EntryMapped) /\ g \in freerange(EntryMapped, PHYSTOP))
    <3>1. PICK y \in Nat : y = (g + 1) * PGSIZE /\ g \in Nat
      BY <1>6, Sizes
    <3>2. /\ g < RoundUp(EntryMapped) <=> y <= EntryMapped
          /\ y <= EntryMapped => y <= PHYSTOP
      BY <1>4, <3>1
    <3>3. /\ g \in freerange(EndOfKernel, EntryMapped) <=> g >= RoundUp(EndOfKernel) /\ y <= EntryMapped
          /\ g \in freerange(EntryMapped, PHYSTOP) <=> g >= RoundUp(EntryMapped) /\ y <= PHYSTOP
          /\ g \in freerange(EndOfKernel, PHYSTOP) <=> g >= RoundUp(EndOfKernel) /\ y <= PHYSTOP
      BY <3>1 DEF freerange
    <3> QED
      BY <1>2, <1>3, <3>1, <3>2, <3>3
  <2>2. ASSUME NEW a, NEW b PROVE freerange(a, b) \subseteq Pages
    BY DEF freerange
  <2> QED
    BY <2>1, <2>2
<1> QED
  BY <1>6, <1>7 DEF freerange

-----------------------------------------------------------------------------
(* kalloc *)

\* Some n pages of a finite set.
LEMMA SubsetOfSize ==
  ASSUME NEW S, IsFiniteSet(S), NEW n \in Nat, n <= Cardinality(S)
  PROVE  \E T \in SUBSET S : Cardinality(T) = n
<1>1. Cardinality(S) \in Nat /\ ExistsBijection(1 .. Cardinality(S), S)
  BY FS_CardinalityType
<1>2. PICK f \in [1 .. Cardinality(S) -> S] :
        /\ \A i, j \in 1 .. Cardinality(S) : f[i] = f[j] => i = j
        /\ \A x \in S : \E i \in 1 .. Cardinality(S) : f[i] = x
  BY <1>1 DEF ExistsBijection, Bijection, Injection, Surjection, IsInjective
<1> DEFINE T == {f[i] : i \in 1 .. n}
           h == [i \in 1 .. n |-> f[i]]
<1>3. 1 .. n \subseteq 1 .. Cardinality(S)
  BY <1>1
<1>4. T \in SUBSET S
  BY <1>2, <1>3
<1>5. h \in Bijection(1 .. n, T)
  <2>1. h \in [1 .. n -> T] /\ \A i, j \in 1 .. n : h[i] = h[j] => i = j
    BY <1>2, <1>3
  <2>2. \A x \in T : \E i \in 1 .. n : h[i] = x
    OBVIOUS
  <2> QED
    BY <2>1, <2>2 DEF Bijection, Injection, Surjection, IsInjective
<1>6. ExistsBijection(1 .. n, T)
  BY <1>5 DEF ExistsBijection
<1>7. IsFiniteSet(1 .. n) /\ Cardinality(1 .. n) = n
  BY FS_Interval
<1> HIDE DEF T, h
<1>8. Cardinality(T) = n
  BY <1>6, <1>7, FS_Bijection
<1> QED
  BY <1>4, <1>8

\* main gets as many pages as it asks for while there are as many.
LEMMA Allocated ==
  ASSUME IsFiniteSet(free), NEW n \in Nat, n <= Cardinality(free)
  PROVE  kallocs(n) \subseteq free /\ Cardinality(kallocs(n)) = n /\ IsFiniteSet(kallocs(n))
<1>1. \E T \in SUBSET free : Cardinality(T) = n
  BY SubsetOfSize
<1>2. kallocs(n) \in SUBSET free /\ Cardinality(kallocs(n)) = n
  BY <1>1 DEF kallocs
<1> QED
  BY <1>2, FS_Subset

\* One page of several.
LEMMA OneOf ==
  ASSUME NEW S, IsFiniteSet(S), NEW n \in Nat, Cardinality(S) = n + 1
  PROVE  One(S) \in S /\ IsFiniteSet(S \ {One(S)}) /\ Cardinality(S \ {One(S)}) = n
<1>1. S # {}
  BY FS_EmptySet
<1>2. One(S) \in S
  BY <1>1 DEF One
<1> QED
  BY <1>2, FS_RemoveElement

-----------------------------------------------------------------------------
(* Address spaces *)

\* The empty space.
LEMMA EmptySpace ==
  /\ IsSpace(NoSpace) /\ UsedOnce(NoSpace) /\ PagesOf(NoSpace) = {}
  /\ \A v \in UPages : NoSpace.pte[v] = None
<1>1. IsSpace(NoSpace) /\ \A v \in UPages : NoSpace.pte[v] = None
  BY DEF IsSpace, NoSpace
<1>2. Tables(NoSpace) \subseteq {None} /\ Mapped(NoSpace) \subseteq {None}
  BY DEF Tables, Mapped, NoSpace
<1>3. NoSpace.dir = {} /\ \A k \in UTables : NoSpace.tabs[k] = None
  BY DEF NoSpace
<1> QED
  BY <1>1, <1>2, <1>3 DEF UsedOnce, PagesOf, freevm

\* A directory from setupkvm, with nothing mapped.
LEMMA NewSpace ==
  ASSUME NEW D \in SUBSET Pages, NEW s, s = [NoSpace EXCEPT !.dir = D]
  PROVE  /\ IsSpace(s) /\ UsedOnce(s) /\ PagesOf(s) = D
         /\ \A v \in UPages : s.pte[v] = None
         /\ \A k \in UTables : s.tabs[k] = None
<1>1. /\ DOMAIN s = {"dir", "tabs", "pte", "user"} /\ s.dir = D /\ s.user = {}
      /\ s.tabs = [k \in UTables |-> None] /\ s.pte = [v \in UPages |-> None]
  BY DEF NoSpace
<1>2. IsSpace(s)
  BY <1>1 DEF IsSpace
<1>3. Mapped(s) \subseteq {None} /\ Tables(s) \subseteq D \cup {None} /\ D \subseteq Tables(s)
  BY <1>1 DEF Tables, Mapped
<1>4. None \notin D
  BY TwoRanges
<1>5. UsedOnce(s)
  BY <1>1, <1>3, <1>4 DEF UsedOnce
<1>6. PagesOf(s) = D
  BY <1>3, <1>4 DEF PagesOf, freevm
<1> QED
  BY <1>1, <1>2, <1>5, <1>6

\* setupkvm adds a page.
LEMMA LargerSpace ==
  ASSUME NEW s, IsSpace(s), UsedOnce(s), NEW g \in Pages, g \notin PagesOf(s),
         NEW new, new = [s EXCEPT !.dir = @ \cup {g}]
  PROVE  /\ IsSpace(new) /\ UsedOnce(new) /\ PagesOf(new) = PagesOf(s) \cup {g}
         /\ new.pte = s.pte /\ new.tabs = s.tabs /\ new.dir = s.dir \cup {g}
<1>1. /\ DOMAIN new = {"dir", "tabs", "pte", "user"} /\ new.dir = s.dir \cup {g}
      /\ new.user = s.user /\ new.tabs = s.tabs /\ new.pte = s.pte
  BY DEF IsSpace
<1>2. IsSpace(new)
  BY <1>1 DEF IsSpace
<1>3. Mapped(new) = Mapped(s) /\ Tables(new) = Tables(s) \cup {g}
  BY <1>1 DEF Tables, Mapped
<1>4. g # None
  BY TwoRanges
<1>5. g \notin Mapped(s) /\ g \notin Tables(s)
  BY <1>4 DEF PagesOf, freevm
<1>6. \A k \in UTables : s.tabs[k] # g
  BY <1>5 DEF Tables
<1>7. UsedOnce(new)
  BY <1>1, <1>3, <1>5, <1>6 DEF UsedOnce
<1>8. PagesOf(new) = PagesOf(s) \cup {g}
  BY <1>3, <1>4 DEF PagesOf, freevm
<1> QED
  BY <1>1, <1>2, <1>7, <1>8

\* The pages of a space by what refers to them.
LEMMA PageOf ==
  ASSUME NEW s, NEW g
  PROVE  g \in PagesOf(s) <=>
           /\ g # None
           /\ \/ g \in s.dir
              \/ \E k \in UTables : g = s.tabs[k]
              \/ \E v \in UPages : g = s.pte[v]
BY DEF PagesOf, freevm, Tables, Mapped

\* mappages enters one page, and a page table where there was none.
LEMMA MappedPage ==
  ASSUME NEW s, IsSpace(s), UsedOnce(s), NEW v \in UPages, s.pte[v] = None,
         NEW g \in Pages, g \notin PagesOf(s), NEW t,
         NeedsTable(s, v) => t \in Pages /\ t \notin PagesOf(s) /\ t # g,
         NEW new, new = mappages(s, v, g, t)
  PROVE  /\ IsSpace(new) /\ UsedOnce(new)
         /\ PagesOf(new) = PagesOf(s) \cup {g} \cup (IF NeedsTable(s, v) THEN {t} ELSE {})
         /\ new.dir = s.dir /\ new.pte[v] = g
         /\ \A w \in UPages : w # v => new.pte[w] = s.pte[w]
         /\ \A k \in UTables : s.tabs[k] # None => new.tabs[k] = s.tabs[k]
<1>1. PICK k \in UTables : k = v \div NPTE
  BY TableOf
<1>2. /\ DOMAIN new = {"dir", "tabs", "pte", "user"} /\ new.dir = s.dir
      /\ new.user = s.user \cup {v} /\ new.pte = [s.pte EXCEPT ![v] = g]
      /\ new.tabs = [s.tabs EXCEPT ![k] = IF s.tabs[k] = None THEN t ELSE s.tabs[k]]
  BY <1>1 DEF IsSpace, mappages
<1>3. NeedsTable(s, v) <=> s.tabs[k] = None
  BY <1>1 DEF NeedsTable
<1>4. /\ DOMAIN s.pte = UPages /\ DOMAIN s.tabs = UTables /\ None \notin Pages
      /\ \A w \in UPages : s.pte[w] \in Pages \cup {None}
      /\ \A j \in UTables : s.tabs[j] \in Pages \cup {None}
  BY TwoRanges DEF IsSpace
<1>5. /\ \A w \in UPages : new.pte[w] = IF w = v THEN g ELSE s.pte[w]
      /\ \A j \in UTables : new.tabs[j] = IF j = k /\ NeedsTable(s, v) THEN t ELSE s.tabs[j]
  BY <1>2, <1>3, <1>4
<1>6. IsSpace(new)
  <2>1. new.pte \in [UPages -> Pages \cup {None}]
    BY <1>2 DEF IsSpace
  <2>2. new.tabs \in [UTables -> Pages \cup {None}]
    BY <1>2, <1>3, <1>4 DEF IsSpace
  <2> QED
    BY <1>2, <2>1, <2>2 DEF IsSpace
<1>7. ASSUME NEW x PROVE x \in PagesOf(new) <=> x \in PagesOf(s) \/ x = g \/ (NeedsTable(s, v) /\ x = t)
  <2>1. x \in PagesOf(new) <=>
          /\ x # None
          /\ \/ x \in s.dir
             \/ \E j \in UTables : x = IF j = k /\ NeedsTable(s, v) THEN t ELSE s.tabs[j]
             \/ \E w \in UPages : x = IF w = v THEN g ELSE s.pte[w]
    <3>1. x \in PagesOf(new) <=>
            /\ x # None
            /\ \/ x \in new.dir
               \/ \E j \in UTables : x = new.tabs[j]
               \/ \E w \in UPages : x = new.pte[w]
      BY PageOf
    <3> QED
      BY <1>2, <1>5, <3>1
  <2>2. x \in PagesOf(s) <=>
          /\ x # None
          /\ \/ x \in s.dir
             \/ \E j \in UTables : x = s.tabs[j]
             \/ \E w \in UPages : x = s.pte[w]
    BY PageOf
  <2> QED
    BY <1>3, <1>4, <2>1, <2>2
<1>8. UsedOnce(new)
  <2>1. \A w \in UPages : s.pte[w] # None => s.pte[w] \in PagesOf(s)
    BY PageOf
  <2>2. \A x, y \in UPages : x # y /\ new.pte[x] # None => new.pte[x] # new.pte[y]
    BY <1>4, <1>5, <2>1 DEF UsedOnce
  <2>3. ASSUME NEW x, x \in Tables(new), x \in Mapped(new), x # None PROVE FALSE
    <3>1. PICK w \in UPages : x = new.pte[w]
      BY <2>3 DEF Mapped
    <3>2. x \in s.dir \/ \E j \in UTables : x = new.tabs[j]
      BY <1>2, <2>3 DEF Tables
    <3>3. x \in Tables(s) \/ (NeedsTable(s, v) /\ x = t)
      BY <1>5, <3>2 DEF Tables
    <3>4. x \in Mapped(s) \/ x = g
      BY <1>5, <3>1 DEF Mapped
    <3>5. x \in PagesOf(s) \/ (NeedsTable(s, v) /\ x = t)
      BY <2>3, <3>3 DEF PagesOf, freevm
    <3>6. x # g
      BY <3>5
    <3>7. x \in PagesOf(s)
      BY <2>3, <3>4, <3>6 DEF PagesOf, freevm
    <3>8. x \in Tables(s)
      BY <3>3, <3>7
    <3> QED
      BY <2>3, <3>4, <3>6, <3>8 DEF UsedOnce
  <2>4. \A j \in UTables : s.tabs[j] # None => s.tabs[j] \in PagesOf(s)
    BY PageOf
  <2>5. \A i, j \in UTables : i # j /\ new.tabs[i] # None => new.tabs[i] # new.tabs[j]
    BY <1>4, <1>5, <2>4 DEF UsedOnce
  <2>6. \A x \in s.dir : x \in PagesOf(s)
    <3>1. s.dir \subseteq Pages
      BY DEF IsSpace
    <3> QED
      BY <1>4, <3>1, PageOf
  <2>7. \A j \in UTables : new.tabs[j] \notin new.dir
    BY <1>2, <1>4, <1>5, <2>6 DEF UsedOnce
  <2> QED
    BY <2>2, <2>3, <2>5, <2>7 DEF UsedOnce
<1> QED
  BY <1>2, <1>4, <1>5, <1>6, <1>7, <1>8

\* deallocuvm takes pages away and leaves the tables.
LEMMA Unmapped ==
  ASSUME NEW s, IsSpace(s), UsedOnce(s), NEW gone \in SUBSET UPages,
         NEW new, new = deallocuvm(s, gone)
  PROVE  /\ IsSpace(new) /\ UsedOnce(new) /\ new.dir = s.dir /\ new.user = s.user \ gone
         /\ PagesOf(new) = PagesOf(s) \ {s.pte[v] : v \in gone}
         /\ \A v \in UPages : new.pte[v] = IF v \in gone THEN None ELSE s.pte[v]
<1>1. /\ DOMAIN new = {"dir", "tabs", "pte", "user"} /\ new.dir = s.dir /\ new.tabs = s.tabs
      /\ new.user = s.user \ gone
      /\ new.pte = [v \in UPages |-> IF v \in gone THEN None ELSE s.pte[v]]
  BY DEF IsSpace, deallocuvm
<1>2. \A v \in UPages : new.pte[v] = IF v \in gone THEN None ELSE s.pte[v]
  BY <1>1
<1>3. IsSpace(new)
  BY <1>1 DEF IsSpace
<1>4. UsedOnce(new)
  <2>1. Tables(new) = Tables(s) /\ Mapped(new) \subseteq Mapped(s) \cup {None}
    BY <1>1, <1>2 DEF Tables, Mapped
  <2>2. new.tabs = s.tabs /\ new.dir = s.dir
    BY <1>1
  <2> QED
    BY <1>2, <2>1, <2>2 DEF UsedOnce
<1>5. ASSUME NEW x PROVE x \in PagesOf(new) <=> x \in PagesOf(s) /\ x \notin {s.pte[v] : v \in gone}
  <2>1. CASE \E v \in gone : x = s.pte[v] /\ x # None
    <3>1. PICK v \in gone : x = s.pte[v] /\ x # None
      BY <2>1
    <3>2. x \in Mapped(s) /\ x \notin Tables(s)
      BY <3>1 DEF UsedOnce, Mapped
    <3>3. \A w \in UPages : x # new.pte[w]
      BY <1>2, <3>1 DEF UsedOnce
    <3>4. x \notin Mapped(new) /\ x \notin Tables(new)
      BY <1>1, <3>2, <3>3 DEF Mapped, Tables
    <3> QED
      BY <3>1, <3>4 DEF PagesOf, freevm
  <2>2. CASE ~\E v \in gone : x = s.pte[v] /\ x # None
    <3>1. x \in PagesOf(new) <=>
            /\ x # None
            /\ \/ x \in s.dir
               \/ \E j \in UTables : x = s.tabs[j]
               \/ \E w \in UPages : x = new.pte[w]
      BY <1>1, PageOf
    <3>2. x \in PagesOf(s) <=>
            /\ x # None
            /\ \/ x \in s.dir
               \/ \E j \in UTables : x = s.tabs[j]
               \/ \E w \in UPages : x = s.pte[w]
      BY PageOf
    <3> QED
      BY <1>2, <2>2, <3>1, <3>2
  <2> QED
    BY <2>1, <2>2
<1> QED
  BY <1>1, <1>2, <1>3, <1>4, <1>5

-----------------------------------------------------------------------------
(* The division of the pages *)

\* Pages taken from the free list for a process.
LEMMA TakePages ==
  ASSUME NEW F, NEW K, NEW O, NEW A, Divided(F, K, O, A), NEW p \in Procs,
         NEW T \in SUBSET F, NEW F2, F2 = F \ T,
         NEW O2, O2[p] = O[p] \cup T, \A q \in Procs : q # p => O2[q] = O[q]
  PROVE  Divided(F2, K, O2, A)
BY DEF Divided

\* Pages that one process leaves to another.
LEMMA MovePages ==
  ASSUME NEW F, NEW K, NEW O, NEW A, Divided(F, K, O, A), NEW p \in Procs, NEW c \in Procs,
         p # c, NEW M, M \subseteq O[p],
         NEW O2, O2[p] = O[p] \ M, O2[c] = O[c] \cup M,
         \A q \in Procs : q # p /\ q # c => O2[q] = O[q]
  PROVE  Divided(F, K, O2, A)
BY DEF Divided

-----------------------------------------------------------------------------
(* What a step leaves alone *)

\* A process whose pages, call and state stay as they are.
LEMMA Untouched ==
  ASSUME ShapeInv, NEW q \in Procs, pgdir'[q] = pgdir[q], build'[q] = build[q],
         sz'[q] = sz[q], task'[q] = task[q], state'[q] = state[q], fresh'[q] = fresh[q],
         task[q].op = "fork" => state'[task[q].child] = state[task[q].child]
  PROVE  ExtentOK(q)' /\ TaskOK(q)'
<1>1. ExtentOK(q) /\ TaskOK(q)
  BY DEF ShapeInv
<1>2. ExtentOK(q)'
  BY <1>1 DEF ExtentOK
<1>3. PICK t : t = task[q]
  OBVIOUS
<1>4. t.op = "grow" => GrowOK(q, t)'
  BY <1>1, <1>3 DEF TaskOK, GrowOK
<1>5. t.op = "fork" => ForkOK(q, t)'
  BY <1>1, <1>3 DEF TaskOK, ForkOK
<1>6. TaskOK(q)'
  BY <1>1, <1>3, <1>4, <1>5 DEF TaskOK
<1> QED
  BY <1>2, <1>6

\* The pages of a process whose spaces, stack and call stay as they are.
LEMMA UntouchedPages ==
  ASSUME UseInv, NEW q \in Procs, pgdir'[q] = pgdir[q], build'[q] = build[q],
         kstack'[q] = kstack[q], task'[q] = task[q], fresh'[q] = fresh[q]
  PROVE  ApartOK(q)' /\ Owned(q)' = Owned(q)
BY DEF UseInv, ApartOK, Owned

\* The pages of a process, from its spaces and its stack.
LEMMA OwnedPages ==
  ASSUME NEW p \in Procs
  PROVE  Owned(p) = PagesOf(pgdir[p]) \cup PagesOf(build[p]) \cup ({kstack[p], fresh[p]} \ {None})
BY DEF Owned, PagesOf

\* The free list is a finite set of pages that nobody has.
LEMMA FreePages ==
  ASSUME UseInv
  PROVE  /\ free \subseteq Pages /\ IsFiniteSet(free) /\ Cardinality(free) \in Nat
         /\ \A p \in Procs : /\ free \cap PagesOf(pgdir[p]) = {}
                             /\ free \cap PagesOf(build[p]) = {} /\ kstack[p] \notin free
                             /\ fresh[p] \notin free
<1>1. GivenPages \subseteq Pages
  BY DEF GivenPages, freerange
<1>2. free \subseteq GivenPages /\ \A p \in Procs : Owned(p) \cap free = {}
  BY DEF UseInv, Divided
<1>3. free \in SUBSET Pages
  BY <1>1, <1>2
<1>4. IsFiniteSet(free)
  BY <1>3, TwoRanges, FS_Subset
<1>5. None \notin free
  BY <1>3, TwoRanges
<1> QED
  BY <1>2, <1>3, <1>4, <1>5, OwnedPages, FS_CardinalityType

\* kalloc takes a page of the free list.
LEMMA OnePage ==
  ASSUME UseInv, free # {}
  PROVE  /\ kalloc \in free /\ kalloc \in Pages /\ kalloc # None
         /\ \A p \in Procs : /\ kalloc \notin PagesOf(pgdir[p]) /\ kalloc \notin PagesOf(build[p])
                             /\ kalloc # kstack[p] /\ kalloc # fresh[p]
<1>1. kalloc \in free
  BY DEF kalloc, One
<1> QED
  BY <1>1, FreePages, TwoRanges

\* Pages with an owner, or of pipes, are freed without a panic, and only once.
LEMMA FreesWell ==
  ASSUME UseInv, NEW gs, NEW once, once,
         \A g \in gs \ {None} : g \in pipes \/ \E p \in Procs : g \in Owned(p)
  PROVE  Freeing(gs, once) = "no"
<1>1. ASSUME NEW g \in gs \ {None} PROVE g \in GivenPages /\ g \notin free
  BY <1>1 DEF UseInv, Divided
<1>2. ASSUME NEW g \in GivenPages PROVE g \in Nat /\ ~(g < RoundUp(EndOfKernel))
  <2>1. RoundUp(EndOfKernel) \in Nat /\ RoundUp(EntryMapped) \in Nat
    BY RoundUpIs, Sizes
  <2>2. g \in freerange(EndOfKernel, PHYSTOP) \/ g \in freerange(EndOfKernel, EntryMapped)
    BY <1>2 DEF GivenPages
  <2>3. g \in Pages /\ g >= RoundUp(EndOfKernel)
    BY <2>2 DEF freerange
  <2>4. g \in Nat
    BY <2>3 DEF Pages
  <2> QED
    BY <2>1, <2>3, <2>4
<1>3. ASSUME NEW g \in GivenPages PROVE ~(g * PGSIZE < EndOfKernel)
  <2>1. g \in Nat /\ ~(g < RoundUp(EndOfKernel))
    BY <1>2, <1>3
  <2> QED
    BY <2>1, RoundUpIs, Sizes
<1>4. free \subseteq Pages /\ None \notin Pages
  BY FreePages, TwoRanges
<1>5. gs \cap free = {}
  BY <1>1, <1>4
<1>6. ~\E g \in gs \ {None} : g * PGSIZE < EndOfKernel
  BY <1>1, <1>3
<1> QED
  BY <1>5, <1>6 DEF Freeing

-----------------------------------------------------------------------------
(* The next page of a mapping *)

\* The page g, taken now or waiting, is mapped with the pages T taken for it, which
\* gives the space new.
MapsPage(p, g, T, new) ==
  /\ T \subseteq free /\ free' = free \ T
  /\ g \in Pages /\ g # None /\ (g \in T \/ g = fresh[p]) /\ (fresh[p] # None => g = fresh[p])
  /\ mem' = IF g \in T THEN [mem EXCEPT ![g] = Filling(p)] ELSE mem
  /\ build' = [build EXCEPT ![p] = new] /\ fresh' = [fresh EXCEPT ![p] = None]
  /\ IsSpace(new) /\ UsedOnce(new) /\ PagesOf(new) = PagesOf(build[p]) \cup T \cup {g}
  /\ new.dir = build[p].dir /\ new.pte[task[p].at] = g
  /\ \A w \in UPages : w # task[p].at => new.pte[w] = build[p].pte[w]
  /\ \A k \in UTables : build[p].tabs[k] # None => new.tabs[k] = build[p].tabs[k]

\* The next page to map is a page of user space that is not mapped; it is one of the
\* parent's.
LEMMA NextPage ==
  ASSUME ShapeInv, UseInv, NEW p \in Procs, Mapping(p)
  PROVE  /\ task[p].op \in Mappers /\ task[p].at <= task[p].last /\ task[p].at \in UPages
         /\ build[p].pte[task[p].at] = None /\ ~Missing(p)
         /\ task[p].op = "fork" => task[p].left = 0
<1>1. task[p].op \in Mappers /\ task[p].at <= task[p].last
  BY DEF Mapping, Mappers
<1>2. TaskOK(p) /\ TaskTypeOK(task[p]) /\ ExtentOK(p)
  BY DEF ShapeInv, TaskOK
<1>3. PICK v \in UPages : v = task[p].at
  BY <1>1, <1>2, UserPages DEF TaskTypeOK
<1>4. build[p].pte[v] = None
  <2>1. ~(v < v)
    BY UserPages
  <2> QED
    BY <1>1, <1>2, <1>3, <2>1 DEF TaskOK, FrontOK
<1>5. task[p].op = "fork" => pgdir[p].pte[v] # None
  <2>1. ASSUME task[p].op = "fork" PROVE v < RoundUp(sz[p]) /\ 0 \in pgdir[p].user
    <3>1. task[p].last = RoundUp(sz[p]) - 1 /\ 0 \in pgdir[p].user
      BY <1>2, <2>1 DEF TaskOK, ForkOK
    <3>2. RoundUp(sz[p]) \in Nat
      <4>1. sz[p] \in Nat
        BY DEF ShapeInv, MemTypeOK
      <4> QED
        BY <4>1, RoundUpIs
    <3> QED
      BY <1>1, <1>3, <3>1, <3>2, UserPages
  <2> QED
    BY <1>2, <2>1 DEF ExtentOK
<1>6. task[p].op = "fork" => task[p].left = 0
  <2>1. task[p].op = "fork" => ~(task[p].left > 0) /\ task[p].left \in Nat
    BY <1>2 DEF Mapping, Setting, TaskTypeOK
  <2> QED
    BY <2>1
<1> QED
  BY <1>1, <1>3, <1>4, <1>5, <1>6 DEF Missing

\* The page g is entered in the space, with the page table t where it needs one.
Entered(p, g, t, new) ==
  /\ build' = [build EXCEPT ![p] = new] /\ IsSpace(new) /\ UsedOnce(new)
  /\ PagesOf(new) = PagesOf(build[p]) \cup {g}
       \cup (IF NeedsTable(build[p], task[p].at) THEN {t} ELSE {})
  /\ new.dir = build[p].dir /\ new.pte[task[p].at] = g
  /\ \A w \in UPages : w # task[p].at => new.pte[w] = build[p].pte[w]
  /\ \A k \in UTables : build[p].tabs[k] # None => new.tabs[k] = build[p].tabs[k]

\* mappages enters it.
LEMMA MapsOne ==
  ASSUME ShapeInv, UseInv, NEW p \in Procs, Mapping(p), NEW g \in Pages, g \notin PagesOf(build[p]),
         NEW t, NeedsTable(build[p], task[p].at) => t \in Pages /\ t \notin PagesOf(build[p]) /\ t # g,
         maps(p, g, t)
  PROVE  /\ panicked' = "no"
         /\ task' = [task EXCEPT ![p] = [task[p] EXCEPT !.at = task[p].at + 1]]
         /\ \E new : Entered(p, g, t, new)
<1>1. PICK v \in UPages : v = task[p].at /\ build[p].pte[v] = None
  BY NextPage
<1>2. IsSpace(build[p]) /\ UsedOnce(build[p])
  BY DEF ShapeInv, MemTypeOK, UseInv, ApartOK
<1>3. PICK new : new = mappages(build[p], v, g, t)
  OBVIOUS
<1>4. /\ IsSpace(new) /\ UsedOnce(new)
      /\ PagesOf(new) = PagesOf(build[p]) \cup {g} \cup (IF NeedsTable(build[p], v) THEN {t} ELSE {})
      /\ new.dir = build[p].dir /\ new.pte[v] = g
      /\ \A w \in UPages : w # v => new.pte[w] = build[p].pte[w]
      /\ \A k \in UTables : build[p].tabs[k] # None => new.tabs[k] = build[p].tabs[k]
  BY <1>1, <1>2, <1>3, MappedPage
<1>5. /\ build' = [build EXCEPT ![p] = new] /\ panicked' = "no"
      /\ task' = [task EXCEPT ![p] = [task[p] EXCEPT !.at = task[p].at + 1]]
  BY <1>1, <1>3 DEF maps, does
<1>6. Entered(p, g, t, new)
  BY <1>1, <1>4, <1>5 DEF Entered
<1> QED
  BY <1>5, <1>6

\* A page is mapped, with or without a new page table, or waits for its page table; no
\* panic is met.
LEMMA MapPageDoes ==
  ASSUME ShapeInv, UseInv, NEW p \in Procs, map_page(p) \/ map_table(p)
  PROVE  /\ Mapping(p) /\ UNCHANGED <<boot, kernel, pipes, procVars, calls, panicked>>
         /\ \/ /\ task' = [task EXCEPT ![p] = [task[p] EXCEPT !.at = task[p].at + 1]]
               /\ \E g, T, new : MapsPage(p, g, T, new)
            \/ /\ free # {} /\ free' = free \ {kalloc} /\ fresh[p] = None
               /\ mem' = [mem EXCEPT ![kalloc] = Filling(p)] /\ NeedsTable(build[p], task[p].at)
               /\ fresh' = [fresh EXCEPT ![p] = kalloc] /\ UNCHANGED <<build, task>>
<1>1. Mapping(p) /\ panicked = "no" /\ UNCHANGED <<boot, kernel, pipes, procVars, calls>>
  BY DEF map_page, map_table
<1>2. ~Missing(p)
  BY <1>1, NextPage
<1>3. free # {} /\ free' = free \ {kalloc}
  BY <1>2 DEF map_page, map_table
<1>4. PICK t : t = kalloc
  OBVIOUS
<1>5. /\ t \in free /\ t \in Pages /\ t # None /\ t \notin PagesOf(build[p]) /\ t # fresh[p]
  BY <1>3, <1>4, OnePage
<1>6. fresh \in [Procs -> Pages \cup {None}] /\ panicked = "no"
  BY DEF ShapeInv, MemTypeOK
<1>7. CASE map_page(p) /\ NeedsTable(build[p], task[p].at)
  BY <1>1, <1>2, <1>3, <1>7 DEF map_page
<1>8. CASE map_page(p) /\ ~NeedsTable(build[p], task[p].at)
  <2>1. /\ maps(p, t, None) /\ fresh' = fresh /\ fresh[p] = None
        /\ mem' = [mem EXCEPT ![t] = Filling(p)]
    BY <1>2, <1>4, <1>8 DEF map_page
  <2>2. /\ panicked' = "no"
        /\ task' = [task EXCEPT ![p] = [task[p] EXCEPT !.at = task[p].at + 1]]
        /\ \E new : Entered(p, t, None, new)
    BY <1>1, <1>5, <1>8, <2>1, MapsOne
  <2>3. fresh' = [fresh EXCEPT ![p] = None]
    BY <1>6, <2>1
  <2>4. PICK new : Entered(p, t, None, new)
    BY <2>2
  <2>5. MapsPage(p, t, {t}, new)
    BY <1>3, <1>4, <1>5, <1>8, <2>1, <2>3, <2>4 DEF MapsPage, Entered
  <2> QED
    BY <1>1, <2>2, <2>5
<1>9. CASE map_table(p)
  <2>1. /\ maps(p, fresh[p], t) /\ fresh' = [fresh EXCEPT ![p] = None] /\ fresh[p] # None
        /\ mem' = mem
    BY <1>4, <1>9 DEF map_table
  <2>2. PICK g \in Pages : g = fresh[p] /\ g \notin PagesOf(build[p]) /\ g # t
    BY <1>5, <1>6, <2>1 DEF UseInv, ApartOK
  <2>3. /\ panicked' = "no"
        /\ task' = [task EXCEPT ![p] = [task[p] EXCEPT !.at = task[p].at + 1]]
        /\ \E new : Entered(p, g, t, new)
    BY <1>1, <1>5, <2>1, <2>2, MapsOne
  <2>4. NeedsTable(build[p], task[p].at)
    BY <2>1 DEF ShapeInv, TaskOK
  <2>5. PICK new : Entered(p, g, t, new)
    BY <2>3
  <2>6. MapsPage(p, g, {t}, new)
    BY <1>3, <1>4, <1>5, <2>1, <2>2, <2>4, <2>5 DEF MapsPage, Entered
  <2> QED
    BY <1>1, <2>3, <2>6
<1> QED
  BY <1>7, <1>8, <1>9

-----------------------------------------------------------------------------
(* Steps of one process *)

\* A step after which one process is in order and the others are as they were.
LEMMA ShapeOfStep ==
  ASSUME ShapeInv, MemTypeOK', SlotsOK', NEW p \in Procs, ExtentOK(p)', TaskOK(p)',
         \A q \in Procs : q # p =>
           /\ pgdir'[q] = pgdir[q] /\ build'[q] = build[q] /\ sz'[q] = sz[q]
           /\ task'[q] = task[q] /\ state'[q] = state[q] /\ fresh'[q] = fresh[q]
           /\ task[q].op = "fork" => state'[task[q].child] = state[task[q].child]
  PROVE  ShapeInv'
<1>1. ASSUME NEW q \in Procs, q # p PROVE ExtentOK(q)' /\ TaskOK(q)'
  BY <1>1, Untouched
<1>2. \A q \in Procs : ExtentOK(q)' /\ TaskOK(q)'
  BY <1>1
<1> QED
  BY <1>2 DEF ShapeInv

\* A step in which one process takes pages from the free list.
LEMMA TakingStep ==
  ASSUME UseInv, boot' = boot, kernel' = kernel, pipes' = pipes, NEW p \in Procs, NEW T \in SUBSET free,
         free' = free \ T, Owned(p)' = Owned(p) \cup T, ApartOK(p)',
         \A q \in Procs : q # p =>
           /\ pgdir'[q] = pgdir[q] /\ build'[q] = build[q]
           /\ kstack'[q] = kstack[q] /\ task'[q] = task[q] /\ fresh'[q] = fresh[q]
  PROVE  UseInv'
<1>1. \A q \in Procs : q # p => ApartOK(q)' /\ Owned(q)' = Owned(q)
  <2> SUFFICES ASSUME NEW q \in Procs, q # p PROVE ApartOK(q)' /\ Owned(q)' = Owned(q)
    OBVIOUS
  <2> QED
    BY UntouchedPages
<1>2. GivenPages' = GivenPages /\ KernelOK'
  BY DEF GivenPages, UseInv, KernelOK
<1>3. PICK K, O, O2 : /\ K = kernel \cup pipes /\ O = [q \in Procs |-> Owned(q)]
                      /\ O2 = [q \in Procs |-> Owned(q)']
  OBVIOUS
<1>4. Divided(free, K, O, GivenPages)
  BY <1>3 DEF UseInv
<1>5. O2[p] = O[p] \cup T /\ \A q \in Procs : q # p => O2[q] = O[q]
  BY <1>1, <1>3
<1>6. Divided(free', K, O2, GivenPages)
  <2> PICK F2, A : F2 = free' /\ A = GivenPages
    OBVIOUS
  <2>1. F2 = free \ T /\ Divided(free, K, O, A)
    BY <1>4
  <2>2. O2[p] = O[p] \cup T /\ \A q \in Procs : q # p => O2[q] = O[q]
    BY <1>5
  <2>3. Divided(F2, K, O2, A)
    BY ONLY <2>1, <2>2, TakePages, p \in Procs, T \in SUBSET free
  <2> QED
    BY <2>3
<1> QED
  BY <1>1, <1>2, <1>3, <1>6 DEF UseInv

\* A step in which no page changes hands.
LEMMA KeepingStep ==
  ASSUME UseInv, boot' = boot, kernel' = kernel, pipes' = pipes, NEW p \in Procs,
         free' = free, Owned(p)' = Owned(p), ApartOK(p)',
         \A q \in Procs : q # p =>
           /\ pgdir'[q] = pgdir[q] /\ build'[q] = build[q]
           /\ kstack'[q] = kstack[q] /\ task'[q] = task[q] /\ fresh'[q] = fresh[q]
  PROVE  UseInv'
<1>1. PICK T \in SUBSET free : free' = free \ T /\ Owned(p)' = Owned(p) \cup T
  <2>1. {} \in SUBSET free /\ free' = free \ {} /\ Owned(p)' = Owned(p) \cup {}
    OBVIOUS
  <2> QED
    BY <2>1
<1> QED
  BY <1>1, TakingStep

\* A step in which one process gives pages back.
LEMMA GivingStep ==
  ASSUME UseInv, boot' = boot, kernel' = kernel, pipes' = pipes, NEW p \in Procs, NEW G \in SUBSET Owned(p),
         free' = free \cup G, Owned(p)' = Owned(p) \ G, ApartOK(p)',
         \A q \in Procs : q # p =>
           /\ pgdir'[q] = pgdir[q] /\ build'[q] = build[q]
           /\ kstack'[q] = kstack[q] /\ task'[q] = task[q] /\ fresh'[q] = fresh[q]
  PROVE  UseInv'
<1>1. \A q \in Procs : q # p => ApartOK(q)' /\ Owned(q)' = Owned(q)
  <2> SUFFICES ASSUME NEW q \in Procs, q # p PROVE ApartOK(q)' /\ Owned(q)' = Owned(q)
    OBVIOUS
  <2> QED
    BY UntouchedPages
<1>2. GivenPages' = GivenPages /\ KernelOK'
  BY DEF GivenPages, UseInv, KernelOK
<1>3. PICK K, O, O2 : /\ K = kernel \cup pipes /\ O = [q \in Procs |-> Owned(q)]
                      /\ O2 = [q \in Procs |-> Owned(q)']
  OBVIOUS
<1>4. Divided(free, K, O, GivenPages)
  BY <1>3 DEF UseInv
<1>5. O2[p] = O[p] \ G /\ \A q \in Procs : q # p => O2[q] = O[q]
  BY <1>1, <1>3
<1>6. G \subseteq O[p]
  BY <1>3
<1>7. Divided(free', K, O2, GivenPages)
  <2> PICK F2, A : F2 = free' /\ A = GivenPages
    OBVIOUS
  <2>1. F2 = free \cup G /\ Divided(free, K, O, A)
    BY <1>4
  <2>2. Divided(F2, K, O2, A)
    <3>1. O2[p] = O[p] \ G
      BY <1>5
    <3>2. \A q \in Procs : q # p => O2[q] = O[q]
      BY <1>5
    <3> QED
      BY <1>6, <2>1, <3>1, <3>2 DEF Divided
  <2> QED
    BY <2>2
<1> QED
  BY <1>1, <1>2, <1>3, <1>7 DEF UseInv

\* What the invariants say of one process.
LEMMA AboutProcess ==
  ASSUME ShapeInv, UseInv, NEW p \in Procs
  PROVE  /\ MemTypeOK /\ SlotsOK /\ ExtentOK(p) /\ TaskOK(p) /\ TaskTypeOK(task[p]) /\ ApartOK(p)
         /\ IsSpace(pgdir[p]) /\ IsSpace(build[p]) /\ UsedOnce(pgdir[p]) /\ UsedOnce(build[p])
         /\ sz[p] \in 0 .. KERNBASE - 1 /\ sz[p] \in Nat
         /\ RoundUp(sz[p]) \in 0 .. KERNBASE \div PGSIZE /\ RoundUp(sz[p]) \in Nat
         /\ kstack[p] \in Pages \cup {None} /\ fresh[p] \in Pages \cup {None}
<1>1. /\ MemTypeOK /\ SlotsOK /\ ExtentOK(p) /\ TaskOK(p) /\ TaskTypeOK(task[p]) /\ ApartOK(p)
  BY DEF ShapeInv, UseInv, TaskOK
<1>2. /\ IsSpace(pgdir[p]) /\ IsSpace(build[p]) /\ UsedOnce(pgdir[p]) /\ UsedOnce(build[p])
      /\ sz[p] \in 0 .. KERNBASE - 1 /\ kstack[p] \in Pages \cup {None}
      /\ fresh[p] \in Pages \cup {None}
  BY <1>1 DEF MemTypeOK, ApartOK
<1>3. sz[p] \in Nat
  BY <1>2
<1>4. RoundUp(sz[p]) \in 0 .. KERNBASE \div PGSIZE /\ RoundUp(sz[p]) \in Nat
  BY <1>2, <1>3, BelowSize, RoundUpIs
<1> QED
  BY <1>1, <1>2, <1>3, <1>4

\* A page that is mapped keeps the invariants.
LEMMA MappedKeeps ==
  ASSUME ShapeInv, UseInv, NEW p \in Procs, Mapping(p),
         UNCHANGED <<boot, kernel, pipes, procVars, calls, panicked>>,
         task' = [task EXCEPT ![p] = [task[p] EXCEPT !.at = task[p].at + 1]],
         NEW g, NEW taken, NEW new, MapsPage(p, g, taken, new)
  PROVE  ShapeInv' /\ UseInv'
<1>1. /\ task[p].op \in Mappers /\ task[p].at <= task[p].last /\ task[p].at \in UPages
      /\ task[p].op = "fork" => task[p].left = 0
      /\ UNCHANGED <<boot, kernel, pipes, procVars, calls, panicked>>
      /\ task' = [task EXCEPT ![p] = [task[p] EXCEPT !.at = task[p].at + 1]]
  BY NextPage
<1>2. MapsPage(p, g, taken, new)
  OBVIOUS
<1>3. UNCHANGED <<state, kstack, pgdir, sz, view>>
  BY <1>1 DEF procVars
<1>4. PICK t, v : t = task[p] /\ v = t.at
  OBVIOUS
<1>5. /\ MemTypeOK /\ SlotsOK /\ ExtentOK(p) /\ TaskOK(p) /\ TaskTypeOK(t) /\ ApartOK(p)
      /\ RoundUp(sz[p]) \in Nat
  BY <1>4, AboutProcess
<1>6. v \in Nat /\ v \in UPages /\ v < KERNBASE \div PGSIZE /\ KERNBASE \div PGSIZE \in Nat
  BY <1>1, <1>4, UserPages
<1>7. /\ build' = [build EXCEPT ![p] = new] /\ build'[p] = new
      /\ \A q \in Procs : q # p => build'[q] = build[q] /\ task'[q] = task[q]
      /\ DOMAIN build' = Procs /\ DOMAIN task' = Procs /\ DOMAIN mem' = Pages
      /\ task'[p] = [t EXCEPT !.at = v + 1] /\ fresh'[p] = None
      /\ \A q \in Procs : q # p => fresh'[q] = fresh[q]
      /\ fresh' \in [Procs -> Pages \cup {None}]
  BY <1>1, <1>2, <1>4, <1>5 DEF MapsPage, MemTypeOK, ShapeInv
<1>8. PICK u : u = [t EXCEPT !.at = v + 1]
  OBVIOUS
<1>9. /\ DOMAIN u = DOMAIN t /\ u.op = t.op /\ u.at = v + 1 /\ u.last = t.last
      /\ t.op \in Executing => u.prog = t.prog /\ u.args = t.args /\ u.size = t.size
      /\ t.op = "grow" => u.n = t.n
      /\ t.op = "fork" => u.child = t.child /\ u.left = t.left
  <2>1. t.op \in Mappers /\ {"op", "at", "last"} \subseteq DOMAIN t
    BY <1>1, <1>4, <1>5 DEF TaskTypeOK
  <2> QED
    BY <1>5, <1>8, <2>1 DEF TaskTypeOK
<1>10. t.op \in Mappers /\ v <= t.last /\ t.last \in Int
  BY <1>1, <1>4, <1>5 DEF TaskTypeOK
<1>11. TaskTypeOK(u)
  BY <1>5, <1>6, <1>9, <1>10 DEF TaskTypeOK, Mappers
<1>12. FrontOK(new, v + 1)
  <2>1. \A w \in UPages : w # v => new.pte[w] = build[p].pte[w]
    BY <1>2, <1>4 DEF MapsPage
  <2>2. new.pte[v] # None
    BY <1>2, <1>4 DEF MapsPage
  <2>3. \A w \in UPages : build[p].pte[w] # None <=> w < v
    BY <1>4, <1>5, <1>10 DEF TaskOK, FrontOK
  <2>4. \A w \in UPages : w \in Nat
    BY UserPages
  <2> QED
    BY <1>6, <2>1, <2>2, <2>3, <2>4 DEF FrontOK
<1>13. MemTypeOK'
  BY <1>1, <1>2, <1>3, <1>5, <1>7 DEF MemTypeOK, MapsPage
<1>14. SlotsOK'
  <2>1. ASSUME NEW q \in Procs
        PROVE  task'[q].op = task[q].op /\ (task[q].op = "fork" => task'[q].child = task[q].child)
    BY <1>4, <1>7, <1>8, <1>9
  <2> QED
    BY <1>1, <1>3, <1>5, <2>1 DEF SlotsOK
<1>15. ExtentOK(p)'
  BY <1>3, <1>5 DEF ExtentOK
<1>16. TaskOK(p)'
  <2>1. u.op = "grow" => GrowOK(p, u)'
    <3>1. ASSUME u.op = "grow" PROVE GrowOK(p, u)'
      <4>1. GrowOK(p, t)
        BY <1>4, <1>5, <1>9, <3>1 DEF TaskOK
      <4>2. \A w \in UPages : w < RoundUp(sz[p]) => new.pte[w] = build[p].pte[w]
        BY <1>2, <1>4, <1>5, <1>6, <4>1, UserPages DEF MapsPage, GrowOK
      <4>3. /\ new.dir = build[p].dir
            /\ \A k \in UTables : build[p].tabs[k] # None => new.tabs[k] = build[p].tabs[k]
        BY <1>2 DEF MapsPage
      <4>4. RoundUp(sz[p]) <= u.at /\ u.at <= u.last + 1
        BY <1>4, <1>5, <1>6, <1>9, <1>10, <4>1 DEF GrowOK
      <4>5. sz[p] + u.n < KERNBASE /\ u.last = RoundUp(sz[p] + u.n) - 1
        BY <1>9, <3>1, <4>1 DEF GrowOK
      <4> QED
        BY <1>3, <1>7, <4>1, <4>2, <4>3, <4>4, <4>5 DEF GrowOK
    <3> QED
      BY <3>1
  <2>2. u.op = "fork" => ForkOK(p, u)'
    BY <1>1, <1>3, <1>4, <1>5, <1>6, <1>9, <1>10 DEF TaskOK, ForkOK
  <2>3. u.op = "segment" => SegmentOK(u)
    <3>1. ASSUME u.op = "segment" PROVE SegmentOK(u)
      <4>1. SegmentOK(t) /\ u.prog = t.prog /\ u.size = t.size
        BY <1>4, <1>5, <1>9, <3>1 DEF TaskOK, Executing
      <4>2. RoundUp(t.size) \in Nat
        <5>1. t.size \in Nat
          BY <1>5, <1>9, <3>1 DEF TaskTypeOK, Executing
        <5> QED
          BY <5>1, RoundUpIs
      <4>3. RoundUp(u.size) <= u.at /\ u.at <= u.last + 1
        BY <1>6, <1>9, <1>10, <1>4, <4>1, <4>2 DEF SegmentOK
      <4> QED
        BY <1>9, <4>1, <4>3 DEF SegmentOK
    <3> QED
      BY <3>1
  <2>4. u.op = "stack" => StackOK(u)
    <3>1. ASSUME u.op = "stack" PROVE StackOK(u)
      <4>1. StackOK(t) /\ u.prog = t.prog /\ u.size = t.size
        BY <1>4, <1>5, <1>9, <3>1 DEF TaskOK, Executing
      <4>2. RoundUp(t.size) \in Nat
        <5>1. t.size \in Nat
          BY <1>5, <1>9, <3>1 DEF TaskTypeOK, Executing
        <5> QED
          BY <5>1, RoundUpIs
      <4>3. RoundUp(u.size) <= u.at /\ u.at <= u.last + 1
        BY <1>6, <1>9, <1>10, <1>4, <4>1, <4>2 DEF StackOK
      <4> QED
        BY <1>9, <4>1, <4>3 DEF StackOK
    <3> QED
      BY <3>1
  <2>5. u.op # "none" /\ u.op # "headers" /\ state'[p] = "RUNNABLE"
    BY <1>3, <1>4, <1>5, <1>9, <1>10 DEF TaskOK, Mappers
  <2>6. task'[p] = u /\ build'[p] = new
    BY <1>7, <1>8
  <2> QED
    BY <1>7, <1>9, <1>11, <1>12, <2>1, <2>2, <2>3, <2>4, <2>5, <2>6 DEF TaskOK
<1>17. ShapeInv'
  BY <1>3, <1>7, <1>13, <1>14, <1>15, <1>16, ShapeOfStep
<1>18. ApartOK(p)' /\ Owned(p)' = Owned(p) \cup taken
  <2>1. /\ taken \subseteq free /\ None \notin taken
        /\ UsedOnce(new) /\ PagesOf(new) = PagesOf(build[p]) \cup taken \cup {g}
        /\ g # None /\ (g \in taken \/ g = fresh[p]) /\ (fresh[p] # None => g = fresh[p])
    BY <1>2, FreePages, TwoRanges DEF MapsPage
  <2>2. taken \cap PagesOf(pgdir[p]) = {} /\ kstack[p] \notin taken
    BY <2>1, FreePages
  <2>3. /\ Owned(p)' = PagesOf(pgdir'[p]) \cup PagesOf(build'[p])
                         \cup ({kstack'[p], fresh'[p]} \ {None})
    BY DEF Owned, PagesOf
  <2>4. task'[p].op = task[p].op
    BY <1>4, <1>7, <1>8, <1>9
  <2>5. g \notin PagesOf(pgdir[p]) /\ g # kstack[p]
    BY <1>5, <2>1, <2>2 DEF ApartOK
  <2>6. Owned(p) = PagesOf(pgdir[p]) \cup PagesOf(build[p]) \cup ({kstack[p], fresh[p]} \ {None})
    BY OwnedPages
  <2>7. Owned(p)' = Owned(p) \cup taken
    BY <1>3, <1>7, <2>1, <2>3, <2>6
  <2>8. ApartOK(p)'
    BY <1>3, <1>5, <1>7, <2>1, <2>2, <2>4, <2>5 DEF ApartOK
  <2> QED
    BY <2>7, <2>8
<1>19. UseInv'
  <2>1. taken \in SUBSET free /\ free' = free \ taken
    BY <1>2 DEF MapsPage
  <2> QED
    BY <1>1, <1>3, <1>7, <1>18, <2>1, TakingStep
<1> QED
  BY <1>17, <1>19

\* A page that waits for its page table keeps the invariants.
LEMMA WaitingKeeps ==
  ASSUME ShapeInv, UseInv, NEW p \in Procs, Mapping(p), NeedsTable(build[p], task[p].at),
         UNCHANGED <<boot, kernel, pipes, procVars, calls, panicked, build, task>>,
         free # {}, free' = free \ {kalloc}, fresh[p] = None, DOMAIN mem' = Pages,
         fresh' = [fresh EXCEPT ![p] = kalloc]
  PROVE  ShapeInv' /\ UseInv'
<1>1. UNCHANGED <<state, kstack, pgdir, sz, view>>
  BY DEF procVars
<1>2. /\ MemTypeOK /\ SlotsOK /\ ExtentOK(p) /\ TaskOK(p) /\ ApartOK(p)
  BY AboutProcess
<1>3. PICK g : g = kalloc
  OBVIOUS
<1>4. /\ g \in free /\ g \in Pages /\ g # None /\ g \notin PagesOf(pgdir[p])
      /\ g \notin PagesOf(build[p]) /\ g # kstack[p]
  BY <1>3, OnePage
<1>5. /\ fresh'[p] = g /\ \A q \in Procs : q # p => fresh'[q] = fresh[q]
      /\ fresh' \in [Procs -> Pages \cup {None}]
  BY <1>2, <1>3, <1>4 DEF MemTypeOK
<1>6. MemTypeOK'
  BY <1>1, <1>2, <1>5 DEF MemTypeOK
<1>7. SlotsOK' /\ ExtentOK(p)'
  BY <1>1, <1>2 DEF SlotsOK, ExtentOK
<1>8. TaskOK(p)'
  <2>1. PICK t : t = task[p]
    OBVIOUS
  <2>2. t.op \in Mappers /\ t.at <= t.last /\ (t.op = "fork" => t.left = 0)
    BY <2>1, NextPage
  <2>3. t.op = "grow" => GrowOK(p, t)'
    BY <1>1, <1>2, <2>1 DEF TaskOK, GrowOK
  <2>4. t.op = "fork" => ForkOK(p, t)'
    BY <1>1, <1>2, <2>1 DEF TaskOK, ForkOK
  <2> QED
    BY <1>1, <1>2, <2>1, <2>2, <2>3, <2>4 DEF TaskOK
<1>9. ShapeInv'
  BY <1>1, <1>5, <1>6, <1>7, <1>8, ShapeOfStep
<1>10. ApartOK(p)'
  BY <1>1, <1>2, <1>4, <1>5 DEF ApartOK
<1>11. Owned(p)' = Owned(p) \cup {g}
  <2>1. Owned(p)' = PagesOf(pgdir'[p]) \cup PagesOf(build'[p]) \cup ({kstack'[p], fresh'[p]} \ {None})
    BY DEF Owned, PagesOf
  <2> QED
    BY <1>1, <1>4, <1>5, <2>1, OwnedPages
<1>12. UseInv'
  <2>1. {g} \in SUBSET free /\ free' = free \ {g}
    BY <1>3, <1>4
  <2> QED
    BY <1>1, <1>5, <1>10, <1>11, <2>1, TakingStep
<1> QED
  BY <1>9, <1>12

\* The next page of a mapping keeps the invariants.
LEMMA MapPageKeeps ==
  ASSUME ShapeInv, UseInv, NEW p \in Procs, map_page(p) \/ map_table(p)
  PROVE  ShapeInv' /\ UseInv'
<1>1. Mapping(p) /\ UNCHANGED <<boot, kernel, pipes, procVars, calls, panicked>>
  BY MapPageDoes
<1>2. CASE /\ task' = [task EXCEPT ![p] = [task[p] EXCEPT !.at = task[p].at + 1]]
           /\ \E g, T, new : MapsPage(p, g, T, new)
  BY <1>1, <1>2, MappedKeeps
<1>3. CASE /\ free # {} /\ free' = free \ {kalloc} /\ fresh[p] = None
           /\ mem' = [mem EXCEPT ![kalloc] = Filling(p)] /\ NeedsTable(build[p], task[p].at)
           /\ fresh' = [fresh EXCEPT ![p] = kalloc] /\ UNCHANGED <<build, task>>
  <2>1. DOMAIN mem' = Pages
    BY <1>3 DEF ShapeInv, MemTypeOK
  <2> QED
    BY <1>1, <1>3, <2>1, WaitingKeeps
<1> QED
  BY <1>2, <1>3, MapPageDoes

\* A page for setupkvm keeps the invariants.
LEMMA SetupPageKeeps ==
  ASSUME ShapeInv, UseInv, NEW p \in Procs, setup_page(p)
  PROVE  ShapeInv' /\ UseInv'
<1>1. PICK t, u, g, new : /\ t = task[p] /\ u = [t EXCEPT !.left = t.left - 1] /\ g = kalloc
                         /\ new = [build[p] EXCEPT !.dir = @ \cup {g}]
  OBVIOUS
<1>2. /\ t.op \in {"fork", "headers"} /\ t.left > 0 /\ free # {}
      /\ build' = [build EXCEPT ![p] = new] /\ free' = free \ {g}
      /\ task' = [task EXCEPT ![p] = u]
      /\ UNCHANGED <<boot, mem, kernel, pipes, state, kstack, pgdir, sz, view, fresh, panicked>>
  BY <1>1 DEF setup_page, Setting, does, procVars
<1>3. /\ MemTypeOK /\ SlotsOK /\ ExtentOK(p) /\ TaskOK(p) /\ TaskTypeOK(t) /\ ApartOK(p)
      /\ IsSpace(build[p]) /\ UsedOnce(build[p])
  BY <1>1, AboutProcess
<1>4. /\ g \in free /\ g \in Pages /\ g # None /\ g \notin PagesOf(pgdir[p])
      /\ g \notin PagesOf(build[p]) /\ g # kstack[p] /\ g # fresh[p]
  BY <1>1, <1>2, OnePage
<1>5. /\ IsSpace(new) /\ UsedOnce(new) /\ PagesOf(new) = PagesOf(build[p]) \cup {g}
      /\ new.pte = build[p].pte
  BY <1>1, <1>3, <1>4, LargerSpace
<1>6. /\ build'[p] = new /\ task'[p] = u
      /\ \A q \in Procs : q # p => build'[q] = build[q] /\ task'[q] = task[q]
      /\ DOMAIN build' = Procs /\ DOMAIN task' = Procs
  BY <1>2, <1>3 DEF MemTypeOK
<1>7. fresh[p] = None
  <2>1. t.left # 0
    BY <1>2, <1>3 DEF TaskTypeOK
  <2> QED
    BY <1>1, <1>2, <1>3, <2>1 DEF TaskOK, Mappers
<1>8. /\ DOMAIN u = DOMAIN t /\ u.op = t.op /\ u.left = t.left - 1 /\ u.left \in Nat
      /\ t.op = "headers" => u.prog = t.prog /\ u.args = t.args /\ u.size = t.size
      /\ t.op = "fork" => u.child = t.child /\ u.at = t.at /\ u.last = t.last
  <2>1. "left" \in DOMAIN t /\ t.left \in Nat
    BY <1>2, <1>3 DEF TaskTypeOK
  <2>2. {"op"} \subseteq DOMAIN t
    BY <1>2, <1>3 DEF TaskTypeOK, Executing, Mappers
  <2> QED
    BY <1>1, <1>2, <1>3, <2>1, <2>2 DEF TaskTypeOK, Executing, Mappers
<1>9. TaskTypeOK(u)
  BY <1>2, <1>3, <1>8 DEF TaskTypeOK, Executing, Mappers
<1>10. MemTypeOK'
  BY <1>2, <1>3, <1>5, <1>6 DEF MemTypeOK
<1>11. SlotsOK'
  <2>1. ASSUME NEW q \in Procs
        PROVE  task'[q].op = task[q].op /\ (task[q].op = "fork" => task'[q].child = task[q].child)
    BY <1>1, <1>6, <1>8
  <2> QED
    BY <1>2, <1>3, <2>1 DEF SlotsOK
<1>12. ExtentOK(p)'
  BY <1>2, <1>3 DEF ExtentOK
<1>13. TaskOK(p)'
  <2>1. t.op = "fork" => FrontOK(new, u.at)
    BY <1>1, <1>3, <1>5, <1>8 DEF TaskOK, FrontOK, Mappers
  <2>2. t.op = "headers" => FrontOK(new, RoundUp(u.size))
    BY <1>1, <1>3, <1>5, <1>8 DEF TaskOK, FrontOK
  <2>3. t.op = "fork" => ForkOK(p, u)'
    <3>1. t.op = "fork" => ForkOK(p, t) /\ t.left # 0
      BY <1>1, <1>2, <1>3 DEF TaskOK, TaskTypeOK
    <3> QED
      BY <1>2, <1>8, <3>1 DEF ForkOK
  <2>4. state'[p] = "RUNNABLE"
    BY <1>1, <1>2, <1>3 DEF TaskOK
  <2> QED
    BY <1>2, <1>6, <1>7, <1>8, <1>9, <2>1, <2>2, <2>3, <2>4 DEF TaskOK, Mappers
<1>14. ShapeInv'
  BY <1>2, <1>6, <1>10, <1>11, <1>12, <1>13, ShapeOfStep
<1>15. ApartOK(p)' /\ Owned(p)' = Owned(p) \cup {g}
  <2>1. Owned(p)' = PagesOf(pgdir'[p]) \cup PagesOf(build'[p]) \cup ({kstack'[p], fresh'[p]} \ {None})
    BY DEF Owned, PagesOf
  <2>2. task'[p].op = task[p].op
    BY <1>1, <1>6, <1>8
  <2>3. Owned(p)' = Owned(p) \cup {g}
    BY <1>2, <1>4, <1>5, <1>6, <2>1, OwnedPages
  <2>4. ApartOK(p)'
    BY <1>2, <1>3, <1>4, <1>5, <1>6, <1>7, <2>2 DEF ApartOK
  <2> QED
    BY <2>3, <2>4
<1>16. UseInv'
  <2>1. {g} \in SUBSET free /\ free' = free \ {g}
    BY <1>2, <1>4
  <2> QED
    BY <1>2, <1>6, <1>15, <2>1, TakingStep
<1> QED
  BY <1>14, <1>16

-----------------------------------------------------------------------------
(* sbrk *)

\* Quotient and remainder.
LEMMA Division ==
  ASSUME NEW a \in Nat, NEW m \in Nat \ {0}
  PROVE  \E q, r \in Int : q = a \div m /\ r = a % m /\ a = m * q + r
<1>1. a \in Int /\ m \in Int /\ m > 0
  OBVIOUS
<1> QED
  BY <1>1

\* A small number is its remainder.
LEMMA SmallRemainder ==
  ASSUME NEW a \in Nat, NEW m \in Nat \ {0}, a < m
  PROVE  a % m = a
<1>1. a \div m \in Nat /\ ~(a \div m >= 1)
  BY Quotient
<1>2. a \div m = 0
  BY <1>1
<1>3. a = m * (a \div m) + (a % m)
  BY Division
<1> QED
  BY <1>2, <1>3

\* A process that runs has no call under way and its pages are there.
LEMMA RunningProcess ==
  ASSUME ShapeInv, NEW p \in Procs, Runs(p)
  PROVE  /\ boot = "up" /\ state[p] = "RUNNABLE" /\ task[p] = NoTask /\ task[p].op = "none"
         /\ build[p] = NoSpace /\ PagesOf(build[p]) = {} /\ 0 \in pgdir[p].user
         /\ FrontOK(pgdir[p], RoundUp(sz[p])) /\ fresh[p] = None
<1>1. /\ boot = "up" /\ state[p] = "RUNNABLE" /\ task[p] = NoTask /\ 0 \in pgdir[p].user
  BY DEF Runs
<1>2. task[p].op = "none"
  BY <1>1 DEF NoTask
<1>3. build[p] = NoSpace /\ fresh[p] = None
  BY <1>2 DEF ShapeInv, TaskOK, Mappers
<1>4. ExtentOK(p) /\ RoundUp(sz[p]) \in Nat
  <2>1. ExtentOK(p) /\ sz[p] \in Nat
    BY DEF ShapeInv, MemTypeOK
  <2> QED
    BY <2>1, RoundUpIs
<1>5. \A v \in UPages : v \in Nat
  BY UserPages
<1>6. FrontOK(pgdir[p], RoundUp(sz[p]))
  BY <1>1, <1>4, <1>5 DEF ExtentOK, FrontOK
<1> QED
  BY <1>1, <1>2, <1>3, <1>6, EmptySpace

\* sbrk starts to grow the space.
LEMMA SbrkGrowKeeps ==
  ASSUME ShapeInv, UseInv, NEW p \in Procs, NEW n \in Sbrk, sbrk_grow(p, n)
  PROVE  ShapeInv' /\ UseInv'
<1>1. /\ Runs(p) /\ n > 0 /\ (sz[p] + n) % UINT < KERNBASE
      /\ task' = [task EXCEPT ![p] = [op |-> "grow", at |-> RoundUp(sz[p]),
                                       last |-> RoundUp(sz[p] + n) - 1, n |-> n]]
      /\ build' = [build EXCEPT ![p] = pgdir[p]]
      /\ UNCHANGED <<boot, free, mem, kernel, pipes, fresh, state, kstack, pgdir, sz, view, panicked>>
  BY DEF sbrk_grow, does, procVars
<1>2. /\ state[p] = "RUNNABLE" /\ task[p].op = "none"
      /\ PagesOf(build[p]) = {} /\ 0 \in pgdir[p].user
      /\ FrontOK(pgdir[p], RoundUp(sz[p])) /\ fresh[p] = None
  BY <1>1, RunningProcess
<1>3. /\ MemTypeOK /\ SlotsOK /\ ExtentOK(p) /\ IsSpace(pgdir[p]) /\ ApartOK(p)
      /\ sz[p] \in 0 .. KERNBASE - 1 /\ sz[p] \in Nat
      /\ RoundUp(sz[p]) \in 0 .. KERNBASE \div PGSIZE /\ RoundUp(sz[p]) \in Nat
  BY AboutProcess
<1>4. n \in Nat \ {0} /\ KERNBASE + n <= UINT
  BY <1>1, MemoryAssumption
<1>5. sz[p] + n < KERNBASE
  <2>1. PICK a \in Nat : a = sz[p] + n /\ a < UINT
    BY <1>3, <1>4, Sizes
  <2> QED
    BY <1>1, <2>1, SmallRemainder, Sizes
<1>6. PICK e \in 0 .. KERNBASE \div PGSIZE : e = RoundUp(sz[p] + n) /\ RoundUp(sz[p]) <= e
  <2>1. PICK a \in 0 .. KERNBASE - 1 : a = sz[p] + n /\ sz[p] <= a /\ a \in Nat
    BY <1>3, <1>4, <1>5, Sizes
  <2> QED
    BY <1>3, <2>1, BelowSize, RoundUpGrows
<1>7. PICK u : u = [op |-> "grow", at |-> RoundUp(sz[p]), last |-> e - 1, n |-> n]
  OBVIOUS
<1>8. /\ task'[p] = u /\ build'[p] = pgdir[p]
      /\ \A q \in Procs : q # p => build'[q] = build[q] /\ task'[q] = task[q]
      /\ DOMAIN build' = Procs /\ DOMAIN task' = Procs
  BY <1>1, <1>3, <1>6, <1>7 DEF MemTypeOK
<1>9. MemTypeOK'
  BY <1>1, <1>3, <1>8 DEF MemTypeOK
<1>10. SlotsOK'
  <2>1. \A q \in Procs : task'[q].op = "fork" => task[q].op = "fork" /\ task'[q] = task[q]
    BY <1>7, <1>8
  <2> QED
    BY <1>1, <1>3, <2>1 DEF SlotsOK
<1>11. ExtentOK(p)'
  BY <1>1, <1>3 DEF ExtentOK
<1>12. TaskOK(p)'
  <2>1. TaskTypeOK(u)
    <3>1. KERNBASE \div PGSIZE \in Nat
      BY UserPages
    <3> QED
      BY <1>3, <1>4, <1>6, <1>7, <3>1 DEF TaskTypeOK, Mappers, Executing
  <2>2. GrowOK(p, u)'
    BY <1>1, <1>2, <1>3, <1>5, <1>6, <1>7, <1>8 DEF GrowOK
  <2> QED
    BY <1>1, <1>2, <1>7, <1>8, <2>1, <2>2 DEF TaskOK
<1>13. ShapeInv'
  BY <1>1, <1>8, <1>9, <1>10, <1>11, <1>12, ShapeOfStep
<1>14. ApartOK(p)' /\ Owned(p)' = Owned(p)
  <2>1. Owned(p)' = PagesOf(pgdir'[p]) \cup PagesOf(build'[p]) \cup ({kstack'[p], fresh'[p]} \ {None})
    BY DEF Owned, PagesOf
  <2>2. task'[p].op \notin Builders
    BY <1>7, <1>8 DEF Builders
  <2> QED
    BY <1>1, <1>2, <1>3, <1>8, <2>1, <2>2, OwnedPages DEF ApartOK
<1>15. UseInv'
  BY <1>1, <1>8, <1>14, KeepingStep
<1> QED
  BY <1>13, <1>15

\* A call that frees what it has built frees every page once.
LEMMA FreedOnce ==
  ASSUME ShapeInv, UseInv, NEW p \in Procs
  PROVE  BuiltOnce(p)
BY DEF UseInv, ApartOK, BuiltOnce, PagesOf

\* Growing only adds to the space.
LEMMA GrowAdds ==
  ASSUME ShapeInv, UseInv, NEW p \in Procs, task[p].op = "grow"
  PROVE  PagesOf(pgdir[p]) \subseteq PagesOf(build[p])
<1>1. GrowOK(p, task[p]) /\ ExtentOK(p)
  BY DEF ShapeInv, TaskOK
<1>2. RoundUp(sz[p]) \in Nat /\ \A v \in UPages : v \in Nat
  BY AboutProcess, UserPages
<1>3. ASSUME NEW v \in UPages PROVE pgdir[p].pte[v] = None \/ pgdir[p].pte[v] = build[p].pte[v]
  BY <1>1, <1>2 DEF GrowOK, ExtentOK
<1>4. \A k \in UTables : pgdir[p].tabs[k] = None \/ pgdir[p].tabs[k] = build[p].tabs[k]
  BY <1>1 DEF GrowOK
<1>5. pgdir[p].dir = build[p].dir
  BY <1>1 DEF GrowOK
<1>6. ASSUME NEW g, g \in PagesOf(pgdir[p]) PROVE g \in PagesOf(build[p])
  <2>1. /\ g # None
        /\ \/ g \in pgdir[p].dir
           \/ \E k \in UTables : g = pgdir[p].tabs[k]
           \/ \E v \in UPages : g = pgdir[p].pte[v]
    BY <1>6, PageOf
  <2>2. /\ g # None
        /\ \/ g \in build[p].dir
           \/ \E k \in UTables : g = build[p].tabs[k]
           \/ \E v \in UPages : g = build[p].pte[v]
    BY <1>3, <1>4, <1>5, <2>1
  <2> QED
    BY <2>2, PageOf
<1> QED
  BY <1>6

\* A call that ends leaves no task and no other space.
LEMMA NoTaskOK ==
  ASSUME NEW p \in Procs, task'[p] = NoTask, build'[p] = NoSpace, fresh'[p] = None
  PROVE  TaskOK(p)' /\ task'[p].op = "none"
<1>1. task'[p].op = "none"
  BY DEF NoTask
<1>2. TaskTypeOK(NoTask)
  BY DEF TaskTypeOK, NoTask, Mappers, Executing
<1> QED
  BY <1>1, <1>2 DEF TaskOK, Mappers

\* sbrk has all its pages.
LEMMA SbrkEndKeeps ==
  ASSUME ShapeInv, UseInv, NEW p \in Procs, sbrk_end(p)
  PROVE  ShapeInv' /\ UseInv'
<1>1. /\ task[p].op = "grow" /\ ~(task[p].at <= task[p].last)
      /\ pgdir' = [pgdir EXCEPT ![p] = build[p]] /\ build' = [build EXCEPT ![p] = NoSpace]
      /\ sz' = [sz EXCEPT ![p] = sz[p] + task[p].n]
      /\ view' = [view EXCEPT ![p] = [v \in UPages |->
                   IF view[p][v] = "nothing" /\ v * PGSIZE < sz'[p] THEN "zero" ELSE view[p][v]]]
      /\ task' = [task EXCEPT ![p] = NoTask]
      /\ UNCHANGED <<boot, free, mem, kernel, pipes, fresh, state, kstack, panicked>>
  BY DEF sbrk_end, Busy, Mapping, Setting, does
<1>2. /\ MemTypeOK /\ SlotsOK /\ TaskOK(p) /\ TaskTypeOK(task[p]) /\ ApartOK(p)
      /\ IsSpace(build[p]) /\ sz[p] \in Nat
  BY AboutProcess
<1>3. /\ GrowOK(p, task[p]) /\ FrontOK(build[p], task[p].at) /\ state[p] = "RUNNABLE"
      /\ fresh[p] = None
  BY <1>1, <1>2 DEF TaskOK, Mappers
<1>4. PICK a \in 0 .. KERNBASE - 1 : a = sz[p] + task[p].n
  <2>1. task[p].n \in Nat /\ sz[p] + task[p].n < KERNBASE
    BY <1>1, <1>2, <1>3 DEF GrowOK, TaskTypeOK
  <2> QED
    BY <1>2, <2>1, Sizes
<1>5. RoundUp(a) \in Nat
  BY <1>4, BelowSize
<1>6. task[p].at = RoundUp(a)
  BY <1>1, <1>2, <1>3, <1>4, <1>5 DEF GrowOK, TaskTypeOK, Mappers
<1>7. /\ pgdir'[p] = build[p] /\ build'[p] = NoSpace /\ sz'[p] = a /\ task'[p] = NoTask
      /\ \A q \in Procs : q # p => /\ pgdir'[q] = pgdir[q] /\ build'[q] = build[q]
                                   /\ sz'[q] = sz[q] /\ task'[q] = task[q] /\ view'[q] = view[q]
      /\ DOMAIN pgdir' = Procs /\ DOMAIN build' = Procs /\ DOMAIN task' = Procs
      /\ DOMAIN view' = Procs /\ DOMAIN view'[p] = UPages
      /\ sz' \in [Procs -> 0 .. KERNBASE - 1]
  BY <1>1, <1>2, <1>4 DEF MemTypeOK
<1>8. MemTypeOK'
  BY <1>1, <1>2, <1>7, EmptySpace DEF MemTypeOK
<1>9. SlotsOK'
  <2>1. \A q \in Procs : task'[q].op = "fork" => task[q].op = "fork" /\ task'[q] = task[q]
    BY <1>7 DEF NoTask
  <2> QED
    BY <1>1, <1>2, <1>3, <1>7, <2>1 DEF SlotsOK
<1>10. ExtentOK(p)'
  <2>1. \A v \in UPages : v \in Nat
    BY UserPages
  <2> QED
    BY <1>3, <1>5, <1>6, <1>7, <2>1 DEF FrontOK, ExtentOK
<1>11. ShapeInv'
  BY <1>1, <1>3, <1>7, <1>8, <1>9, <1>10, NoTaskOK, ShapeOfStep
<1>12. ApartOK(p)' /\ Owned(p)' = Owned(p)
  <2>1. Owned(p)' = PagesOf(pgdir'[p]) \cup PagesOf(build'[p]) \cup ({kstack'[p], fresh'[p]} \ {None})
    BY DEF Owned, PagesOf
  <2>2. task'[p].op \notin Builders
    BY <1>7 DEF Builders, NoTask
  <2>3. PagesOf(pgdir[p]) \subseteq PagesOf(build[p])
    BY <1>1, GrowAdds
  <2> QED
    BY <1>1, <1>2, <1>3, <1>7, <2>1, <2>2, <2>3, OwnedPages, EmptySpace DEF ApartOK
<1>13. UseInv'
  BY <1>1, <1>7, <1>12, KeepingStep
<1> QED
  BY <1>11, <1>13

\* The pages that deallocuvm frees lie between the two sizes.
LEMMA DeallocatedIs ==
  ASSUME NEW a \in Nat, NEW b \in Nat
  PROVE  /\ Deallocated(a, b) \in SUBSET UPages
         /\ \A v \in UPages : v \in Deallocated(a, b) <=> v >= RoundUp(b) /\ v < RoundUp(a)
<1>1. \A v \in Nat : v < RoundUp(a) <=> v * PGSIZE < a
  BY RoundUpIs
<1>2. \A v \in UPages : v \in Nat
  BY UserPages
<1> QED
  BY <1>1, <1>2 DEF Deallocated

\* sbrk is without memory and gives back what it has mapped.
LEMMA SbrkUndoKeeps ==
  ASSUME ShapeInv, UseInv, NEW p \in Procs, sbrk_undo(p)
  PROVE  ShapeInv' /\ UseInv'
<1>1. PICK gone : gone = Deallocated(sz[p] + task[p].n, sz[p])
  OBVIOUS
<1>2. PICK new : new = deallocuvm(build[p], gone)
  OBVIOUS
<1>3. /\ task[p].op = "grow"
      /\ free' = free \cup (({build[p].pte[v] : v \in gone} \cup {fresh[p]}) \ {None}) /\ DOMAIN mem' = Pages
      /\ pgdir' = [pgdir EXCEPT ![p] = new] /\ build' = [build EXCEPT ![p] = NoSpace]
      /\ task' = [task EXCEPT ![p] = NoTask] /\ fresh' = [fresh EXCEPT ![p] = None]
      /\ UNCHANGED <<boot, kernel, pipes, state, kstack, sz, view>>
      /\ panicked' = Freeing({build[p].pte[v] : v \in gone} \cup {fresh[p]}, BuiltOnce(p))
  BY <1>1, <1>2 DEF sbrk_undo, Busy, kfree, gives_up, does
<1>4. /\ MemTypeOK /\ SlotsOK /\ TaskOK(p) /\ TaskTypeOK(task[p]) /\ ApartOK(p) /\ ExtentOK(p)
      /\ IsSpace(build[p]) /\ UsedOnce(build[p]) /\ sz[p] \in Nat /\ RoundUp(sz[p]) \in Nat
  BY AboutProcess
<1>5. GrowOK(p, task[p]) /\ FrontOK(build[p], task[p].at) /\ state[p] = "RUNNABLE"
  BY <1>3, <1>4 DEF TaskOK, Mappers
<1>6. PICK a \in 0 .. KERNBASE - 1 : a = sz[p] + task[p].n /\ a \in Nat
  <2>1. task[p].n \in Nat /\ sz[p] + task[p].n < KERNBASE
    BY <1>3, <1>4, <1>5 DEF GrowOK, TaskTypeOK
  <2> QED
    BY <1>4, <2>1, Sizes
<1>7. /\ gone \in SUBSET UPages
      /\ \A v \in UPages : v \in gone <=> v >= RoundUp(sz[p]) /\ v < RoundUp(a)
  BY <1>1, <1>4, <1>6, DeallocatedIs
<1>8. /\ IsSpace(new) /\ UsedOnce(new)
      /\ PagesOf(new) = PagesOf(build[p]) \ {build[p].pte[v] : v \in gone}
      /\ \A v \in UPages : new.pte[v] = IF v \in gone THEN None ELSE build[p].pte[v]
  BY <1>2, <1>4, <1>7, Unmapped
<1>9. /\ pgdir'[p] = new /\ build'[p] = NoSpace /\ task'[p] = NoTask /\ fresh'[p] = None
      /\ \A q \in Procs : q # p => /\ pgdir'[q] = pgdir[q] /\ build'[q] = build[q]
                                   /\ task'[q] = task[q] /\ fresh'[q] = fresh[q]
      /\ fresh' \in [Procs -> Pages \cup {None}]
      /\ DOMAIN pgdir' = Procs /\ DOMAIN build' = Procs /\ DOMAIN task' = Procs
  BY <1>3, <1>4 DEF MemTypeOK
<1>10. PICK G : G = ({build[p].pte[v] : v \in gone} \cup {fresh[p]}) \ {None}
  OBVIOUS
<1>11. /\ G \subseteq PagesOf(build[p]) \cup ({fresh[p]} \ {None})
       /\ PagesOf(new) = PagesOf(build[p]) \ G
       /\ {fresh[p]} \ {None} \subseteq G
  <2>1. {build[p].pte[v] : v \in gone} \ {None} \subseteq PagesOf(build[p])
    BY <1>7 DEF PagesOf, freevm, Mapped
  <2>2. None \notin PagesOf(build[p])
    BY DEF PagesOf
  <2>3. fresh[p] \notin PagesOf(build[p])
    BY <1>4, <2>2 DEF ApartOK
  <2> QED
    BY <1>8, <1>10, <2>1, <2>2, <2>3
<1>12. panicked' = "no"
  <2>1. \A g \in G : g \in Owned(p)
    BY <1>11, OwnedPages
  <2> QED
    BY <1>3, <1>10, <2>1, FreedOnce, FreesWell
<1>13. MemTypeOK'
  BY <1>3, <1>4, <1>8, <1>9, <1>12, EmptySpace DEF MemTypeOK
<1>14. SlotsOK'
  <2>1. \A q \in Procs : task'[q].op = "fork" => task[q].op = "fork" /\ task'[q] = task[q]
    BY <1>9 DEF NoTask
  <2> QED
    BY <1>3, <1>4, <1>5, <1>9, <2>1 DEF SlotsOK
<1>15. ExtentOK(p)'
  <2>1. RoundUp(a) \in Nat /\ \A v \in UPages : v \in Nat
    BY <1>6, RoundUpIs, UserPages
  <2>2. task[p].at <= RoundUp(a) /\ task[p].at \in Nat /\ RoundUp(sz[p]) <= task[p].at
    BY <1>3, <1>4, <1>5, <1>6, <2>1 DEF GrowOK, TaskTypeOK, Mappers
  <2>3. \A v \in UPages : v >= RoundUp(sz[p]) => new.pte[v] = None
    BY <1>4, <1>5, <1>7, <1>8, <2>1, <2>2 DEF FrontOK
  <2>4. \A v \in UPages : v < RoundUp(sz[p]) => new.pte[v] # None
    BY <1>4, <1>5, <1>7, <1>8, <2>1, <2>2 DEF FrontOK
  <2> QED
    BY <1>3, <1>9, <2>3, <2>4 DEF ExtentOK
<1>16. ShapeInv'
  BY <1>3, <1>9, <1>13, <1>14, <1>15, NoTaskOK, ShapeOfStep
<1>17. G \in SUBSET Owned(p) /\ Owned(p)' = Owned(p) \ G /\ ApartOK(p)'
  <2>1. Owned(p)' = PagesOf(pgdir'[p]) \cup PagesOf(build'[p]) \cup ({kstack'[p], fresh'[p]} \ {None})
    BY DEF Owned, PagesOf
  <2>2. task'[p].op \notin Builders
    BY <1>9 DEF Builders, NoTask
  <2>3. PagesOf(pgdir[p]) \subseteq PagesOf(build[p])
    BY <1>3, GrowAdds
  <2>4. kstack[p] \notin PagesOf(build[p]) /\ UNCHANGED kstack
    BY <1>3, <1>4 DEF ApartOK
  <2>5. Owned(p)' = PagesOf(new) \cup ({kstack[p]} \ {None})
    BY <1>9, <2>1, <2>4, EmptySpace
  <2>6. Owned(p) = PagesOf(build[p]) \cup ({kstack[p], fresh[p]} \ {None})
    BY <2>3, OwnedPages
  <2>9. fresh[p] # None => fresh[p] # kstack[p]
    BY <1>4 DEF ApartOK
  <2>7. G \in SUBSET Owned(p) /\ Owned(p)' = Owned(p) \ G
    BY <1>11, <2>4, <2>5, <2>6, <2>9
  <2>8. ApartOK(p)'
    BY <1>8, <1>9, <1>11, <2>2, <2>4, EmptySpace DEF ApartOK
  <2> QED
    BY <2>7, <2>8
<1>18. UseInv'
  BY <1>3, <1>9, <1>10, <1>17, GivingStep
<1> QED
  BY <1>16, <1>18

\* sbrk gives pages back, all of them with sbrk(-sz).
LEMMA SbrkShrinkKeeps ==
  ASSUME ShapeInv, UseInv, NEW p \in Procs, NEW n \in Sbrk, sbrk_shrink(p, n)
  PROVE  ShapeInv' /\ UseInv'
<1>1. PICK gone : gone = Deallocated(sz[p], sz[p] + n)
  OBVIOUS
<1>2. PICK new : new = deallocuvm(pgdir[p], gone)
  OBVIOUS
<1>3. /\ Runs(p) /\ n < 0 /\ sz[p] + n >= 0
      /\ free' = free \cup ({pgdir[p].pte[v] : v \in gone} \ {None}) /\ DOMAIN mem' = Pages
      /\ pgdir' = [pgdir EXCEPT ![p] = new]
      /\ view' = [view EXCEPT ![p] = [v \in UPages |-> IF v \in gone THEN "nothing" ELSE view[p][v]]]
      /\ sz' = [sz EXCEPT ![p] = IF sz[p] + n = 0 THEN sz[p] ELSE sz[p] + n]
      /\ UNCHANGED <<boot, kernel, pipes, fresh, state, kstack, task, build>>
      /\ panicked' = Freeing({pgdir[p].pte[v] : v \in gone}, UsedOnce(pgdir[p]))
  BY <1>1, <1>2 DEF sbrk_shrink, kfree
<1>4. /\ MemTypeOK /\ SlotsOK /\ TaskOK(p) /\ ApartOK(p) /\ ExtentOK(p) /\ IsSpace(pgdir[p])
      /\ UsedOnce(pgdir[p]) /\ sz[p] \in 0 .. KERNBASE - 1 /\ sz[p] \in Nat /\ RoundUp(sz[p]) \in Nat
  BY AboutProcess
<1>5. /\ state[p] = "RUNNABLE" /\ task[p] = NoTask /\ task[p].op = "none" /\ build[p] = NoSpace
      /\ FrontOK(pgdir[p], RoundUp(sz[p])) /\ fresh[p] = None
  BY <1>3, RunningProcess
<1>6. n \in Int
  BY MemoryAssumption
<1>7. PICK a \in Nat : a = sz[p] + n /\ a \in 0 .. KERNBASE - 1 /\ a < sz[p]
  BY <1>3, <1>4, <1>6, Sizes
<1>8. /\ gone \in SUBSET UPages
      /\ \A v \in UPages : v \in gone <=> v >= RoundUp(a) /\ v < RoundUp(sz[p])
  BY <1>1, <1>4, <1>7, DeallocatedIs
<1>9. /\ IsSpace(new) /\ UsedOnce(new) /\ new.user = pgdir[p].user \ gone
      /\ PagesOf(new) = PagesOf(pgdir[p]) \ {pgdir[p].pte[v] : v \in gone}
      /\ \A v \in UPages : new.pte[v] = IF v \in gone THEN None ELSE pgdir[p].pte[v]
  BY <1>2, <1>4, <1>8, Unmapped
<1>10. PICK s \in 0 .. KERNBASE - 1 : s = IF a = 0 THEN sz[p] ELSE a
  BY <1>4, <1>7
<1>11. /\ pgdir'[p] = new /\ sz'[p] = s
       /\ \A q \in Procs : q # p => pgdir'[q] = pgdir[q] /\ sz'[q] = sz[q] /\ view'[q] = view[q]
       /\ DOMAIN pgdir' = Procs /\ DOMAIN view' = Procs /\ DOMAIN view'[p] = UPages
       /\ sz' \in [Procs -> 0 .. KERNBASE - 1]
  BY <1>3, <1>4, <1>7, <1>10 DEF MemTypeOK
<1>12. PICK G : G = {pgdir[p].pte[v] : v \in gone} \ {None}
  OBVIOUS
<1>13. G \subseteq PagesOf(pgdir[p]) /\ PagesOf(new) = PagesOf(pgdir[p]) \ G
  <2>1. G \subseteq PagesOf(pgdir[p])
    BY <1>8, <1>12 DEF PagesOf, freevm, Mapped
  <2>2. None \notin PagesOf(pgdir[p])
    BY DEF PagesOf
  <2> QED
    BY <1>9, <1>12, <2>1, <2>2
<1>14. panicked' = "no"
  <2>1. \A g \in G : g \in Owned(p)
    BY <1>13, OwnedPages
  <2> QED
    BY <1>3, <1>4, <1>12, <2>1, FreesWell
<1>15. MemTypeOK'
  BY <1>3, <1>4, <1>9, <1>11, <1>14 DEF MemTypeOK
<1>16. SlotsOK'
  BY <1>3, <1>4, <1>5, <1>11 DEF SlotsOK
<1>17. ExtentOK(p)'
  <2>1. RoundUp(a) \in Nat /\ \A v \in UPages : v \in Nat
    <3>1. RoundUp(a) \in Nat
      BY RoundUpIs
    <3> QED
      BY <3>1, UserPages
  <2>2. \A v \in UPages : v >= RoundUp(a) => new.pte[v] = None
    BY <1>4, <1>5, <1>8, <1>9, <2>1 DEF FrontOK
  <2>3. \A v \in UPages : v < RoundUp(a) => new.pte[v] # None
    <3>1. RoundUp(a) <= RoundUp(sz[p])
      BY <1>4, <1>7, RoundUpGrows
    <3> QED
      BY <1>4, <1>5, <1>8, <1>9, <2>1, <3>1 DEF FrontOK
  <2>4. CASE a # 0
    BY <1>10, <1>11, <2>2, <2>3, <2>4 DEF ExtentOK
  <2>5. CASE a = 0
    <3>1. 0 \in UPages /\ ~(0 < RoundUp(a)) /\ 0 < RoundUp(sz[p])
      <4>1. 0 * PGSIZE = 0
        BY Sizes
      <4> QED
        BY <1>4, <1>7, <2>5, <4>1, RoundUpIs, UserPages, Sizes
    <3>2. 0 \notin new.user
      BY <1>4, <1>8, <1>9, <2>1, <3>1
    <3>3. \A v \in UPages : new.pte[v] = None
      BY <2>1, <2>2, <3>1
    <3> QED
      BY <1>11, <3>2, <3>3 DEF ExtentOK
  <2> QED
    BY <2>4, <2>5
<1>18. TaskOK(p)'
  BY <1>3, <1>5, NoTaskOK
<1>19. ShapeInv'
  BY <1>3, <1>11, <1>15, <1>16, <1>17, <1>18, ShapeOfStep
<1>20. G \in SUBSET Owned(p) /\ Owned(p)' = Owned(p) \ G /\ ApartOK(p)'
  <2>1. Owned(p)' = PagesOf(pgdir'[p]) \cup PagesOf(build'[p]) \cup ({kstack'[p], fresh'[p]} \ {None})
    BY DEF Owned, PagesOf
  <2>2. kstack[p] \notin PagesOf(pgdir[p]) /\ UNCHANGED <<kstack, build, task, fresh>>
    BY <1>3, <1>4 DEF ApartOK
  <2>3. Owned(p)' = PagesOf(new) \cup ({kstack[p]} \ {None})
    BY <1>5, <1>11, <2>1, <2>2, EmptySpace
  <2>4. Owned(p) = PagesOf(pgdir[p]) \cup ({kstack[p]} \ {None})
    BY <1>5, OwnedPages, EmptySpace
  <2>5. G \in SUBSET Owned(p) /\ Owned(p)' = Owned(p) \ G
    BY <1>13, <2>2, <2>3, <2>4
  <2>6. ApartOK(p)'
    BY <1>5, <1>9, <1>11, <1>13, <2>2, EmptySpace DEF ApartOK, Builders
  <2> QED
    BY <2>5, <2>6
<1>21. UseInv'
  BY <1>3, <1>11, <1>12, <1>20, GivingStep
<1> QED
  BY <1>19, <1>21

-----------------------------------------------------------------------------
(* fork *)

\* A step that leaves the processes as they are.
LEMMA SameShape ==
  ASSUME ShapeInv, UseInv, DOMAIN mem' = Pages,
         DOMAIN view' = Procs, \A p \in Procs : DOMAIN view'[p] = UPages,
         UNCHANGED <<boot, fresh, state, kstack, pgdir, sz, task, build, panicked>>
  PROVE  ShapeInv' /\ \A q \in Procs : ApartOK(q)' /\ Owned(q)' = Owned(q)
<1>1. \A q \in Procs : ExtentOK(q)' /\ TaskOK(q)'
  <2> SUFFICES ASSUME NEW q \in Procs PROVE ExtentOK(q)' /\ TaskOK(q)'
    OBVIOUS
  <2> QED
    BY Untouched
<1>2. \A q \in Procs : ApartOK(q)' /\ Owned(q)' = Owned(q)
  <2> SUFFICES ASSUME NEW q \in Procs PROVE ApartOK(q)' /\ Owned(q)' = Owned(q)
    OBVIOUS
  <2> QED
    BY UntouchedPages
<1>3. MemTypeOK' /\ SlotsOK'
  BY DEF ShapeInv, MemTypeOK, SlotsOK
<1> QED
  BY <1>1, <1>2, <1>3 DEF ShapeInv

\* A step that changes neither spaces nor calls nor states.
LEMMA SameSpaces ==
  ASSUME ShapeInv, UseInv, DOMAIN mem' = Pages,
         DOMAIN view' = Procs, \A p \in Procs : DOMAIN view'[p] = UPages,
         UNCHANGED <<boot, free, kernel, pipes, fresh, state, kstack, pgdir, sz, task, build, panicked>>
  PROVE  ShapeInv' /\ UseInv'
<1>1. ShapeInv' /\ \A q \in Procs : ApartOK(q)' /\ Owned(q)' = Owned(q)
  BY SameShape
<1>2. GivenPages' = GivenPages /\ KernelOK'
  BY DEF GivenPages, UseInv, KernelOK
<1>3. [q \in Procs |-> Owned(q)'] = [q \in Procs |-> Owned(q)]
  BY <1>1
<1> QED
  BY <1>1, <1>2, <1>3 DEF UseInv


\* A process that is not running has no call under way.
LEMMA IdleSlot ==
  ASSUME ShapeInv, NEW c \in Procs, state[c] # "RUNNABLE"
  PROVE  task[c] = NoTask /\ task[c].op = "none" /\ build[c] = NoSpace /\ fresh[c] = None
<1>1. TaskOK(c) /\ TaskTypeOK(task[c])
  BY DEF ShapeInv, TaskOK
<1> QED
  BY <1>1 DEF TaskOK, TaskTypeOK, Mappers

\* fork starts with a stack for the child and an empty space.
LEMMA ForkKeeps ==
  ASSUME ShapeInv, UseInv, NEW p \in Procs, NEW c \in Procs, fork(p, c)
  PROVE  ShapeInv' /\ UseInv'
<1>1. /\ Runs(p) /\ state[c] = "UNUSED"
      /\ UNCHANGED <<boot, mem, kernel, pipes, pgdir, sz, view, build, fresh, panicked>>
  BY DEF fork
<1>2. CASE free = {}
  <2>1. UNCHANGED <<free, task, state, kstack>>
    BY <1>2 DEF fork
  <2>2. /\ DOMAIN mem = Pages /\ DOMAIN view = Procs /\ \A q \in Procs : DOMAIN view[q] = UPages
    BY DEF ShapeInv, MemTypeOK
  <2> QED
    BY <1>1, <2>1, <2>2, SameSpaces
<1>3. CASE free # {}
  <2>1. PICK stack, u : /\ stack = kalloc
                        /\ u = [op |-> "fork", left |-> SetupPages, at |-> 0,
                                last |-> RoundUp(sz[p]) - 1, child |-> c]
    OBVIOUS
  <2>2. /\ free' = free \ {stack}
        /\ state' = [state EXCEPT ![c] = "EMBRYO"]
        /\ kstack' = [kstack EXCEPT ![c] = stack]
        /\ task' = [task EXCEPT ![p] = u]
    BY <1>3, <2>1 DEF fork, does
  <2>3. stack \in free /\ stack \in Pages /\ stack # None
    BY <1>3, <2>1, OnePage
  <2>4. /\ MemTypeOK /\ SlotsOK /\ ExtentOK(p) /\ ExtentOK(c) /\ ApartOK(p) /\ ApartOK(c)
        /\ sz[p] \in 0 .. KERNBASE - 1 /\ RoundUp(sz[p]) \in 0 .. KERNBASE \div PGSIZE
        /\ RoundUp(sz[p]) \in Nat
    BY AboutProcess
  <2>5. /\ state[p] = "RUNNABLE" /\ task[p].op = "none" /\ build[p] = NoSpace
        /\ 0 \in pgdir[p].user /\ fresh[p] = None
    BY <1>1, RunningProcess
  <2>6. /\ c # p /\ task[c] = NoTask /\ task[c].op = "none" /\ build[c] = NoSpace
        /\ kstack[c] = None /\ pgdir[c] = NoSpace /\ sz[c] = 0 /\ fresh[c] = None
    BY <1>1, <2>4, <2>5, IdleSlot DEF SlotsOK
  <2>7. /\ task'[p] = u /\ kstack'[c] = stack /\ state'[c] = "EMBRYO"
        /\ \A q \in Procs : q # p => task'[q] = task[q]
        /\ \A q \in Procs : q # c => state'[q] = state[q] /\ kstack'[q] = kstack[q]
        /\ DOMAIN task' = Procs /\ DOMAIN state' = Procs
        /\ kstack' \in [Procs -> Pages \cup {None}]
    BY <2>2, <2>3, <2>4 DEF MemTypeOK
  <2>8. \A q \in Procs : task[q].op = "fork" => task[q].child \in Procs /\ task[q].child # c
    BY <1>1 DEF ShapeInv, TaskOK, TaskTypeOK, ForkOK
  <2>9. MemTypeOK'
    BY <1>1, <2>4, <2>7 DEF MemTypeOK
  <2>10. SlotsOK'
    <3>1. \A q \in Procs : q # p => (task'[q].op = "fork" => task[q].op = "fork" /\ task'[q].child # c)
      BY <2>7, <2>8
    <3>2. u.op = "fork" /\ u.child = c
      BY <2>1
    <3>3. \A q, r \in Procs : q # r /\ task'[q].op = "fork" /\ task'[r].op = "fork" =>
            task'[q].child # task'[r].child
      BY <2>4, <2>7, <3>1, <3>2 DEF SlotsOK
    <3>4. boot' = "up"
      BY <1>1, RunningProcess
    <3> QED
      BY <1>1, <2>4, <2>6, <2>7, <3>3, <3>4 DEF SlotsOK
  <2>11. ExtentOK(p)' /\ ExtentOK(c)'
    BY <1>1, <2>4 DEF ExtentOK
  <2>12. TaskOK(p)'
    <3>1. TaskTypeOK(u)
      <4>1. KERNBASE \div PGSIZE \in Nat /\ SetupPages \in Nat
        BY UserPages, Sizes
      <4> QED
        BY <2>1, <2>4, <2>6, <4>1 DEF TaskTypeOK, Mappers, Executing
    <3>2. FrontOK(NoSpace, 0)
      BY EmptySpace, UserPages DEF FrontOK
    <3>3. ForkOK(p, u)'
      BY <1>1, <2>1, <2>4, <2>5, <2>7 DEF ForkOK
    <3>4. state'[p] = "RUNNABLE" /\ u.op = "fork" /\ u.at = 0
      BY <2>1, <2>5, <2>6, <2>7
    <3>5. build'[p] = NoSpace /\ fresh'[p] = None
      BY <1>1, <2>5
    <3> QED
      BY <2>7, <3>1, <3>2, <3>3, <3>4, <3>5 DEF TaskOK
  <2>13. TaskOK(c)'
    BY <1>1, <2>6, <2>7, NoTaskOK
  <2>14. ASSUME NEW q \in Procs, q # p, q # c PROVE ExtentOK(q)' /\ TaskOK(q)'
    BY <1>1, <2>7, <2>8, <2>14, Untouched
  <2>15. ShapeInv'
    BY <2>9, <2>10, <2>11, <2>12, <2>13, <2>14 DEF ShapeInv
  <2>16. ApartOK(p)' /\ Owned(p)' = Owned(p)
    <3>1. kstack'[p] = kstack[p]
      BY <2>6, <2>7
    <3> QED
      BY <1>1, <2>4, <2>5, <3>1, EmptySpace DEF ApartOK, Owned
  <2>17. ApartOK(c)' /\ Owned(c)' = Owned(c) \cup {stack}
    <3>1. Owned(c)' = PagesOf(pgdir'[c]) \cup PagesOf(build'[c]) \cup ({kstack'[c], fresh'[c]} \ {None})
      BY DEF Owned, PagesOf
    <3>2. pgdir'[c] = NoSpace /\ build'[c] = NoSpace /\ task'[c].op = "none" /\ fresh'[c] = None
      BY <1>1, <2>6, <2>7
    <3> QED
      BY <2>3, <2>6, <2>7, <3>1, <3>2, EmptySpace, OwnedPages DEF ApartOK, Builders
  <2>18. ASSUME NEW q \in Procs, q # p, q # c PROVE ApartOK(q)' /\ Owned(q)' = Owned(q)
    BY <1>1, <2>7, <2>18, UntouchedPages
  <2>19. PICK O, O2, A, K, T, F2 : /\ O = [q \in Procs |-> Owned(q)]
                                   /\ O2 = [q \in Procs |-> Owned(q)'] /\ A = GivenPages
                                   /\ K = kernel \cup pipes /\ T = {stack} /\ F2 = free \ T
    OBVIOUS
  <2>20. Divided(F2, K, O2, A)
    <3>1. O2[c] = O[c] \cup T /\ \A q \in Procs : q # c => O2[q] = O[q]
      BY <2>16, <2>17, <2>18, <2>19
    <3>2. T \in SUBSET free /\ Divided(free, K, O, A)
      BY <2>3, <2>19 DEF UseInv
    <3> QED
      BY <2>19, <3>1, <3>2, TakePages
  <2>21. GivenPages' = GivenPages /\ KernelOK'
    BY <1>1 DEF GivenPages, UseInv, KernelOK
  <2>22. UseInv'
    BY <1>1, <2>2, <2>16, <2>17, <2>18, <2>19, <2>20, <2>21 DEF UseInv
  <2> QED
    BY <2>15, <2>22
<1> QED
  BY <1>2, <1>3


\* The user bits do not matter to the pages of a space.
LEMMA SamePages ==
  ASSUME NEW s, IsSpace(s), NEW U \in SUBSET UPages, NEW new, new = [s EXCEPT !.user = U]
  PROVE  /\ IsSpace(new) /\ (UsedOnce(s) => UsedOnce(new)) /\ PagesOf(new) = PagesOf(s)
         /\ new.pte = s.pte /\ new.user = U
<1>1. /\ DOMAIN new = {"dir", "tabs", "pte", "user"} /\ new.dir = s.dir /\ new.tabs = s.tabs
      /\ new.pte = s.pte /\ new.user = U
  BY DEF IsSpace
<1>2. IsSpace(new)
  BY <1>1 DEF IsSpace
<1>3. Tables(new) = Tables(s) /\ Mapped(new) = Mapped(s)
  BY <1>1 DEF Tables, Mapped
<1> QED
  BY <1>1, <1>2, <1>3 DEF UsedOnce, PagesOf, freevm

\* fork gives the space it has built to the child.
LEMMA ForkEndKeeps ==
  ASSUME ShapeInv, UseInv, NEW p \in Procs, fork_end(p)
  PROVE  ShapeInv' /\ UseInv'
<1>1. PICK c, new : c = task[p].child /\ new = [build[p] EXCEPT !.user = pgdir[p].user]
  OBVIOUS
<1>2. /\ task[p].op = "fork" /\ ~(task[p].at <= task[p].last)
      /\ state' = [state EXCEPT ![c] = "RUNNABLE"]
      /\ pgdir' = [pgdir EXCEPT ![c] = new]
      /\ sz' = [sz EXCEPT ![c] = sz[p]]
      /\ view' = [view EXCEPT ![c] = view[p]]
      /\ build' = [build EXCEPT ![p] = NoSpace]
      /\ task' = [task EXCEPT ![p] = NoTask]
      /\ UNCHANGED <<boot, free, mem, kernel, pipes, fresh, kstack, panicked>>
  BY <1>1 DEF fork_end, Busy, Mapping, Setting, does
<1>3. /\ MemTypeOK /\ SlotsOK /\ ExtentOK(p) /\ ApartOK(p) /\ TaskOK(p) /\ TaskTypeOK(task[p])
      /\ IsSpace(build[p]) /\ IsSpace(pgdir[p]) /\ UsedOnce(build[p])
      /\ sz[p] \in 0 .. KERNBASE - 1 /\ RoundUp(sz[p]) \in Nat
  BY AboutProcess
<1>4. /\ ForkOK(p, task[p]) /\ FrontOK(build[p], task[p].at) /\ state[p] = "RUNNABLE"
      /\ c \in Procs /\ state[c] = "EMBRYO" /\ c # p /\ 0 \in pgdir[p].user
      /\ fresh[p] = None
  BY <1>1, <1>2, <1>3 DEF TaskOK, Mappers, ForkOK, TaskTypeOK
<1>5. task[p].at = RoundUp(sz[p])
  BY <1>2, <1>3, <1>4 DEF ForkOK, TaskTypeOK, Mappers
<1>6. /\ task[c] = NoTask /\ task[c].op = "none" /\ build[c] = NoSpace /\ pgdir[c] = NoSpace
      /\ fresh[c] = None
  BY <1>3, <1>4, IdleSlot DEF SlotsOK
<1>7. /\ IsSpace(new) /\ UsedOnce(new) /\ PagesOf(new) = PagesOf(build[p])
      /\ new.pte = build[p].pte /\ new.user = pgdir[p].user
  <2>1. PICK s, U : s = build[p] /\ U = pgdir[p].user
    OBVIOUS
  <2>2. IsSpace(s) /\ UsedOnce(s) /\ U \in SUBSET UPages /\ new = [s EXCEPT !.user = U]
    BY <1>1, <1>3, <2>1 DEF IsSpace
  <2> QED
    BY <2>1, <2>2, SamePages
<1>8. /\ pgdir'[c] = new /\ sz'[c] = sz[p] /\ state'[c] = "RUNNABLE"
      /\ build'[p] = NoSpace /\ task'[p] = NoTask
      /\ \A q \in Procs : q # p => build'[q] = build[q] /\ task'[q] = task[q]
      /\ \A q \in Procs : q # c => /\ state'[q] = state[q] /\ pgdir'[q] = pgdir[q]
                                   /\ sz'[q] = sz[q] /\ view'[q] = view[q]
      /\ DOMAIN build' = Procs /\ DOMAIN task' = Procs /\ DOMAIN state' = Procs
      /\ DOMAIN pgdir' = Procs /\ DOMAIN view' = Procs /\ view'[c] = view[p]
      /\ sz' \in [Procs -> 0 .. KERNBASE - 1]
  BY <1>2, <1>3, <1>4 DEF MemTypeOK
<1>9. MemTypeOK'
  BY <1>2, <1>3, <1>7, <1>8, EmptySpace DEF MemTypeOK
<1>10. boot = "up"
  BY <1>3, <1>4 DEF SlotsOK
<1>11. SlotsOK'
  <2>1. \A q \in Procs : task'[q].op = "fork" => task[q].op = "fork" /\ task'[q] = task[q]
    BY <1>8 DEF NoTask
  <2> QED
    BY <1>2, <1>3, <1>8, <1>10, <2>1 DEF SlotsOK
<1>12. ExtentOK(c)'
  <2>1. \A v \in UPages : v \in Nat
    BY UserPages
  <2> QED
    BY <1>3, <1>4, <1>5, <1>7, <1>8, <2>1 DEF FrontOK, ExtentOK
<1>13. ExtentOK(p)' /\ TaskOK(p)'
  BY <1>2, <1>3, <1>4, <1>8, NoTaskOK DEF ExtentOK
<1>14. TaskOK(c)'
  BY <1>2, <1>4, <1>6, <1>8, NoTaskOK
<1>15. ASSUME NEW q \in Procs, q # p, q # c PROVE ExtentOK(q)' /\ TaskOK(q)'
  <2>1. task[q].op = "fork" => task[q].child \in Procs /\ task[q].child # c
    BY <1>1, <1>2, <1>3, <1>15 DEF SlotsOK, ShapeInv, TaskOK, TaskTypeOK
  <2> QED
    BY <1>2, <1>8, <1>15, <2>1, Untouched
<1>16. ShapeInv'
  BY <1>4, <1>9, <1>11, <1>12, <1>13, <1>14, <1>15 DEF ShapeInv
<1>17. PICK M : M = PagesOf(build[p])
  OBVIOUS
<1>18. ApartOK(p)' /\ Owned(p)' = Owned(p) \ M /\ M \subseteq Owned(p)
  <2>1. Owned(p)' = PagesOf(pgdir'[p]) \cup PagesOf(build'[p]) \cup ({kstack'[p], fresh'[p]} \ {None})
    BY DEF Owned, PagesOf
  <2>2. /\ pgdir'[p] = pgdir[p] /\ kstack'[p] = kstack[p] /\ task'[p].op = "none"
        /\ fresh'[p] = None
    BY <1>2, <1>4, <1>8 DEF NoTask
  <2>3. M \cap PagesOf(pgdir[p]) = {} /\ kstack[p] \notin M
    BY <1>2, <1>3, <1>17 DEF ApartOK, Builders
  <2>4. Owned(p) = PagesOf(pgdir[p]) \cup M \cup ({kstack[p]} \ {None})
    BY <1>4, <1>17, OwnedPages
  <2>5. Owned(p)' = Owned(p) \ M /\ M \subseteq Owned(p)
    BY <1>8, <2>1, <2>2, <2>3, <2>4, EmptySpace
  <2> QED
    BY <1>3, <1>8, <2>2, <2>5, EmptySpace DEF ApartOK, Builders
<1>19. ApartOK(c)' /\ Owned(c)' = Owned(c) \cup M
  <2>1. Owned(c)' = PagesOf(pgdir'[c]) \cup PagesOf(build'[c]) \cup ({kstack'[c], fresh'[c]} \ {None})
    BY DEF Owned, PagesOf
  <2>2. /\ build'[c] = NoSpace /\ kstack'[c] = kstack[c] /\ task'[c].op = "none"
        /\ fresh'[c] = None
    BY <1>2, <1>4, <1>6, <1>8
  <2>3. Owned(c) = {kstack[c]} \ {None}
    BY <1>4, <1>6, OwnedPages, EmptySpace
  <2>4. Owned(p) \cap Owned(c) = {}
    BY <1>4 DEF UseInv, Divided
  <2>5. None \notin M
    BY <1>17 DEF PagesOf
  <2>6. kstack[c] \notin M
    BY <1>18, <2>3, <2>4, <2>5
  <2> QED
    BY <1>7, <1>8, <1>17, <2>1, <2>2, <2>3, <2>6, EmptySpace DEF ApartOK, Builders
<1>20. ASSUME NEW q \in Procs, q # p, q # c PROVE ApartOK(q)' /\ Owned(q)' = Owned(q)
  BY <1>2, <1>8, <1>20, UntouchedPages
<1>21. PICK O, O2, A, K : /\ K = kernel \cup pipes /\ O = [q \in Procs |-> Owned(q)]
                          /\ O2 = [q \in Procs |-> Owned(q)'] /\ A = GivenPages
  OBVIOUS
<1>22. Divided(free, K, O2, A)
  <2>1. Divided(free, K, O, A)
    BY <1>21 DEF UseInv
  <2>2. M \subseteq O[p] /\ O2[p] = O[p] \ M /\ O2[c] = O[c] \cup M
    BY <1>4, <1>18, <1>19, <1>21
  <2>3. \A q \in Procs : q # p /\ q # c => O2[q] = O[q]
    BY <1>20, <1>21
  <2>4. c \in Procs /\ p # c
    BY <1>4
  <2> QED
    BY <2>1, <2>2, <2>3, <2>4, MovePages
<1>23. GivenPages' = GivenPages /\ KernelOK'
  BY <1>2 DEF GivenPages, UseInv, KernelOK
<1>24. UseInv'
  BY <1>2, <1>18, <1>19, <1>20, <1>21, <1>22, <1>23 DEF UseInv
<1> QED
  BY <1>16, <1>24

\* fork is without memory and frees the space and the stack.
LEMMA ForkBadKeeps ==
  ASSUME ShapeInv, UseInv, NEW p \in Procs, fork_bad(p)
  PROVE  ShapeInv' /\ UseInv'
<1>1. PICK c, M, k : c = task[p].child /\ M = PagesOf(build[p]) \cup ({fresh[p]} \ {None}) /\ k = {kstack[c]} \ {None}
  OBVIOUS
<1>2. /\ task[p].op = "fork"
      /\ free' = free \cup ((freevm(build[p]) \cup {fresh[p], kstack[c]}) \ {None}) /\ DOMAIN mem' = Pages
      /\ kstack' = [kstack EXCEPT ![c] = None]
      /\ state' = [state EXCEPT ![c] = "UNUSED"]
      /\ build' = [build EXCEPT ![p] = NoSpace]
      /\ task' = [task EXCEPT ![p] = NoTask] /\ fresh' = [fresh EXCEPT ![p] = None]
      /\ UNCHANGED <<boot, kernel, pipes, pgdir, sz, view>>
      /\ panicked' = Freeing(freevm(build[p]) \cup {fresh[p], kstack[c]}, BuiltOnce(p))
  BY <1>1 DEF fork_bad, Busy, kfree, gives_up, does
<1>3. /\ MemTypeOK /\ SlotsOK /\ ExtentOK(p) /\ ApartOK(p) /\ TaskOK(p) /\ TaskTypeOK(task[p])
  BY AboutProcess
<1>4. c \in Procs /\ state[c] = "EMBRYO" /\ c # p /\ state[p] = "RUNNABLE"
  BY <1>1, <1>2, <1>3 DEF TaskOK, ForkOK, TaskTypeOK
<1>5. /\ task[c] = NoTask /\ task[c].op = "none" /\ build[c] = NoSpace /\ pgdir[c] = NoSpace
      /\ sz[c] = 0 /\ ExtentOK(c) /\ fresh[c] = None
  BY <1>3, <1>4, IdleSlot, AboutProcess DEF SlotsOK
<1>6. /\ build'[p] = NoSpace /\ task'[p] = NoTask /\ state'[c] = "UNUSED" /\ kstack'[c] = None
      /\ \A q \in Procs : q # p => build'[q] = build[q] /\ task'[q] = task[q] /\ fresh'[q] = fresh[q]
      /\ fresh'[p] = None /\ fresh' \in [Procs -> Pages \cup {None}]
      /\ \A q \in Procs : q # c => state'[q] = state[q] /\ kstack'[q] = kstack[q]
      /\ DOMAIN build' = Procs /\ DOMAIN task' = Procs /\ DOMAIN state' = Procs
      /\ kstack' \in [Procs -> Pages \cup {None}]
  BY <1>2, <1>3, <1>4 DEF MemTypeOK
<1>7. panicked' = "no"
  <2>1. PICK gs : gs = freevm(build[p]) \cup {fresh[p], kstack[c]}
    OBVIOUS
  <2>2. \A g \in gs \ {None} : g \in Owned(p) \/ g \in Owned(c)
    BY <2>1 DEF Owned
  <2> QED
    BY <1>2, <1>4, <2>1, <2>2, FreedOnce, FreesWell
<1>8. MemTypeOK'
  BY <1>2, <1>3, <1>6, <1>7, EmptySpace DEF MemTypeOK
<1>9. SlotsOK'
  <2>1. \A q \in Procs : task'[q].op = "fork" => task[q].op = "fork" /\ task'[q] = task[q]
    BY <1>6 DEF NoTask
  <2>2. boot = "up"
    BY <1>3, <1>4 DEF SlotsOK
  <2> QED
    BY <1>2, <1>3, <1>5, <1>6, <2>1, <2>2 DEF SlotsOK
<1>10. ExtentOK(p)' /\ TaskOK(p)' /\ ExtentOK(c)' /\ TaskOK(c)'
  BY <1>2, <1>3, <1>4, <1>5, <1>6, NoTaskOK DEF ExtentOK
<1>11. ASSUME NEW q \in Procs, q # p, q # c PROVE ExtentOK(q)' /\ TaskOK(q)'
  <2>1. task[q].op = "fork" => task[q].child \in Procs /\ task[q].child # c
    BY <1>1, <1>2, <1>3, <1>11 DEF SlotsOK, ShapeInv, TaskOK, TaskTypeOK
  <2> QED
    BY <1>2, <1>6, <1>11, <2>1, Untouched
<1>12. ShapeInv'
  BY <1>8, <1>9, <1>10, <1>11 DEF ShapeInv
<1>13. ApartOK(p)' /\ Owned(p)' = Owned(p) \ M /\ M \subseteq Owned(p)
  <2>1. Owned(p)' = PagesOf(pgdir'[p]) \cup PagesOf(build'[p]) \cup ({kstack'[p], fresh'[p]} \ {None})
    BY DEF Owned, PagesOf
  <2>2. pgdir'[p] = pgdir[p] /\ kstack'[p] = kstack[p] /\ task'[p].op = "none"
    BY <1>2, <1>4, <1>6 DEF NoTask
  <2>3. M \cap PagesOf(pgdir[p]) = {} /\ (kstack[p] # None => kstack[p] \notin M)
    BY <1>1, <1>2, <1>3 DEF ApartOK, Builders
  <2>4. Owned(p) = PagesOf(pgdir[p]) \cup M \cup ({kstack[p]} \ {None})
    BY <1>1, OwnedPages
  <2>5. Owned(p)' = Owned(p) \ M /\ M \subseteq Owned(p)
    BY <1>6, <2>1, <2>2, <2>3, <2>4, EmptySpace
  <2> QED
    BY <1>3, <1>6, <2>2, <2>5, EmptySpace DEF ApartOK, Builders
<1>14. ApartOK(c)' /\ Owned(c)' = {} /\ Owned(c) = k
  <2>1. Owned(c)' = PagesOf(pgdir'[c]) \cup PagesOf(build'[c]) \cup ({kstack'[c], fresh'[c]} \ {None})
    BY DEF Owned, PagesOf
  <2>2. /\ pgdir'[c] = NoSpace /\ build'[c] = NoSpace /\ kstack'[c] = None /\ task'[c].op = "none"
        /\ fresh'[c] = None
    BY <1>2, <1>4, <1>5, <1>6
  <2> QED
    BY <1>1, <1>4, <1>5, <2>1, <2>2, EmptySpace, OwnedPages DEF ApartOK, Builders
<1>15. ASSUME NEW q \in Procs, q # p, q # c PROVE ApartOK(q)' /\ Owned(q)' = Owned(q)
  BY <1>2, <1>6, <1>15, UntouchedPages
<1>16. free' = (free \cup M) \cup k
  BY <1>1, <1>2 DEF PagesOf
<1>17. PICK O, O2, A : /\ O = [q \in Procs |-> Owned(q)]
                       /\ O2 = [q \in Procs |-> Owned(q)'] /\ A = GivenPages
  OBVIOUS
<1>18. Divided((free \cup M) \cup k, kernel \cup pipes, O2, A)
  <2>1. Divided(free, kernel \cup pipes, O, A)
    BY <1>17 DEF UseInv
  <2>2. M \subseteq O[p] /\ O2[p] = O[p] \ M /\ O2[c] = {} /\ O[c] = k
    BY <1>4, <1>13, <1>14, <1>17
  <2>3. \A q \in Procs : q # p /\ q # c => O2[q] = O[q]
    BY <1>15, <1>17
  <2> QED
    BY <1>4, <2>1, <2>2, <2>3 DEF Divided
<1>19. GivenPages' = GivenPages /\ KernelOK'
  BY <1>2 DEF GivenPages, UseInv, KernelOK
<1>20. UseInv'
  BY <1>2, <1>13, <1>14, <1>15, <1>16, <1>17, <1>18, <1>19 DEF UseInv
<1> QED
  BY <1>12, <1>20

-----------------------------------------------------------------------------
(* exec *)

\* exec starts, with nothing built.
LEMMA ExecKeeps ==
  ASSUME ShapeInv, UseInv, NEW p \in Procs, NEW e \in Execs, exec(p, e.prog, e.args)
  PROVE  ShapeInv' /\ UseInv'
<1>1. PICK u : u = [op |-> "headers", left |-> SetupPages, prog |-> e.prog, args |-> e.args, size |-> 0]
  OBVIOUS
<1>2. /\ Runs(p) /\ task' = [task EXCEPT ![p] = u]
      /\ UNCHANGED <<boot, free, mem, kernel, pipes, state, kstack, pgdir, sz, view, build, fresh,
                     panicked>>
  BY <1>1 DEF exec, does, procVars
<1>3. /\ MemTypeOK /\ SlotsOK /\ ExtentOK(p) /\ ApartOK(p)
  BY AboutProcess
<1>4. /\ state[p] = "RUNNABLE" /\ build[p] = NoSpace /\ PagesOf(build[p]) = {} /\ fresh[p] = None
  BY <1>2, RunningProcess
<1>5. /\ task'[p] = u /\ \A q \in Procs : q # p => task'[q] = task[q]
      /\ DOMAIN task' = Procs
  BY <1>2, <1>3 DEF MemTypeOK
<1>6. MemTypeOK'
  BY <1>2, <1>3, <1>5 DEF MemTypeOK
<1>7. SlotsOK'
  <2>1. \A q \in Procs : task'[q].op = "fork" => task[q].op = "fork" /\ task'[q] = task[q]
    BY <1>1, <1>5
  <2> QED
    BY <1>2, <1>3, <2>1 DEF SlotsOK
<1>8. ExtentOK(p)'
  BY <1>2, <1>3 DEF ExtentOK
<1>9. TaskOK(p)'
  <2>1. TaskTypeOK(u)
    <3>1. e.prog \in Seq(ProgHeaders) /\ SetupPages \in Nat
      BY MemoryAssumption, Sizes
    <3> QED
      BY <1>1, <3>1, Sizes DEF TaskTypeOK, Mappers, Executing
  <2>2. FrontOK(NoSpace, RoundUp(0))
    <3>1. \A v \in UPages : v \in Nat /\ ~(v < RoundUp(0))
      <4> SUFFICES ASSUME NEW v \in UPages PROVE v \in Nat /\ ~(v < RoundUp(0))
        OBVIOUS
      <4>1. v \in Nat /\ v * PGSIZE \in Nat
        BY UserPages, Sizes
      <4> QED
        BY <4>1, RoundUpIs
    <3> QED
      BY <3>1, EmptySpace DEF FrontOK
  <2>3. u.op = "headers" /\ u.size = 0
    BY <1>1
  <2> QED
    BY <1>2, <1>4, <1>5, <2>1, <2>2, <2>3 DEF TaskOK, Mappers
<1>10. ShapeInv'
  BY <1>2, <1>5, <1>6, <1>7, <1>8, <1>9, ShapeOfStep
<1>11. ApartOK(p)' /\ Owned(p)' = Owned(p)
  BY <1>2, <1>3, <1>4 DEF ApartOK, Owned
<1>12. UseInv'
  BY <1>2, <1>5, <1>11, KeepingStep
<1> QED
  BY <1>10, <1>12


\* A step of exec between two places in the program.
LEMMA ProgramStep ==
  ASSUME ShapeInv, UseInv, NEW p \in Procs, task[p].op \in Executing, fresh[p] = None,
         NEW u, u.op \in Executing, TaskTypeOK(u), task' = [task EXCEPT ![p] = u],
         IF u.op = "headers" THEN FrontOK(build[p], RoundUp(u.size)) ELSE FrontOK(build[p], u.at),
         u.op = "segment" => SegmentOK(u), u.op = "stack" => StackOK(u), DOMAIN mem' = Pages,
         UNCHANGED <<boot, free, kernel, pipes, fresh, state, kstack, pgdir, sz, view, build, panicked>>
  PROVE  ShapeInv' /\ UseInv'
<1>1. MemTypeOK /\ SlotsOK /\ ExtentOK(p) /\ TaskOK(p) /\ ApartOK(p)
  BY AboutProcess
<1>2. DOMAIN task = Procs
  BY <1>1 DEF MemTypeOK
<1>3. task'[p] = u /\ DOMAIN task' = Procs /\ \A q \in Procs : q # p => task'[q] = task[q]
  BY <1>2
<1>4. MemTypeOK'
  BY <1>1, <1>3 DEF MemTypeOK
<1>5. u.op # "none" /\ u.op # "fork" /\ u.op # "grow" /\ task[p].op # "none" /\ task[p].op # "fork"
  BY DEF Executing
<1>6. SlotsOK'
  <2>1. \A q \in Procs : task'[q].op = "fork" => task[q].op = "fork" /\ task'[q] = task[q]
    BY <1>3, <1>5
  <2> QED
    BY <1>1, <2>1 DEF SlotsOK
<1>7. ExtentOK(p)'
  BY <1>1 DEF ExtentOK
<1>8. TaskOK(p)'
  <2>1. state'[p] = "RUNNABLE"
    BY <1>1, <1>5 DEF TaskOK
  <2>2. u.op \in Mappers => u.op # "headers"
    BY DEF Mappers
  <2> QED
    BY <1>3, <1>5, <2>1, <2>2 DEF TaskOK
<1>9. ShapeInv'
  BY <1>3, <1>4, <1>6, <1>7, <1>8, ShapeOfStep
<1>10. Owned(p)' = Owned(p)
  BY DEF Owned
<1>11. ApartOK(p)'
  <2>1. task[p].op \in Builders
    BY DEF Executing, Builders
  <2> QED
    BY <1>1, <2>1 DEF ApartOK
<1>12. UseInv'
  BY <1>3, <1>10, <1>11, KeepingStep
<1> QED
  BY <1>9, <1>12

\* What the invariants say of a process in exec.
LEMMA InExec ==
  ASSUME ShapeInv, UseInv, NEW p \in Procs, NEW t, t = task[p], t.op \in Executing
  PROVE  /\ TaskTypeOK(t) /\ {"op", "prog", "args", "size"} \subseteq DOMAIN t
         /\ t.size \in 0 .. KERNBASE - 1 /\ t.size \in Nat /\ t.prog \in Seq(ProgHeaders)
         /\ RoundUp(t.size) \in 0 .. KERNBASE \div PGSIZE /\ RoundUp(t.size) \in Nat
         /\ KERNBASE \div PGSIZE \in Nat /\ state[p] = "RUNNABLE"
         /\ t.op # "headers" => FrontOK(build[p], t.at) /\ t.at \in Nat /\ t.last \in Int
         /\ t.op = "headers" => FrontOK(build[p], RoundUp(t.size))
         /\ t.op = "segment" => SegmentOK(t)
         /\ t.op = "stack" => StackOK(t)
         /\ t.op = "headers" \/ ~(t.at <= t.last) => fresh[p] = None
<1>1. TaskTypeOK(t) /\ TaskOK(p)
  BY AboutProcess
<1>2. /\ {"op", "prog", "args", "size"} \subseteq DOMAIN t
      /\ t.size \in 0 .. KERNBASE - 1 /\ t.prog \in Seq(ProgHeaders)
  BY <1>1 DEF TaskTypeOK
<1>3. t.size \in Nat /\ KERNBASE \div PGSIZE \in Nat
  BY <1>2, UserPages
<1>4. RoundUp(t.size) \in 0 .. KERNBASE \div PGSIZE /\ RoundUp(t.size) \in Nat
  BY <1>2, <1>3, BelowSize, RoundUpIs
<1>5. t.op # "headers" => t.op \in Mappers /\ t.at \in Nat /\ t.last \in Int
  BY <1>1 DEF TaskTypeOK, Executing, Mappers
<1>6. t.op # "none"
  BY DEF Executing
<1>7. t.op = "headers" \/ ~(t.at <= t.last) => fresh[p] = None
  BY <1>1 DEF TaskOK, Mappers
<1> QED
  BY <1>1, <1>2, <1>3, <1>4, <1>5, <1>6, <1>7 DEF TaskOK

\* A program header of a program.
LEMMA HeadOf ==
  ASSUME NEW s \in Seq(ProgHeaders), s # <<>>
  PROVE  Head(s) \in ProgHeaders /\ Tail(s) \in Seq(ProgHeaders)
OBVIOUS

\* A segment that passes the tests ends below KERNBASE, and its size did not wrap around.
LEMMA GoodHeader ==
  ASSUME NEW ph \in ProgHeaders, ~BadHeader(ph)
  PROVE  /\ End(ph) \in 0 .. KERNBASE - 1 /\ End(ph) = ph.vaddr + ph.memsz
         /\ ph.vaddr \in Nat /\ ph.filesz \in Nat /\ ph.filesz <= ph.memsz /\ ph.memsz \in Nat
<1>1. PICK a \in Nat, b \in Nat, f \in Nat :
        a = ph.vaddr /\ b = ph.memsz /\ f = ph.filesz /\ a < UINT /\ b < UINT
  BY Sizes DEF ProgHeaders
<1>2. PICK q \in Nat, r \in Nat : a + b = UINT * q + r /\ r = (a + b) % UINT
  <2>1. PICK s \in Nat, m \in Nat \ {0} : s = a + b /\ m = UINT
    BY <1>1, Sizes
  <2>2. PICK q \in Int, r \in Int : q = s \div m /\ r = s % m /\ s = m * q + r
    BY Division
  <2>3. q \in Nat /\ r \in 0 .. m - 1
    BY <2>2, Quotient
  <2>4. a + b = UINT * q + r /\ r = (a + b) % UINT /\ r \in Nat
    BY <2>1, <2>2, <2>3
  <2> QED
    BY <2>3, <2>4
<1>3. End(ph) = r /\ r >= a /\ r < KERNBASE /\ f <= b
  BY <1>1, <1>2, Sizes DEF BadHeader, End
<1>4. CASE q = 0
  BY <1>1, <1>2, <1>3, <1>4, Sizes
<1>5. CASE q >= 1
  <2>1. PICK d \in Nat : q = 1 + d
    <3>1. q - 1 \in Nat /\ q = 1 + (q - 1)
      BY <1>5
    <3> QED BY <3>1
  <2>2. PICK x \in Nat : x = UINT * d /\ UINT * q = UINT + x
    BY <2>1, Sizes
  <2> QED
    BY <1>1, <1>2, <1>3, <2>2, Sizes
<1> QED
  BY <1>2, <1>4, <1>5

\* The next program header is skipped, or its segment is to be mapped.
LEMMA ExecHeaderKeeps ==
  ASSUME ShapeInv, UseInv, NEW p \in Procs, exec_header(p)
  PROVE  ShapeInv' /\ UseInv'
<1>1. PICK t, ph : t = task[p] /\ ph = Head(t.prog)
  OBVIOUS
<1>2. /\ t.op = "headers" /\ t.prog # <<>>
      /\ UNCHANGED <<boot, free, mem, kernel, pipes, fresh, state, kstack, pgdir, sz, view, build, panicked>>
  BY <1>1 DEF exec_header, Busy, procVars
<1>3. /\ TaskTypeOK(t) /\ {"op", "prog", "args", "size"} \subseteq DOMAIN t
      /\ t.size \in 0 .. KERNBASE - 1 /\ t.prog \in Seq(ProgHeaders)
      /\ RoundUp(t.size) \in 0 .. KERNBASE \div PGSIZE /\ RoundUp(t.size) \in Nat
      /\ KERNBASE \div PGSIZE \in Nat /\ FrontOK(build[p], RoundUp(t.size))
      /\ task[p].op \in Executing /\ fresh[p] = None
  BY <1>1, <1>2, InExec DEF Executing
<1>4. ph \in ProgHeaders /\ Tail(t.prog) \in Seq(ProgHeaders)
  BY <1>1, <1>2, <1>3, HeadOf
<1>5. DOMAIN mem' = Pages
  BY <1>2 DEF ShapeInv, MemTypeOK
<1>6. CASE task' = [task EXCEPT ![p] = [t EXCEPT !.prog = Tail(t.prog)]]
  <2>1. PICK u : u = [t EXCEPT !.prog = Tail(t.prog)]
    OBVIOUS
  <2>2. /\ DOMAIN u = DOMAIN t /\ u.op = "headers" /\ u.size = t.size /\ u.prog = Tail(t.prog)
        /\ u.left = t.left /\ "left" \in DOMAIN t /\ t.left \in Nat
    BY <1>2, <1>3, <2>1 DEF TaskTypeOK
  <2>3. TaskTypeOK(u)
    BY <1>3, <1>4, <2>2 DEF TaskTypeOK, Mappers
  <2>4. u.op \in Executing
    BY <2>2 DEF Executing
  <2> QED
    BY <1>2, <1>3, <1>5, <1>6, <2>1, <2>2, <2>3, <2>4, ProgramStep
<1>7. CASE /\ ph.load /\ ~BadHeader(ph)
           /\ task' = [task EXCEPT ![p] = In(p, "segment", RoundUp(t.size), RoundUp(End(ph)) - 1)]
  <2>1. PICK u : u = In(p, "segment", RoundUp(t.size), RoundUp(End(ph)) - 1)
    OBVIOUS
  <2>2. /\ DOMAIN u = {"op", "prog", "args", "size", "at", "last"} /\ u.op = "segment"
        /\ u.size = t.size /\ u.prog = t.prog
        /\ u.at = RoundUp(t.size) /\ u.last = RoundUp(End(ph)) - 1
    BY <1>1, <2>1 DEF In
  <2>3. RoundUp(End(ph)) \in 0 .. KERNBASE \div PGSIZE
    <3>1. PICK e \in 0 .. KERNBASE - 1 : e = End(ph)
      BY <1>4, <1>7, GoodHeader
    <3> QED
      BY <3>1, BelowSize
  <2>4. TaskTypeOK(u)
    BY <1>3, <2>2, <2>3 DEF TaskTypeOK, Mappers
  <2>5. SegmentOK(u)
    BY <1>1, <1>2, <1>3, <1>7, <2>2 DEF SegmentOK
  <2>6. u.op \in Executing /\ u.op # "headers" /\ u.op # "stack"
    BY <2>2 DEF Executing
  <2>7. FrontOK(build[p], u.at)
    BY <1>3, <2>2
  <2>8. task' = [task EXCEPT ![p] = u]
    BY <1>7, <2>1
  <2> QED
    BY <1>2, <1>3, <1>5, <2>4, <2>5, <2>6, <2>7, <2>8, ProgramStep
<1> QED
  BY <1>1, <1>6, <1>7 DEF exec_header, does

\* loaduvm finds the pages of the segment, and the size is where the pages end.
LEMMA ExecLoadKeeps ==
  ASSUME ShapeInv, UseInv, NEW p \in Procs, exec_load(p)
  PROVE  ShapeInv' /\ UseInv'
<1>1. PICK t, ph : t = task[p] /\ ph = Head(t.prog)
  OBVIOUS
<1>2. PICK size : size = IF End(ph) < t.size THEN t.size ELSE End(ph)
  OBVIOUS
<1>3. PICK u : u = [op |-> "headers", left |-> 0, prog |-> Tail(t.prog), args |-> t.args, size |-> size]
  OBVIOUS
<1>4. /\ panicked = "no" /\ t.op = "segment" /\ ~(t.at <= t.last) /\ DOMAIN mem' = Pages
      /\ task' = [task EXCEPT ![p] = u]
      /\ panicked' = IF None \in {build[p].pte[v] : v \in Filled(ph)} THEN "loaduvm" ELSE "no"
      /\ UNCHANGED <<boot, free, kernel, pipes, fresh, state, kstack, pgdir, sz, view, build>>
  BY <1>1, <1>2, <1>3 DEF exec_load, Busy, Mapping, Setting, does, procVars
<1>5. /\ TaskTypeOK(t) /\ {"op", "prog", "args", "size"} \subseteq DOMAIN t
      /\ t.size \in 0 .. KERNBASE - 1 /\ t.size \in Nat /\ t.prog \in Seq(ProgHeaders)
      /\ RoundUp(t.size) \in Nat /\ t.at \in Nat /\ t.last \in Int
      /\ FrontOK(build[p], t.at) /\ SegmentOK(t) /\ task[p].op \in Executing
      /\ fresh[p] = None
  BY <1>1, <1>4, InExec DEF Executing
<1>6. ph \in ProgHeaders /\ Tail(t.prog) \in Seq(ProgHeaders) /\ ~BadHeader(ph)
  BY <1>1, <1>5, HeadOf DEF SegmentOK
<1>7. PICK e \in 0 .. KERNBASE - 1 :
        /\ e = End(ph) /\ e \in Nat /\ e = ph.vaddr + ph.memsz
        /\ ph.vaddr \in Nat /\ ph.filesz \in Nat /\ ph.filesz <= ph.memsz /\ ph.memsz \in Nat
  BY <1>6, GoodHeader
<1>8. size \in 0 .. KERNBASE - 1 /\ size \in Nat /\ t.size <= size /\ e <= size
  BY <1>2, <1>5, <1>7, Sizes
<1>9. RoundUp(e) \in Nat /\ RoundUp(size) \in Nat
  BY <1>7, <1>8, RoundUpIs
<1>10. t.at = RoundUp(size)
  <2>1. t.last = RoundUp(e) - 1 /\ RoundUp(t.size) <= t.at
        /\ (t.at = RoundUp(t.size) \/ t.at <= t.last + 1)
    BY <1>1, <1>5, <1>7 DEF SegmentOK
  <2>2. t.at >= RoundUp(e) /\ (t.at = RoundUp(t.size) \/ t.at = RoundUp(e))
    BY <1>4, <1>5, <1>9, <2>1
  <2>3. RoundUp(t.size) <= RoundUp(size) /\ RoundUp(e) <= RoundUp(size)
    BY <1>5, <1>7, <1>8, RoundUpGrows
  <2>4. size = t.size \/ size = e
    BY <1>2, <1>7
  <2> QED
    BY <1>5, <1>9, <2>1, <2>2, <2>3, <2>4
<1>11. panicked' = panicked
  <2>1. ASSUME NEW v \in Filled(ph) PROVE build[p].pte[v] # None
    <3>1. v \in UPages /\ v \in Nat /\ v * PGSIZE \in Nat
      BY UserPages, Sizes DEF Filled
    <3>2. v * PGSIZE < e
      <4>1. v * PGSIZE <= ph.vaddr + ph.filesz - 1
        BY <1>7, <3>1 DEF Filled
      <4> QED
        BY <1>7, <3>1, <4>1
    <3>3. v < RoundUp(size)
      <4>1. v * PGSIZE < size
        BY <1>7, <1>8, <3>1, <3>2
      <4> QED
        BY <1>8, <3>1, <4>1, RoundUpIs
    <3> QED
      BY <1>5, <1>10, <3>1, <3>3 DEF FrontOK
  <2> QED
    BY <1>4, <2>1
<1>12. u.op = "headers" /\ u.size = size /\ u.prog = Tail(t.prog)
       /\ DOMAIN u = {"op", "left", "prog", "args", "size"} /\ u.left = 0
  BY <1>3
<1>13. TaskTypeOK(u)
  BY <1>6, <1>8, <1>12 DEF TaskTypeOK, Mappers
<1>14. FrontOK(build[p], RoundUp(u.size))
  BY <1>5, <1>10, <1>12
<1>15. u.op \in Executing /\ u.op # "segment" /\ u.op # "stack"
  BY <1>12 DEF Executing
<1> QED
  BY <1>4, <1>5, <1>11, <1>12, <1>13, <1>14, <1>15, ProgramStep

\* The two pages above the program are to be mapped.
LEMMA ExecStackKeeps ==
  ASSUME ShapeInv, UseInv, NEW p \in Procs, exec_stack(p)
  PROVE  ShapeInv' /\ UseInv'
<1>1. PICK t, u, a : t = task[p] /\ a = RoundUp(t.size) /\ u = In(p, "stack", a, a + 1)
  OBVIOUS
<1>2. /\ t.op = "headers" /\ t.prog = <<>> /\ (a + 2) * PGSIZE < KERNBASE
      /\ task' = [task EXCEPT ![p] = u]
      /\ UNCHANGED <<boot, free, mem, kernel, pipes, fresh, state, kstack, pgdir, sz, view, build, panicked>>
  BY <1>1 DEF exec_stack, Busy, does, procVars, StackAt, StackFits
<1>3. /\ t.size \in 0 .. KERNBASE - 1 /\ t.prog \in Seq(ProgHeaders) /\ a \in Nat
      /\ FrontOK(build[p], a) /\ task[p].op \in Executing /\ fresh[p] = None
  BY <1>1, <1>2, InExec DEF Executing
<1>4. DOMAIN mem' = Pages
  BY <1>2 DEF ShapeInv, MemTypeOK
<1>5. a + 2 < KERNBASE \div PGSIZE /\ KERNBASE \div PGSIZE \in Nat
  <2>1. PICK b \in Nat : b = a + 2
    BY <1>3
  <2>2. b \in UPages
    BY <1>2, <2>1, UserPages
  <2> QED
    BY <2>1, <2>2, UserPages
<1>6. /\ DOMAIN u = {"op", "prog", "args", "size", "at", "last"} /\ u.op = "stack"
      /\ u.size = t.size /\ u.prog = t.prog /\ u.at = a /\ u.last = a + 1
  BY <1>1 DEF In
<1>7. TaskTypeOK(u)
  BY <1>3, <1>5, <1>6 DEF TaskTypeOK, Mappers
<1>8. StackOK(u)
  BY <1>1, <1>2, <1>3, <1>6 DEF StackOK
<1>9. u.op \in Executing /\ u.op # "headers" /\ u.op # "segment" /\ FrontOK(build[p], u.at)
  BY <1>3, <1>6 DEF Executing
<1> QED
  BY <1>2, <1>3, <1>4, <1>7, <1>8, <1>9, ProgramStep

\* exec fails: the space that it has built is freed.
LEMMA ExecBadKeeps ==
  ASSUME ShapeInv, UseInv, NEW p \in Procs, exec_bad(p)
  PROVE  ShapeInv' /\ UseInv'
<1>1. PICK M : M = PagesOf(build[p]) \cup ({fresh[p]} \ {None})
  OBVIOUS
<1>2. /\ task[p].op \in Executing /\ free' = free \cup M /\ DOMAIN mem' = Pages
      /\ build' = [build EXCEPT ![p] = NoSpace] /\ task' = [task EXCEPT ![p] = NoTask]
      /\ fresh' = [fresh EXCEPT ![p] = None]
      /\ UNCHANGED <<boot, kernel, pipes, state, kstack, pgdir, sz, view>>
      /\ panicked' = Freeing(freevm(build[p]) \cup {fresh[p]}, BuiltOnce(p))
  BY <1>1 DEF exec_bad, Fails, TooLong, Executing, kfree, gives_up, does, procVars, PagesOf
<1>3. /\ MemTypeOK /\ SlotsOK /\ ExtentOK(p) /\ ApartOK(p)
  BY AboutProcess
<1>4. /\ build'[p] = NoSpace /\ task'[p] = NoTask
      /\ \A q \in Procs : q # p => build'[q] = build[q] /\ task'[q] = task[q] /\ fresh'[q] = fresh[q]
      /\ fresh'[p] = None /\ fresh' \in [Procs -> Pages \cup {None}]
      /\ DOMAIN build' = Procs /\ DOMAIN task' = Procs
  BY <1>2, <1>3 DEF MemTypeOK
<1>5. panicked' = "no"
  <2>1. PICK gs : gs = freevm(build[p]) \cup {fresh[p]}
    OBVIOUS
  <2>2. \A g \in gs \ {None} : g \in Owned(p)
    BY <2>1 DEF Owned
  <2> QED
    BY <1>2, <2>1, <2>2, FreedOnce, FreesWell
<1>6. MemTypeOK'
  BY <1>2, <1>3, <1>4, <1>5, EmptySpace DEF MemTypeOK
<1>7. SlotsOK'
  <2>1. \A q \in Procs : task'[q].op = "fork" => task[q].op = "fork" /\ task'[q] = task[q]
    BY <1>4 DEF NoTask
  <2> QED
    BY <1>2, <1>3, <2>1 DEF SlotsOK
<1>8. ExtentOK(p)' /\ TaskOK(p)' /\ task'[p].op = "none"
  BY <1>2, <1>3, <1>4, NoTaskOK DEF ExtentOK
<1>9. ShapeInv'
  BY <1>2, <1>4, <1>6, <1>7, <1>8, ShapeOfStep
<1>10. Owned(p)' = Owned(p) \ M /\ M \in SUBSET Owned(p)
  <2>1. Owned(p)' = PagesOf(pgdir'[p]) \cup PagesOf(build'[p]) \cup ({kstack'[p], fresh'[p]} \ {None})
    BY DEF Owned, PagesOf
  <2>2. M \cap PagesOf(pgdir[p]) = {} /\ (kstack[p] # None => kstack[p] \notin M)
    BY <1>1, <1>2, <1>3 DEF ApartOK, Builders, Executing
  <2>3. Owned(p) = PagesOf(pgdir[p]) \cup M \cup ({kstack[p]} \ {None})
    BY <1>1, OwnedPages
  <2> QED
    BY <1>2, <1>4, <2>1, <2>2, <2>3, EmptySpace
<1>11. ApartOK(p)'
  BY <1>2, <1>3, <1>4, <1>8, EmptySpace DEF ApartOK, Builders
<1>12. UseInv'
  BY <1>2, <1>4, <1>10, <1>11, GivingStep
<1> QED
  BY <1>9, <1>12

\* A size of whole pages.
LEMMA WholePages ==
  ASSUME NEW n \in Nat
  PROVE  n * PGSIZE \in Nat /\ RoundUp(n * PGSIZE) = n
<1>1. PICK x \in Nat : x = n * PGSIZE
  BY Sizes
<1>2. RoundUp(x) \in Nat /\ \A v \in Nat : v < RoundUp(x) <=> v * PGSIZE < x
  BY RoundUpIs
<1>3. ~(n < RoundUp(x))
  BY <1>1, <1>2
<1>4. ASSUME RoundUp(x) < n PROVE FALSE
  <2>1. PICK v \in Nat : v = RoundUp(x)
    BY <1>2
  <2>2. PGSIZE * (v + 1) <= PGSIZE * n
    BY <1>4, <2>1, Multiples, Sizes
  <2>3. PICK y \in Nat : y = v * PGSIZE /\ PGSIZE * (v + 1) = y + PGSIZE
    BY Sizes
  <2>4. PGSIZE * n = x
    BY <1>1, Sizes
  <2>5. ~(y < x)
    BY <1>2, <2>1, <2>3
  <2> QED
    BY <1>1, <2>2, <2>3, <2>4, <2>5, Sizes
<1> QED
  BY <1>1, <1>2, <1>3, <1>4

\* Both pages of the stack are there when exec commits.
LEMMA StackThere ==
  ASSUME ShapeInv, UseInv, NEW p \in Procs, NEW t, t = task[p], t.op = "stack", ~(t.at <= t.last),
         NEW guard, guard = RoundUp(t.size)
  PROVE  /\ guard \in Nat /\ t.at = guard + 2 /\ FrontOK(build[p], guard + 2)
         /\ guard \in UPages /\ guard + 1 \in UPages
         /\ (guard + 2) * PGSIZE \in 0 .. KERNBASE - 1
<1>1. /\ guard \in Nat /\ t.at \in Nat /\ t.last \in Int /\ FrontOK(build[p], t.at) /\ StackOK(t)
  BY InExec DEF Executing
<1>2. t.at = guard + 2 /\ (guard + 2) * PGSIZE < KERNBASE
  BY <1>1 DEF StackOK
<1>3. PICK b \in Nat, x \in Nat : b = guard + 2 /\ x = b * PGSIZE
  BY <1>1, Sizes
<1>4. b \in UPages
  BY <1>2, <1>3, UserPages
<1>5. guard \in UPages /\ guard + 1 \in UPages
  BY <1>1, <1>3, <1>4, UserPages
<1>6. x \in 0 .. KERNBASE - 1
  BY <1>2, <1>3, Sizes
<1> QED
  BY <1>1, <1>2, <1>3, <1>5, <1>6

\* The new image replaces the old one, which is freed.
LEMMA ExecCommitKeeps ==
  ASSUME ShapeInv, UseInv, NEW p \in Procs, exec_commit(p)
  PROVE  ShapeInv' /\ UseInv'
<1>1. PICK t, guard : t = task[p] /\ guard = RoundUp(t.size)
  OBVIOUS
<1>2. PICK old, new, U : /\ old = PagesOf(pgdir[p]) /\ U = build[p].user \ {guard}
                         /\ new = [build[p] EXCEPT !.user = U]
  OBVIOUS
<1>3. /\ t.op = "stack" /\ ~(t.at <= t.last)
      /\ free' = free \cup old /\ DOMAIN mem' = Pages
      /\ pgdir' = [pgdir EXCEPT ![p] = new]
      /\ sz' = [sz EXCEPT ![p] = (guard + 2) * PGSIZE]
      /\ build' = [build EXCEPT ![p] = NoSpace] /\ task' = [task EXCEPT ![p] = NoTask]
      /\ UNCHANGED <<boot, kernel, pipes, fresh, state, kstack>>
      /\ panicked' = Freeing(old, UsedOnce(pgdir[p]))
  BY <1>1, <1>2 DEF exec_commit, Busy, Mapping, Setting, StackAt, does, PagesOf
<1>4. \E f : DOMAIN f = UPages /\ view' = [view EXCEPT ![p] = f]
  BY DEF exec_commit
<1>5. PICK f : DOMAIN f = UPages /\ view' = [view EXCEPT ![p] = f]
  BY <1>4
<1>6. /\ MemTypeOK /\ SlotsOK /\ TaskOK(p) /\ ApartOK(p) /\ IsSpace(build[p]) /\ UsedOnce(build[p])
      /\ UsedOnce(pgdir[p])
  BY AboutProcess
<1>7. PICK size \in 0 .. KERNBASE - 1 :
        /\ size = (guard + 2) * PGSIZE /\ RoundUp(size) = guard + 2 /\ guard \in Nat
        /\ FrontOK(build[p], guard + 2)
  <2>1. PICK b \in Nat : b = guard + 2 /\ b * PGSIZE \in 0 .. KERNBASE - 1
    BY <1>1, <1>3, StackThere
  <2>2. RoundUp(b * PGSIZE) = b
    BY <2>1, WholePages
  <2> QED
    BY <1>1, <1>3, <2>1, <2>2, StackThere
<1>8. /\ IsSpace(new) /\ UsedOnce(new) /\ PagesOf(new) = PagesOf(build[p]) /\ new.pte = build[p].pte
  <2>1. PICK s : s = build[p]
    OBVIOUS
  <2>2. IsSpace(s) /\ UsedOnce(s) /\ U \in SUBSET UPages /\ new = [s EXCEPT !.user = U]
    BY <1>2, <1>6, <2>1 DEF IsSpace
  <2> QED
    BY <2>1, <2>2, SamePages
<1>9. /\ pgdir'[p] = new /\ sz'[p] = size /\ build'[p] = NoSpace /\ task'[p] = NoTask
      /\ \A q \in Procs : q # p => /\ pgdir'[q] = pgdir[q] /\ sz'[q] = sz[q] /\ view'[q] = view[q]
                                   /\ build'[q] = build[q] /\ task'[q] = task[q]
      /\ DOMAIN pgdir' = Procs /\ DOMAIN build' = Procs /\ DOMAIN task' = Procs
      /\ DOMAIN view' = Procs /\ DOMAIN view'[p] = UPages
      /\ sz' \in [Procs -> 0 .. KERNBASE - 1]
  BY <1>3, <1>5, <1>6, <1>7 DEF MemTypeOK
<1>10. fresh[p] = None
  BY <1>1, <1>3, InExec DEF Executing
<1>11. panicked' = "no"
  <2>1. \A g \in old \ {None} : g \in Owned(p)
    BY <1>2, OwnedPages
  <2> QED
    BY <1>3, <1>6, <2>1, FreesWell
<1>12. MemTypeOK'
  BY <1>3, <1>6, <1>8, <1>9, <1>11, EmptySpace DEF MemTypeOK
<1>13. state[p] = "RUNNABLE"
  BY <1>1, <1>3, <1>6 DEF TaskOK
<1>14. SlotsOK'
  <2>1. \A q \in Procs : task'[q].op = "fork" => task[q].op = "fork" /\ task'[q] = task[q]
    BY <1>9 DEF NoTask
  <2> QED
    BY <1>3, <1>6, <1>9, <1>13, <2>1 DEF SlotsOK
<1>15. ExtentOK(p)'
  <2>1. \A v \in UPages : v \in Nat
    BY UserPages
  <2> QED
    BY <1>7, <1>8, <1>9, <2>1 DEF FrontOK, ExtentOK
<1>16. TaskOK(p)' /\ task'[p].op = "none"
  BY <1>3, <1>9, <1>10, NoTaskOK
<1>17. ShapeInv'
  BY <1>3, <1>9, <1>12, <1>14, <1>15, <1>16, ShapeOfStep
<1>18. Owned(p)' = Owned(p) \ old /\ old \in SUBSET Owned(p)
  <2>1. Owned(p)' = PagesOf(pgdir'[p]) \cup PagesOf(build'[p]) \cup ({kstack'[p], fresh'[p]} \ {None})
    BY DEF Owned, PagesOf
  <2>2. PagesOf(build[p]) \cap old = {} /\ kstack[p] \notin old
    BY <1>1, <1>2, <1>3, <1>6 DEF ApartOK, Builders
  <2>3. Owned(p) = old \cup PagesOf(build[p]) \cup ({kstack[p]} \ {None})
    BY <1>2, <1>10, OwnedPages
  <2> QED
    BY <1>3, <1>8, <1>10, <1>9, <2>1, <2>2, <2>3, EmptySpace
<1>19. ApartOK(p)'
  BY <1>3, <1>6, <1>8, <1>9, <1>16, <1>10, EmptySpace DEF ApartOK, Builders
<1>20. UseInv'
  BY <1>3, <1>9, <1>18, <1>19, GivingStep
<1> QED
  BY <1>17, <1>20

-----------------------------------------------------------------------------
(* System calls that allocate nothing *)

\* The pages of an argument that passes the test of argptr are mapped.
LEMMA ArgumentThere ==
  ASSUME ShapeInv, UseInv, NEW p \in Procs, NEW i \in 0 .. KERNBASE - 1, NEW size \in 1 .. PGSIZE,
         argptr(p, i, size), NEW v \in i \div PGSIZE .. (i + size - 1) \div PGSIZE
  PROVE  v \in UPages /\ v < RoundUp(sz[p]) /\ pgdir[p].pte[v] # None
<1>1. Runs(p) /\ (i + size) % UINT <= sz[p]
  BY DEF argptr
<1>2. PICK a \in Nat, e \in Nat : a = i /\ e = i + size - 1 /\ e + 1 < UINT
  BY Sizes
<1>3. e + 1 <= sz[p]
  <2>1. PICK b \in Nat : b = e + 1 /\ b = i + size /\ b < UINT
    BY <1>2
  <2>2. b % UINT = b
    BY <2>1, SmallRemainder, Sizes
  <2> QED
    BY <1>1, <2>1, <2>2
<1>4. sz[p] \in 0 .. KERNBASE - 1 /\ sz[p] \in Nat /\ RoundUp(sz[p]) \in Nat
  BY AboutProcess
<1>5. a \div PGSIZE \in Nat /\ e \div PGSIZE \in Nat
  BY <1>2, Quotient, Sizes
<1>6. v \in Nat /\ e \div PGSIZE >= v
  BY <1>2, <1>5
<1>7. PICK x \in Nat : x = v * PGSIZE
  BY <1>6, Sizes
<1>8. e >= x
  BY <1>6, <1>7, Quotient, Sizes
<1>9. x < sz[p] /\ x < KERNBASE
  BY <1>3, <1>4, <1>8, Sizes
<1>10. v < RoundUp(sz[p]) /\ v \in UPages
  BY <1>4, <1>6, <1>7, <1>9, RoundUpIs, UserPages
<1>11. FrontOK(pgdir[p], RoundUp(sz[p]))
  BY <1>1, RunningProcess
<1> QED
  BY <1>10, <1>11 DEF FrontOK

\* A write of the kernel to checked memory meets no page fault.
LEMMA ArgptrKeeps ==
  ASSUME ShapeInv, UseInv, NEW p \in Procs, NEW i \in 0 .. KERNBASE - 1, NEW size \in 1 .. PGSIZE,
         argptr(p, i, size)
  PROVE  ShapeInv' /\ UseInv'
<1>1. PICK at : at = i \div PGSIZE .. (i + size - 1) \div PGSIZE
  OBVIOUS
<1>2. None \notin {pgdir[p].pte[v] : v \in at}
  BY <1>1, ArgumentThere
<1>3. /\ DOMAIN mem' = Pages /\ UNCHANGED panicked
      /\ view' = [view EXCEPT ![p] = [v \in UPages |-> IF v \in at THEN p ELSE view[p][v]]]
      /\ UNCHANGED <<boot, free, kernel, pipes, fresh, state, kstack, pgdir, sz, task, build>>
  BY <1>1, <1>2 DEF argptr
<1>4. DOMAIN view = Procs /\ \A q \in Procs : DOMAIN view[q] = UPages
  BY DEF ShapeInv, MemTypeOK
<1>5. DOMAIN view' = Procs /\ \A q \in Procs : DOMAIN view'[q] = UPages
  BY <1>3, <1>4
<1> QED
  BY <1>3, <1>5, SameSpaces

\* exit leaves the memory of the process to wait.
LEMMA ExitKeeps ==
  ASSUME ShapeInv, UseInv, NEW p \in Procs, exit(p)
  PROVE  ShapeInv' /\ UseInv'
<1>1. /\ boot = "up" /\ state[p] = "RUNNABLE" /\ task[p] = NoTask
      /\ state' = [state EXCEPT ![p] = "ZOMBIE"]
      /\ UNCHANGED <<boot, free, mem, kernel, pipes, fresh, kstack, pgdir, sz, view, task, build, panicked>>
  BY DEF exit
<1>2. MemTypeOK /\ SlotsOK /\ ExtentOK(p) /\ TaskOK(p) /\ ApartOK(p)
  BY AboutProcess
<1>3. build[p] = NoSpace /\ fresh[p] = None
  BY <1>1, <1>2 DEF TaskOK, NoTask, Mappers
<1>4. /\ state'[p] = "ZOMBIE" /\ DOMAIN state' = Procs
      /\ \A q \in Procs : q # p => state'[q] = state[q]
  BY <1>1, <1>2 DEF MemTypeOK
<1>5. MemTypeOK'
  BY <1>1, <1>2, <1>4 DEF MemTypeOK
<1>6. SlotsOK'
  BY <1>1, <1>2, <1>4 DEF SlotsOK
<1>7. ExtentOK(p)' /\ TaskOK(p)'
  BY <1>1, <1>2, <1>3, NoTaskOK DEF ExtentOK
<1>8. \A q \in Procs : task[q].op = "fork" => state'[task[q].child] = state[task[q].child]
  <2> SUFFICES ASSUME NEW q \in Procs, task[q].op = "fork"
               PROVE  state'[task[q].child] = state[task[q].child]
    OBVIOUS
  <2>1. task[q].child \in Procs /\ state[task[q].child] = "EMBRYO"
    BY DEF ShapeInv, TaskOK, TaskTypeOK, ForkOK
  <2> QED
    BY <1>1, <1>4, <2>1
<1>9. ShapeInv'
  BY <1>1, <1>4, <1>5, <1>6, <1>7, <1>8, ShapeOfStep
<1>10. Owned(p)' = Owned(p) /\ ApartOK(p)'
  BY <1>1, <1>2 DEF Owned, ApartOK
<1>11. UseInv'
  BY <1>1, <1>10, KeepingStep
<1> QED
  BY <1>9, <1>11

\* wait frees all that a zombie has.
LEMMA WaitKeeps ==
  ASSUME ShapeInv, UseInv, NEW c \in Procs, wait(c)
  PROVE  ShapeInv' /\ UseInv'
<1>1. PICK G : G = Owned(c)
  OBVIOUS
<1>2. /\ state[c] = "ZOMBIE" /\ DOMAIN mem' = Pages
      /\ free' = free \cup ((freevm(pgdir[c]) \cup {kstack[c]}) \ {None})
      /\ pgdir' = [pgdir EXCEPT ![c] = NoSpace]
      /\ kstack' = [kstack EXCEPT ![c] = None]
      /\ state' = [state EXCEPT ![c] = "UNUSED"]
      /\ sz' = [sz EXCEPT ![c] = 0] /\ view' = [view EXCEPT ![c] = Blank]
      /\ UNCHANGED <<boot, kernel, pipes, fresh, task, build>>
      /\ panicked' = Freeing(freevm(pgdir[c]) \cup {kstack[c]},
                             UsedOnce(pgdir[c]) /\ kstack[c] \notin freevm(pgdir[c]) \ {None})
  BY DEF wait, kfree
<1>3. MemTypeOK /\ SlotsOK /\ ExtentOK(c) /\ TaskOK(c) /\ ApartOK(c)
  BY AboutProcess
<1>4. task[c] = NoTask /\ build[c] = NoSpace /\ fresh[c] = None
  BY <1>2, IdleSlot
<1>5. free' = free \cup G
  <2>1. Owned(c) = PagesOf(pgdir[c]) \cup ({kstack[c]} \ {None})
    BY <1>4, OwnedPages, EmptySpace
  <2> QED
    BY <1>1, <1>2, <2>1 DEF PagesOf
<1>6. /\ pgdir'[c] = NoSpace /\ kstack'[c] = None /\ state'[c] = "UNUSED" /\ sz'[c] = 0
      /\ \A q \in Procs : q # c => /\ pgdir'[q] = pgdir[q] /\ kstack'[q] = kstack[q]
                                   /\ state'[q] = state[q] /\ sz'[q] = sz[q] /\ view'[q] = view[q]
      /\ DOMAIN pgdir' = Procs /\ DOMAIN state' = Procs /\ DOMAIN view' = Procs
      /\ view'[c] = Blank
  BY <1>2, <1>3 DEF MemTypeOK
<1>7. sz' \in [Procs -> 0 .. KERNBASE - 1] /\ kstack' \in [Procs -> Pages \cup {None}]
  <2>1. 0 \in 0 .. KERNBASE - 1
    BY Sizes
  <2> QED
    BY <1>2, <1>3, <2>1 DEF MemTypeOK
<1>8. panicked' = "no"
  <2>1. PICK gs, once : /\ gs = freevm(pgdir[c]) \cup {kstack[c]}
                        /\ once = (UsedOnce(pgdir[c]) /\ kstack[c] \notin freevm(pgdir[c]) \ {None})
    OBVIOUS
  <2>2. once
    BY <1>3, <2>1 DEF ApartOK, PagesOf
  <2>3. \A g \in gs \ {None} : g \in Owned(c)
    BY <2>1 DEF Owned
  <2>4. Freeing(gs, once) = "no"
    BY <2>2, <2>3, FreesWell
  <2> QED
    BY <1>2, <2>1, <2>4
<1>9. MemTypeOK'
  BY <1>2, <1>3, <1>6, <1>7, <1>8, EmptySpace DEF MemTypeOK, Blank
<1>10. boot = "up"
  BY <1>2, <1>3 DEF SlotsOK
<1>11. SlotsOK'
  BY <1>2, <1>3, <1>6, <1>10 DEF SlotsOK
<1>12. ExtentOK(c)' /\ TaskOK(c)' /\ task'[c].op = "none"
  <2>1. 0 \notin NoSpace.user
    BY DEF NoSpace
  <2> QED
    BY <1>2, <1>4, <1>6, <2>1, EmptySpace, NoTaskOK DEF ExtentOK
<1>13. \A q \in Procs : task[q].op = "fork" => state'[task[q].child] = state[task[q].child]
  <2> SUFFICES ASSUME NEW q \in Procs, task[q].op = "fork"
               PROVE  state'[task[q].child] = state[task[q].child]
    OBVIOUS
  <2>1. task[q].child \in Procs /\ state[task[q].child] = "EMBRYO"
    BY DEF ShapeInv, TaskOK, TaskTypeOK, ForkOK
  <2> QED
    BY <1>2, <1>6, <2>1
<1>14. ShapeInv'
  BY <1>2, <1>6, <1>9, <1>11, <1>12, <1>13, ShapeOfStep
<1>15. Owned(c)' = Owned(c) \ G /\ G \in SUBSET Owned(c) /\ ApartOK(c)'
  <2>1. Owned(c)' = PagesOf(pgdir'[c]) \cup PagesOf(build'[c]) \cup ({kstack'[c], fresh'[c]} \ {None})
    BY DEF Owned, PagesOf
  <2>2. Owned(c)' = {}
    BY <1>2, <1>4, <1>6, <2>1, EmptySpace
  <2>3. ApartOK(c)'
    BY <1>2, <1>4, <1>6, <1>12, EmptySpace DEF ApartOK, Builders
  <2> QED
    BY <1>1, <2>2, <2>3
<1>16. UseInv'
  BY <1>2, <1>5, <1>6, <1>15, GivingStep
<1> QED
  BY <1>14, <1>16

-----------------------------------------------------------------------------
(* Pipes *)

\* A pipe takes a page.
LEMMA PipeallocKeeps ==
  ASSUME ShapeInv, UseInv, NEW p \in Procs, pipealloc(p)
  PROVE  ShapeInv' /\ UseInv'
<1>1. /\ boot = "up"
      /\ UNCHANGED <<boot, kernel, state, kstack, pgdir, sz, view, task, build, fresh, panicked>>
  BY DEF pipealloc, procVars, Runs
<1>2. /\ DOMAIN mem = Pages /\ DOMAIN view = Procs /\ \A q \in Procs : DOMAIN view[q] = UPages
  BY DEF ShapeInv, MemTypeOK
<1>3. DOMAIN mem' = Pages
  BY <1>2 DEF pipealloc
<1>4. CASE free = {}
  <2>1. UNCHANGED <<free, pipes>>
    BY <1>4 DEF pipealloc
  <2> QED
    BY <1>1, <1>2, <1>3, <2>1, SameSpaces
<1>5. CASE free # {}
  <2>1. PICK g : g = kalloc
    OBVIOUS
  <2>2. free' = free \ {g} /\ pipes' = pipes \cup {g} /\ g \in free
    BY <1>5, <2>1, OnePage DEF pipealloc
  <2>3. ShapeInv' /\ \A q \in Procs : ApartOK(q)' /\ Owned(q)' = Owned(q)
    BY <1>1, <1>2, <1>3, SameShape
  <2>4. PICK F, K, O, A, F2, K2 : /\ F = free /\ K = kernel \cup pipes /\ O = [q \in Procs |-> Owned(q)]
                                  /\ A = GivenPages /\ F2 = free' /\ K2 = kernel' \cup pipes'
    OBVIOUS
  <2>5. Divided(F, K, O, A) /\ F2 = F \ {g} /\ K2 = K \cup {g} /\ g \in F
    BY <1>1, <2>2, <2>4 DEF UseInv
  <2>6. Divided(F2, K2, O, A)
    BY <2>5 DEF Divided
  <2>7. GivenPages' = GivenPages
    BY <1>1 DEF GivenPages
  <2>8. KernelOK'
    <3>1. g \notin kernel
      BY <2>4, <2>5 DEF Divided
    <3> QED
      BY <1>1, <2>2, <3>1 DEF UseInv, KernelOK
  <2>9. [q \in Procs |-> Owned(q)'] = O
    BY <2>3, <2>4
  <2> QED
    BY <2>3, <2>4, <2>6, <2>7, <2>8, <2>9 DEF UseInv
<1> QED
  BY <1>4, <1>5

\* The page of a pipe goes back to the free list.
LEMMA PipecloseKeeps ==
  ASSUME ShapeInv, UseInv, NEW g \in Pages, pipeclose(g)
  PROVE  ShapeInv' /\ UseInv'
<1>1. /\ g \in pipes /\ pipes' = pipes \ {g} /\ DOMAIN mem' = Pages
      /\ free' = free \cup ({g} \ {None}) /\ panicked' = Freeing({g}, TRUE)
      /\ UNCHANGED <<boot, kernel, state, kstack, pgdir, sz, view, task, build, fresh>>
  BY DEF pipeclose, kfree, procVars
<1>2. free' = free \cup {g}
  BY <1>1, TwoRanges
<1>3. panicked' = "no" /\ panicked = "no"
  <2>1. PICK gs, once : gs = {g} /\ once = TRUE
    OBVIOUS
  <2>2. Freeing(gs, once) = "no"
    BY <1>1, <2>1, FreesWell
  <2> QED
    BY <1>1, <2>1, <2>2 DEF pipeclose
<1>4. DOMAIN view = Procs /\ \A q \in Procs : DOMAIN view[q] = UPages
  BY DEF ShapeInv, MemTypeOK
<1>5. ShapeInv' /\ \A q \in Procs : ApartOK(q)' /\ Owned(q)' = Owned(q)
  BY <1>1, <1>3, <1>4, SameShape
<1>6. PICK F, K, O, A, F2, K2 : /\ F = free /\ K = kernel \cup pipes /\ O = [q \in Procs |-> Owned(q)]
                                /\ A = GivenPages /\ F2 = free' /\ K2 = kernel' \cup pipes'
  OBVIOUS
<1>7. Divided(F, K, O, A) /\ F2 = F \cup {g} /\ K2 = K \ {g} /\ g \in K
  <2>1. g \notin kernel
    BY <1>1 DEF UseInv, KernelOK
  <2> QED
    BY <1>1, <1>2, <1>6, <2>1 DEF UseInv
<1>8. Divided(F2, K2, O, A)
  BY <1>7 DEF Divided
<1>9. GivenPages' = GivenPages /\ KernelOK'
  BY <1>1 DEF GivenPages, UseInv, KernelOK
<1>10. [q \in Procs |-> Owned(q)'] = O
  BY <1>5, <1>6
<1> QED
  BY <1>5, <1>6, <1>8, <1>9, <1>10 DEF UseInv

\* The processor runs another process: nothing moves.
LEMMA SwitchuvmKeeps ==
  ASSUME ShapeInv, UseInv, NEW p \in Procs, switchuvm(p)
  PROVE  ShapeInv' /\ UseInv'
<1>1. /\ UNCHANGED <<boot, free, mem, kernel, pipes, state, kstack, pgdir, sz, view, task, build,
                     fresh, panicked>>
  BY DEF switchuvm
<1>2. /\ DOMAIN mem = Pages /\ DOMAIN view = Procs /\ \A q \in Procs : DOMAIN view[q] = UPages
  BY DEF ShapeInv, MemTypeOK
<1> QED
  BY <1>1, <1>2, SameSpaces

-----------------------------------------------------------------------------
(* main *)

\* Before the first process the pages are on the free list or with the kernel.
LEMMA BootPages ==
  ASSUME ShapeInv, UseInv, boot # "up"
  PROVE  /\ free \cup kernel = GivenPages /\ free \cap kernel = {}
         /\ \A p \in Procs : /\ Owned(p) = {} /\ task[p] = NoTask /\ build[p] = NoSpace
                             /\ pgdir[p] = NoSpace /\ kstack[p] = None /\ fresh[p] = None
         /\ pipes = {}
<1>1. ASSUME NEW p \in Procs
      PROVE  /\ Owned(p) = {} /\ task[p] = NoTask /\ build[p] = NoSpace
             /\ pgdir[p] = NoSpace /\ kstack[p] = None /\ fresh[p] = None
  <2>1. state[p] = "UNUSED" /\ kstack[p] = None /\ pgdir[p] = NoSpace
    BY DEF ShapeInv, SlotsOK
  <2>2. task[p] = NoTask /\ build[p] = NoSpace /\ fresh[p] = None
    BY <2>1, IdleSlot
  <2> QED
    BY <2>1, <2>2, OwnedPages, EmptySpace
<1>2. PICK O, A : O = [p \in Procs |-> Owned(p)] /\ A = GivenPages
  OBVIOUS
<1>3. pipes = {}
  BY DEF UseInv, KernelOK
<1>4. Divided(free, kernel, O, A) /\ \A p \in Procs : O[p] = {}
  <2>1. kernel \cup pipes = kernel
    BY <1>3
  <2> QED
    BY <1>1, <1>2, <2>1 DEF UseInv
<1>5. free \cup kernel = A /\ free \cap kernel = {}
  BY <1>4 DEF Divided
<1> QED
  BY <1>1, <1>2, <1>5, <1>3

\* A step of main that moves pages before the first process.
LEMMA BootStep ==
  ASSUME ShapeInv, UseInv, boot # "up", boot' \in {"startothers", "kinit2", "userinit"},
         DOMAIN mem' = Pages, KernelOK', free' \cup kernel' = GivenPages', free' \cap kernel' = {},
         UNCHANGED <<pipes, fresh, state, kstack, pgdir, sz, view, task, build, panicked>>
  PROVE  ShapeInv' /\ UseInv'
<1>1. \A q \in Procs : ExtentOK(q)' /\ TaskOK(q)'
  <2> SUFFICES ASSUME NEW q \in Procs PROVE ExtentOK(q)' /\ TaskOK(q)'
    OBVIOUS
  <2> QED
    BY Untouched
<1>2. \A q \in Procs : ApartOK(q)' /\ Owned(q)' = {}
  <2> SUFFICES ASSUME NEW q \in Procs PROVE ApartOK(q)' /\ Owned(q)' = Owned(q)
    BY BootPages
  <2> QED
    BY UntouchedPages
<1>3. MemTypeOK' /\ SlotsOK'
  BY DEF ShapeInv, MemTypeOK, SlotsOK
<1>4. Divided(free', kernel' \cup pipes', [q \in Procs |-> Owned(q)'], GivenPages')
  <2>1. PICK F, K, O, A : /\ F = free' /\ K = kernel' \cup pipes' /\ A = GivenPages'
                          /\ O = [q \in Procs |-> Owned(q)']
    OBVIOUS
  <2>4. pipes = {} /\ pipes' = pipes
    BY BootPages
  <2>2. F \cup K = A /\ F \cap K = {} /\ \A q \in Procs : O[q] = {}
    BY <1>2, <2>1, <2>4
  <2>3. Divided(F, K, O, A)
    BY <2>2 DEF Divided
  <2> QED
    BY <2>1, <2>3
<1> QED
  BY <1>1, <1>2, <1>3, <1>4 DEF ShapeInv, UseInv

\* The pages that entrypgdir maps.
LEMMA Kinit1Keeps ==
  ASSUME ShapeInv, UseInv, kinit1
  PROVE  ShapeInv' /\ UseInv'
<1>1. /\ boot = "kinit1" /\ boot' = "startothers" /\ free' = freerange(EndOfKernel, EntryMapped)
      /\ UNCHANGED <<mem, kernel, pipes, fresh, state, kstack, pgdir, sz, view, task, build, panicked>>
  BY DEF kinit1, procVars
<1>2. kernel = {} /\ pipes = {} /\ DOMAIN mem' = Pages
  BY <1>1 DEF ShapeInv, MemTypeOK, UseInv, KernelOK
<1>3. GivenPages' = freerange(EndOfKernel, EntryMapped) /\ KernelOK'
  BY <1>1, <1>2 DEF GivenPages, KernelOK
<1> QED
  BY <1>1, <1>2, <1>3, BootStep

\* The page table of the kernel and the stacks of the processors.
LEMMA StartothersKeeps ==
  ASSUME ShapeInv, UseInv, startothers
  PROVE  ShapeInv' /\ UseInv'
<1>1. PICK n, K : n = SetupPages + NCPU - 1 /\ K = kallocs(n)
  OBVIOUS
<1>2. /\ boot = "startothers" /\ boot' = "kinit2" /\ kernel' = K /\ free' = free \ K
      /\ DOMAIN mem' = Pages
      /\ UNCHANGED <<pipes, fresh, state, kstack, pgdir, sz, view, task, build, panicked>>
  BY <1>1 DEF startothers, procVars
<1>3. kernel = {} /\ free = freerange(EndOfKernel, EntryMapped)
  <2>1. kernel = {}
    BY <1>2 DEF UseInv, KernelOK
  <2>2. free \cup kernel = GivenPages
    BY <1>2, BootPages
  <2> QED
    BY <1>2, <2>1, <2>2 DEF GivenPages
<1>4. n \in Nat /\ n <= Cardinality(free) /\ IsFiniteSet(free)
  BY <1>1, <1>3, BootAssumption, FreePages, Sizes
<1>5. K \subseteq free /\ Cardinality(K) = n /\ IsFiniteSet(K)
  BY <1>1, <1>4, Allocated
<1>6. GivenPages' = free /\ KernelOK'
  <2>1. pipes' = {}
    BY <1>2, BootPages
  <2> QED
    BY <1>1, <1>2, <1>3, <1>5, <2>1 DEF GivenPages, KernelOK
<1>7. free' \cup kernel' = GivenPages' /\ free' \cap kernel' = {}
  BY <1>2, <1>5, <1>6
<1> QED
  BY <1>2, <1>6, <1>7, BootStep

\* The rest of the memory.
LEMMA Kinit2Keeps ==
  ASSUME ShapeInv, UseInv, kinit2
  PROVE  ShapeInv' /\ UseInv'
<1>1. /\ boot = "kinit2" /\ boot' = "userinit" /\ free' = free \cup freerange(EntryMapped, PHYSTOP)
      /\ UNCHANGED <<mem, kernel, pipes, fresh, state, kstack, pgdir, sz, view, task, build, panicked>>
  BY DEF kinit2, procVars
<1>2. KernelOK' /\ DOMAIN mem' = Pages
  BY <1>1 DEF ShapeInv, MemTypeOK, UseInv, KernelOK
<1>3. free \cup kernel = freerange(EndOfKernel, EntryMapped) /\ free \cap kernel = {}
  BY <1>1, BootPages DEF GivenPages
<1>4. GivenPages' = freerange(EndOfKernel, PHYSTOP)
  BY <1>1 DEF GivenPages
<1>5. free' \cup kernel' = GivenPages' /\ free' \cap kernel' = {}
  BY <1>1, <1>3, <1>4, TwoRanges
<1> QED
  BY <1>1, <1>2, <1>5, BootStep

\* There is memory for the first process.
LEMMA FirstProcess ==
  ASSUME ShapeInv, UseInv, boot = "userinit", NEW taken, taken = kallocs(SetupPages + 3),
         NEW g, g = One(taken), NEW table, table = One(taken \ {g}),
         NEW stack, stack = One(taken \ {g, table})
  PROVE  /\ taken \subseteq free /\ g \in taken /\ table \in taken /\ stack \in taken
         /\ g # table /\ g # stack /\ table # stack
<1>1. /\ free \cup kernel = freerange(EndOfKernel, PHYSTOP) /\ free \cap kernel = {}
      /\ IsFiniteSet(kernel) /\ Cardinality(kernel) = SetupPages + NCPU - 1
      /\ IsFiniteSet(free) /\ Cardinality(free) \in Nat
  BY BootPages, FreePages DEF GivenPages, UseInv, KernelOK
<1>2. Cardinality(free \cup kernel) = Cardinality(free) + Cardinality(kernel)
  <2>1. PICK F, K : F = free /\ K = kernel
    OBVIOUS
  <2>2. IsFiniteSet(F) /\ IsFiniteSet(K) /\ F \cap K = {}
    BY <1>1, <2>1
  <2>3. Cardinality(F \cup K) = Cardinality(F) + Cardinality(K) - Cardinality(F \cap K)
    BY <2>2, FS_Union
  <2>4. Cardinality(F \cap K) = 0 /\ Cardinality(F) \in Nat /\ Cardinality(K) \in Nat
    BY <2>2, FS_EmptySet, FS_CardinalityType
  <2> QED
    BY <2>1, <2>3, <2>4
<1>3. PICK n \in Nat : n = SetupPages /\ n + 3 <= Cardinality(free)
  <2>1. PICK a \in Nat, n \in Nat, c \in Nat : a = Cardinality(free) /\ n = SetupPages /\ c = NCPU
    BY <1>1, Sizes
  <2>2. a + (n + c - 1) >= 2 * n + c + 2
    BY <1>1, <1>2, <2>1, BootAssumption
  <2> QED
    BY <2>1, <2>2
<1>4. taken \subseteq free /\ Cardinality(taken) = n + 3 /\ IsFiniteSet(taken)
  BY <1>1, <1>3, Allocated
<1>5. g \in taken /\ IsFiniteSet(taken \ {g}) /\ Cardinality(taken \ {g}) = n + 2
  <2>1. PICK m \in Nat : m = n + 2 /\ n + 3 = m + 1
    OBVIOUS
  <2> QED
    BY <1>4, <2>1, OneOf
<1>6. PICK rest : rest = taken \ {g}
  OBVIOUS
<1>7. table \in rest /\ IsFiniteSet(rest \ {table}) /\ Cardinality(rest \ {table}) = n + 1
  <2>1. PICK m \in Nat : m = n + 1 /\ n + 2 = m + 1
    OBVIOUS
  <2> QED
    BY <1>5, <1>6, <2>1, OneOf
<1>8. PICK last : last = rest \ {table} /\ last = taken \ {g, table}
  BY <1>6
<1>9. stack \in last
  BY <1>7, <1>8, OneOf
<1> QED
  BY <1>4, <1>5, <1>6, <1>7, <1>8, <1>9

\* userinit makes the first process.
LEMMA UserinitKeeps ==
  ASSUME ShapeInv, UseInv, userinit
  PROVE  ShapeInv' /\ UseInv'
<1>1. PICK taken : taken = kallocs(SetupPages + 3)
  OBVIOUS
<1>2. PICK g : g = One(taken)
  OBVIOUS
<1>3. PICK table : table = One(taken \ {g})
  OBVIOUS
<1>4. PICK stack : stack = One(taken \ {g, table})
  OBVIOUS
<1>5. PICK D, s : D = taken \ {g, table, stack} /\ s = [NoSpace EXCEPT !.dir = D]
  OBVIOUS
<1>6. PICK new : new = mappages(s, 0, g, table)
  OBVIOUS
<1>7. /\ boot = "userinit" /\ boot' = "up" /\ free' = free \ taken
      /\ mem' = [mem EXCEPT ![g] = "initcode"]
      /\ kstack' = [kstack EXCEPT ![initproc] = stack]
      /\ pgdir' = [pgdir EXCEPT ![initproc] = new]
      /\ state' = [state EXCEPT ![initproc] = "RUNNABLE"]
      /\ sz' = [sz EXCEPT ![initproc] = PGSIZE]
      /\ view' = [view EXCEPT ![initproc][0] = "initcode"]
      /\ UNCHANGED <<kernel, pipes, fresh, task, build, panicked>>
  BY <1>1, <1>2, <1>3, <1>4, <1>5, <1>6 DEF userinit
<1>8. /\ taken \subseteq free /\ g \in taken /\ table \in taken /\ stack \in taken
      /\ g # table /\ g # stack /\ table # stack
  BY <1>1, <1>2, <1>3, <1>4, <1>7, FirstProcess
<1>9. taken \subseteq Pages /\ None \notin taken
  BY <1>8, FreePages, TwoRanges
<1>10. /\ IsSpace(s) /\ UsedOnce(s) /\ PagesOf(s) = D
       /\ \A v \in UPages : s.pte[v] = None
       /\ \A k \in UTables : s.tabs[k] = None
  <2>1. D \in SUBSET Pages
    BY <1>5, <1>9
  <2> QED
    BY <1>5, <2>1, NewSpace
<1>11. 0 \in UPages /\ \A v \in UPages : v \in Nat
  BY UserPages
<1>12. NeedsTable(s, 0)
  BY <1>10, <1>11, TableOf DEF NeedsTable
<1>13. /\ IsSpace(new) /\ UsedOnce(new) /\ PagesOf(new) = D \cup {g} \cup {table} /\ new.pte[0] = g
       /\ \A w \in UPages : w # 0 => new.pte[w] = None
  <2>1. PICK v \in UPages : v = 0
    BY <1>11
  <2>2. s.pte[v] = None /\ g \in Pages /\ g \notin PagesOf(s) /\ NeedsTable(s, v)
    BY <1>5, <1>8, <1>9, <1>10, <1>12, <2>1
  <2>3. table \in Pages /\ table \notin PagesOf(s) /\ table # g
    BY <1>5, <1>8, <1>9, <1>10
  <2>4. new = mappages(s, v, g, table)
    BY <1>6, <2>1
  <2>5. /\ IsSpace(new) /\ UsedOnce(new) /\ new.pte[v] = g
        /\ PagesOf(new) = PagesOf(s) \cup {g} \cup (IF NeedsTable(s, v) THEN {table} ELSE {})
        /\ \A w \in UPages : w # v => new.pte[w] = s.pte[w]
    BY <1>10, <2>2, <2>3, <2>4, MappedPage
  <2> QED
    BY <1>10, <2>1, <2>2, <2>5
<1>14. MemTypeOK /\ SlotsOK /\ initproc \in Procs
  BY Sizes DEF ShapeInv
<1>15. \A p \in Procs : /\ Owned(p) = {} /\ task[p] = NoTask /\ build[p] = NoSpace
                        /\ pgdir[p] = NoSpace /\ kstack[p] = None /\ fresh[p] = None
  BY <1>7, BootPages
<1>16. PGSIZE \in 0 .. KERNBASE - 1 /\ RoundUp(PGSIZE) = 1
  <2>1. 1 * PGSIZE = PGSIZE /\ RoundUp(1 * PGSIZE) = 1
    BY WholePages, Sizes
  <2> QED
    BY <2>1, Sizes
<1>17. /\ pgdir'[initproc] = new /\ sz'[initproc] = PGSIZE /\ kstack'[initproc] = stack
       /\ \A q \in Procs : q # initproc =>
            /\ pgdir'[q] = pgdir[q] /\ sz'[q] = sz[q] /\ kstack'[q] = kstack[q]
            /\ state'[q] = state[q] /\ view'[q] = view[q]
       /\ DOMAIN pgdir' = Procs /\ DOMAIN state' = Procs /\ DOMAIN view' = Procs
       /\ DOMAIN view'[initproc] = UPages /\ state'[initproc] = "RUNNABLE"
       /\ sz' \in [Procs -> 0 .. KERNBASE - 1] /\ kstack' \in [Procs -> Pages \cup {None}]
  BY <1>7, <1>8, <1>9, <1>14, <1>16 DEF MemTypeOK
<1>18. MemTypeOK'
  BY <1>7, <1>13, <1>14, <1>17 DEF MemTypeOK
<1>19. \A q \in Procs : task'[q].op = "none"
  BY <1>7, <1>15 DEF NoTask
<1>20. SlotsOK'
  BY <1>7, <1>14, <1>17, <1>19 DEF SlotsOK
<1>21. ExtentOK(initproc)'
  BY <1>9, <1>8, <1>11, <1>13, <1>16, <1>17 DEF ExtentOK
<1>22. TaskOK(initproc)'
  BY <1>7, <1>14, <1>15, NoTaskOK
<1>23. \A q \in Procs : task[q].op # "fork"
  BY <1>15 DEF NoTask
<1>24. ShapeInv'
  BY <1>7, <1>14, <1>17, <1>18, <1>20, <1>21, <1>22, <1>23, ShapeOfStep
<1>25. Owned(initproc)' = taken /\ ApartOK(initproc)'
  <2>1. Owned(initproc)' = PagesOf(pgdir'[initproc]) \cup PagesOf(build'[initproc])
                             \cup ({kstack'[initproc], fresh'[initproc]} \ {None})
    BY DEF Owned, PagesOf
  <2>2. build'[initproc] = NoSpace /\ task'[initproc].op = "none" /\ fresh'[initproc] = None
    BY <1>7, <1>14, <1>15, <1>19
  <2>3. Owned(initproc)' = D \cup {g} \cup {table} \cup {stack}
    BY <1>8, <1>9, <1>13, <1>17, <2>1, <2>2, EmptySpace
  <2>4. stack \notin PagesOf(new)
    BY <1>5, <1>8, <1>13
  <2> QED
    BY <1>5, <1>8, <1>13, <1>17, <2>2, <2>3, <2>4, EmptySpace DEF ApartOK, Builders
<1>26. ASSUME NEW q \in Procs, q # initproc PROVE ApartOK(q)' /\ Owned(q)' = Owned(q)
  BY <1>7, <1>17, <1>26, UntouchedPages
<1>27. GivenPages' = GivenPages /\ KernelOK'
  BY <1>7 DEF GivenPages, UseInv, KernelOK
<1>28. PICK O, O2, A, F2, K : /\ K = kernel \cup pipes /\ O = [q \in Procs |-> Owned(q)] /\ O2 = [q \in Procs |-> Owned(q)']
                              /\ A = GivenPages /\ F2 = free'
  OBVIOUS
<1>29. Divided(F2, K, O2, A)
  <2>1. Divided(free, K, O, A) /\ taken \in SUBSET free /\ F2 = free \ taken
    BY <1>7, <1>8, <1>28 DEF UseInv
  <2>2. O2[initproc] = O[initproc] \cup taken /\ \A q \in Procs : q # initproc => O2[q] = O[q]
    BY <1>14, <1>15, <1>25, <1>26, <1>28
  <2> QED
    BY <1>14, <2>1, <2>2, TakePages
<1>30. UseInv'
  BY <1>7, <1>14, <1>25, <1>26, <1>27, <1>28, <1>29 DEF UseInv
<1> QED
  BY <1>24, <1>30

-----------------------------------------------------------------------------
(* Every page has one use *)

\* Before main starts.
LEMMA ShapeInit ==
  ASSUME MemInit
  PROVE  ShapeInv /\ UseInv
<1>1. \A p \in Procs : task[p] = NoTask /\ task[p].op = "none" /\ build[p] = NoSpace
                       /\ pgdir[p] = NoSpace /\ kstack[p] = None /\ sz[p] = 0
                       /\ state[p] = "UNUSED" /\ view[p] = Blank /\ fresh[p] = None
  BY DEF MemInit, NoTask
<1>2. 0 \in 0 .. KERNBASE - 1
  BY Sizes
<1>3. MemTypeOK
  BY <1>1, <1>2, EmptySpace DEF MemInit, MemTypeOK, Blank
<1>4. SlotsOK
  BY <1>1 DEF MemInit, SlotsOK
<1>5. ASSUME NEW p \in Procs PROVE ExtentOK(p) /\ TaskOK(p)
  <2>1. 0 \notin NoSpace.user
    BY DEF NoSpace
  <2>2. TaskTypeOK(NoTask)
    BY DEF TaskTypeOK, NoTask, Mappers, Executing
  <2>3. ExtentOK(p)
    BY <1>1, <2>1, EmptySpace DEF ExtentOK
  <2>4. TaskOK(p)
    BY <1>1, <2>2 DEF TaskOK, Mappers
  <2> QED
    BY <2>3, <2>4
<1>6. ASSUME NEW p \in Procs PROVE ApartOK(p) /\ Owned(p) = {}
  BY <1>1, EmptySpace, OwnedPages DEF ApartOK, Builders
<1>7. GivenPages = {} /\ free = {} /\ kernel = {} /\ pipes = {} /\ KernelOK
  BY DEF MemInit, GivenPages, KernelOK
<1>8. Divided(free, kernel \cup pipes, [p \in Procs |-> Owned(p)], GivenPages)
  BY <1>6, <1>7 DEF Divided
<1> QED
  BY <1>3, <1>4, <1>5, <1>6, <1>7, <1>8 DEF ShapeInv, UseInv

\* The kernel or a process may have written where it should not: the model has stopped.
Wild == boot = "up" /\ panicked = "wild"

\* An address of a process is one below KERNBASE.
LEMMA AddressBelow ==
  ASSUME ShapeInv, UseInv, NEW p \in Procs, NEW i \in 0 .. sz[p] - 1
  PROVE  i \in 0 .. KERNBASE - 1
<1>1. PICK a \in Nat : a = sz[p] /\ a <= KERNBASE - 1
  BY AboutProcess, Sizes
<1> QED
  BY <1>1, Sizes

\* Only a process that runs, or one in exec, gets there.
LEMMA GoesWild ==
  ASSUME ShapeInv, NEW p \in Procs, goes_on(p) \/ copyout_wild(p)
  PROVE  Wild'
<1>1. CASE goes_on(p)
  BY <1>1 DEF goes_on, Wild
<1>2. CASE copyout_wild(p)
  <2>1. task[p].op = "stack" /\ panicked' = "wild" /\ boot' = boot
    BY <1>2 DEF copyout_wild, TooLong
  <2>2. state[p] = "RUNNABLE"
    BY <2>1 DEF ShapeInv, TaskOK
  <2> QED
    BY <2>1, <2>2 DEF ShapeInv, SlotsOK, Wild
<1> QED
  BY <1>1, <1>2

\* The model stays there.
LEMMA WildStays ==
  ASSUME Wild, [MemNext]_memVars
  PROVE  Wild'
<1>1. boot = "up" /\ panicked # "no"
  BY DEF Wild
<1>2. ~(kinit1 \/ startothers \/ kinit2 \/ userinit)
  BY <1>1 DEF kinit1, startothers, kinit2, userinit
<1>3. ASSUME NEW p \in Procs
      PROVE  ~(setup_page(p) \/ map_page(p) \/ map_table(p) \/ sbrk_end(p) \/ sbrk_undo(p)
               \/ switchuvm(p) \/ goes_on(p) \/ fork_end(p) \/ fork_bad(p) \/ exec_header(p)
               \/ exec_load(p) \/ exec_stack(p) \/ exec_commit(p) \/ copyout_wild(p)
               \/ exec_bad(p) \/ pipealloc(p) \/ exit(p) \/ wait(p))
  BY <1>1 DEF setup_page, map_page, map_table, sbrk_end, sbrk_undo, switchuvm, goes_on, fork_end,
     fork_bad, exec_header, exec_load, exec_stack, exec_commit, copyout_wild, exec_bad, pipealloc,
     exit, wait, Busy, Runs
<1>4. ASSUME NEW p \in Procs, NEW n \in Sbrk PROVE ~(sbrk_grow(p, n) \/ sbrk_shrink(p, n))
  BY <1>1 DEF sbrk_grow, sbrk_shrink, Runs
<1>5. ASSUME NEW p \in Procs, NEW c \in Procs PROVE ~fork(p, c)
  BY <1>1 DEF fork, Runs
<1>6. ASSUME NEW p \in Procs, NEW e \in Execs PROVE ~exec(p, e.prog, e.args)
  BY <1>1 DEF exec, Runs
<1>7. ASSUME NEW p \in Procs, NEW i, NEW size PROVE ~argptr(p, i, size)
  BY <1>1 DEF argptr, Runs
<1>8. ASSUME NEW g \in Pages PROVE ~pipeclose(g)
  BY <1>1 DEF pipeclose
<1>9. ~MemNext
  BY <1>2, <1>3, <1>4, <1>5, <1>6, <1>7, <1>8 DEF MemNext
<1> QED
  BY <1>9 DEF Wild, memVars

\* Every step keeps the invariants.
LEMMA ShapeNext ==
  ASSUME ShapeInv, UseInv, [MemNext]_memVars
  PROVE  Wild' \/ (ShapeInv' /\ UseInv')
<1>1. CASE UNCHANGED memVars
  <2>1. DOMAIN mem = Pages /\ DOMAIN view = Procs /\ \A q \in Procs : DOMAIN view[q] = UPages
    BY DEF ShapeInv, MemTypeOK
  <2>2. UNCHANGED <<boot, free, mem, kernel, pipes, fresh, state, kstack, pgdir, sz, view, task, build, panicked>>
    BY <1>1 DEF memVars, procVars
  <2> QED
    BY <2>1, <2>2, SameSpaces
<1>2. CASE kinit1 \/ startothers \/ kinit2 \/ userinit
  BY <1>2, Kinit1Keeps, StartothersKeeps, Kinit2Keeps, UserinitKeeps
<1>3. ASSUME NEW p \in Procs,
             setup_page(p) \/ map_page(p) \/ map_table(p) \/ sbrk_end(p) \/ sbrk_undo(p)
             \/ switchuvm(p) \/ fork_end(p) \/ fork_bad(p) \/ pipealloc(p) \/ exit(p) \/ wait(p)
      PROVE  ShapeInv' /\ UseInv'
  BY <1>3, SetupPageKeeps, MapPageKeeps, SbrkEndKeeps, SbrkUndoKeeps, SwitchuvmKeeps, ForkEndKeeps,
     ForkBadKeeps, PipeallocKeeps, ExitKeeps, WaitKeeps
<1>4. ASSUME NEW p \in Procs,
             exec_header(p) \/ exec_load(p) \/ exec_stack(p) \/ exec_commit(p) \/ exec_bad(p)
      PROVE  ShapeInv' /\ UseInv'
  BY <1>4, ExecHeaderKeeps, ExecLoadKeeps, ExecStackKeeps, ExecCommitKeeps, ExecBadKeeps
<1>5. ASSUME NEW p \in Procs, NEW n \in Sbrk, sbrk_grow(p, n) \/ sbrk_shrink(p, n)
      PROVE  ShapeInv' /\ UseInv'
  BY <1>5, SbrkGrowKeeps, SbrkShrinkKeeps
<1>6. ASSUME NEW p \in Procs, NEW c \in Procs, fork(p, c) PROVE ShapeInv' /\ UseInv'
  BY <1>6, ForkKeeps
<1>7. ASSUME NEW p \in Procs, NEW e \in Execs, exec(p, e.prog, e.args) PROVE ShapeInv' /\ UseInv'
  BY <1>7, ExecKeeps
<1>8. ASSUME NEW p \in Procs, NEW i \in 0 .. sz[p] - 1, NEW size \in 1 .. PGSIZE,
             argptr(p, i, size)
      PROVE  ShapeInv' /\ UseInv'
  <2>1. i \in 0 .. KERNBASE - 1
    BY <1>8, AddressBelow
  <2> QED
    BY <1>8, <2>1, ArgptrKeeps
<1>9. ASSUME NEW p \in Procs, goes_on(p) \/ copyout_wild(p) PROVE Wild'
  BY <1>9, GoesWild
<1>10. ASSUME NEW g \in Pages, pipeclose(g) PROVE ShapeInv' /\ UseInv'
  BY <1>10, PipecloseKeeps
<1> QED
  BY <1>1, <1>2, <1>3, <1>4, <1>5, <1>6, <1>7, <1>8, <1>9, <1>10 DEF MemNext


\* The invariants hold until then.
LEMMA ShapeAlways == MemSpec => [](Wild \/ (ShapeInv /\ UseInv))
<1>1. MemInit => ShapeInv /\ UseInv
  BY ShapeInit
<1>2. (Wild \/ (ShapeInv /\ UseInv)) /\ [MemNext]_memVars => (Wild \/ (ShapeInv /\ UseInv))'
  BY ShapeNext, WildStays
<1> QED
  BY <1>1, <1>2, PTL DEF MemSpec


\* From kinit2 on every page above the kernel is free, the kernel's, a pipe's, or of exactly
\* one process and there in exactly one place, and none is freed twice, through every failure
\* of fork, exec and sbrk.
THEOREM EveryPageUsedOnce == MemSpec => []EveryPageHasOneUse
<1>1. ASSUME ShapeInv, UseInv PROVE EveryPageHasOneUse
  <2>1. ASSUME boot \in {"userinit", "up"}
        PROVE  GivenPages = freerange(EndOfKernel, PHYSTOP)
    BY <2>1 DEF GivenPages
  <2>2. PICK K : K = kernel \cup pipes
    OBVIOUS
  <2>3. Divided(free, K, [p \in Procs |-> Owned(p)], GivenPages)
    BY <1>1, <2>2 DEF UseInv
  <2>4. \A p \in Procs : UsedOnce(pgdir[p]) /\ BuiltOnce(p)
    BY <1>1, FreedOnce DEF UseInv, ApartOK
  <2>5. free \cup K \cup UNION {Owned(p) : p \in Procs} = GivenPages
    BY <2>3 DEF Divided
  <2>6. /\ (free \cup K) \cap UNION {Owned(p) : p \in Procs} = {} /\ free \cap K = {}
        /\ \A p, q \in Procs : p # q => Owned(p) \cap Owned(q) = {}
    BY <2>3 DEF Divided
  <2>7. kernel \cap pipes = {} /\ panicked = "no"
    BY <1>1 DEF UseInv, KernelOK, ShapeInv, MemTypeOK
  <2>8. free \cup kernel \cup pipes = free \cup K
    BY <2>2
  <2> QED
    BY <2>1, <2>2, <2>4, <2>5, <2>6, <2>7, <2>8 DEF EveryPageHasOneUse
<1>2. Wild => EveryPageHasOneUse
  BY DEF Wild, EveryPageHasOneUse
<1>3. Wild \/ (ShapeInv /\ UseInv) => EveryPageHasOneUse
  BY <1>1, <1>2
<1> QED
  BY <1>3, ShapeAlways, PTL


\* The panics of vm.c (copyuvm, remap, loaduvm) and of kfree, and a page fault of the kernel
\* at an address that argptr let pass are unreachable, unless the kernel or a process has
\* gone wild before.
THEOREM NoPanic == MemSpec => []NoMemoryPanic
<1>1. Wild \/ (ShapeInv /\ UseInv) => NoMemoryPanic
  BY DEF ShapeInv, MemTypeOK, NoMemoryPanic, Wild
<1> QED
  BY <1>1, ShapeAlways, PTL

-----------------------------------------------------------------------------
(* What the pages hold *)

\* A page of a space that is mapped, and so held by the space.
LEMMA HeldPage ==
  ASSUME NEW s, NEW v \in UPages, s.pte[v] # None
  PROVE  s.pte[v] \in PagesOf(s)
BY PageOf

\* A process sees what it saw if none of its pages changes.
LEMMA PrivateKept ==
  ASSUME NEW q \in Procs, PrivateOK(q), pgdir'[q] = pgdir[q], view'[q] = view[q],
         \A g \in PagesOf(pgdir[q]) : mem'[g] = mem[g]
  PROVE  PrivateOK(q)'
<1>1. ASSUME NEW v \in UPages, pgdir[q].pte[v] # None
      PROVE  mem'[pgdir[q].pte[v]] = mem[pgdir[q].pte[v]]
  BY <1>1, HeldPage
<1> QED
  BY <1>1 DEF PrivateOK

\* So it is for a process with a call under way that the step is not about.
LEMMA SpacesKept ==
  ASSUME ShapeInv, NEW q \in Procs, DataOK(q), pgdir'[q] = pgdir[q], build'[q] = build[q],
         view'[q] = view[q], sz'[q] = sz[q], task'[q] = task[q],
         \A g \in PagesOf(pgdir[q]) \cup PagesOf(build[q]) : mem'[g] = mem[g]
  PROVE  /\ PrivateOK(q)' /\ (task[q].op = "grow" => GrowData(q)')
         /\ (task[q].op = "fork" => ForkData(q)') /\ (task[q].op = "stack" => StackData(q)')
<1>1. PrivateOK(q)'
  BY PrivateKept DEF DataOK
<1>2. ASSUME NEW v \in UPages, build[q].pte[v] # None
      PROVE  mem'[build[q].pte[v]] = mem[build[q].pte[v]]
  BY <1>2, HeldPage
<1>3. TaskOK(q)
  BY DEF ShapeInv
<1>4. task[q].op \in Mappers => \A v \in UPages : v < task[q].at => build[q].pte[v] # None
  BY <1>3 DEF TaskOK, FrontOK
<1>5. task[q].op = "grow" => GrowData(q)'
  BY <1>2, <1>4 DEF DataOK, GrowData, Mappers
<1>6. task[q].op = "fork" => ForkData(q)'
  BY <1>2, <1>4 DEF DataOK, ForkData, Mappers
<1>7. task[q].op = "stack" => StackData(q)'
  <2>1. ASSUME task[q].op = "stack", RoundUp(task[q].size) < task[q].at
        PROVE  RoundUp(task[q].size) \in UPages
    <3>1. /\ task[q].at \in Nat /\ task[q].at <= KERNBASE \div PGSIZE /\ task[q].size \in Nat
      BY <1>3, <2>1 DEF TaskOK, TaskTypeOK, Mappers, Executing
    <3>2. RoundUp(task[q].size) \in Nat
      BY <3>1, RoundUpIs
    <3> QED
      BY <2>1, <3>1, <3>2, UserPages
  <2> QED
    BY <1>2, <1>4, <2>1 DEF DataOK, StackData, Mappers
<1> QED
  BY <1>1, <1>5, <1>6, <1>7
\* And for the page that waits for its page table.
LEMMA DataKept ==
  ASSUME ShapeInv, NEW q \in Procs, DataOK(q), pgdir'[q] = pgdir[q], build'[q] = build[q],
         view'[q] = view[q], sz'[q] = sz[q], task'[q] = task[q], fresh'[q] = fresh[q],
         \A g \in PagesOf(pgdir[q]) \cup PagesOf(build[q]) \cup ({fresh[q]} \ {None}) : mem'[g] = mem[g]
  PROVE  DataOK(q)'
<1>1. /\ PrivateOK(q)' /\ (task[q].op = "grow" => GrowData(q)')
      /\ (task[q].op = "fork" => ForkData(q)') /\ (task[q].op = "stack" => StackData(q)')
  BY SpacesKept
<1>2. FreshData(q)'
  BY DEF DataOK, FreshData, Content
<1> QED
  BY <1>1, <1>2 DEF DataOK


\* The spaces of another process share no page with the free list, the kernel and p.
LEMMA OtherPages ==
  ASSUME UseInv, NEW p \in Procs, NEW q \in Procs, q # p,
         NEW g \in PagesOf(pgdir[q]) \cup PagesOf(build[q]) \cup ({fresh[q]} \ {None})
  PROVE  g \in Pages /\ g \notin free /\ g \notin kernel /\ g \notin Owned(p)
<1>1. g \in Owned(q)
  BY OwnedPages
<1>2. Owned(q) \subseteq GivenPages /\ GivenPages \subseteq Pages
  BY DEF UseInv, Divided, GivenPages, freerange
<1> QED
  BY <1>1, <1>2 DEF UseInv, Divided

\* Nor does the page of a pipe.
LEMMA PipePages ==
  ASSUME UseInv, NEW g \in pipes
  PROVE  g \in Pages /\ g \notin free /\ \A q \in Procs : g \notin Owned(q)
<1>1. g \in GivenPages /\ GivenPages \subseteq Pages
  BY DEF UseInv, Divided, GivenPages, freerange
<1> QED
  BY <1>1 DEF UseInv, Divided

\* A step that writes only to free pages and to those of one process.
LEMMA DataOfStep ==
  ASSUME ShapeInv, UseInv, DataInv, NEW p \in Procs, DataOK(p)', pipes' = pipes,
         \A g \in Pages : mem'[g] # "nothing",
         \A g \in Pages : g \notin free /\ g \notin Owned(p) => mem'[g] = mem[g],
         \A q \in Procs : q # p =>
           /\ pgdir'[q] = pgdir[q] /\ build'[q] = build[q] /\ view'[q] = view[q]
           /\ sz'[q] = sz[q] /\ task'[q] = task[q] /\ fresh'[q] = fresh[q]
  PROVE  DataInv'
<1>1. ASSUME NEW q \in Procs, q # p PROVE DataOK(q)'
  <2>1. DataOK(q)
    BY DEF DataInv
  <2>2. \A g \in PagesOf(pgdir[q]) \cup PagesOf(build[q]) \cup ({fresh[q]} \ {None}) : mem'[g] = mem[g]
    BY <1>1, OtherPages
  <2> QED
    BY <1>1, <2>1, <2>2, DataKept
<1>2. \A g \in pipes : g \in Pages /\ g \notin free /\ g \notin Owned(p)
  BY PipePages
<1> QED
  BY <1>1, <1>2 DEF DataInv

\* A call that ends, or is between two segments, says nothing of its pages.
LEMMA NoData ==
  ASSUME NEW p \in Procs, PrivateOK(p)', task'[p].op \in {"none", "headers", "segment"},
         fresh'[p] = None
  PROVE  DataOK(p)'
BY DEF DataOK, FreshData


\* What the invariants say of the memory of one process.
LEMMA AboutData ==
  ASSUME ShapeInv, UseInv, DataInv, NEW p \in Procs
  PROVE  /\ DataOK(p) /\ PrivateOK(p) /\ \A g \in Pages : mem[g] # "nothing"
         /\ \A g \in PagesOf(pgdir[p]) \cup PagesOf(build[p]) : g \in Pages /\ g \notin free
         /\ (fresh[p] # None => fresh[p] \in Pages /\ fresh[p] \notin free /\ fresh[p] \in Owned(p))
         /\ \A v \in UPages : v \in Nat
         /\ DOMAIN mem = Pages /\ DOMAIN view = Procs /\ DOMAIN view[p] = UPages
         /\ DOMAIN task = Procs /\ DOMAIN build = Procs /\ DOMAIN pgdir = Procs
<1>1. DataOK(p) /\ PrivateOK(p) /\ \A g \in Pages : mem[g] # "nothing"
  BY DEF DataInv, DataOK
<1>2. Owned(p) \subseteq GivenPages /\ GivenPages \subseteq Pages /\ Owned(p) \cap free = {}
  BY DEF UseInv, Divided, GivenPages, freerange
<1>3. \A g \in PagesOf(pgdir[p]) \cup PagesOf(build[p]) : g \in Pages /\ g \notin free
  BY <1>2, OwnedPages
<1>4. fresh[p] # None => fresh[p] \in Pages /\ fresh[p] \notin free /\ fresh[p] \in Owned(p)
  BY <1>2, OwnedPages
<1> QED
  BY <1>1, <1>3, <1>4, UserPages DEF ShapeInv, MemTypeOK

\* A new page is cleared, or copied from the parent.
LEMMA FillingIs ==
  ASSUME ShapeInv, UseInv, DataInv, NEW p \in Procs, Mapping(p)
  PROVE  Filling(p) = Content(p) /\ Content(p) # "nothing"
<1>1. PICK v \in UPages : v = task[p].at /\ ~Missing(p)
  BY NextPage
<1>2. PrivateOK(p) /\ \A x \in Pages : mem[x] # "nothing"
  BY AboutData
<1>3. task[p].op = "fork" => pgdir[p].pte[v] # None
  BY <1>1 DEF Missing
<1>4. task[p].op = "fork" => mem[pgdir[p].pte[v]] = view[p][v] /\ view[p][v] # "nothing"
  BY <1>2, <1>3 DEF PrivateOK
<1> QED
  BY <1>1, <1>4 DEF Filling, Content

\* It is mapped.
LEMMA MappedData ==
  ASSUME ShapeInv, UseInv, DataInv, NEW p \in Procs, Mapping(p),
         UNCHANGED <<boot, kernel, pipes, procVars, calls, panicked>>,
         task' = [task EXCEPT ![p] = [task[p] EXCEPT !.at = task[p].at + 1]],
         \E g, T, new : MapsPage(p, g, T, new)
  PROVE  DataInv'
<1>1. task[p].op \in Mappers /\ task[p].at <= task[p].last /\ task[p].at \in UPages
  BY NextPage
<1>2. PICK g, T, new : MapsPage(p, g, T, new)
  OBVIOUS
<1>3. UNCHANGED <<pgdir, sz, view>>
  BY DEF procVars
<1>4. PICK t, v : t = task[p] /\ v = t.at
  OBVIOUS
<1>5. /\ DataOK(p) /\ PrivateOK(p) /\ DOMAIN mem = Pages /\ DOMAIN task = Procs /\ DOMAIN build = Procs
      /\ \A x \in Pages : mem[x] # "nothing"
      /\ \A x \in PagesOf(pgdir[p]) \cup PagesOf(build[p]) : x \in Pages /\ x \notin free
      /\ \A w \in UPages : w \in Nat
  BY AboutData
<1>6. Filling(p) = Content(p) /\ Content(p) # "nothing"
  BY FillingIs
<1>7. /\ g \in Pages /\ g \notin PagesOf(pgdir[p]) /\ g \notin PagesOf(build[p])
      /\ (g \in free \/ g \in Owned(p)) /\ g # None
  <2>1. g \in Pages /\ g # None /\ T \subseteq free /\ (g \in T \/ g = fresh[p])
    BY <1>2 DEF MapsPage
  <2>2. CASE g \in T
    BY <1>5, <2>1, <2>2
  <2>3. CASE g = fresh[p]
    BY <2>1, <2>3, AboutData DEF UseInv, ApartOK
  <2> QED
    BY <2>1, <2>2, <2>3
<1>8. /\ mem'[g] = Content(p) /\ \A x \in Pages : x # g => mem'[x] = mem[x]
      /\ build'[p] = new /\ new.pte[v] = g
      /\ \A w \in UPages : w # v => new.pte[w] = build[p].pte[w]
      /\ \A q \in Procs : q # p => /\ build'[q] = build[q] /\ task'[q] = task[q]
                                   /\ fresh'[q] = fresh[q]
      /\ fresh'[p] = None
  <2>1. mem'[g] = Content(p) /\ \A x \in Pages : x # g => mem'[x] = mem[x]
    <3>1. CASE g \in T
      BY <1>2, <1>5, <1>7, <1>6, <3>1 DEF MapsPage
    <3>2. CASE g \notin T
      <4>1. mem' = mem /\ g = fresh[p] /\ g # None
        BY <1>2, <3>2 DEF MapsPage
      <4> QED
        BY <1>5, <4>1 DEF DataOK, FreshData
    <3> QED
      BY <3>1, <3>2
  <2>2. DOMAIN fresh = Procs
    BY DEF ShapeInv, MemTypeOK
  <2> QED
    BY <1>2, <1>4, <1>5, <2>1, <2>2 DEF MapsPage
<1>9. TaskOK(p) /\ TaskTypeOK(t) /\ ExtentOK(p) /\ RoundUp(sz[p]) \in Nat
  BY <1>4, AboutProcess
<1>10. v \in UPages /\ v \in Nat /\ v <= t.last /\ t.last \in Int /\ t.op \in Mappers
  BY <1>1, <1>4, <1>5, <1>9 DEF TaskTypeOK
<1>11. Content(p) = (IF t.op = "fork" THEN view[p][v] ELSE "zero")
  BY <1>4 DEF Content
<1>12. \A x \in Pages : mem'[x] # "nothing"
  BY <1>5, <1>8, <1>6
<1>13. PrivateOK(p)'
  <2>1. \A x \in PagesOf(pgdir[p]) : mem'[x] = mem[x]
    BY <1>5, <1>7, <1>8
  <2> QED
    BY <1>3, <1>5, <2>1, PrivateKept
<1>14. PICK u : u = [t EXCEPT !.at = v + 1]
  OBVIOUS
<1>15. /\ task'[p] = u /\ u.op = t.op /\ u.at = v + 1
       /\ t.op = "stack" => u.size = t.size
  <2>1. {"op", "at"} \subseteq DOMAIN t /\ (t.op = "stack" => "size" \in DOMAIN t)
    BY <1>9, <1>10 DEF TaskTypeOK, Executing
  <2> QED
    BY <1>1, <1>4, <1>5, <1>14, <2>1
<1>16. ASSUME NEW w \in UPages, w < v
       PROVE  new.pte[w] = build[p].pte[w] /\ mem'[new.pte[w]] = mem[build[p].pte[w]]
  <2>1. build[p].pte[w] # None
    BY <1>4, <1>9, <1>10, <1>16 DEF TaskOK, FrontOK
  <2>2. new.pte[w] = build[p].pte[w]
    BY <1>5, <1>8, <1>10, <1>16
  <2>3. build[p].pte[w] \in Pages /\ build[p].pte[w] # g
    BY <1>5, <1>7, <2>1, HeldPage
  <2> QED
    BY <1>8, <2>2, <2>3
<1>17. \A w \in UPages : w < v + 1 => w < v \/ w = v
  BY <1>5, <1>10
<1>18. t.op = "grow" => GrowData(p)'
  BY <1>3, <1>4, <1>5, <1>8, <1>11, <1>15, <1>16, <1>17 DEF DataOK, GrowData
<1>19. t.op = "fork" => ForkData(p)'
  BY <1>3, <1>4, <1>5, <1>8, <1>11, <1>15, <1>16, <1>17 DEF DataOK, ForkData
<1>20. t.op = "stack" => StackData(p)'
  <2>1. ASSUME t.op = "stack", RoundUp(t.size) < v + 1
        PROVE  mem'[new.pte[RoundUp(t.size)]] = "zero"
    <3>1. PICK a \in UPages : a = RoundUp(t.size)
      <4>1. t.size \in Nat
        BY <1>9, <2>1 DEF TaskTypeOK, Executing
      <4>2. RoundUp(t.size) \in Nat /\ RoundUp(t.size) <= v
        BY <1>10, <2>1, <4>1, RoundUpIs
      <4> QED
        BY <1>10, <4>2, UserPages
    <3>2. CASE a < v
      BY <1>4, <1>5, <1>16, <2>1, <3>1, <3>2 DEF DataOK, StackData
    <3>3. CASE a = v
      BY <1>8, <1>11, <2>1, <3>1, <3>3
    <3> QED
      BY <1>17, <2>1, <3>1, <3>2, <3>3
  <2> QED
    BY <1>8, <1>15, <2>1 DEF StackData
<1>21. DataOK(p)'
  BY <1>8, <1>13, <1>15, <1>18, <1>19, <1>20 DEF DataOK, FreshData
<1>22. \A x \in Pages : x \notin free /\ x \notin Owned(p) => mem'[x] = mem[x]
  BY <1>7, <1>8
<1> QED
  BY <1>3, <1>8, <1>12, <1>21, <1>22, DataOfStep

\* The next page of a mapping, mapped or waiting.
LEMMA MapPageData ==
  ASSUME ShapeInv, UseInv, DataInv, NEW p \in Procs, map_page(p) \/ map_table(p)
  PROVE  DataInv'
<1>1. Mapping(p) /\ UNCHANGED <<boot, kernel, pipes, procVars, calls, panicked>>
  BY MapPageDoes
<1>2. CASE /\ task' = [task EXCEPT ![p] = [task[p] EXCEPT !.at = task[p].at + 1]]
           /\ \E g, T, new : MapsPage(p, g, T, new)
  BY <1>1, <1>2, MappedData
<1>3. CASE /\ free # {} /\ free' = free \ {kalloc} /\ fresh[p] = None
           /\ mem' = [mem EXCEPT ![kalloc] = Filling(p)] /\ NeedsTable(build[p], task[p].at)
           /\ fresh' = [fresh EXCEPT ![p] = kalloc] /\ UNCHANGED <<build, task>>
  <2>1. PICK g : g = kalloc
    OBVIOUS
  <2>2. g \in free /\ g \in Pages /\ g \notin PagesOf(pgdir[p]) /\ g \notin PagesOf(build[p])
    BY <1>3, <2>1, OnePage
  <2>3. UNCHANGED <<pgdir, sz, view>>
    BY <1>1 DEF procVars
  <2>4. /\ DataOK(p) /\ DOMAIN mem = Pages /\ \A x \in Pages : mem[x] # "nothing"
        /\ \A x \in PagesOf(pgdir[p]) \cup PagesOf(build[p]) : x \in Pages
    BY AboutData
  <2>5. Filling(p) = Content(p) /\ Content(p) # "nothing"
    BY <1>1, FillingIs
  <2>6. /\ mem'[g] = Content(p) /\ \A x \in Pages : x # g => mem'[x] = mem[x]
    BY <1>3, <2>1, <2>2, <2>4, <2>5
  <2>7. /\ PrivateOK(p)' /\ (task[p].op = "grow" => GrowData(p)')
        /\ (task[p].op = "fork" => ForkData(p)') /\ (task[p].op = "stack" => StackData(p)')
    <3>1. \A x \in PagesOf(pgdir[p]) \cup PagesOf(build[p]) : mem'[x] = mem[x]
      BY <2>2, <2>4, <2>6
    <3> QED
      BY <1>3, <2>3, <2>4, <3>1, SpacesKept
  <2>8. DOMAIN fresh = Procs
    BY DEF ShapeInv, MemTypeOK
  <2>9. fresh'[p] = g /\ \A q \in Procs : q # p => fresh'[q] = fresh[q]
    BY <1>3, <2>1, <2>8
  <2>10. FreshData(p)'
    BY <1>3, <2>3, <2>6, <2>9 DEF FreshData, Content
  <2>11. DataOK(p)'
    BY <1>3, <2>7, <2>10 DEF DataOK
  <2>12. \A x \in Pages : mem'[x] # "nothing"
    BY <2>4, <2>5, <2>6
  <2>13. \A x \in Pages : x \notin free /\ x \notin Owned(p) => mem'[x] = mem[x]
    BY <2>2, <2>6
  <2> QED
    BY <1>1, <1>3, <2>3, <2>9, <2>11, <2>12, <2>13, DataOfStep
<1> QED
  BY <1>2, <1>3, MapPageDoes

\* A step that writes nothing and leaves the memory of every process as it is.
LEMMA NothingWritten ==
  ASSUME ShapeInv, UseInv, DataInv, NEW p \in Procs, UNCHANGED <<mem, pgdir, view, sz, pipes, fresh>>,
         \A q \in Procs : q # p => build'[q] = build[q] /\ task'[q] = task[q],
         task'[p].op = "grow" => GrowData(p)', task'[p].op = "fork" => ForkData(p)',
         task'[p].op = "stack" => StackData(p)', fresh[p] = None
  PROVE  DataInv'
<1>1. PrivateOK(p) /\ \A g \in Pages : mem[g] # "nothing"
  BY AboutData
<1>2. PrivateOK(p)'
  BY <1>1 DEF PrivateOK
<1>3. DataOK(p)'
  BY <1>2 DEF DataOK, FreshData
<1>4. \A g \in Pages : mem'[g] # "nothing"
  BY <1>1
<1> QED
  BY <1>3, <1>4, DataOfStep

\* The calls that begin a mapping or leave the pages alone.
LEMMA CallData ==
  ASSUME ShapeInv, UseInv, DataInv, NEW p \in Procs,
         \/ \E n \in Sbrk : sbrk_grow(p, n)
         \/ \E c \in Procs : fork(p, c)
         \/ \E e \in Execs : exec(p, e.prog, e.args)
         \/ setup_page(p) \/ exec_header(p) \/ exec_stack(p) \/ switchuvm(p) \/ exit(p)
  PROVE  DataInv'
<1>1. DOMAIN task = Procs /\ DOMAIN build = Procs /\ \A w \in UPages : w \in Nat
  BY AboutData
<1>2. RoundUp(sz[p]) \in Nat
  BY AboutProcess
<1>3. ASSUME NEW n \in Sbrk, sbrk_grow(p, n) PROVE DataInv'
  <2>1. /\ UNCHANGED <<mem, pgdir, view, sz, pipes, fresh>>
        /\ task' = [task EXCEPT ![p] = [op |-> "grow", at |-> RoundUp(sz[p]),
                                         last |-> RoundUp(sz[p] + n) - 1, n |-> n]]
        /\ build' = [build EXCEPT ![p] = pgdir[p]]
    BY <1>3 DEF sbrk_grow, does, procVars
  <2>2. task'[p].op = "grow" /\ task'[p].at = RoundUp(sz[p])
    BY <1>1, <2>1
  <2>3. GrowData(p)'
    BY <1>1, <1>2, <2>1, <2>2 DEF GrowData
  <2> QED
    BY <1>1, <1>3, <2>1, <2>2, <2>3, RunningProcess, NothingWritten DEF sbrk_grow
<1>4. ASSUME NEW c \in Procs, fork(p, c) PROVE DataInv'
  <2>1. UNCHANGED <<mem, pgdir, view, sz, build, pipes, fresh>>
    BY <1>4 DEF fork
  <2>2. task[p].op = "none" /\ fresh[p] = None
    BY <1>4, RunningProcess DEF fork
  <2>3. CASE UNCHANGED task
    BY <2>1, <2>2, <2>3, NothingWritten
  <2>4. CASE free # {}
    <3>1. task' = [task EXCEPT ![p] = [op |-> "fork", left |-> SetupPages, at |-> 0,
                                        last |-> RoundUp(sz[p]) - 1, child |-> c]]
      BY <1>4, <2>4 DEF fork, does
    <3>2. task'[p].op = "fork" /\ task'[p].at = 0
      BY <1>1, <3>1
    <3>3. ForkData(p)'
      BY <1>1, <3>2 DEF ForkData
    <3> QED
      BY <1>1, <2>1, <2>2, <3>1, <3>2, <3>3, NothingWritten
  <2> QED
    BY <1>4, <2>3, <2>4 DEF fork
<1>5. ASSUME NEW e \in Execs, exec(p, e.prog, e.args) PROVE DataInv'
  <2>1. UNCHANGED <<mem, pgdir, view, sz, build, pipes, fresh>>
    BY <1>5 DEF exec, procVars
  <2>2. fresh[p] = None
    BY <1>5, RunningProcess DEF exec
  <2>3. task' = [task EXCEPT ![p] = [op |-> "headers", left |-> SetupPages, prog |-> e.prog,
                                      args |-> e.args, size |-> 0]]
    BY <1>5 DEF exec, does
  <2>4. task'[p].op = "headers"
    BY <1>1, <2>3
  <2> QED
    BY <1>1, <2>1, <2>2, <2>3, <2>4, NothingWritten
<1>6. ASSUME exec_header(p) PROVE DataInv'
  <2>1. UNCHANGED <<mem, pgdir, view, sz, pipes, fresh, build>> /\ \E u : task' = [task EXCEPT ![p] = u]
    BY <1>6 DEF exec_header, procVars, does
  <2>2. task'[p].op \in {"headers", "segment"}
    <3>1. task[p].op = "headers" /\ {"op", "prog"} \subseteq DOMAIN task[p]
      BY <1>6, InExec DEF exec_header, Busy, Executing
    <3> QED
      BY <1>1, <1>6, <3>1 DEF exec_header, does, In
  <2>3. fresh[p] = None
    BY <1>6, InExec DEF exec_header, Busy, Executing
  <2> QED
    BY <1>1, <2>1, <2>2, <2>3, NothingWritten
<1>7. ASSUME exec_stack(p) PROVE DataInv'
  <2>1. /\ UNCHANGED <<mem, pgdir, view, sz, pipes, fresh, build>> /\ task[p].op = "headers"
        /\ task' = [task EXCEPT ![p] = In(p, "stack", StackAt(p), StackAt(p) + 1)]
    BY <1>7 DEF exec_stack, procVars, does, Busy
  <2>2. task'[p].op = "stack" /\ task'[p].at = RoundUp(task'[p].size)
    BY <1>1, <2>1 DEF In, StackAt
  <2>3. RoundUp(task'[p].size) \in Nat
    <3>1. task'[p].size = task[p].size
      BY <1>1, <2>1 DEF In
    <3>2. RoundUp(task[p].size) \in Nat
      BY <2>1, InExec DEF Executing
    <3> QED
      BY <3>1, <3>2
  <2>4. StackData(p)'
    BY <2>2, <2>3 DEF StackData
  <2>5. fresh[p] = None
    BY <2>1, InExec DEF Executing
  <2> QED
    BY <1>1, <2>1, <2>2, <2>4, <2>5, NothingWritten
<1>8. ASSUME exit(p) PROVE DataInv'
  <2>1. UNCHANGED <<mem, pgdir, view, sz, pipes, fresh, build, task>> /\ task[p] = NoTask
    BY <1>8 DEF exit
  <2>2. task'[p].op = "none"
    BY <2>1 DEF NoTask
  <2>3. fresh[p] = None
    BY <2>1 DEF ShapeInv, TaskOK, Mappers, NoTask
  <2> QED
    BY <2>1, <2>2, <2>3, NothingWritten
<1>9. ASSUME switchuvm(p) PROVE DataInv'
  <2>1. UNCHANGED <<mem, pgdir, view, sz, pipes, fresh, build, task>>
    BY <1>9 DEF switchuvm
  <2>2. \A q \in Procs : DataOK(q)'
    <3> SUFFICES ASSUME NEW q \in Procs PROVE DataOK(q)'
      OBVIOUS
    <3>1. DataOK(q)
      BY DEF DataInv
    <3> QED
      BY <2>1, <3>1, DataKept
  <2> QED
    BY <2>1, <2>2 DEF DataInv
<1>10. ASSUME setup_page(p) PROVE DataInv'
  <2>1. /\ UNCHANGED <<mem, pgdir, view, sz, pipes, fresh>> /\ Setting(p)
        /\ \E new : build' = [build EXCEPT ![p] = new]
        /\ task' = [task EXCEPT ![p] = [task[p] EXCEPT !.left = task[p].left - 1]]
    BY <1>10 DEF setup_page, procVars, does
  <2>2. TaskOK(p) /\ TaskTypeOK(task[p]) /\ task[p].op \in {"fork", "headers"} /\ task[p].left # 0
    <3>1. TaskOK(p) /\ TaskTypeOK(task[p]) /\ task[p].op \in {"fork", "headers"}
      BY <2>1, AboutProcess DEF Setting
    <3>2. task[p].left \in Nat /\ task[p].left > 0
      BY <2>1, <3>1 DEF TaskTypeOK, Setting
    <3> QED
      BY <3>1, <3>2
  <2>3. fresh[p] = None
    BY <2>2 DEF TaskOK, Mappers
  <2>4. task'[p].op = task[p].op /\ (task[p].op = "fork" => task'[p].at = 0)
    <3>1. /\ "op" \in DOMAIN task[p] /\ (task[p].op = "fork" => "at" \in DOMAIN task[p])
          /\ (task[p].op = "fork" => task[p].at = 0)
      BY <2>2 DEF TaskOK, TaskTypeOK, ForkOK, Mappers, Executing
    <3> QED
      BY <1>1, <2>1, <3>1
  <2>5. task'[p].op = "fork" => ForkData(p)'
    BY <1>1, <2>4 DEF ForkData
  <2>6. task'[p].op # "grow" /\ task'[p].op # "stack"
    BY <2>2, <2>4
  <2> QED
    BY <1>1, <2>1, <2>3, <2>5, <2>6, NothingWritten
<1> QED
  BY <1>3, <1>4, <1>5, <1>6, <1>7, <1>8, <1>9, <1>10

\* Pages that kfree takes are filled with junk, and the others keep what they hold.
LEMMA Junk ==
  ASSUME \A g \in Pages : mem[g] # "nothing", NEW gs, NEW once, kfree(gs, once)
  PROVE  /\ \A g \in Pages : mem'[g] # "nothing"
         /\ \A g \in Pages : g \notin gs => mem'[g] = mem[g]
BY DEF kfree

\* Where a growing process has no page yet, it will find zeroes.
LEMMA SbrkEndData ==
  ASSUME ShapeInv, UseInv, DataInv, NEW p \in Procs, sbrk_end(p)
  PROVE  DataInv'
<1>1. /\ task[p].op = "grow" /\ ~(task[p].at <= task[p].last)
      /\ pgdir' = [pgdir EXCEPT ![p] = build[p]] /\ build' = [build EXCEPT ![p] = NoSpace]
      /\ sz' = [sz EXCEPT ![p] = sz[p] + task[p].n]
      /\ view' = [view EXCEPT ![p] = [v \in UPages |->
                   IF view[p][v] = "nothing" /\ v * PGSIZE < sz'[p] THEN "zero" ELSE view[p][v]]]
      /\ task' = [task EXCEPT ![p] = NoTask] /\ UNCHANGED <<mem, pipes, fresh>>
  BY DEF sbrk_end, Busy, Mapping, Setting, does
<1>2. /\ MemTypeOK /\ TaskOK(p) /\ TaskTypeOK(task[p]) /\ ExtentOK(p)
      /\ sz[p] \in Nat /\ RoundUp(sz[p]) \in Nat
  BY AboutProcess
<1>3. /\ DataOK(p) /\ PrivateOK(p) /\ \A g \in Pages : mem[g] # "nothing"
      /\ \A v \in UPages : v \in Nat
  BY AboutData
<1>4. GrowOK(p, task[p]) /\ FrontOK(build[p], task[p].at) /\ GrowData(p) /\ fresh[p] = None
  BY <1>1, <1>2, <1>3 DEF TaskOK, Mappers, DataOK
<1>5. PICK a \in 0 .. KERNBASE - 1 : a = sz[p] + task[p].n /\ a \in Nat
  <2>1. task[p].n \in Nat /\ sz[p] + task[p].n < KERNBASE
    BY <1>1, <1>2, <1>4 DEF GrowOK, TaskTypeOK
  <2> QED
    BY <1>2, <2>1, Sizes
<1>6. RoundUp(a) \in Nat /\ \A v \in Nat : v < RoundUp(a) <=> v * PGSIZE < a
  BY <1>5, BelowSize
<1>7. task[p].at = RoundUp(a)
  BY <1>1, <1>2, <1>4, <1>5, <1>6 DEF GrowOK, TaskTypeOK, Mappers
<1>8. /\ pgdir'[p] = build[p] /\ task'[p] = NoTask /\ sz'[p] = a
      /\ \A q \in Procs : q # p => /\ pgdir'[q] = pgdir[q] /\ build'[q] = build[q]
                                   /\ sz'[q] = sz[q] /\ task'[q] = task[q] /\ view'[q] = view[q]
  BY <1>1, <1>2, <1>5 DEF MemTypeOK
<1>9. \A v \in UPages : view'[p][v] = IF view[p][v] = "nothing" /\ v * PGSIZE < a
                                       THEN "zero" ELSE view[p][v]
  BY <1>1, <1>2, <1>8 DEF MemTypeOK
<1>10. ASSUME NEW v \in UPages
       PROVE  IF view'[p][v] = "nothing" THEN build[p].pte[v] = None
              ELSE build[p].pte[v] # None /\ mem[build[p].pte[v]] = view'[p][v]
  <2>1. v \in Nat /\ (v < RoundUp(a) <=> v * PGSIZE < a) /\ (build[p].pte[v] # None <=> v < RoundUp(a))
    BY <1>3, <1>4, <1>6, <1>7 DEF FrontOK
  <2>2. RoundUp(sz[p]) <= RoundUp(a)
    BY <1>4, <1>7 DEF GrowOK
  <2>3. CASE v < RoundUp(sz[p])
    <3>1. pgdir[p].pte[v] # None /\ build[p].pte[v] = pgdir[p].pte[v]
      BY <1>2, <1>4, <2>3 DEF ExtentOK, GrowOK
    <3>2. view[p][v] # "nothing" /\ mem[pgdir[p].pte[v]] = view[p][v]
      BY <1>3, <3>1 DEF PrivateOK
    <3> QED
      BY <1>9, <3>1, <3>2
  <2>4. CASE ~(v < RoundUp(sz[p])) /\ v < RoundUp(a)
    <3>1. view[p][v] = "nothing"
      BY <1>2, <1>3, <2>1, <2>4 DEF ExtentOK, PrivateOK
    <3>2. mem[build[p].pte[v]] = "zero"
      BY <1>2, <1>4, <1>7, <2>1, <2>4 DEF GrowData
    <3> QED
      BY <1>9, <2>1, <2>4, <3>1, <3>2
  <2>5. CASE ~(v < RoundUp(a))
    <3>1. view[p][v] = "nothing"
      BY <1>2, <1>3, <1>6, <2>1, <2>2, <2>5 DEF ExtentOK, PrivateOK
    <3> QED
      BY <1>9, <2>1, <2>5, <3>1
  <2> QED
    BY <2>3, <2>4, <2>5
<1>11. PrivateOK(p)'
  BY <1>1, <1>8, <1>10 DEF PrivateOK
<1>12. DataOK(p)'
  BY <1>1, <1>4, <1>8, <1>11, NoData DEF NoTask
<1> QED
  BY <1>1, <1>3, <1>8, <1>12, DataOfStep

\* A process that takes pages away from itself keeps the memory below.
LEMMA CutData ==
  ASSUME NEW p \in Procs, PrivateOK(p), NEW s, UsedOnce(s), NEW gone \in SUBSET UPages,
         \A v \in UPages : v \notin gone => s.pte[v] = pgdir[p].pte[v],
         \A v \in UPages : s.pte[v] # None => s.pte[v] \in Pages,
         \A v \in UPages : pgdir'[p].pte[v] = IF v \in gone THEN None ELSE s.pte[v],
         \A v \in UPages : view'[p][v] = IF v \in gone THEN "nothing" ELSE view[p][v],
         \A g \in PagesOf(s) : g \notin {s.pte[v] : v \in gone} => mem'[g] = mem[g]
  PROVE  PrivateOK(p)'
<1>1. ASSUME NEW v \in UPages, v \notin gone, s.pte[v] # None PROVE mem'[s.pte[v]] = mem[s.pte[v]]
  BY <1>1, HeldPage DEF UsedOnce
<1>2. ASSUME NEW v \in UPages
      PROVE  IF view'[p][v] = "nothing" THEN pgdir'[p].pte[v] = None
             ELSE pgdir'[p].pte[v] # None /\ mem'[pgdir'[p].pte[v]] = view'[p][v]
  <2>1. CASE v \in gone
    BY <2>1
  <2>2. CASE v \notin gone
    <3>1. pgdir'[p].pte[v] = s.pte[v] /\ s.pte[v] = pgdir[p].pte[v] /\ view'[p][v] = view[p][v]
      BY <2>2
    <3> QED
      BY <1>1, <2>2, <3>1 DEF PrivateOK
  <2> QED
    BY <2>1, <2>2
<1> QED
  BY <1>2 DEF PrivateOK

\* sbrk that fails leaves the memory as it was.
LEMMA SbrkUndoData ==
  ASSUME ShapeInv, UseInv, DataInv, NEW p \in Procs, sbrk_undo(p)
  PROVE  DataInv'
<1>1. PICK gone : gone = Deallocated(sz[p] + task[p].n, sz[p])
  OBVIOUS
<1>2. PICK new, s : new = deallocuvm(s, gone) /\ s = build[p]
  OBVIOUS
<1>3. /\ task[p].op = "grow" /\ kfree({s.pte[v] : v \in gone} \cup {fresh[p]}, BuiltOnce(p))
      /\ pgdir' = [pgdir EXCEPT ![p] = new] /\ build' = [build EXCEPT ![p] = NoSpace]
      /\ task' = [task EXCEPT ![p] = NoTask]
      /\ fresh' = [fresh EXCEPT ![p] = None] /\ UNCHANGED <<sz, view, pipes>>
  BY <1>1, <1>2 DEF sbrk_undo, Busy, gives_up, does
<1>4. /\ MemTypeOK /\ TaskOK(p) /\ TaskTypeOK(task[p]) /\ ExtentOK(p)
      /\ IsSpace(s) /\ UsedOnce(s) /\ ApartOK(p) /\ sz[p] \in Nat /\ RoundUp(sz[p]) \in Nat
  BY <1>2, AboutProcess
<1>5. /\ PrivateOK(p) /\ \A g \in Pages : mem[g] # "nothing"
      /\ \A v \in UPages : v \in Nat
      /\ \A g \in PagesOf(pgdir[p]) \cup PagesOf(build[p]) : g \in Pages
      /\ (fresh[p] # None => fresh[p] \in Owned(p))
  BY AboutData
<1>6. GrowOK(p, task[p]) /\ FrontOK(s, task[p].at)
  BY <1>2, <1>3, <1>4 DEF TaskOK, Mappers
<1>7. PICK a \in Nat : a = sz[p] + task[p].n
  <2>1. task[p].n \in Nat
    BY <1>3, <1>4 DEF TaskTypeOK
  <2> QED
    BY <1>4, <2>1
<1>8. /\ gone \in SUBSET UPages
      /\ \A v \in UPages : v \in gone <=> v >= RoundUp(sz[p]) /\ v < RoundUp(a)
  BY <1>1, <1>4, <1>7, DeallocatedIs
<1>9. \A v \in UPages : new.pte[v] = IF v \in gone THEN None ELSE s.pte[v]
  BY <1>2, <1>4, <1>8, Unmapped
<1>10. /\ pgdir'[p] = new /\ task'[p] = NoTask /\ fresh'[p] = None
       /\ \A q \in Procs : q # p => /\ pgdir'[q] = pgdir[q] /\ build'[q] = build[q]
                                    /\ task'[q] = task[q] /\ fresh'[q] = fresh[q]
  BY <1>3, <1>4 DEF MemTypeOK
<1>11. /\ \A g \in Pages : mem'[g] # "nothing"
       /\ \A g \in Pages : g \notin {s.pte[v] : v \in gone} /\ g # fresh[p] => mem'[g] = mem[g]
       /\ \A g \in PagesOf(s) : g \notin {s.pte[v] : v \in gone} => mem'[g] = mem[g]
  <2>1. /\ \A g \in Pages : mem'[g] # "nothing"
        /\ \A g \in Pages : g \notin {s.pte[v] : v \in gone} \cup {fresh[p]} => mem'[g] = mem[g]
    BY <1>3, <1>5, Junk
  <2>2. \A g \in PagesOf(s) : g \in Pages /\ g # fresh[p]
    BY <1>2, <1>4, <1>5 DEF ApartOK, PagesOf
  <2> QED
    BY <2>1, <2>2
<1>12. \A v \in UPages : s.pte[v] # None => s.pte[v] \in PagesOf(build[p]) /\ s.pte[v] \in Pages
  BY <1>2, <1>5, HeldPage
<1>13. ASSUME NEW v \in UPages, v \notin gone PROVE s.pte[v] = pgdir[p].pte[v]
  <2>1. v \in Nat /\ RoundUp(a) \in Nat
    BY <1>5, <1>7, RoundUpIs
  <2>2. CASE v < RoundUp(sz[p])
    BY <1>2, <1>6, <2>2 DEF GrowOK
  <2>3. CASE v >= RoundUp(a) /\ v >= RoundUp(sz[p])
    <3>1. task[p].at <= RoundUp(a) /\ task[p].at \in Nat
      BY <1>3, <1>4, <1>6, <1>7, <2>1 DEF GrowOK, TaskTypeOK, Mappers
    <3>2. s.pte[v] = None /\ pgdir[p].pte[v] = None
      BY <1>4, <1>6, <2>1, <2>3, <3>1 DEF FrontOK, ExtentOK
    <3> QED
      BY <3>2
  <2> QED
    BY <1>4, <1>8, <1>13, <2>1, <2>2, <2>3
<1>14. \A v \in UPages : v \in gone => view[p][v] = "nothing"
  BY <1>4, <1>5, <1>8 DEF ExtentOK, PrivateOK
<1>15. PrivateOK(p)'
  BY <1>3, <1>4, <1>5, <1>8, <1>9, <1>10, <1>11, <1>12, <1>13, <1>14, CutData
<1>16. DataOK(p)'
  BY <1>10, <1>15, NoData DEF NoTask
<1>17. \A g \in Pages : g \notin free /\ g \notin Owned(p) => mem'[g] = mem[g]
  <2>1. \A v \in gone : s.pte[v] = None \/ s.pte[v] \in Owned(p)
    BY <1>8, <1>12, OwnedPages
  <2>2. None \notin Pages
    BY TwoRanges
  <2> QED
    BY <1>5, <1>11, <2>1, <2>2
<1> QED
  BY <1>3, <1>10, <1>11, <1>16, <1>17, DataOfStep

\* A process that shrinks keeps the memory below.
LEMMA SbrkShrinkData ==
  ASSUME ShapeInv, UseInv, DataInv, NEW p \in Procs, NEW n \in Sbrk, sbrk_shrink(p, n)
  PROVE  DataInv'
<1>1. PICK gone : gone = Deallocated(sz[p], sz[p] + n)
  OBVIOUS
<1>2. PICK new, s : new = deallocuvm(s, gone) /\ s = pgdir[p]
  OBVIOUS
<1>3. /\ Runs(p) /\ n < 0 /\ sz[p] + n >= 0 /\ kfree({s.pte[v] : v \in gone}, UsedOnce(s))
      /\ pgdir' = [pgdir EXCEPT ![p] = new]
      /\ view' = [view EXCEPT ![p] = [v \in UPages |-> IF v \in gone THEN "nothing" ELSE view[p][v]]]
      /\ \E x : sz' = [sz EXCEPT ![p] = x]
      /\ UNCHANGED <<task, build, pipes, fresh>>
  BY <1>1, <1>2 DEF sbrk_shrink
<1>4. MemTypeOK /\ IsSpace(s) /\ UsedOnce(s) /\ sz[p] \in Nat
  BY <1>2, AboutProcess
<1>5. /\ PrivateOK(p) /\ \A g \in Pages : mem[g] # "nothing"
      /\ \A g \in PagesOf(pgdir[p]) \cup PagesOf(build[p]) : g \in Pages
  BY AboutData
<1>6. task[p] = NoTask /\ fresh[p] = None
  BY <1>3, RunningProcess
<1>7. PICK a \in Nat : a = sz[p] + n
  <2>1. n \in Int
    BY MemoryAssumption
  <2> QED
    BY <1>3, <1>4, <2>1
<1>8. gone \in SUBSET UPages
  BY <1>1, <1>4, <1>7, DeallocatedIs
<1>9. \A v \in UPages : new.pte[v] = IF v \in gone THEN None ELSE s.pte[v]
  BY <1>2, <1>4, <1>8, Unmapped
<1>10. /\ pgdir'[p] = new /\ task'[p] = NoTask
       /\ \A v \in UPages : view'[p][v] = IF v \in gone THEN "nothing" ELSE view[p][v]
       /\ \A q \in Procs : q # p => pgdir'[q] = pgdir[q] /\ sz'[q] = sz[q] /\ view'[q] = view[q]
  BY <1>3, <1>4, <1>6 DEF MemTypeOK
<1>11. /\ \A g \in Pages : mem'[g] # "nothing"
       /\ \A g \in Pages : g \notin {s.pte[v] : v \in gone} => mem'[g] = mem[g]
       /\ \A g \in PagesOf(s) : g \notin {s.pte[v] : v \in gone} => mem'[g] = mem[g]
  <2>1. /\ \A g \in Pages : mem'[g] # "nothing"
        /\ \A g \in Pages : g \notin {s.pte[v] : v \in gone} => mem'[g] = mem[g]
    BY <1>3, <1>5, Junk
  <2> QED
    BY <1>2, <1>5, <2>1
<1>12. \A v \in UPages : s.pte[v] # None => s.pte[v] \in PagesOf(pgdir[p]) /\ s.pte[v] \in Pages
  BY <1>2, <1>5, HeldPage
<1>13. PrivateOK(p)'
  BY <1>2, <1>4, <1>5, <1>8, <1>9, <1>10, <1>11, <1>12, CutData
<1>14. DataOK(p)'
  BY <1>3, <1>6, <1>10, <1>13, NoData DEF NoTask
<1>15. \A g \in Pages : g \notin free /\ g \notin Owned(p) => mem'[g] = mem[g]
  <2>1. \A v \in gone : s.pte[v] = None \/ s.pte[v] \in Owned(p)
    BY <1>8, <1>12, OwnedPages
  <2>2. None \notin Pages
    BY TwoRanges
  <2> QED
    BY <1>11, <2>1, <2>2
<1> QED
  BY <1>3, <1>10, <1>11, <1>14, <1>15, DataOfStep

\* The child sees what the parent had when it called fork.
LEMMA ForkEndData ==
  ASSUME ShapeInv, UseInv, DataInv, NEW p \in Procs, fork_end(p)
  PROVE  DataInv'
<1>1. PICK c, new : c = task[p].child /\ new = [build[p] EXCEPT !.user = pgdir[p].user]
  OBVIOUS
<1>2. /\ task[p].op = "fork" /\ ~(task[p].at <= task[p].last)
      /\ pgdir' = [pgdir EXCEPT ![c] = new]
      /\ sz' = [sz EXCEPT ![c] = sz[p]]
      /\ view' = [view EXCEPT ![c] = view[p]]
      /\ build' = [build EXCEPT ![p] = NoSpace]
      /\ task' = [task EXCEPT ![p] = NoTask] /\ UNCHANGED <<mem, pipes, fresh>>
  BY <1>1 DEF fork_end, Busy, Mapping, Setting, does
<1>3. /\ MemTypeOK /\ ExtentOK(p) /\ TaskOK(p) /\ TaskTypeOK(task[p])
      /\ IsSpace(build[p]) /\ RoundUp(sz[p]) \in Nat
  BY AboutProcess
<1>4. /\ ForkOK(p, task[p]) /\ FrontOK(build[p], task[p].at) /\ state[p] = "RUNNABLE"
      /\ c \in Procs /\ state[c] = "EMBRYO" /\ c # p /\ 0 \in pgdir[p].user
      /\ fresh[p] = None
  BY <1>1, <1>2, <1>3 DEF TaskOK, Mappers, ForkOK, TaskTypeOK
<1>5. task[p].at = RoundUp(sz[p])
  BY <1>2, <1>3, <1>4 DEF ForkOK, TaskTypeOK, Mappers
<1>6. task[c] = NoTask /\ fresh[c] = None
  BY <1>4, IdleSlot
<1>7. new.pte = build[p].pte
  BY <1>1, <1>3 DEF IsSpace
<1>8. /\ pgdir'[c] = new /\ view'[c] = view[p] /\ task'[p] = NoTask /\ task'[c] = NoTask
      /\ \A q \in Procs : q # p => build'[q] = build[q] /\ task'[q] = task[q]
      /\ \A q \in Procs : q # c => pgdir'[q] = pgdir[q] /\ sz'[q] = sz[q] /\ view'[q] = view[q]
  BY <1>2, <1>3, <1>4, <1>6 DEF MemTypeOK
<1>9. /\ DataOK(p) /\ PrivateOK(p) /\ \A g \in Pages : mem[g] # "nothing"
      /\ \A v \in UPages : v \in Nat
  BY AboutData
<1>10. ForkData(p)
  BY <1>2, <1>9 DEF DataOK
<1>11. PrivateOK(c)'
  <2>1. ASSUME NEW v \in UPages
        PROVE  IF view[p][v] = "nothing" THEN build[p].pte[v] = None
               ELSE build[p].pte[v] # None /\ mem[build[p].pte[v]] = view[p][v]
    <3>1. CASE v < RoundUp(sz[p])
      <4>1. pgdir[p].pte[v] # None
        BY <1>3, <1>4, <3>1 DEF ExtentOK
      <4>2. view[p][v] # "nothing"
        BY <1>9, <4>1 DEF PrivateOK
      <4>3. build[p].pte[v] # None /\ mem[build[p].pte[v]] = view[p][v]
        BY <1>4, <1>5, <1>10, <3>1 DEF FrontOK, ForkData
      <4> QED
        BY <4>2, <4>3
    <3>2. CASE ~(v < RoundUp(sz[p]))
      <4>1. v >= RoundUp(sz[p])
        BY <1>3, <1>9, <3>2
      <4>2. pgdir[p].pte[v] = None /\ build[p].pte[v] = None
        BY <1>3, <1>4, <1>5, <3>2, <4>1 DEF ExtentOK, FrontOK
      <4>3. view[p][v] = "nothing"
        BY <1>9, <4>2 DEF PrivateOK
      <4> QED
        BY <4>2, <4>3
    <3> QED
      BY <3>1, <3>2
  <2> QED
    BY <1>2, <1>7, <1>8, <2>1 DEF PrivateOK
<1>12. PrivateOK(p)'
  BY <1>2, <1>4, <1>8, <1>9 DEF PrivateOK
<1>13. DataOK(p)' /\ DataOK(c)'
  BY <1>2, <1>4, <1>6, <1>8, <1>11, <1>12, NoData DEF NoTask
<1>14. ASSUME NEW q \in Procs, q # p, q # c PROVE DataOK(q)'
  <2>1. DataOK(q)
    BY DEF DataInv
  <2> QED
    BY <1>2, <1>8, <1>14, <2>1, DataKept
<1>15. \A g \in pipes : mem[g] = "pipe"
  BY DEF DataInv
<1> QED
  BY <1>2, <1>9, <1>13, <1>14, <1>15 DEF DataInv

\* A copy that fails leaves the parent its memory.
LEMMA ForkBadData ==
  ASSUME ShapeInv, UseInv, DataInv, NEW p \in Procs, fork_bad(p)
  PROVE  DataInv'
<1>1. PICK c, gs : c = task[p].child /\ gs = freevm(build[p]) \cup {fresh[p], kstack[c]}
  OBVIOUS
<1>2. /\ task[p].op = "fork" /\ kfree(gs, BuiltOnce(p))
      /\ build' = [build EXCEPT ![p] = NoSpace] /\ task' = [task EXCEPT ![p] = NoTask]
      /\ fresh' = [fresh EXCEPT ![p] = None] /\ UNCHANGED <<pgdir, sz, view, pipes>>
  BY <1>1 DEF fork_bad, Busy, gives_up, does
<1>3. MemTypeOK /\ TaskOK(p) /\ TaskTypeOK(task[p]) /\ ApartOK(p)
  BY AboutProcess
<1>4. c \in Procs /\ state[c] = "EMBRYO" /\ c # p /\ state[p] = "RUNNABLE"
  BY <1>1, <1>2, <1>3 DEF TaskOK, ForkOK, TaskTypeOK
<1>5. /\ PrivateOK(p) /\ \A g \in Pages : mem[g] # "nothing"
      /\ \A g \in PagesOf(pgdir[p]) \cup PagesOf(build[p]) : g \in Pages
  BY AboutData
<1>6. /\ \A g \in Pages : mem'[g] # "nothing"
      /\ \A g \in Pages : g \notin gs => mem'[g] = mem[g]
  BY <1>2, <1>5, Junk
<1>7. None \notin Pages
  BY TwoRanges
<1>8. \A g \in Pages : g \in gs => g \in PagesOf(build[p]) \/ g = fresh[p] \/ g \in Owned(c)
  BY <1>1, <1>4, <1>7, OwnedPages DEF PagesOf
<1>9. \A g \in Pages : g \in gs => g \in Owned(p) \/ g \in Owned(c)
  BY <1>7, <1>8, OwnedPages
<1>10. Owned(p) \cap Owned(c) = {} /\ PagesOf(pgdir[p]) \subseteq Owned(p)
  BY <1>4, OwnedPages DEF UseInv, Divided
<1>11. PagesOf(build[p]) \cap PagesOf(pgdir[p]) = {} /\ fresh[p] \notin PagesOf(pgdir[p])
  BY <1>2, <1>3 DEF ApartOK, Builders, PagesOf
<1>12. \A g \in PagesOf(pgdir[p]) : mem'[g] = mem[g]
  BY <1>5, <1>6, <1>8, <1>10, <1>11
<1>13. PrivateOK(p)'
  BY <1>2, <1>5, <1>12, PrivateKept
<1>14. /\ task'[p] = NoTask /\ fresh'[p] = None
       /\ \A q \in Procs : q # p => /\ build'[q] = build[q] /\ task'[q] = task[q]
                                    /\ fresh'[q] = fresh[q]
  BY <1>2, <1>3 DEF MemTypeOK
<1>15. DataOK(p)'
  BY <1>13, <1>14, NoData DEF NoTask
<1>16. ASSUME NEW q \in Procs, q # p PROVE DataOK(q)'
  <2>1. DataOK(q)
    BY DEF DataInv
  <2>2. ASSUME NEW g \in PagesOf(pgdir[q]) \cup PagesOf(build[q]) \cup ({fresh[q]} \ {None})
        PROVE  mem'[g] = mem[g]
    <3>1. g \in Pages /\ g \notin Owned(p)
      BY <1>16, OtherPages
    <3>2. CASE q = c
      <4>1. pgdir[c] = NoSpace /\ build[c] = NoSpace /\ fresh[c] = None
        BY <1>4, IdleSlot DEF ShapeInv, SlotsOK
      <4> QED
        BY <2>2, <3>2, <4>1, EmptySpace
    <3>3. CASE q # c
      <4>1. g \notin Owned(c)
        BY <1>4, <3>3, OtherPages
      <4> QED
        BY <1>6, <1>9, <3>1, <4>1
    <3> QED
      BY <3>2, <3>3
  <2>3. \A g \in PagesOf(pgdir[q]) \cup PagesOf(build[q]) \cup ({fresh[q]} \ {None}) : mem'[g] = mem[g]
    BY <2>2
  <2> QED
    BY <1>2, <1>14, <1>16, <2>1, <2>3, DataKept
<1>17. ASSUME NEW g \in pipes PROVE mem'[g] = "pipe"
  <2>1. g \in Pages /\ g \notin gs
    BY <1>4, <1>9, PipePages
  <2> QED
    BY <1>6, <2>1 DEF DataInv
<1> QED
  BY <1>2, <1>6, <1>15, <1>16, <1>17 DEF DataInv

\* exec writes to the space that it builds.
LEMMA ExecLoadData ==
  ASSUME ShapeInv, UseInv, DataInv, NEW p \in Procs, exec_load(p)
  PROVE  DataInv'
<1>1. PICK there : there = {build[p].pte[v] : v \in Filled(Head(task[p].prog))}
  OBVIOUS
<1>2. /\ task[p].op = "segment" /\ \E x : task' = [task EXCEPT ![p] = x]
      /\ mem' = [g \in Pages |-> IF g \in there THEN "program" ELSE mem[g]]
      /\ UNCHANGED <<pgdir, sz, view, build, pipes, fresh>> /\ ~(task[p].at <= task[p].last)
  BY <1>1 DEF exec_load, Busy, Mapping, Setting, does, procVars
<1>3. MemTypeOK /\ ApartOK(p)
  BY AboutProcess
<1>4. task'[p].op = "headers"
  BY <1>3 DEF exec_load, does, MemTypeOK
<1>5. /\ PrivateOK(p) /\ \A g \in Pages : mem[g] # "nothing"
      /\ \A g \in PagesOf(pgdir[p]) \cup PagesOf(build[p]) : g \in Pages
  BY AboutData
<1>6. \A g \in there : g = None \/ g \in PagesOf(build[p])
  BY <1>1, HeldPage DEF Filled
<1>7. PagesOf(build[p]) \cap PagesOf(pgdir[p]) = {} /\ None \notin Pages
  BY <1>2, <1>3, TwoRanges DEF ApartOK, Builders
<1>8. /\ \A g \in Pages : mem'[g] # "nothing"
      /\ \A g \in Pages : g \notin PagesOf(build[p]) => mem'[g] = mem[g]
  BY <1>2, <1>5, <1>6, <1>7
<1>9. PrivateOK(p)'
  <2>1. \A g \in PagesOf(pgdir[p]) : mem'[g] = mem[g]
    BY <1>5, <1>7, <1>8
  <2> QED
    BY <1>2, <1>5, <2>1, PrivateKept
<1>10. DataOK(p)'
  <2>1. fresh[p] = None
    BY <1>2, InExec DEF Executing
  <2> QED
    BY <1>2, <1>4, <1>9, <2>1, NoData
<1>11. \A g \in Pages : g \notin free /\ g \notin Owned(p) => mem'[g] = mem[g]
  BY <1>8, OwnedPages
<1>12. \A q \in Procs : q # p => task'[q] = task[q]
  BY <1>2, <1>3 DEF MemTypeOK
<1> QED
  BY <1>2, <1>8, <1>10, <1>11, <1>12, DataOfStep

\* exec that fails leaves the process its memory.
LEMMA ExecBadData ==
  ASSUME ShapeInv, UseInv, DataInv, NEW p \in Procs, exec_bad(p)
  PROVE  DataInv'
<1>1. /\ task[p].op \in Executing /\ kfree(freevm(build[p]) \cup {fresh[p]}, BuiltOnce(p))
      /\ build' = [build EXCEPT ![p] = NoSpace] /\ task' = [task EXCEPT ![p] = NoTask]
      /\ fresh' = [fresh EXCEPT ![p] = None] /\ UNCHANGED <<pgdir, sz, view, pipes>>
  BY DEF exec_bad, Fails, TooLong, Executing, gives_up, does, procVars
<1>2. MemTypeOK /\ ApartOK(p)
  BY AboutProcess
<1>3. /\ PrivateOK(p) /\ \A g \in Pages : mem[g] # "nothing"
      /\ \A g \in PagesOf(pgdir[p]) \cup PagesOf(build[p]) : g \in Pages
  BY AboutData
<1>4. /\ \A g \in Pages : mem'[g] # "nothing"
      /\ \A g \in Pages : g \notin freevm(build[p]) \cup {fresh[p]} => mem'[g] = mem[g]
  BY <1>1, <1>3, Junk
<1>5. /\ PagesOf(build[p]) \cap PagesOf(pgdir[p]) = {} /\ None \notin Pages
      /\ fresh[p] \notin PagesOf(pgdir[p])
  BY <1>1, <1>2, TwoRanges DEF ApartOK, Builders, Executing, PagesOf
<1>6. \A g \in Pages : g \notin PagesOf(build[p]) /\ g # fresh[p] => mem'[g] = mem[g]
  BY <1>4, <1>5 DEF PagesOf
<1>7. PrivateOK(p)'
  <2>1. \A g \in PagesOf(pgdir[p]) : mem'[g] = mem[g]
    BY <1>3, <1>5, <1>6
  <2> QED
    BY <1>1, <1>3, <2>1, PrivateKept
<1>8. /\ task'[p] = NoTask /\ fresh'[p] = None
      /\ \A q \in Procs : q # p => build'[q] = build[q] /\ task'[q] = task[q] /\ fresh'[q] = fresh[q]
  BY <1>1, <1>2 DEF MemTypeOK
<1>9. DataOK(p)'
  BY <1>7, <1>8, NoData DEF NoTask
<1>10. \A g \in Pages : g \notin free /\ g \notin Owned(p) => mem'[g] = mem[g]
  BY <1>5, <1>6, OwnedPages
<1> QED
  BY <1>1, <1>4, <1>8, <1>9, <1>10, DataOfStep

\* The new image holds what was loaded, zeroes and the arguments.
LEMMA ExecCommitData ==
  ASSUME ShapeInv, UseInv, DataInv, NEW p \in Procs, exec_commit(p)
  PROVE  DataInv'
<1>1. PICK t, guard, s : t = task[p] /\ guard = RoundUp(t.size) /\ s = build[p]
  OBVIOUS
<1>2. PICK old, new : /\ old = PagesOf(pgdir[p])
                      /\ new = [s EXCEPT !.user = s.user \ {guard}]
  OBVIOUS
<1>3. MemTypeOK /\ TaskOK(p) /\ ApartOK(p) /\ IsSpace(s) /\ UsedOnce(s)
  BY <1>1, AboutProcess
<1>4. new.pte = s.pte
  BY <1>2, <1>3 DEF IsSpace
<1>5. /\ t.op = "stack" /\ ~(t.at <= t.last)
      /\ mem' = [g \in Pages |-> IF g \in old THEN "junk"
                                 ELSE IF g = new.pte[guard + 1] THEN "stack" ELSE mem[g]]
      /\ pgdir' = [pgdir EXCEPT ![p] = new]
      /\ view' = [view EXCEPT ![p] = [v \in UPages |->
                    CASE v < guard -> mem[new.pte[v]] [] v = guard -> "zero"
                      [] v = guard + 1 -> "stack" [] OTHER -> "nothing"]]
      /\ build' = [build EXCEPT ![p] = NoSpace] /\ task' = [task EXCEPT ![p] = NoTask]
      /\ \E x : sz' = [sz EXCEPT ![p] = x]
      /\ UNCHANGED <<pipes, fresh>>
  <2>1. /\ t.op = "stack" /\ ~(t.at <= t.last)
        /\ build' = [build EXCEPT ![p] = NoSpace] /\ task' = [task EXCEPT ![p] = NoTask]
        /\ \E x : sz' = [sz EXCEPT ![p] = x]
        /\ UNCHANGED <<pipes, fresh>>
    BY <1>1 DEF exec_commit, Busy, Mapping, Setting, does
  <2>2. /\ mem' = [g \in Pages |-> IF g \in old THEN "junk"
                                   ELSE IF g = new.pte[guard + 1] THEN "stack" ELSE mem[g]]
        /\ pgdir' = [pgdir EXCEPT ![p] = new]
    BY <1>1, <1>2 DEF exec_commit, StackAt, PagesOf
  <2>3. view' = [view EXCEPT ![p] = [v \in UPages |->
                    CASE v < guard -> mem[new.pte[v]] [] v = guard -> "zero"
                      [] v = guard + 1 -> "stack" [] OTHER -> "nothing"]]
    BY <1>1, <1>2 DEF exec_commit, StackAt
  <2> QED
    BY <2>1, <2>2, <2>3
<1>6. /\ guard \in Nat /\ t.at = guard + 2 /\ FrontOK(s, guard + 2)
      /\ guard \in UPages /\ guard + 1 \in UPages
  BY <1>1, <1>5, StackThere
<1>7. /\ DataOK(p) /\ \A g \in Pages : mem[g] # "nothing"
      /\ \A g \in PagesOf(pgdir[p]) \cup PagesOf(build[p]) : g \in Pages
      /\ \A v \in UPages : v \in Nat
  BY AboutData
<1>8. mem[s.pte[guard]] = "zero"
  BY <1>1, <1>5, <1>6, <1>7 DEF DataOK, StackData
<1>9. /\ pgdir'[p].pte = s.pte /\ task'[p] = NoTask
      /\ \A g \in Pages : mem'[g] = IF g \in old THEN "junk"
                                    ELSE IF g = s.pte[guard + 1] THEN "stack" ELSE mem[g]
      /\ \A v \in UPages : view'[p][v] = CASE v < guard -> mem[s.pte[v]] [] v = guard -> "zero"
                                           [] v = guard + 1 -> "stack" [] OTHER -> "nothing"
      /\ \A q \in Procs : q # p => /\ pgdir'[q] = pgdir[q] /\ sz'[q] = sz[q] /\ view'[q] = view[q]
                                   /\ build'[q] = build[q] /\ task'[q] = task[q]
  BY <1>3, <1>4, <1>5 DEF MemTypeOK
<1>10. ASSUME NEW v \in UPages, v < guard + 2
       PROVE  /\ s.pte[v] # None /\ s.pte[v] \in Pages /\ s.pte[v] \notin old
              /\ v # guard + 1 => s.pte[v] # s.pte[guard + 1]
  <2>1. s.pte[v] # None
    BY <1>6, <1>10 DEF FrontOK
  <2>2. s.pte[v] \in PagesOf(build[p])
    BY <1>1, <2>1, HeldPage
  <2>3. PagesOf(build[p]) \cap old = {}
    BY <1>1, <1>2, <1>3, <1>5 DEF ApartOK, Builders
  <2> QED
    BY <1>3, <1>6, <1>7, <2>1, <2>2, <2>3 DEF UsedOnce
<1>11. ASSUME NEW v \in UPages
       PROVE  IF view'[p][v] = "nothing" THEN s.pte[v] = None
              ELSE s.pte[v] # None /\ mem'[s.pte[v]] = view'[p][v]
  <2>1. v \in Nat
    BY <1>7
  <2>2. CASE v < guard
    <3>1. v < guard + 2 /\ v # guard + 1
      BY <1>6, <2>1, <2>2
    <3>2. mem'[s.pte[v]] = mem[s.pte[v]] /\ s.pte[v] # None /\ s.pte[v] \in Pages
      BY <1>9, <1>10, <3>1
    <3>3. view'[p][v] = mem[s.pte[v]]
      BY <1>6, <1>9, <2>1, <2>2
    <3> QED
      BY <1>7, <3>2, <3>3
  <2>3. CASE v = guard
    <3>1. v < guard + 2 /\ v # guard + 1 /\ ~(v < guard)
      BY <1>6, <2>3
    <3>2. mem'[s.pte[v]] = mem[s.pte[v]] /\ s.pte[v] # None
      BY <1>9, <1>10, <3>1
    <3>3. view'[p][v] = "zero"
      BY <1>9, <2>3, <3>1
    <3> QED
      BY <1>8, <2>3, <3>2, <3>3
  <2>4. CASE v = guard + 1
    <3>1. v < guard + 2 /\ v # guard /\ ~(v < guard)
      BY <1>6, <2>4
    <3>2. mem'[s.pte[v]] = "stack" /\ s.pte[v] # None
      BY <1>9, <1>10, <2>4, <3>1
    <3>3. view'[p][v] = "stack"
      BY <1>9, <2>4, <3>1
    <3> QED
      BY <3>2, <3>3
  <2>5. CASE ~(v < guard + 2)
    <3>1. v # guard + 1 /\ v # guard /\ ~(v < guard)
      BY <1>6, <2>1, <2>5
    <3>2. s.pte[v] = None
      BY <1>6, <2>5 DEF FrontOK
    <3>3. view'[p][v] = "nothing"
      BY <1>9, <3>1
    <3> QED
      BY <3>2, <3>3
  <2> QED
    BY <1>6, <2>1, <2>2, <2>3, <2>4, <2>5
<1>12. PrivateOK(p)'
  BY <1>9, <1>11 DEF PrivateOK
<1>13. DataOK(p)'
  <2>1. fresh[p] = None
    BY <1>1, <1>5, InExec DEF Executing
  <2> QED
    BY <1>5, <1>9, <1>12, <2>1, NoData DEF NoTask
<1>14. \A g \in Pages : mem'[g] # "nothing"
  BY <1>7, <1>9
<1>15. \A g \in Pages : g \notin free /\ g \notin Owned(p) => mem'[g] = mem[g]
  <2>1. old \subseteq Owned(p) /\ PagesOf(build[p]) \subseteq Owned(p)
    BY <1>2, OwnedPages
  <2>2. s.pte[guard + 1] \in Owned(p)
    <3>1. guard + 1 < guard + 2
      BY <1>6
    <3>2. s.pte[guard + 1] # None
      BY <1>6, <3>1 DEF FrontOK
    <3> QED
      BY <1>1, <1>6, <2>1, <3>2, HeldPage
  <2> QED
    BY <1>9, <2>1, <2>2
<1> QED
  BY <1>5, <1>9, <1>13, <1>14, <1>15, DataOfStep

\* The kernel writes where the process sees it, and nowhere else.
LEMMA ArgptrData ==
  ASSUME ShapeInv, UseInv, DataInv, NEW p \in Procs, NEW i \in 0 .. KERNBASE - 1,
         NEW size \in 1 .. PGSIZE, argptr(p, i, size)
  PROVE  DataInv'
<1>1. PICK at, there : /\ at = i \div PGSIZE .. (i + size - 1) \div PGSIZE
                       /\ there = {pgdir[p].pte[v] : v \in at}
  OBVIOUS
<1>2. \A v \in at : v \in UPages /\ pgdir[p].pte[v] # None
  BY <1>1, ArgumentThere
<1>3. /\ Runs(p) /\ mem' = [g \in Pages |-> IF g \in there THEN p ELSE mem[g]]
      /\ view' = [view EXCEPT ![p] = [v \in UPages |-> IF v \in at THEN p ELSE view[p][v]]]
      /\ UNCHANGED <<pgdir, sz, task, build, pipes, fresh>>
  BY <1>1, <1>2 DEF argptr
<1>4. MemTypeOK /\ UsedOnce(pgdir[p])
  BY AboutProcess
<1>5. /\ PrivateOK(p) /\ \A g \in Pages : mem[g] # "nothing"
      /\ \A g \in PagesOf(pgdir[p]) \cup PagesOf(build[p]) : g \in Pages
  BY AboutData
<1>6. p # "nothing" /\ task[p].op = "none" /\ fresh[p] = None
  BY <1>3, MemoryAssumption, RunningProcess
<1>7. /\ \A v \in UPages : view'[p][v] = IF v \in at THEN p ELSE view[p][v]
      /\ \A q \in Procs : q # p => view'[q] = view[q]
  BY <1>3, <1>4 DEF MemTypeOK
<1>8. ASSUME NEW v \in UPages
      PROVE  IF view'[p][v] = "nothing" THEN pgdir[p].pte[v] = None
             ELSE pgdir[p].pte[v] # None /\ mem'[pgdir[p].pte[v]] = view'[p][v]
  <2>1. pgdir[p].pte[v] # None => pgdir[p].pte[v] \in Pages
    BY <1>5, HeldPage
  <2>2. CASE v \in at
    <3>1. pgdir[p].pte[v] \in there /\ pgdir[p].pte[v] # None
      BY <1>1, <1>2, <2>2
    <3> QED
      BY <1>3, <1>6, <1>7, <2>1, <2>2, <3>1
  <2>3. CASE v \notin at
    <3>1. pgdir[p].pte[v] # None => pgdir[p].pte[v] \notin there
      BY <1>1, <1>2, <1>4, <2>3 DEF UsedOnce
    <3>2. view'[p][v] = view[p][v]
      BY <1>7, <2>3
    <3>3. pgdir[p].pte[v] # None => mem'[pgdir[p].pte[v]] = mem[pgdir[p].pte[v]]
      BY <1>3, <2>1, <3>1
    <3> QED
      BY <1>5, <3>2, <3>3 DEF PrivateOK
  <2> QED
    BY <2>2, <2>3
<1>9. PrivateOK(p)'
  BY <1>3, <1>8 DEF PrivateOK
<1>10. DataOK(p)'
  BY <1>3, <1>6, <1>9, NoData
<1>11. \A g \in Pages : mem'[g] # "nothing"
  BY <1>3, <1>5, <1>6
<1>12. \A g \in Pages : g \notin free /\ g \notin Owned(p) => mem'[g] = mem[g]
  <2>1. there \subseteq Owned(p)
    BY <1>1, <1>2, HeldPage, OwnedPages
  <2> QED
    BY <1>3, <2>1
<1> QED
  BY <1>3, <1>7, <1>10, <1>11, <1>12, DataOfStep

\* A zombie that is waited for sees nothing any more.
LEMMA WaitData ==
  ASSUME ShapeInv, UseInv, DataInv, NEW c \in Procs, wait(c)
  PROVE  DataInv'
<1>1. PICK gs, once : /\ gs = freevm(pgdir[c]) \cup {kstack[c]}
                      /\ once = (UsedOnce(pgdir[c]) /\ kstack[c] \notin freevm(pgdir[c]) \ {None})
  OBVIOUS
<1>2. /\ state[c] = "ZOMBIE" /\ kfree(gs, once)
      /\ pgdir' = [pgdir EXCEPT ![c] = NoSpace]
      /\ sz' = [sz EXCEPT ![c] = 0] /\ view' = [view EXCEPT ![c] = Blank]
      /\ UNCHANGED <<task, build, pipes, fresh>>
  BY <1>1 DEF wait
<1>3. MemTypeOK
  BY AboutProcess
<1>4. task[c].op = "none" /\ fresh[c] = None
  BY <1>2, IdleSlot
<1>5. \A g \in Pages : mem[g] # "nothing"
  BY AboutData
<1>6. /\ \A g \in Pages : mem'[g] # "nothing"
      /\ \A g \in Pages : g \notin gs => mem'[g] = mem[g]
  BY <1>2, <1>5, Junk
<1>7. /\ pgdir'[c] = NoSpace /\ view'[c] = Blank
      /\ \A q \in Procs : q # c => pgdir'[q] = pgdir[q] /\ sz'[q] = sz[q] /\ view'[q] = view[q]
  BY <1>2, <1>3 DEF MemTypeOK
<1>8. PrivateOK(c)'
  BY <1>7, EmptySpace DEF PrivateOK, Blank
<1>9. DataOK(c)'
  BY <1>2, <1>4, <1>8, NoData
<1>10. \A g \in Pages : g \notin free /\ g \notin Owned(c) => mem'[g] = mem[g]
  <2>1. None \notin Pages
    BY TwoRanges
  <2>2. \A g \in Pages : g \in gs => g \in Owned(c)
    BY <1>1, <2>1, OwnedPages DEF PagesOf
  <2> QED
    BY <1>6, <2>2
<1> QED
  BY <1>2, <1>6, <1>7, <1>9, <1>10, DataOfStep

\* main, before there is a process.
LEMMA BootData ==
  ASSUME ShapeInv, UseInv, DataInv, kinit1 \/ startothers \/ kinit2
  PROVE  DataInv'
<1>1. UNCHANGED <<pgdir, sz, view, task, build, pipes, fresh>> /\ boot # "up"
  BY DEF kinit1, startothers, kinit2, procVars
<1>2. \A g \in Pages : mem[g] # "nothing"
  BY DEF DataInv
<1>3. \A g \in Pages : mem'[g] # "nothing"
  BY <1>2 DEF kinit1, startothers, kinit2
<1>4. ASSUME NEW q \in Procs PROVE DataOK(q)'
  <2>1. pgdir[q] = NoSpace /\ build[q] = NoSpace /\ fresh[q] = None
    BY <1>1, BootPages
  <2>2. DataOK(q)
    BY DEF DataInv
  <2>3. \A g \in PagesOf(pgdir[q]) \cup PagesOf(build[q]) \cup ({fresh[q]} \ {None}) : mem'[g] = mem[g]
    BY <2>1, EmptySpace
  <2> QED
    BY <1>1, <2>2, <2>3, DataKept
<1>5. pipes' = {}
  BY <1>1, BootPages
<1> QED
  BY <1>3, <1>4, <1>5 DEF DataInv

\* The first process sees initcode.
LEMMA UserinitData ==
  ASSUME ShapeInv, UseInv, DataInv, userinit
  PROVE  DataInv'
<1>1. PICK taken : taken = kallocs(SetupPages + 3)
  OBVIOUS
<1>2. PICK g : g = One(taken)
  OBVIOUS
<1>3. PICK table : table = One(taken \ {g})
  OBVIOUS
<1>4. PICK stack : stack = One(taken \ {g, table})
  OBVIOUS
<1>5. PICK s, new : /\ s = [NoSpace EXCEPT !.dir = taken \ {g, table, stack}]
                    /\ new = mappages(s, 0, g, table)
  OBVIOUS
<1>6. /\ boot = "userinit" /\ mem' = [mem EXCEPT ![g] = "initcode"]
      /\ pgdir' = [pgdir EXCEPT ![initproc] = new]
      /\ sz' = [sz EXCEPT ![initproc] = PGSIZE]
      /\ view' = [view EXCEPT ![initproc][0] = "initcode"]
      /\ UNCHANGED <<task, build, pipes, fresh>>
  BY <1>1, <1>2, <1>3, <1>4, <1>5 DEF userinit
<1>7. g \in free /\ g \in Pages
  <2>1. taken \subseteq free /\ g \in taken
    BY <1>1, <1>2, <1>3, <1>4, <1>6, FirstProcess
  <2> QED
    BY <2>1, FreePages
<1>8. initproc \in Procs /\ MemTypeOK /\ 0 \in UPages /\ None \notin Pages
  BY Sizes, UserPages, TwoRanges DEF ShapeInv
<1>9. task[initproc] = NoTask /\ pgdir[initproc] = NoSpace /\ fresh[initproc] = None
  BY <1>6, <1>8, BootPages
<1>10. PrivateOK(initproc) /\ \A x \in Pages : mem[x] # "nothing"
  BY <1>8, AboutData
<1>11. \A v \in UPages : view[initproc][v] = "nothing"
  BY <1>9, <1>10, EmptySpace DEF PrivateOK
<1>12. \A v \in UPages : new.pte[v] = IF v = 0 THEN g ELSE None
  <2>1. s.pte = [v \in UPages |-> None] /\ DOMAIN s = {"dir", "tabs", "pte", "user"}
    BY <1>5 DEF NoSpace
  <2>2. new.pte = [s.pte EXCEPT ![0] = g]
    BY <1>5, <2>1 DEF mappages
  <2> QED
    BY <2>1, <2>2
<1>13. /\ pgdir'[initproc] = new
       /\ \A v \in UPages : view'[initproc][v] = IF v = 0 THEN "initcode" ELSE "nothing"
       /\ \A q \in Procs : q # initproc => pgdir'[q] = pgdir[q] /\ sz'[q] = sz[q] /\ view'[q] = view[q]
       /\ mem'[g] = "initcode" /\ \A x \in Pages : x # g => mem'[x] = mem[x]
  BY <1>6, <1>7, <1>8, <1>11 DEF MemTypeOK
<1>14. PrivateOK(initproc)'
  BY <1>7, <1>8, <1>12, <1>13 DEF PrivateOK
<1>15. DataOK(initproc)'
  BY <1>6, <1>8, <1>9, <1>14, NoData DEF NoTask
<1>16. \A x \in Pages : mem'[x] # "nothing"
  BY <1>10, <1>13
<1>17. \A x \in Pages : x \notin free /\ x \notin Owned(initproc) => mem'[x] = mem[x]
  BY <1>7, <1>13
<1> QED
  BY <1>6, <1>8, <1>13, <1>15, <1>16, <1>17, DataOfStep

\* A new pipe, in a page of its own.
LEMMA PipeallocData ==
  ASSUME ShapeInv, UseInv, DataInv, NEW p \in Procs, pipealloc(p)
  PROVE  DataInv'
<1>1. UNCHANGED <<pgdir, sz, view, task, build, fresh>>
  BY DEF pipealloc, procVars
<1>2. /\ \A g \in Pages : mem[g] # "nothing"
      /\ \A g \in pipes : mem[g] = "pipe"
      /\ DOMAIN mem = Pages
  BY DEF DataInv, ShapeInv, MemTypeOK
<1>3. /\ \A g \in Pages : mem'[g] # "nothing"
      /\ \A g \in Pages : g \notin free => mem'[g] = mem[g]
      /\ \A g \in pipes' : mem'[g] = "pipe"
  <2>1. CASE free = {}
    BY <1>2, <2>1 DEF pipealloc
  <2>2. CASE free # {}
    <3>1. PICK x : x = kalloc /\ x \in free /\ x \in Pages
      BY <2>2, OnePage
    <3>2. mem' = [mem EXCEPT ![x] = "pipe"] /\ pipes' = pipes \cup {x}
      BY <2>2, <3>1 DEF pipealloc
    <3> QED
      BY <1>2, <3>1, <3>2
  <2> QED
    BY <2>1, <2>2
<1>4. ASSUME NEW q \in Procs PROVE DataOK(q)'
  <2>1. DataOK(q)
    BY DEF DataInv
  <2>2. \A g \in PagesOf(pgdir[q]) \cup PagesOf(build[q]) \cup ({fresh[q]} \ {None}) : mem'[g] = mem[g]
    BY <1>3, AboutData
  <2> QED
    BY <1>1, <2>1, <2>2, DataKept
<1> QED
  BY <1>3, <1>4 DEF DataInv

\* A pipe that goes leaves the other pages alone.
LEMMA PipecloseData ==
  ASSUME ShapeInv, UseInv, DataInv, NEW x \in Pages, pipeclose(x)
  PROVE  DataInv'
<1>1. /\ UNCHANGED <<pgdir, sz, view, task, build, fresh>> /\ x \in pipes
      /\ kfree({x}, TRUE) /\ pipes' = pipes \ {x}
  BY DEF pipeclose, procVars
<1>2. \A g \in Pages : mem[g] # "nothing"
  BY DEF DataInv
<1>3. /\ \A g \in Pages : mem'[g] # "nothing"
      /\ \A g \in Pages : g # x => mem'[g] = mem[g]
  <2>1. \A g \in Pages : g \notin {x} => mem'[g] = mem[g]
    BY <1>1, <1>2, Junk
  <2> QED
    BY <1>1, <1>2, <2>1, Junk
<1>4. ASSUME NEW q \in Procs PROVE DataOK(q)'
  <2>1. DataOK(q)
    BY DEF DataInv
  <2>2. x \notin Owned(q)
    BY <1>1, PipePages
  <2>3. ASSUME NEW g \in PagesOf(pgdir[q]) \cup PagesOf(build[q]) \cup ({fresh[q]} \ {None})
        PROVE  mem'[g] = mem[g]
    <3>1. g \in Owned(q)
      BY <2>3, OwnedPages
    <3>2. g \in Pages
      BY <2>3, AboutData
    <3> QED
      BY <1>3, <2>2, <3>1, <3>2
  <2> QED
    BY <1>1, <2>1, <2>3, DataKept
<1>5. ASSUME NEW g \in pipes' PROVE mem'[g] = "pipe"
  <2>1. g \in pipes /\ g # x
    BY <1>1
  <2>2. g \in Pages /\ mem[g] = "pipe"
    BY <2>1, PipePages DEF DataInv
  <2> QED
    BY <1>3, <2>1, <2>2
<1> QED
  BY <1>3, <1>4, <1>5 DEF DataInv

\* Every step keeps what the pages hold in order.
LEMMA DataNext ==
  ASSUME ShapeInv, UseInv, DataInv, [MemNext]_memVars
  PROVE  Wild' \/ DataInv'
<1>1. CASE UNCHANGED memVars
  <2>1. UNCHANGED <<mem, pgdir, sz, view, task, build, pipes, fresh>>
    BY <1>1 DEF memVars, procVars
  <2>2. ASSUME NEW q \in Procs PROVE DataOK(q)'
    <3>1. DataOK(q)
      BY DEF DataInv
    <3> QED
      BY <2>1, <3>1, DataKept
  <2> QED
    BY <2>1, <2>2 DEF DataInv
<1>2. CASE kinit1 \/ startothers \/ kinit2 \/ userinit
  BY <1>2, BootData, UserinitData
<1>3. ASSUME NEW p \in Procs,
             map_page(p) \/ map_table(p) \/ sbrk_end(p) \/ sbrk_undo(p) \/ fork_end(p)
             \/ fork_bad(p) \/ pipealloc(p) \/ wait(p)
      PROVE  DataInv'
  BY <1>3, MapPageData, SbrkEndData, SbrkUndoData, ForkEndData, ForkBadData, PipeallocData, WaitData
<1>4. ASSUME NEW p \in Procs, exec_load(p) \/ exec_commit(p) \/ exec_bad(p) PROVE DataInv'
  BY <1>4, ExecLoadData, ExecCommitData, ExecBadData
<1>5. ASSUME NEW p \in Procs,
             setup_page(p) \/ exec_header(p) \/ exec_stack(p) \/ switchuvm(p) \/ exit(p)
      PROVE  DataInv'
  BY <1>5, CallData
<1>6. ASSUME NEW p \in Procs, NEW n \in Sbrk, sbrk_grow(p, n) \/ sbrk_shrink(p, n) PROVE DataInv'
  BY <1>6, CallData, SbrkShrinkData
<1>7. ASSUME NEW p \in Procs, NEW c \in Procs, fork(p, c) PROVE DataInv'
  BY <1>7, CallData
<1>8. ASSUME NEW p \in Procs, NEW e \in Execs, exec(p, e.prog, e.args) PROVE DataInv'
  BY <1>8, CallData
<1>9. ASSUME NEW p \in Procs, NEW i \in 0 .. sz[p] - 1, NEW size \in 1 .. PGSIZE,
             argptr(p, i, size)
      PROVE  DataInv'
  <2>1. i \in 0 .. KERNBASE - 1
    BY <1>9, AddressBelow
  <2> QED
    BY <1>9, <2>1, ArgptrData
<1>10. ASSUME NEW p \in Procs, goes_on(p) \/ copyout_wild(p) PROVE Wild'
  BY <1>10, GoesWild
<1>11. ASSUME NEW g \in Pages, pipeclose(g) PROVE DataInv'
  BY <1>11, PipecloseData
<1> QED
  BY <1>1, <1>2, <1>3, <1>4, <1>5, <1>6, <1>7, <1>8, <1>9, <1>10, <1>11 DEF MemNext


\* A process finds in its memory what it, its program or, before fork, its parent put
\* there, and zeroes where it has grown, whatever the others do with their pages.
THEOREM MemoryPrivate == MemSpec => []MemoryIsPrivate
<1>1. MemInit => ShapeInv /\ UseInv /\ DataInv
  <2>1. ASSUME MemInit, NEW p \in Procs PROVE DataOK(p)
    <3>1. view[p] = Blank /\ pgdir[p] = NoSpace /\ task[p].op = "none" /\ fresh[p] = None
      BY <2>1 DEF MemInit, NoTask
    <3> QED
      BY <3>1, EmptySpace DEF DataOK, FreshData, PrivateOK, Blank
  <2>2. ASSUME MemInit PROVE pipes = {} /\ \A g \in Pages : mem[g] # "nothing"
    BY <2>2 DEF MemInit
  <2> QED
    BY <2>1, <2>2, ShapeInit DEF DataInv
<1>2. (Wild \/ (ShapeInv /\ UseInv /\ DataInv)) /\ [MemNext]_memVars
        => (Wild \/ (ShapeInv /\ UseInv /\ DataInv))'
  BY ShapeNext, DataNext, WildStays
<1>3. Wild \/ (ShapeInv /\ UseInv /\ DataInv) => MemoryIsPrivate
  BY DEF Wild, DataInv, DataOK, PrivateOK, MemoryIsPrivate
<1> QED
  BY <1>1, <1>2, <1>3, PTL DEF MemSpec
=============================================================================
