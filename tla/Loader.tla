------------------------------- MODULE Loader -------------------------------
(***************************************************************************)
(* The xv6 loader (Application/XV6/xv6.c): read the kernel file, reserve the *)
(* pages of the kernel, copy its segments, leave the boot services and jump. *)
(*                                                                         *)
(* Memory is a function of addresses; the byte at offset k of the file is k, *)
(* so that every byte tells where it came from.  The firmware, which is      *)
(* external, owns some of the pages and grants the free ones.                *)
(***************************************************************************)
EXTENDS Integers, Sequences, FiniteSets

CONSTANTS
  PageSize,       \* 4096
  PageCount,      \* pages of physical memory
  FirmwarePages,  \* pages the firmware uses
  ParametersPage, \* the page of parameters_address
  BootOffsets,    \* offsets of entry, entry_addr and gdt in struct boot
  UnsetTargets,   \* sets of bytes where the never assigned boot->gdt_desc may point
  DriverPages,    \* bound: pages that the firmware takes while the loader runs
  FileSize,       \* size of the kernel file
  Kernels         \* program headers the file may have: sequences of records

\* What a linker writes: every header with its part of the file, and room for it.
ASSUME LoaderAssumption ==
  /\ PageSize \in Nat \ {0} /\ PageCount \in Nat /\ FileSize \in Nat \ {0}
  /\ ParametersPage \in Nat /\ DriverPages \in Nat
  /\ Kernels \subseteq Seq([type : Nat, paddr : Nat, off : Nat, filesz : Nat, memsz : Nat,
                          align : Nat \ {0}])
  /\ \A kernel \in Kernels :
       /\ kernel # << >>
       /\ \A n \in 1 .. Len(kernel) :
            /\ kernel[n].filesz <= kernel[n].memsz
            /\ kernel[n].off + kernel[n].filesz <= FileSize

Pages == 0 .. PageCount - 1
Addresses == 0 .. PageCount * PageSize - 1
PageOf(a) == a \div PageSize

\* What memory held before, the byte that SetMem writes, and those of struct boot.
Old == -1
Zero == -2
Params == -3

VARIABLES
  headers,        \* program headers; never assigned
  memory,         \* [Addresses -> content]
  owner,          \* [Pages -> {"free", "firmware", "driver", "params", "buffer", "kernel"}]
  buffer_address, \* where LoadFile put the file
  pages_start, page_count,  \* the pages asked for
  granted,        \* AllocatePages(AllocateAddress) of the kernel succeeded
  ph,             \* header the copying loop is at
  wild,           \* bytes written through boot->gdt_desc: history
  mapVersion,     \* changes whenever the memory map does
  mapSize, MapSize, \* descriptors of the map, and of the buffer for them
  pool,           \* AllocatePool of that buffer succeeded
  MapKey,         \* version returned by GetMemoryMap
  fits,           \* the second GetMemoryMap succeeded
  quiet,          \* the map has not changed since
  bootServices,   \* ExitBootServices has not succeeded
  loader          \* where UefiMain is

imageVars == <<headers, memory, buffer_address, pages_start, page_count, granted, ph, wild>>
keyVars == <<MapSize, pool, MapKey, fits, bootServices>>

loaderVars == <<imageVars, owner, mapVersion, mapSize, keyVars, quiet, loader>>

LoaderInit ==
  /\ headers \in Kernels
  /\ memory = [a \in Addresses |-> Old]
  /\ owner = [p \in Pages |-> IF p \in FirmwarePages THEN "firmware" ELSE "free"]
  /\ buffer_address = 0 /\ pages_start = 0 /\ page_count = 0 /\ granted = FALSE /\ ph = 1
  /\ wild = {}
  /\ mapVersion = 0 /\ mapSize = 1 /\ MapSize = 0 /\ pool = FALSE /\ MapKey = 0
  /\ fits = FALSE /\ quiet = FALSE
  /\ bootServices = TRUE
  /\ loader = "parameters"

-----------------------------------------------------------------------------
IsFree(ps) == ps \subseteq Pages /\ \A p \in ps : owner[p] = "free"
Give(ps, user) == [p \in Pages |-> IF p \in ps THEN user ELSE owner[p]]

\* One page at a fixed address; the status is printed.
AllocateParameters ==
  /\ loader = "parameters"
  /\ owner' = IF IsFree({ParametersPage}) THEN Give({ParametersPage}, "params") ELSE owner
  /\ mapVersion' = mapVersion + 1
  /\ loader' = "LoadFile"
  /\ UNCHANGED <<imageVars, mapSize, keyVars, quiet>>

FilePageSize == (FileSize + PageSize - 1) \div PageSize

PagesAt(p, n) == p .. p + n - 1

\* LoadFile: pages for the file anywhere, then the file.
LoadFile ==
  /\ loader = "LoadFile"
  /\ \E p \in Pages :
       /\ IsFree(PagesAt(p, FilePageSize))
       /\ owner' = Give(PagesAt(p, FilePageSize), "buffer")
       /\ buffer_address' = p * PageSize
  /\ memory' = [a \in Addresses |->
       IF a \in buffer_address' .. buffer_address' + FileSize - 1 THEN a - buffer_address'
       ELSE memory[a]]
  /\ mapVersion' = mapVersion + 1
  /\ loader' = "range"
  /\ UNCHANGED <<headers, pages_start, page_count, granted, ph, wild, mapSize, keyVars, quiet>>

\* LoadFile returns one of its errors; UefiMain prints it and uses the address.
LoadFileFails ==
  /\ loader = "LoadFile"
  /\ loader' = "undefined"
  /\ UNCHANGED <<imageVars, owner, mapVersion, mapSize, keyVars, quiet>>

AlignUp(a, align) == ((a + align - 1) \div align) * align

\* Mutant of PagesNeeded: an incomplete last page is not counted.
PagesNeeded_Truncated(h) == (AlignUp(h.paddr + h.memsz, h.align) - h.paddr) \div PageSize

\* The page range comes from the first header, whatever its type: the loop that
\* would widen it for the others skips exactly the segments to be loaded.
PagesNeeded(h) == ((AlignUp(h.paddr + h.memsz, h.align) - h.paddr) \div PageSize) + 1

\* AllocatePages at that address; the status is printed.
AllocateKernel ==
  /\ loader = "range"
  /\ pages_start' = headers[1].paddr
  /\ page_count' = PagesNeeded(headers[1])
  /\ LET wanted == PagesAt(PageOf(pages_start'), page_count') IN
       /\ granted' = IsFree(wanted)
       /\ owner' = IF granted' THEN Give(wanted, "kernel") ELSE owner
  /\ mapVersion' = mapVersion + 1
  /\ loader' = "copy"
  /\ UNCHANGED <<headers, memory, buffer_address, ph, wild, mapSize, keyVars, quiet>>

\* CopyMem and SetMem of a segment, granted or not.
CopySegment ==
  /\ loader = "copy" /\ ph <= Len(headers)
  /\ LET h == headers[ph] IN
       memory' = IF h.type # 1 THEN memory
         ELSE [a \in Addresses |->
                 IF a \in h.paddr .. h.paddr + h.filesz - 1
                   THEN memory[buffer_address + h.off + (a - h.paddr)]
                 ELSE IF a \in h.paddr + h.filesz .. h.paddr + h.memsz - 1 THEN Zero
                 ELSE memory[a]]
  /\ ph' = ph + 1
  /\ UNCHANGED <<headers, owner, buffer_address, pages_start, page_count, granted, wild, mapVersion,
                 mapSize, keyVars, quiet, loader>>

\* The bytes of struct boot that are assigned, if there is memory at its address.
ParameterBytes ==
  {a \in Addresses : PageOf(a) = ParametersPage /\ a % PageSize \in BootOffsets}

\* The file is freed and the parameters of the jump are written, whether their page
\* was granted or not; the descriptor of the GDT goes where boot->gdt_desc, which is
\* what memory held, points: outside of memory, or into what runs, it ends the run.
FreeBuffer ==
  /\ loader = "copy" /\ ph > Len(headers)
  /\ owner' = [p \in Pages |-> IF owner[p] = "buffer" THEN "free" ELSE owner[p]]
  /\ wild' \in UnsetTargets
  /\ memory' = [a \in Addresses |-> IF a \in ParameterBytes \cup wild' THEN Params ELSE memory[a]]
  /\ mapVersion' = mapVersion + 1
  /\ loader' \in IF wild' \subseteq Addresses THEN {"mapSize", "undefined"} ELSE {"undefined"}
  /\ UNCHANGED <<headers, buffer_address, pages_start, page_count, granted, ph, mapSize, keyVars,
                 quiet>>

\* GetMemoryMap without a buffer returns the size that it would take.
GetMapSize ==
  /\ loader = "mapSize"
  /\ MapSize' = mapSize
  /\ loader' = "pool"
  /\ UNCHANGED <<imageVars, owner, mapVersion, mapSize, pool, MapKey, fits, quiet, bootServices>>

\* AllocatePool for the map changes the map, and may make it larger; or it fails,
\* which is not tested.
AllocateMapPool ==
  /\ loader = "pool"
  /\ \/ /\ pool' = TRUE
        /\ mapVersion' = mapVersion + 1
        /\ mapSize' \in {mapSize, mapSize + 1}
     \/ pool' = FALSE /\ UNCHANGED <<mapVersion, mapSize>>
  /\ loader' = "map"
  /\ UNCHANGED <<imageVars, owner, MapSize, MapKey, fits, quiet, bootServices>>

\* Mutant of GetMemoryMap: the pool is allocated after it.
GetMemoryMap_BeforePool ==
  /\ loader = "map"
  /\ fits' = (pool /\ MapSize >= mapSize)
  /\ MapKey' \in IF fits' THEN {mapVersion - 1} ELSE {MapKey, mapVersion - 1}
  /\ quiet' = TRUE
  /\ loader' = "exit"
  /\ UNCHANGED <<imageVars, owner, mapVersion, mapSize, MapSize, pool, bootServices>>

\* GetMemoryMap into that pool; when there is none, or it is too small, the key
\* may not be set.
GetMemoryMap ==
  /\ loader = "map"
  /\ fits' = (pool /\ MapSize >= mapSize)
  /\ MapKey' \in IF fits' THEN {mapVersion} ELSE {MapKey, mapVersion}
  /\ quiet' = TRUE
  /\ loader' = "exit"
  /\ UNCHANGED <<imageVars, owner, mapVersion, mapSize, MapSize, pool, bootServices>>

\* A timer or a driver of the firmware takes a page of its own, at any time before
\* the jump: the map changes, and may need one descriptor more.
FirmwareAllocates ==
  /\ loader \notin {"kernel", "undefined"}
  /\ Cardinality({p \in Pages : owner[p] = "driver"}) < DriverPages
  /\ \E p \in Pages : owner[p] = "free" /\ owner' = Give({p}, "driver")
  /\ mapVersion' = mapVersion + 1
  /\ mapSize' \in {mapSize, mapSize + 1}
  /\ quiet' = FALSE
  /\ UNCHANGED <<imageVars, keyVars, loader>>

\* ExitBootServices succeeds only with the current key; the jump follows in
\* either case.
ExitBootServices ==
  /\ loader = "exit"
  /\ bootServices' = (MapKey # mapVersion)
  /\ loader' = "kernel"
  /\ UNCHANGED <<imageVars, owner, mapVersion, mapSize, MapSize, pool, MapKey, fits, quiet>>

LoaderNext ==
  \/ AllocateParameters \/ LoadFile \/ LoadFileFails \/ AllocateKernel \/ CopySegment
  \/ FreeBuffer \/ GetMapSize \/ AllocateMapPool \/ GetMemoryMap \/ FirmwareAllocates
  \/ ExitBootServices

-----------------------------------------------------------------------------
Segments == {headers[n] : n \in {m \in 1 .. Len(headers) : headers[m].type = 1}}
BytesOf(h) == h.paddr .. h.paddr + h.memsz - 1

\* The segments are apart, and lie between the start of the first one, which is
\* that of a page, and its end, rounded up to its alignment: the kernel that
\* kernel.ld makes.
KernelIsSpanned ==
  LET first == headers[1] IN
  /\ first.paddr % PageSize = 0
  /\ \A h \in Segments :
       BytesOf(h) \subseteq first.paddr .. AlignUp(first.paddr + first.memsz, first.align) - 1
  /\ \A g, h \in Segments : g # h => BytesOf(g) \cap BytesOf(h) = {}

\* When the firmware granted the pages, the kernel is entered with every segment
\* as it is in the file, zeros behind it, all of it in the pages granted, and the
\* pages that the firmware had as they were: of both, only what the unset pointer
\* hits is lost, and of the firmware's, the parameters when it had their page.
KernelIntact ==
  loader = "kernel" /\ granted /\ KernelIsSpanned =>
    /\ \A h \in Segments, k \in 0 .. PageCount * PageSize :
         h.paddr + k \notin wild =>
           /\ k < h.filesz => memory[h.paddr + k] = h.off + k
           /\ k \in h.filesz .. h.memsz - 1 => memory[h.paddr + k] = Zero
    /\ \A h \in Segments : \A a \in BytesOf(h) : owner[PageOf(a)] = "kernel"
    /\ \A a \in Addresses \ (ParameterBytes \cup wild) :
         owner[PageOf(a)] \in {"firmware", "params"} => memory[a] = Old

\* When the map fitted and the firmware was quiet, the boot services have ended
\* before the kernel runs.
KernelRunsAlone ==
  loader = "kernel" /\ fits /\ quiet => ~bootServices
=============================================================================
