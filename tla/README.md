# UEFI games: a TLA+ verification project

The repository holds UEFI applications that hide the choice of an operating
system in a game (`Application/BootManager2D`, `BootManager3D`, `Maze`,
`Wordle`) and a UEFI loader with a copy of the xv6 kernel that it boots
(`Application/XV6`).  This directory models the parts of them whose behaviour is
hard to test, checks the models with TLC and proves the most important
properties with TLAPS.

## 1. Inventory

| Part | State it keeps | Operations | What is hard |
|---|---|---|---|
| `PlaceBootEntries`, `MakeBootEntryTexture` (2D and 3D `DemoGame.c`) | map, textures, loop variables | one random draw and one scan of the map per boot entry | numbers on the map mean floor, wall, escape cell or exit, and change while the scan runs; `rand() % (escapes - i)` |
| `Game` (2D) | position, screen, map value read last, result | draw, one step per key, fill | the local `MapValue` is not assigned on every path; drawing must follow the position over long walks |
| `Game` (3D) | position and direction as `double` | draw, move, rotate | the two coordinates are tested separately |
| `UefiMain`, `BootEntry`, `LocateFSPartitions` (2D) | boot entries, partitions, status | start-up in order, game, start of the loader | statuses that are ignored, two loops that count differently |
| `ParseConfigFile` and the other parsers (`Config.c`) | two passes over a file | one step per character | the second pass relies on the first one; index arithmetic |
| `ReadBMP`, `Graphics.c`, `Common.c` | pixels | reading, halving, blending | errors half-way |
| `Maze.c`, `Wordle.c` | map or word, position or attempts | key loop, guess loop | borders, hard-coded indices, marking of repeated letters |
| `xv6.c` | page range, boot parameters | load ELF, leave boot services | page range of several segments, stale memory map key |
| xv6 `log.c` | log header, counters, disk | `begin_op`, `log_write`, `end_op`, commit, recovery | concurrency, crashes, limits |
| xv6 `bio.c`, `sleeplock.c`, `ide.c`, `memide.c` | buffers, their locks, request queue | `bread`, `bwrite`, `brelse`, interrupt | recycling, pinned buffers, the queue shared with the interrupt |
| xv6 `proc.c`, `spinlock.c`, `trap.c` | process table, what each CPU runs | fork, exit, wait, kill, sleep, wakeup, yield, timer | lost wakeups, locks that are handed from thread to thread, nested interrupts |
| xv6 `pipe.c`, `console.c`, `kbd.c` | rings with wrapping indices | read, write, close, edit a line | sleepers at a closed end, wrap-around |
| xv6 `fs.c`, `sysfile.c` (names) | inode cache, directories | path walk, link, unlink, create, open | reference counts, lock order |
| xv6 `fs.c`, `file.c` (contents) | bitmap, block addresses, file table | read, write, truncate, dup, close | indirect blocks, full disk, writes in pieces |
| xv6 `kalloc.c`, `vm.c`, `exec.c` | free list, page tables | fork, exec, sbrk, wait | memory that runs out half-way |

Calls: `UefiMain` reads the configuration (`ParseConfigFile`), lists the
partitions (`LocateFSPartitions`), reads maze, textures and sprite, calls `Game`,
which calls `PlaceBootEntries` first, and passes the number that `Game` returns to
`BootEntry`.  The number is `Map[cell] - bootable_start`: it is right only if
`PlaceBootEntries` gave entry `e` the texture number `bootable_start + e`.  That
implicit agreement between two functions is the centre of the boot manager, and
of its model.  In the xv6 kernel, file system calls run between `begin_op` and
`end_op`, several of them share one transaction, and the last `end_op` commits it.

The hazards, each with its line and the properties that cover it, are in
`PROJECT.json`.

## 2. Modules

| Module | Models | Extends |
|---|---|---|
| `PlaceBootEntries` | `PlaceBootEntries`, `MakeBootEntryTexture` | |
| `Game2D` | `Game` of BootManager2D | `PlaceBootEntries` |
| `Labyrinth` | abstract game: what the player is promised | |
| `BootManager2D` | `UefiMain`, `BootEntry`, `LocateFSPartitions` | `Game2D` |
| `Game3D` | `Game` of BootManager3D | `PlaceBootEntries` |
| `ParseConfigFile`, `ConfigFiles` | the four parsers of `Config.c` | |
| `Maze`, `Wordle`, `Loader` | `Maze.c`, `Wordle.c`, `xv6.c` | |
| `Firmware` | the firmware: one application at a time | all of the above |
| `Log` | xv6 `log.c` with the buffers it pins and a disk | |
| `AtomicDisk` | abstract disk: what the log promises | |
| `Proc` | `proc.c`, `spinlock.c`, the timer part of `trap.c` | |
| `SleepWakeup` | what the rest of the kernel sees of `proc.c` | |
| `Disk` | `bio.c`, `sleeplock.c`, `ide.c`, `memide.c` | `SleepWakeup` |
| `Console`, `Pipe` | `console.c` with `kbd.c`, `pipe.c` | `SleepWakeup` |
| `Stream` | `cat | wc`: console, pipe and two processes | `Console`, `Pipe` |
| `FileSystem` | names and inodes: `fs.c`, `sysfile.c` | |
| `File` | contents and open files: `fs.c`, `file.c`, `sysfile.c` | |
| `Memory` | `kalloc.c`, `vm.c`, `exec.c`, `growproc` | |
| `*Proofs` | theorems and proofs about the module of that name; `FirmwareProofs` has those of all UEFI applications | that module |
| `MC*` | instances for TLC | that module |

Definitions keep the names of the source.  A definition `X_Suffix` that a comment
calls a mutant of `X` is no part of the model: it is the code with a plausible bug,
and the property named for it in `PROJECT.json` fails when it replaces `X`.

### The UEFI applications

**PlaceBootEntries.**  The map is a function of `<<x, y>>`; textures below
`bootable_start` are configured, the sequence `BootTextures` holds those appended.
`StartEntry` is the head of the loop on `i` with the random draw, `PassCell` and
`MakeExit` are an iteration of the scan, `EndScan` is `++i`.  `DivideByZero` is the
trap of `rand() % 0`.  An icon that cannot be read leaves a garbage texture
(`MakeExit`) or traps (`IconTrap`): the code goes on with an uninitialised pointer,
and both are possible.

**Game2D.**  `Placing` runs `PlaceBootEntries` inside `Game`; `DrawMap` is the first
drawing; an iteration of the key loop is `Walk`, `Bump`, `NoMove` or `Escape`,
each ending in `CheckExit`, the test at the end of the loop.  `UninitValues` is what
the build may leave in `MapValue` when no case of the switch assigns it.

**Game3D.**  The position is in units of a fraction of a cell, the direction one of a
ring, so that diagonal steps near corners occur as they do with the doubles of the
code.  `Rays` are the cells a ray may read; a read outside of the map is undefined
behaviour.  The property asks for maps whose border is closed and where no exit of
the border can be passed diagonally from the floor (`WallsAreSafe`).

**BootManager2D.**  `StartUp` lists the calls of `UefiMain` before the game, which
succeed, fail and return (`Checked`), or fail unnoticed (`Unchecked`: the files of
`ParseConfigFile` and `ParseSprite` are used unread, and what follows is undefined).  `LocateFSPartitions` stores a partition at the index of its handle in
an array with one element per hard drive; `WriteOutOfBounds` and `ReadNullGuid`
are what may go wrong with that.

**ParseConfigFile, ConfigFiles.**  Characters are the classes that the parsers tell
apart; a value is the range of positions copied.  The actions are the branches of the
loops; the reference definitions (`ParsedAsWritten`, `ConfigReadAsWritten`) read the
file as lines, fields and tables.

**Maze, Wordle.**  `DrawMaze` is everything before the key loop: `ParseMazeFile`,
`ParseActor` and the drawing; `Step` and `StayPut` are an iteration.  A cell read
outside of the map may be anything.  `TypeLetter` and `MarkWord` are the loops of
Wordle.  Both games take `BootOption[3]` without looking at the number of options.  The
word of Wordle is the same at every start (`GetRandom`), where the repository's README
promises a random one; `GuessedMeansBooted` asks for any line of the file.

**Loader.**  Memory is a function from addresses, every page has an owner.  The
firmware may take a page at any time before the jump, up to `DriverPages` of them
(`FirmwareAllocates`), which makes the memory map key stale; statuses that the code
ignores leave it going on (`granted`, `pool`, `fits`, `quiet` record which of them were
good).  `FreeBuffer` also writes the parameters of the jump: into their page, whether it
was granted or not, and through `boot->gdt_desc`, which nothing sets.  That pointer takes
any of `UnsetTargets`; what it hits is remembered (`wild`), and where there is no memory
the run is undefined.

**Firmware** starts one of the applications, which then has the machine to itself;
it is what the run `firmware` checks, so that the applications share one instance.

### The xv6 kernel

**Log.**  A step is a critical section of `log.lock` or one `bwrite`.  `modify` is
any system call that reads a block, changes it and is about to call `log_write`;
it writes at most `MAXOPBLOCKS` different blocks, which is what `param.h` says of a
file system call and `File` checks of `filewrite`.  `log_write_test` is the part of
`log_write` before `acquire(&log.lock)`, `log_write` the part after it.  `evict` is
`bget` recycling a buffer that is neither held nor dirty.  `Crash` keeps the disk and
loses everything else, at any moment, recovery included.  `write_log_overrun` is a
block written beyond the log; the model stops there.  With `memide.c` the disk is
memory and does not survive; the module is about the build with `ide.c`.

**Proc.**  Every CPU runs the scheduler or the kernel thread of a process; `at` and
`pc` say where each of them is.  A step ends where a lock is taken or released or
where an interrupt may come.  `ncli`, `intena` and the interrupt flag are kept per
CPU as `pushcli` and `popcli` do, the interrupt of the timer may come whenever the
flag is set, and `ptable.lock` is handed from thread to thread through `swtch`.  The
programs are arbitrary sequences of fork, exit, wait, kill and sleep.

**SleepWakeup** is the interface of `proc.c` that the drivers use: sleeping gives up
the lock in the same step.  `Proc` shows that the code achieves this
(`NoLostWakeup`).

**Disk.**  Buffers with `refcnt`, `valid`, `dirty` and a holder, the list of `bcache`,
the queue of `ide.c` and a disk that works for one command at a time and raises an
interrupt.  `memdisk` chooses the driver.  `last` remembers what was stored, for
`ReadsLatest`.  A member of `Procs` is one use of a buffer: a process has two at a time in
`write_log` and `install_trans` and three in `bmap` and `itrunc` while `balloc` or `bfree`
reads the bitmap, and is then two or three members, which may go on in more orders than
the process can.  `panic` is a state of its own: `NBUF` equals `LOGSIZE`, and 31 of the 64
processes that read at a time reach it.

**Console, Pipe, Stream.**  `uint` and `puint` are the unsigned ints of the indices,
of a few values so that they wrap around.  `Console` has the line editor, the
screen of `cgaputc` and the keyboard state of `kbdgetc`; `cprintf` is a character that
others print at the cursor: the listing that control-P asks for, messages of the kernel, and
`consolewrite` of any process.  `own` counts what was echoed of the line since then.  `Pipe`
splits `pipewrite` and `piperead` at their sleeps.  `Stream` connects them: one process
reads the console and writes the pipe, the other reads the pipe, and either may be
killed at any time.

**FileSystem.**  A step ends where a process may have to wait for the lock of an inode
or where `icache.lock` lets another one see a reference count; the calls are spread over
actions named after the function and the place in it (`create_ip`, `link_dp`,
`unlink_ip`...).  `iput` is three steps, as in the code: `iput_last` locks the inode and
reads its count, `iput_free` frees it while others use the cache, `iput_ref` takes the
reference back.  The disk at the start is any of `Images`, which are consistent; a cache with
more than `NINODE` inodes in use is the panic of `iget`, where the model stops.  Paths may
name `.` and `..`.  A process may follow `..` out of a directory that was removed, to an
inode that is free or another one by then: `strayed` remembers that somebody did.

**File.**  A step is one transaction under the lock of an inode, or one critical
section of `ftable.lock` or `icache.lock`.  `bmap`, `itrunc`, `readi` and `writei` work on
block addresses with one level of indirection; `logged` counts the blocks of a transaction,
with those that making or removing a name logs of the directory (`Linked`, `Unlinked`).  A
last close is two steps, `fileclose_inode` and `iput_ref`.  `contents` remembers what was
written.

**Memory.**  An address space is its directory, its tables and a function from user
pages to physical ones; pipes have their pages.  A step has one call of `kalloc`, which may
find no page: for the directory and each table of the kernel (`setup_page`), for a page
(`map_page`), which waits in `fresh`, and for the page table that it needs (`map_table`).
`kfree` of a page that is free is remembered as `"twice"`.  `view` remembers what each process
should see.  In two places the code lets somebody write to any page, and the model stops
there (`"wild"`): `copyout_wild`, an argument of `exec` so long that `sp` wraps around to where
no page table is, and `goes_on`, a process after `sbrk(-sz)`, whose translations are still
those of the pages it freed (`stale`) unless its processor runs another process first
(`switchuvm`).

## 3. Runs

Passing runs:

| Run | Bounds | Shows |
|---|---|---|
| `game2d` | 3 x 3 maps, escape cells in the corners, one entry or two | entries get their exits; the screen shows the map; `Game` implements `Labyrinth` |
| `firmware` | the 2D manager with two entries and every list of one to three handles; the 3D game in a corridor with eight directions; every file of up to 5 characters and of 6 lines for the parser; mazes of 12 to 25 cells; words of three letters and two attempts; four kernels in eight pages, one page taken by the firmware meanwhile | what is booted is what was chosen, reached or guessed; files are read as written; the kernel is entered intact and alone |
| `log` | 2 processes, 3 blocks, 2 values, `LOGSIZE` = 3 | the log implements `AtomicDisk` across crashes, up to a step that overruns it; reservations suffice; no lost wakeup; two of the three panics are unreachable; a commit ends |
| `proc` | 2 CPUs, 3 slots, pids up to 3, one tick | one CPU per stack; the preconditions of `sched`; no lost wakeup; every zombie can be collected |
| `disk` | 3 uses of buffers, 3 blocks, 2 buffers, one pinned | readers see what was stored last; queue and disk agree; `bget` panics only when every buffer is dirty or in use |
| `stream` | rings of 2 and 1, indices of 4 and 2 values, 4 characters typed or printed | echo and buffer agree, also after others have printed; nobody sleeps in vain; nothing is lost; finished lines arrive |
| `fs` | 2 processes, 4 inodes, 3 in the cache, 2 names, the paths `/a`, `/a/b` and `..`, 4 calls, a disk with the root alone and a full one | references balance; nothing in use is freed until somebody has strayed; links cover names |
| `file` | 2 processes, 2 inodes, 7 blocks, 5 calls | reads return what was written; no block is lost; transactions fit; counts are descriptors |
| `memory` | 2 processes, pages of 2 bytes, 18 of them, 3 calls, 8 programs, arguments of three lengths | every page has one use and is freed once; memory is private; no panic, up to the two wild steps |

Why the bounds are enough.  The labyrinths have walls next to the start, exits that can
be reached and exits that cannot, and more escape cells than entries.  Six lines are one
more than a boot entry has fields.  Two processes suffice for every interleaving of a
system call with a commit, and three blocks fill the log, so that one of them has to wait
for space.  `LOGSIZE = 3 * MAXOPBLOCKS` and `nlog = LOGSIZE` as in the source.  Three slots are
init, a child and a grandchild that is orphaned; pid 3 is the last one, so that the
table fills up.  There are more blocks than buffers, so that buffers are recycled.  Rings
are shorter than what is typed.  The three uses of `disk` are one more than the buffers, so
that the panic is reached.  The full disk of `fs` has a directory in a directory, so that
`..` of a removed one is reached with four calls, and no inode left; the empty one
has room for what is made.  Seven blocks are fewer than two files of the
largest size, so that the disk fills up; a file has a direct block and four indirect ones,
and a write of eight bytes takes two transactions.  The memory has fewer pages than two
processes ask for, so that every allocation fails in some behaviour, that of a page table
after its page included; one argument meets the guard page and one wraps around.

Violations, each a disagreement between the code and a document, a comment or an assertion
of the repository (details under `findings` in `PROJECT.json`):

| Run | What TLC finds |
|---|---|
| `chosen_volume` | a handle that is on no hard drive pushes a partition out of the array: the chosen system is not found |
| `log_overrun` | two processes pass the space test of `log_write` together: a commit writes over the first inode block |
| `fs_deadlock` | `create` holds the new inode while `iput` locks the directory again; an `unlink` of the new name holds the directory and waits for the inode |

Further disagreements that were met while modelling, with the step of the model that
takes them (also under `findings`):

* The word of Wordle is not random (`GetRandom`), which the repository's README says it is.
* `boot->gdt_desc` of the loader is never set and written through (`FreeBuffer`).
* `..` of a removed current directory reaches `panic("ilock: no type")` (`strayed`).
* Two overlapping calls of `iput` for an unlinked inode may both see the reference of the
  other, and neither frees it (`iput_last`).
* `uva2ka` does not look whether `walkpgdir` found a page table (`copyout_wild`).
* `growproc(-sz)` frees everything, reports failure and does not reload the page table
  (`goes_on`).

The properties are stated up to these steps and not for what follows from them.

Deadlock checking is off where the system may stop: a game that has returned, a
program that has ended or trapped, processes that have used up their calls or wait for
a key.

**Fairness.**  The UEFI programs are single threaded: a step that needs no input is
taken (weak fairness of the program's own steps); that a key is ever pressed or
that a started system exits is not assumed.  In `Log` only the process that commits
is assumed to be scheduled; system calls may last for ever and nothing forces
recovery or a crash.  In `Stream` the two programs are scheduled as long as one of them
can run, which the scheduler's round over the table justifies; nobody has to type.

## 4. Theorems

For every value of the constants, from the named assumptions of the modules only:

* `FirmwareProofs`, the placing of boot entries: `PlaceTyped`, `EntriesPlaced`, `OnlyEscapesChange`,
  `ExitsKept`.  The inductive invariant `PlaceInv` adds to the types that every
  texture made is on exactly one cell, an escape cell of the configuration, and a
  count: the escape cells left and the exits cut are together at least `escapes`,
  and as long as the scan has not met the drawn cell, the escape cells ahead of it,
  `escape_count` and `i` add up to at least `escapes`.  Since `rand_index + i` is less
  than `escapes`, the scan meets the drawn cell before it ends.  Without the
  count the drawn ordinal might lie beyond the last escape cell, which is what happens on
  a map with fewer escape cells than the `#define`.
* `FirmwareProofs`, the parser: `ParseTyped`, `NoOverrun`, `CopiesStayInLine`,
  `FileIsParsed`.  `ParseInv`
  relates the number of blank lines before the position to `result_size` in the
  first pass and to `cur_struct` in the second, and says that the last `cur_char`
  characters are on the current line.  `InvStored` adds what the second pass has done at
  position `k`: `write` is set exactly behind a `": "` of the line, `cur_char` counts from there
  when it is the only one, and the lines that end in front of `k`, and only they, have their
  values stored; no other line of the file goes to the same field.
* `FirmwareProofs`, the mazes: `MazeIsWalked`, `MapIsSeenAndWalked`.  `MazeInv` says that the
  maze in memory is that of the file and that at a key the player is in a corridor and not
  at the end, hence, by `EdgeIsClosed`, neither in the last row nor in the last column, which
  the tests of the border would let pass.  `Game3Inv` says of the 3D game that the player is
  inside the border, and on floor or in a wall near to a corner of it whose sides are not at
  the border.  The last part is needed because a diagonal step may enter a wall at its
  corner: there each coordinate can only move back to the side it is near to, since a move is
  at most a third of a cell, so that the border stays out of reach.  Both properties speak of a
  recursive function (`Corridors`, `Rays`).  It is unfolded with a lemma on recursion over a
  range of numbers (`RangeRecursion`), which follows from the least number of a set
  (`LeastNumber`).  `Corridors` is closed after as many steps as there are cells, because every
  step but the last adds a cell.
* `LogProofs`: `LogTyped`, `ReservationSuffices`, `ProtocolPanicsUnreachable`,
  `NoLostWakeup`, `RoomyLogNeverOverruns`.  `LogInv` says that `log.outstanding` is
  the number of processes in a system call, that one process commits at a time and
  with no call active, that without calls and commits the log is empty, and that
  what a call has used is logged.  The blocks reserved are counted as pairs of a
  process and an index above the number of blocks it has used: `begin_op` adds at
  most `MAXOPBLOCKS` of them, a `log_write` of a new block takes one away.  The last
  theorem says what would repair `log_overrun`: `nlog > LOGSIZE`.
* `LogProofs`, the refinement: `LogImplementsAtomicDisk`, `RoomyLogIsAtomic`.  `DataInv`
  (`LogDataCorrect`) adds to `LogInv` what the data need: the log names every block once
  (`InvOnce`); during recovery the cache holds what is on the disk (`InvRecovery`); a block
  whose cached copy differs from the disk is dirty or held, hence never recycled, and a
  dirty one is in the log (`InvPinned`); the log on disk fills with the blocks of the cache
  before the header names them, and the header is there only while a commit installs
  (`InvCommitData`).  The disk of the abstract
  specification is the disk overlaid with the blocks that the header on disk names, so
  that the one write of the header is the abstract `Commit` and installing, recovering
  and clearing the log are stutters.
* `ProcProofs`: `OneCpuPerStack`, `SchedCannotPanic`, `NoWakeupLost`,
  `EveryProcessHasReaper`.  `ProcInv` says for every place of a CPU which locks it holds
  (`LockInv`), what `ncli`, `intena` and the interrupt flag are there, which slot the CPU
  runs, that a slot in state RUNNING has exactly one CPU whenever `ptable.lock` is free, and
  which CPU has it in transit when the lock is not (`CpuInv`); that the slot of an
  unfinished fork is the parent's alone (`ForkInv`); that parents are live (`FamilyInv`);
  and that a process about to sleep still has what it will sleep for (`WaitInv`, `TickInv`).
* `DiskProofs`: `DiskStructure`, `QueueAndDiskAgree`, `BlocksReadLatest`,
  `PanicMeansFull`.  `StructInv` says that a block is in one buffer, that the reference
  count of a buffer is the number of processes that use it, where a process is with its
  buffer locked, and that a queued buffer is held by the process that waits for it.  `DataInv`
  relates a valid buffer to the last contents stored, and the disk to every block that no
  dirty buffer has.  `BlocksReadLatest` assumes a disk without read
  errors: after one `ide.c` marks the buffer valid with what it held before.
  `PanicMeansFull`: where nothing can be recycled every buffer has references or is dirty;
  by `StructInv` a reference is a process that uses the buffer, and the dirty buffers that
  nobody uses are blocks of the transaction, at most `MaxPinned` (`PinInv`).
* `FirmwareProofs`, games, main program and loader: `ScreenAlwaysShowsMap`, `GameIsLabyrinth`, `ChosenIsStarted`,
  `GuessBoots`, `KernelArrivesIntact`, `KernelIsAlone`.  `GameIsLabyrinth` is the refinement
  of `Labyrinth` without its fairness; it uses `PlaceInv` for the exits: the map has one cell for
  every entry and is otherwise as it was read.  It has two hypotheses,
  that the maps have the escape cells of the `#define` and that an unassigned `MapValue`
  holds no exit, without which it does not hold.  `MainInv` says what is in the array
  of partitions when `BootEntry` searches it, and that an image is started last.  `WordInv` says that no guess before
  the last was the word.  `LoadInv` says that the file stays in its buffer until the last
  segment is copied, that the segments lie in the pages granted, and that the segments
  copied so far are in place: two segments of a kernel are apart, so that a copy does not
  undo another.  The parameters of the jump are in no page of the kernel, and what the unset
  pointer hits is excepted (`wild`).  The pages are counted from the first header, rounded down to a page; the
  proof showed that this covers the kernel only if it starts with a page, as that of
  `kernel.ld` does, and `KernelIsSpanned` says so.
* `StreamProofs`: `NoSleepInVain`, `EchoIsLine`.  `SleepInv` says who holds the lock of the
  pipe at each place of `pipewrite` and `piperead` and that a sleeper has left the lock with
  the ring full, or empty and the other end open; the other process wakes it on every way
  from there to the release of the lock, or is on its way out (`Leaving`).  `EchoInv` says
  that the line is the last part of what is in the ring, that the ring is not overfull, that
  no newline is in the line, so that control-U erases all of it, and `EchoShowsLine`, of the part
  of the line that was typed since others printed.  Both rest
  on lemmas about `%`: indices that wrap around differ by what was put in between, and
  since `UINT` is a multiple of `INPUT_BUF` the slots do not jump where the index wraps.  The proof
  needs a screen that holds the ring after it has scrolled (`ConsoleAssumption`; 128 characters
  and 23 rows of 80 in the code): otherwise the start of the line scrolls away.
* `MemoryProofs`: `EveryPageUsedOnce`, `NoPanic`, `MemoryPrivate`.  `ShapeInv` says where each
  call is: the pages of a process are those below `sz` (none after `sbrk(-sz)`, which empties
  the space and leaves `sz`: such a process makes no call without going wild), those of a space that
  `fork`, `exec` or `sbrk` builds are those below the next one to map, and what that call has
  checked still holds.  `UseInv` divides the pages given to the allocator between the free list,
  the kernel, the pipes and the processes, with the page that a call has and has not mapped
  (`fresh`); no page is twice in a space, and a space being built is apart
  from the one in use unless `sbrk` extends it.  The property alone is not inductive: what a
  failing call gives back is known only from how far it has come.  `DataInv` says what
  the pages of a half-built space hold: zeroes where it grows, in `fork` the parent's pages
  so far, a cleared guard page under a new stack.  The three theorems are proved up to
  `goes_on` and `copyout_wild`, after which nothing holds of the pages.
* `FileSystemProofs`: `ReferencesAreBalanced`, `NothingUsedAfterFree`, `LinksCoverAllNames`.
  `RefInv` counts the references to an inode as pairs of a process and a pointer: its current
  directory, its open file, and the pointers of the call it is in, which depend on how far the
  call has come.  `CallInv` says which locks a call holds there (`LockOK`), that what it points
  to is allocated (`AliveOK`) and of the right kind.  `LinkInv` says that `nlink` is at least the
  number of what it stands for: names, subdirectories, calls that have counted a link and not
  written its name, or cleared a name and not taken its link, and the root itself.  `NoUseAfterFree`
  needs all three: `iput` frees an inode with one reference and no links, the reference is its
  own, and without links no name leads there.  `LastInv` carries this over the window in which
  `iput` has let `icache.lock` go: the inode is locked, no name and no pointer of another call
  leads to it, so that nobody can take a reference meanwhile.  The last two theorems hold as long as
  nobody has strayed.  While nobody has, a step that follows `..` comes from a directory that its
  parent still names, and a free inode names nothing (`DotInv`), so that the parent is
  allocated.  The proof showed that links do not count names exactly: a directory made in a directory that was
  removed meanwhile keeps a link for ever.  `LinksCoverNames` says what holds, and in every
  state instead of between calls only.
* `FileProofs`: `DescriptorsAreCounted`.  `FileInv` counts the descriptors of a file as pairs of
  a process and a descriptor, and what holds an inode or an end of a pipe as one set, the open
  files and the last closes that have let `ftable.lock` go (`Handles`); the open ends of a pipe
  are in one-to-one correspondence with what holds them; an entry is unused exactly if its
  type is `FD_NONE`, so that a call that fails and closes the entry it was given closes
  nothing else; and a process that does not exist has nothing open, so that fork may copy
  every descriptor.
  `DiskStaysConsistent`, `EveryCallFitsTheLog`, `ReadIsWhatWasWritten`.  `ContentInv` takes the block
  numbers of an inode and of its indirect block as one row of a table, with a slot for every
  block of the file and one for the indirect block (`Table`): no block number is in two slots, the
  bitmap marks the blocks that are in one (`TableFits`), and the byte `at` of a file is in the block
  of the slot `at \div BSIZE` (`FileHeld`).  The same is kept by the copy of the disk that a
  transaction works on (`CopiesOK`).  `balloc` gives a block that is in no slot, so that `bmap` fills
  an empty slot and changes the bytes of no file (`BmapMaps`); a turn of `writei` changes one
  block of its own file (`WriteBlockWrites`), and `Progress` is the invariant of its loop: the bytes
  written so far, and at most two blocks logged for every turn, one for a first block that is not
  written from its start, besides the indirect block and its bit.  With the inode this gives
  the `2 * b + 4` blocks from which `max` is computed; a call that makes or removes a file
  adds what it logs of the directory.  A write between two transactions does
  not hold the inode: `WriteOK` says that its descriptor is still open, and with `FileInv` that
  a last close by another process cannot be of its file.

The assumptions on the constants are those that the code makes: sizes are positive,
the log has room for one system call, a program header has its part of the file and
room for it (`LoaderAssumption`), `words.txt` is long enough for the word that is taken
(`WordAssumption`), a labyrinth and a sprite have two lines and the screen has a pixel for every
column and row (`MazeAssumption`), a move of the 3D game is at most a third of a cell (a twentieth
in the code) and its first cell is not at the border (`MoveAssumption`), a null pointer is no
value (`FilesAssumption`), there are finitely many processes (`DiskAssumption`, `FSAssumption`, `FileAssumption`) and names,
a path is a sequence of names and the lock of an inode tells a process from nobody (`FSAssumption`),
the disk at the start is consistent (`ImagesAssumption`), the argument of
`sbrk` is an `int` and program headers are 32-bit (`MemoryAssumption`), there is enough memory to
boot (`BootAssumption`), a transaction may log a write of one block (`MAXOPBLOCKS` at least 6,
`FileAssumption`) and, when a file is removed, the inode, every bitmap block, and a block and the
inode of the directory (`BitmapAssumption`; the code has one bitmap block and `MAXOPBLOCKS` 10).

Only model-checked:

* liveness (`GameOverLeadsToEnd`, `CommitEnds`, `LinesArrive`, the fairness of `Labyrinth`),
  which the proof system does not reach;
* `ConfigReadAsWritten` and `NothingLost`, which compare sequences that a fold or a filter over a
  file or a stream makes.

## 5. Not modelled

* Pixels, colours, positions on the screen, the arithmetic of ray casting, bitmaps
  (`BMPReader.c`, `Graphics.c`); the text of messages and the formatting of `cprintf`.
* The main program of BootManager3D, which is that of BootManager2D; memory that a UEFI
  application leaks.
* What the processor makes of the descriptor table that `xv6.c` builds; interrupt
  controllers, segment registers, `bootmain.c`, assembly.
* What happens after `..` of a removed directory was followed, after a stale translation was
  used and after `copyout` has gone wild; `mknod`, `fstat`, the blocks that `mkdir` logs, and
  faults of the disk (a failed read is marked valid).
* The user programs of xv6 but for `cat` and `wc`, and `usertests.c`.

The hazards in `PROJECT.json` that no property covers say why.

## 6. Plan

The modules were written from the boot manager outwards: the placing of boot entries and the
game, the main program, then the other applications; in the kernel the log first, then processes,
the drivers, names and files, memory.  The proofs followed in the same order; every safety
property of the runs is proved but `ConfigReadAsWritten` and `NothingLost`.  What is left is these two
comparisons with a reference definition, the blocks of directories as contents of files, and
read faults of the disk.
