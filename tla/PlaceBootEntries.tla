-------------------------- MODULE PlaceBootEntries --------------------------
(***************************************************************************)
(* PlaceBootEntries and MakeBootEntryTexture of the two boot managers       *)
(* (BootManager2D/src/DemoGame.c, BootManager3D/src/DemoGame.c).  For every *)
(* boot entry of the configuration the function draws a random number,     *)
(* scans the map column by column and turns the escape cell with that      *)
(* ordinal into an exit: the cell gets a fresh texture, the one with the    *)
(* icon of the entry on top of it.  Game later takes the number of that     *)
(* texture for the number of the entry to boot.                             *)
(*                                                                         *)
(* A step is one iteration of a loop.  The map is a function of <<x, y>>    *)
(* where the code has Map[y * MapWidth + x].                                *)
(***************************************************************************)
EXTENDS Naturals, Sequences, FiniteSets

CONSTANTS
  MapWidth, MapHeight,   \* dimensions of the map
  Mazes,                 \* the maps MazeConfig.conf may hold
  bootable_start,        \* number of textures before the entries are placed
  MaxBootEntries,        \* bound on the boot entries of a configuration
  escapes,               \* the #define, 12: escape cells a map is said to have
  UnreadableIcons        \* entries whose icon ReadBMP cannot read

Cells == (0 .. MapWidth - 1) \X (0 .. MapHeight - 1)

\* A value of the map below 10 is floor (0) or wall; from 10 to the last
\* configured texture it is a wall that may become an exit.
IsEscape(cell) == cell >= 10 /\ cell < bootable_start

ASSUME SizeAssumption ==
  /\ MapWidth \in Nat \ {0}
  /\ MapHeight \in Nat \ {0}

\* bootable_start is positive: texture 0 is the floor.
ASSUME ConfigAssumption ==
  /\ bootable_start \in Nat \ {0}
  /\ MaxBootEntries \in Nat
  /\ escapes \in Nat
  /\ UnreadableIcons \subseteq Nat
  /\ Mazes \subseteq [Cells -> 0 .. bootable_start - 1]

VARIABLES
  Maze,              \* the map as it was read; never assigned
  BootEntriesCount,  \* boot entries of the configuration; never assigned
  Map,               \* the map, an argument the function modifies in place
  BootTextures,      \* appended to Textures, from index bootable_start on
  i, rand_index, escape_count, x, y,   \* the local variables
  place              \* "entry", "scan", "done", or "fault" after a trap

placeVars == <<Maze, BootEntriesCount, Map, BootTextures, i, rand_index, escape_count, x, y, place>>

Entries == 0 .. BootEntriesCount - 1

TexturesCount == bootable_start + Len(BootTextures)

EscapeCells(m) == {c \in Cells : IsEscape(m[c])}

(***************************************************************************)
(* The texture AddElement appends.  When ReadBMP fails, MakeBootEntryTexture *)
(* reports it and goes on with the uninitialised BootEntryIcon, so that the  *)
(* texture is garbage if the program survives (IconTrap is when it does not).*)
(***************************************************************************)
MakeBootEntryTexture(e, cell) ==
  [base |-> cell, entry |-> e,
   icon |-> IF e \in UnreadableIcons THEN "garbage" ELSE "icon"]

PlaceInit ==
  /\ Maze \in Mazes
  /\ BootEntriesCount \in 1 .. MaxBootEntries
  /\ Map = Maze
  /\ BootTextures = << >>
  /\ i = 0 /\ rand_index = 0 /\ escape_count = 0 /\ x = 0 /\ y = 0
  /\ place = "entry"

-----------------------------------------------------------------------------
\* Mutant of StartEntry: rand() % escapes, forgetting the cells already used.
StartEntry_AnyEscape ==
  /\ place = "entry"
  /\ i < BootEntriesCount
  /\ rand_index' \in 0 .. escapes - 1
  /\ escape_count' = 0 /\ x' = 0 /\ y' = 0
  /\ place' = "scan"
  /\ UNCHANGED <<Maze, BootEntriesCount, Map, BootTextures, i>>

\* Head of the loop on i: draw the ordinal of the escape cell to use.
StartEntry ==
  /\ place = "entry"
  /\ i < BootEntriesCount
  /\ i # escapes
  /\ rand_index' \in 0 .. escapes - i - 1
  /\ escape_count' = 0 /\ x' = 0 /\ y' = 0
  /\ place' = "scan"
  /\ UNCHANGED <<Maze, BootEntriesCount, Map, BootTextures, i>>

\* rand() % 0: the thirteenth entry of a configuration.
DivideByZero ==
  /\ place = "entry"
  /\ i < BootEntriesCount
  /\ i = escapes
  /\ place' = "fault"
  /\ UNCHANGED <<Maze, BootEntriesCount, Map, BootTextures, i, rand_index, escape_count, x, y>>

\* Column by column: y is the inner loop.
NextCell ==
  IF y + 1 < MapHeight
    THEN x' = x /\ y' = y + 1
    ELSE x' = x + 1 /\ y' = 0

\* The scan is at the escape cell whose ordinal was drawn.
AtDrawnCell ==
  /\ place = "scan"
  /\ x < MapWidth
  /\ IsEscape(Map[<<x, y>>])
  /\ escape_count = rand_index

\* A cell that is not an escape, or not the one drawn.
PassCell ==
  /\ place = "scan"
  /\ x < MapWidth
  /\ ~AtDrawnCell
  /\ escape_count' = IF IsEscape(Map[<<x, y>>]) THEN escape_count + 1 ELSE escape_count
  /\ NextCell
  /\ UNCHANGED <<Maze, BootEntriesCount, Map, BootTextures, i, rand_index, place>>

\* Mutant of MakeExit: the texture is made but *TexturesCount is not advanced.
MakeExit_NoAppend ==
  /\ AtDrawnCell
  /\ Map' = [Map EXCEPT ![<<x, y>>] = TexturesCount]
  /\ BootTextures' = BootTextures
  /\ escape_count' = escape_count + 1
  /\ NextCell
  /\ UNCHANGED <<Maze, BootEntriesCount, i, rand_index, place>>

\* The cell takes the number of the next texture, then that texture is made.
MakeExit ==
  /\ AtDrawnCell
  /\ Map' = [Map EXCEPT ![<<x, y>>] = TexturesCount]
  /\ BootTextures' = Append(BootTextures, MakeBootEntryTexture(i, Map[<<x, y>>]))
  /\ escape_count' = escape_count + 1
  /\ NextCell
  /\ UNCHANGED <<Maze, BootEntriesCount, i, rand_index, place>>

\* The uninitialised icon, dereferenced and freed, may trap instead.
IconTrap ==
  /\ AtDrawnCell
  /\ i \in UnreadableIcons
  /\ Map' = [Map EXCEPT ![<<x, y>>] = TexturesCount]
  /\ place' = "fault"
  /\ UNCHANGED <<Maze, BootEntriesCount, BootTextures, i, rand_index, escape_count, x, y>>

\* End of the scan: ++i.
EndScan ==
  /\ place = "scan"
  /\ x = MapWidth
  /\ i' = i + 1
  /\ place' = "entry"
  /\ UNCHANGED <<Maze, BootEntriesCount, Map, BootTextures, rand_index, escape_count, x, y>>

\* All the entries have been handled.
EndPlace ==
  /\ place = "entry"
  /\ i = BootEntriesCount
  /\ place' = "done"
  /\ UNCHANGED <<Maze, BootEntriesCount, Map, BootTextures, i, rand_index, escape_count, x, y>>

PlaceNext ==
  \/ StartEntry \/ DivideByZero \/ PassCell \/ MakeExit \/ IconTrap \/ EndScan \/ EndPlace

PlaceSpec == PlaceInit /\ [][PlaceNext]_placeVars /\ WF_placeVars(PlaceNext)

-----------------------------------------------------------------------------
\* The values of the state PlaceBootEntries works on.
PlaceTypeOK ==
  /\ Maze \in Mazes
  /\ BootEntriesCount \in 1 .. MaxBootEntries
  /\ Map \in [Cells -> Nat]
  /\ BootTextures \in Seq([base : Nat, entry : Nat, icon : {"icon", "garbage"}])
  /\ i \in 0 .. BootEntriesCount
  /\ place = "scan" => i < BootEntriesCount
  /\ rand_index \in Nat /\ escape_count \in Nat
  /\ x \in 0 .. MapWidth /\ y \in 0 .. MapHeight - 1
  /\ place \in {"entry", "scan", "done", "fault"}

\* Exits are cut into escape cells only: every other cell keeps the value of
\* the configuration, and no two exits share a texture.
OnlyEscapesBecomeExits ==
  \A c \in Cells :
    \/ Map[c] = Maze[c]
    \/ /\ IsEscape(Maze[c])
       /\ Map[c] \in bootable_start .. TexturesCount
       /\ \A d \in Cells \ {c} : Map[d] # Map[c]

\* Where an entry can be found on the map.
ExitsOf(e) == {c \in Cells : Map[c] = bootable_start + e}

HasEnoughEscapes(m) == Cardinality(EscapeCells(m)) >= escapes
EnoughEscapes == HasEnoughEscapes(Maze)

\* When the map has the escape cells that the #define promises, every entry of
\* the configuration has exactly one exit when the function returns, cut into an
\* escape cell, and the texture of that exit is made from the cell it replaces
\* and shows that entry.
EveryEntryHasItsExit ==
  place = "done" /\ EnoughEscapes =>
    /\ Len(BootTextures) = BootEntriesCount
    /\ \A e \in Entries :
         \E c \in EscapeCells(Maze) :
           /\ ExitsOf(e) = {c}
           /\ BootTextures[e + 1].entry = e
           /\ BootTextures[e + 1].base = Maze[c]

\* An entry keeps the exit it got: exits are never moved nor withdrawn.
ExitsAreKept ==
  [][\A c \in Cells : Map[c] >= bootable_start => Map'[c] = Map[c]]_placeVars
=============================================================================
