------------------------------- MODULE Game3D -------------------------------
(***************************************************************************)
(* Game of BootManager3D/src/DemoGame.c: place the boot entries, then draw   *)
(* what the player sees and read a key, until the player stands in an exit   *)
(* or presses escape.                                                       *)
(*                                                                         *)
(* A position, a double in the code, is a number of units, CellUnits to a    *)
(* cell, and the direction is one of a ring of vectors; a move is one vector *)
(* long and the code looks two vectors ahead.  A ray is any staircase of     *)
(* cells in its quadrant: more rays than the code can cast.                  *)
(***************************************************************************)
EXTENDS PlaceBootEntries, Integers

CONSTANTS
  CellUnits,    \* units in a cell: 20 moves in the code
  Directions,   \* ring of directions, a sequence of <<dx, dy>>
  Start3,       \* cell of the player at the start: <<1, 17>>
  NO_ENTRY      \* ESCAPE_ENTRY

\* A move is at most a third of a cell, and the map reaches around the player's first
\* cell.
ASSUME MoveAssumption ==
  /\ CellUnits \in Nat \ {0}
  /\ Directions \in Seq(Int \X Int) /\ Directions # << >>
  /\ \A k \in 1 .. Len(Directions) :
       /\ 3 * Directions[k][1] \in -CellUnits .. CellUnits
       /\ 3 * Directions[k][2] \in -CellUnits .. CellUnits
  /\ Start3 \in (1 .. MapWidth - 2) \X (1 .. MapHeight - 2)

VARIABLES
  posX, posY,   \* position of the player in units
  dir,          \* index of dirX, dirY in Directions
  entry3,       \* EntryToBoot
  game3         \* "place", "draw", "key", "fill", "returned", "undefined"

game3Only == <<posX, posY, dir, entry3, game3>>
game3Vars == <<placeVars, game3Only>>

Game3Init ==
  /\ PlaceInit
  /\ posX = Start3[1] * CellUnits + CellUnits \div 2
  /\ posY = Start3[2] * CellUnits + CellUnits \div 2
  /\ dir = 1
  /\ entry3 = NO_ENTRY
  /\ game3 = "place"

-----------------------------------------------------------------------------
\* The conversion to int truncates towards zero.
CellAt(a) == IF a < 0 THEN -((-a) \div CellUnits) ELSE a \div CellUnits

\* Map[y * MapWidth + x]: a column beyond the map is a cell of another row.
Index(c) == c[2] * MapWidth + c[1]
OnMap(c) == Index(c) \in 0 .. MapWidth * MapHeight - 1
MapAt(c) == Map[<<Index(c) % MapWidth, Index(c) \div MapWidth>>]

Placing3 ==
  /\ game3 = "place"
  /\ PlaceNext
  /\ UNCHANGED game3Only

StartDrawing ==
  /\ game3 = "place" /\ place = "done"
  /\ game3' = "draw"
  /\ UNCHANGED <<placeVars, posX, posY, dir, entry3>>

PlayerCell == <<CellAt(posX), CellAt(posY)>>

\* Where rays of a quadrant go in their n-th step; a ray ends in the first cell, after
\* its own, that is not floor.
Onward(step, n, cells) ==
  LET open == {c \in cells : OnMap(c) /\ (n = 1 \/ MapAt(c) = 0)}
  IN  {<<c[1] + step[1], c[2]>> : c \in open} \cup {<<c[1], c[2] + step[2]>> : c \in open}

\* The cells that rays of a quadrant may visit.
Rays(step) ==
  LET visited[n \in 0 .. MapWidth + MapHeight] ==
        IF n = 0 THEN {PlayerCell} ELSE Onward(step, n, visited[n - 1])
  IN  UNION {visited[n] : n \in 0 .. MapWidth + MapHeight}

\* The floor, the ceiling and a column of wall for every ray.  A ray that leaves
\* the map reads outside of the array.
DrawFrame ==
  /\ game3 = "draw"
  /\ game3' \in IF \A step \in {-1, 1} \X {-1, 1} : \A c \in Rays(step) : OnMap(c)
                  THEN {"key"} ELSE {"key", "undefined"}
  /\ UNCHANGED <<placeVars, posX, posY, dir, entry3>>

\* Mutant of MayEnter: an escape cell that is no exit can be entered.
MayEnter_AnyEscape(value) == value = 0 \/ value >= 10

MayEnter(value) == value = 0 \/ value >= bootable_start

\* The end of an iteration: an exit ends the game.
CheckExit3(c, ready_to_boot) ==
  IF OnMap(c)
    THEN IF MapAt(c) >= bootable_start
           THEN entry3' = MapAt(c) - bootable_start /\ game3' = "fill"
           ELSE entry3' = entry3 /\ game3' = IF ready_to_boot THEN "fill" ELSE "draw"
    ELSE entry3' = entry3 /\ game3' = "undefined"

\* SCAN_UP and SCAN_DOWN: the two coordinates are tested one at a time, from the
\* position before the move, and moved together.
MoveBy(sign) ==
  /\ game3 = "key"
  /\ LET dx == sign * Directions[dir][1]
         dy == sign * Directions[dir][2]
         nextY == <<CellAt(posX), CellAt(posY + 2 * dy)>>
         nextX == <<CellAt(posX + 2 * dx), CellAt(posY)>> IN
       IF OnMap(nextX) /\ OnMap(nextY)
         THEN /\ posY' = IF MayEnter(MapAt(nextY)) THEN posY + dy ELSE posY
              /\ posX' = IF MayEnter(MapAt(nextX)) THEN posX + dx ELSE posX
              /\ CheckExit3(<<CellAt(posX'), CellAt(posY')>>, FALSE)
         ELSE game3' = "undefined" /\ UNCHANGED <<posX, posY, entry3>>
  /\ UNCHANGED <<placeVars, dir>>

\* SCAN_LEFT, SCAN_RIGHT, and with a turn of 0 any other key.
Turn(by) ==
  /\ game3 = "key"
  /\ dir' = 1 + ((dir - 1 + by) % Len(Directions))
  /\ CheckExit3(PlayerCell, FALSE)
  /\ UNCHANGED <<placeVars, posX, posY>>

Escape3 ==
  /\ game3 = "key"
  /\ CheckExit3(PlayerCell, TRUE)
  /\ UNCHANGED <<placeVars, posX, posY, dir>>

Return3 ==
  /\ game3 = "fill"
  /\ game3' = "returned"
  /\ UNCHANGED <<placeVars, posX, posY, dir, entry3>>

Game3Next ==
  \/ Placing3 \/ StartDrawing \/ DrawFrame
  \/ \E sign \in {-1, 1} : MoveBy(sign)
  \/ \E by \in {-1, 0, 1} : Turn(by)
  \/ Escape3 \/ Return3

-----------------------------------------------------------------------------
Border == {c \in Cells : c[1] \in {0, MapWidth - 1} \/ c[2] \in {0, MapHeight - 1}}

Beside(c) == {<<c[1] + 1, c[2]>>, <<c[1] - 1, c[2]>>} \cap Cells
Above(c) == {<<c[1], c[2] + 1>>, <<c[1], c[2] - 1>>} \cap Cells

\* The player starts on floor, the border is closed, and no escape cell of it opens on
\* a corridor that runs along the border, where a diagonal step would enter the wall
\* beside the exit.
WallsAreSafe ==
  /\ Maze[Start3] = 0
  /\ \A c \in Border : Maze[c] # 0
  /\ \A c \in Cells \ Border : Maze[c] = 0 =>
       \/ \A d \in Border \cap Beside(c) : ~IsEscape(Maze[d])
       \/ \A d \in Above(c) : Maze[d] # 0 /\ ~IsEscape(Maze[d])
  /\ \A c \in Cells \ Border : Maze[c] = 0 =>
       \/ \A d \in Border \cap Above(c) : ~IsEscape(Maze[d])
       \/ \A d \in Beside(c) : Maze[d] # 0 /\ ~IsEscape(Maze[d])

\* On such a map no move and no ray leads out of the array, the player enters the
\* border through exits only, and the entry that is returned is that of the exit
\* the player stands in.
SeesAndWalksTheMap ==
  WallsAreSafe =>
    /\ game3 # "undefined"
    /\ PlayerCell \in Cells \ Border \/ MapAt(PlayerCell) >= bootable_start
    /\ game3 = "returned" =>
         entry3 = (IF MapAt(PlayerCell) >= bootable_start
                     THEN MapAt(PlayerCell) - bootable_start ELSE NO_ENTRY)
=============================================================================
