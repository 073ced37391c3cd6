------------------------------- MODULE Game2D -------------------------------
(***************************************************************************)
(* Game of BootManager2D/src/DemoGame.c: place the boot entries, draw the    *)
(* labyrinth, then read keys until the player walks into an exit or presses  *)
(* escape.  The result is the number of the entry to boot, or ESCAPE_ENTRY.  *)
(*                                                                         *)
(* A pixel block of the screen is the texture drawn there and whether the    *)
(* sprite is on top of it.                                                  *)
(***************************************************************************)
EXTENDS PlaceBootEntries

CONSTANTS
  StartX, StartY,  \* CurX and CurY at the start: 1 and 17 in the code
  UninitValues,    \* what the build may leave in MapValue when no case sets it
  ESCAPE_ENTRY     \* MAX_UINTN: no entry was chosen

Start == <<StartX, StartY>>

\* The player starts on the floor, and MAX_UINTN is the number of no entry.
ASSUME StartAssumption ==
  /\ Start \in Cells
  /\ \A m \in Mazes : m[Start] = 0
  /\ UninitValues \subseteq Nat
  /\ ESCAPE_ENTRY \notin Nat

Keys == {"SCAN_UP", "SCAN_DOWN", "SCAN_LEFT", "SCAN_RIGHT"}

VARIABLES
  CurX, CurY,    \* cell of the player
  screen,        \* what Blt has drawn at each cell; Black before and after
  EntryToBoot,   \* result of Game
  game           \* "place", "key", "fill", "returned"

gameOnly == <<CurX, CurY, screen, EntryToBoot, game>>
gameVars == <<placeVars, gameOnly>>

Cur == <<CurX, CurY>>

Black == [texture |-> 0, sprite |-> FALSE, drawn |-> FALSE]
Picture(c, sprite) == [texture |-> Map[c], sprite |-> sprite, drawn |-> TRUE]

GameInit ==
  /\ PlaceInit
  /\ CurX = StartX /\ CurY = StartY
  /\ screen = [c \in Cells |-> Black]
  /\ EntryToBoot = ESCAPE_ENTRY
  /\ game = "place"

-----------------------------------------------------------------------------
\* The call of PlaceBootEntries, step by step.
Placing ==
  /\ game = "place"
  /\ PlaceNext
  /\ UNCHANGED gameOnly

\* The two loops that draw every cell, the sprite on top of the first one.
DrawMap ==
  /\ game = "place"
  /\ place = "done"
  /\ screen' = [c \in Cells |-> Picture(c, c = Cur)]
  /\ game' = "key"
  /\ UNCHANGED <<placeVars, CurX, CurY, EntryToBoot>>

\* The cell a key leads to, and the test that it is on the map.
Target(key) ==
  CASE key = "SCAN_UP"    -> <<CurX, CurY - 1>>
    [] key = "SCAN_DOWN"  -> <<CurX, CurY + 1>>
    [] key = "SCAN_LEFT"  -> <<CurX - 1, CurY>>
    [] key = "SCAN_RIGHT" -> <<CurX + 1, CurY>>

AtBorder(key) ==
  CASE key = "SCAN_UP"    -> CurY = 0
    [] key = "SCAN_DOWN"  -> CurY = MapHeight - 1
    [] key = "SCAN_LEFT"  -> CurX = 0
    [] key = "SCAN_RIGHT" -> CurX = MapWidth - 1

\* The end of an iteration of the key loop: MapValue decides about the exit.
CheckExit(MapValue, Escaped) ==
  IF MapValue >= bootable_start
    THEN EntryToBoot' = MapValue - bootable_start /\ game' = "fill"
    ELSE /\ EntryToBoot' = EntryToBoot
         /\ game' = IF Escaped THEN "fill" ELSE "key"

\* Mutant of Blocked: the wall test of an earlier version, without exits.
Blocked_NoWalls(MapValue) == MapValue # 0 /\ MapValue < 10

Blocked(MapValue) == MapValue # 0 /\ MapValue < bootable_start

\* Mutant of Walk: the cell left behind is not drawn again.
Walk_NoRedraw(key) ==
  /\ game = "key"
  /\ ~AtBorder(key)
  /\ LET new == Target(key) IN
       /\ ~Blocked(Map[new])
       /\ screen' = [screen EXCEPT ![new] = Picture(new, TRUE)]
       /\ CurX' = new[1] /\ CurY' = new[2]
       /\ CheckExit(Map[new], FALSE)
  /\ UNCHANGED placeVars

\* An arrow key towards the floor or an exit: the cell left is drawn without
\* the sprite, the new one with it.
Walk(key) ==
  /\ game = "key"
  /\ ~AtBorder(key)
  /\ LET new == Target(key) IN
       /\ ~Blocked(Map[new])
       /\ screen' = [screen EXCEPT ![Cur] = Picture(Cur, FALSE),
                                   ![new] = Picture(new, TRUE)]
       /\ CurX' = new[1] /\ CurY' = new[2]
       /\ CheckExit(Map[new], FALSE)
  /\ UNCHANGED placeVars

\* An arrow key towards a wall.
Bump(key) ==
  /\ game = "key"
  /\ ~AtBorder(key)
  /\ Blocked(Map[Target(key)])
  /\ CheckExit(Map[Target(key)], FALSE)
  /\ UNCHANGED <<placeVars, CurX, CurY, screen>>

\* An arrow key at the border of the map, or any other key: no case of the
\* switch assigns MapValue.
NoMove(key) ==
  /\ game = "key"
  /\ key \in Keys => AtBorder(key)
  /\ \E MapValue \in UninitValues : CheckExit(MapValue, FALSE)
  /\ UNCHANGED <<placeVars, CurX, CurY, screen>>

\* The escape key; MapValue is not assigned either.
Escape ==
  /\ game = "key"
  /\ \E MapValue \in UninitValues : CheckExit(MapValue, TRUE)
  /\ UNCHANGED <<placeVars, CurX, CurY, screen>>

\* The screen is filled with black and Game returns.
Return ==
  /\ game = "fill"
  /\ screen' = [c \in Cells |-> Black]
  /\ game' = "returned"
  /\ UNCHANGED <<placeVars, CurX, CurY, EntryToBoot>>

ReadKey ==
  \/ \E key \in Keys : Walk(key) \/ Bump(key)
  \/ \E key \in Keys \cup {"other"} : NoMove(key)
  \/ Escape

GameNext == Placing \/ DrawMap \/ ReadKey \/ Return

\* The program runs on by itself; that a key is ever pressed is not assumed.
GameSpec ==
  /\ GameInit
  /\ [][GameNext]_gameVars
  /\ WF_gameVars(Placing \/ DrawMap \/ Return)

-----------------------------------------------------------------------------
Adjacent(c, d) ==
  \/ c[1] = d[1] /\ (c[2] = d[2] + 1 \/ d[2] = c[2] + 1)
  \/ c[2] = d[2] /\ (c[1] = d[1] + 1 \/ d[1] = c[1] + 1)

\* While the player plays, the screen shows the map: every cell with its own
\* texture, the sprite on the player's cell and nowhere else; and every texture
\* that is drawn has been made, Textures[Map[...]] is inside the array
\* (DemoGame.c:82, 144, 153).
ScreenShowsMap ==
  game = "key" =>
    /\ screen = [c \in Cells |-> Picture(c, c = Cur)]
    /\ \A c \in Cells : screen[c].texture < TexturesCount

-----------------------------------------------------------------------------
\* The labyrinth the player sees: exits appear when all of them are placed, and
\* the choice is made when the key loop ends.
ExitCells ==
  IF place = "done"
    THEN [e \in Entries |-> CHOOSE c \in Cells : Map[c] = bootable_start + e]
    ELSE << >>

L == INSTANCE Labyrinth WITH
  floor   <- {c \in Cells : Maze[c] = 0},
  doors   <- EscapeCells(Maze),
  entries <- Entries,
  exits   <- ExitCells,
  player  <- Cur,
  over    <- game \in {"fill", "returned"},
  chosen  <- IF EntryToBoot = ESCAPE_ENTRY THEN {} ELSE {EntryToBoot}

\* Game implements the labyrinth, when an unassigned MapValue happens to hold no
\* value of an exit: the entries are hidden, and the one that Game returns is
\* the one whose exit was reached through the corridors.
ImplementsLabyrinth == L!Spec
=============================================================================
