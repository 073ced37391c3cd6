-------------------------------- MODULE Maze --------------------------------
(***************************************************************************)
(* The Maze application (Application/Maze/Maze.c): read labyrinth.txt and    *)
(* sprite.txt, draw the maze, walk with the arrow keys, and boot the fourth  *)
(* boot option of the firmware when the end is reached.                      *)
(*                                                                         *)
(* A file is a sequence of characters.  Where the code goes on after a       *)
(* failed call, or writes outside a buffer, mazePhase is "undefined".        *)
(***************************************************************************)
EXTENDS Integers, Sequences, FiniteSets

CONSTANTS
  MazeFiles,        \* contents of labyrinth.txt: at least two lines, none empty
  SpriteFiles,      \* contents of sprite.txt
  Resolution,       \* <<HorizontalResolution, VerticalResolution>>
  BootOptionCounts  \* how many boot options the firmware may have

MazeKeys == {"SCAN_UP", "SCAN_DOWN", "SCAN_LEFT", "SCAN_RIGHT", "SCAN_ESC", "other"}

VARIABLES
  labyrinth, sprite, BootOptionCount,  \* the inputs; never assigned
  mazeCells,     \* the parsed maze: a function of 0 .. width * height - 1
  mazeWidth, mazeHeight,
  actor,         \* character painted at each pixel of the sprite's box
  pos, end,      \* <<posX, posY>> and <<endX, endY>>
  video,         \* what Blt has drawn at each cell of the maze
  escaped,
  booted,        \* boot options that EfiBootManagerBoot was called with
  mazePhase      \* "read", "draw", "key", "free", "returned", "undefined"

mazeInputs == <<labyrinth, sprite, BootOptionCount>>
mazeVars == <<mazeInputs, mazeCells, mazeWidth, mazeHeight, actor, pos, end, video,
              escaped, booted, mazePhase>>

MazeInit ==
  /\ labyrinth \in MazeFiles /\ sprite \in SpriteFiles
  /\ BootOptionCount \in BootOptionCounts
  /\ mazeCells = << >> /\ mazeWidth = 0 /\ mazeHeight = 0
  /\ actor = << >>
  /\ pos = <<0, 0>> /\ end = <<0, 0>>
  /\ video = << >>
  /\ escaped = FALSE /\ booted = {}
  /\ mazePhase = "read"

-----------------------------------------------------------------------------
\* ReadFile: the status of every call is printed and ignored, and the file is
\* looked for on the second file system of the firmware.  The last byte is
\* replaced by a zero.
Read(file) == [file EXCEPT ![Len(file)] = "NUL"]

\* The number of characters in front of the first line feed.
LineWidth(data) == (CHOOSE k \in 1 .. Len(data) :
                      data[k] = "nl" /\ \A j \in 1 .. k - 1 : data[j] # "nl") - 1

\* Both files have at least two lines, of which the first is not empty, and the screen
\* has a pixel for every column and every row of the maze.
ASSUME MazeAssumption ==
  /\ Resolution \in Nat \X Nat /\ BootOptionCounts \subseteq Nat
  /\ \A file \in MazeFiles \cup SpriteFiles :
       /\ file \in Seq(STRING) /\ file # << >> /\ file[1] # "nl"
       /\ \E k \in 1 .. Len(file) - 1 : file[k] = "nl"
  /\ \A file \in MazeFiles :
       /\ LineWidth(file) <= Resolution[1]
       /\ Len(file) \div (LineWidth(file) + 1) <= Resolution[2]

CellOf(c) ==
  CASE c = "#" -> "WALL" [] c = "." -> "EMPTY" [] c = "o" -> "START" [] c = "x" -> "END"
    [] OTHER -> "UNKNOWN"

\* A call of ReadFile, for the maze or for the sprite, fails and its results are used
\* all the same.
ReadFails ==
  /\ mazePhase \in {"read", "draw"}
  /\ mazePhase' = "undefined"
  /\ UNCHANGED <<mazeInputs, mazeCells, mazeWidth, mazeHeight, actor, pos, end, video,
                 escaped, booted>>

ParseMazeFile ==
  /\ mazePhase = "read"
  /\ LET data == Read(labyrinth)
         w == LineWidth(data)
         h == Len(data) \div (w + 1) IN
       /\ mazeWidth' = w /\ mazeHeight' = h
       /\ mazeCells' = [k \in 0 .. w * h - 1 |->
                          CellOf(data[(k \div w) * (w + 1) + (k % w) + 1])]
  /\ mazePhase' = "draw"
  /\ UNCHANGED <<mazeInputs, actor, pos, end, video, escaped, booted>>

-----------------------------------------------------------------------------
CellWidth == Resolution[1] \div mazeWidth
CellHeight == Resolution[2] \div mazeHeight
CellSide == IF CellWidth < CellHeight THEN CellWidth ELSE CellHeight

CellsOf(kind) == {k \in DOMAIN mazeCells : mazeCells[k] = kind}
Coordinates(k) == <<k % mazeWidth, k \div mazeWidth>>

\* The last cell of a kind that the drawing loop meets, or <<0, 0>>.
LastOf(kind) ==
  IF CellsOf(kind) = {} \/ CellSide = 0 THEN <<0, 0>>
  ELSE Coordinates(CHOOSE k \in CellsOf(kind) : \A j \in CellsOf(kind) : j <= k)

Colour(kind) ==
  CASE kind \in {"START", "EMPTY"} -> "black" [] kind = "WALL" -> "green"
    [] kind = "END" -> "blue" [] kind = "UNKNOWN" -> "red"

Painted == {"k", "b", "l", "y", "g", "r", "w", "p", "s", "n", "d"}

\* ParseActor paints the sprite, column by column, into a box of side * side
\* pixels; it stops at the first character that is no colour.  Pixels outside
\* the box are written as well.
ParseActor(data, side) ==
  LET w == LineWidth(data)
      h == Len(data) \div (w + 1)
      At(i, j) == data[j * (w + 1) + i + 1]
      Stops(i, j) == At(i, j) \notin Painted \cup {"."}
      Reached(i, j) == \A a \in 0 .. i, b \in 0 .. h - 1 : a < i \/ b <= j => ~Stops(a, b)
      Writes == {ij \in (0 .. w - 1) \X (0 .. h - 1) :
                   Reached(ij[1], ij[2]) /\ At(ij[1], ij[2]) # "."}
  IN  [k \in (0 .. side * side - 1) \cup {ij[2] * side + ij[1] : ij \in Writes} |->
         IF \E ij \in Writes : ij[2] * side + ij[1] = k
           THEN LET ij == CHOOSE ij \in Writes : ij[2] * side + ij[1] = k
                IN  At(ij[1], ij[2])
           ELSE "black"]

\* The maze is drawn, then the sprite is read and drawn over the start.  A pixel
\* outside the sprite's box is a write outside the pool.
DrawMaze ==
  /\ mazePhase = "draw"
  /\ pos' = LastOf("START") /\ end' = LastOf("END")
  /\ actor' = ParseActor(Read(sprite), CellSide)
  /\ video' = [k \in DOMAIN mazeCells |->
                 IF Coordinates(k) = pos' THEN "actor" ELSE Colour(mazeCells[k])]
  /\ mazePhase' = IF DOMAIN actor' = 0 .. CellSide * CellSide - 1 THEN "key" ELSE "undefined"
  /\ UNCHANGED <<mazeInputs, mazeCells, mazeWidth, mazeHeight, escaped, booted>>

-----------------------------------------------------------------------------
\* Where a key leads; the switch counts newX and newY up or down.
Neighbour(key, c) ==
  CASE key = "SCAN_UP"    -> <<c[1], c[2] - 1>>
    [] key = "SCAN_DOWN"  -> <<c[1], c[2] + 1>>
    [] key = "SCAN_LEFT"  -> <<c[1] - 1, c[2]>>
    [] key = "SCAN_RIGHT" -> <<c[1] + 1, c[2]>>
    [] OTHER -> c

\* The tests of the border as they are written: height and width, not the last
\* row and the last column.
AtEdge(key) ==
  CASE key = "SCAN_UP"    -> pos[2] = 0
    [] key = "SCAN_DOWN"  -> pos[2] = mazeHeight
    [] key = "SCAN_LEFT"  -> pos[1] = 0
    [] key = "SCAN_RIGHT" -> pos[1] = mazeWidth
    [] OTHER -> FALSE

IndexOf(c) == c[2] * mazeWidth + c[1]

\* Whether the cell is a wall; beyond the array any value may be read.
WallAt(c) ==
  IF IndexOf(c) \in DOMAIN mazeCells THEN {mazeCells[IndexOf(c)] = "WALL"} ELSE BOOLEAN

\* Mutant of Redraw: the actor is drawn before the cell it leaves is cleared.
Redraw_ActorFirst(new) ==
  [k \in DOMAIN mazeCells |->
     IF Coordinates(k) = pos THEN "black"
     ELSE IF Coordinates(k) = new THEN "actor" ELSE video[k]]

\* The two calls of Blt: clear the old cell, draw the actor on the new one.
Redraw(new) ==
  [k \in DOMAIN mazeCells |->
     IF Coordinates(k) = new THEN "actor"
     ELSE IF Coordinates(k) = pos THEN "black" ELSE video[k]]

\* An iteration that ends in continue.
StayPut(key) ==
  /\ mazePhase = "key"
  /\ AtEdge(key) \/ (Neighbour(key, pos) # pos /\ TRUE \in WallAt(Neighbour(key, pos)))
  /\ UNCHANGED mazeVars

\* An iteration that reaches the end of the loop: a step, escape or another key.
Step(key) ==
  /\ mazePhase = "key"
  /\ ~AtEdge(key)
  /\ LET new == Neighbour(key, pos) IN
       /\ new # pos => FALSE \in WallAt(new)
       /\ video' = Redraw(new)
       /\ pos' = new
       /\ mazePhase' = IF new = end \/ key = "SCAN_ESC" THEN "free" ELSE "key"
  /\ escaped' = (key = "SCAN_ESC")
  /\ UNCHANGED <<mazeInputs, mazeCells, mazeWidth, mazeHeight, actor, end, booted>>

\* The screen is cleared and the pools are freed; then option 3 is booted,
\* whether or not the firmware has as many.
BootFourth ==
  /\ mazePhase = "free"
  /\ booted' = IF ~escaped /\ BootOptionCount > 3 THEN {3} ELSE {}
  /\ mazePhase' = IF ~escaped /\ BootOptionCount <= 3 THEN "undefined" ELSE "returned"
  /\ video' = [k \in DOMAIN mazeCells |-> "black"]
  /\ UNCHANGED <<mazeInputs, mazeCells, mazeWidth, mazeHeight, actor, pos, end, escaped>>

MazeNext ==
  \/ ReadFails \/ ParseMazeFile \/ DrawMaze
  \/ \E key \in MazeKeys : StayPut(key) \/ Step(key)
  \/ BootFourth

-----------------------------------------------------------------------------
(***************************************************************************)
(* The maze as the file is written: row y, column x of a text whose lines    *)
(* all end in a line feed and have the same width.                           *)
(***************************************************************************)
FileWidth == LineWidth(labyrinth)
FileHeight == Cardinality({k \in 1 .. Len(labyrinth) : labyrinth[k] = "nl"})
FileCells == (0 .. FileWidth - 1) \X (0 .. FileHeight - 1)
FileAt(c) == labyrinth[c[2] * (FileWidth + 1) + c[1] + 1]

IsRectangle ==
  \A k \in 1 .. Len(labyrinth) : labyrinth[k] = "nl" <=> k % (FileWidth + 1) = 0

\* No way leads over the right or the lower edge but to the end, as in
\* labyrinth.txt, where the start is in the first column.
EdgeIsClosed ==
  \A c \in FileCells :
    c[1] = FileWidth - 1 \/ c[2] = FileHeight - 1 => FileAt(c) \in {"#", "x"}

OneOf(ch) == Cardinality({c \in FileCells : FileAt(c) = ch}) = 1

WellFormedMaze == IsRectangle /\ EdgeIsClosed /\ OneOf("o") /\ OneOf("x")

StepsTo(c) == {Neighbour(key, c) : key \in MazeKeys} \cap {d \in FileCells : FileAt(d) # "#"}

\* The cells within n steps of the start.
Corridors[n \in 0 .. Cardinality(FileCells)] ==
  IF n = 0 THEN {c \in FileCells : FileAt(c) = "o"}
  ELSE LET near == Corridors[n - 1] IN near \cup UNION {StepsTo(c) : c \in near}

\* A sprite no larger than a cell, of known colours and ending in a line feed, is
\* in the box pixel by pixel, from its upper left corner.
SpriteInBox ==
  LET w == LineWidth(sprite)
      h == Len(sprite) \div (w + 1) IN
  /\ \A k \in 1 .. Len(sprite) : IF k % (w + 1) = 0 THEN sprite[k] = "nl"
                                                    ELSE sprite[k] \in Painted \cup {"."}
  /\ Len(sprite) = h * (w + 1) /\ w <= CellSide /\ h <= CellSide
  => \A x \in 0 .. w - 1, y \in 0 .. h - 1 :
       actor[y * CellSide + x]
         = IF sprite[y * (w + 1) + x + 1] = "." THEN "black" ELSE sprite[y * (w + 1) + x + 1]

\* In a well-formed file the player stands in the maze, in a cell that corridors
\* connect with the start, and the sprite is drawn there, as the file shows it,
\* and nowhere else; and the option is booted exactly when the end was reached
\* without escaping.
WalksTheMaze ==
  WellFormedMaze =>
    /\ mazePhase = "key" =>
         /\ pos \in Corridors[Cardinality(FileCells)]
         /\ {k \in DOMAIN video : video[k] = "actor"} = {IndexOf(pos)}
         /\ SpriteInBox
    /\ mazePhase = "returned" =>
         IF escaped THEN booted = {} ELSE booted = {3} /\ FileAt(pos) = "x"
=============================================================================
