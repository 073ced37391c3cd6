----------------------------- MODULE ConfigFiles ----------------------------
(***************************************************************************)
(* The other readers of Config.c: ParseMazeConfigFile, which reads the map   *)
(* of the boot managers, ParseTexturesConfigFile, which reads the names of    *)
(* the textures, and ParseSprite, which reads the picture of the player.      *)
(*                                                                         *)
(* A file is a sequence of tokens.  MazeConfig.conf holds numbers, "sp" and   *)
(* "nl"; the number is what sscanf("%lld") converts, which skips white space  *)
(* in front of it.  Sprite.txt holds single characters.                      *)
(***************************************************************************)
EXTENDS Naturals, Sequences, FiniteSets

SeqExt == INSTANCE SequencesExt

CONSTANTS
  MapFiles,       \* contents of MazeConfig.conf
  TextureFiles,   \* contents of TexturesConfig.conf
  SpriteTexts     \* contents of Sprite.txt: at least one line, not empty

White == {"sp", "nl"}

VARIABLES
  mapFile, textureFile, spriteText,   \* the inputs; never assigned
  mapWidth, mapHeight, Numbers,       \* results of ParseMazeConfigFile
  CurWidth, at,                       \* its local variables
  TexturesFiles,                      \* result of ParseTexturesConfigFile
  Pixels,                             \* result of ParseSprite
  config   \* "size", "read", "textures", "sprite", "returned", "undefined"

configInputs == <<mapFile, textureFile, spriteText>>
configVars == <<configInputs, mapWidth, mapHeight, Numbers, CurWidth, at, TexturesFiles,
                Pixels, config>>

\* *Width = -1 until the first line has been read.
NoWidth == 0

ConfigInit ==
  /\ mapFile \in MapFiles /\ textureFile \in TextureFiles /\ spriteText \in SpriteTexts
  /\ mapWidth = NoWidth /\ mapHeight = 0 /\ Numbers = << >>
  /\ CurWidth = 1 /\ at = 1
  /\ TexturesFiles = << >> /\ Pixels = << >>
  /\ config = "size"

-----------------------------------------------------------------------------
\* An iteration of the loop that counts the columns of the first line and the
\* lines; that a line is longer or shorter is only printed.
CountRow ==
  /\ config = "size" /\ at <= Len(mapFile)
  /\ at' = at + 1
  /\ CASE mapFile[at] = "sp" -> CurWidth' = CurWidth + 1 /\ UNCHANGED <<mapWidth, mapHeight>>
       [] mapFile[at] = "nl" -> /\ mapHeight' = mapHeight + 1
                                /\ mapWidth' = IF mapWidth = NoWidth THEN CurWidth ELSE mapWidth
                                /\ CurWidth' = 1
       [] OTHER -> UNCHANGED <<CurWidth, mapWidth, mapHeight>>
  /\ UNCHANGED <<configInputs, Numbers, TexturesFiles, Pixels, config>>

\* Mutant of AllocateNumbers: sscanf starts where the counting loop ended.
AllocateNumbers_FromEnd ==
  /\ config = "size" /\ at = Len(mapFile) + 1
  /\ config' = "read"
  /\ UNCHANGED <<configInputs, mapWidth, mapHeight, Numbers, CurWidth, at, TexturesFiles, Pixels>>

\* The array for the numbers; CurBuffer is set back to the start of the file.
AllocateNumbers ==
  /\ config = "size" /\ at = Len(mapFile) + 1
  /\ at' = 1
  /\ config' = "read"
  /\ UNCHANGED <<configInputs, mapWidth, mapHeight, Numbers, CurWidth, TexturesFiles, Pixels>>

NumbersFrom(k) == {n \in k .. Len(mapFile) : mapFile[n] \notin White}

\* sscanf: the next number, wherever the lines end.  Without one it runs on
\* behind the file, which no zero ends, or fails: the rest of the numbers is
\* zero and UefiMain does not look at the status.
ReadNumber ==
  /\ config = "read" /\ Len(Numbers) < mapWidth * mapHeight
  /\ IF NumbersFrom(at) = {}
       THEN /\ config' \in {"textures", "undefined"}
            /\ Numbers' = [k \in 1 .. mapWidth * mapHeight |->
                             IF k <= Len(Numbers) THEN Numbers[k] ELSE "0"]
            /\ UNCHANGED at
       ELSE LET n == CHOOSE n \in NumbersFrom(at) : \A m \in NumbersFrom(at) : n <= m IN
              /\ Numbers' = Append(Numbers, mapFile[n])
              /\ at' = n + 1
              /\ UNCHANGED config
  /\ UNCHANGED <<configInputs, mapWidth, mapHeight, CurWidth, TexturesFiles, Pixels>>

EndNumbers ==
  /\ config = "read" /\ Len(Numbers) = mapWidth * mapHeight
  /\ config' = "textures"
  /\ UNCHANGED <<configInputs, mapWidth, mapHeight, Numbers, CurWidth, at, TexturesFiles, Pixels>>

-----------------------------------------------------------------------------
LineEnds(f) == {k \in 1 .. Len(f) : f[k] = "nl"}

\* The line that ends at k: the text after the line feed in front of it.
LineAt(f, k) ==
  LET before == {e \in LineEnds(f) : e < k}
      start == IF before = {} THEN 1 ELSE 1 + (CHOOSE e \in before : \A d \in before : d <= e)
  IN  SubSeq(f, start, k - 1)

\* One name for every line feed; text after the last one is no name.
ParseTexturesConfigFile ==
  /\ config = "textures"
  /\ TexturesFiles' =
       [n \in 1 .. Cardinality(LineEnds(textureFile)) |->
          LineAt(textureFile, CHOOSE k \in LineEnds(textureFile) :
                   Cardinality({e \in LineEnds(textureFile) : e <= k}) = n)]
  /\ config' = "sprite"
  /\ UNCHANGED <<configInputs, mapWidth, mapHeight, Numbers, CurWidth, at, Pixels>>

Colours == {"k", "b", "l", "y", "g", "r", "w", "p", "s", "n", "d"}

SpriteWidth == (CHOOSE k \in LineEnds(spriteText) : \A e \in LineEnds(spriteText) : k <= e) - 1
SpriteHeight == Len(spriteText) \div (SpriteWidth + 1)

\* Every pixel whose character is a colour is opaque; the others stay zero.
ParseSprite ==
  /\ config = "sprite"
  /\ Pixels' = [p \in 0 .. SpriteWidth * SpriteHeight - 1 |->
       LET c == spriteText[(p \div SpriteWidth) * (SpriteWidth + 1) + (p % SpriteWidth) + 1]
       IN  IF c \in Colours THEN c ELSE "transparent"]
  /\ config' = "returned"
  /\ UNCHANGED <<configInputs, mapWidth, mapHeight, Numbers, CurWidth, at, TexturesFiles>>

ConfigNext ==
  \/ CountRow \/ AllocateNumbers \/ ReadNumber \/ EndNumbers
  \/ ParseTexturesConfigFile \/ ParseSprite

-----------------------------------------------------------------------------
(***************************************************************************)
(* The map as it is written: the numbers between the line feeds.             *)
(***************************************************************************)
RowOf(n) == Cardinality({e \in LineEnds(mapFile) : e < n})
ColumnOf(n) == Cardinality({m \in NumbersFrom(1) : m < n /\ RowOf(m) = RowOf(n)})

\* Numbers separated by single spaces, the same number of them in every line,
\* a line feed behind each line.
IsTable ==
  /\ \A n \in 1 .. Len(mapFile) :
       mapFile[n] \in White <=> n > 1 /\ mapFile[n - 1] \notin White
  /\ mapFile # << >> => mapFile[Len(mapFile)] = "nl"
  /\ \A e, d \in LineEnds(mapFile) :
       Len(LineAt(mapFile, e)) = Len(LineAt(mapFile, d))

\* A table is read as it is written: the number in row y and column x is element
\* y * Width + x, and nothing else is an element.  The lines of the two other
\* files come back as they are when each of them ends in a line feed.
ConfigReadAsWritten ==
  /\ config \notin {"size", "read"} /\ IsTable =>
       /\ config # "undefined"
       /\ Len(Numbers) = Cardinality(NumbersFrom(1))
       /\ \A n \in NumbersFrom(1) :
            /\ ColumnOf(n) < mapWidth /\ RowOf(n) < mapHeight
            /\ Numbers[RowOf(n) * mapWidth + ColumnOf(n) + 1] = mapFile[n]
  /\ config = "returned" /\ textureFile[Len(textureFile)] = "nl" =>
       SeqExt!FlattenSeq([n \in DOMAIN TexturesFiles |-> Append(TexturesFiles[n], "nl")]) = textureFile
  /\ config = "returned" =>
       \A k \in 1 .. SpriteHeight * (SpriteWidth + 1) :
         LET x == (k - 1) % (SpriteWidth + 1) IN
         x < SpriteWidth /\ spriteText[k] \in Colours =>
           Pixels[((k - 1) \div (SpriteWidth + 1)) * SpriteWidth + x] = spriteText[k]
=============================================================================
