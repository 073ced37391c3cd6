--------------------------- MODULE FirmwareProofs ---------------------------
(***************************************************************************)
(* Proofs about the UEFI applications, for every map, file, list of handles  *)
(* and kernel that the assumptions on the constants admit.                   *)
(***************************************************************************)
EXTENDS Firmware, FiniteSetTheorems, WellFoundedInduction, TLAPS

(***************************************************************************)
(* The placing of boot entries: maps of every size, every number of entries  *)
(* and every value of escapes.                                               *)
(***************************************************************************)
\* The cells that the scan has still to visit, in the order of the two loops.
Unvisited == {c \in Cells : c[1] > x \/ (c[1] = x /\ c[2] >= y)}

\* The escape cells that the scan has still to visit.
EscapesAhead == EscapeCells(Map) \cap Unvisited

\* The scan has already cut the exit of entry i.
Placed == place = "scan" /\ escape_count > rand_index

\* Entries that have their exit.
Handled == IF Placed THEN i + 1 ELSE i

\* Only escape cells are changed; a trap may leave one exit without a texture.
InvMap ==
  /\ OnlyEscapesBecomeExits
  /\ place # "fault" => \A c \in Cells : Map[c] < TexturesCount

\* Every texture made is on exactly one cell, an escape of the configuration.
InvExits ==
  \A k \in 1 .. Len(BootTextures) :
    \E c \in EscapeCells(Maze) :
      /\ ExitsOf(k - 1) = {c}
      /\ BootTextures[k].base = Maze[c]

\* The counting argument: before the drawn cell is met there are always enough
\* escape cells ahead for the scan to meet it.
Counted ==
  /\ Len(BootTextures) = Handled
  /\ \A k \in 1 .. Len(BootTextures) : BootTextures[k].entry = k - 1
  /\ Cardinality(EscapeCells(Map)) + Len(BootTextures) >= escapes
  /\ place = "scan" => rand_index + i < escapes
  /\ place = "scan" /\ ~Placed =>
       Cardinality(EscapesAhead) + escape_count + i >= escapes
  /\ place = "done" => i = BootEntriesCount

InvCount == EnoughEscapes /\ place # "fault" => Counted

PlaceInv == PlaceTypeOK /\ InvMap /\ InvExits /\ InvCount

-----------------------------------------------------------------------------
\* The map is finite, so its escape cells can be counted.
LEMMA CellsFinite ==
  /\ IsFiniteSet(Cells)
  /\ \A m : IsFiniteSet(EscapeCells(m))
  /\ IsFiniteSet(EscapesAhead)
<1>1. IsFiniteSet(0 .. MapWidth - 1) /\ IsFiniteSet(0 .. MapHeight - 1)
  BY FS_Interval, SizeAssumption
<1>2. IsFiniteSet(Cells)
  BY <1>1, FS_Product DEF Cells
<1>3. \A m : EscapeCells(m) \subseteq Cells
  BY DEF EscapeCells
<1>4. EscapesAhead \subseteq Cells
  BY <1>3 DEF EscapesAhead
<1> QED
  BY <1>2, <1>3, <1>4, FS_Subset

\* While x < MapWidth the scan is at a cell of the map, and going to the next
\* one takes exactly that cell out of those ahead.
LEMMA ScanStep ==
  ASSUME PlaceTypeOK, x < MapWidth, NextCell
  PROVE  /\ <<x, y>> \in Cells
         /\ <<x, y>> \in Unvisited
         /\ Unvisited' = Unvisited \ {<<x, y>>}
         /\ x' \in 0 .. MapWidth
         /\ y' \in 0 .. MapHeight - 1
<1>1. /\ x \in 0 .. MapWidth - 1
      /\ y \in 0 .. MapHeight - 1
  BY SizeAssumption DEF PlaceTypeOK
<1>2. <<x, y>> \in Cells
  BY <1>1 DEF Cells
<1>3. <<x, y>> \in Unvisited
  BY <1>1, <1>2 DEF Unvisited
<1>4. x' \in 0 .. MapWidth /\ y' \in 0 .. MapHeight - 1
  BY <1>1, SizeAssumption DEF NextCell
<1>5. ASSUME NEW a \in 0 .. MapWidth - 1, NEW b \in 0 .. MapHeight - 1
      PROVE  (a > x' \/ (a = x' /\ b >= y')) <=>
               (a > x \/ (a = x /\ b >= y)) /\ ~(a = x /\ b = y)
  BY <1>1, SizeAssumption DEF NextCell
<1>6. ASSUME NEW c \in Cells
      PROVE  (c[1] > x' \/ (c[1] = x' /\ c[2] >= y')) <=>
               (c[1] > x \/ (c[1] = x /\ c[2] >= y)) /\ c # <<x, y>>
  <2>1. PICK a \in 0 .. MapWidth - 1, b \in 0 .. MapHeight - 1 : c = <<a, b>>
    BY DEF Cells
  <2> QED
    BY <2>1, <1>5
<1>7. Unvisited' = {c \in Cells : c[1] > x' \/ (c[1] = x' /\ c[2] >= y')}
  BY DEF Unvisited, Cells
<1>8. Unvisited' = Unvisited \ {<<x, y>>}
  BY <1>6, <1>7 DEF Unvisited
<1> QED
  BY <1>2, <1>3, <1>4, <1>8

\* The type invariant is inductive.
LEMMA PlaceTypeInductive ==
  /\ PlaceInit => PlaceTypeOK
  /\ PlaceTypeOK /\ [PlaceNext]_placeVars => PlaceTypeOK'
<1>1. PlaceInit => PlaceTypeOK
  <2> SUFFICES ASSUME PlaceInit PROVE PlaceTypeOK
    OBVIOUS
  <2>1. Map \in [Cells -> Nat]
    BY ConfigAssumption DEF PlaceInit
  <2> QED
    BY <2>1, SizeAssumption, ConfigAssumption DEF PlaceInit, PlaceTypeOK
<1>2. ASSUME PlaceTypeOK, [PlaceNext]_placeVars
      PROVE  PlaceTypeOK'
  <2> USE <1>2
  <2>1. CASE StartEntry
    BY <2>1, SizeAssumption, ConfigAssumption DEF StartEntry, PlaceTypeOK
  <2>2. CASE DivideByZero
    BY <2>2 DEF DivideByZero, PlaceTypeOK
  <2>3. CASE PassCell
    <3>1. x' \in 0 .. MapWidth /\ y' \in 0 .. MapHeight - 1
      BY <2>3, ScanStep DEF PassCell
    <3>2. escape_count' \in Nat
      BY <2>3 DEF PassCell, PlaceTypeOK
    <3> QED
      BY <2>3, <3>1, <3>2 DEF PassCell, PlaceTypeOK
  <2>4. CASE MakeExit
    <3>1. <<x, y>> \in Cells /\ x' \in 0 .. MapWidth /\ y' \in 0 .. MapHeight - 1
      BY <2>4, ScanStep DEF MakeExit, AtDrawnCell
    <3>2. TexturesCount \in Nat
      BY ConfigAssumption DEF TexturesCount, PlaceTypeOK
    <3>3. Map' \in [Cells -> Nat]
      BY <2>4, <3>2 DEF MakeExit, PlaceTypeOK
    <3>4. MakeBootEntryTexture(i, Map[<<x, y>>])
            \in [base : Nat, entry : Nat, icon : {"icon", "garbage"}]
      BY <3>1 DEF MakeBootEntryTexture, PlaceTypeOK
    <3>5. BootTextures' \in Seq([base : Nat, entry : Nat, icon : {"icon", "garbage"}])
      BY <2>4, <3>4 DEF MakeExit, PlaceTypeOK
    <3>6. escape_count' \in Nat
      BY <2>4 DEF MakeExit, PlaceTypeOK
    <3> QED
      BY <2>4, <3>1, <3>3, <3>5, <3>6 DEF MakeExit, PlaceTypeOK
  <2>5. CASE IconTrap
    <3>1. TexturesCount \in Nat
      BY ConfigAssumption DEF TexturesCount, PlaceTypeOK
    <3>2. Map' \in [Cells -> Nat]
      BY <2>5, <3>1 DEF IconTrap, PlaceTypeOK
    <3> QED
      BY <2>5, <3>2 DEF IconTrap, PlaceTypeOK
  <2>6. CASE EndScan
    BY <2>6 DEF EndScan, PlaceTypeOK
  <2>7. CASE EndPlace
    BY <2>7 DEF EndPlace, PlaceTypeOK
  <2>8. CASE UNCHANGED placeVars
    BY <2>8 DEF placeVars, PlaceTypeOK
  <2> QED
    BY <2>1, <2>2, <2>3, <2>4, <2>5, <2>6, <2>7, <2>8 DEF PlaceNext
<1> QED
  BY <1>1, <1>2

\* The state of PlaceBootEntries keeps its types: the scan stays inside the
\* map and i never passes the number of entries.
THEOREM PlaceTyped == PlaceSpec => []PlaceTypeOK
  BY PlaceTypeInductive, PTL DEF PlaceSpec

-----------------------------------------------------------------------------
\* What each action does to the map and the textures is one of three things.
MapStep ==
  \/ UNCHANGED <<Map, BootTextures>>
  \/ MakeExit
  \/ IconTrap

\* Every step of placing leaves the maze and the entry count alone and changes
\* the map and the textures in one of those three ways.
LEMMA MapSteps ==
  ASSUME [PlaceNext]_placeVars
  PROVE  /\ UNCHANGED <<Maze, BootEntriesCount>>
         /\ MapStep
         /\ place = "fault" => place' = "fault"
         /\ place = "fault" => UNCHANGED <<Map, BootTextures>>
  BY DEF PlaceNext, MapStep, placeVars, StartEntry, DivideByZero, PassCell,
         MakeExit, IconTrap, AtDrawnCell, EndScan, EndPlace

\* The cell that becomes an exit was an escape cell of the configuration, and
\* its new value was nowhere on the map.
LEMMA DrawnCell ==
  ASSUME PlaceTypeOK, InvMap, AtDrawnCell
  PROVE  /\ <<x, y>> \in EscapeCells(Maze)
         /\ Maze[<<x, y>>] = Map[<<x, y>>]
         /\ <<x, y>> \in EscapeCells(Map)
         /\ \A c \in Cells : Map[c] < TexturesCount
         /\ TexturesCount \in Nat /\ TexturesCount >= bootable_start
<1>1. <<x, y>> \in Cells
  BY SizeAssumption DEF AtDrawnCell, PlaceTypeOK, Cells
<1>2. Map[<<x, y>>] \in Nat /\ Map[<<x, y>>] < bootable_start
  BY <1>1 DEF AtDrawnCell, PlaceTypeOK, IsEscape
<1>3. TexturesCount \in Nat /\ TexturesCount >= bootable_start
  BY ConfigAssumption DEF TexturesCount, PlaceTypeOK
<1>4. Maze[<<x, y>>] = Map[<<x, y>>]
  BY <1>1, <1>2, <1>3, ConfigAssumption DEF InvMap, OnlyEscapesBecomeExits
<1>5. \A c \in Cells : Map[c] < TexturesCount
  BY DEF InvMap, AtDrawnCell
<1> QED
  BY <1>1, <1>3, <1>4, <1>5 DEF EscapeCells, AtDrawnCell

\* Only escape cells change, and each to a value of its own.
LEMMA InvMapPreserved ==
  ASSUME PlaceTypeOK, InvMap, [PlaceNext]_placeVars
  PROVE  InvMap'
<1> USE MapSteps
<1>1. CASE UNCHANGED <<Map, BootTextures>>
  BY <1>1 DEF InvMap, OnlyEscapesBecomeExits, TexturesCount, Cells, IsEscape
<1>2. CASE MakeExit \/ IconTrap
  <2>1. AtDrawnCell /\ Map' = [Map EXCEPT ![<<x, y>>] = TexturesCount]
    BY <1>2 DEF MakeExit, IconTrap
  <2>2. /\ <<x, y>> \in EscapeCells(Maze)
        /\ \A c \in Cells : Map[c] < TexturesCount
        /\ TexturesCount \in Nat /\ TexturesCount >= bootable_start
    BY <2>1, DrawnCell
  <2>3. /\ TexturesCount' \in Nat
        /\ TexturesCount' >= TexturesCount
        /\ place' # "fault" => TexturesCount' = TexturesCount + 1
    <3>1. CASE MakeExit
      BY <3>1, ConfigAssumption DEF MakeExit, TexturesCount, PlaceTypeOK
    <3>2. CASE IconTrap
      BY <3>2, <2>2 DEF IconTrap, TexturesCount
    <3> QED
      BY <1>2, <3>1, <3>2
  <2>4. /\ Map'[<<x, y>>] = TexturesCount
        /\ \A c \in Cells \ {<<x, y>>} : Map'[c] = Map[c]
        /\ \A c \in Cells : Map[c] \in Nat
    BY <2>1, <2>2 DEF PlaceTypeOK, EscapeCells
  <2>5. OnlyEscapesBecomeExits'
    <3> SUFFICES ASSUME NEW c \in Cells, Map'[c] # Maze[c]
                 PROVE  /\ IsEscape(Maze[c])
                        /\ Map'[c] \in bootable_start .. TexturesCount'
                        /\ \A d \in Cells \ {c} : Map'[d] # Map'[c]
      BY DEF OnlyEscapesBecomeExits, Cells, IsEscape
    <3>1. CASE c = <<x, y>>
      BY <3>1, <2>2, <2>3, <2>4, ConfigAssumption DEF EscapeCells
    <3>2. CASE c # <<x, y>>
      <4>1. /\ IsEscape(Maze[c])
            /\ Map[c] \in bootable_start .. TexturesCount
            /\ \A d \in Cells \ {c} : Map[d] # Map[c]
        BY <3>2, <2>4 DEF InvMap, OnlyEscapesBecomeExits
      <4>2. Map'[c] \in bootable_start .. TexturesCount'
        BY <3>2, <4>1, <2>2, <2>3, <2>4, ConfigAssumption
      <4>3. \A d \in Cells \ {c} : Map'[d] # Map'[c]
        BY <3>2, <4>1, <2>2, <2>4
      <4> QED
        BY <4>1, <4>2, <4>3
    <3> QED
      BY <3>1, <3>2
  <2>6. ASSUME place' # "fault", NEW c \in Cells
        PROVE  Map'[c] < TexturesCount'
    BY <2>2, <2>3, <2>4, <2>6
  <2> QED
    BY <2>5, <2>6 DEF InvMap, Cells
<1> QED
  BY <1>1, <1>2 DEF MapStep

\* An exit keeps its cell, and a new exit is on one cell.
LEMMA InvExitsPreserved ==
  ASSUME PlaceTypeOK, InvMap, InvExits, [PlaceNext]_placeVars
  PROVE  InvExits'
<1> USE MapSteps
<1>1. CASE UNCHANGED <<Map, BootTextures>>
  BY <1>1 DEF InvExits, ExitsOf, EscapeCells, Cells, IsEscape
<1>2. CASE MakeExit \/ IconTrap
  <2>1. AtDrawnCell /\ Map' = [Map EXCEPT ![<<x, y>>] = TexturesCount]
    BY <1>2 DEF MakeExit, IconTrap
  <2>2. /\ <<x, y>> \in EscapeCells(Maze)
        /\ Maze[<<x, y>>] = Map[<<x, y>>]
        /\ <<x, y>> \in EscapeCells(Map)
        /\ \A c \in Cells : Map[c] < TexturesCount
        /\ TexturesCount \in Nat /\ TexturesCount >= bootable_start
    BY <2>1, DrawnCell
  <2>3. /\ Map'[<<x, y>>] = TexturesCount
        /\ \A c \in Cells \ {<<x, y>>} : Map'[c] = Map[c]
        /\ \A c \in Cells : Map[c] \in Nat
    BY <2>1, <2>2 DEF PlaceTypeOK, EscapeCells
  <2>4. EscapeCells(Maze)' = EscapeCells(Maze)
    BY DEF EscapeCells, Cells, IsEscape
  <2>5. ASSUME NEW k \in 1 .. Len(BootTextures)
        PROVE  \E c \in EscapeCells(Maze) :
                 /\ ExitsOf(k - 1)' = {c}
                 /\ BootTextures[k].base = Maze[c]
    <3>1. PICK c \in EscapeCells(Maze) : ExitsOf(k - 1) = {c} /\ BootTextures[k].base = Maze[c]
      BY DEF InvExits
    <3>2. bootable_start + (k - 1) < TexturesCount
      BY ConfigAssumption DEF TexturesCount, PlaceTypeOK
    <3>3. Map[<<x, y>>] # bootable_start + (k - 1)
      BY <2>2, ConfigAssumption DEF EscapeCells, IsEscape, PlaceTypeOK
    <3>4. ExitsOf(k - 1)' = {d \in Cells : Map'[d] = bootable_start + (k - 1)}
      BY DEF ExitsOf, Cells
    <3>5. \A d \in Cells : Map'[d] = bootable_start + (k - 1) <=> Map[d] = bootable_start + (k - 1)
      BY <2>2, <2>3, <3>2, <3>3, ConfigAssumption
    <3>6. ExitsOf(k - 1)' = ExitsOf(k - 1)
      BY <3>4, <3>5 DEF ExitsOf
    <3> QED
      BY <3>1, <3>6
  <2>6. CASE IconTrap
    BY <2>4, <2>5, <2>6 DEF InvExits, IconTrap
  <2>7. CASE MakeExit
    <3>1. /\ Len(BootTextures') = Len(BootTextures) + 1
          /\ Len(BootTextures) \in Nat
          /\ \A k \in 1 .. Len(BootTextures) : BootTextures'[k] = BootTextures[k]
          /\ BootTextures'[Len(BootTextures) + 1].base = Map[<<x, y>>]
      BY <2>7 DEF MakeExit, PlaceTypeOK, MakeBootEntryTexture
    <3>2. ASSUME NEW k \in {Len(BootTextures) + 1}
          PROVE  ExitsOf(k - 1)' = {<<x, y>>}
      <4>1. ExitsOf(k - 1)' = {d \in Cells : Map'[d] = bootable_start + (k - 1)}
        BY DEF ExitsOf, Cells
      <4>2. bootable_start + (k - 1) = TexturesCount
        BY <3>1, ConfigAssumption DEF TexturesCount
      <4>3. ASSUME NEW d \in Cells
            PROVE  Map'[d] = TexturesCount <=> d = <<x, y>>
        BY <2>2, <2>3
      <4> QED
        BY <4>1, <4>2, <4>3, <2>2 DEF EscapeCells
    <3> SUFFICES ASSUME NEW k \in 1 .. Len(BootTextures) + 1
                 PROVE  \E c \in EscapeCells(Maze) :
                          /\ ExitsOf(k - 1)' = {c}
                          /\ BootTextures'[k].base = Maze[c]
      BY <2>4, <3>1 DEF InvExits
    <3>3. CASE k \in 1 .. Len(BootTextures)
      BY <2>5, <3>1, <3>3
    <3>4. CASE k = Len(BootTextures) + 1
      BY <2>2, <3>1, <3>2, <3>4
    <3> QED
      BY <3>1, <3>3, <3>4
  <2> QED
    BY <1>2, <2>6, <2>7
<1> QED
  BY <1>1, <1>2 DEF MapStep

-----------------------------------------------------------------------------
\* The counting argument, action by action.
LEMMA InvCountPreserved ==
  ASSUME PlaceTypeOK, PlaceTypeOK', InvMap, InvCount, [PlaceNext]_placeVars
  PROVE  InvCount'
<1> SUFFICES ASSUME EnoughEscapes, place' # "fault", place # "fault"
             PROVE  Counted'
  BY MapSteps DEF InvCount, EnoughEscapes, EscapeCells, Cells, IsEscape
<1> DEFINE n == Len(BootTextures)
<1>1. /\ n = Handled
      /\ \A k \in 1 .. n : BootTextures[k].entry = k - 1
      /\ Cardinality(EscapeCells(Map)) + n >= escapes
      /\ place = "scan" => rand_index + i < escapes
      /\ place = "scan" /\ ~Placed => Cardinality(EscapesAhead) + escape_count + i >= escapes
      /\ place = "done" => i = BootEntriesCount
  BY DEF InvCount, Counted
<1>2. /\ n \in Nat /\ i \in Nat /\ escape_count \in Nat /\ rand_index \in Nat
      /\ escapes \in Nat /\ x \in 0 .. MapWidth /\ y \in 0 .. MapHeight - 1
      /\ rand_index' \in Nat /\ escape_count' \in Nat
  BY ConfigAssumption DEF PlaceTypeOK
<1>3. /\ Cardinality(EscapeCells(Map)) \in Nat
      /\ Cardinality(EscapesAhead) \in Nat
  BY CellsFinite, FS_CardinalityType
<1>4. \A m : EscapeCells(m) = {c \in Cells : IsEscape(m[c])}
  BY DEF EscapeCells
<1>5. CASE StartEntry
  <2>1. /\ rand_index' \in 0 .. escapes - i - 1
        /\ escape_count' = 0 /\ x' = 0 /\ y' = 0
        /\ place = "entry" /\ place' = "scan"
        /\ UNCHANGED <<Map, BootTextures, i>>
    BY <1>5 DEF StartEntry
  <2>2. ~Placed' /\ Handled' = i /\ Handled = i
    BY <2>1, <1>2 DEF Placed, Handled
  <2>3. EscapesAhead' = EscapeCells(Map)
    <3>1. Unvisited' = Cells
      <4>1. ASSUME NEW c \in Cells PROVE c[1] > 0 \/ (c[1] = 0 /\ c[2] >= 0)
        BY DEF Cells
      <4> QED
        BY <4>1, <2>1 DEF Unvisited, Cells
    <3>2. EscapeCells(Map)' = EscapeCells(Map)
      BY <2>1 DEF EscapeCells, Cells, IsEscape
    <3> QED
      BY <3>1, <3>2, <1>4 DEF EscapesAhead
  <2>4. EscapeCells(Map)' = EscapeCells(Map)
    BY <2>1 DEF EscapeCells, Cells, IsEscape
  <2>5. rand_index' + i < escapes
    <3>1. ASSUME NEW a \in Nat, NEW b \in Nat, NEW r \in 0 .. a - b - 1
          PROVE  r + b < a
      OBVIOUS
    <3> QED
      BY <2>1, <1>2, <3>1
  <2>6. Cardinality(EscapesAhead)' + 0 + i >= escapes
    BY <1>1, <1>2, <1>3, <2>2, <2>3
  <2> QED
    BY <1>1, <2>1, <2>2, <2>4, <2>5, <2>6 DEF Counted
<1>6. CASE PassCell
  <2>1. /\ place = "scan" /\ x < MapWidth /\ NextCell
        /\ UNCHANGED <<Map, BootTextures, i, rand_index, place>>
        /\ escape_count' = IF IsEscape(Map[<<x, y>>]) THEN escape_count + 1 ELSE escape_count
        /\ ~(IsEscape(Map[<<x, y>>]) /\ escape_count = rand_index)
    BY <1>6 DEF PassCell, AtDrawnCell
  <2>2. <<x, y>> \in Cells /\ <<x, y>> \in Unvisited /\ Unvisited' = Unvisited \ {<<x, y>>}
    BY <2>1, ScanStep
  <2>3. EscapeCells(Map)' = EscapeCells(Map)
    BY <2>1 DEF EscapeCells, Cells, IsEscape
  <2>4. EscapesAhead' = EscapesAhead \ {<<x, y>>}
    BY <2>2, <2>3 DEF EscapesAhead
  <2>5. <<x, y>> \in EscapesAhead <=> IsEscape(Map[<<x, y>>])
    BY <2>2 DEF EscapesAhead, EscapeCells
  <2>6. Cardinality(EscapesAhead') = IF IsEscape(Map[<<x, y>>])
                                       THEN Cardinality(EscapesAhead) - 1
                                       ELSE Cardinality(EscapesAhead)
    BY <2>4, <2>5, CellsFinite, FS_RemoveElement
  <2>7. Placed' <=> Placed
    BY <2>1, <1>2 DEF Placed
  <2>8. Handled' = Handled
    BY <2>1, <2>7 DEF Handled
  <2>9. ~Placed => Cardinality(EscapesAhead') + escape_count' + i >= escapes
    BY <1>1, <1>2, <1>3, <2>1, <2>6
  <2> QED
    BY <1>1, <2>1, <2>3, <2>7, <2>8, <2>9 DEF Counted
<1>7. CASE MakeExit
  <2>1. /\ AtDrawnCell /\ place = "scan" /\ escape_count = rand_index
        /\ escape_count' = escape_count + 1
        /\ Map' = [Map EXCEPT ![<<x, y>>] = TexturesCount]
        /\ UNCHANGED <<i, rand_index, place>>
        /\ BootTextures' = Append(BootTextures, MakeBootEntryTexture(i, Map[<<x, y>>]))
    BY <1>7 DEF MakeExit, AtDrawnCell
  <2>2. /\ <<x, y>> \in EscapeCells(Map)
        /\ TexturesCount \in Nat /\ TexturesCount >= bootable_start
    BY <2>1, DrawnCell
  <2>3. ~Placed /\ Placed' /\ Handled = i /\ Handled' = i + 1
    BY <2>1, <1>2 DEF Placed, Handled
  <2>4. /\ n' = n + 1
        /\ \A k \in 1 .. n : BootTextures'[k] = BootTextures[k]
        /\ BootTextures'[n + 1].entry = i
    BY <2>1 DEF PlaceTypeOK, MakeBootEntryTexture
  <2>5. EscapeCells(Map)' = EscapeCells(Map) \ {<<x, y>>}
    <3>1. EscapeCells(Map)' = {c \in Cells : IsEscape(Map'[c])}
      BY DEF EscapeCells, Cells, IsEscape
    <3>2. /\ Map'[<<x, y>>] = TexturesCount
          /\ \A c \in Cells \ {<<x, y>>} : Map'[c] = Map[c]
      BY <2>1, <2>2 DEF PlaceTypeOK, EscapeCells
    <3>3. ~IsEscape(TexturesCount)
      BY <2>2, ConfigAssumption DEF IsEscape
    <3> QED
      BY <3>1, <3>2, <3>3, <1>4
  <2>6. Cardinality(EscapeCells(Map)') = Cardinality(EscapeCells(Map)) - 1
    BY <2>2, <2>5, CellsFinite, FS_RemoveElement
  <2>7. \A k \in 1 .. n' : BootTextures'[k].entry = k - 1
    BY <1>1, <1>2, <2>3, <2>4
  <2>8. Cardinality(EscapeCells(Map))' + (n + 1) >= escapes
    BY <1>1, <1>2, <1>3, <2>6
  <2>9. rand_index' + i' < escapes
    BY <1>1, <2>1
  <2> QED
    BY <1>1, <2>1, <2>3, <2>4, <2>7, <2>8, <2>9 DEF Counted
<1>8. CASE EndScan
  <2>1. /\ place = "scan" /\ x = MapWidth /\ i' = i + 1 /\ place' = "entry"
        /\ UNCHANGED <<Map, BootTextures>>
    BY <1>8 DEF EndScan
  <2>2. EscapesAhead = {}
    <3>1. ASSUME NEW c \in Cells PROVE ~(c[1] > x \/ (c[1] = x /\ c[2] >= y))
      BY <2>1, SizeAssumption DEF Cells
    <3> QED
      BY <3>1 DEF EscapesAhead, Unvisited
  <2>3. Cardinality(EscapesAhead) = 0
    BY <2>2, FS_EmptySet
  <2>4. Placed
    <3> SUFFICES ASSUME ~Placed PROVE FALSE
      OBVIOUS
    <3>1. escape_count + i >= escapes /\ rand_index + i < escapes
      BY <1>1, <1>2, <2>1, <2>3
    <3>2. ~(escape_count > rand_index)
      BY <2>1 DEF Placed
    <3> QED
      BY <3>1, <3>2, <1>2
  <2>5. Handled = i + 1 /\ Handled' = i + 1
    BY <2>1, <2>4 DEF Placed, Handled
  <2>6. EscapeCells(Map)' = EscapeCells(Map)
    BY <2>1 DEF EscapeCells, Cells, IsEscape
  <2> QED
    BY <1>1, <2>1, <2>5, <2>6 DEF Counted
<1>9. CASE EndPlace \/ UNCHANGED placeVars
  <2>1. /\ UNCHANGED <<Map, BootTextures, i, BootEntriesCount, rand_index, escape_count, x, y>>
        /\ \/ place = "entry" /\ place' = "done" /\ i = BootEntriesCount
           \/ place' = place
    BY <1>9 DEF EndPlace, placeVars
  <2>2. Placed' = Placed /\ Handled' = Handled
    BY <2>1 DEF Placed, Handled
  <2>3. EscapeCells(Map)' = EscapeCells(Map) /\ EscapesAhead' = EscapesAhead
    BY <2>1 DEF EscapesAhead, EscapeCells, Unvisited, Cells, IsEscape
  <2> QED
    BY <1>1, <2>1, <2>2, <2>3 DEF Counted
<1>10. ~DivideByZero /\ ~IconTrap
  BY DEF DivideByZero, IconTrap
<1> QED
  BY <1>5, <1>6, <1>7, <1>8, <1>9, <1>10 DEF PlaceNext

\* The inductive invariant holds at the start.
LEMMA PlaceInvInit == PlaceInit => PlaceInv
<1> SUFFICES ASSUME PlaceInit PROVE PlaceInv
  OBVIOUS
<1>1. PlaceTypeOK
  BY PlaceTypeInductive
<1>2. InvMap
  BY ConfigAssumption DEF PlaceInit, InvMap, OnlyEscapesBecomeExits, TexturesCount
<1>3. InvExits
  BY DEF PlaceInit, InvExits
<1>4. InvCount
  <2>1. Handled = 0 /\ Len(BootTextures) = 0
    BY DEF PlaceInit, Handled, Placed
  <2>2. Cardinality(EscapeCells(Map)) \in Nat
    BY CellsFinite, FS_CardinalityType
  <2>3. EnoughEscapes => Cardinality(EscapeCells(Map)) + 0 >= escapes
    BY <2>2, ConfigAssumption DEF PlaceInit, EnoughEscapes, HasEnoughEscapes
  <2> QED
    BY <2>1, <2>3 DEF PlaceInit, InvCount, Counted
<1> QED
  BY <1>1, <1>2, <1>3, <1>4 DEF PlaceInv

\* Every step of PlaceBootEntries preserves the inductive invariant.
LEMMA PlaceInvPreserved == PlaceInv /\ [PlaceNext]_placeVars => PlaceInv'
<1> SUFFICES ASSUME PlaceInv, [PlaceNext]_placeVars PROVE PlaceInv'
  OBVIOUS
<1>1. PlaceTypeOK'
  BY PlaceTypeInductive DEF PlaceInv
<1>2. InvMap' /\ InvExits'
  BY InvMapPreserved, InvExitsPreserved DEF PlaceInv
<1>3. InvCount'
  BY <1>1, InvCountPreserved DEF PlaceInv
<1> QED
  BY <1>1, <1>2, <1>3 DEF PlaceInv

\* What the invariant says about the finished map.
LEMMA PlaceInvImplies ==
  PlaceInv => OnlyEscapesBecomeExits /\ EveryEntryHasItsExit
<1> SUFFICES ASSUME PlaceInv PROVE OnlyEscapesBecomeExits /\ EveryEntryHasItsExit
  OBVIOUS
<1>1. ASSUME place = "done", EnoughEscapes
      PROVE  /\ Len(BootTextures) = BootEntriesCount
             /\ \A e \in Entries :
                  \E c \in EscapeCells(Maze) :
                    /\ ExitsOf(e) = {c}
                    /\ BootTextures[e + 1].entry = e
                    /\ BootTextures[e + 1].base = Maze[c]
  <2>1. Len(BootTextures) = BootEntriesCount
    BY <1>1 DEF PlaceInv, InvCount, Counted, Handled, Placed
  <2>2. ASSUME NEW e \in Entries
        PROVE  \E c \in EscapeCells(Maze) :
                 /\ ExitsOf(e) = {c}
                 /\ BootTextures[e + 1].entry = e
                 /\ BootTextures[e + 1].base = Maze[c]
    <3>1. e + 1 \in 1 .. Len(BootTextures) /\ (e + 1) - 1 = e
      BY <2>1 DEF Entries, PlaceInv, PlaceTypeOK
    <3>2. BootTextures[e + 1].entry = e
      BY <1>1, <3>1 DEF PlaceInv, InvCount, Counted
    <3> QED
      BY <3>1, <3>2 DEF PlaceInv, InvExits
  <2> QED
    BY <2>1, <2>2
<1> QED
  BY <1>1 DEF PlaceInv, InvMap, EveryEntryHasItsExit

\* On every map with as many escape cells as the #define promises, and for
\* every draw of rand(), PlaceBootEntries gives each entry of the configuration
\* exactly one exit, which shows that entry.
THEOREM EntriesPlaced == PlaceSpec => []EveryEntryHasItsExit
<1>1. PlaceSpec => []PlaceInv
  BY PlaceInvInit, PlaceInvPreserved, PTL DEF PlaceSpec
<1> QED
  BY <1>1, PlaceInvImplies, PTL

\* On every map, whatever its number of escape cells, PlaceBootEntries changes
\* escape cells only and gives no two exits the same texture.
THEOREM OnlyEscapesChange == PlaceSpec => []OnlyEscapesBecomeExits
<1>1. PlaceSpec => []PlaceInv
  BY PlaceInvInit, PlaceInvPreserved, PTL DEF PlaceSpec
<1> QED
  BY <1>1, PlaceInvImplies, PTL

\* Exits are never moved nor withdrawn by the handling of later entries.
THEOREM ExitsKept == PlaceSpec => ExitsAreKept
<1>1. ASSUME PlaceTypeOK, [PlaceNext]_placeVars
      PROVE  [\A c \in Cells : Map[c] >= bootable_start => Map'[c] = Map[c]]_placeVars
  <2>1. CASE UNCHANGED <<Map, BootTextures>>
    BY <2>1
  <2>2. CASE MakeExit \/ IconTrap
    <3>1. /\ Map' = [Map EXCEPT ![<<x, y>>] = TexturesCount]
          /\ Map[<<x, y>>] < bootable_start
          /\ <<x, y>> \in Cells
      BY <1>1, <2>2, SizeAssumption
      DEF MakeExit, IconTrap, AtDrawnCell, IsEscape, PlaceTypeOK, Cells
    <3>2. ASSUME NEW c \in Cells, Map[c] >= bootable_start
          PROVE  Map'[c] = Map[c]
      <4>1. c # <<x, y>>
        <5>1. \A d \in Cells : Map[d] < bootable_start => ~(Map[d] >= bootable_start)
          BY <1>1, ConfigAssumption DEF PlaceTypeOK
        <5> QED
          BY <3>1, <3>2, <5>1
      <4> QED
        BY <1>1, <3>1, <4>1 DEF PlaceTypeOK
    <3> QED
      BY <3>2
  <2> QED
    BY <1>1, <2>1, <2>2, MapSteps DEF MapStep
<1> QED
  BY <1>1, PlaceTypeInductive, PTL DEF PlaceSpec, ExitsAreKept

(***************************************************************************)
(* The parser of boot entries: configuration files of every length.          *)
(***************************************************************************)
\* The blank lines in the first n characters.
BlankLines(n) == {b \in 1 .. n : IsBlankLine(b)}

\* Both passes have counted the blank lines up to where they are, so the second
\* one cannot find more of them than the array has room for.
InvEntries ==
  /\ prev = IF idx = 1 THEN "none" ELSE FileData[idx - 1]
  /\ parser = "count" => result_size = 1 + Cardinality(BlankLines(idx - 1)) /\ cur_struct = 0
  /\ parser # "count" =>
       /\ result_size = 1 + Cardinality(BlankLines(length))
       /\ cur_struct = Cardinality(BlankLines(idx - 1))

\* cur_char counts characters of the line being read, and none at its start.
InvLine ==
  /\ parser = "count" => cur_char = 0
  /\ cur_char < idx
  /\ prev = "nl" => cur_char = 0
  /\ \A k \in idx - cur_char .. idx - 1 : FileData[k] # "nl"

ParseInv == ParseTypeOK /\ InvEntries /\ InvLine

-----------------------------------------------------------------------------
\* The typing of the file: its length is a natural number and every position
\* holds a character.
LEMMA FileType ==
  ASSUME ParseTypeOK
  PROVE  /\ length \in Nat
         /\ \A k \in 1 .. length : FileData[k] \in Characters
         /\ "none" \notin Characters
  BY FilesAssumption DEF ParseTypeOK, length, Characters

\* Reading one more character adds at most that one to the blank lines.
LEMMA BlankLinesStep ==
  ASSUME NEW n \in Nat
  PROVE  /\ IsFiniteSet(BlankLines(n))
         /\ Cardinality(BlankLines(n)) \in Nat
         /\ Cardinality(BlankLines(n + 1)) =
              Cardinality(BlankLines(n)) + (IF IsBlankLine(n + 1) THEN 1 ELSE 0)
<1>1. IsFiniteSet(1 .. n)
  BY FS_Interval
<1>2. IsFiniteSet(BlankLines(n)) /\ Cardinality(BlankLines(n)) \in Nat
  BY <1>1, FS_Subset, FS_CardinalityType DEF BlankLines
<1>3. CASE IsBlankLine(n + 1)
  <2>1. BlankLines(n + 1) = BlankLines(n) \cup {n + 1}
    BY <1>3 DEF BlankLines
  <2>2. n + 1 \notin BlankLines(n)
    BY DEF BlankLines
  <2> QED
    BY <1>2, <1>3, <2>1, <2>2, FS_AddElement
<1>4. CASE ~IsBlankLine(n + 1)
  <2>1. BlankLines(n + 1) = BlankLines(n)
    BY <1>4 DEF BlankLines
  <2> QED
    BY <1>2, <1>4, <2>1
<1> QED
  BY <1>2, <1>3, <1>4

\* The blank lines of a prefix are among those of the file.
LEMMA BlankLinesMonotone ==
  ASSUME NEW m \in Nat, NEW n \in Nat, m <= n
  PROVE  Cardinality(BlankLines(m)) <= Cardinality(BlankLines(n))
<1>1. BlankLines(m) \subseteq BlankLines(n)
  BY DEF BlankLines
<1> QED
  BY <1>1, BlankLinesStep, FS_Subset

\* The test of the code, cur and prev being line feeds, finds the blank lines.
LEMMA BlankLineFound ==
  ASSUME ParseTypeOK, InvEntries, idx <= length
  PROVE  BlankLine <=> IsBlankLine(idx)
<1>1. CASE idx = 1
  BY <1>1 DEF InvEntries, BlankLine, IsBlankLine
<1>2. CASE idx # 1
  BY <1>2 DEF InvEntries, BlankLine, IsBlankLine, cur, ParseTypeOK
<1> QED
  BY <1>1, <1>2

\* BlankLines depends on nothing but the file.
LEMMA BlankLinesConstant ==
  ASSUME FileData' = FileData
  PROVE  /\ \A n : BlankLines(n)' = BlankLines(n)
         /\ length' = length
<1>1. ASSUME NEW n
      PROVE  BlankLines(n)' = BlankLines(n)
  BY DEF BlankLines, IsBlankLine
<1> QED
  BY <1>1 DEF length

-----------------------------------------------------------------------------
\* What the steps of the second loop have in common.
LEMMA StoreSteps ==
  ASSUME NextEntry \/ EndOfLine \/ Separator \/ OtherCharacter
  PROVE  /\ parser = "store" /\ parser' = "store"
         /\ idx <= length /\ idx' = idx + 1 /\ prev' = cur
         /\ UNCHANGED <<FileData, result_size>>
  BY DEF NextEntry, EndOfLine, Separator, OtherCharacter, NextCharacter

\* The array, once allocated, keeps its shape.
LEMMA ParseTypeInductive ==
  /\ ParseInit => ParseTypeOK
  /\ ParseTypeOK /\ StaysInArray /\ InvLine /\ [ParseNext]_parseVars => ParseTypeOK'
<1>1. ParseInit => ParseTypeOK
  <2> SUFFICES ASSUME ParseInit PROVE ParseTypeOK
    OBVIOUS
  <2>1. length \in Nat
    BY FilesAssumption DEF ParseInit, length
  <2>2. write \in BOOLEAN
    BY DEF ParseInit
  <2>3. idx \in 1 .. length + 1 /\ prev \in Characters \cup {"none"} /\ parser = "count"
    BY <2>1 DEF ParseInit
  <2> QED
    BY <2>1, <2>2, <2>3 DEF ParseInit, ParseTypeOK
<1>2. ASSUME ParseTypeOK, StaysInArray, InvLine, [ParseNext]_parseVars
      PROVE  ParseTypeOK'
  <2> USE <1>2
  <2>1. CASE CountBlankLines
    <3>1. cur \in Characters /\ length' = length /\ length \in Nat
      BY <2>1, FileType DEF CountBlankLines, cur, length, ParseTypeOK
    <3> QED
      BY <2>1, <3>1 DEF CountBlankLines, ParseTypeOK
  <2>2. CASE Allocate
    <3>1. length' = length /\ length \in Nat
      BY <2>2, FileType DEF Allocate, length
    <3>2. result' \in [0 .. result_size - 1 -> [Fields -> Value \cup {NULL}]]
      BY <2>2 DEF Allocate
    <3> QED
      BY <2>2, <3>1, <3>2 DEF Allocate, ParseTypeOK
  <2>3. CASE NextEntry \/ EndOfLine \/ Separator \/ OtherCharacter
    <3>1. /\ parser = "store" /\ parser' = "store"
          /\ idx <= length /\ idx' = idx + 1 /\ prev' = cur
          /\ UNCHANGED <<FileData, result_size>>
      BY <2>3, StoreSteps
    <3>2. cur \in Characters /\ length' = length /\ length \in Nat
      BY <3>1, FileType DEF cur, length, ParseTypeOK
    <3>3. cur_struct' \in Nat /\ cur_value' \in Nat /\ cur_char' \in Nat
      BY <2>3 DEF NextEntry, EndOfLine, Separator, OtherCharacter, ParseTypeOK
    <3>5. write' \in BOOLEAN
      <4>1. write' = TRUE \/ write' = FALSE \/ write' = write
        BY <2>3 DEF NextEntry, EndOfLine, Separator, OtherCharacter
      <4> QED
        BY <4>1, Zenon DEF ParseTypeOK
    <3>4. result' \in [0 .. result_size - 1 -> [Fields -> Value \cup {NULL}]]
      <4>1. CASE EndOfLine /\ cur_value \in Fields
        <5> DEFINE v == [first |-> idx - cur_char, last |-> idx - 1]
        <5>1. v \in Value
          BY DEF Value, InvLine, ParseTypeOK
        <5>2. cur_struct \in 0 .. result_size - 1
          BY <3>1 DEF StaysInArray, ParseTypeOK
        <5>3. result \in [0 .. result_size - 1 -> [Fields -> Value \cup {NULL}]]
          BY <3>1 DEF ParseTypeOK
        <5>4. [result[cur_struct] EXCEPT ![cur_value] = v] \in [Fields -> Value \cup {NULL}]
          BY <4>1, <5>1, <5>2, <5>3
        <5>5. result' = [result EXCEPT ![cur_struct] = [result[cur_struct] EXCEPT ![cur_value] = v]]
          BY <4>1, <5>2, <5>3 DEF EndOfLine
        <5> QED
          BY <5>2, <5>3, <5>4, <5>5
      <4>2. CASE ~(EndOfLine /\ cur_value \in Fields)
        BY <2>3, <3>1, <4>2
        DEF NextEntry, EndOfLine, Separator, OtherCharacter, ParseTypeOK
      <4> QED
        BY <4>1, <4>2
    <3> QED
      BY <3>1, <3>2, <3>3, <3>4, <3>5 DEF ParseTypeOK
  <2>4. CASE EndOfFile
    BY <2>4 DEF EndOfFile, ParseTypeOK, length
  <2>5. CASE UNCHANGED parseVars
    BY <2>5 DEF parseVars, ParseTypeOK, length
  <2> QED
    BY <2>1, <2>2, <2>3, <2>4, <2>5 DEF ParseNext
<1> QED
  BY <1>1, <1>2

\* The counts of the two passes agree, position by position.
LEMMA InvEntriesPreserved ==
  ASSUME ParseTypeOK, InvEntries, [ParseNext]_parseVars
  PROVE  InvEntries'
<1>1. length \in Nat /\ idx \in 1 .. length + 1 /\ idx - 1 \in Nat /\ (idx - 1) + 1 = idx
  BY FileType DEF ParseTypeOK
<1>2. FileData' = FileData
  BY StoreSteps
  DEF ParseNext, CountBlankLines, Allocate, EndOfFile, parseVars
<1>3. (\A n : BlankLines(n)' = BlankLines(n)) /\ length' = length
  BY <1>2, BlankLinesConstant
<1>4. Cardinality(BlankLines(0)) = 0
  BY FS_EmptySet DEF BlankLines
<1>5. idx <= length =>
        Cardinality(BlankLines(idx)) =
          Cardinality(BlankLines(idx - 1)) + (IF BlankLine THEN 1 ELSE 0)
  BY <1>1, BlankLinesStep, BlankLineFound
<1>6. CASE CountBlankLines
  <2>1. /\ parser = "count" /\ parser' = "count" /\ idx <= length /\ idx' = idx + 1 /\ prev' = cur
        /\ result_size' = IF BlankLine THEN result_size + 1 ELSE result_size
        /\ cur_struct' = cur_struct
    BY <1>6 DEF CountBlankLines
  <2>2. idx' - 1 = idx /\ idx' # 1
    BY <1>1, <2>1
  <2>3. prev' = FileData'[idx' - 1]
    BY <1>2, <2>1, <2>2 DEF cur
  <2>4. BlankLines(idx - 1)' = BlankLines(idx)
    BY <1>2, <2>2 DEF BlankLines, IsBlankLine
  <2>5. result_size' = 1 + Cardinality(BlankLines(idx - 1)')
    <3>1. Cardinality(BlankLines(idx - 1)) \in Nat
      BY <1>1, BlankLinesStep
    <3> QED
      BY <1>5, <2>1, <2>4, <3>1 DEF InvEntries
  <2> QED
    BY <2>1, <2>2, <2>3, <2>5 DEF InvEntries
<1>7. CASE Allocate
  <2>1. /\ parser = "count" /\ parser' = "store" /\ idx = length + 1 /\ idx' = 1
        /\ prev' = "none" /\ UNCHANGED <<result_size, cur_struct>>
    BY <1>7 DEF Allocate
  <2>2. BlankLines(length)' = BlankLines(idx - 1)
    BY <1>1, <1>2, <1>3, <2>1 DEF BlankLines, IsBlankLine
  <2>3. BlankLines(idx - 1)' = BlankLines(0)
    BY <1>2, <2>1 DEF BlankLines, IsBlankLine
  <2> QED
    BY <1>4, <2>1, <2>2, <2>3 DEF InvEntries
<1>8. CASE NextEntry \/ EndOfLine \/ Separator \/ OtherCharacter
  <2>1. /\ parser = "store" /\ parser' = "store"
        /\ idx <= length /\ idx' = idx + 1 /\ prev' = cur /\ result_size' = result_size
    BY <1>8, StoreSteps
  <2>2. idx' - 1 = idx /\ idx' # 1
    BY <1>1, <2>1
  <2>3. prev' = FileData'[idx' - 1]
    BY <1>2, <2>1, <2>2 DEF cur
  <2>4. BlankLines(idx - 1)' = BlankLines(idx)
    BY <1>2, <2>2 DEF BlankLines, IsBlankLine
  <2>5. BlankLines(length)' = BlankLines(length)
    BY <1>2, <1>3 DEF BlankLines, IsBlankLine
  <2>6. cur_struct' = IF BlankLine THEN cur_struct + 1 ELSE cur_struct
    BY <1>8 DEF NextEntry, EndOfLine, Separator, OtherCharacter, BlankLine
  <2>7. cur_struct' = Cardinality(BlankLines(idx - 1)')
    <3>1. Cardinality(BlankLines(idx - 1)) \in Nat
      BY <1>1, BlankLinesStep
    <3> QED
      BY <1>5, <2>1, <2>4, <2>6, <3>1 DEF InvEntries
  <2> QED
    BY <2>1, <2>2, <2>3, <2>5, <2>7 DEF InvEntries
<1>9. CASE EndOfFile \/ UNCHANGED parseVars
  <2>1. /\ UNCHANGED <<idx, prev, result_size, cur_struct>>
        /\ (parser' = parser \/ (parser = "store" /\ parser' = "done"))
    BY <1>9 DEF EndOfFile, parseVars
  <2>2. BlankLines(idx - 1)' = BlankLines(idx - 1) /\ BlankLines(length)' = BlankLines(length)
    BY <1>2, <1>3, <2>1 DEF BlankLines, IsBlankLine
  <2> QED
    BY <1>2, <2>1, <2>2 DEF InvEntries
<1> QED
  BY <1>6, <1>7, <1>8, <1>9 DEF ParseNext

\* The second pass never leaves the array.
LEMMA EntriesFit == ParseTypeOK /\ InvEntries => StaysInArray
<1> SUFFICES ASSUME ParseTypeOK, InvEntries, parser = "store"
             PROVE  cur_struct < result_size
  BY DEF StaysInArray
<1>1. length \in Nat /\ idx - 1 \in Nat /\ idx - 1 <= length
  BY FileType DEF ParseTypeOK
<1>2. Cardinality(BlankLines(idx - 1)) <= Cardinality(BlankLines(length))
  BY <1>1, BlankLinesMonotone
<1>3. Cardinality(BlankLines(idx - 1)) \in Nat /\ Cardinality(BlankLines(length)) \in Nat
  BY <1>1, BlankLinesStep
<1> QED
  BY <1>2, <1>3 DEF InvEntries

\* cur_char never counts beyond the line it is in.
LEMMA InvLinePreserved ==
  ASSUME ParseTypeOK, InvLine, InvEntries, [ParseNext]_parseVars
  PROVE  InvLine'
<1>1. idx \in Nat \ {0} /\ cur_char \in Nat /\ cur_char < idx
  BY FileType DEF ParseTypeOK, InvLine
<1>2. CASE CountBlankLines \/ Allocate
  BY <1>1, <1>2 DEF CountBlankLines, Allocate, InvLine
<1>3. CASE NextEntry \/ EndOfLine \/ Separator \/ OtherCharacter
  <2>1. /\ parser = "store" /\ parser' = "store"
        /\ idx <= length /\ idx' = idx + 1 /\ prev' = cur /\ FileData' = FileData
    BY <1>3, StoreSteps
  <2>2. CASE NextEntry
    BY <1>1, <2>1, <2>2 DEF NextEntry, BlankLine, InvLine
  <2>3. CASE EndOfLine
    BY <1>1, <2>1, <2>3 DEF EndOfLine, InvLine
  <2>4. CASE Separator \/ OtherCharacter
    <3>1. cur # "nl" /\ (cur_char' = cur_char \/ cur_char' = cur_char + 1)
      BY <1>1, <2>4 DEF Separator, OtherCharacter
    <3>2. cur_char' < idx'
      BY <1>1, <2>1, <3>1
    <3>3. ASSUME NEW k \in idx' - cur_char' .. idx' - 1
          PROVE  FileData'[k] # "nl"
      <4>1. k \in idx - cur_char .. idx - 1 \/ k = idx
        <5>1. CASE cur_char' = cur_char
          BY <1>1, <2>1, <5>1
        <5>2. CASE cur_char' = cur_char + 1
          <6>1. k \in (idx + 1) - (cur_char + 1) .. (idx + 1) - 1
            BY <2>1, <5>2
          <6> QED
            BY <1>1, <6>1
        <5> QED
          BY <3>1, <5>1, <5>2
      <4> QED
        BY <2>1, <3>1, <4>1 DEF InvLine, cur
    <3> QED
      BY <2>1, <3>1, <3>2, <3>3 DEF InvLine
  <2> QED
    BY <1>3, <2>2, <2>3, <2>4
<1>4. CASE EndOfFile \/ UNCHANGED parseVars
  BY <1>4 DEF EndOfFile, parseVars, InvLine
<1> QED
  BY <1>2, <1>3, <1>4 DEF ParseNext

\* The inductive invariant of the parser.
LEMMA ParseInvariant == ParseSpec => []ParseInv
<1>1. ParseInit => ParseInv
  <2> SUFFICES ASSUME ParseInit PROVE ParseInv
    OBVIOUS
  <2>1. ParseTypeOK
    BY ParseTypeInductive
  <2>2. Cardinality(BlankLines(0)) = 0
    BY FS_EmptySet DEF BlankLines
  <2>3. InvEntries
    BY <2>2 DEF ParseInit, InvEntries
  <2>4. InvLine
    BY DEF ParseInit, InvLine
  <2> QED
    BY <2>1, <2>3, <2>4 DEF ParseInv
<1>2. ParseInv /\ [ParseNext]_parseVars => ParseInv'
  BY ParseTypeInductive, EntriesFit, InvEntriesPreserved, InvLinePreserved DEF ParseInv
<1> QED
  BY <1>1, <1>2, PTL DEF ParseSpec

\* The state of the parser keeps its types; in particular every store goes to a
\* field of an entry that was allocated.
THEOREM ParseTyped == ParseSpec => []ParseTypeOK
<1>1. ParseInv => ParseTypeOK
  BY DEF ParseInv
<1> QED
  BY <1>1, ParseInvariant, PTL

\* For every configuration file the second pass of ParseConfigFile stays inside
\* the array that the first pass has sized.
THEOREM NoOverrun == ParseSpec => []StaysInArray
<1>1. ParseInv => StaysInArray
  BY EntriesFit DEF ParseInv
<1> QED
  BY <1>1, ParseInvariant, PTL

\* For every configuration file the copy of a value reads only characters of the
\* line that the value is in.
THEOREM CopiesStayInLine == ParseSpec => []CopiesOwnLine
<1>1. ParseInv => CopiesOwnLine
  BY DEF ParseInv, InvLine, CopiesOwnLine
<1> QED
  BY <1>1, ParseInvariant, PTL

-----------------------------------------------------------------------------
\* The separators ": " of the line that position k is in, in front of k.
Separators(k) == {t \in 1 .. k - 1 : IsSeparator(t) /\ SameLine(t, k - 1)}

\* The line that ends at e is the one for field f of entry n.
LineFor(e, n, f) == IsLineEnd(e) /\ EntryAt(e) = n /\ Cardinality(LinesBefore(e)) = f

\* The line that ends at e has one ": ", at s, and a field to go to.
ValueAt(e, s) ==
  IsLineEnd(e) /\ Separators(e) = {s} /\ Cardinality(LinesBefore(e)) \in Fields

\* What the second loop knows at position k: write is set behind the first ": " of the
\* line, and cur_char counts from there when it is the only one.
WriteOK(k) ==
  /\ write <=> Separators(k) # {}
  /\ ~write => cur_char = 0
  /\ \A s \in 1 .. length : Separators(k) = {s} => cur_char = k - 1 - s

\* The lines that end in front of k are stored, and nothing else is.
StoredOK(k) ==
  /\ cur_value = Cardinality(LinesBefore(k))
  /\ \A e \in 1 .. k - 1, s \in 1 .. length :
       ValueAt(e, s) =>
         result[EntryAt(e)][Cardinality(LinesBefore(e))] = [first |-> s + 1, last |-> e - 1]
  /\ \A n \in 0 .. result_size - 1, f \in Fields :
       result[n][f] = NULL <=> ~\E e \in 1 .. k - 1 : LineFor(e, n, f)

InvStored ==
  /\ parser = "count" => ~write /\ cur_value = 0
  /\ parser # "count" => \A k \in Nat : k = idx => WriteOK(k) /\ StoredOK(k)
  /\ parser = "done" => idx = length + 1

\* The reference reading of the file depends on nothing but the file.
LEMMA ReadingConstant ==
  ASSUME FileData' = FileData
  PROVE  /\ length' = length
         /\ \A k : /\ IsLineEnd(k)' <=> IsLineEnd(k)
                   /\ Separators(k)' = Separators(k)
                   /\ EntryAt(k)' = EntryAt(k)
                   /\ LinesBefore(k)' = LinesBefore(k)
<1>1. ASSUME NEW k
      PROVE  /\ IsLineEnd(k)' <=> IsLineEnd(k)
             /\ Separators(k)' = Separators(k)
             /\ EntryAt(k)' = EntryAt(k)
             /\ LinesBefore(k)' = LinesBefore(k)
  <2>1. IsLineEnd(k)' <=> IsLineEnd(k)
    BY DEF IsLineEnd, IsBlankLine
  <2>2. Separators(k)' = Separators(k)
    BY DEF Separators, IsSeparator, SameLine
  <2>3. EntryAt(k)' = EntryAt(k)
    BY DEF EntryAt, IsBlankLine
  <2>4. LinesBefore(k)' = LinesBefore(k)
    BY DEF LinesBefore, IsLineEnd, IsBlankLine
  <2> QED
    BY <2>1, <2>2, <2>3, <2>4
<1> QED
  BY <1>1 DEF length

\* What one more character does to the separators of the line.
LEMMA SeparatorsStep ==
  ASSUME NEW k \in Nat, k >= 1
  PROVE  /\ FileData[k] = "nl" => Separators(k + 1) = {}
         /\ FileData[k] # "nl" =>
              Separators(k + 1) = Separators(k) \cup (IF IsSeparator(k) THEN {k} ELSE {})
         /\ k \notin Separators(k)
         /\ k > 1 /\ FileData[k - 1] = "nl" => Separators(k) = {}
         /\ Separators(1) = {}
<1>1. (k + 1) - 1 = k
  OBVIOUS
<1>2. FileData[k] = "nl" => Separators(k + 1) = {}
  BY <1>1 DEF Separators, SameLine
<1>3. ASSUME FileData[k] # "nl"
      PROVE  Separators(k + 1) = Separators(k) \cup (IF IsSeparator(k) THEN {k} ELSE {})
  <2>1. ASSUME NEW t \in 1 .. k - 1
        PROVE  SameLine(t, k) <=> SameLine(t, k - 1)
    <3>1. \A u \in t .. k : u \in t .. k - 1 \/ u = k
      OBVIOUS
    <3>2. \A u \in t .. k - 1 : u \in t .. k
      OBVIOUS
    <3> QED
      BY <1>3, <3>1, <3>2 DEF SameLine
  <2>2. SameLine(k, k)
    BY <1>3 DEF SameLine
  <2>3. 1 .. k = (1 .. k - 1) \cup {k}
    OBVIOUS
  <2> HIDE DEF SameLine
  <2> QED
    BY <1>1, <2>1, <2>2, <2>3 DEF Separators
<1>4. k > 1 /\ FileData[k - 1] = "nl" => Separators(k) = {}
  BY DEF Separators, SameLine
<1>5. k \notin Separators(k) /\ Separators(1) = {}
  BY DEF Separators
<1> QED
  BY <1>2, <1>3, <1>4, <1>5

\* What one more character does to the lines of the entry.
LEMMA LinesStep ==
  ASSUME NEW k \in Nat, k >= 1
  PROVE  /\ IsFiniteSet(LinesBefore(k)) /\ Cardinality(LinesBefore(k)) \in Nat
         /\ IsBlankLine(k) => Cardinality(LinesBefore(k + 1)) = 0
         /\ IsLineEnd(k) => Cardinality(LinesBefore(k + 1)) = Cardinality(LinesBefore(k)) + 1
         /\ FileData[k] # "nl" => LinesBefore(k + 1) = LinesBefore(k)
         /\ Cardinality(LinesBefore(1)) = 0
<1>1. (k + 1) - 1 = k /\ 1 .. k = (1 .. k - 1) \cup {k}
  OBVIOUS
<1>2. IsFiniteSet(LinesBefore(k)) /\ Cardinality(LinesBefore(k)) \in Nat
  <2>1. IsFiniteSet(1 .. k - 1) /\ LinesBefore(k) \subseteq 1 .. k - 1
    BY FS_Interval DEF LinesBefore
  <2> QED
    BY <2>1, FS_Subset, FS_CardinalityType
<1>3. IsBlankLine(k) => LinesBefore(k + 1) = {}
  BY <1>1 DEF LinesBefore
<1>4. ASSUME ~IsBlankLine(k), NEW e \in 1 .. k - 1
      PROVE  (\E b \in e .. k : IsBlankLine(b)) <=> (\E b \in e .. k - 1 : IsBlankLine(b))
  <2>1. \A u \in e .. k : u \in e .. k - 1 \/ u = k
    OBVIOUS
  <2>2. \A u \in e .. k - 1 : u \in e .. k
    OBVIOUS
  <2> QED
    BY <1>4, <2>1, <2>2
<1>5. ASSUME IsLineEnd(k)
      PROVE  Cardinality(LinesBefore(k + 1)) = Cardinality(LinesBefore(k)) + 1
  <2>1. ~\E b \in k .. k : IsBlankLine(b)
    BY <1>5 DEF IsLineEnd
  <2>2. LinesBefore(k + 1) = LinesBefore(k) \cup {k}
    BY <1>1, <1>4, <1>5, <2>1 DEF LinesBefore, IsLineEnd
  <2>3. k \notin LinesBefore(k)
    BY DEF LinesBefore
  <2> QED
    BY <1>2, <2>2, <2>3, FS_AddElement
<1>6. ASSUME FileData[k] # "nl"
      PROVE  LinesBefore(k + 1) = LinesBefore(k)
  <2>1. ~IsBlankLine(k) /\ ~IsLineEnd(k)
    BY <1>6 DEF IsLineEnd, IsBlankLine
  <2> QED
    BY <1>1, <1>4, <2>1 DEF LinesBefore
<1>7. LinesBefore(1) = {}
  BY DEF LinesBefore
<1> QED
  BY <1>2, <1>3, <1>5, <1>6, <1>7, FS_EmptySet

\* Two lines of one entry go to two fields.
LEMMA LinesApart ==
  ASSUME NEW e \in Nat, NEW k \in Nat, 1 <= e, e < k, IsLineEnd(e), EntryAt(e) = EntryAt(k)
  PROVE  Cardinality(LinesBefore(e)) < Cardinality(LinesBefore(k))
<1>1. BlankLines(e - 1) = BlankLines(k - 1)
  <2>1. BlankLines(e - 1) \subseteq BlankLines(k - 1)
    BY DEF BlankLines
  <2>2. IsFiniteSet(BlankLines(k - 1))
    BY BlankLinesStep
  <2>3. Cardinality(BlankLines(e - 1)) = Cardinality(BlankLines(k - 1))
    BY DEF EntryAt, BlankLines
  <2> QED
    BY <2>1, <2>2, <2>3, FS_Subset
<1>2. \A b \in e .. k - 1 : ~IsBlankLine(b)
  <2> SUFFICES ASSUME NEW b \in e .. k - 1, IsBlankLine(b) PROVE FALSE
    OBVIOUS
  <2>1. b \in BlankLines(k - 1)
    BY DEF BlankLines
  <2>2. b \notin BlankLines(e - 1)
    BY DEF BlankLines
  <2> QED
    BY <1>1, <2>1, <2>2
<1>3. LinesBefore(e) \cup {e} \subseteq LinesBefore(k)
  <2>1. e \in LinesBefore(k)
    BY <1>2 DEF LinesBefore
  <2>2. ASSUME NEW u \in LinesBefore(e)
        PROVE  u \in LinesBefore(k)
    <3>1. u \in 1 .. e - 1 /\ IsLineEnd(u) /\ \A b \in u .. e - 1 : ~IsBlankLine(b)
      BY DEF LinesBefore
    <3>2. \A b \in u .. k - 1 : b \in u .. e - 1 \/ b \in e .. k - 1
      BY <3>1
    <3>3. \A b \in u .. k - 1 : ~IsBlankLine(b)
      BY <1>2, <3>1, <3>2
    <3> QED
      BY <3>1, <3>3 DEF LinesBefore
  <2> QED
    BY <2>1, <2>2
<1>4. e \notin LinesBefore(e)
  BY DEF LinesBefore
<1>5. /\ IsFiniteSet(LinesBefore(e)) /\ Cardinality(LinesBefore(e)) \in Nat
      /\ IsFiniteSet(LinesBefore(k)) /\ Cardinality(LinesBefore(k)) \in Nat
  BY LinesStep
<1>6. Cardinality(LinesBefore(e) \cup {e}) = Cardinality(LinesBefore(e)) + 1
  BY <1>4, <1>5, FS_AddElement
<1>7. Cardinality(LinesBefore(e) \cup {e}) <= Cardinality(LinesBefore(k))
  BY <1>3, <1>5, FS_Subset
<1> QED
  BY <1>5, <1>6, <1>7

\* The entry of a line lies in the array.
LEMMA EntryInArray ==
  ASSUME ParseTypeOK, InvEntries, parser # "count", NEW e \in 1 .. length + 1
  PROVE  EntryAt(e) \in 0 .. result_size - 1
<1>1. length \in Nat /\ e - 1 \in Nat /\ e - 1 <= length
  BY FileType
<1>2. /\ Cardinality(BlankLines(e - 1)) \in Nat /\ Cardinality(BlankLines(length)) \in Nat
      /\ Cardinality(BlankLines(e - 1)) <= Cardinality(BlankLines(length))
  BY <1>1, BlankLinesStep, BlankLinesMonotone
<1>3. EntryAt(e) = Cardinality(BlankLines(e - 1))
  BY DEF EntryAt, BlankLines
<1> QED
  BY <1>2, <1>3 DEF InvEntries

\* The allocated array is empty, and so is what has been read of the file.
LEMMA AllocateStores ==
  ASSUME ParseTypeOK, InvLine, InvStored, Allocate
  PROVE  InvStored'
<1>1. /\ parser = "count" /\ parser' = "store" /\ idx' = 1 /\ FileData' = FileData
      /\ result' = [s \in 0 .. result_size - 1 |-> [f \in Fields |-> NULL]]
      /\ UNCHANGED <<result_size, cur_value, cur_char, write>>
  BY DEF Allocate
<1>2. ~write /\ cur_value = 0 /\ cur_char = 0
  BY <1>1 DEF InvStored, InvLine
<1>3. Separators(1)' = {} /\ Cardinality(LinesBefore(1)') = 0
  BY <1>1, ReadingConstant, SeparatorsStep, LinesStep
<1>4. WriteOK(1)'
  BY <1>1, <1>2, <1>3 DEF WriteOK
<1>5. StoredOK(1)'
  <2>1. \A n \in 0 .. result_size - 1, f \in Fields : result'[n][f] = NULL
    BY <1>1
  <2> QED
    BY <1>1, <1>2, <1>3, <2>1 DEF StoredOK
<1> QED
  BY <1>1, <1>4, <1>5 DEF InvStored

\* write and cur_char follow the separators of the line.
LEMMA WriteStep ==
  ASSUME ParseTypeOK, InvEntries, InvLine, NEW k \in Nat, k = idx, WriteOK(k),
         NextEntry \/ EndOfLine \/ Separator \/ OtherCharacter
  PROVE  WriteOK(k + 1)'
<1>1. /\ idx <= length /\ idx' = idx + 1 /\ FileData' = FileData /\ length \in Nat /\ k >= 1
      /\ length' = length /\ cur_char \in Nat
  BY StoreSteps, FileType, ReadingConstant DEF ParseTypeOK
<1>2. Separators(k + 1)' = Separators(k + 1)
  BY <1>1, ReadingConstant
<1>3. IsSeparator(k) <=> cur = "space" /\ prev = "colon"
  <2>1. CASE k = 1
    BY <2>1 DEF IsSeparator, InvEntries
  <2>2. CASE k # 1
    BY <1>1, <2>2 DEF IsSeparator, InvEntries, cur
  <2> QED
    BY <2>1, <2>2
<1>4. CASE NextEntry
  <2>1. cur = "nl" /\ prev = "nl" /\ UNCHANGED <<cur_char, write>>
    BY <1>4 DEF NextEntry, BlankLine
  <2>2. k > 1 /\ FileData[k - 1] = "nl" /\ FileData[k] = "nl"
    BY <1>1, <2>1 DEF InvEntries, cur
  <2>3. Separators(k + 1) = {} /\ Separators(k) = {}
    BY <1>1, <2>2, SeparatorsStep
  <2>4. ~write /\ cur_char = 0
    BY <2>3 DEF WriteOK
  <2> QED
    BY <1>2, <2>1, <2>3, <2>4 DEF WriteOK
<1>5. CASE EndOfLine
  <2>1. cur = "nl" /\ ~write' /\ cur_char' = 0
    BY <1>5 DEF EndOfLine
  <2>2. Separators(k + 1) = {}
    BY <1>1, <2>1, SeparatorsStep DEF cur
  <2> QED
    BY <1>2, <2>1, <2>2 DEF WriteOK
<1>6. CASE Separator
  <2>1. cur = "space" /\ prev = "colon" /\ write' /\ cur_char' = cur_char
    BY <1>6 DEF Separator
  <2>2. FileData[k] # "nl"
    BY <2>1 DEF cur
  <2>3. Separators(k + 1) = Separators(k) \cup {k} /\ k \notin Separators(k)
    BY <1>1, <1>3, <2>1, <2>2, SeparatorsStep
  <2>4. ASSUME NEW s \in 1 .. length, Separators(k + 1) = {s}
        PROVE  cur_char = (k + 1) - 1 - s
    <3>1. s = k /\ Separators(k) = {}
      BY <2>3, <2>4
    <3>2. cur_char = 0
      BY <3>1 DEF WriteOK
    <3> QED
      BY <1>1, <3>1, <3>2
  <2> QED
    BY <1>1, <1>2, <2>1, <2>3, <2>4 DEF WriteOK
<1>7. CASE OtherCharacter
  <2>1. /\ cur # "nl" /\ ~(cur = "space" /\ prev = "colon")
        /\ cur_char' = IF write THEN cur_char + 1 ELSE cur_char
        /\ write' = write
    BY <1>7 DEF OtherCharacter
  <2>2. Separators(k + 1) = Separators(k)
    <3>1. FileData[k] # "nl" /\ ~IsSeparator(k)
      BY <1>3, <2>1 DEF cur
    <3> QED
      BY <1>1, <3>1, SeparatorsStep
  <2>3. ASSUME NEW s \in 1 .. length, Separators(k + 1) = {s}
        PROVE  cur_char' = (k + 1) - 1 - s
    <3>1. write /\ cur_char = k - 1 - s
      BY <2>2, <2>3 DEF WriteOK
    <3> QED
      BY <1>1, <2>1, <3>1
  <2> QED
    BY <1>1, <1>2, <2>1, <2>2, <2>3 DEF WriteOK
<1> QED
  BY <1>4, <1>5, <1>6, <1>7

\* A step that stores nothing: no line ends here.
LEMMA NoLineEnds ==
  ASSUME ParseTypeOK, NEW k \in Nat, k >= 1, StoredOK(k), ~IsLineEnd(k), FileData' = FileData,
         UNCHANGED <<result, result_size>>, cur_value' = Cardinality(LinesBefore(k + 1))
  PROVE  StoredOK(k + 1)'
<1>1. /\ \A e : /\ LinesBefore(e)' = LinesBefore(e) /\ EntryAt(e)' = EntryAt(e)
                /\ \A s : ValueAt(e, s)' <=> ValueAt(e, s)
                /\ \A n, f : LineFor(e, n, f)' <=> LineFor(e, n, f)
      /\ length' = length
  <2>1. \A e : /\ LinesBefore(e)' = LinesBefore(e) /\ EntryAt(e)' = EntryAt(e)
               /\ Separators(e)' = Separators(e) /\ (IsLineEnd(e)' <=> IsLineEnd(e))
    BY ReadingConstant
  <2>2. length' = length
    BY ReadingConstant
  <2> QED
    BY <2>1, <2>2 DEF ValueAt, LineFor
<1>2. \A e \in 1 .. (k + 1) - 1 : e \in 1 .. k - 1 \/ (e = k /\ ~IsLineEnd(e))
  OBVIOUS
<1>3. \A e \in 1 .. k - 1 : e \in 1 .. (k + 1) - 1
  OBVIOUS
<1>4. ASSUME NEW e \in 1 .. (k + 1) - 1, NEW s \in 1 .. length, ValueAt(e, s)
      PROVE  result[EntryAt(e)][Cardinality(LinesBefore(e))] = [first |-> s + 1, last |-> e - 1]
  BY <1>2, <1>4 DEF StoredOK, ValueAt
<1>5. ASSUME NEW n \in 0 .. result_size - 1, NEW f \in Fields
      PROVE  result[n][f] = NULL <=> ~\E e \in 1 .. (k + 1) - 1 : LineFor(e, n, f)
  <2>1. (\E e \in 1 .. (k + 1) - 1 : LineFor(e, n, f)) <=> (\E e \in 1 .. k - 1 : LineFor(e, n, f))
    BY <1>2, <1>3 DEF LineFor
  <2> QED
    BY <2>1 DEF StoredOK
<1> QED
  BY <1>1, <1>4, <1>5 DEF StoredOK

\* The end of a line stores its value where no other line of the file goes.
LEMMA LineEndsHere ==
  ASSUME ParseTypeOK, InvEntries, InvLine, NEW k \in Nat, k = idx, WriteOK(k), StoredOK(k), EndOfLine
  PROVE  StoredOK(k + 1)'
<1>1. /\ idx <= length /\ FileData' = FileData /\ result_size' = result_size /\ parser = "store"
      /\ length \in Nat /\ k >= 1 /\ k \in 1 .. length + 1
  BY StoreSteps, FileType DEF ParseTypeOK
<1>2. cur = "nl" /\ prev # "nl" /\ cur_value' = cur_value + 1
  BY DEF EndOfLine
<1>3. IsLineEnd(k)
  <2>1. ~IsBlankLine(k)
    BY <1>1, <1>2, BlankLineFound DEF BlankLine
  <2> QED
    BY <1>2, <2>1 DEF IsLineEnd, cur
<1>4. PICK c \in 0 .. result_size - 1 : c = EntryAt(k) /\ c = cur_struct
  <2>1. EntryAt(k) \in 0 .. result_size - 1
    BY <1>1, EntryInArray
  <2>2. EntryAt(k) = cur_struct
    BY <1>1 DEF EntryAt, InvEntries, BlankLines
  <2> QED
    BY <2>1, <2>2
<1>5. PICK v \in Nat : v = Cardinality(LinesBefore(k)) /\ v = cur_value
  BY <1>1, LinesStep DEF StoredOK
<1>6. PICK w : w = [first |-> idx - cur_char, last |-> idx - 1]
  OBVIOUS
<1>7. w \in Value
  BY <1>6 DEF Value, InvLine, ParseTypeOK
<1>8. /\ v \in Fields => result'[c][v] = w
      /\ \A n \in 0 .. result_size - 1, f \in Fields : n # c \/ f # v => result'[n][f] = result[n][f]
  <2>1. result' = IF v \in Fields THEN [result EXCEPT ![c][v] = w] ELSE result
    BY <1>4, <1>5, <1>6 DEF EndOfLine
  <2>2. result \in [0 .. result_size - 1 -> [Fields -> Value \cup {NULL}]]
    BY <1>1 DEF ParseTypeOK
  <2> QED
    BY <2>1, <2>2
<1>9. /\ \A e : /\ LinesBefore(e)' = LinesBefore(e) /\ EntryAt(e)' = EntryAt(e)
                /\ \A s : ValueAt(e, s)' <=> ValueAt(e, s)
                /\ \A n, f : LineFor(e, n, f)' <=> LineFor(e, n, f)
      /\ length' = length
  <2>1. \A e : /\ LinesBefore(e)' = LinesBefore(e) /\ EntryAt(e)' = EntryAt(e)
               /\ Separators(e)' = Separators(e) /\ (IsLineEnd(e)' <=> IsLineEnd(e))
    BY <1>1, ReadingConstant
  <2>2. length' = length
    BY <1>1, ReadingConstant
  <2> QED
    BY <2>1, <2>2 DEF ValueAt, LineFor
<1>10. \A e \in 1 .. (k + 1) - 1 : e \in 1 .. k - 1 \/ e = k
  OBVIOUS
<1>11. \A e \in 1 .. k - 1 : IsLineEnd(e) => EntryAt(e) # c \/ Cardinality(LinesBefore(e)) # v
  <2> SUFFICES ASSUME NEW e \in 1 .. k - 1, IsLineEnd(e), EntryAt(e) = c
               PROVE  Cardinality(LinesBefore(e)) # v
    OBVIOUS
  <2>1. e \in Nat /\ 1 <= e /\ e < k /\ EntryAt(e) = EntryAt(k)
    BY <1>4
  <2>2. Cardinality(LinesBefore(e)) < Cardinality(LinesBefore(k))
    BY <2>1, LinesApart
  <2>3. Cardinality(LinesBefore(e)) \in Nat
    BY <2>1, LinesStep
  <2> QED
    BY <1>5, <2>2, <2>3
<1>12. cur_value' = Cardinality(LinesBefore(k + 1))
  <2>1. Cardinality(LinesBefore(k + 1)) = Cardinality(LinesBefore(k)) + 1
    BY <1>1, <1>3, LinesStep
  <2> QED
    BY <1>2, <1>5, <2>1
<1>13. ASSUME NEW e \in 1 .. (k + 1) - 1, NEW s \in 1 .. length, ValueAt(e, s)
       PROVE  result'[EntryAt(e)][Cardinality(LinesBefore(e))] = [first |-> s + 1, last |-> e - 1]
  <2>1. CASE e = k
    <3>1. cur_char = k - 1 - s /\ v \in Fields
      BY <1>5, <1>13, <2>1 DEF ValueAt, WriteOK
    <3>2. w = [first |-> s + 1, last |-> k - 1]
      BY <1>1, <1>6, <3>1
    <3> QED
      BY <1>4, <1>5, <1>8, <2>1, <3>1, <3>2
  <2>2. CASE e \in 1 .. k - 1
    <3>1. IsLineEnd(e) /\ Cardinality(LinesBefore(e)) \in Fields
      BY <1>13 DEF ValueAt
    <3>2. EntryAt(e) \in 0 .. result_size - 1
      <4>1. e \in 1 .. length + 1
        BY <1>1, <2>2
      <4> QED
        BY <1>1, <4>1, EntryInArray
    <3>3. result'[EntryAt(e)][Cardinality(LinesBefore(e))] = result[EntryAt(e)][Cardinality(LinesBefore(e))]
      BY <1>8, <1>11, <2>2, <3>1, <3>2
    <3> QED
      BY <1>13, <2>2, <3>3 DEF StoredOK
  <2> QED
    BY <1>10, <2>1, <2>2
<1>14. ASSUME NEW n \in 0 .. result_size - 1, NEW f \in Fields
       PROVE  result'[n][f] = NULL <=> ~\E e \in 1 .. (k + 1) - 1 : LineFor(e, n, f)
  <2>1. k \in 1 .. (k + 1) - 1 /\ \A e \in 1 .. k - 1 : e \in 1 .. (k + 1) - 1
    BY <1>1
  <2>2. CASE n = c /\ f = v
    <3>1. LineFor(k, n, f)
      BY <1>3, <1>4, <1>5, <2>2 DEF LineFor
    <3>2. result'[n][f] # NULL
      BY <1>7, <1>8, <2>2, FilesAssumption
    <3> QED
      BY <2>1, <3>1, <3>2
  <2>3. CASE n # c \/ f # v
    <3>1. ~LineFor(k, n, f)
      BY <1>4, <1>5, <2>3 DEF LineFor
    <3>2. (\E e \in 1 .. (k + 1) - 1 : LineFor(e, n, f)) <=> (\E e \in 1 .. k - 1 : LineFor(e, n, f))
      BY <1>10, <2>1, <3>1
    <3>3. result'[n][f] = result[n][f]
      BY <1>8, <2>3
    <3> QED
      BY <3>2, <3>3 DEF StoredOK
  <2> QED
    BY <2>2, <2>3
<1> QED
  BY ZenonT(30), <1>1, <1>9, <1>12, <1>13, <1>14 DEF StoredOK

\* The second loop stores what it reads, character by character.
LEMMA InvStoredPreserved ==
  ASSUME ParseTypeOK, InvEntries, InvLine, InvStored, [ParseNext]_parseVars
  PROVE  InvStored'
<1>1. CASE CountBlankLines
  BY <1>1 DEF CountBlankLines, InvStored
<1>2. CASE Allocate
  BY <1>2, AllocateStores
<1>3. CASE NextEntry \/ EndOfLine \/ Separator \/ OtherCharacter
  <2>1. /\ parser = "store" /\ parser' = "store" /\ idx <= length /\ idx' = idx + 1
        /\ UNCHANGED <<FileData, result_size>>
    BY <1>3, StoreSteps
  <2>2. PICK k \in Nat : k = idx /\ k >= 1
    BY FileType DEF ParseTypeOK
  <2>3. WriteOK(k) /\ StoredOK(k)
    BY <2>1, <2>2 DEF InvStored
  <2>4. WriteOK(k + 1)'
    BY <1>3, <2>2, <2>3, WriteStep
  <2>5. StoredOK(k + 1)'
    <3>1. CASE EndOfLine
      BY <2>2, <2>3, <3>1, LineEndsHere
    <3>2. CASE NextEntry
      <4>1. BlankLine /\ cur_value' = 0 /\ result' = result
        BY <3>2 DEF NextEntry
      <4>2. IsBlankLine(k)
        BY <2>1, <2>2, <4>1, BlankLineFound
      <4>3. ~IsLineEnd(k) /\ cur_value' = Cardinality(LinesBefore(k + 1))
        BY <2>2, <4>1, <4>2, LinesStep DEF IsLineEnd
      <4> QED
        BY <2>1, <2>2, <2>3, <4>1, <4>3, NoLineEnds
    <3>3. CASE Separator \/ OtherCharacter
      <4>1. cur # "nl" /\ UNCHANGED <<cur_value, result>>
        BY <3>3 DEF Separator, OtherCharacter
      <4>2. FileData[k] # "nl"
        BY <2>2, <4>1 DEF cur
      <4>3. ~IsLineEnd(k) /\ cur_value' = Cardinality(LinesBefore(k + 1))
        BY <2>2, <2>3, <4>1, <4>2, LinesStep DEF IsLineEnd, StoredOK
      <4> QED
        BY <2>1, <2>2, <2>3, <4>1, <4>3, NoLineEnds
    <3> QED
      BY <1>3, <3>1, <3>2, <3>3
  <2> QED
    BY <2>1, <2>2, <2>4, <2>5 DEF InvStored
<1>4. CASE EndOfFile \/ UNCHANGED parseVars
  <2>1. /\ UNCHANGED <<FileData, idx, result_size, result, cur_value, cur_char, write>>
        /\ parser' = parser \/ (parser = "store" /\ parser' = "done" /\ idx = length + 1)
    BY <1>4 DEF EndOfFile, parseVars
  <2>2. ASSUME NEW k \in Nat, WriteOK(k), StoredOK(k)
        PROVE  WriteOK(k)' /\ StoredOK(k)'
    <3>1. \A e : /\ LinesBefore(e)' = LinesBefore(e) /\ EntryAt(e)' = EntryAt(e)
                 /\ Separators(e)' = Separators(e) /\ (IsLineEnd(e)' <=> IsLineEnd(e))
      BY <2>1, ReadingConstant
    <3>2. length' = length
      BY <2>1, ReadingConstant
    <3>3. WriteOK(k)'
      BY <2>1, <2>2, <3>1, <3>2 DEF WriteOK
    <3>4. StoredOK(k)'
      BY <2>1, <2>2, <3>1, <3>2 DEF StoredOK, ValueAt, LineFor
    <3> QED
      BY <3>3, <3>4
  <2>3. length' = length
    BY <2>1, ReadingConstant
  <2> QED
    BY <2>1, <2>2, <2>3 DEF InvStored
<1> QED
  BY <1>1, <1>2, <1>3, <1>4 DEF ParseNext

\* Read to the end, the file is in the array as it is written.
LEMMA StoredIsParsed ==
  ASSUME ParseTypeOK, InvEntries, InvStored
  PROVE  ParsedAsWritten
<1> SUFFICES ASSUME parser = "done" PROVE ParsedAsWritten
  BY DEF ParsedAsWritten
<1>1. length \in Nat /\ idx = length + 1 /\ (length + 1) - 1 = length
  BY FileType DEF InvStored
<1>2. StoredOK(length + 1)
  BY <1>1 DEF InvStored
<1>3. result_size = EntryAt(length + 1) + 1
  <2>1. EntryAt(length + 1) = Cardinality(BlankLines(length)) /\ Cardinality(BlankLines(length)) \in Nat
    BY <1>1, BlankLinesStep DEF EntryAt, BlankLines
  <2> QED
    BY <2>1 DEF InvEntries
<1>4. ASSUME NEW e \in 1 .. length, NEW s \in 1 .. length,
             IsLineEnd(e), IsSeparator(s), s < e, SameLine(s, e - 1),
             \A t \in 1 .. e - 1 : IsSeparator(t) /\ SameLine(t, e - 1) => t = s,
             Cardinality(LinesBefore(e)) \in Fields
      PROVE  result[EntryAt(e)][Cardinality(LinesBefore(e))] = [first |-> s + 1, last |-> e - 1]
  <2>1. s \in 1 .. e - 1
    BY <1>1, <1>4
  <2>2. Separators(e) = {s}
    BY <1>4, <2>1 DEF Separators
  <2>3. ValueAt(e, s)
    BY <1>4, <2>2 DEF ValueAt
  <2> QED
    BY <1>1, <1>2, <2>3 DEF StoredOK
<1>5. \A n \in 0 .. result_size - 1, f \in Fields :
        result[n][f] = NULL <=>
          ~\E e \in 1 .. length :
             IsLineEnd(e) /\ EntryAt(e) = n /\ Cardinality(LinesBefore(e)) = f
  BY <1>1, <1>2 DEF StoredOK, LineFor
<1> QED
  BY <1>3, <1>4, <1>5 DEF ParsedAsWritten

\* For every configuration file, when the parser is done the value of every line with
\* one ": " is the rest of that line, in the field and the entry that the line counts
\* for; entries are as many as blank lines separate; a field without a line is zero.
THEOREM FileIsParsed == ParseSpec => []ParsedAsWritten
<1>1. ParseInit => InvStored
  BY DEF ParseInit, InvStored
<1>2. ParseInv /\ InvStored /\ [ParseNext]_parseVars => InvStored'
  BY InvStoredPreserved DEF ParseInv
<1>3. ParseInv /\ InvStored => ParsedAsWritten
  BY StoredIsParsed DEF ParseInv
<1> QED
  BY <1>1, <1>2, <1>3, ParseInvariant, PTL DEF ParseSpec

-----------------------------------------------------------------------------
(***************************************************************************)
(* The loader: the key of the memory map.                                    *)
(***************************************************************************)
\* Until somebody allocates memory, the key that fitted is the current one.
KeyIsFresh == loader = "exit" /\ fits /\ quiet => MapKey = mapVersion

\* Every step of the loader keeps the key fresh and the kernel alone.
LEMMA KeyStep ==
  ASSUME KeyIsFresh, KernelRunsAlone, [LoaderNext]_loaderVars
  PROVE  KeyIsFresh' /\ KernelRunsAlone'
<1>1. CASE GetMemoryMap
  BY <1>1 DEF GetMemoryMap, KeyIsFresh, KernelRunsAlone
<1>2. CASE FirmwareAllocates
  BY <1>2 DEF FirmwareAllocates, keyVars, KeyIsFresh, KernelRunsAlone
<1>3. CASE ExitBootServices
  BY <1>3 DEF ExitBootServices, KeyIsFresh, KernelRunsAlone
<1>4. CASE \/ AllocateParameters \/ LoadFile \/ LoadFileFails \/ AllocateKernel
           \/ FreeBuffer \/ GetMapSize \/ AllocateMapPool
  <2>1. loader' \in {"LoadFile", "range", "undefined", "copy", "mapSize", "pool", "map"}
    BY SMTT(30), <1>4 DEF AllocateParameters, LoadFile, LoadFileFails, AllocateKernel, FreeBuffer,
       GetMapSize, AllocateMapPool
  <2> QED
    BY <2>1 DEF KeyIsFresh, KernelRunsAlone
<1>5. CASE CopySegment
  BY <1>5 DEF CopySegment, keyVars, KeyIsFresh, KernelRunsAlone
<1>6. CASE UNCHANGED loaderVars
  BY <1>6 DEF loaderVars, keyVars, KeyIsFresh, KernelRunsAlone
<1> QED
  BY <1>1, <1>2, <1>3, <1>4, <1>5, <1>6 DEF LoaderNext

\* Whichever application runs, the others stand still.
LEMMA OneApplicationSteps ==
  ASSUME [FirmwareNext]_firmwareVars
  PROVE  /\ [MainNext]_mainVars \/ ([Game3Next]_game3Vars /\ UNCHANGED <<gameOnly, mainOnly>>)
         /\ [MazeNext]_mazeVars
         /\ [WordleNext]_wordleVars
         /\ [LoaderNext]_loaderVars
BY DEF FirmwareNext, firmwareVars, game3Vars, mainVars, gameVars

\* When the map fitted and no driver allocated memory in between, the boot
\* services have ended before the kernel is entered: the pool for the map is
\* allocated before the key is taken (XV6/xv6.c).
THEOREM KernelIsAlone == FirmwareSpec => []KernelRunsAlone
<1>1. FirmwareInit => KeyIsFresh /\ KernelRunsAlone
  BY DEF FirmwareInit, LoaderInit, KeyIsFresh, KernelRunsAlone
<1>2. KeyIsFresh /\ KernelRunsAlone /\ [FirmwareNext]_firmwareVars
        => KeyIsFresh' /\ KernelRunsAlone'
  BY OneApplicationSteps, KeyStep
<1> QED
  BY <1>1, <1>2, PTL DEF FirmwareSpec

-----------------------------------------------------------------------------
(***************************************************************************)
(* The game of the 2D boot manager: what is on the screen.                   *)
(***************************************************************************)
\* The player is on the map, and plays when all entries are placed.
ScreenInv ==
  /\ Cur \in Cells
  /\ game # "place" => place = "done"
  /\ game = "key" => screen = [c \in Cells |-> Picture(c, c = Cur)]

\* A key leads to another cell of the map unless the player is at its border.
LEMMA TargetOnMap ==
  ASSUME Cur \in Cells, NEW key \in Keys, ~AtBorder(key)
  PROVE  Target(key) \in Cells /\ Target(key) # Cur
<1>1. /\ CurX \in 0 .. MapWidth - 1 /\ CurY \in 0 .. MapHeight - 1
      /\ MapWidth \in Nat /\ MapHeight \in Nat
  BY SizeAssumption DEF Cur, Cells
<1>2. CASE key = "SCAN_UP"
  BY <1>1, <1>2 DEF AtBorder, Target, Cells, Cur
<1>3. CASE key = "SCAN_DOWN"
  BY <1>1, <1>3 DEF AtBorder, Target, Cells, Cur
<1>4. CASE key = "SCAN_LEFT"
  BY <1>1, <1>4 DEF AtBorder, Target, Cells, Cur
<1>5. CASE key = "SCAN_RIGHT"
  BY <1>1, <1>5 DEF AtBorder, Target, Cells, Cur
<1> QED
  BY <1>2, <1>3, <1>4, <1>5 DEF Keys

\* Placing is over when the game is played.
LEMMA NoPlacingWhenDone ==
  ASSUME place = "done" PROVE ~PlaceNext
BY DEF PlaceNext, StartEntry, DivideByZero, PassCell, MakeExit, IconTrap, AtDrawnCell,
   EndScan, EndPlace

\* A step of the game keeps the screen in order.
LEMMA ScreenStep ==
  ASSUME ScreenInv, [GameNext]_gameVars
  PROVE  ScreenInv'
<1>1. CASE Placing
  BY <1>1 DEF Placing, gameOnly, ScreenInv, Cur
<1>2. CASE DrawMap
  <2>1. UNCHANGED <<Map, CurX, CurY>> /\ place' = "done" /\ game' = "key"
    BY <1>2 DEF DrawMap, placeVars
  <2> QED
    BY <1>2, <2>1 DEF DrawMap, ScreenInv, Cur, Picture
<1>3. ASSUME NEW key \in Keys, Walk(key)
      PROVE  ScreenInv'
  <2>1. PICK new \in Cells : new = Target(key) /\ new # Cur
    BY <1>3, TargetOnMap DEF Walk, ScreenInv
  <2>2. /\ game = "key" /\ Map' = Map /\ place' = place
        /\ CurX' = new[1] /\ CurY' = new[2]
        /\ screen' = [screen EXCEPT ![Cur] = Picture(Cur, FALSE), ![new] = Picture(new, TRUE)]
    BY <1>3, <2>1 DEF Walk, placeVars
  <2>3. Cur' = new
    BY <2>1, <2>2 DEF Cur, Cells
  <2>4. screen = [c \in Cells |-> Picture(c, c = Cur)]
    BY <2>2 DEF ScreenInv
  <2>5. screen' = [c \in Cells |-> Picture(c, c = new)]
    BY <2>1, <2>2, <2>4 DEF ScreenInv, Picture
  <2>6. screen' = [c \in Cells |-> Picture(c, c = Cur)']
    BY <2>2, <2>3, <2>5 DEF Picture
  <2> QED
    BY <2>1, <2>2, <2>3, <2>6 DEF ScreenInv
<1>4. ASSUME \/ \E key \in Keys : Bump(key)
             \/ \E key \in Keys \cup {"other"} : NoMove(key)
             \/ Escape
      PROVE  ScreenInv'
  <2>1. game = "key" /\ UNCHANGED <<Map, place, CurX, CurY, screen>>
    BY <1>4 DEF Bump, NoMove, Escape, placeVars
  <2> QED
    BY <2>1 DEF ScreenInv, Cur, Picture
<1>5. CASE Return
  BY <1>5 DEF Return, placeVars, ScreenInv, Cur
<1>6. CASE UNCHANGED gameVars
  BY <1>6 DEF gameVars, placeVars, gameOnly, ScreenInv, Cur, Picture
<1> QED
  BY <1>1, <1>2, <1>3, <1>4, <1>5, <1>6 DEF GameNext, ReadKey

\* Every step of the game is a step of PlaceBootEntries or leaves its state alone.
LEMMA GameStepsPlace ==
  ASSUME [GameNext]_gameVars
  PROVE  [PlaceNext]_placeVars
BY DEF GameNext, ReadKey, Placing, DrawMap, Walk, Bump, NoMove, Escape, Return, gameVars

\* The screen shows the map that PlaceBootEntries has made, and every texture
\* on it exists.
LEMMA ScreenShown ==
  ASSUME PlaceInv, ScreenInv
  PROVE  ScreenShowsMap
<1>1. SUFFICES ASSUME game = "key", NEW c \in Cells
               PROVE  screen[c].texture < TexturesCount
  BY DEF ScreenShowsMap, ScreenInv
<1>2. Map[c] < TexturesCount
  BY <1>1 DEF PlaceInv, InvMap, ScreenInv
<1> QED
  BY <1>1, <1>2 DEF ScreenInv, Picture

\* While the player plays the 2D game, every cell shows its own texture, the
\* sprite is on the player's cell and nowhere else, and Textures[Map[...]] is
\* inside the array (DemoGame.c), on every map and however many entries.
THEOREM ScreenAlwaysShowsMap == GameSpec => []ScreenShowsMap
<1>1. GameInit => PlaceInv /\ ScreenInv
  BY PlaceInvInit, StartAssumption DEF GameInit, ScreenInv, Cur, Start
<1>2. (PlaceInv /\ ScreenInv) /\ [GameNext]_gameVars => (PlaceInv /\ ScreenInv)'
  BY GameStepsPlace, PlaceInvPreserved, ScreenStep
<1>3. PlaceInv /\ ScreenInv => ScreenShowsMap
  BY ScreenShown
<1> QED
  BY <1>1, <1>2, <1>3, PTL DEF GameSpec

-----------------------------------------------------------------------------
(***************************************************************************)
(* The game of the 2D boot manager implements the labyrinth.                 *)
(***************************************************************************)
\* The exits are where the map has their textures, and the cells between them
\* are as they were.
ExitsKnown ==
  place = "done" =>
    /\ ExitCells = [e \in Entries |-> ExitCells[e]]
    /\ \A e \in Entries : ExitCells[e] \in EscapeCells(Maze) /\ ExitsOf(e) = {ExitCells[e]}
    /\ \A c \in Cells : Map[c] < bootable_start => Map[c] = Maze[c]
    /\ \A c \in Cells : Map[c] >= bootable_start =>
         Map[c] - bootable_start \in Entries /\ ExitCells[Map[c] - bootable_start] = c

\* That is what PlaceBootEntries leaves on a map with enough escape cells.
LEMMA WhereExitsAre ==
  ASSUME PlaceInv, EnoughEscapes
  PROVE  ExitsKnown
<1> SUFFICES ASSUME place = "done" PROVE ExitsKnown
  BY DEF ExitsKnown
<1>1. /\ Len(BootTextures) = BootEntriesCount
      /\ \A e \in Entries : \E c \in EscapeCells(Maze) : ExitsOf(e) = {c}
  BY PlaceInvImplies DEF EveryEntryHasItsExit
<1>2. ExitCells = [e \in Entries |-> CHOOSE c \in Cells : Map[c] = bootable_start + e]
  BY DEF ExitCells
<1>3. ASSUME NEW e \in Entries
      PROVE  /\ ExitCells[e] \in EscapeCells(Maze)
             /\ ExitsOf(e) = {ExitCells[e]}
  <2>1. PICK c \in EscapeCells(Maze) : ExitsOf(e) = {c}
    BY <1>1
  <2>2. c \in Cells /\ Map[c] = bootable_start + e
        /\ \A d \in Cells : Map[d] = bootable_start + e => d = c
    BY <2>1 DEF ExitsOf, EscapeCells
  <2>3. (CHOOSE d \in Cells : Map[d] = bootable_start + e) = c
    BY <2>2
  <2> QED
    BY <1>2, <2>1, <2>3
<1>4. ASSUME NEW c \in Cells, Map[c] < bootable_start
      PROVE  Map[c] = Maze[c]
  BY <1>4, ConfigAssumption DEF PlaceInv, InvMap, OnlyEscapesBecomeExits, PlaceTypeOK
<1>5. ASSUME NEW c \in Cells, Map[c] >= bootable_start
      PROVE  Map[c] - bootable_start \in Entries /\ ExitCells[Map[c] - bootable_start] = c
  <2>1. Map[c] \in Nat /\ Map[c] < bootable_start + BootEntriesCount
        /\ BootEntriesCount \in Nat /\ bootable_start \in Nat
    BY <1>1, ConfigAssumption DEF PlaceInv, InvMap, TexturesCount, PlaceTypeOK
  <2>2. PICK e \in Entries : e = Map[c] - bootable_start
    BY <1>5, <2>1 DEF Entries
  <2>3. c \in ExitsOf(e)
    BY <2>1, <2>2 DEF ExitsOf
  <2> QED
    BY <1>3, <2>2, <2>3
<1> QED
  BY <1>2, <1>3, <1>4, <1>5 DEF ExitsKnown

\* A step towards a key is to an adjacent cell.
LEMMA TargetAdjacent ==
  ASSUME Cur \in Cells, NEW key \in Keys, ~AtBorder(key)
  PROVE  Adjacent(Cur, Target(key))
<1>1. /\ CurX \in 0 .. MapWidth - 1 /\ CurY \in 0 .. MapHeight - 1
      /\ MapWidth \in Nat /\ MapHeight \in Nat
  BY SizeAssumption DEF Cur, Cells
<1>2. CASE key = "SCAN_UP"
  BY <1>1, <1>2 DEF AtBorder, Target, Adjacent, Cur
<1>3. CASE key = "SCAN_DOWN"
  BY <1>1, <1>3 DEF AtBorder, Target, Adjacent, Cur
<1>4. CASE key = "SCAN_LEFT"
  BY <1>1, <1>4 DEF AtBorder, Target, Adjacent, Cur
<1>5. CASE key = "SCAN_RIGHT"
  BY <1>1, <1>5 DEF AtBorder, Target, Adjacent, Cur
<1> QED
  BY <1>2, <1>3, <1>4, <1>5 DEF Keys

\* A step of the game is a step of the labyrinth or is not seen there.
LEMMA LabyrinthStep ==
  ASSUME UninitValues \subseteq 0 .. bootable_start - 1,
         PlaceInv, ScreenInv, ExitsKnown, ExitsKnown', [GameNext]_gameVars
  PROVE  L!Next \/ UNCHANGED L!labyrinthVars
<1>1. /\ UNCHANGED <<Maze, BootEntriesCount>> /\ Entries' = Entries
      /\ 0 \in Entries /\ bootable_start \in Nat \ {0}
  <2>1. UNCHANGED <<Maze, BootEntriesCount>>
    BY GameStepsPlace, MapSteps
  <2>2. BootEntriesCount \in Nat /\ BootEntriesCount >= 1
    BY ConfigAssumption DEF PlaceInv, PlaceTypeOK
  <2> QED
    BY <2>1, <2>2, ConfigAssumption DEF Entries
<1>2. /\ EscapeCells(Maze)' = EscapeCells(Maze)
      /\ {c \in Cells : Maze[c] = 0}' = {c \in Cells : Maze[c] = 0}
  BY <1>1 DEF EscapeCells, IsEscape
<1>3. CASE Placing
  <2>1. game = "place" /\ UNCHANGED <<CurX, CurY, EntryToBoot, game>> /\ place # "done"
    BY <1>3, NoPlacingWhenDone DEF Placing, gameOnly
  <2>2. ExitCells = << >> /\ DOMAIN << >> = {}
    BY <2>1 DEF ExitCells
  <2>3. CASE place' = "done"
    <3>1. /\ ExitCells' \in [Entries -> EscapeCells(Maze)]
          /\ \A e \in Entries : ExitsOf(e)' = {ExitCells'[e]}
      BY <1>1, <1>2, <2>3 DEF ExitsKnown
    <3>2. ASSUME NEW e \in Entries, NEW f \in Entries, ExitCells'[e] = ExitCells'[f]
          PROVE  e = f
      <4>1. PICK c \in Cells : c \in ExitsOf(e)' /\ c \in ExitsOf(f)'
        BY <3>1, <3>2 DEF EscapeCells
      <4>2. Map'[c] = bootable_start + e /\ Map'[c] = bootable_start + f
        BY <4>1 DEF ExitsOf
      <4> QED
        BY <1>1, <4>2 DEF Entries
    <3>3. L!Hide
      BY <1>1, <1>2, <2>1, <2>2, <3>1, <3>2 DEF L!Hide, L!Hidden, Cur
    <3> QED
      BY <3>3 DEF L!Next
  <2>4. CASE place' # "done"
    <3>1. ExitCells' = << >>
      BY <2>4 DEF ExitCells
    <3> QED
      BY <1>1, <1>2, <2>1, <2>2, <3>1 DEF L!labyrinthVars, Cur
  <2> QED
    BY <2>3, <2>4
<1>4. ASSUME UNCHANGED placeVars
      PROVE  ExitCells' = ExitCells
  BY <1>4 DEF placeVars, ExitCells, Entries
<1>5. CASE DrawMap
  <2>1. game = "place" /\ game' = "key" /\ UNCHANGED <<CurX, CurY, EntryToBoot, ExitCells>>
    BY <1>4, <1>5 DEF DrawMap
  <2> QED
    BY <1>1, <1>2, <2>1 DEF L!labyrinthVars, Cur
<1>6. ASSUME game = "key"
      PROVE  /\ DOMAIN ExitCells = Entries
             /\ \A c \in Cells : Map[c] < bootable_start => Map[c] = Maze[c]
             /\ \A c \in Cells : Map[c] >= bootable_start =>
                  /\ Map[c] - bootable_start \in Entries
                  /\ ExitCells[Map[c] - bootable_start] = c
  BY <1>6 DEF ExitsKnown, ScreenInv
<1>7. ASSUME NEW key \in Keys, Walk(key)
      PROVE  L!Next
  <2>1. PICK new \in Cells : new = Target(key) /\ Adjacent(Cur, new)
    BY <1>7, TargetOnMap, TargetAdjacent DEF Walk, ScreenInv
  <2>2. /\ game = "key" /\ UNCHANGED placeVars /\ ~Blocked(Map[new])
        /\ CurX' = new[1] /\ CurY' = new[2] /\ CheckExit(Map[new], FALSE)
    BY <1>7, <2>1 DEF Walk
  <2>3. Cur' = new
    BY <2>1, <2>2 DEF Cur, Cells
  <2>4. Map[new] \in Nat
    BY DEF PlaceInv, PlaceTypeOK
  <2>5. CASE Map[new] = 0
    <3>1. Maze[new] = 0 /\ game' = "key" /\ EntryToBoot' = EntryToBoot
      BY <1>1, <1>6, <2>2, <2>5 DEF CheckExit
    <3>2. L!Walk
      BY <1>1, <1>2, <1>4, <1>6, <2>1, <2>2, <2>3, <3>1 DEF L!Walk, L!Hidden
    <3> QED
      BY <3>2 DEF L!Next
  <2>6. CASE Map[new] >= bootable_start
    <3>1. PICK e \in Entries : e = Map[new] - bootable_start /\ ExitCells[e] = new
      BY <1>6, <2>2, <2>6
    <3>2. EntryToBoot' = e /\ game' = "fill" /\ e # ESCAPE_ENTRY
      <4>1. e \in Nat
        BY DEF Entries
      <4> QED
        BY <2>2, <2>6, <3>1, <4>1, StartAssumption DEF CheckExit
    <3>3. L!WalkOut
      BY <1>1, <1>2, <1>4, <1>6, <2>1, <2>2, <2>3, <3>1, <3>2 DEF L!WalkOut, L!Hidden
    <3> QED
      BY <3>3 DEF L!Next
  <2> QED
    BY <1>1, <2>2, <2>4, <2>5, <2>6 DEF Blocked
<1>8. ASSUME NEW MapValue, MapValue < bootable_start, CheckExit(MapValue, FALSE),
             MapValue \in Nat, game = "key", UNCHANGED <<placeVars, CurX, CurY>>
      PROVE  UNCHANGED L!labyrinthVars
  <2>1. game' = "key" /\ EntryToBoot' = EntryToBoot
    BY <1>1, <1>8 DEF CheckExit
  <2> QED
    BY <1>1, <1>2, <1>4, <1>8, <2>1 DEF L!labyrinthVars, Cur
<1>9. ASSUME NEW key \in Keys, Bump(key)
      PROVE  UNCHANGED L!labyrinthVars
  <2>1. Target(key) \in Cells
    BY <1>9, TargetOnMap DEF Bump, ScreenInv
  <2>2. Map[Target(key)] \in Nat /\ Map[Target(key)] < bootable_start
    BY <1>9, <2>1 DEF Bump, Blocked, PlaceInv, PlaceTypeOK
  <2> QED
    BY <1>8, <1>9, <2>2 DEF Bump
<1>10. ASSUME NEW key \in Keys \cup {"other"}, NoMove(key)
       PROVE  UNCHANGED L!labyrinthVars
  <2>1. PICK MapValue \in UninitValues : CheckExit(MapValue, FALSE)
    BY <1>10 DEF NoMove
  <2>2. MapValue \in Nat /\ MapValue < bootable_start
    BY <1>1, <2>1
  <2>3. game = "key" /\ UNCHANGED <<placeVars, CurX, CurY>>
    BY <1>10 DEF NoMove
  <2> QED
    BY <1>8, <2>1, <2>2, <2>3
<1>11. CASE Escape
  <2>1. PICK MapValue \in UninitValues : CheckExit(MapValue, TRUE)
    BY <1>11 DEF Escape
  <2>2. game = "key" /\ game' = "fill" /\ UNCHANGED <<placeVars, CurX, CurY, EntryToBoot>>
    BY <1>1, <1>11, <2>1 DEF Escape, CheckExit
  <2>3. L!Quit
    BY <1>1, <1>2, <1>4, <1>6, <2>2 DEF L!Quit, L!Hidden, Cur
  <2> QED
    BY <2>3 DEF L!Next
<1>12. CASE Return
  <2>1. game = "fill" /\ game' = "returned" /\ UNCHANGED <<CurX, CurY, EntryToBoot, ExitCells>>
    BY <1>4, <1>12 DEF Return
  <2> QED
    BY <1>1, <1>2, <2>1 DEF L!labyrinthVars, Cur
<1>13. CASE UNCHANGED gameVars
  <2>1. UNCHANGED <<game, CurX, CurY, EntryToBoot, ExitCells>>
    BY <1>4, <1>13 DEF gameVars, gameOnly
  <2> QED
    BY <1>1, <1>2, <2>1 DEF L!labyrinthVars, Cur
<1> QED
  BY <1>3, <1>5, <1>7, <1>9, <1>10, <1>11, <1>12, <1>13 DEF GameNext, ReadKey

\* Where every map has the escape cells that the #define promises and an
\* unassigned MapValue holds no value of an exit, the game is the labyrinth of
\* Labyrinth.tla, but for its liveness: every entry is hidden behind a door of
\* its own, the player walks on the floor only, and the entry that is chosen is
\* the one whose door the player walked through (DemoGame.c, Game).
THEOREM GameIsLabyrinth ==
  ASSUME UninitValues \subseteq 0 .. bootable_start - 1,
         \A m \in Mazes : HasEnoughEscapes(m)
  PROVE  GameSpec => L!Init /\ [][L!Next]_(L!labyrinthVars)
<1>1. GameInit => L!Init
  <2> SUFFICES ASSUME GameInit PROVE L!Init
    OBVIOUS
  <2>1. Maze \in Mazes /\ place = "entry" /\ game = "place" /\ EntryToBoot = ESCAPE_ENTRY
        /\ CurX = StartX /\ CurY = StartY
    BY DEF GameInit, PlaceInit
  <2>2. Start \in Cells /\ Maze[Start] = 0 /\ Cur = Start
    BY <2>1, StartAssumption DEF Start, Cur
  <2>3. EscapeCells(Maze) \subseteq Cells \ {c \in Cells : Maze[c] = 0}
    BY DEF EscapeCells, IsEscape
  <2>4. ExitCells = << >>
    BY <2>1 DEF ExitCells
  <2> QED
    BY <2>1, <2>2, <2>3, <2>4 DEF L!Init
<1>2. GameInit => PlaceInv /\ ScreenInv
  BY PlaceInvInit, StartAssumption DEF GameInit, ScreenInv, Cur, Start
<1>3. (PlaceInv /\ ScreenInv) /\ [GameNext]_gameVars => (PlaceInv /\ ScreenInv)'
  BY GameStepsPlace, PlaceInvPreserved, ScreenStep
<1>4. PlaceInv => ExitsKnown
  <2>1. PlaceInv => Maze \in Mazes
    BY DEF PlaceInv, PlaceTypeOK
  <2>2. Maze \in Mazes => EnoughEscapes
    BY DEF EnoughEscapes
  <2> QED
    BY <2>1, <2>2, WhereExitsAre
<1>5. PlaceInv /\ ScreenInv /\ ExitsKnown /\ ExitsKnown' /\ [GameNext]_gameVars
        => [L!Next]_(L!labyrinthVars)
  BY LabyrinthStep
<1> QED
  BY <1>1, <1>2, <1>3, <1>4, <1>5, PTL DEF GameSpec

-----------------------------------------------------------------------------
(***************************************************************************)
(* UefiMain of the 2D boot manager: what is started.                         *)
(***************************************************************************)
\* The order of the start-up.
LEMMA StartUpOrder ==
  /\ Steps = {"LocateCurFSHandle", "ParseConfigFile", "LocateFSPartitions",
              "ParseMazeConfigFile", "ParseTexturesConfigFile", "ReadBMP", "ParseSprite"}
  /\ After("LocateCurFSHandle") = "ParseConfigFile"
  /\ After("ParseConfigFile") = "LocateFSPartitions"
  /\ After("LocateFSPartitions") = "ParseMazeConfigFile"
  /\ After("ParseMazeConfigFile") = "ParseTexturesConfigFile"
  /\ After("ParseTexturesConfigFile") = "ReadBMP"
  /\ After("ReadBMP") = "ParseSprite"
  /\ After("ParseSprite") = "Game"
BY DEF Steps, After, StartUp

\* The partitions can be counted.
LEMMA PartitionsCounted ==
  ASSUME handles \in HandleLists
  PROVE  PartitionsCount \in Nat
<1>1. Len(handles) \in Nat
  BY VolumeAssumption
<1>2. IsFiniteSet(0 .. Len(handles) - 1)
  BY <1>1, FS_Interval
<1>3. IsFiniteSet({k \in 0 .. Len(handles) - 1 : OnHardDrive(k)})
  BY <1>2, FS_Subset
<1> QED
  BY <1>3, FS_CardinalityType DEF PartitionsCount

\* An element of the array is zero, or describes a handle with its own guid.
PartitionsRead ==
  \A s \in 0 .. PartitionsCount - 1 :
    \/ partitions[s] = Zeroed
    \/ \E k \in 0 .. Len(handles) - 1 :
         partitions[s] = [guid |-> handles[k + 1], handle |-> k]

\* Errors end the program; BootEntry runs with an entry that exists and with the
\* partitions that were read; and an image is started last.
MainInv ==
  /\ BootEntriesCount \in 1 .. MaxBootEntries /\ handles \in HandleLists /\ slot \in Nat
  /\ main # "returned" => Status = "EFI_SUCCESS" /\ ~loadFailed
  /\ main = "BootEntry" => EntryToBoot \in Entries
  /\ main \in {"ParseMazeConfigFile", "ParseTexturesConfigFile", "ReadBMP", "ParseSprite",
               "Game", "BootEntry"} => PartitionsRead
  /\ started # {} => main \in {"StartImage", "returned"}
  /\ StartedIsChosen

\* The array that LocateFSPartitions fills.
LEMMA PartitionsFilled ==
  ASSUME LocateFSPartitions
  PROVE  PartitionsRead'
<1>1. /\ handles' = handles
      /\ partitions' = [s \in 0 .. PartitionsCount - 1 |->
           IF \E k \in Written : StoredAt(k) = s
             THEN LET k == CHOOSE k \in Written : StoredAt(k) = s
                  IN  [guid |-> handles[k + 1], handle |-> k]
             ELSE Zeroed]
  BY DEF LocateFSPartitions
<1>2. PartitionsCount' = PartitionsCount
  BY <1>1 DEF PartitionsCount, OnHardDrive
<1>3. ASSUME NEW s \in 0 .. PartitionsCount - 1
      PROVE  \/ partitions'[s] = Zeroed
             \/ \E k \in 0 .. Len(handles) - 1 :
                  partitions'[s] = [guid |-> handles[k + 1], handle |-> k]
  <2>1. CASE \E k \in Written : StoredAt(k) = s
    <3>1. PICK k \in Written : k = CHOOSE j \in Written : StoredAt(j) = s
      BY <2>1
    <3>2. partitions'[s] = [guid |-> handles[k + 1], handle |-> k]
      BY <1>1, <2>1, <3>1
    <3>3. k \in 0 .. Len(handles) - 1
      BY <3>1 DEF Written
    <3> QED
      BY <3>2, <3>3
  <2>2. CASE ~ \E k \in Written : StoredAt(k) = s
    BY <1>1, <2>2
  <2> QED
    BY <2>1, <2>2
<1> QED
  BY <1>1, <1>2, <1>3 DEF PartitionsRead, Zeroed

\* The image comes from the partition whose guid matched.
LEMMA StartedMatches ==
  ASSUME MainInv, StartImage
  PROVE  StartedIsChosen'
<1>1. /\ main = "BootEntry" /\ slot < PartitionsCount /\ Matches(slot)
      /\ started' = {[entry |-> EntryToBoot, handle |-> partitions[slot].handle]}
      /\ UNCHANGED <<EntryToBoot, Status, loadFailed, handles>>
  BY DEF StartImage, gameVars, gameOnly
<1>2. slot \in 0 .. PartitionsCount - 1
  BY <1>1, PartitionsCounted DEF MainInv
<1>3. volume_guid[EntryToBoot] # NullGuid
  <2>1. EntryToBoot \in 0 .. MaxBootEntries - 1
    BY <1>1, ConfigAssumption DEF MainInv, Entries
  <2> QED
    BY <2>1, VolumeAssumption
<1>4. partitions[slot] # Zeroed
  BY <1>1, <1>3 DEF Matches, Zeroed
<1>5. PICK k \in 0 .. Len(handles) - 1 :
        partitions[slot] = [guid |-> handles[k + 1], handle |-> k]
  BY <1>1, <1>2, <1>4 DEF MainInv, PartitionsRead
<1>6. handles[partitions[slot].handle + 1] = volume_guid[EntryToBoot]
  BY <1>1, <1>5 DEF Matches
<1>7. Status = "EFI_SUCCESS" /\ ~loadFailed
  BY <1>1 DEF MainInv
<1> QED
  BY <1>1, <1>6, <1>7 DEF StartedIsChosen

\* Steps that touch neither the array nor what was started.
LEMMA SameMain ==
  ASSUME MainInv, UNCHANGED <<BootEntriesCount, handles, partitions, started>>, slot' \in Nat,
         started # {} => UNCHANGED <<EntryToBoot, Status, loadFailed>>
                         /\ main' \in {"StartImage", "returned"},
         main' # "returned" => Status' = "EFI_SUCCESS" /\ ~loadFailed',
         main' = "BootEntry" => EntryToBoot' \in Entries,
         main' \in {"ParseMazeConfigFile", "ParseTexturesConfigFile", "ReadBMP", "ParseSprite",
                    "Game", "BootEntry"} => PartitionsRead
  PROVE  MainInv'
<1>1. PartitionsCount' = PartitionsCount /\ Entries' = Entries
  BY DEF PartitionsCount, OnHardDrive, Entries
<1>2. PartitionsRead => PartitionsRead'
  BY <1>1 DEF PartitionsRead, Zeroed
<1>3. StartedIsChosen'
  BY DEF MainInv, StartedIsChosen
<1> QED
  BY <1>1, <1>2, <1>3 DEF MainInv

\* Every step of UefiMain.
LEMMA MainStep ==
  ASSUME MainInv, [MainNext]_mainVars
  PROVE  MainInv'
<1>1. CASE StepSucceeds
  <2>1. /\ main \in Steps \ {"LocateFSPartitions"} /\ main' = After(main)
        /\ UNCHANGED <<BootEntriesCount, handles, partitions, started, slot, EntryToBoot,
                       Status, loadFailed>>
    BY <1>1 DEF StepSucceeds, gameVars, gameOnly, placeVars
  <2>2. started = {}
    BY <2>1, StartUpOrder DEF MainInv
  <2>3. /\ main' \notin {"returned", "BootEntry"}
        /\ main' \in {"ParseMazeConfigFile", "ParseTexturesConfigFile", "ReadBMP",
                      "ParseSprite", "Game", "BootEntry"} => PartitionsRead
    BY <2>1, StartUpOrder DEF MainInv
  <2>4. Status' = "EFI_SUCCESS" /\ ~loadFailed'
    BY <2>1, StartUpOrder DEF MainInv
  <2> QED
    BY <2>1, <2>2, <2>3, <2>4, SameMain DEF MainInv
<1>2. CASE LocateFSPartitions
  <2>1. /\ main = "LocateFSPartitions" /\ main' = "ParseMazeConfigFile"
        /\ UNCHANGED <<BootEntriesCount, handles, started, slot, Status, loadFailed>>
    BY <1>2, StartUpOrder DEF LocateFSPartitions, gameVars, placeVars
  <2>2. started = {}
    BY <2>1 DEF MainInv
  <2> QED
    BY <1>2, <2>1, <2>2, PartitionsFilled DEF MainInv, StartedIsChosen
<1>3. CASE \/ StepFails \/ FailureIgnored \/ WriteOutOfBounds \/ GameTraps \/ ReadNullGuid
           \/ LoadImageFails \/ EndOfPartitions
  <2>1. /\ main \notin {"StartImage", "returned"} /\ main' \in {"returned", "undefined"}
        /\ main' = "undefined" => UNCHANGED <<Status, loadFailed>>
        /\ UNCHANGED <<BootEntriesCount, handles, partitions, started, slot>>
    BY <1>3 DEF StepFails, FailureIgnored, WriteOutOfBounds, GameTraps, ReadNullGuid,
       LoadImageFails, EndOfPartitions, Checked, Unchecked, gameVars, placeVars
  <2>2. started = {}
    BY <2>1 DEF MainInv
  <2>3. main' # "returned" => Status' = "EFI_SUCCESS" /\ ~loadFailed'
    BY <2>1 DEF MainInv
  <2> QED
    BY <2>1, <2>2, <2>3, SameMain DEF MainInv
<1>4. CASE AfterGame
  <2>1. /\ main = "Game" /\ main' \in {"returned", "BootEntry", "undefined"}
        /\ main' = "BootEntry" => EntryToBoot' \in Entries
        /\ UNCHANGED <<BootEntriesCount, handles, partitions, started, slot, Status, loadFailed>>
    BY <1>4 DEF AfterGame, gameVars, gameOnly, placeVars
  <2>2. started = {} /\ PartitionsRead /\ Status' = "EFI_SUCCESS" /\ ~loadFailed'
    BY <2>1 DEF MainInv
  <2> QED
    BY <2>1, <2>2, SameMain DEF MainInv
<1>5. CASE SkipPartition
  <2>1. /\ main = "BootEntry" /\ main' = main /\ slot' = slot + 1
        /\ UNCHANGED <<BootEntriesCount, handles, partitions, started, EntryToBoot, Status,
                       loadFailed>>
    BY <1>5 DEF SkipPartition, gameVars, gameOnly, placeVars
  <2>2. started = {} /\ slot' \in Nat
    BY <2>1 DEF MainInv
  <2> QED
    BY <2>1, <2>2, SameMain DEF MainInv
<1>6. CASE StartImage
  <2>1. /\ main' = "StartImage" /\ main = "BootEntry"
        /\ UNCHANGED <<BootEntriesCount, handles, slot, Status, loadFailed>>
    BY <1>6 DEF StartImage, gameVars, placeVars
  <2> QED
    BY <1>6, <2>1, StartedMatches DEF MainInv
<1>7. CASE PlayGame
  <2>1. /\ main = "Game" /\ [GameNext]_gameVars
        /\ UNCHANGED <<main, handles, partitions, started, slot, Status, loadFailed>>
    BY <1>7 DEF PlayGame, mainOnly
  <2>2. BootEntriesCount' = BootEntriesCount
    BY <2>1, GameStepsPlace, MapSteps
  <2>3. started = {}
    BY <2>1 DEF MainInv
  <2> QED
    BY <2>1, <2>2, <2>3, SameMain DEF MainInv
<1>8. CASE ImageExits
  <2>1. /\ main' = "returned"
        /\ UNCHANGED <<BootEntriesCount, handles, partitions, started, slot, EntryToBoot, Status,
                       loadFailed>>
    BY <1>8 DEF ImageExits, gameVars, gameOnly, placeVars
  <2> QED
    BY <2>1, SameMain DEF MainInv
<1>9. CASE UNCHANGED mainVars
  <2>1. UNCHANGED <<BootEntriesCount, handles, partitions, started, slot, EntryToBoot, Status,
                    loadFailed, main>>
    BY <1>9 DEF mainVars, mainOnly, gameVars, gameOnly, placeVars
  <2> QED
    BY <2>1, SameMain DEF MainInv
<1> QED
  BY <1>1, <1>2, <1>3, <1>4, <1>5, <1>6, <1>7, <1>8, <1>9 DEF MainNext, Program

\* The image that the 2D boot manager starts is the loader of the entry the game
\* returned, from a handle whose partition has the volume_guid of that entry, on
\* every list of file systems; nothing is started after an error (Main.c).
THEOREM ChosenIsStarted == FirmwareSpec => []StartedIsChosen
<1>1. FirmwareInit => MainInv
  BY DEF FirmwareInit, MainInit, GameInit, PlaceInit, MainInv, StartedIsChosen
<1>2. MainInv /\ [FirmwareNext]_firmwareVars => MainInv'
  <2> SUFFICES ASSUME MainInv, [FirmwareNext]_firmwareVars PROVE MainInv'
    OBVIOUS
  <2>1. CASE [MainNext]_mainVars
    BY <2>1, MainStep
  <2>2. CASE [Game3Next]_game3Vars /\ UNCHANGED <<gameOnly, mainOnly>>
    <3>1. BootEntriesCount' = BootEntriesCount
      <4>1. [PlaceNext]_placeVars
        BY <2>2 DEF Game3Next, Placing3, StartDrawing, DrawFrame, MoveBy, Turn, Escape3,
           Return3, game3Vars
      <4> QED
        BY <4>1, MapSteps
    <3>2. UNCHANGED <<handles, partitions, started, slot, EntryToBoot, Status, loadFailed, main>>
      BY <2>2 DEF mainOnly, gameOnly
    <3> QED
      BY <3>1, <3>2, SameMain DEF MainInv
  <2> QED
    BY <2>1, <2>2, OneApplicationSteps
<1>3. MainInv => StartedIsChosen
  BY DEF MainInv
<1> QED
  BY <1>1, <1>2, <1>3, PTL DEF FirmwareSpec

-----------------------------------------------------------------------------
(***************************************************************************)
(* Induction and recursion over a range of numbers, and the arithmetic of    *)
(* rows and columns.                                                         *)
(***************************************************************************)
\* A set of numbers that is not empty has a least element.
LEMMA LeastNumber ==
  ASSUME NEW S, S \subseteq Nat, S # {}
  PROVE  \E col \in S : \A row \in S : col <= row
<1>1. IsWellFoundedOn(OpToRel(<, Nat), Nat)
  BY NatLessThanWellFounded
<1> DEFINE R == OpToRel(<, Nat)
<1>2. \A col, row \in Nat : <<col, row>> \in R <=> col < row
  BY DEF OpToRel
<1> HIDE DEF R
<1>3. \E col \in S : \A row \in S : ~(<<row, col>> \in R)
  BY <1>1, WFMin DEF R
<1>4. PICK col \in S : \A row \in S : ~(<<row, col>> \in R)
  BY <1>3
<1>5. \A row \in S : ~(row < col)
  BY <1>2, <1>4
<1> QED
  BY <1>5

\* What holds of 0 and passes from each number of a range to the next holds of all.
LEMMA RangeInduction ==
  ASSUME NEW N \in Nat, NEW S, 0 \in S, \A n \in 0 .. N : n < N /\ n \in S => n + 1 \in S
  PROVE  \A n \in 0 .. N : n \in S
<1> SUFFICES ASSUME NEW n \in 0 .. N, n \notin S PROVE FALSE
  OBVIOUS
<1> DEFINE Bad == {k \in 0 .. N : k \notin S}
<1>1. Bad \subseteq Nat /\ Bad # {}
  OBVIOUS
<1>2. PICK col \in Bad : \A row \in Bad : col <= row
  BY <1>1, LeastNumber
<1>3. col \in 0 .. N /\ col \notin S /\ col # 0
  BY <1>2
<1>4. col - 1 \in 0 .. N /\ col - 1 < N /\ col - 1 \notin Bad /\ (col - 1) + 1 = col
  BY <1>2, <1>3
<1> QED
  BY <1>3, <1>4

\* The values that a recursion over a range of numbers gives.
FollowsStep(f, N, a, G) == f[0] = a /\ \A n \in 1 .. N : f[n] = G[<<n, f[n - 1]>>]

\* A recursion over a range of numbers defines a function.
LEMMA RangeRecursion ==
  ASSUME NEW N \in Nat, NEW T, NEW a \in T, NEW G \in [(0 .. N) \X T -> T]
  PROVE  \E f \in [0 .. N -> T] : FollowsStep(f, N, a, G)
<1> DEFINE Good(m, f) == f[0] = a /\ \A n \in 1 .. m : f[n] = G[<<n, f[n - 1]>>]
           S == {m \in 0 .. N : \E f \in [0 .. m -> T] : Good(m, f)}
<1>1. 0 \in S
  <2> DEFINE f == [u \in 0 .. 0 |-> a]
  <2>1. f \in [0 .. 0 -> T] /\ Good(0, f) /\ 0 \in 0 .. N
    OBVIOUS
  <2> HIDE DEF f, Good
  <2> QED
    BY <2>1
<1>2. ASSUME NEW m \in 0 .. N, m < N, m \in S
      PROVE  m + 1 \in S
  <2>1. PICK f \in [0 .. m -> T] : Good(m, f)
    BY <1>2
  <2> DEFINE g == [u \in 0 .. m + 1 |-> IF u <= m THEN f[u] ELSE G[<<m + 1, f[m]>>]]
  <2>2. f[m] \in T /\ m + 1 \in 0 .. N
    BY <1>2
  <2>3. g \in [0 .. m + 1 -> T]
    <3>1. G[<<m + 1, f[m]>>] \in T
      BY <2>2
    <3>2. \A u \in 0 .. m + 1 : u <= m => u \in 0 .. m
      OBVIOUS
    <3> QED
      BY <3>1, <3>2
  <2>4. Good(m + 1, g)
    <3>1. g[0] = a
      BY <2>1
    <3>2. ASSUME NEW n \in 1 .. m + 1
          PROVE  g[n] = G[<<n, g[n - 1]>>]
      <4>1. n - 1 \in 0 .. m /\ g[n - 1] = f[n - 1]
        OBVIOUS
      <4>2. CASE n <= m
        BY <2>1, <4>1, <4>2
      <4>3. CASE n = m + 1
        <5>1. g[m + 1] = G[<<m + 1, f[m]>>] /\ n - 1 = m
          BY <4>3
        <5> QED
          BY <4>1, <4>3, <5>1
      <4> QED
        BY <4>2, <4>3
    <3> QED
      BY <3>1, <3>2
  <2> HIDE DEF g, Good
  <2> QED
    BY <2>2, <2>3, <2>4
<1> HIDE DEF S
<1>3. N \in S
  BY <1>1, <1>2, RangeInduction
<1> QED
  BY <1>3 DEF S, FollowsStep

\* A number is known by its quotient and its remainder.
LEMMA QuotientUnique ==
  ASSUME NEW m \in Nat \ {0}, NEW q \in Nat, NEW p \in Nat,
         NEW r \in 0 .. m - 1, NEW s \in 0 .. m - 1, q * m + r = p * m + s
  PROVE  q = p /\ r = s
<1>1. ASSUME NEW col \in Nat, NEW row \in Nat, col < row
      PROVE  col * m + m <= row * m
  <2>1. PICK d \in Nat : row = col + 1 + d
    <3>1. row - (col + 1) \in Nat /\ row = col + 1 + (row - (col + 1))
      BY <1>1
    <3> QED
      BY <3>1
  <2>2. row * m = col * m + m + d * m /\ d * m \in Nat /\ col * m \in Nat
    BY <2>1
  <2> QED
    BY <2>2
<1>2. q * m \in Nat /\ p * m \in Nat
  OBVIOUS
<1>3. ~(q < p)
  BY <1>1, <1>2
<1>4. ~(p < q)
  BY <1>1, <1>2
<1> QED
  BY <1>2, <1>3, <1>4

\* Division with remainder.
LEMMA DivMod ==
  ASSUME NEW a \in Nat, NEW m \in Nat \ {0}
  PROVE  a \div m \in Nat /\ a % m \in 0 .. m - 1 /\ a = (a \div m) * m + (a % m)
OBVIOUS

\* Row and column of an index.
LEMMA RowColumn ==
  ASSUME NEW w \in Nat \ {0}, NEW col \in 0 .. w - 1, NEW row \in Nat
  PROVE  row * w + col \in Nat /\ (row * w + col) \div w = row /\ (row * w + col) % w = col
<1>1. row * w + col \in Nat
  OBVIOUS
<1>2. PICK a \in Nat : a = row * w + col
  BY <1>1
<1>3. a \div w \in Nat /\ a % w \in 0 .. w - 1 /\ a = (a \div w) * w + (a % w)
  BY DivMod
<1>4. (a \div w) * w + (a % w) = row * w + col
  BY <1>2, <1>3
<1>5. a \div w = row /\ a % w = col
  BY ONLY <1>3, <1>4, QuotientUnique, row \in Nat, col \in 0 .. w - 1, w \in Nat \ {0}
<1> QED
  BY <1>1, <1>2, <1>5

\* The indices of a table are those of its rows and columns.
LEMMA TableIndex ==
  ASSUME NEW w \in Nat \ {0}, NEW h \in Nat
  PROVE  /\ \A col \in 0 .. w - 1, row \in 0 .. h - 1 : row * w + col \in 0 .. w * h - 1
         /\ \A k \in 0 .. w * h - 1 : k % w \in 0 .. w - 1 /\ k \div w \in 0 .. h - 1
<1>1. ASSUME NEW col \in 0 .. w - 1, NEW row \in 0 .. h - 1
      PROVE  row * w + col \in 0 .. w * h - 1
  <2>1. PICK d \in Nat : h = row + 1 + d
    <3>1. h - (row + 1) \in Nat /\ h = row + 1 + (h - (row + 1))
      OBVIOUS
    <3> QED
      BY <3>1
  <2>2. w * h = row * w + w + d * w /\ d * w \in Nat /\ row * w \in Nat
    BY <2>1
  <2> QED
    BY <2>2
<1>2. ASSUME NEW k \in 0 .. w * h - 1
      PROVE  k % w \in 0 .. w - 1 /\ k \div w \in 0 .. h - 1
  <2>1. w * h \in Nat /\ k \in Nat
    OBVIOUS
  <2>2. k \div w \in Nat /\ k % w \in 0 .. w - 1 /\ k = (k \div w) * w + (k % w)
    BY <2>1, DivMod
  <2>3. PICK q \in Nat : q = k \div w
    BY <2>2
  <2>4. ~(q >= h)
    <3> SUFFICES ASSUME q >= h PROVE FALSE
      OBVIOUS
    <3>1. PICK d \in Nat : q = h + d
      <4>1. q - h \in Nat /\ q = h + (q - h)
        OBVIOUS
      <4> QED
        BY <4>1
    <3>2. q * w = w * h + d * w /\ d * w \in Nat
      BY <3>1
    <3> QED
      BY <2>1, <2>2, <2>3, <3>2
  <2> QED
    BY <2>2, <2>3, <2>4
<1> QED
  BY <1>1, <1>2

(***************************************************************************)
(* The maze.                                                                 *)
(***************************************************************************)
\* The first line feed of a text ends its first line.
LEMMA FirstLine ==
  ASSUME NEW data, NEW len \in Nat, len = Len(data), data[1] # "nl", NEW k \in 1 .. len, data[k] = "nl"
  PROVE  /\ LineWidth(data) \in Nat \ {0} /\ LineWidth(data) + 1 \in 1 .. k
         /\ data[LineWidth(data) + 1] = "nl" /\ \A j \in 1 .. LineWidth(data) : data[j] # "nl"
<1> DEFINE S == {j \in 1 .. len : data[j] = "nl"}
           P(col) == data[col] = "nl" /\ \A j \in 1 .. col - 1 : data[j] # "nl"
<1>1. PICK col \in S : \A row \in S : col <= row
  <2>1. S \subseteq Nat /\ S # {}
    OBVIOUS
  <2> QED
    BY <2>1, LeastNumber
<1>2. col \in 1 .. Len(data) /\ P(col)
  BY <1>1
<1>3. PICK c \in 1 .. Len(data) : P(c) /\ c = LineWidth(data) + 1
  <2> DEFINE c == CHOOSE c \in 1 .. Len(data) : P(c)
  <2>1. c \in 1 .. Len(data) /\ P(c)
    BY <1>2
  <2>2. LineWidth(data) = c - 1
    BY DEF LineWidth
  <2> HIDE DEF c
  <2> QED
    BY <2>1, <2>2
<1>4. LineWidth(data) = c - 1
  <2>1. LineWidth(data) = (CHOOSE z \in 1 .. Len(data) : P(z)) - 1
    BY DEF LineWidth
  <2>2. (CHOOSE z \in 1 .. Len(data) : P(z)) \in 1 .. Len(data)
    BY <1>2
  <2> QED
    BY <1>3, <2>1, <2>2
<1>5. c # 1 /\ c <= k
  BY <1>3
<1> QED
  BY <1>3, <1>4, <1>5

\* A range that starts at 1 determines its end.
LEMMA SameRange ==
  ASSUME NEW m \in Nat, NEW n \in Nat, 1 .. m = 1 .. n
  PROVE  m = n
<1>1. m # 0 => m \in 1 .. n
  <2>1. m # 0 => m \in 1 .. m
    OBVIOUS
  <2> QED
    BY <2>1
<1>2. n # 0 => n \in 1 .. m
  <2>1. n # 0 => n \in 1 .. n
    OBVIOUS
  <2> QED
    BY <2>1
<1>3. (m # 0 => m <= n) /\ (n # 0 => n <= m)
  BY <1>1, <1>2
<1> QED
  BY ONLY <1>3, m \in Nat, n \in Nat

\* The last byte of a file is no part of its first line.
LEMMA ReadKeeps ==
  ASSUME NEW file \in MazeFiles \cup SpriteFiles
  PROVE  /\ Len(file) \in Nat /\ Len(Read(file)) = Len(file)
         /\ \A j \in 1 .. Len(file) - 1 : Read(file)[j] = file[j]
         /\ LineWidth(file) \in Nat \ {0} /\ LineWidth(file) + 1 < Len(file)
         /\ LineWidth(Read(file)) = LineWidth(file)
         /\ file[LineWidth(file) + 1] = "nl" /\ \A j \in 1 .. LineWidth(file) : file[j] # "nl"
<1>1. file \in Seq(STRING) /\ file # << >> /\ file[1] # "nl"
  BY MazeAssumption
<1>2. PICK k \in 1 .. Len(file) - 1 : file[k] = "nl"
  BY MazeAssumption
<1>3. PICK len \in Nat : len = Len(file) /\ len > 0 /\ file \in [1 .. len -> STRING]
  BY <1>1
<1>4. PICK data : data = Read(file)
  OBVIOUS
<1>5. Len(data) = len /\ \A j \in 1 .. len - 1 : data[j] = file[j]
  <2>1. data = [j \in 1 .. len |-> IF j = len THEN "NUL" ELSE file[j]]
    BY <1>3, <1>4 DEF Read
  <2>2. PICK T : T = STRING \cup {"NUL"}
    OBVIOUS
  <2>3. data \in [1 .. len -> T]
    BY <1>3, <2>1, <2>2
  <2>4. data \in Seq(T)
    BY <1>3, <2>3
  <2>5. Len(data) \in Nat /\ 1 .. Len(data) = 1 .. len
    <3>1. Len(data) \in Nat /\ DOMAIN data = 1 .. Len(data)
      BY ONLY <2>4
    <3>2. DOMAIN data = 1 .. len
      BY ONLY <2>3
    <3> QED
      BY ONLY <3>1, <3>2
  <2>6. Len(data) = len
    BY ONLY <2>5, SameRange, len \in Nat
  <2>7. \A j \in 1 .. len - 1 : data[j] = file[j]
    <3>1. \A j \in 1 .. len - 1 : j \in 1 .. len /\ j # len
      BY ONLY len \in Nat
    <3> QED
      BY ONLY <2>1, <3>1
  <2> QED
    BY <2>6, <2>7
<1>6. k \in 1 .. len /\ k < len /\ data[k] = "nl" /\ data[1] # "nl"
  BY <1>1, <1>2, <1>3, <1>5
<1>7. PICK w : w = LineWidth(file)
  OBVIOUS
<1>8. w \in Nat \ {0} /\ w + 1 \in 1 .. k /\ file[w + 1] = "nl" /\ \A j \in 1 .. w : file[j] # "nl"
  BY <1>1, <1>2, <1>3, <1>6, <1>7, FirstLine
<1>9. PICK v : v = LineWidth(data)
  OBVIOUS
<1>10. v \in Nat \ {0} /\ v + 1 \in 1 .. k /\ data[v + 1] = "nl" /\ \A j \in 1 .. v : data[j] # "nl"
  BY <1>5, <1>6, <1>9, FirstLine
<1>11. v = w
  <2>1. ~(v < w)
    <3> SUFFICES ASSUME v < w PROVE FALSE
      OBVIOUS
    <3>1. v + 1 \in 1 .. w /\ v + 1 \in 1 .. len - 1
      BY <1>6, <1>8, <1>10
    <3> QED
      BY <1>5, <1>8, <1>10, <3>1
  <2>2. ~(w < v)
    <3> SUFFICES ASSUME w < v PROVE FALSE
      OBVIOUS
    <3>1. w + 1 \in 1 .. v /\ w + 1 \in 1 .. len - 1
      BY <1>6, <1>8, <1>10
    <3> QED
      BY <1>5, <1>8, <1>10, <3>1
  <2> QED
    BY <1>8, <1>10, <2>1, <2>2
<1> QED
  BY <1>3, <1>4, <1>5, <1>6, <1>7, <1>8, <1>9, <1>11

\* One number in m is a multiple of m.
LEMMA MultiplesCounted ==
  ASSUME NEW m \in Nat \ {0}, NEW len \in Nat
  PROVE  Cardinality({k \in 1 .. len : k % m = 0}) = len \div m
<1> DEFINE M(n) == {k \in 1 .. n : k % m = 0}
           S == {n \in 0 .. len : IsFiniteSet(M(n)) /\ Cardinality(M(n)) = n \div m}
<1>1. 0 \in S
  <2>1. M(0) = {} /\ 0 \in 0 .. len
    OBVIOUS
  <2>2. 0 \div m = 0
    <3>1. 0 \in Nat /\ 0 \in 0 .. m - 1 /\ 0 * m + 0 = 0
      OBVIOUS
    <3>2. (0 * m + 0) \div m = 0
      BY <3>1, RowColumn
    <3> QED
      BY <3>1, <3>2
  <2> HIDE DEF M
  <2> QED
    BY <2>1, <2>2, FS_EmptySet
<1>2. ASSUME NEW n \in 0 .. len, n < len, n \in S
      PROVE  n + 1 \in S
  <2>1. IsFiniteSet(M(n)) /\ Cardinality(M(n)) = n \div m /\ n + 1 \in 0 .. len /\ n + 1 \in Nat
    BY <1>2
  <2>2. PICK q, r : q = (n + 1) \div m /\ r = (n + 1) % m
    OBVIOUS
  <2>3. q \in Nat /\ r \in 0 .. m - 1 /\ n + 1 = q * m + r
    BY <2>1, <2>2, DivMod
  <2>4. CASE r = 0
    <3>1. q # 0
      BY <2>3, <2>4
    <3>2. PICK p \in Nat : q = p + 1
      <4>1. q - 1 \in Nat /\ q = (q - 1) + 1
        BY <2>3, <3>1
      <4> QED
        BY <4>1
    <3>3. n = p * m + (m - 1) /\ m - 1 \in 0 .. m - 1
      BY <2>3, <2>4, <3>2
    <3>4. n \div m = p
      BY <3>3, RowColumn
    <3>5. M(n + 1) = M(n) \cup {n + 1} /\ n + 1 \notin M(n)
      <4>1. \A k : k \in 1 .. n + 1 <=> k \in 1 .. n \/ k = n + 1
        OBVIOUS
      <4> QED
        BY <2>2, <2>4, <4>1
    <3> HIDE DEF M
    <3>6. IsFiniteSet(M(n + 1)) /\ Cardinality(M(n + 1)) = (n \div m) + 1
      BY <2>1, <3>5, FS_AddElement
    <3> QED
      BY <2>1, <2>2, <3>2, <3>4, <3>6
  <2>5. CASE r # 0
    <3>1. n = q * m + (r - 1) /\ r - 1 \in 0 .. m - 1
      BY <2>3, <2>5
    <3>2. n \div m = q
      BY <2>3, <3>1, RowColumn
    <3>3. M(n + 1) = M(n)
      <4>1. \A k : k \in 1 .. n + 1 <=> k \in 1 .. n \/ k = n + 1
        OBVIOUS
      <4> QED
        BY <2>2, <2>5, <4>1
    <3> HIDE DEF M
    <3> QED
      BY <2>1, <2>2, <3>2, <3>3
  <2> QED
    BY <2>4, <2>5
<1> HIDE DEF S
<1>3. len \in S
  BY <1>1, <1>2, RangeInduction
<1> QED
  BY <1>3 DEF S

\* The rows and columns of a rectangular file are those that ParseMazeFile counts, and
\* the byte that it overwrites is in none of them.
LEMMA FileShape ==
  ASSUME labyrinth \in MazeFiles, IsRectangle
  PROVE  /\ FileWidth \in Nat \ {0} /\ FileHeight \in Nat
         /\ LineWidth(Read(labyrinth)) = FileWidth
         /\ Len(Read(labyrinth)) \div (FileWidth + 1) = FileHeight
         /\ \A c \in FileCells :
              Read(labyrinth)[c[2] * (FileWidth + 1) + c[1] + 1] = FileAt(c)
         /\ FileWidth <= Resolution[1] /\ FileHeight <= Resolution[2]
<1>1. PICK w, h, len : w = FileWidth /\ h = FileHeight /\ len = Len(labyrinth)
  OBVIOUS
<1>2. /\ len \in Nat /\ w \in Nat \ {0} /\ Len(Read(labyrinth)) = len /\ LineWidth(Read(labyrinth)) = w
      /\ \A j \in 1 .. len - 1 : Read(labyrinth)[j] = labyrinth[j]
  BY <1>1, ReadKeeps DEF FileWidth
<1>3. h = len \div (w + 1)
  <2>1. {k \in 1 .. len : labyrinth[k] = "nl"} = {k \in 1 .. len : k % (w + 1) = 0}
    BY <1>1 DEF IsRectangle
  <2>2. h = Cardinality({k \in 1 .. len : k % (w + 1) = 0})
    BY <1>1, <2>1 DEF FileHeight
  <2>3. w + 1 \in Nat \ {0}
    BY <1>2
  <2> QED
    BY <1>2, <2>2, <2>3, MultiplesCounted
<1>4. h \in Nat /\ (w + 1) * h <= len
  <2>1. PICK m \in Nat \ {0} : m = w + 1
    BY <1>2
  <2>2. h \in Nat /\ len % m \in 0 .. m - 1 /\ len = h * m + (len % m)
    BY ZenonT(30), <1>2, <1>3, <2>1, DivMod
  <2>3. h * m = m * h /\ h * m \in Nat
    BY <2>2
  <2> QED
    BY <2>1, <2>2, <2>3
<1>5. ASSUME NEW c \in FileCells
      PROVE  Read(labyrinth)[c[2] * (w + 1) + c[1] + 1] = labyrinth[c[2] * (w + 1) + c[1] + 1]
  <2>1. PICK col \in 0 .. w - 1, row \in 0 .. h - 1 : c = <<col, row>>
    BY <1>1 DEF FileCells
  <2>2. PICK m \in Nat \ {0} : m = w + 1
    BY <1>2
  <2>3. col + 1 \in 0 .. m - 1 /\ row * m \in Nat
    BY <1>2, <2>1, <2>2
  <2>4. row * m + (col + 1) \in 0 .. m * h - 1
    BY <1>4, <2>1, <2>2, <2>3, TableIndex
  <2>5. m * h <= len /\ m * h \in Nat
    BY <1>4, <2>2
  <2>6. row * m + col + 1 \in 1 .. len - 1
    BY <1>2, <2>1, <2>3, <2>4, <2>5
  <2>7. c[2] * (w + 1) + c[1] + 1 = row * m + col + 1
    BY <2>1, <2>2
  <2> QED
    BY <1>2, <2>6, <2>7
<1>6. w <= Resolution[1] /\ h <= Resolution[2]
  BY <1>1, <1>3, MazeAssumption DEF FileWidth
<1> QED
  BY <1>1, <1>2, <1>3, <1>4, <1>5, <1>6 DEF FileAt

\* Index and coordinates of a cell.
LEMMA CellIndex ==
  ASSUME NEW w \in Nat \ {0}, NEW h \in Nat
  PROVE  /\ \A c \in (0 .. w - 1) \X (0 .. h - 1) :
              /\ c[2] * w + c[1] \in 0 .. w * h - 1
              /\ c = <<(c[2] * w + c[1]) % w, (c[2] * w + c[1]) \div w>>
         /\ \A k \in 0 .. w * h - 1 :
              /\ <<k % w, k \div w>> \in (0 .. w - 1) \X (0 .. h - 1)
              /\ (k \div w) * w + (k % w) = k
<1>1. ASSUME NEW c \in (0 .. w - 1) \X (0 .. h - 1)
      PROVE  /\ c[2] * w + c[1] \in 0 .. w * h - 1
             /\ c = <<(c[2] * w + c[1]) % w, (c[2] * w + c[1]) \div w>>
  <2>1. PICK col \in 0 .. w - 1, row \in 0 .. h - 1 : c = <<col, row>>
    OBVIOUS
  <2>2. row * w + col \in 0 .. w * h - 1
    BY TableIndex
  <2>3. (row * w + col) \div w = row /\ (row * w + col) % w = col
    BY RowColumn
  <2> QED
    BY <2>1, <2>2, <2>3
<1>2. ASSUME NEW k \in 0 .. w * h - 1
      PROVE  /\ <<k % w, k \div w>> \in (0 .. w - 1) \X (0 .. h - 1)
             /\ (k \div w) * w + (k % w) = k
  <2>1. w * h \in Nat /\ k \in Nat
    OBVIOUS
  <2>2. k % w \in 0 .. w - 1 /\ k \div w \in 0 .. h - 1
    BY TableIndex
  <2>3. k = (k \div w) * w + (k % w)
    BY <2>1, DivMod
  <2> QED
    BY <2>2, <2>3
<1> QED
  BY <1>1, <1>2

\* The cells of a file are finitely many.
LEMMA FileCellsFinite ==
  ASSUME labyrinth \in MazeFiles, IsRectangle
  PROVE  IsFiniteSet(FileCells) /\ Cardinality(FileCells) \in Nat
<1>1. FileWidth \in Nat \ {0} /\ FileHeight \in Nat
  BY FileShape
<1>2. IsFiniteSet(0 .. FileWidth - 1) /\ IsFiniteSet(0 .. FileHeight - 1)
  BY <1>1, FS_Interval
<1>3. IsFiniteSet(FileCells)
  BY <1>2, FS_Product DEF FileCells
<1> QED
  BY <1>3, FS_CardinalityType

\* The recursive definition of Corridors, unfolded.
LEMMA CorridorsStep ==
  ASSUME labyrinth \in MazeFiles, IsRectangle
  PROVE  /\ Corridors \in [0 .. Cardinality(FileCells) -> SUBSET FileCells]
         /\ Corridors[0] = {c \in FileCells : FileAt(c) = "o"}
         /\ \A n \in 1 .. Cardinality(FileCells) :
              Corridors[n] = Corridors[n - 1] \cup UNION {StepsTo(c) : c \in Corridors[n - 1]}
<1>1. PICK N \in Nat : N = Cardinality(FileCells)
  BY FileCellsFinite
<1> DEFINE T == SUBSET FileCells
           a == {c \in FileCells : FileAt(c) = "o"}
           G == [nS \in (0 .. N) \X T |-> nS[2] \cup UNION {StepsTo(c) : c \in nS[2]}]
           IsRec(f) == f = [n \in 0 .. N |->
                              IF n = 0 THEN a
                              ELSE f[n - 1] \cup UNION {StepsTo(c) : c \in f[n - 1]}]
<1>2. a \in T /\ G \in [(0 .. N) \X T -> T]
  <2>1. \A S \in T : UNION {StepsTo(c) : c \in S} \subseteq FileCells
    BY DEF StepsTo
  <2> QED
    BY <2>1
<1>3. PICK g \in [0 .. N -> T] : g[0] = a /\ \A n \in 1 .. N : g[n] = G[<<n, g[n - 1]>>]
  <2> HIDE DEF T, a, G
  <2>1. PICK U : U = T
    OBVIOUS
  <2>2. PICK b \in U : b = a
    BY <1>2, <2>1
  <2>3. PICK H \in [(0 .. N) \X U -> U] : H = G
    BY <1>2, <2>1
  <2>4. \E f \in [0 .. N -> U] : FollowsStep(f, N, b, H)
    BY ONLY N \in Nat, b \in U, H \in [(0 .. N) \X U -> U], RangeRecursion
  <2> QED
    BY <2>1, <2>2, <2>3, <2>4 DEF FollowsStep
<1>4. \A n \in 1 .. N : g[n] = g[n - 1] \cup UNION {StepsTo(c) : c \in g[n - 1]}
  <2> SUFFICES ASSUME NEW n \in 1 .. N
               PROVE  g[n] = g[n - 1] \cup UNION {StepsTo(c) : c \in g[n - 1]}
    OBVIOUS
  <2>1. n \in 0 .. N /\ n - 1 \in 0 .. N
    OBVIOUS
  <2>2. g[n - 1] \in T
    BY <2>1
  <2> QED
    BY <1>3, <2>1, <2>2
<1>5. IsRec(g)
  <2>1. \A n \in 0 .. N : n # 0 => n \in 1 .. N
    OBVIOUS
  <2> HIDE DEF a, T
  <2> QED
    BY <1>3, <1>4, <2>1
<1>6. Corridors = CHOOSE f : IsRec(f)
  BY <1>1 DEF Corridors
<1>7. IsRec(Corridors)
  <2> HIDE DEF IsRec
  <2> QED
    BY <1>5, <1>6
<1>8. Corridors[0] = a
  BY <1>7
<1>9. ASSUME NEW n \in 1 .. N
      PROVE  Corridors[n] = Corridors[n - 1] \cup UNION {StepsTo(c) : c \in Corridors[n - 1]}
  <2>1. n \in 0 .. N /\ n # 0
    OBVIOUS
  <2> HIDE DEF a
  <2> QED
    BY <1>7, <2>1
<1>10. \A n \in 0 .. N : Corridors[n] \in T
  <2> DEFINE S == {n \in 0 .. N : Corridors[n] \in T}
  <2>1. 0 \in S
    BY <1>2, <1>8
  <2>2. ASSUME NEW n \in 0 .. N, n < N, n \in S
        PROVE  n + 1 \in S
    <3>1. n + 1 \in 1 .. N /\ n + 1 \in 0 .. N /\ (n + 1) - 1 = n
      BY <2>2
    <3>2. Corridors[n + 1] = Corridors[n] \cup UNION {StepsTo(c) : c \in Corridors[n]}
      BY <1>9, <3>1
    <3>3. UNION {StepsTo(c) : c \in Corridors[n]} \subseteq FileCells
      BY DEF StepsTo
    <3> QED
      BY <2>2, <3>1, <3>2, <3>3
  <2> HIDE DEF S
  <2>3. \A n \in 0 .. N : n \in S
    BY <2>1, <2>2, RangeInduction
  <2> QED
    BY <2>3 DEF S
<1>11. Corridors \in [0 .. N -> T]
  <2>1. Corridors = [n \in 0 .. N |-> Corridors[n]]
    <3> HIDE DEF a
    <3> QED
      BY <1>7
  <2> QED
    BY <1>10, <2>1
<1> QED
  BY <1>1, <1>8, <1>9, <1>11

\* After as many steps as there are cells nothing new is reached: every step but the
\* last adds a cell.
LEMMA CorridorsClosed ==
  ASSUME labyrinth \in MazeFiles, IsRectangle, NEW o \in FileCells, FileAt(o) = "o"
  PROVE  /\ o \in Corridors[Cardinality(FileCells)]
         /\ \A c \in Corridors[Cardinality(FileCells)] :
              StepsTo(c) \subseteq Corridors[Cardinality(FileCells)]
<1>1. PICK N \in Nat : N = Cardinality(FileCells)
  BY FileCellsFinite
<1>2. /\ \A n \in 0 .. N : Corridors[n] \subseteq FileCells
      /\ o \in Corridors[0]
      /\ \A n \in 1 .. N :
           Corridors[n] = Corridors[n - 1] \cup UNION {StepsTo(c) : c \in Corridors[n - 1]}
  BY <1>1, CorridorsStep
<1> DEFINE Closed(A) == \A c \in A : StepsTo(c) \subseteq A
           S == {n \in 0 .. N : /\ o \in Corridors[n]
                                /\ Closed(Corridors[n]) \/ Cardinality(Corridors[n]) >= n + 1}
<1>3. \A n \in 0 .. N : IsFiniteSet(Corridors[n]) /\ Cardinality(Corridors[n]) \in Nat
  BY <1>2, FileCellsFinite, FS_Subset, FS_CardinalityType
<1>4. 0 \in S
  <2>1. Cardinality(Corridors[0]) # 0 /\ 0 \in 0 .. N
    BY <1>2, <1>3, FS_EmptySet
  <2>2. Cardinality(Corridors[0]) >= 0 + 1
    BY <1>3, <2>1
  <2> HIDE DEF Closed
  <2> QED
    BY <1>2, <2>1, <2>2
<1>5. ASSUME NEW n \in 0 .. N, n < N, n \in S
      PROVE  n + 1 \in S
  <2>1. n + 1 \in 1 .. N /\ n + 1 \in 0 .. N /\ (n + 1) - 1 = n
    BY <1>5
  <2>2. PICK A, B : A = Corridors[n] /\ B = Corridors[n + 1]
    OBVIOUS
  <2>3. B = A \cup UNION {StepsTo(c) : c \in A}
    BY <1>2, <2>1, <2>2
  <2>4. o \in A /\ (Closed(A) \/ Cardinality(A) >= n + 1)
    BY <1>5, <2>2
  <2>5. CASE Closed(A)
    <3>1. B = A
      BY <2>3, <2>5
    <3> HIDE DEF Closed
    <3> QED
      BY <2>1, <2>2, <2>4, <2>5, <3>1
  <2>6. CASE ~Closed(A)
    <3>1. PICK d : d \in B /\ d \notin A
      BY <2>3, <2>6
    <3>2. IsFiniteSet(A) /\ Cardinality(A) \in Nat /\ IsFiniteSet(B) /\ Cardinality(B) \in Nat
      BY <1>3, <2>1, <2>2
    <3>3. Cardinality(A \cup {d}) = Cardinality(A) + 1
      BY <3>1, <3>2, FS_AddElement
    <3>4. A \cup {d} \subseteq B
      BY <2>3, <3>1
    <3>5. Cardinality(A \cup {d}) <= Cardinality(B)
      BY <3>2, <3>4, FS_Subset
    <3>6. Cardinality(B) >= (n + 1) + 1 /\ o \in B
      BY <2>3, <2>4, <2>6, <3>2, <3>3, <3>5
    <3> HIDE DEF Closed
    <3> QED
      BY <2>1, <2>2, <3>6
  <2> QED
    BY <2>5, <2>6
<1>6. N \in S
  <2> HIDE DEF S
  <2>1. \A n \in 0 .. N : n < N /\ n \in S => n + 1 \in S
    BY <1>5
  <2>2. N \in 0 .. N
    OBVIOUS
  <2> QED
    BY <1>4, <2>1, <2>2, RangeInduction
<1>7. Cardinality(Corridors[N]) <= N
  <2>1. Corridors[N] \subseteq FileCells
    BY <1>2
  <2> QED
    BY <1>1, <2>1, FileCellsFinite, FS_Subset
<1>8. Cardinality(Corridors[N]) \in Nat
  BY <1>3
<1>9. o \in Corridors[N] /\ Closed(Corridors[N])
  <2>1. o \in Corridors[N] /\ (Closed(Corridors[N]) \/ Cardinality(Corridors[N]) >= N + 1)
    BY <1>6
  <2> HIDE DEF Closed
  <2> QED
    BY <1>7, <1>8, <2>1
<1> QED
  BY <1>1, <1>9

-----------------------------------------------------------------------------
\* The maze in memory is that of the file.
MazeRead ==
  /\ mazeWidth = FileWidth /\ mazeHeight = FileHeight
  /\ mazeCells = [k \in 0 .. FileWidth * FileHeight - 1 |->
                    CellOf(FileAt(<<k % FileWidth, k \div FileWidth>>))]

\* The sprite is at the player's cell and nowhere else.
ActorDrawn ==
  /\ DOMAIN video = DOMAIN mazeCells
  /\ {k \in DOMAIN video : video[k] = "actor"} = {IndexOf(pos)}

\* What the player knows at a key: the cell is in the maze and neither wall nor end.
OnTheWay ==
  /\ pos \in FileCells /\ FileAt(pos) \notin {"#", "x"}
  /\ pos \in Corridors[Cardinality(FileCells)]

MazeInv ==
  /\ labyrinth \in MazeFiles /\ sprite \in SpriteFiles /\ BootOptionCount \in Nat
  /\ WellFormedMaze =>
       /\ mazePhase \in {"draw", "key", "free", "returned"} => MazeRead
       /\ mazePhase \in {"key", "free", "returned"} => end \in FileCells /\ FileAt(end) = "x"
       /\ mazePhase = "key" => OnTheWay /\ ActorDrawn /\ SpriteInBox
       /\ mazePhase = "free" => escaped \/ pos = end
       /\ mazePhase = "returned" =>
            IF escaped THEN booted = {} ELSE booted = {3} /\ FileAt(pos) = "x"

\* What is said of the file depends on the file alone.
LEMMA MazeConstant ==
  ASSUME labyrinth' = labyrinth
  PROVE  /\ FileWidth' = FileWidth /\ FileHeight' = FileHeight /\ FileCells' = FileCells
         /\ \A c : FileAt(c)' = FileAt(c)
         /\ WellFormedMaze' <=> WellFormedMaze
         /\ Corridors' = Corridors
<1>1. FileWidth' = FileWidth /\ FileHeight' = FileHeight /\ FileCells' = FileCells
  BY DEF FileWidth, FileHeight, FileCells
<1>2. \A c : FileAt(c)' = FileAt(c)
  BY DEF FileAt, FileWidth
<1>3. WellFormedMaze' <=> WellFormedMaze
  BY DEF WellFormedMaze, IsRectangle, EdgeIsClosed, OneOf, FileAt, FileCells, FileWidth, FileHeight
<1>4. Corridors' = Corridors
  BY DEF Corridors, StepsTo, FileAt, FileCells, FileWidth, FileHeight
<1> QED
  BY <1>1, <1>2, <1>3, <1>4

\* ParseMazeFile reads the maze of the file.
LEMMA ParseReads ==
  ASSUME MazeInv, ParseMazeFile
  PROVE  MazeInv'
<1>1. /\ labyrinth' = labyrinth /\ sprite' = sprite /\ BootOptionCount' = BootOptionCount
      /\ mazePhase' = "draw"
  BY DEF ParseMazeFile, mazeInputs
<1>2. labyrinth' \in MazeFiles /\ sprite' \in SpriteFiles /\ BootOptionCount' \in Nat
  BY <1>1 DEF MazeInv
<1>3. ASSUME WellFormedMaze
      PROVE  MazeRead'
  <2>1. PICK w \in Nat \ {0}, h \in Nat : w = FileWidth /\ h = FileHeight
    BY <1>3, FileShape DEF WellFormedMaze, MazeInv
  <2>2. PICK data : data = Read(labyrinth)
    OBVIOUS
  <2>3. LineWidth(data) = w /\ Len(data) \div (w + 1) = h
    BY <1>3, <2>1, <2>2, FileShape DEF WellFormedMaze, MazeInv
  <2>4. /\ mazeWidth' = w /\ mazeHeight' = h
        /\ mazeCells' = [k \in 0 .. w * h - 1 |-> CellOf(data[(k \div w) * (w + 1) + (k % w) + 1])]
    BY <2>2, <2>3 DEF ParseMazeFile
  <2>5. ASSUME NEW k \in 0 .. w * h - 1
        PROVE  data[(k \div w) * (w + 1) + (k % w) + 1] = FileAt(<<k % w, k \div w>>)
    <3>1. PICK col \in 0 .. w - 1, row \in 0 .. h - 1 : col = k % w /\ row = k \div w
      BY TableIndex
    <3>2. <<col, row>> \in FileCells
      BY <2>1 DEF FileCells
    <3>3. data[<<col, row>>[2] * (w + 1) + <<col, row>>[1] + 1] = FileAt(<<col, row>>)
      BY <1>3, <2>1, <2>2, <3>2, FileShape DEF WellFormedMaze, MazeInv
    <3> QED
      BY <3>1, <3>3
  <2>6. mazeCells' = [k \in 0 .. w * h - 1 |-> CellOf(FileAt(<<k % w, k \div w>>))]
    BY <2>4, <2>5
  <2>7. FileWidth' = w /\ FileHeight' = h /\ \A c : FileAt(c)' = FileAt(c)
    BY <1>1, <2>1, MazeConstant
  <2> QED
    BY <2>4, <2>6, <2>7 DEF MazeRead
<1> QED
  BY <1>1, <1>2, <1>3, MazeConstant DEF MazeInv

-----------------------------------------------------------------------------
\* The lines of the sprite are as long as the first, and of known colours.
IsSprite(w) ==
  \A k \in 1 .. Len(sprite) : IF k % (w + 1) = 0 THEN sprite[k] = "nl"
                                                ELSE sprite[k] \in Painted \cup {"."}

\* The sprite is w pixels wide, h high and no larger than the box.
SpriteFits(side, w, h) ==
  /\ w = LineWidth(sprite) /\ h = Len(sprite) \div (w + 1)
  /\ Len(sprite) = h * (w + 1) /\ w <= side /\ h <= side
  /\ IsSprite(w)

\* The box shows the pixel of the file.
Shows(box, side, w, col, row) ==
  box[row * side + col]
    = IF sprite[row * (w + 1) + col + 1] = "." THEN "black" ELSE sprite[row * (w + 1) + col + 1]

\* A sprite that fits into the box is painted pixel by pixel.
LEMMA SpritePainted ==
  ASSUME sprite \in SpriteFiles, NEW side \in Nat, NEW w \in Nat \ {0}, NEW h \in Nat,
         SpriteFits(side, w, h), NEW col \in 0 .. w - 1, NEW row \in 0 .. h - 1
  PROVE  Shows(ParseActor(Read(sprite), side), side, w, col, row)
<1>a. w <= side /\ h <= side
  BY DEF SpriteFits
<1>0. /\ w = LineWidth(sprite) /\ Len(sprite) = h * (w + 1) /\ w <= side /\ h <= side
      /\ Len(sprite) \div (w + 1) = h /\ IsSprite(w)
  BY DEF SpriteFits
<1>1. PICK m \in Nat \ {0}, len \in Nat : m = w + 1 /\ len = Len(sprite)
  <2>1. Len(sprite) \in Nat
    BY ReadKeeps
  <2>2. w + 1 \in Nat \ {0}
    BY ONLY w \in Nat
  <2> QED
    BY <2>1, <2>2
<1> DEFINE data == Read(sprite)
           W == LineWidth(data)
           H == Len(data) \div (W + 1)
           At(u, j) == data[j * (W + 1) + u + 1]
           Stops(u, j) == At(u, j) \notin Painted \cup {"."}
           Reached(u, j) == \A a \in 0 .. u, b \in 0 .. H - 1 : a < u \/ b <= j => ~Stops(a, b)
           Writes == {ij \in (0 .. W - 1) \X (0 .. H - 1) :
                        Reached(ij[1], ij[2]) /\ At(ij[1], ij[2]) # "."}
<1>2. W = w /\ H = h /\ \A j \in 1 .. len - 1 : data[j] = sprite[j]
  BY <1>0, <1>1, ReadKeeps
<1>3. ParseActor(data, side)
        = [k \in (0 .. side * side - 1) \cup {ij[2] * side + ij[1] : ij \in Writes} |->
             IF \E ij \in Writes : ij[2] * side + ij[1] = k
               THEN LET ij == CHOOSE ij \in Writes : ij[2] * side + ij[1] = k
                    IN  At(ij[1], ij[2])
               ELSE "black"]
  BY DEF ParseActor
<1> HIDE DEF data, W, H
<1>4. ASSUME NEW a \in 0 .. w - 1, NEW b \in 0 .. h - 1
      PROVE  /\ At(a, b) = sprite[b * (w + 1) + a + 1]
             /\ At(a, b) \in Painted \cup {"."}
  <2>1. a + 1 \in 0 .. m - 1 /\ a + 1 # 0 /\ b \in Nat /\ b * m \in Nat /\ m * h = len
    <3>1. a + 1 \in 0 .. m - 1 /\ a + 1 # 0 /\ b \in Nat /\ b * m \in Nat
      BY ONLY <1>1, a \in 0 .. w - 1, b \in 0 .. h - 1, w \in Nat, h \in Nat, m \in Nat
    <3>2. h * m = len /\ m * h = h * m
      BY <1>0, <1>1
    <3> QED
      BY <3>1, <3>2
  <2>2. b * m + (a + 1) \in 0 .. m * h - 1
    BY <2>1, TableIndex
  <2>3. (b * m + (a + 1)) % m = a + 1
    BY <2>1, RowColumn
  <2>4. b * m + (a + 1) = b * m + a + 1
    BY <2>1
  <2>5. b * m + a + 1 \in 1 .. len /\ b * m + a + 1 \in 1 .. len - 1
    BY ONLY <2>1, <2>2, <2>4, a \in 0 .. w - 1, w \in Nat, len \in Nat
  <2>6. data[b * m + a + 1] = sprite[b * m + a + 1]
    BY <1>2, <2>5
  <2>7. sprite[b * m + a + 1] \in Painted \cup {"."}
    BY <1>0, <1>1, <2>1, <2>3, <2>4, <2>5 DEF IsSprite
  <2> QED
    BY <1>1, <1>2, <2>6, <2>7
<1>5. \A a \in 0 .. w - 1, b \in 0 .. h - 1 : Reached(a, b)
  <2>1. \A u \in 0 .. w - 1, j \in 0 .. h - 1 : ~Stops(u, j)
    <3> HIDE DEF At
    <3> QED
      BY <1>4
  <2>2. \A a \in 0 .. w - 1 : \A u \in 0 .. a : u \in 0 .. w - 1
    OBVIOUS
  <2> HIDE DEF Stops
  <2> QED
    BY <1>2, <2>1, <2>2
<1>6. Writes = {ij \in (0 .. w - 1) \X (0 .. h - 1) : At(ij[1], ij[2]) # "."}
  <2> HIDE DEF At, Reached
  <2> QED
    BY <1>2, <1>5
<1>7. ASSUME NEW ij \in Writes, ij[2] * side + ij[1] = row * side + col
      PROVE  ij[1] = col /\ ij[2] = row
  <2>1. PICK a \in 0 .. w - 1, b \in 0 .. h - 1 : a = ij[1] /\ b = ij[2]
    BY <1>2
  <2>2. a \in 0 .. side - 1 /\ col \in 0 .. side - 1 /\ side \in Nat \ {0} /\ b \in Nat /\ row \in Nat
    BY ONLY a \in 0 .. w - 1, b \in 0 .. h - 1, col \in 0 .. w - 1, row \in 0 .. h - 1, <1>a,
            w \in Nat, h \in Nat, side \in Nat
  <2>3. b * side + a = row * side + col
    BY <1>7, <2>1
  <2>4. b = row /\ a = col
    BY ONLY <2>2, <2>3, QuotientUnique
  <2> QED
    BY <2>1, <2>4
<1>8. row * side + col \in 0 .. side * side - 1
  <2>1. col \in 0 .. side - 1 /\ row \in 0 .. side - 1 /\ side \in Nat \ {0}
    BY ONLY <1>a, col \in 0 .. w - 1, row \in 0 .. h - 1, w \in Nat, h \in Nat, side \in Nat
  <2> QED
    BY <2>1, TableIndex
<1>9. PICK k : k = row * side + col
  OBVIOUS
<1>10. CASE At(col, row) = "."
  <2>1. ~\E ij \in Writes : ij[2] * side + ij[1] = k
    <3> SUFFICES ASSUME NEW ij \in Writes, ij[2] * side + ij[1] = k PROVE FALSE
      OBVIOUS
    <3>1. ij[1] = col /\ ij[2] = row
      BY <1>7, <1>9
    <3>2. At(ij[1], ij[2]) # "."
      OBVIOUS
    <3> HIDE DEF At
    <3> QED
      BY <1>10, <3>1, <3>2
  <2>2. sprite[row * (w + 1) + col + 1] = "."
    BY <1>4, <1>10
  <2> HIDE DEF Writes, At
  <2>3. ParseActor(data, side)[k] = "black"
    BY <1>3, <1>8, <1>9, <2>1
  <2> QED
    BY <1>9, <2>2, <2>3 DEF data, Shows
<1>11. CASE At(col, row) # "."
  <2>1. <<col, row>> \in Writes /\ <<col, row>>[2] * side + <<col, row>>[1] = k
    <3> HIDE DEF At, Reached
    <3> QED
      BY <1>6, <1>9, <1>11
  <2> HIDE DEF Writes
  <2>2. PICK c : c = CHOOSE ij \in Writes : ij[2] * side + ij[1] = k
    OBVIOUS
  <2>3. c \in Writes /\ c[2] * side + c[1] = k
    BY <2>1, <2>2
  <2>4. c[1] = col /\ c[2] = row
    BY <1>7, <1>9, <2>3
  <2>5. sprite[row * (w + 1) + col + 1] = At(col, row)
    BY <1>4
  <2> HIDE DEF At
  <2>6. ParseActor(data, side)[k] = At(c[1], c[2])
    BY <1>3, <1>8, <1>9, <2>2, <2>3
  <2> QED
    BY <1>9, <1>11, <2>4, <2>5, <2>6 DEF data, Shows
<1> QED
  BY <1>10, <1>11

\* A character that is in one cell of the file only.
LEMMA OnlyOne ==
  ASSUME labyrinth \in MazeFiles, IsRectangle, NEW ch, OneOf(ch)
  PROVE  \E c \in FileCells : {d \in FileCells : FileAt(d) = ch} = {c}
<1>1. IsFiniteSet({d \in FileCells : FileAt(d) = ch})
  BY FileCellsFinite, FS_Subset
<1> QED
  BY <1>1, FS_Singleton DEF OneOf

\* The drawing loop finds start and end.
LEMMA LastFound ==
  ASSUME labyrinth \in MazeFiles, IsRectangle, MazeRead, CellSide # 0,
         NEW ch, NEW kind, OneOf(ch), \A c : CellOf(FileAt(c)) = kind <=> FileAt(c) = ch
  PROVE  LastOf(kind) \in FileCells /\ FileAt(LastOf(kind)) = ch
<1>1. PICK w \in Nat \ {0}, h \in Nat : w = FileWidth /\ h = FileHeight
  BY FileShape
<1>2. PICK c \in FileCells : {d \in FileCells : FileAt(d) = ch} = {c}
  BY OnlyOne
<1>3. FileCells = (0 .. w - 1) \X (0 .. h - 1)
  BY <1>1 DEF FileCells
<1>4. PICK k : k = c[2] * w + c[1]
  OBVIOUS
<1>5. k \in 0 .. w * h - 1 /\ c = <<k % w, k \div w>>
  BY <1>3, <1>4, CellIndex
<1>6. CellsOf(kind) = {k}
  <2>1. DOMAIN mazeCells = 0 .. w * h - 1
    BY <1>1 DEF MazeRead
  <2>2. \A j \in 0 .. w * h - 1 : mazeCells[j] = kind <=> FileAt(<<j % w, j \div w>>) = ch
    BY <1>1 DEF MazeRead
  <2>3. ASSUME NEW j \in 0 .. w * h - 1, FileAt(<<j % w, j \div w>>) = ch
        PROVE  j = k
    <3>1. <<j % w, j \div w>> \in FileCells /\ (j \div w) * w + (j % w) = j
      BY <1>3, CellIndex
    <3>2. <<j % w, j \div w>> = c
      BY <1>2, <2>3, <3>1
    <3>3. c[1] = j % w /\ c[2] = j \div w
      BY <3>2
    <3> QED
      BY <1>4, <3>1, <3>3
  <2>4. FileAt(<<k % w, k \div w>>) = ch
    BY <1>2, <1>5
  <2> QED
    BY <1>5, <2>1, <2>2, <2>3, <2>4 DEF CellsOf
<1>7. LastOf(kind) = Coordinates(k)
  <2>1. (CHOOSE j \in CellsOf(kind) : \A u \in CellsOf(kind) : u <= j) = k
    BY <1>5, <1>6
  <2> QED
    BY <1>6, <2>1 DEF LastOf
<1>8. LastOf(kind) = c
  BY <1>1, <1>5, <1>7 DEF Coordinates, MazeRead
<1> QED
  BY <1>2, <1>8

\* Cells and their indices in the maze that was read.
LEMMA MazeCell ==
  ASSUME labyrinth \in MazeFiles, IsRectangle, MazeRead
  PROVE  /\ \A c \in FileCells : /\ IndexOf(c) \in DOMAIN mazeCells
                                 /\ mazeCells[IndexOf(c)] = CellOf(FileAt(c))
         /\ \A k \in DOMAIN mazeCells, c \in FileCells : Coordinates(k) = c <=> k = IndexOf(c)
<1>1. PICK w \in Nat \ {0}, h \in Nat : w = FileWidth /\ h = FileHeight
  BY FileShape
<1>2. /\ DOMAIN mazeCells = 0 .. w * h - 1 /\ mazeWidth = w
      /\ \A k \in 0 .. w * h - 1 : mazeCells[k] = CellOf(FileAt(<<k % w, k \div w>>))
  BY <1>1 DEF MazeRead
<1>3. FileCells = (0 .. w - 1) \X (0 .. h - 1)
  BY <1>1 DEF FileCells
<1>4. ASSUME NEW c \in FileCells
      PROVE  /\ IndexOf(c) \in 0 .. w * h - 1
             /\ c = <<IndexOf(c) % w, IndexOf(c) \div w>>
  <2>1. IndexOf(c) = c[2] * w + c[1]
    BY <1>2 DEF IndexOf
  <2> QED
    BY <1>3, <2>1, CellIndex
<1>5. ASSUME NEW c \in FileCells
      PROVE  IndexOf(c) \in DOMAIN mazeCells /\ mazeCells[IndexOf(c)] = CellOf(FileAt(c))
  BY <1>2, <1>4
<1>6. ASSUME NEW k \in DOMAIN mazeCells, NEW c \in FileCells
      PROVE  Coordinates(k) = c <=> k = IndexOf(c)
  <2>1. Coordinates(k) = <<k % w, k \div w>>
    BY <1>2 DEF Coordinates
  <2>2. k = IndexOf(c) => Coordinates(k) = c
    BY <1>4, <2>1
  <2>3. ASSUME Coordinates(k) = c PROVE k = IndexOf(c)
    <3>1. k \in 0 .. w * h - 1
      BY <1>2
    <3>2. (k \div w) * w + (k % w) = k
      BY <3>1, CellIndex
    <3>3. c[1] = k % w /\ c[2] = k \div w
      BY <2>1, <2>3
    <3> QED
      BY <1>2, <3>2, <3>3 DEF IndexOf
  <2> QED
    BY <2>2, <2>3
<1> QED
  BY <1>5, <1>6

\* The cells have at least one pixel.
LEMMA SideIsPositive ==
  ASSUME labyrinth \in MazeFiles, IsRectangle, MazeRead, FileCells # {}
  PROVE  CellSide \in Nat \ {0}
<1>1. PICK w \in Nat \ {0}, h \in Nat : w = FileWidth /\ h = FileHeight
  BY FileShape
<1>2. h # 0
  BY <1>1 DEF FileCells
<1>3. PICK r \in Nat, s \in Nat : r = Resolution[1] /\ s = Resolution[2] /\ w <= r /\ h <= s
  BY <1>1, FileShape, MazeAssumption
<1>4. ASSUME NEW a \in Nat, NEW n \in Nat \ {0}, n <= a
      PROVE  a \div n \in Nat \ {0}
  <2>1. PICK q : q = a \div n
    OBVIOUS
  <2>2. q \in Nat /\ a % n \in 0 .. n - 1 /\ a = q * n + (a % n)
    BY <2>1, DivMod
  <2>3. q # 0
    BY <1>4, <2>2
  <2> QED
    BY <2>1, <2>2, <2>3
<1>5. CellWidth \in Nat \ {0} /\ CellHeight \in Nat \ {0}
  BY <1>1, <1>2, <1>3, <1>4 DEF CellWidth, CellHeight, MazeRead
<1> QED
  BY <1>5 DEF CellSide

\* The maze is drawn with the sprite on its start.
LEMMA DrawKeeps ==
  ASSUME MazeInv, DrawMaze
  PROVE  MazeInv'
<1>1. /\ labyrinth' = labyrinth /\ sprite' = sprite /\ BootOptionCount' = BootOptionCount
      /\ mazePhase = "draw"
      /\ mazePhase' \in {"key", "undefined"}
      /\ UNCHANGED <<mazeCells, mazeWidth, mazeHeight>>
      /\ pos' = LastOf("START") /\ end' = LastOf("END")
      /\ actor' = ParseActor(Read(sprite), CellSide)
      /\ video' = [k \in DOMAIN mazeCells |->
                     IF Coordinates(k) = pos' THEN "actor" ELSE Colour(mazeCells[k])]
  BY DEF DrawMaze, mazeInputs
<1>2. labyrinth \in MazeFiles /\ sprite \in SpriteFiles /\ BootOptionCount \in Nat
  BY DEF MazeInv
<1>3. ASSUME WellFormedMaze
      PROVE  /\ MazeRead' /\ end' \in FileCells' /\ FileAt(end)' = "x"
             /\ OnTheWay' /\ ActorDrawn' /\ SpriteInBox'
  <2>1. MazeRead /\ IsRectangle /\ OneOf("o") /\ OneOf("x")
    BY <1>1, <1>3 DEF MazeInv, WellFormedMaze
  <2>2. FileCells # {}
    BY <1>2, <2>1, OnlyOne
  <2>3. CellSide \in Nat \ {0}
    BY <1>2, <2>1, <2>2, SideIsPositive
  <2>4. PICK p \in FileCells : p = pos' /\ FileAt(p) = "o"
    <3>1. \A c : CellOf(FileAt(c)) = "START" <=> FileAt(c) = "o"
      BY DEF CellOf
    <3>2. LastOf("START") \in FileCells /\ FileAt(LastOf("START")) = "o"
      BY <1>2, <2>1, <2>3, <3>1, LastFound
    <3> QED
      BY <1>1, <3>2
  <2>5. PICK e \in FileCells : e = end' /\ FileAt(e) = "x"
    <3>1. \A c : CellOf(FileAt(c)) = "END" <=> FileAt(c) = "x"
      BY DEF CellOf
    <3>2. LastOf("END") \in FileCells /\ FileAt(LastOf("END")) = "x"
      BY <1>2, <2>1, <2>3, <3>1, LastFound
    <3> QED
      BY <1>1, <3>2
  <2>6. /\ FileWidth' = FileWidth /\ FileHeight' = FileHeight /\ FileCells' = FileCells
        /\ (\A c : FileAt(c)' = FileAt(c)) /\ Corridors' = Corridors
    BY <1>1, MazeConstant
  <2>7. MazeRead'
    BY <1>1, <2>1, <2>6 DEF MazeRead
  <2>8. end' \in FileCells' /\ FileAt(end)' = "x"
    <3>1. FileAt(e)' = "x"
      BY <2>5, <2>6
    <3> QED
      BY <2>5, <2>6, <3>1 DEF FileAt
  <2>9. OnTheWay'
    <3>1. FileAt(p)' = "o" /\ FileAt(pos)' = FileAt(p)'
      BY <2>4, <2>6 DEF FileAt
    <3>2. p \in Corridors[Cardinality(FileCells)]
      BY <1>2, <2>1, <2>4, CorridorsClosed
    <3> QED
      BY <2>4, <2>6, <3>1, <3>2 DEF OnTheWay
  <2>10. ActorDrawn'
    <3>1. \A k \in DOMAIN mazeCells : Coordinates(k) = p <=> k = IndexOf(p)
      BY <1>2, <2>1, MazeCell
    <3>2. IndexOf(p) \in DOMAIN mazeCells
      BY <1>2, <2>1, MazeCell
    <3>3. \A k \in DOMAIN mazeCells : Colour(mazeCells[k]) # "actor"
      <4>1. \A k \in DOMAIN mazeCells : mazeCells[k] \in {"WALL", "EMPTY", "START", "END", "UNKNOWN"}
        BY <2>1 DEF MazeRead, CellOf
      <4> QED
        BY <4>1 DEF Colour
    <3>4. IndexOf(pos)' = IndexOf(p)
      BY <1>1, <2>4 DEF IndexOf
    <3>5. \A k \in DOMAIN mazeCells : video'[k] = "actor" <=> k = IndexOf(p)
      BY <1>1, <2>4, <3>1, <3>3
    <3> QED
      BY <1>1, <3>2, <3>4, <3>5 DEF ActorDrawn
  <2>11. SpriteInBox'
    <3>1. CellSide' = CellSide
      BY <1>1 DEF CellSide, CellWidth, CellHeight
    <3>2. PICK w \in Nat \ {0}, len \in Nat : w = LineWidth(sprite) /\ len = Len(sprite)
      BY <1>2, ReadKeeps
    <3>3. PICK h : h = len \div (w + 1)
      OBVIOUS
    <3>4. h \in Nat
      BY <3>3, DivMod
    <3>5. PICK side \in Nat : side = CellSide
      BY <2>3
    <3>6. ASSUME SpriteFits(side, w, h), NEW col \in 0 .. w - 1, NEW row \in 0 .. h - 1
          PROVE  Shows(actor', side, w, col, row)
      <4>1. Shows(ParseActor(Read(sprite), side), side, w, col, row)
        BY <1>2, <3>4, <3>6, SpritePainted
      <4> QED
        BY <1>1, <3>5, <4>1
    <3>7. /\ \A k \in 1 .. len : IF k % (w + 1) = 0 THEN sprite[k] = "nl"
                                               ELSE sprite[k] \in Painted \cup {"."}
          /\ len = h * (w + 1) /\ w <= side /\ h <= side
          => SpriteFits(side, w, h)
      BY <3>2, <3>3 DEF SpriteFits, IsSprite
    <3>8. ASSUME SpriteFits(side, w, h), NEW col \in 0 .. w - 1, NEW row \in 0 .. h - 1
          PROVE  actor'[row * side + col]
                   = IF sprite[row * (w + 1) + col + 1] = "." THEN "black"
                     ELSE sprite[row * (w + 1) + col + 1]
      BY <3>6, <3>8 DEF Shows
    <3> QED
      BY ZenonT(30), <1>1, <3>1, <3>2, <3>3, <3>5, <3>7, <3>8 DEF SpriteInBox
  <2> QED
    BY <2>7, <2>8, <2>9, <2>10, <2>11
<1> QED
  BY <1>1, <1>2, <1>3, MazeConstant DEF MazeInv

\* A step leads to a cell that the corridors connect with the start, and the sprite goes along.
LEMMA StepKeeps ==
  ASSUME MazeInv, NEW key \in MazeKeys, Step(key)
  PROVE  MazeInv'
<1>1. PICK new : new = Neighbour(key, pos)
  OBVIOUS
<1>2. /\ labyrinth' = labyrinth /\ sprite' = sprite /\ BootOptionCount' = BootOptionCount
      /\ mazePhase = "key"
      /\ UNCHANGED <<mazeCells, mazeWidth, mazeHeight, actor, end>>
      /\ ~AtEdge(key) /\ (new # pos => FALSE \in WallAt(new))
      /\ video' = Redraw(new) /\ pos' = new
      /\ mazePhase' = IF new = end \/ key = "SCAN_ESC" THEN "free" ELSE "key"
      /\ escaped' = (key = "SCAN_ESC")
  BY <1>1 DEF Step, mazeInputs
<1>3. labyrinth \in MazeFiles /\ sprite \in SpriteFiles /\ BootOptionCount \in Nat
  BY DEF MazeInv
<1>4. ASSUME WellFormedMaze
      PROVE  /\ MazeRead' /\ end' \in FileCells' /\ FileAt(end)' = "x"
             /\ new # end => OnTheWay'
             /\ ActorDrawn' /\ SpriteInBox'
  <2>1. /\ MazeRead /\ IsRectangle /\ EdgeIsClosed /\ OneOf("o") /\ OneOf("x")
        /\ end \in FileCells /\ FileAt(end) = "x"
        /\ OnTheWay /\ ActorDrawn /\ SpriteInBox
    BY <1>2, <1>4 DEF MazeInv, WellFormedMaze
  <2>2. PICK w \in Nat \ {0}, h \in Nat : w = FileWidth /\ h = FileHeight
    BY <1>3, <2>1, FileShape
  <2>3. FileCells = (0 .. w - 1) \X (0 .. h - 1)
    BY <2>2 DEF FileCells
  <2>4. PICK col \in 0 .. w - 1, row \in 0 .. h - 1 : pos = <<col, row>>
    BY <2>1, <2>3 DEF OnTheWay
  <2>5. col # w - 1 /\ row # h - 1
    <3>1. pos[1] = col /\ pos[2] = row /\ pos \in FileCells /\ FileAt(pos) \notin {"#", "x"}
      BY <2>1, <2>4 DEF OnTheWay
    <3> QED
      BY <2>1, <2>2, <3>1 DEF EdgeIsClosed
  <2>6. new \in FileCells
    <3>1. /\ key = "SCAN_UP" => row # 0 /\ new = <<col, row - 1>>
          /\ key = "SCAN_DOWN" => new = <<col, row + 1>>
          /\ key = "SCAN_LEFT" => col # 0 /\ new = <<col - 1, row>>
          /\ key = "SCAN_RIGHT" => new = <<col + 1, row>>
          /\ key \in {"SCAN_ESC", "other"} => new = <<col, row>>
      BY <1>1, <1>2, <2>4 DEF AtEdge, Neighbour
    <3> QED
      BY <2>3, <2>5, <3>1 DEF MazeKeys
  <2>7. FileAt(new) # "#"
    <3>1. CASE new = pos
      BY <2>1, <3>1 DEF OnTheWay
    <3>2. CASE new # pos
      <4>1. IndexOf(new) \in DOMAIN mazeCells /\ mazeCells[IndexOf(new)] = CellOf(FileAt(new))
        BY <1>3, <2>1, <2>6, MazeCell
      <4>2. CellOf(FileAt(new)) # "WALL"
        BY <1>2, <3>2, <4>1 DEF WallAt
      <4> QED
        BY <4>2 DEF CellOf
    <3> QED
      BY <3>1, <3>2
  <2>8. new \in Corridors[Cardinality(FileCells)]
    <3>1. PICK o \in FileCells : FileAt(o) = "o"
      BY <1>3, <2>1, OnlyOne
    <3>2. \A c \in Corridors[Cardinality(FileCells)] :
            StepsTo(c) \subseteq Corridors[Cardinality(FileCells)]
      BY <1>3, <2>1, <3>1, CorridorsClosed
    <3>3. new \in StepsTo(pos)
      BY <1>1, <2>6, <2>7 DEF StepsTo
    <3> QED
      BY <2>1, <3>2, <3>3 DEF OnTheWay
  <2>9. new # end => FileAt(new) # "x"
    <3>1. PICK e \in FileCells : {d \in FileCells : FileAt(d) = "x"} = {e}
      BY <1>3, <2>1, OnlyOne
    <3>2. end = e
      BY <2>1, <3>1
    <3> QED
      BY <2>6, <3>1, <3>2
  <2>10. /\ FileWidth' = FileWidth /\ FileHeight' = FileHeight /\ FileCells' = FileCells
         /\ (\A c : FileAt(c)' = FileAt(c)) /\ Corridors' = Corridors
    BY <1>2, MazeConstant
  <2>11. MazeRead'
    BY <1>2, <2>1, <2>10 DEF MazeRead
  <2>12. FileAt(end)' = FileAt(end) /\ FileAt(pos)' = FileAt(new)
    BY <1>2, <2>10 DEF FileAt
  <2>13. new # end => OnTheWay'
    BY <1>2, <2>6, <2>7, <2>8, <2>9, <2>10, <2>12 DEF OnTheWay
  <2>14. ActorDrawn'
    <3>1. /\ \A k \in DOMAIN mazeCells, c \in FileCells : Coordinates(k) = c <=> k = IndexOf(c)
          /\ \A c \in FileCells : IndexOf(c) \in DOMAIN mazeCells
      BY <1>3, <2>1, MazeCell
    <3>2. /\ \A k \in DOMAIN mazeCells : Coordinates(k) = new <=> k = IndexOf(new)
          /\ \A k \in DOMAIN mazeCells : Coordinates(k) = pos <=> k = IndexOf(pos)
          /\ IndexOf(new) \in DOMAIN mazeCells
      BY <2>1, <2>6, <3>1 DEF OnTheWay
    <3>3. \A k \in DOMAIN mazeCells : video[k] = "actor" <=> k = IndexOf(pos)
      BY <2>1 DEF ActorDrawn
    <3>4. video' = [k \in DOMAIN mazeCells |->
                      IF Coordinates(k) = new THEN "actor"
                      ELSE IF Coordinates(k) = pos THEN "black" ELSE video[k]]
      BY <1>2 DEF Redraw
    <3>5. \A k \in DOMAIN mazeCells : video'[k] = "actor" <=> k = IndexOf(new)
      BY <3>2, <3>3, <3>4
    <3>6. IndexOf(pos)' = IndexOf(new)
      BY <1>2 DEF IndexOf
    <3> QED
      BY <1>2, <3>2, <3>4, <3>5, <3>6 DEF ActorDrawn
  <2>15. SpriteInBox'
    <3>1. CellSide' = CellSide
      BY <1>2 DEF CellSide, CellWidth, CellHeight
    <3> QED
      BY <1>2, <2>1, <3>1 DEF SpriteInBox
  <2> QED
    BY <1>2, <2>1, <2>10, <2>11, <2>12, <2>13, <2>14, <2>15
<1>5. mazePhase' \in {"key", "free"} /\ (mazePhase' = "free" => escaped' \/ pos' = end')
      /\ (mazePhase' = "key" => new # end)
  BY <1>2
<1> QED
  BY <1>2, <1>3, <1>4, <1>5, MazeConstant DEF MazeInv

\* A step that changes nothing the invariant speaks of.
LEMMA MazeStutters ==
  ASSUME MazeInv, UNCHANGED mazeVars
  PROVE  MazeInv'
<1>1. UNCHANGED <<labyrinth, sprite, BootOptionCount, mazeCells, mazeWidth, mazeHeight, actor,
                  pos, end, video, escaped, booted, mazePhase>>
  BY DEF mazeVars, mazeInputs
<1>2. /\ FileWidth' = FileWidth /\ FileHeight' = FileHeight /\ FileCells' = FileCells
      /\ (\A c : FileAt(c)' = FileAt(c)) /\ Corridors' = Corridors
      /\ (WellFormedMaze' <=> WellFormedMaze)
  BY <1>1, MazeConstant
<1>3. MazeRead' = MazeRead /\ FileAt(end)' = FileAt(end) /\ FileAt(pos)' = FileAt(pos)
  BY <1>1, <1>2 DEF MazeRead, FileAt
<1>4. OnTheWay' <=> OnTheWay
  BY <1>1, <1>2, <1>3 DEF OnTheWay
<1>5. ActorDrawn' <=> ActorDrawn
  BY <1>1 DEF ActorDrawn, IndexOf
<1>6. SpriteInBox' <=> SpriteInBox
  BY <1>1 DEF SpriteInBox, CellSide, CellWidth, CellHeight
<1> QED
  BY <1>1, <1>2, <1>3, <1>4, <1>5, <1>6 DEF MazeInv

\* The option is booted at the end of the maze only.
LEMMA BootKeeps ==
  ASSUME MazeInv, BootFourth
  PROVE  MazeInv'
<1>1. /\ UNCHANGED <<labyrinth, sprite, BootOptionCount, mazeCells, mazeWidth, mazeHeight, pos, end,
                       escaped>>
      /\ mazePhase = "free"
      /\ mazePhase' \in {"returned", "undefined"}
      /\ mazePhase' = "returned" /\ escaped => booted' = {}
      /\ mazePhase' = "returned" /\ ~escaped => booted' = {3}
  <2>1. booted' = IF ~escaped /\ BootOptionCount > 3 THEN {3} ELSE {}
    BY DEF BootFourth
  <2>2. mazePhase' = IF ~escaped /\ BootOptionCount <= 3 THEN "undefined" ELSE "returned"
    BY DEF BootFourth
  <2>3. /\ UNCHANGED <<labyrinth, sprite, BootOptionCount, mazeCells, mazeWidth, mazeHeight, pos, end,
                       escaped>>
        /\ mazePhase = "free"
    BY DEF BootFourth, mazeInputs
  <2> QED
    BY <2>1, <2>2, <2>3 DEF MazeInv
<1>2. /\ FileWidth' = FileWidth /\ FileHeight' = FileHeight /\ FileCells' = FileCells
      /\ (\A c : FileAt(c)' = FileAt(c)) /\ (WellFormedMaze' <=> WellFormedMaze)
  BY <1>1, MazeConstant
<1>3. (MazeRead' <=> MazeRead) /\ FileAt(end)' = FileAt(end) /\ FileAt(pos)' = FileAt(pos)
  BY <1>1, <1>2 DEF MazeRead, FileAt
<1>4. WellFormedMaze => MazeRead /\ end \in FileCells /\ FileAt(end) = "x" /\ (escaped \/ pos = end)
  BY <1>1 DEF MazeInv
<1>5. WellFormedMaze /\ ~escaped => FileAt(pos) = "x"
  BY <1>4
<1> QED
  BY <1>1, <1>2, <1>3, <1>4, <1>5 DEF MazeInv

\* MazeInv is inductive.
LEMMA MazeStep ==
  ASSUME MazeInv, [MazeNext]_mazeVars
  PROVE  MazeInv'
<1>1. CASE ReadFails
  BY <1>1, MazeConstant DEF ReadFails, MazeInv, mazeInputs
<1>2. CASE ParseMazeFile
  BY <1>2, ParseReads
<1>3. CASE DrawMaze
  BY <1>3, DrawKeeps
<1>4. ASSUME NEW key \in MazeKeys, StayPut(key) PROVE MazeInv'
  BY <1>4, MazeStutters DEF StayPut
<1>5. ASSUME NEW key \in MazeKeys, Step(key) PROVE MazeInv'
  BY <1>5, StepKeeps
<1>6. CASE BootFourth
  BY <1>6, BootKeeps
<1>7. CASE UNCHANGED mazeVars
  BY <1>7, MazeStutters
<1> QED
  BY <1>1, <1>2, <1>3, <1>4, <1>5, <1>6, <1>7 DEF MazeNext

\* In a well-formed labyrinth of any size the player stays on cells that corridors connect with
\* the start, the sprite is drawn there and nowhere else, pixel by pixel as its file shows it,
\* and the fourth option is booted exactly when the end was reached without escaping, although
\* the tests of the border are off by one (ParseMazeFile, DrawMaze, ParseActor and the loop of
\* Maze.c).
THEOREM MazeIsWalked == FirmwareSpec => []WalksTheMaze
<1>1. FirmwareInit => MazeInv
  BY MazeAssumption DEF FirmwareInit, MazeInit, MazeInv
<1>2. MazeInv /\ [FirmwareNext]_firmwareVars => MazeInv'
  BY OneApplicationSteps, MazeStep
<1>3. MazeInv => WalksTheMaze
  BY DEF MazeInv, WalksTheMaze, OnTheWay, ActorDrawn
<1> QED
  BY <1>1, <1>2, <1>3, PTL DEF FirmwareSpec

-----------------------------------------------------------------------------
(***************************************************************************)
(* The game of the 3D boot manager.                                          *)
(***************************************************************************)
\* The side of the cell that a coordinate is near to: in its first or in its last third.
Side(a) == IF 3 * (a % CellUnits) < CellUnits THEN -1
           ELSE IF 3 * (a % CellUnits) >= 2 * CellUnits THEN 1 ELSE 0

\* A coordinate near to a side beyond which there is no border.
NearInside(a, size) == Side(a) # 0 /\ CellAt(a) + Side(a) \in 1 .. size - 2

\* What is looked at in the cell that is e cells on, when the move from a leads to b.
MovesTo(a, b, e) ==
  /\ CellAt(b) = CellAt(a) \/ (e # 0 /\ CellAt(b) = CellAt(a) + e /\ Side(b) + e = 0)
  /\ Side(a) # 0 /\ e # 0 => e = Side(a)
  /\ Side(a) # 0 /\ e # 0 /\ CellAt(b) = CellAt(a) => Side(b) = Side(a)

\* The coordinate is s units behind the beginning of cell q.
IsOffset(a, q, s) ==
  /\ a \in Nat
  /\ s < 0 => CellAt(a) = q - 1 /\ a % CellUnits = s + CellUnits
  /\ s >= 0 /\ s < CellUnits => CellAt(a) = q /\ a % CellUnits = s
  /\ s >= CellUnits => CellAt(a) = q + 1 /\ a % CellUnits = s - CellUnits

\* The cell and the place in it of a coordinate near to a cell that is not the first.
LEMMA CellOffset ==
  ASSUME NEW q \in Nat \ {0}, NEW s \in Int, s >= -CellUnits, s < 2 * CellUnits
  PROVE  IsOffset(q * CellUnits + s, q, s)
<1>1. PICK U \in Nat \ {0} : U = CellUnits
  BY MoveAssumption
<1>2. \A a \in Nat : CellAt(a) = a \div U
  BY <1>1 DEF CellAt
<1>3. CASE s < 0
  <2>1. q - 1 \in Nat /\ s + U \in 0 .. U - 1 /\ q * U + s = (q - 1) * U + (s + U)
    BY <1>1, <1>3
  <2>2. PICK p \in Nat, r \in 0 .. U - 1 : p = q - 1 /\ r = s + U
    BY <2>1
  <2>3. p * U + r \in Nat /\ (p * U + r) \div U = p /\ (p * U + r) % U = r
    BY ONLY U \in Nat \ {0}, p \in Nat, r \in 0 .. U - 1, RowColumn
  <2>4. PICK v \in Nat : v = q * U + s
    BY <2>1, <2>2, <2>3
  <2>5. v \div U = q - 1 /\ v % U = s + U
    BY <2>1, <2>2, <2>3, <2>4
  <2> QED
    BY <1>1, <1>2, <1>3, <2>4, <2>5 DEF IsOffset
<1>4. CASE s >= 0 /\ s < U
  <2>1. s \in 0 .. U - 1
    BY <1>4
  <2>2. q * U + s \in Nat /\ (q * U + s) \div U = q /\ (q * U + s) % U = s
    BY ONLY U \in Nat \ {0}, q \in Nat \ {0}, <2>1, RowColumn
  <2>3. PICK v \in Nat : v = q * U + s
    BY <2>2
  <2>4. v \div U = q /\ v % U = s
    BY <2>2, <2>3
  <2> QED
    BY <1>1, <1>2, <1>4, <2>3, <2>4 DEF IsOffset
<1>5. CASE s >= U
  <2>1. q + 1 \in Nat /\ s - U \in 0 .. U - 1 /\ q * U + s = (q + 1) * U + (s - U)
    BY <1>1, <1>5
  <2>2. PICK p \in Nat, r \in 0 .. U - 1 : p = q + 1 /\ r = s - U
    BY <2>1
  <2>3. p * U + r \in Nat /\ (p * U + r) \div U = p /\ (p * U + r) % U = r
    BY ONLY U \in Nat \ {0}, p \in Nat, r \in 0 .. U - 1, RowColumn
  <2>4. PICK v \in Nat : v = q * U + s
    BY <2>1, <2>2, <2>3
  <2>5. v \div U = q + 1 /\ v % U = s - U
    BY <2>1, <2>2, <2>3, <2>4
  <2> QED
    BY <1>1, <1>2, <1>5, <2>4, <2>5 DEF IsOffset
<1> QED
  BY <1>1, <1>3, <1>4, <1>5

\* A move along one axis, and what the code looks at before it.
LEMMA AxisMove ==
  ASSUME NEW a \in Nat, CellAt(a) >= 1, NEW d \in Int, 3 * d \in -CellUnits .. CellUnits
  PROVE  /\ a + d \in Nat
         /\ \E e \in {-1, 0, 1} : CellAt(a + 2 * d) = CellAt(a) + e /\ MovesTo(a, a + d, e)
<1>1. PICK U \in Nat \ {0} : U = CellUnits
  BY MoveAssumption
<1>2. a \div U \in Nat /\ a % U \in 0 .. U - 1 /\ a = (a \div U) * U + (a % U)
  BY DivMod
<1>3. PICK q \in Nat \ {0}, r \in 0 .. U - 1 : q = a \div U /\ r = a % U /\ a = q * U + r
  <2>1. CellAt(a) = a \div U
    BY <1>1 DEF CellAt
  <2> QED
    BY <1>2, <2>1
<1>4. CellAt(a) = q /\ a % U = r
  BY <1>1, <1>3 DEF CellAt
<1>5. PICK s \in Int, t \in Int : s = r + d /\ t = r + 2 * d
  OBVIOUS
<1>6. /\ s >= -U /\ s < 2 * U /\ t >= -U /\ t < 2 * U /\ 3 * d >= -U /\ 3 * d <= U
      /\ 0 <= r /\ r < U
  BY <1>1, <1>5
<1>7. a + d = q * U + s /\ a + 2 * d = q * U + t
  BY <1>3, <1>5
<1>8. PICK b, c : b = a + d /\ c = a + 2 * d
  OBVIOUS
<1>9. /\ b \in Nat
      /\ s < 0 => CellAt(b) = q - 1 /\ b % U = s + U
      /\ s >= 0 /\ s < U => CellAt(b) = q /\ b % U = s
      /\ s >= U => CellAt(b) = q + 1 /\ b % U = s - U
  <2>1. IsOffset(b, q, s)
    BY <1>1, <1>6, <1>7, <1>8, CellOffset
  <2> QED
    BY <1>1, <2>1 DEF IsOffset
<1>10. /\ t < 0 => CellAt(c) = q - 1
       /\ t >= 0 /\ t < U => CellAt(c) = q
       /\ t >= U => CellAt(c) = q + 1
  <2>1. IsOffset(c, q, t)
    BY <1>1, <1>6, <1>7, <1>8, CellOffset
  <2> QED
    BY <1>1, <2>1 DEF IsOffset
<1>11. PICK e \in {-1, 0, 1} : /\ t < 0 => e = -1
                               /\ t >= 0 /\ t < U => e = 0
                               /\ t >= U => e = 1
  <2>1. t < 0 \/ (t >= 0 /\ t < U) \/ t >= U
    OBVIOUS
  <2> QED
    BY <2>1
<1>12. CellAt(c) = q + e
  BY <1>10, <1>11
<1>13. /\ 3 * r < U => Side(a) = -1
       /\ 3 * r >= 2 * U => Side(a) = 1
       /\ 3 * r >= U /\ 3 * r < 2 * U => Side(a) = 0
  BY <1>1, <1>4 DEF Side
<1>14. PICK k \in Int : k = b % U
  BY <1>6, <1>9
<1>15. /\ 3 * k < U => Side(b) = -1
       /\ 3 * k >= 2 * U => Side(b) = 1
       /\ 3 * k >= U /\ 3 * k < 2 * U => Side(b) = 0
  BY <1>1, <1>14 DEF Side
<1>16. MovesTo(a, b, e)
  <2>1. CASE s < 0
    <3>1. CellAt(b) = q - 1 /\ k = s + U /\ e = -1 /\ 3 * k >= 2 * U /\ 3 * r < U
      BY <1>5, <1>6, <1>9, <1>11, <1>14, <2>1
    <3>2. Side(a) = -1 /\ Side(b) = 1
      BY <1>13, <1>15, <3>1
    <3>3. Side(b) + e = 0
      BY <3>1, <3>2
    <3>4. CellAt(b) # CellAt(a)
      BY <1>4, <3>1
    <3> QED
      BY <1>4, <3>1, <3>2, <3>3, <3>4 DEF MovesTo
  <2>2. CASE s >= U
    <3>1. CellAt(b) = q + 1 /\ k = s - U /\ e = 1 /\ 3 * k < U /\ 3 * r >= 2 * U
      BY <1>5, <1>6, <1>9, <1>11, <1>14, <2>2
    <3> QED
      BY <1>4, <1>13, <1>15, <3>1 DEF MovesTo
  <2>3. CASE s >= 0 /\ s < U
    <3>1. CellAt(b) = q /\ k = s
      BY <1>9, <1>14, <2>3
    <3>2. /\ e = -1 => 3 * r < 2 * U /\ d < 0
          /\ e = 1 => 3 * r >= U /\ d > 0
      BY <1>5, <1>6, <1>11
    <3>3. /\ e = -1 /\ 3 * r < U => 3 * k < U
          /\ e = 1 /\ 3 * r >= 2 * U => 3 * k >= 2 * U
      BY <1>5, <1>6, <3>1, <3>2
    <3>4. 3 * r < U \/ (3 * r >= U /\ 3 * r < 2 * U) \/ 3 * r >= 2 * U
      BY <1>6
    <3> QED
      BY <1>4, <1>6, <1>13, <1>15, <3>1, <3>2, <3>3, <3>4 DEF MovesTo
  <2> QED
    BY <2>1, <2>2, <2>3
<1> QED
  BY <1>4, <1>8, <1>9, <1>12, <1>16

\* The cells of the map and those that are not at its border.
LEMMA MapCells ==
  /\ Cells = (0 .. MapWidth - 1) \X (0 .. MapHeight - 1)
  /\ Cells \ Border = (1 .. MapWidth - 2) \X (1 .. MapHeight - 2)
  /\ MapWidth \in Nat \ {0} /\ MapHeight \in Nat \ {0}
<1>1. MapWidth \in Nat \ {0} /\ MapHeight \in Nat \ {0}
  BY SizeAssumption
<1>2. Cells = (0 .. MapWidth - 1) \X (0 .. MapHeight - 1)
  BY DEF Cells
<1>3. ASSUME NEW c \in Cells
      PROVE  c \notin Border <=> c \in (1 .. MapWidth - 2) \X (1 .. MapHeight - 2)
  <2>1. PICK a \in 0 .. MapWidth - 1, b \in 0 .. MapHeight - 1 : c = <<a, b>>
    BY <1>2
  <2>2. c \in Border <=> a \in {0, MapWidth - 1} \/ b \in {0, MapHeight - 1}
    BY <2>1 DEF Border
  <2> QED
    BY <1>1, <2>1, <2>2
<1>4. (1 .. MapWidth - 2) \X (1 .. MapHeight - 2) \subseteq Cells
  BY <1>1, <1>2
<1> QED
  BY <1>1, <1>2, <1>3, <1>4

\* Where the code finds a cell of the map.
LEMMA CellOnMap ==
  ASSUME NEW c \in Cells
  PROVE  OnMap(c) /\ MapAt(c) = Map[c]
<1>1. PICK w \in Nat \ {0}, h \in Nat \ {0} : w = MapWidth /\ h = MapHeight
  BY MapCells
<1>2. PICK a \in 0 .. w - 1, b \in 0 .. h - 1 : c = <<a, b>>
  BY <1>1, MapCells
<1>3. Index(c) = b * w + a
  BY <1>1, <1>2 DEF Index
<1>4. b * w + a \in 0 .. w * h - 1
  BY TableIndex
<1>5. (b * w + a) \div w = b /\ (b * w + a) % w = a
  BY RowColumn
<1>6. OnMap(c)
  BY <1>1, <1>3, <1>4 DEF OnMap
<1>7. MapAt(c) = Map[<<a, b>>]
  BY <1>1, <1>3, <1>5 DEF MapAt
<1> QED
  BY <1>2, <1>6, <1>7

\* What can be entered was floor, or is an exit in a former escape cell; at a closed
\* border it is an exit.
LEMMA EnteredCell ==
  ASSUME PlaceInv, NEW c \in Cells
  PROVE  /\ Map[c] \in Nat /\ Maze[c] \in Nat /\ bootable_start \in Nat \ {0}
         /\ Map[c] < bootable_start => Map[c] = Maze[c]
         /\ Map[c] >= bootable_start => IsEscape(Maze[c])
         /\ MayEnter(Map[c]) => Maze[c] = 0 \/ IsEscape(Maze[c])
         /\ Maze[c] = 0 => Map[c] = 0
<1>1. /\ Map[c] \in Nat /\ Maze[c] \in 0 .. bootable_start - 1 /\ bootable_start \in Nat \ {0}
      /\ TexturesCount \in Nat
  <2>1. Map \in [Cells -> Nat] /\ Maze \in Mazes
    BY DEF PlaceInv, PlaceTypeOK
  <2>2. Len(BootTextures) \in Nat
    BY DEF PlaceInv, PlaceTypeOK
  <2> QED
    BY <2>1, <2>2, ConfigAssumption DEF TexturesCount
<1>2. \/ Map[c] = Maze[c]
      \/ IsEscape(Maze[c]) /\ Map[c] \in bootable_start .. TexturesCount
  BY DEF PlaceInv, InvMap, OnlyEscapesBecomeExits
<1>3. IsEscape(Maze[c]) => Maze[c] # 0
  BY <1>1 DEF IsEscape
<1> QED
  BY <1>1, <1>2, <1>3 DEF MayEnter

\* The recursive definition in Rays, unfolded: the steps of the rays of a quadrant.
LEMMA RaysStep ==
  ASSUME NEW step \in {-1, 1} \X {-1, 1}, PlayerCell \in Int \X Int
  PROVE  \E visited :
           /\ visited[0] = {PlayerCell}
           /\ \A n \in 1 .. MapWidth + MapHeight : visited[n] = Onward(step, n, visited[n - 1])
           /\ Rays(step) = UNION {visited[n] : n \in 0 .. MapWidth + MapHeight}
<1>1. PICK N \in Nat : N = MapWidth + MapHeight
  BY MapCells
<1> DEFINE T == SUBSET (Int \X Int)
           a == {PlayerCell}
           G == [nS \in (0 .. N) \X T |-> Onward(step, nS[1], nS[2])]
           IsRec(f) == f = [n \in 0 .. N |-> IF n = 0 THEN a ELSE Onward(step, n, f[n - 1])]
<1>2. \A n \in 0 .. N, S \in T : Onward(step, n, S) \in T
  BY DEF Onward
<1>3. a \in T /\ G \in [(0 .. N) \X T -> T]
  BY <1>2
<1>4. PICK g \in [0 .. N -> T] : g[0] = a /\ \A n \in 1 .. N : g[n] = G[<<n, g[n - 1]>>]
  <2> HIDE DEF T, a, G
  <2>1. PICK U : U = T
    OBVIOUS
  <2>2. PICK b \in U : b = a
    BY <1>3, <2>1
  <2>3. PICK H \in [(0 .. N) \X U -> U] : H = G
    BY <1>3, <2>1
  <2>4. \E f \in [0 .. N -> U] : FollowsStep(f, N, b, H)
    BY ONLY N \in Nat, b \in U, H \in [(0 .. N) \X U -> U], RangeRecursion
  <2> QED
    BY <2>1, <2>2, <2>3, <2>4 DEF FollowsStep
<1>5. \A n \in 1 .. N : g[n] = Onward(step, n, g[n - 1])
  <2> SUFFICES ASSUME NEW n \in 1 .. N PROVE g[n] = Onward(step, n, g[n - 1])
    OBVIOUS
  <2>1. n \in 0 .. N /\ n - 1 \in 0 .. N
    OBVIOUS
  <2> HIDE DEF T, a
  <2>2. g[n - 1] \in T
    BY <2>1
  <2>3. PICK S \in T : S = g[n - 1]
    BY <2>2
  <2>4. G[<<n, S>>] = Onward(step, n, S)
    BY <2>1
  <2> QED
    BY <1>4, <2>3, <2>4
<1>6. IsRec(g)
  <2>1. \A n \in 0 .. N : n # 0 => n \in 1 .. N
    OBVIOUS
  <2> HIDE DEF a, T
  <2> QED
    BY <1>4, <1>5, <2>1
<1>7. PICK visited : /\ IsRec(visited)
                     /\ Rays(step) = UNION {visited[n] : n \in 0 .. N}
  <2>1. Rays(step) = UNION {(CHOOSE f : IsRec(f))[n] : n \in 0 .. N}
    BY <1>1 DEF Rays
  <2> HIDE DEF IsRec
  <2> QED
    BY <1>6, <2>1
<1>8. visited[0] = a
  BY <1>7
<1>9. \A n \in 1 .. N : visited[n] = Onward(step, n, visited[n - 1])
  <2>1. \A n \in 1 .. N : n \in 0 .. N /\ n # 0
    OBVIOUS
  <2> HIDE DEF a
  <2> QED
    BY <1>7, <2>1
<1>10. /\ visited[0] = {PlayerCell}
       /\ \A n \in 1 .. MapWidth + MapHeight : visited[n] = Onward(step, n, visited[n - 1])
       /\ Rays(step) = UNION {visited[n] : n \in 0 .. MapWidth + MapHeight}
  <2> HIDE DEF IsRec, G, T
  <2> QED
    BY <1>1, <1>7, <1>8, <1>9
<1> HIDE DEF IsRec, G, T, a
<1> QED
  BY SMTT(30), <1>10

\* On a map with a closed border no ray from inside it leaves the map.
LEMMA RaysOnMap ==
  ASSUME PlaceInv, \A c \in Border : Maze[c] # 0, PlayerCell \in Cells \ Border,
         NEW step \in {-1, 1} \X {-1, 1}
  PROVE  \A c \in Rays(step) : OnMap(c)
<1>1. PICK w \in Nat \ {0}, h \in Nat \ {0} : w = MapWidth /\ h = MapHeight
  BY MapCells
<1>2. PlayerCell \in Int \X Int
  BY <1>1, MapCells
<1>3. PICK visited :
           /\ visited[0] = {PlayerCell}
           /\ \A n \in 1 .. w + h : visited[n] = Onward(step, n, visited[n - 1])
           /\ Rays(step) = UNION {visited[n] : n \in 0 .. w + h}
  BY <1>1, <1>2, RaysStep
<1>4. \A c \in Cells \ Border : <<c[1] + step[1], c[2]>> \in Cells /\ <<c[1], c[2] + step[2]>> \in Cells
  <2> SUFFICES ASSUME NEW c \in Cells \ Border
               PROVE  <<c[1] + step[1], c[2]>> \in Cells /\ <<c[1], c[2] + step[2]>> \in Cells
    OBVIOUS
  <2>1. PICK a \in 1 .. w - 2, b \in 1 .. h - 2 : c = <<a, b>>
    BY <1>1, MapCells
  <2>2. PICK d \in {-1, 1}, e \in {-1, 1} : step = <<d, e>>
    OBVIOUS
  <2>3. a + d \in 0 .. w - 1 /\ b + e \in 0 .. h - 1 /\ a \in 0 .. w - 1 /\ b \in 0 .. h - 1
    BY <2>1, <2>2
  <2> QED
    BY <1>1, <2>1, <2>2, <2>3, MapCells
<1> DEFINE S == {n \in 0 .. w + h : visited[n] \subseteq Cells}
<1>5. 0 \in S
  BY <1>3
<1>6. ASSUME NEW n \in 0 .. w + h, n < w + h, n \in S
      PROVE  n + 1 \in S
  <2>1. n + 1 \in 1 .. w + h /\ n + 1 \in 0 .. w + h /\ (n + 1) - 1 = n
    BY <1>6
  <2>2. visited[n + 1] = Onward(step, n + 1, visited[n])
    BY <1>3, <2>1
  <2>3. ASSUME NEW c \in visited[n], OnMap(c), n + 1 = 1 \/ MapAt(c) = 0
        PROVE  c \in Cells \ Border
    <3>1. c \in Cells
      BY <1>6
    <3>2. CASE n = 0
      BY <1>3, <3>2
    <3>3. CASE n # 0
      <4>1. Map[c] = 0
        BY <2>3, <3>1, <3>3, CellOnMap
      <4>2. Maze[c] = 0
        BY <3>1, <4>1, EnteredCell
      <4> QED
        BY <3>1, <4>2
    <3> QED
      BY <3>2, <3>3
  <2>4. visited[n + 1] \subseteq Cells
    BY <1>4, <2>2, <2>3 DEF Onward
  <2> QED
    BY <2>1, <2>4
<1>7. \A n \in 0 .. w + h : n \in S
  <2>1. PICK N \in Nat : N = w + h
    OBVIOUS
  <2>2. \A n \in 0 .. N : n < N /\ n \in S => n + 1 \in S
    BY <1>6, <2>1
  <2> HIDE DEF S
  <2> QED
    BY <1>5, <2>1, <2>2, RangeInduction
<1> QED
  BY <1>3, <1>7, CellOnMap

\* A player who may move on: inside the border, and on floor or, in a wall, near a corner
\* whose sides are not at the border.
Inside(a, b) ==
  /\ a \in Nat /\ b \in Nat
  /\ <<CellAt(a), CellAt(b)>> \in Cells \ Border
  /\ Maze[<<CellAt(a), CellAt(b)>>] # 0 => NearInside(a, MapWidth) /\ NearInside(b, MapHeight)

\* The entry of the exit at a cell.
EntryAt3(c) == IF MapAt(c) >= bootable_start THEN MapAt(c) - bootable_start ELSE NO_ENTRY

Game3Inv ==
  /\ PlaceInv
  /\ dir \in 1 .. Len(Directions)
  /\ game3 \in {"place", "draw", "key", "fill", "returned", "undefined"}
  /\ game3 # "place" => app = "BootManager3D"
  /\ WallsAreSafe =>
       /\ game3 # "undefined"
       /\ game3 = "place" => PlayerCell = Start3
       /\ game3 \in {"place", "draw", "key"} => Inside(posX, posY) /\ entry3 = NO_ENTRY
       /\ game3 \in {"draw", "key"} => Map[PlayerCell] < bootable_start
       /\ game3 \in {"fill", "returned"} =>
            /\ PlayerCell \in Cells /\ entry3 = EntryAt3(PlayerCell)
            /\ PlayerCell \in Border => Map[PlayerCell] >= bootable_start

\* Where a move along one axis ends, when the cell m cells on may be entered or not.
EndsAt(a, b, m, may) ==
  /\ b \in Nat
  /\ CellAt(b) = CellAt(a) \/ (may /\ m # 0 /\ CellAt(b) = CellAt(a) + m /\ Side(b) + m = 0)
  /\ Side(a) # 0 /\ (m = 0 => ~may) =>
       /\ may => m = Side(a)
       /\ CellAt(b) = CellAt(a) => Side(b) = Side(a)

\* A move along one axis, with the test in front of it.
LEMMA AxisEnds ==
  ASSUME NEW a \in Nat, NEW d \in Int, a + d \in Nat, NEW m \in {-1, 0, 1}, MovesTo(a, a + d, m),
         NEW may \in BOOLEAN, NEW b, b = IF may THEN a + d ELSE a
  PROVE  EndsAt(a, b, m, may)
<1>1. CASE may
  <2>1. b = a + d
    BY <1>1
  <2>2. MovesTo(a, b, m) /\ b \in Nat
    BY <2>1
  <2> QED
    BY <1>1, <2>2 DEF EndsAt, MovesTo
<1>2. CASE ~may
  <2>1. b = a
    BY <1>2
  <2> QED
    BY <1>2, <2>1 DEF EndsAt
<1> QED
  BY <1>1, <1>2

\* The move by <<d, e>> from <<a, b>> leads to <<a2, b2>>, with the two tests of the code.
MoveEnds(a, b, d, e, nextX, nextY, a2, b2) ==
  /\ nextX = <<CellAt(a + 2 * d), CellAt(b)>> /\ nextY = <<CellAt(a), CellAt(b + 2 * e)>>
  /\ a2 = IF MayEnter(MapAt(nextX)) THEN a + d ELSE a
  /\ b2 = IF MayEnter(MapAt(nextY)) THEN b + e ELSE b

\* Where a move leads: the code moves along an axis when the cell ahead can be entered.
LEMMA MoveInside ==
  ASSUME PlaceInv, WallsAreSafe, NEW a \in Nat, NEW b \in Nat, Inside(a, b),
         Map[<<CellAt(a), CellAt(b)>>] < bootable_start,
         NEW d \in Int, 3 * d \in -CellUnits .. CellUnits,
         NEW e \in Int, 3 * e \in -CellUnits .. CellUnits,
         NEW nextX, NEW nextY, NEW a2, NEW b2, MoveEnds(a, b, d, e, nextX, nextY, a2, b2)
  PROVE  /\ OnMap(nextX) /\ OnMap(nextY) /\ <<CellAt(a2), CellAt(b2)>> \in Cells
         /\ Inside(a2, b2) \/ Map[<<CellAt(a2), CellAt(b2)>>] >= bootable_start
<1>1. PICK w \in Nat \ {0}, h \in Nat \ {0} : w = MapWidth /\ h = MapHeight
  BY MapCells
<1>2. PICK p \in 1 .. w - 2, q \in 1 .. h - 2 : p = CellAt(a) /\ q = CellAt(b)
  BY <1>1, MapCells DEF Inside
<1>3. PICK c \in Cells \ Border : c = <<p, q>>
  BY <1>2 DEF Inside
<1>4. a + d \in Nat /\ \E m \in {-1, 0, 1} : CellAt(a + 2 * d) = CellAt(a) + m /\ MovesTo(a, a + d, m)
  BY <1>2, AxisMove
<1>5. b + e \in Nat /\ \E n \in {-1, 0, 1} : CellAt(b + 2 * e) = CellAt(b) + n /\ MovesTo(b, b + e, n)
  BY <1>2, AxisMove
<1>6. PICK m \in {-1, 0, 1} : CellAt(a + 2 * d) = p + m /\ MovesTo(a, a + d, m)
  BY <1>2, <1>4
<1>7. PICK n \in {-1, 0, 1} : CellAt(b + 2 * e) = q + n /\ MovesTo(b, b + e, n)
  BY <1>2, <1>5
<1>a. /\ nextX = <<CellAt(a + 2 * d), CellAt(b)>> /\ nextY = <<CellAt(a), CellAt(b + 2 * e)>>
      /\ a2 = IF MayEnter(MapAt(nextX)) THEN a + d ELSE a
      /\ b2 = IF MayEnter(MapAt(nextY)) THEN b + e ELSE b
  BY DEF MoveEnds
<1>8. nextX = <<p + m, q>> /\ nextY = <<p, q + n>> /\ nextX \in Cells /\ nextY \in Cells
  BY <1>a, <1>1, <1>2, <1>6, <1>7, MapCells
<1>9. OnMap(nextX) /\ OnMap(nextY) /\ MapAt(nextX) = Map[nextX] /\ MapAt(nextY) = Map[nextY]
  BY <1>8, CellOnMap
<1>10. PICK mayX \in BOOLEAN, mayY \in BOOLEAN :
         mayX = MayEnter(Map[nextX]) /\ mayY = MayEnter(Map[nextY])
  BY DEF MayEnter
<1>11. EndsAt(a, a2, m, mayX)
  BY <1>a, <1>4, <1>6, <1>9, <1>10, AxisEnds
<1>12. EndsAt(b, b2, n, mayY)
  BY <1>a, <1>5, <1>7, <1>9, <1>10, AxisEnds
<1>13. PICK p2, q2 : p2 = CellAt(a2) /\ q2 = CellAt(b2)
  OBVIOUS
<1>14. /\ a2 \in Nat /\ b2 \in Nat
       /\ p2 = p \/ (mayX /\ m # 0 /\ p2 = p + m /\ Side(a2) + m = 0)
       /\ q2 = q \/ (mayY /\ n # 0 /\ q2 = q + n /\ Side(b2) + n = 0)
  BY <1>2, <1>11, <1>12, <1>13 DEF EndsAt
<1>15. p2 \in 0 .. w - 1 /\ q2 \in 0 .. h - 1 /\ <<p2, q2>> \in Cells
  BY <1>1, <1>2, <1>14, MapCells
<1> SUFFICES Inside(a2, b2) \/ Map[<<p2, q2>>] >= bootable_start
  BY <1>9, <1>13, <1>15
<1>16. ASSUME NEW k \in Cells, MayEnter(Map[k]), <<p2, q2>> = k
       PROVE  Inside(a2, b2) \/ Map[<<p2, q2>>] >= bootable_start
  <2>1. CASE Map[k] >= bootable_start
    BY <1>16, <2>1
  <2>2. CASE Map[k] < bootable_start
    <3>1. Map[k] = 0 /\ Maze[k] = 0
      BY <1>16, <2>2, EnteredCell DEF MayEnter
    <3>2. k \notin Border
      BY <3>1 DEF WallsAreSafe
    <3> QED
      BY <1>13, <1>14, <1>16, <3>1, <3>2 DEF Inside
  <2> QED
    BY <2>1, <2>2, EnteredCell
<1>17. CASE p2 # p /\ q2 = q
  BY <1>8, <1>10, <1>14, <1>16, <1>17
<1>18. CASE p2 = p /\ q2 # q
  BY <1>8, <1>10, <1>14, <1>16, <1>18
<1>19. Maze[c] # 0 =>
         /\ mayX => m # 0 /\ p + m \in 1 .. w - 2
         /\ mayY => n # 0 /\ q + n \in 1 .. h - 2
         /\ p2 = p => NearInside(a2, w)
         /\ q2 = q => NearInside(b2, h)
  <2> SUFFICES ASSUME Maze[c] # 0
               PROVE  /\ mayX => m # 0 /\ p + m \in 1 .. w - 2
                      /\ mayY => n # 0 /\ q + n \in 1 .. h - 2
                      /\ p2 = p => NearInside(a2, w)
                      /\ q2 = q => NearInside(b2, h)
    OBVIOUS
  <2>1. NearInside(a, w) /\ NearInside(b, h)
    BY <1>1, <1>2, <1>3 DEF Inside
  <2>2. Side(a) # 0 /\ p + Side(a) \in 1 .. w - 2 /\ Side(b) # 0 /\ q + Side(b) \in 1 .. h - 2
    BY <1>2, <2>1 DEF NearInside
  <2>3. ~MayEnter(Map[c])
    <3>1. Map[c] < bootable_start /\ Map[c] = Maze[c]
      BY <1>2, <1>3, EnteredCell
    <3>2. Map[c] \in Nat /\ bootable_start \in Nat
      BY EnteredCell
    <3> QED
      BY <3>1, <3>2 DEF MayEnter
  <2>4. m = 0 => ~mayX
    <3>1. m = 0 => nextX = c
      BY <1>3, <1>8
    <3> QED
      BY <1>10, <2>3, <3>1
  <2>5. n = 0 => ~mayY
    <3>1. n = 0 => nextY = c
      BY <1>3, <1>8
    <3> QED
      BY <1>10, <2>3, <3>1
  <2>6. /\ mayX => m = Side(a)
        /\ p2 = p => Side(a2) = Side(a)
    BY <1>2, <1>11, <1>13, <2>2, <2>4 DEF EndsAt
  <2>7. /\ mayY => n = Side(b)
        /\ q2 = q => Side(b2) = Side(b)
    BY <1>2, <1>12, <1>13, <2>2, <2>5 DEF EndsAt
  <2> QED
    BY <1>13, <2>2, <2>4, <2>5, <2>6, <2>7 DEF NearInside
<1>20. CASE p2 = p /\ q2 = q
  <2>1. <<p2, q2>> = c
    BY <1>3, <1>20
  <2> QED
    BY <1>1, <1>13, <1>14, <1>19, <1>20, <2>1 DEF Inside
<1>21. CASE p2 # p /\ q2 # q
  <2>1. mayX /\ mayY /\ p2 = p + m /\ q2 = q + n
    BY <1>14, <1>21
  <2>2. p + m \in 1 .. w - 2 /\ q + n \in 1 .. h - 2
    <3>1. CASE Maze[c] # 0
      BY <1>19, <2>1, <3>1
    <3>2. CASE Maze[c] = 0
      <4>1. m \in {-1, 1} /\ n \in {-1, 1}
        BY <1>14, <1>21
      <4>2. nextX \in Beside(c) /\ nextY \in Above(c)
        BY <1>3, <1>8, <4>1 DEF Beside, Above
      <4>3. /\ Maze[nextX] = 0 \/ IsEscape(Maze[nextX])
            /\ Maze[nextY] = 0 \/ IsEscape(Maze[nextY])
        BY <1>8, <1>10, <2>1, EnteredCell
      <4>4. nextX \notin Border
        BY <3>2, <4>2, <4>3 DEF WallsAreSafe
      <4>5. nextY \notin Border
        BY <3>2, <4>2, <4>3 DEF WallsAreSafe
      <4>6. nextX \in (1 .. w - 2) \X (1 .. h - 2) /\ nextY \in (1 .. w - 2) \X (1 .. h - 2)
        BY <1>1, <1>8, <4>4, <4>5, MapCells
      <4> QED
        BY <1>8, <4>6
    <3> QED
      BY <3>1, <3>2
  <2>3. <<p2, q2>> \in Cells \ Border
    BY <1>1, <2>1, <2>2, MapCells
  <2>4. NearInside(a2, w)
    <3>1. Side(a2) + m = 0 /\ m # 0
      BY <1>14, <1>21
    <3>2. Side(a2) \in {-1, 0, 1}
      BY DEF Side
    <3>3. Side(a2) # 0 /\ p2 + Side(a2) = p
      BY <2>1, <3>1, <3>2
    <3> QED
      BY <1>13, <3>3 DEF NearInside
  <2>5. NearInside(b2, h)
    <3>1. Side(b2) + n = 0 /\ n # 0
      BY <1>14, <1>21
    <3>2. Side(b2) \in {-1, 0, 1}
      BY DEF Side
    <3>3. Side(b2) # 0 /\ q2 + Side(b2) = q
      BY <2>1, <3>1, <3>2
    <3> QED
      BY <1>13, <3>3 DEF NearInside
  <2> QED
    BY <1>1, <1>13, <1>14, <2>3, <2>4, <2>5 DEF Inside
<1> QED
  BY <1>17, <1>18, <1>20, <1>21

\* What is said of the map as it was read depends on it alone.
LEMMA SafeConstant ==
  ASSUME Maze' = Maze
  PROVE  WallsAreSafe' <=> WallsAreSafe
BY DEF WallsAreSafe, Border, Beside, Above, IsEscape, Cells

\* The last test of an iteration: the player may go on, or stands in an exit.
LEMMA ExitChecked ==
  ASSUME Game3Inv, WallsAreSafe, game3 = "key", app = "BootManager3D", UNCHANGED <<placeVars, app>>,
         dir' \in 1 .. Len(Directions), PlayerCell' \in Cells,
         Inside(posX', posY') \/ Map[PlayerCell'] >= bootable_start,
         NEW ready \in BOOLEAN, NEW c, c = PlayerCell', CheckExit3(c, ready)
  PROVE  Game3Inv'
<1>1. UNCHANGED <<Maze, Map>> /\ PlaceInv'
  <2>1. PlaceInv /\ [PlaceNext]_placeVars
    BY DEF Game3Inv
  <2> QED
    BY <2>1, PlaceInvPreserved DEF placeVars
<1>2. WallsAreSafe'
  BY <1>1, SafeConstant
<1>3. OnMap(c) /\ MapAt(c) = Map[c]
  BY CellOnMap
<1>4. Map[c] \in Nat /\ bootable_start \in Nat \ {0} /\ entry3 = NO_ENTRY
  BY EnteredCell DEF Game3Inv
<1>5. MapAt(c)' = MapAt(c)
  BY <1>1 DEF MapAt
<1>6. c = <<CellAt(posX'), CellAt(posY')>>
  BY DEF PlayerCell, CellAt
<1>7. CASE Map[c] >= bootable_start
  <2>1. entry3' = MapAt(c) - bootable_start /\ game3' = "fill"
    BY <1>3, <1>7 DEF CheckExit3
  <2>2. EntryAt3(PlayerCell)' = MapAt(c) - bootable_start
    BY <1>1, <1>3, <1>7 DEF EntryAt3, MapAt, Index
  <2> QED
    BY <1>1, <1>2, <1>7, <2>1, <2>2 DEF Game3Inv
<1>8. CASE Map[c] < bootable_start
  <2>1. Inside(posX', posY')
    BY <1>4, <1>8
  <2>2. Inside(posX, posY)' /\ PlayerCell' \in Cells \ Border
    BY <1>1, <1>6, <2>1 DEF Inside, NearInside, Side, CellAt, Border, Cells
  <2>3. entry3' = NO_ENTRY /\ game3' = IF ready THEN "fill" ELSE "draw"
    BY <1>3, <1>4, <1>8 DEF CheckExit3
  <2>4. EntryAt3(PlayerCell)' = NO_ENTRY
    BY <1>1, <1>3, <1>4, <1>8 DEF EntryAt3, MapAt, Index
  <2> QED
    BY <1>1, <1>2, <1>8, <2>2, <2>3, <2>4 DEF Game3Inv
<1> QED
  BY <1>4, <1>7, <1>8

\* What every step of the game keeps on every map.
LEMMA Game3Types ==
  ASSUME Game3Inv, Game3Next
  PROVE  /\ PlaceInv' /\ dir' \in 1 .. Len(Directions) /\ Maze' = Maze
         /\ game3' \in {"place", "draw", "key", "fill", "returned", "undefined"}
<1>1. PICK len \in Nat \ {0} : len = Len(Directions)
  BY MoveAssumption
<1>2. PlaceInv /\ dir \in 1 .. len
  BY <1>1 DEF Game3Inv
<1>3. ASSUME UNCHANGED placeVars PROVE PlaceInv' /\ Maze' = Maze
  BY <1>2, <1>3, PlaceInvPreserved DEF placeVars
<1>4. CASE Placing3
  <2>1. PlaceInv'
    BY <1>2, <1>4, PlaceInvPreserved DEF Placing3
  <2>2. Maze' = Maze
    BY <1>4 DEF Placing3, PlaceNext, StartEntry, DivideByZero, PassCell, MakeExit, IconTrap,
       EndScan, EndPlace
  <2> QED
    BY <1>1, <1>2, <1>4, <2>1, <2>2 DEF Placing3, game3Only
<1>5. CASE StartDrawing \/ DrawFrame \/ Return3
  BY <1>1, <1>2, <1>3, <1>5 DEF StartDrawing, DrawFrame, Return3
<1>6. ASSUME NEW sign \in {-1, 1}, MoveBy(sign)
      PROVE  /\ UNCHANGED placeVars /\ dir' = dir
             /\ game3' \in {"place", "draw", "key", "fill", "returned", "undefined"}
  BY <1>6 DEF MoveBy, CheckExit3
<1>7. ASSUME NEW by \in {-1, 0, 1}, Turn(by)
      PROVE  /\ UNCHANGED placeVars /\ dir' \in 1 .. len
             /\ game3' \in {"place", "draw", "key", "fill", "returned", "undefined"}
  <2>1. (dir - 1 + by) % len \in 0 .. len - 1
    BY <1>2
  <2>2. PICK r \in 0 .. len - 1 : r = (dir - 1 + by) % len
    BY <2>1
  <2>3. dir' = 1 + r
    BY <1>1, <1>7, <2>2 DEF Turn
  <2> QED
    BY <1>7, <2>3 DEF Turn, CheckExit3
<1>8. CASE Escape3
  BY <1>1, <1>2, <1>3, <1>8 DEF Escape3, CheckExit3
<1> QED
  BY <1>1, <1>2, <1>3, <1>4, <1>5, <1>6, <1>7, <1>8 DEF Game3Next

\* On a map with safe walls every step of the game keeps the player inside or ends in an exit.
LEMMA Game3Step ==
  ASSUME Game3Inv, Game3Next, app = "BootManager3D", app' = app
  PROVE  Game3Inv'
<1>1. /\ PlaceInv' /\ dir' \in 1 .. Len(Directions) /\ Maze' = Maze
      /\ game3' \in {"place", "draw", "key", "fill", "returned", "undefined"}
  BY Game3Types
<1>2. WallsAreSafe' <=> WallsAreSafe
  BY <1>1, SafeConstant
<1>3. CASE ~WallsAreSafe
  BY <1>1, <1>2, <1>3 DEF Game3Inv
<1>4. CASE WallsAreSafe
  <2>1. CASE Placing3
    <3>1. UNCHANGED <<posX, posY, entry3, game3>> /\ game3 = "place"
      BY <2>1 DEF Placing3, game3Only
    <3>2. PlayerCell' = PlayerCell /\ (Inside(posX, posY)' <=> Inside(posX, posY))
      BY <1>1, <3>1 DEF PlayerCell, Inside, NearInside, Side, CellAt, Border, Cells
    <3> QED
      BY <1>1, <1>2, <1>4, <3>1, <3>2 DEF Game3Inv
  <2>2. CASE StartDrawing
    <3>1. UNCHANGED <<posX, posY, entry3, Map>> /\ game3 = "place" /\ game3' = "draw"
      BY <2>2 DEF StartDrawing, placeVars
    <3>2. PlayerCell' = PlayerCell /\ (Inside(posX, posY)' <=> Inside(posX, posY))
      BY <1>1, <3>1 DEF PlayerCell, Inside, NearInside, Side, CellAt, Border, Cells
    <3>3. PlayerCell = Start3 /\ Maze[Start3] = 0 /\ PlayerCell \in Cells
      BY <1>4, <3>1 DEF Game3Inv, WallsAreSafe, Inside, PlayerCell
    <3>4. Map[PlayerCell] < bootable_start
      BY <3>3, EnteredCell DEF Game3Inv
    <3> QED
      BY <1>1, <1>2, <1>4, <3>1, <3>2, <3>4 DEF Game3Inv
  <2>3. CASE DrawFrame
    <3>1. UNCHANGED <<posX, posY, entry3, Map>> /\ game3 = "draw"
      BY <2>3 DEF DrawFrame, placeVars
    <3>2. PlayerCell' = PlayerCell /\ (Inside(posX, posY)' <=> Inside(posX, posY))
      BY <1>1, <3>1 DEF PlayerCell, Inside, NearInside, Side, CellAt, Border, Cells
    <3>3. PlayerCell \in Cells \ Border
      BY <1>4, <3>1 DEF Game3Inv, Inside, PlayerCell
    <3>4. \A step \in {-1, 1} \X {-1, 1} : \A c \in Rays(step) : OnMap(c)
      BY <1>4, <3>3, RaysOnMap DEF Game3Inv, WallsAreSafe
    <3>5. game3' = "key"
      BY <2>3, <3>4 DEF DrawFrame
    <3> QED
      BY <1>1, <1>2, <1>4, <3>1, <3>2, <3>5 DEF Game3Inv
  <2>4. ASSUME NEW sign \in {-1, 1}, MoveBy(sign) PROVE Game3Inv'
    <3>1. game3 = "key" /\ UNCHANGED placeVars
      BY <2>4 DEF MoveBy
    <3>2. Inside(posX, posY) /\ Map[PlayerCell] < bootable_start /\ PlaceInv
      BY <1>4, <3>1 DEF Game3Inv
    <3>3. PICK dx \in Int, dy \in Int :
            /\ dx = sign * Directions[dir][1] /\ dy = sign * Directions[dir][2]
            /\ 3 * dx \in -CellUnits .. CellUnits /\ 3 * dy \in -CellUnits .. CellUnits
      <4>1. dir \in 1 .. Len(Directions)
        BY DEF Game3Inv
      <4>2. PICK d1 \in Int, d2 \in Int : d1 = Directions[dir][1] /\ d2 = Directions[dir][2]
        BY <4>1, MoveAssumption
      <4>3. /\ 3 * d1 \in -CellUnits .. CellUnits /\ 3 * d2 \in -CellUnits .. CellUnits
            /\ CellUnits \in Nat
        BY <4>1, <4>2, MoveAssumption
      <4>4. CASE sign = 1
        BY <4>2, <4>3, <4>4
      <4>5. CASE sign = -1
        <5>1. sign * d1 = -d1 /\ sign * d2 = -d2 /\ -d1 \in Int /\ -d2 \in Int
          BY <4>5
        <5>2. 3 * (-d1) \in -CellUnits .. CellUnits /\ 3 * (-d2) \in -CellUnits .. CellUnits
          BY <4>3
        <5> QED
          BY <4>2, <5>1, <5>2
      <4> QED
        BY <4>4, <4>5
    <3>4. PICK nextY : nextY = <<CellAt(posX), CellAt(posY + 2 * dy)>>
      OBVIOUS
    <3>5. PICK nextX : nextX = <<CellAt(posX + 2 * dx), CellAt(posY)>>
      OBVIOUS
    <3>6. PICK a2, b2 : /\ a2 = IF MayEnter(MapAt(nextX)) THEN posX + dx ELSE posX
                        /\ b2 = IF MayEnter(MapAt(nextY)) THEN posY + dy ELSE posY
      OBVIOUS
    <3>7. posX \in Nat /\ posY \in Nat /\ Map[<<CellAt(posX), CellAt(posY)>>] < bootable_start
      BY <3>2 DEF Inside, PlayerCell
    <3>8. /\ OnMap(nextX) /\ OnMap(nextY) /\ <<CellAt(a2), CellAt(b2)>> \in Cells
          /\ Inside(a2, b2) \/ Map[<<CellAt(a2), CellAt(b2)>>] >= bootable_start
      <4>1. MoveEnds(posX, posY, dx, dy, nextX, nextY, a2, b2)
        BY <3>4, <3>5, <3>6 DEF MoveEnds
      <4> QED
        BY <1>4, <3>2, <3>3, <3>7, <4>1, MoveInside
    <3>9. posX' = a2 /\ posY' = b2 /\ CheckExit3(<<CellAt(posX'), CellAt(posY')>>, FALSE)
      BY <2>4, <3>3, <3>4, <3>5, <3>6, <3>8 DEF MoveBy
    <3>10. PlayerCell' = <<CellAt(a2), CellAt(b2)>>
      BY <3>9 DEF PlayerCell, CellAt
    <3>11. /\ PlayerCell' \in Cells
           /\ Inside(posX', posY') \/ Map[PlayerCell'] >= bootable_start
      BY <3>8, <3>9, <3>10
    <3>12. PICK c : c = PlayerCell' /\ CheckExit3(c, FALSE)
      BY <3>9, <3>10
    <3> QED
      BY <1>1, <1>4, <3>1, <3>11, <3>12, ExitChecked
  <2>5. ASSUME UNCHANGED <<placeVars, posX, posY>>, game3 = "key",
               NEW ready \in BOOLEAN, CheckExit3(PlayerCell, ready)
        PROVE  Game3Inv'
    <3>1. PlayerCell' = PlayerCell
      BY <2>5 DEF PlayerCell, CellAt
    <3>2. Inside(posX, posY)
      BY <1>4, <2>5 DEF Game3Inv
    <3>3. PlayerCell \in Cells
      BY <3>2 DEF Inside, PlayerCell
    <3>4. PICK c : c = PlayerCell' /\ CheckExit3(c, ready)
      BY <2>5, <3>1
    <3>5. Inside(posX', posY')
      BY <2>5, <3>2
    <3> QED
      BY <1>1, <1>4, <2>5, <3>1, <3>3, <3>4, <3>5, ExitChecked
  <2>6. ASSUME NEW by \in {-1, 0, 1}, Turn(by) PROVE Game3Inv'
    BY <2>5, <2>6 DEF Turn
  <2>7. CASE Escape3
    BY <2>5, <2>7 DEF Escape3
  <2>8. CASE Return3
    <3>1. UNCHANGED <<posX, posY, entry3, Map>> /\ game3 = "fill" /\ game3' = "returned"
      BY <2>8 DEF Return3, placeVars
    <3>2. PlayerCell' = PlayerCell /\ EntryAt3(PlayerCell)' = EntryAt3(PlayerCell)
      BY <3>1 DEF PlayerCell, CellAt, EntryAt3, MapAt, Index
    <3> QED
      BY <1>1, <1>2, <1>4, <3>1, <3>2 DEF Game3Inv, Border, Cells
  <2> QED
    BY <2>1, <2>2, <2>3, <2>4, <2>6, <2>7, <2>8 DEF Game3Next
<1> QED
  BY <1>3, <1>4

\* The 2D boot manager changes the map only as PlaceBootEntries does.
LEMMA MainStepsPlace ==
  ASSUME [MainNext]_mainVars
  PROVE  [PlaceNext]_placeVars /\ Maze' = Maze
<1>1. [GameNext]_gameVars
  BY DEF MainNext, Program, PlayGame, ImageExits, mainVars, StepSucceeds, StepFails,
     FailureIgnored, LocateFSPartitions, WriteOutOfBounds, GameTraps, AfterGame, SkipPartition,
     ReadNullGuid, LoadImageFails, StartImage, EndOfPartitions
<1>2. [PlaceNext]_placeVars
  BY <1>1, GameStepsPlace
<1>3. Maze' = Maze
  BY <1>2 DEF PlaceNext, StartEntry, DivideByZero, PassCell, MakeExit, IconTrap, EndScan,
     EndPlace, placeVars
<1> QED
  BY <1>2, <1>3

\* Whichever application runs, the invariant of the 3D game is kept.
LEMMA Game3Kept ==
  ASSUME Game3Inv, [FirmwareNext]_firmwareVars
  PROVE  Game3Inv'
<1>1. CASE app = "BootManager3D" /\ Game3Next /\ app' = app
  BY <1>1, Game3Step
<1>2. CASE app = "BootManager2D" /\ [MainNext]_mainVars /\ UNCHANGED <<app, game3Only>>
  <2>1. PlaceInv' /\ Maze' = Maze
    BY <1>2, MainStepsPlace, PlaceInvPreserved DEF Game3Inv
  <2>2. (WallsAreSafe' <=> WallsAreSafe) /\ game3 = "place"
    BY <1>2, <2>1, SafeConstant DEF Game3Inv
  <2>3. UNCHANGED <<posX, posY, dir, entry3, game3, app>>
    BY <1>2 DEF game3Only
  <2>4. PlayerCell' = PlayerCell /\ (Inside(posX, posY)' <=> Inside(posX, posY))
    BY <2>1, <2>3 DEF PlayerCell, Inside, NearInside, Side, CellAt, Border, Cells
  <2> QED
    BY <2>1, <2>2, <2>3, <2>4 DEF Game3Inv
<1>3. CASE UNCHANGED <<app, placeVars, game3Only>>
  <2>1. UNCHANGED <<posX, posY, dir, entry3, game3, app, Maze, Map>>
    BY <1>3 DEF game3Only, placeVars
  <2>2. PlaceInv' /\ (WallsAreSafe' <=> WallsAreSafe)
    BY <1>3, <2>1, PlaceInvPreserved, SafeConstant DEF Game3Inv
  <2>3. /\ PlayerCell' = PlayerCell /\ (Inside(posX, posY)' <=> Inside(posX, posY))
        /\ EntryAt3(PlayerCell)' = EntryAt3(PlayerCell)
    BY <2>1 DEF PlayerCell, Inside, NearInside, Side, CellAt, Border, Cells, EntryAt3, MapAt, Index
  <2> QED
    BY <2>1, <2>2, <2>3 DEF Game3Inv, Border, Cells
<1> QED
  BY <1>1, <1>2, <1>3 DEF FirmwareNext, firmwareVars, mainVars, gameVars

\* On every map with safe walls no move and no ray of the 3D boot manager leads out of the
\* array, although the two coordinates are tested one at a time and moved together; the
\* player enters the border through exits only, and the entry that Game returns is that of
\* the exit the player stands in (Game and the ray caster of BootManager3D/src/DemoGame.c).
THEOREM MapIsSeenAndWalked == FirmwareSpec => []SeesAndWalksTheMap
<1>1. FirmwareInit => Game3Inv
  <2> SUFFICES ASSUME FirmwareInit PROVE Game3Inv
    OBVIOUS
  <2>1. Game3Init /\ PlaceInv
    BY PlaceInvInit DEF FirmwareInit, Game3Init
  <2>2. PICK U \in Nat \ {0}, s1 \in 1 .. MapWidth - 2, s2 \in 1 .. MapHeight - 2 :
          U = CellUnits /\ Start3 = <<s1, s2>>
    BY MoveAssumption
  <2>3. PICK half \in 0 .. U - 1 : half = U \div 2
    OBVIOUS
  <2>4. posX = s1 * U + half /\ posY = s2 * U + half
    BY <2>1, <2>2, <2>3 DEF Game3Init
  <2>5. ASSUME NEW k \in Nat PROVE k * U + half \in Nat /\ CellAt(k * U + half) = k
    <3>1. k * U + half \in Nat /\ (k * U + half) \div U = k
      BY ONLY k \in Nat, U \in Nat \ {0}, half \in 0 .. U - 1, RowColumn
    <3> QED
      BY <2>2, <3>1 DEF CellAt
  <2>6. s1 \in Nat /\ s2 \in Nat
    BY MapCells
  <2>7. posX \in Nat /\ posY \in Nat /\ CellAt(posX) = s1 /\ CellAt(posY) = s2
    BY <2>4, <2>5, <2>6
  <2>8. PlayerCell = Start3 /\ PlayerCell \in Cells \ Border
    BY <2>2, <2>7, MapCells DEF PlayerCell
  <2>9. WallsAreSafe => Inside(posX, posY)
    BY <2>7, <2>8 DEF WallsAreSafe, Inside, PlayerCell
  <2>10. dir \in 1 .. Len(Directions)
    BY <2>1, MoveAssumption DEF Game3Init
  <2> QED
    BY <2>1, <2>8, <2>9, <2>10 DEF Game3Init, Game3Inv
<1>2. Game3Inv /\ [FirmwareNext]_firmwareVars => Game3Inv'
  BY Game3Kept
<1>3. Game3Inv => SeesAndWalksTheMap
  <2> SUFFICES ASSUME Game3Inv, WallsAreSafe
               PROVE  /\ game3 # "undefined"
                      /\ PlayerCell \in Cells \ Border \/ MapAt(PlayerCell) >= bootable_start
                      /\ game3 = "returned" => entry3 = EntryAt3(PlayerCell)
    BY DEF SeesAndWalksTheMap, EntryAt3
  <2>1. PlayerCell \in Cells
    BY DEF Game3Inv, Inside, PlayerCell
  <2>2. MapAt(PlayerCell) = Map[PlayerCell]
    BY <2>1, CellOnMap
  <2>3. PlayerCell \in Cells \ Border \/ Map[PlayerCell] >= bootable_start
    BY <2>1 DEF Game3Inv, Inside, PlayerCell
  <2> QED
    BY <2>2, <2>3 DEF Game3Inv
<1> QED
  BY <1>1, <1>2, <1>3, PTL DEF FirmwareSpec

-----------------------------------------------------------------------------
(***************************************************************************)
(* Wordle: the word, the guesses and what is booted.                         *)
(***************************************************************************)
TheLine == Line(RandomWord)

\* The property, of the line that is taken.
LineGuessed ==
  /\ word # << >> => word = TheLine
  /\ Len(guesses) > 0 => word = TheLine
  /\ \A n \in 1 .. Len(guesses) :
       guesses[n] = TheLine => n = Len(guesses) /\ wordle \in {"returned", "undefined"}
  /\ wordBooted => Len(guesses) > 0 /\ guesses[Len(guesses)] = TheLine
  /\ wordle = "returned" => wordBooted \/ Len(guesses) = Moves

\* A move is counted with its guess, and no guess before the last was the line.
WordInv ==
  /\ words \in WordFiles /\ move = Len(guesses)
  /\ input_word \in Seq(Letters) /\ guesses \in Seq(Seq(Letters))
  /\ wordle = "mark" => Len(input_word) = WordLength
  /\ wordle = "read" => guesses = << >>
  /\ wordle \in {"key", "mark"} => word = TheLine
  /\ wordle \in {"read", "key", "mark"} =>
       ~wordBooted /\ \A n \in 1 .. Len(guesses) : guesses[n] # TheLine
  /\ LineGuessed

\* The line is a word of the file.
LEMMA LineLetters ==
  ASSUME words \in WordFiles
  PROVE  /\ TheLine \in Seq(Letters \cup {"bom", "nl"}) /\ Len(TheLine) = WordLength
         /\ \A k \in 1 .. WordLength :
              TheLine[k] = words[(WordLength + 1) * RandomWord + k + 1]
<1>1. PICK b \in Nat : b = RandomWord * (WordLength + 1)
  BY WordAssumption
<1>2. /\ (WordLength + 1) * RandomWord = b
      /\ (RandomWord + 1) * (WordLength + 1) = b + WordLength + 1
  BY <1>1, WordAssumption
<1>3. /\ words \in Seq(Letters \cup {"bom", "nl"}) /\ WordLength \in Nat
      /\ b + WordLength + 1 <= Len(words)
  BY <1>2, WordAssumption
<1>4. TheLine = SubSeq(words, 2 + b, 1 + WordLength + b)
  BY <1>1 DEF TheLine, Line
<1>5. /\ TheLine \in Seq(Letters \cup {"bom", "nl"}) /\ Len(TheLine) = WordLength
      /\ \A k \in 1 .. WordLength : TheLine[k] = words[b + k + 1]
  BY <1>3, <1>4
<1> QED
  BY <1>2, <1>5

\* All the letters are marked right exactly when the guess is the line.
LEMMA AllRight ==
  ASSUME WordInv, wordle = "mark"
  PROVE  Count = WordLength <=> input_word = TheLine
<1>1. /\ input_word \in Seq(Letters) /\ Len(input_word) = WordLength
      /\ word = TheLine /\ WordLength \in Nat
  BY WordAssumption DEF WordInv
<1>2. TheLine \in Seq(Letters \cup {"bom", "nl"}) /\ Len(TheLine) = WordLength
  BY LineLetters DEF WordInv
<1>3. PICK R : R = {k \in 1 .. WordLength : Mark(k) = "+"}
  OBVIOUS
<1>4. R = {k \in 1 .. WordLength : input_word[k] = TheLine[k]}
  BY <1>1, <1>3 DEF Mark
<1>5. Cardinality(1 .. WordLength) = WordLength /\ IsFiniteSet(1 .. WordLength)
  BY <1>1, FS_Interval
<1>6. Cardinality(R) = WordLength <=> R = 1 .. WordLength
  BY <1>4, <1>5, FS_Subset
<1>7. R = 1 .. WordLength <=> input_word = TheLine
  <2>1. ASSUME R = 1 .. WordLength PROVE input_word = TheLine
    <3>1. \A k \in 1 .. WordLength : input_word[k] = TheLine[k]
      BY <1>4, <2>1
    <3>2. /\ input_word = [k \in 1 .. WordLength |-> input_word[k]]
          /\ TheLine = [k \in 1 .. WordLength |-> TheLine[k]]
      BY <1>1, <1>2
    <3> QED
      BY <3>1, <3>2
  <2>2. ASSUME input_word = TheLine PROVE R = 1 .. WordLength
    BY <1>4, <2>2
  <2> QED
    BY <2>1, <2>2
<1> QED
  BY <1>3, <1>6, <1>7 DEF Count, Pluses

\* Every step of Wordle.
LEMMA WordStep ==
  ASSUME WordInv, [WordleNext]_wordleVars
  PROVE  WordInv'
<1>1. words' = words /\ TheLine' = TheLine
  BY DEF WordleNext, ReadWordsFails, PickWord, TypeLetter, MarkWord, wordleVars, TheLine, Line
<1>2. CASE ReadWordsFails
  BY <1>1, <1>2 DEF ReadWordsFails, WordInv, LineGuessed, TheLine
<1>3. CASE PickWord
  <2>1. word' = TheLine
    <3>1. word' = [k \in 1 .. WordLength |-> words[(WordLength + 1) * RandomWord + k + 1]]
      BY <1>3 DEF PickWord, ReadWords, GetRandom
    <3>2. TheLine = [k \in 1 .. WordLength |-> TheLine[k]]
      BY LineLetters, WordAssumption DEF WordInv
    <3> QED
      BY <3>1, <3>2, LineLetters DEF WordInv
  <2>2. wordle = "read" /\ wordle' = "key"
        /\ UNCHANGED <<move, input_word, guesses, wordBooted>>
    BY <1>3 DEF PickWord
  <2> QED
    BY <1>1, <2>1, <2>2 DEF WordInv, LineGuessed, TheLine
<1>4. CASE TypeLetter
  <2>1. /\ wordle = "key" /\ wordle' \in {"key", "mark"}
        /\ wordle' = "mark" => Len(input_word') = WordLength
        /\ UNCHANGED <<word, move, guesses, wordBooted>>
    BY <1>4 DEF TypeLetter
  <2>2. input_word' \in Seq(Letters)
    BY <1>4 DEF TypeLetter, WordInv
  <2> QED
    BY <1>1, <2>1, <2>2 DEF WordInv, LineGuessed, TheLine
<1>5. CASE MarkWord
  <2>1. /\ wordle = "mark" /\ word' = word /\ guesses' = Append(guesses, input_word)
        /\ input_word' = << >> /\ move' = move + 1
    BY <1>5 DEF MarkWord
  <2>2. /\ Len(guesses') = Len(guesses) + 1 /\ guesses'[Len(guesses) + 1] = input_word
        /\ \A n \in 1 .. Len(guesses) : guesses'[n] = guesses[n] /\ guesses[n] # TheLine
        /\ Len(guesses) \in Nat /\ guesses' \in Seq(Seq(Letters)) /\ input_word' \in Seq(Letters)
        /\ move' = Len(guesses') /\ word' = TheLine /\ ~wordBooted
    BY <2>1 DEF WordInv
  <2>3. CASE Count = WordLength
    <3>1. input_word = TheLine
      BY <2>1, <2>3, AllRight
    <3>2. /\ wordBooted' \in BOOLEAN /\ wordle' \in {"returned", "undefined"}
          /\ wordle' = "returned" => wordBooted'
      BY <1>5, <2>3, WordAssumption DEF MarkWord
    <3>3. \A n \in 1 .. Len(guesses') : guesses'[n] = TheLine => n = Len(guesses')
      BY SMTT(30), <2>2
    <3>4. Len(guesses') > 0 /\ guesses'[Len(guesses')] = TheLine
      BY <2>2, <3>1
    <3>5. LineGuessed'
      BY <1>1, <2>2, <3>2, <3>3, <3>4 DEF LineGuessed
    <3> QED
      BY <1>1, <2>2, <3>2, <3>5 DEF WordInv
  <2>4. CASE Count # WordLength
    <3>1. input_word # TheLine
      BY <2>1, <2>4, AllRight
    <3>2. /\ wordBooted' = wordBooted /\ wordle' \in {"returned", "key"}
          /\ wordle' = "returned" => move' = Moves
      BY <1>5, <2>4 DEF MarkWord
    <3>3. \A n \in 1 .. Len(guesses') : guesses'[n] # TheLine
      BY <2>2, <3>1
    <3> QED
      BY <1>1, <2>2, <3>2, <3>3 DEF WordInv, LineGuessed, TheLine
  <2> QED
    BY <2>3, <2>4
<1>6. CASE UNCHANGED wordleVars
  BY <1>1, <1>6 DEF wordleVars, WordInv, LineGuessed, TheLine
<1> QED
  BY <1>2, <1>3, <1>4, <1>5, <1>6 DEF WordleNext

\* The word to guess is a whole line of words.txt; the game ends with the guess
\* that is that line, which boots, or after the last move, which does not
\* (Wordle.c).
THEOREM GuessBoots == FirmwareSpec => []GuessedMeansBooted
<1>1. FirmwareInit => WordInv
  <2> SUFFICES ASSUME WordleInit PROVE WordInv
    BY DEF FirmwareInit
  <2>1. Len(<< >>) = 0 /\ << >> \in Seq(Letters) /\ << >> \in Seq(Seq(Letters))
    OBVIOUS
  <2> QED
    BY <2>1 DEF WordleInit, WordInv, LineGuessed
<1>2. WordInv /\ [FirmwareNext]_firmwareVars => WordInv'
  BY OneApplicationSteps, WordStep
<1>3. WordInv => GuessedMeansBooted
  <2> SUFFICES ASSUME WordInv PROVE GuessedMeansBooted
    OBVIOUS
  <2>1. RandomWord \in 0 .. Len(words)
    <3>1. RandomWord \in Nat /\ WordLength \in Nat /\ words \in Seq(Letters \cup {"bom", "nl"})
          /\ (RandomWord + 1) * (WordLength + 1) <= Len(words)
      BY WordAssumption DEF WordInv
    <3>2. PICK b \in Nat : b = RandomWord * WordLength
      BY <3>1
    <3>3. (RandomWord + 1) * (WordLength + 1) = b + RandomWord + WordLength + 1
      BY <3>1, <3>2
    <3> QED
      BY <3>1, <3>2, <3>3
  <2>2. word # << >> => \E n \in 0 .. Len(words) : word = Line(n)
    BY <2>1 DEF WordInv, LineGuessed, TheLine
  <2>3. \A n \in 1 .. Len(guesses) : word = TheLine
    BY DEF WordInv, LineGuessed
  <2>4. wordBooted => guesses # << >> /\ word = TheLine
    BY DEF WordInv, LineGuessed
  <2> QED
    BY <2>2, <2>3, <2>4 DEF WordInv, LineGuessed, TheLine, GuessedMeansBooted
<1> QED
  BY <1>1, <1>2, <1>3, PTL DEF FirmwareSpec

-----------------------------------------------------------------------------
(***************************************************************************)
(* The loader: what is in memory when the kernel is entered.                 *)
(***************************************************************************)
\* Division with remainder.
LEMMA Division ==
  ASSUME NEW a \in Nat, NEW n \in Nat \ {0}
  PROVE  a \div n \in Nat /\ n * (a \div n) <= a /\ a < n * (a \div n) + n
OBVIOUS

\* Multiples are ordered as their factors.
LEMMA Multiples ==
  ASSUME NEW a \in Nat, NEW b \in Nat, NEW n \in Nat, a <= b
  PROVE  n * a <= n * b
<1>1. PICK d \in Nat : b = a + d
  <2>1. b - a \in Nat /\ b = a + (b - a)
    OBVIOUS
  <2> QED BY <2>1
<1>2. n * b = n * a + n * d /\ n * d \in Nat /\ n * a \in Nat
  BY <1>1
<1> QED
  BY <1>2

\* The bytes of the pages p to p + m - 1.
LEMMA BytesOfPages ==
  ASSUME NEW p \in Nat, NEW m \in Nat, NEW a \in Nat, p * PageSize <= a
  PROVE  /\ a < (p + m) * PageSize => PageOf(a) \in p .. p + m - 1
         /\ PageOf(a) >= p /\ PageOf(a) \in Nat
<1>1. PageSize \in Nat \ {0}
  BY LoaderAssumption
<1>2. PICK q \in Nat : q = PageOf(a) /\ PageSize * q <= a /\ a < PageSize * q + PageSize
  BY <1>1, Division DEF PageOf
<1>3. q >= p
  <2>1. ASSUME q + 1 <= p PROVE FALSE
    <3>1. PageSize * (q + 1) <= PageSize * p
      BY <1>1, <2>1, Multiples
    <3>2. PageSize * (q + 1) = PageSize * q + PageSize /\ PageSize * p = p * PageSize
      BY <1>1
    <3> QED
      BY <1>1, <1>2, <3>1, <3>2
  <2> QED
    BY <2>1
<1>4. ASSUME a < (p + m) * PageSize PROVE q < p + m
  <2>1. ASSUME p + m <= q PROVE FALSE
    <3>1. PageSize * (p + m) <= PageSize * q
      BY <1>1, <2>1, Multiples
    <3>2. PageSize * (p + m) = (p + m) * PageSize
      BY <1>1
    <3> QED
      BY <1>1, <1>2, <1>4, <3>1, <3>2
  <2> QED
    BY <2>1
<1> QED
  BY <1>2, <1>3, <1>4

\* Addresses are the bytes of the pages there are.
LEMMA AddressesArePages ==
  ASSUME NEW a \in Nat
  PROVE  a \in Addresses <=> PageOf(a) \in Pages
<1>1. PageSize \in Nat \ {0} /\ PageCount \in Nat /\ PageCount * PageSize \in Nat
  BY LoaderAssumption
<1>2. 0 * PageSize = 0 /\ (0 + PageCount) * PageSize = PageCount * PageSize
  BY <1>1
<1>3. a \in Addresses => PageOf(a) \in Pages
  BY <1>1, <1>2, BytesOfPages DEF Addresses, Pages
<1>4. ASSUME a \notin Addresses PROVE PageOf(a) \notin Pages
  <2>1. PageCount * PageSize <= a
    BY <1>1, <1>4 DEF Addresses
  <2>2. PageOf(a) >= PageCount
    BY <1>1, <2>1, BytesOfPages
  <2> QED
    BY <1>1, <2>2 DEF Pages
<1> QED
  BY <1>3, <1>4

\* The pages of LoadFile hold the file.
LEMMA BufferPages ==
  ASSUME NEW p \in Nat, NEW k \in 0 .. FileSize - 1
  PROVE  p * PageSize + k \in Nat /\ PageOf(p * PageSize + k) \in PagesAt(p, FilePageSize)
<1>1. PageSize \in Nat \ {0} /\ FileSize \in Nat
  BY LoaderAssumption
<1>2. PICK f \in Nat : /\ f = FilePageSize
                       /\ FileSize + PageSize - 1 < PageSize * f + PageSize
  <2>1. FileSize + PageSize - 1 \in Nat
    BY <1>1
  <2> QED
    BY <1>1, <2>1, Division DEF FilePageSize
<1>3. PICK a \in Nat, b \in Nat : a = p * PageSize /\ b = f * PageSize
  BY <1>1
<1>4. (p + f) * PageSize = a + b /\ PageSize * f = b
  BY <1>1, <1>3
<1>5. a + k \in Nat /\ a + k < a + b
  BY <1>1, <1>2, <1>3, <1>4
<1>6. PageOf(a + k) \in p .. p + f - 1
  <2>1. p * PageSize <= a + k /\ a + k < (p + f) * PageSize
    BY <1>3, <1>4, <1>5
  <2> QED
    BY <1>5, <2>1, BytesOfPages
<1> QED
  BY <1>2, <1>3, <1>5, <1>6 DEF PagesAt

\* The pages that UefiMain asks for hold a kernel that starts with a page.
LEMMA KernelPages ==
  ASSUME NEW h \in [type : Nat, paddr : Nat, off : Nat, filesz : Nat, memsz : Nat,
                    align : Nat \ {0}],
         h.paddr % PageSize = 0,
         NEW a \in h.paddr .. AlignUp(h.paddr + h.memsz, h.align) - 1
  PROVE  a \in Nat /\ PageOf(a) \in PagesAt(PageOf(h.paddr), PagesNeeded(h))
<1>1. PageSize \in Nat \ {0} /\ h.paddr \in Nat /\ a \in Nat
  BY LoaderAssumption
<1>2. PICK q \in Nat : q = PageOf(h.paddr) /\ q * PageSize = h.paddr
  <2>1. h.paddr = PageSize * (h.paddr \div PageSize) + (h.paddr % PageSize)
    BY <1>1
  <2> QED
    BY <1>1, <2>1 DEF PageOf
<1>3. AlignUp(h.paddr + h.memsz, h.align) \in Int
  BY DEF AlignUp
<1>4. PICK d \in Nat : d = AlignUp(h.paddr + h.memsz, h.align) - h.paddr /\ a < h.paddr + d
  BY <1>1, <1>3
<1>5. PICK c \in Nat : c = d \div PageSize /\ d < PageSize * c + PageSize
  BY <1>1, <1>4, Division
<1>6. PagesNeeded(h) = c + 1
  BY <1>4, <1>5 DEF PagesNeeded
<1>7. (q + (c + 1)) * PageSize = h.paddr + (PageSize * c + PageSize)
  BY <1>1, <1>2
<1>8. a < (q + (c + 1)) * PageSize
  <2>1. PageSize * c \in Nat
    BY <1>1
  <2> QED
    BY <1>1, <1>4, <1>5, <1>7, <2>1
<1>9. PageOf(a) \in q .. q + (c + 1) - 1
  BY SMTT(30), <1>1, <1>2, <1>8, BytesOfPages
<1> QED
  BY <1>1, <1>2, <1>6, <1>9 DEF PagesAt

\* The case that the theorem is about: the pages were granted, and the kernel is
\* one that kernel.ld makes.
Settled == granted /\ KernelIsSpanned

\* Before the pages of the kernel are asked for.
Early == {"parameters", "LoadFile", "range"}

\* A segment is in memory as it is in the file.
LoadedAs(h) ==
  \A k \in 0 .. PageCount * PageSize :
    h.paddr + k \notin wild =>
      /\ k < h.filesz => memory[h.paddr + k] = h.off + k
      /\ k \in h.filesz .. h.memsz - 1 => memory[h.paddr + k] = Zero

InvLoader ==
  /\ headers \in Kernels /\ ph \in Nat \ {0} /\ buffer_address \in Nat
  /\ owner \in [Pages -> {"free", "firmware", "driver", "params", "buffer", "kernel"}]
  /\ loader \in Early => ph = 1 /\ granted = FALSE
  /\ loader \in Early \cup {"copy"} => wild = {}
  /\ loader = "parameters" => \A p \in Pages : owner[p] \in {"free", "firmware", "driver"}
  /\ loader # "parameters" /\ ParametersPage \in Pages =>
       owner[ParametersPage] \in {"firmware", "driver", "params"}

\* Nothing else is written into the pages of the firmware.
InvFirmware ==
  /\ loader = "parameters" => \A a \in Addresses : memory[a] = Old
  /\ loader \in Early \/ Settled =>
       \A a \in Addresses \ (ParameterBytes \cup wild) :
         owner[PageOf(a)] \in {"firmware", "params"} => memory[a] = Old

\* The file stays in its buffer while it is copied.
InvBuffer ==
  loader = "range" \/ (loader = "copy" /\ Settled) =>
    \A k \in 0 .. FileSize - 1 :
      /\ buffer_address + k \in Addresses
      /\ owner[PageOf(buffer_address + k)] = "buffer"
      /\ memory[buffer_address + k] = k

\* The segments are in the pages that were granted.
InvKernel ==
  loader \notin Early /\ Settled =>
    \A h \in Segments : \A a \in BytesOf(h) : a \in Addresses /\ owner[PageOf(a)] = "kernel"

\* The segments copied so far are in place.
InvCopied ==
  loader \notin Early /\ Settled =>
    /\ \A n \in 1 .. Len(headers) : n < ph /\ headers[n].type = 1 => LoadedAs(headers[n])
    /\ loader # "copy" => ph > Len(headers)

LoadInv == InvLoader /\ InvFirmware /\ InvBuffer /\ InvKernel /\ InvCopied

\* What is known of a header.
LEMMA HeaderFacts ==
  ASSUME headers \in Kernels, NEW n \in 1 .. Len(headers)
  PROVE  /\ headers[n] \in [type : Nat, paddr : Nat, off : Nat, filesz : Nat, memsz : Nat,
                            align : Nat \ {0}]
         /\ headers[n].filesz <= headers[n].memsz
         /\ headers[n].off + headers[n].filesz <= FileSize
         /\ 1 \in 1 .. Len(headers) /\ Len(headers) \in Nat
<1> DEFINE Header == [type : Nat, paddr : Nat, off : Nat, filesz : Nat, memsz : Nat,
                      align : Nat \ {0}]
<1>1. headers \in Seq(Header)
  BY LoaderAssumption
<1>2. headers # << >>
  BY LoaderAssumption
<1>3. headers[n].filesz <= headers[n].memsz /\ headers[n].off + headers[n].filesz <= FileSize
  BY LoaderAssumption
<1> HIDE DEF Header
<1>4. headers[n] \in Header /\ Len(headers) \in Nat /\ 1 \in 1 .. Len(headers)
  BY <1>1, <1>2
<1> QED
  BY <1>3, <1>4 DEF Header

\* The kernel file does not change.
LEMMA SameKernel ==
  ASSUME headers' = headers
  PROVE  Segments' = Segments /\ KernelIsSpanned' = KernelIsSpanned
<1>1. Segments' = Segments
  BY DEF Segments
<1> QED
  BY <1>1 DEF KernelIsSpanned, BytesOf

\* Steps that move no memory.
LEMMA SameLoad ==
  ASSUME LoadInv, UNCHANGED <<headers, memory, owner, buffer_address, granted, ph, wild>>,
         loader # "parameters", loader' \notin Early, loader' = "copy" => loader = "copy",
         loader' = "undefined" => ~granted,
         loader \in Early => loader' = "undefined",
         loader' \notin Early \cup {"copy"} => loader # "copy"
  PROVE  LoadInv'
<1>1. Segments' = Segments /\ KernelIsSpanned' = KernelIsSpanned /\ Settled' = Settled
  BY SameKernel DEF Settled
<1>2. InvLoader'
  BY DEF LoadInv, InvLoader, Early
<1>3. InvFirmware'
  BY <1>1 DEF LoadInv, InvFirmware, InvLoader, Settled, Early
<1>4. InvBuffer'
  BY <1>1 DEF LoadInv, InvBuffer, Settled, Early
<1>5. InvKernel'
  BY <1>1 DEF LoadInv, InvKernel, InvLoader, Settled
<1>6. InvCopied'
  BY <1>1 DEF LoadInv, InvCopied, InvLoader, Settled, LoadedAs, Early
<1> QED
  BY <1>2, <1>3, <1>4, <1>5, <1>6 DEF LoadInv

\* The parameters, then the file in its pages.
LEMMA EarlyStep ==
  ASSUME LoadInv, AllocateParameters \/ LoadFile
  PROVE  LoadInv'
<1>1. CASE AllocateParameters
  <2>1. /\ loader = "parameters" /\ loader' = "LoadFile"
        /\ owner' \in [Pages -> {"free", "firmware", "driver", "params", "buffer", "kernel"}]
        /\ UNCHANGED <<headers, memory, buffer_address, granted, ph, wild>>
    BY <1>1 DEF AllocateParameters, Give, LoadInv, InvLoader, imageVars
  <2>2. ParametersPage \in Pages => owner'[ParametersPage] \in {"firmware", "driver", "params"}
    BY <1>1 DEF AllocateParameters, IsFree, Give, LoadInv, InvLoader
  <2>3. InvLoader' /\ InvFirmware'
    BY <2>1, <2>2 DEF LoadInv, InvLoader, InvFirmware, Early
  <2> QED
    BY <2>1, <2>3 DEF LoadInv, InvBuffer, InvKernel, InvCopied, Early
<1>2. CASE LoadFile
  <2>1. PICK p \in Pages : /\ IsFree(PagesAt(p, FilePageSize))
                           /\ owner' = Give(PagesAt(p, FilePageSize), "buffer")
                           /\ buffer_address' = p * PageSize
    BY <1>2 DEF LoadFile
  <2>2. /\ loader = "LoadFile" /\ loader' = "range"
        /\ memory' = [a \in Addresses |->
             IF a \in buffer_address' .. buffer_address' + FileSize - 1 THEN a - buffer_address'
             ELSE memory[a]]
        /\ UNCHANGED <<headers, granted, ph, wild>>
    BY <1>2 DEF LoadFile
  <2>3. p \in Nat /\ PageSize \in Nat /\ FileSize \in Nat
    BY <2>1, LoaderAssumption DEF Pages
  <2> PICK b \in Nat : b = p * PageSize
    BY <2>3
  <2>4. InvLoader'
    BY <2>1, <2>2, <2>3 DEF Give, IsFree, LoadInv, InvLoader, Early
  <2>5. ASSUME NEW k \in 0 .. FileSize - 1
        PROVE  /\ b + k \in Addresses
               /\ owner'[PageOf(b + k)] = "buffer"
               /\ memory'[b + k] = k
    <3>1. PICK a \in Nat : /\ a = b + k
                           /\ PageOf(a) \in PagesAt(p, FilePageSize) /\ PageOf(a) \in Pages
      BY <2>1, <2>3, BufferPages DEF IsFree
    <3>2. a \in Addresses
      BY <3>1, AddressesArePages
    <3>3. owner'[PageOf(a)] = "buffer"
      BY <2>1, <3>1 DEF Give
    <3>4. a \in b .. b + FileSize - 1 /\ a - b = k
      BY <2>3, <3>1
    <3>5. memory'[a] = a - b
      BY <2>1, <2>2, <3>2, <3>4
    <3> QED
      BY <3>1, <3>2, <3>3, <3>4, <3>5
  <2>6. InvBuffer'
    BY <2>1, <2>5 DEF InvBuffer
  <2>7. ASSUME NEW a \in Addresses \ (ParameterBytes \cup wild),
               owner'[PageOf(a)] \in {"firmware", "params"}
        PROVE  memory'[a] = Old
    <3>1. a \in Nat
      BY LoaderAssumption DEF Addresses
    <3>2. PageOf(a) \in Pages
      BY <2>7, <3>1, AddressesArePages
    <3>3. owner[PageOf(a)] \in {"firmware", "params"}
      BY <2>1, <2>7, <3>2 DEF Give
    <3>4. a \notin b .. b + FileSize - 1
      <4>1. ASSUME a \in b .. b + FileSize - 1
            PROVE  FALSE
        <5>1. PICK k \in 0 .. FileSize - 1 : a = b + k
          <6>1. a - b \in 0 .. FileSize - 1
                /\ a = b + (a - b)
            BY <2>3, <3>1, <4>1
          <6> QED
            BY <6>1
        <5> QED
          BY <2>5, <2>7, <5>1
      <4> QED
        BY <4>1
    <3> QED
      BY <2>1, <2>2, <2>7, <3>3, <3>4 DEF LoadInv, InvFirmware, Early
  <2>8. InvFirmware'
    BY <2>2, <2>7 DEF InvFirmware, ParameterBytes
  <2> QED
    BY <2>2, <2>4, <2>6, <2>8 DEF LoadInv, InvKernel, InvCopied, Early
<1> QED
  BY <1>1, <1>2

\* The pages of the kernel.
LEMMA AllocateKernelStep ==
  ASSUME LoadInv, AllocateKernel
  PROVE  LoadInv'
<1> DEFINE wanted == PagesAt(PageOf(headers[1].paddr), PagesNeeded(headers[1]))
<1>1. /\ loader = "range" /\ loader' = "copy" /\ granted' = IsFree(wanted)
      /\ owner' = IF granted' THEN Give(wanted, "kernel") ELSE owner
      /\ UNCHANGED <<headers, memory, buffer_address, ph, wild>>
  BY DEF AllocateKernel
<1>2. PICK w : w = wanted
  OBVIOUS
<1> HIDE DEF wanted
<1>3. Segments' = Segments /\ KernelIsSpanned' = KernelIsSpanned
  BY <1>1, SameKernel
<1>4. InvLoader'
  BY <1>1 DEF LoadInv, InvLoader, Early, Give, IsFree
<1>5. ASSUME Settled'
      PROVE  /\ granted' /\ KernelIsSpanned /\ w \subseteq Pages
             /\ \A p \in w : owner[p] = "free" /\ owner'[p] = "kernel"
             /\ \A p \in Pages \ w : owner'[p] = owner[p]
  BY <1>1, <1>2, <1>3, <1>5 DEF Settled, IsFree, Give
<1>6. ASSUME NEW a \in Addresses
      PROVE  a \in Nat /\ PageOf(a) \in Pages
  <2>1. a \in Nat
    BY LoaderAssumption DEF Addresses
  <2> QED
    BY <2>1, AddressesArePages
<1>7. InvFirmware'
  <2> SUFFICES ASSUME Settled', NEW a \in Addresses \ (ParameterBytes \cup wild),
                      owner'[PageOf(a)] \in {"firmware", "params"}
               PROVE  memory'[a] = Old
    BY <1>1 DEF InvFirmware, ParameterBytes, Early
  <2>1. owner[PageOf(a)] \in {"firmware", "params"}
    BY <1>5, <1>6
  <2> QED
    BY <1>1, <2>1 DEF LoadInv, InvFirmware, Early
<1>8. InvBuffer'
  <2> SUFFICES ASSUME Settled', NEW k \in 0 .. FileSize - 1
               PROVE  /\ buffer_address + k \in Addresses
                      /\ owner'[PageOf(buffer_address + k)] = "buffer"
                      /\ memory'[buffer_address + k] = k
    BY <1>1 DEF InvBuffer
  <2>1. /\ buffer_address + k \in Addresses
        /\ owner[PageOf(buffer_address + k)] = "buffer"
        /\ memory[buffer_address + k] = k
    BY <1>1 DEF LoadInv, InvBuffer
  <2>2. PageOf(buffer_address + k) \in Pages
    BY <1>6, <2>1
  <2> QED
    BY <1>1, <1>5, <2>1, <2>2
<1>9. InvKernel'
  <2> SUFFICES ASSUME Settled', NEW h \in Segments, NEW a \in BytesOf(h)
               PROVE  a \in Addresses /\ owner'[PageOf(a)] = "kernel"
    BY <1>1, <1>3 DEF InvKernel, BytesOf
  <2>1. /\ headers \in Kernels
        /\ \E n \in 1 .. Len(headers) : h = headers[n]
    BY DEF LoadInv, InvLoader, Segments
  <2>2. /\ headers[1] \in [type : Nat, paddr : Nat, off : Nat, filesz : Nat, memsz : Nat,
                           align : Nat \ {0}]
    BY <2>1, HeaderFacts
  <2>3. /\ headers[1].paddr % PageSize = 0
        /\ a \in headers[1].paddr .. AlignUp(headers[1].paddr + headers[1].memsz,
                                             headers[1].align) - 1
    BY <1>5 DEF KernelIsSpanned
  <2>4. a \in Nat /\ PageOf(a) \in w
    BY <1>2, <2>2, <2>3, KernelPages DEF wanted
  <2>5. a \in Addresses
    BY <1>5, <2>4, AddressesArePages
  <2> QED
    BY <1>5, <2>4, <2>5
<1>10. InvCopied'
  <2>1. ph' = 1
    BY <1>1 DEF LoadInv, InvLoader, Early
  <2>2. Len(headers) \in Nat
    BY LoaderAssumption DEF LoadInv, InvLoader
  <2>3. \A n \in 1 .. Len(headers') : ~(n < ph')
    BY <1>1, <2>1, <2>2
  <2> QED
    BY <1>1, <2>3 DEF InvCopied
<1> QED
  BY <1>4, <1>7, <1>8, <1>9, <1>10 DEF LoadInv

\* A segment is copied into its own bytes.
LEMMA CopySegmentStep ==
  ASSUME LoadInv, CopySegment
  PROVE  LoadInv'
<1>1. /\ loader = "copy" /\ loader' = "copy" /\ ph <= Len(headers) /\ ph' = ph + 1
      /\ UNCHANGED <<headers, owner, buffer_address, granted, wild>>
  BY DEF CopySegment
<1>2. Segments' = Segments /\ KernelIsSpanned' = KernelIsSpanned /\ Settled' = Settled
  BY <1>1, SameKernel DEF Settled
<1>3. InvLoader'
  BY <1>1 DEF LoadInv, InvLoader, Early
<1>4. CASE ~Settled
  BY <1>1, <1>2, <1>3, <1>4
  DEF LoadInv, InvFirmware, InvBuffer, InvKernel, InvCopied, ParameterBytes, Early
<1>5. CASE Settled
  <2>1. headers \in Kernels /\ Len(headers) \in Nat /\ ph \in 1 .. Len(headers)
    <3>1. headers \in Kernels /\ Len(headers) \in Nat /\ ph \in Nat
      BY LoaderAssumption DEF LoadInv, InvLoader
    <3>2. ph >= 1
      BY DEF LoadInv, InvLoader
    <3> QED
      BY <1>1, <3>1, <3>2
  <2>2. PICK h : h = headers[ph]
    OBVIOUS
  <2>3. /\ h.type \in Nat /\ h.paddr \in Nat /\ h.off \in Nat /\ h.filesz \in Nat
        /\ h.memsz \in Nat /\ h.filesz <= h.memsz /\ h.off + h.filesz <= FileSize
    BY <2>1, <2>2, HeaderFacts
  <2>4. InvKernel'
    BY <1>1, <1>2 DEF LoadInv, InvKernel, Early, BytesOf
  <2>5. CASE h.type # 1
    <3>1. memory' = memory
      BY <2>2, <2>5 DEF CopySegment
    <3>2. InvFirmware' /\ InvBuffer'
      BY <1>1, <1>2, <3>1 DEF LoadInv, InvFirmware, InvBuffer, ParameterBytes, Early
    <3>3. \A n \in 1 .. Len(headers') :
            n < ph' /\ headers'[n].type = 1 => LoadedAs(headers[n])
      BY <1>1, <1>5, <2>1, <2>2, <2>5 DEF LoadInv, InvCopied, Early
    <3>4. InvCopied'
      BY <1>1, <3>1, <3>3 DEF InvCopied, LoadedAs
    <3> QED
      BY <1>3, <2>4, <3>2, <3>4 DEF LoadInv
  <2>6. CASE h.type = 1
    <3>1. memory' = [a \in Addresses |->
                       IF a \in h.paddr .. h.paddr + h.filesz - 1
                         THEN memory[buffer_address + h.off + (a - h.paddr)]
                       ELSE IF a \in h.paddr + h.filesz .. h.paddr + h.memsz - 1 THEN Zero
                       ELSE memory[a]]
      BY <2>2, <2>6 DEF CopySegment
    <3>2. h \in Segments
      BY <2>1, <2>2, <2>6 DEF Segments
    <3>3. \A a \in BytesOf(h) : a \in Addresses /\ owner[PageOf(a)] = "kernel"
      BY <1>1, <1>5, <3>2 DEF LoadInv, InvKernel, Early
    <3>4. \A a \in Addresses : a \notin BytesOf(h) => memory'[a] = memory[a]
      <4>1. \A a \in Addresses : a \in Int
        BY LoaderAssumption DEF Addresses
      <4> QED
        BY <2>3, <3>1, <4>1 DEF BytesOf
    <3>5. InvFirmware'
      BY <1>1, <1>2, <1>5, <3>3, <3>4 DEF LoadInv, InvFirmware, ParameterBytes, Early
    <3>6. InvBuffer'
      BY <1>1, <1>2, <1>5, <3>3, <3>4 DEF LoadInv, InvBuffer, Early
    <3>7. ASSUME NEW k \in 0 .. PageCount * PageSize
          PROVE  /\ k < h.filesz => memory'[h.paddr + k] = h.off + k
                 /\ k \in h.filesz .. h.memsz - 1 => memory'[h.paddr + k] = Zero
      <4>1. k \in Nat
        BY LoaderAssumption
      <4>2. CASE k < h.filesz
        <5>1. PICK a \in Nat : /\ a = h.paddr + k /\ a - h.paddr = k /\ a \in BytesOf(h)
                               /\ a \in h.paddr .. h.paddr + h.filesz - 1
          BY <2>3, <4>1, <4>2 DEF BytesOf
        <5>2. memory'[a] = memory[buffer_address + h.off + (a - h.paddr)]
          BY <3>1, <3>3, <5>1
        <5>3. PICK j \in 0 .. FileSize - 1 : j = h.off + k
          BY <2>3, <4>1, <4>2, LoaderAssumption
        <5>4. memory[buffer_address + j] = j
          BY <1>1, <1>5 DEF LoadInv, InvBuffer
        <5>5. buffer_address + h.off + (a - h.paddr) = buffer_address + j
          BY <2>3, <4>1, <5>1, <5>3 DEF LoadInv, InvLoader
        <5> QED
          BY <4>2, <4>1, <2>3, <5>1, <5>2, <5>3, <5>4, <5>5
      <4>3. CASE k \in h.filesz .. h.memsz - 1
        <5>1. PICK a \in Nat : /\ a = h.paddr + k /\ a \in BytesOf(h)
                               /\ a \notin h.paddr .. h.paddr + h.filesz - 1
                               /\ a \in h.paddr + h.filesz .. h.paddr + h.memsz - 1
          BY <2>3, <4>1, <4>3 DEF BytesOf
        <5>2. memory'[a] = Zero
          BY <3>1, <3>3, <5>1
        <5> QED
          BY <2>3, <4>1, <4>3, <5>1, <5>2
      <4> QED
        BY <4>2, <4>3
    <3>8. ASSUME NEW g \in Segments, LoadedAs(g), g # h, NEW k \in 0 .. PageCount * PageSize,
                 g.paddr + k \notin wild
          PROVE  /\ k < g.filesz => memory'[g.paddr + k] = g.off + k
                 /\ k \in g.filesz .. g.memsz - 1 => memory'[g.paddr + k] = Zero
      <4>1. k \in Nat
        BY LoaderAssumption
      <4>2. g.paddr \in Nat /\ g.filesz \in Nat /\ g.memsz \in Nat /\ g.filesz <= g.memsz
        <5>1. PICK n \in 1 .. Len(headers) : g = headers[n]
          BY DEF Segments
        <5> QED
          BY <2>1, <5>1, HeaderFacts
      <4>3. ASSUME k < g.memsz PROVE memory'[g.paddr + k] = memory[g.paddr + k]
        <5>1. PICK a \in Nat : a = g.paddr + k
          BY <4>1, <4>2
        <5>2. a \in BytesOf(g)
          BY <4>1, <4>2, <4>3, <5>1 DEF BytesOf
        <5>3. a \in Addresses /\ a \notin BytesOf(h)
          BY <1>1, <1>5, <3>2, <3>8, <5>2
          DEF Settled, KernelIsSpanned, LoadInv, InvKernel, Early
        <5> QED
          BY <3>4, <5>1, <5>3
      <4>4. /\ k < g.filesz => memory[g.paddr + k] = g.off + k
            /\ k \in g.filesz .. g.memsz - 1 => memory[g.paddr + k] = Zero
        BY <3>8 DEF LoadedAs
      <4> QED
        BY <4>1, <4>2, <4>3, <4>4
    <3>9. InvCopied'
      <4> SUFFICES ASSUME NEW n \in 1 .. Len(headers), n < ph + 1, headers[n].type = 1,
                          NEW k \in 0 .. PageCount * PageSize, headers[n].paddr + k \notin wild
                   PROVE  /\ k < headers[n].filesz =>
                               memory'[headers[n].paddr + k] = headers[n].off + k
                          /\ k \in headers[n].filesz .. headers[n].memsz - 1 =>
                               memory'[headers[n].paddr + k] = Zero
        BY <1>1 DEF InvCopied, LoadedAs
      <4>1. CASE headers[n] = h
        BY <3>7, <4>1
      <4>2. CASE headers[n] # h
        <5>1. headers[n] \in Segments
          BY DEF Segments
        <5>2. n < ph
          BY <2>1, <2>2, <4>2
        <5>3. LoadedAs(headers[n])
          BY <1>1, <1>5, <5>2 DEF LoadInv, InvCopied, Early
        <5> QED
          BY <3>8, <4>2, <5>1, <5>3
      <4> QED
        BY <4>1, <4>2
    <3> QED
      BY <1>3, <2>4, <3>5, <3>6, <3>9 DEF LoadInv
  <2> QED
    BY <2>5, <2>6
<1> QED
  BY <1>4, <1>5

\* The buffer is freed once all is copied; of the kernel and of the firmware only the
\* bytes of struct boot and those under the unset pointer are written.
LEMMA FreeBufferStep ==
  ASSUME LoadInv, FreeBuffer
  PROVE  LoadInv'
<1>1. /\ loader = "copy" /\ loader' \in {"mapSize", "undefined"} /\ ph > Len(headers)
      /\ owner' = [p \in Pages |-> IF owner[p] = "buffer" THEN "free" ELSE owner[p]]
      /\ UNCHANGED <<headers, buffer_address, granted, ph>>
  BY DEF FreeBuffer
<1>2. \A a \in Addresses : a \notin ParameterBytes /\ a \notin wild' => memory'[a] = memory[a]
  BY DEF FreeBuffer
<1>3. Segments' = Segments /\ KernelIsSpanned' = KernelIsSpanned /\ Settled' = Settled
      /\ ParameterBytes' = ParameterBytes
  BY <1>1, SameKernel DEF Settled, ParameterBytes
<1>4. \A a \in Addresses : PageOf(a) \in Pages
  <2>1. \A a \in Addresses : a \in Nat
    BY LoaderAssumption DEF Addresses
  <2> QED
    BY <2>1, AddressesArePages
<1>5. InvLoader'
  BY <1>1 DEF LoadInv, InvLoader, Early
<1>6. CASE ~Settled
  BY <1>1, <1>3, <1>5, <1>6
  DEF LoadInv, InvFirmware, InvBuffer, InvKernel, InvCopied, Early
<1>7. CASE Settled
  <2>1. wild = {}
    BY <1>1 DEF LoadInv, InvLoader
  <2>2. InvFirmware'
    <3> SUFFICES ASSUME NEW a \in Addresses \ (ParameterBytes \cup wild'),
                        owner'[PageOf(a)] \in {"firmware", "params"}
                 PROVE  memory'[a] = Old
      BY <1>1, <1>3 DEF InvFirmware, Early
    <3>1. owner[PageOf(a)] \in {"firmware", "params"}
      BY <1>1, <1>4
    <3> QED
      BY <1>1, <1>2, <1>7, <2>1, <3>1 DEF LoadInv, InvFirmware
  <2>3. InvKernel'
    BY <1>1, <1>3, <1>4 DEF LoadInv, InvKernel, Early, BytesOf
  <2>4. ASSUME NEW n \in 1 .. Len(headers), headers[n].type = 1,
               NEW k \in 0 .. PageCount * PageSize, headers[n].paddr + k \notin wild'
        PROVE  /\ k < headers[n].filesz =>
                    memory'[headers[n].paddr + k] = headers[n].off + k
               /\ k \in headers[n].filesz .. headers[n].memsz - 1 =>
                    memory'[headers[n].paddr + k] = Zero
    <3>1. n < ph
      <4>1. Len(headers) \in Nat /\ ph \in Nat
        BY LoaderAssumption DEF LoadInv, InvLoader
      <4> QED
        BY <1>1, <4>1
    <3>2. /\ k < headers[n].filesz => memory[headers[n].paddr + k] = headers[n].off + k
          /\ k \in headers[n].filesz .. headers[n].memsz - 1 =>
               memory[headers[n].paddr + k] = Zero
      BY <1>1, <1>7, <2>1, <2>4, <3>1 DEF LoadInv, InvCopied, LoadedAs, Early
    <3>3. /\ headers[n].paddr \in Nat /\ headers[n].filesz \in Nat /\ headers[n].memsz \in Nat
          /\ headers[n].filesz <= headers[n].memsz /\ k \in Nat
      <4>1. headers \in Kernels /\ k \in Nat
        BY LoaderAssumption DEF LoadInv, InvLoader
      <4> QED
        BY <4>1, HeaderFacts
    <3>4. ASSUME k < headers[n].memsz
          PROVE  memory'[headers[n].paddr + k] = memory[headers[n].paddr + k]
      <4>1. PICK a \in Nat : a = headers[n].paddr + k
        BY <3>3
      <4>2. a \in BytesOf(headers[n]) /\ headers[n] \in Segments
        BY <2>4, <3>3, <3>4, <4>1 DEF BytesOf, Segments
      <4>3. a \in Addresses /\ owner[PageOf(a)] = "kernel"
        BY <1>1, <1>7, <4>2 DEF LoadInv, InvKernel, Early
      <4>4. a \notin ParameterBytes
        BY <1>1, <1>4, <4>3 DEF ParameterBytes, LoadInv, InvLoader
      <4> QED
        BY <1>2, <2>4, <4>1, <4>3, <4>4
    <3> QED
      BY <3>2, <3>3, <3>4
  <2>5. InvCopied'
    BY <1>1, <2>4 DEF InvCopied, LoadedAs
  <2>6. InvBuffer'
    BY <1>1 DEF InvBuffer
  <2> QED
    BY <1>5, <2>2, <2>3, <2>5, <2>6 DEF LoadInv
<1> QED
  BY <1>6, <1>7

\* A page that the firmware takes was free: it is none of those that count.
LEMMA FirmwareAllocatesStep ==
  ASSUME LoadInv, FirmwareAllocates
  PROVE  LoadInv'
<1>1. PICK p \in Pages : owner[p] = "free" /\ owner' = [owner EXCEPT ![p] = "driver"]
  <2>1. PICK p \in Pages : owner[p] = "free" /\ owner' = Give({p}, "driver")
    BY DEF FirmwareAllocates
  <2>2. owner' = [owner EXCEPT ![p] = "driver"]
    BY <2>1 DEF Give, LoadInv, InvLoader
  <2> QED
    BY <2>1, <2>2
<1>2. UNCHANGED <<headers, memory, buffer_address, granted, ph, wild, loader>>
  BY DEF FirmwareAllocates, imageVars
<1>3. Segments' = Segments /\ KernelIsSpanned' = KernelIsSpanned /\ Settled' = Settled
      /\ ParameterBytes' = ParameterBytes
  BY <1>2, SameKernel DEF Settled, ParameterBytes
<1>4. \A a \in Addresses : PageOf(a) \in Pages
  <2>1. \A a \in Addresses : a \in Nat
    BY LoaderAssumption DEF Addresses
  <2> QED
    BY <2>1, AddressesArePages
<1>5. \A q \in Pages : owner'[q] \in {"driver", owner[q]} /\ (owner[q] # "free" => owner'[q] = owner[q])
  BY <1>1 DEF LoadInv, InvLoader
<1>6. InvLoader'
  BY <1>1, <1>2 DEF LoadInv, InvLoader
<1>7. InvFirmware'
  BY <1>2, <1>3, <1>4, <1>5 DEF LoadInv, InvFirmware
<1>8. InvBuffer'
  BY <1>2, <1>3, <1>4, <1>5 DEF LoadInv, InvBuffer
<1>9. InvKernel'
  BY <1>2, <1>3, <1>4, <1>5 DEF LoadInv, InvKernel, BytesOf
<1>10. InvCopied'
  BY <1>2, <1>3 DEF LoadInv, InvCopied, LoadedAs
<1> QED
  BY <1>6, <1>7, <1>8, <1>9, <1>10 DEF LoadInv

\* The invariant of the loader is inductive, and it is what KernelIntact needs.
LEMMA LoadInductive ==
  /\ LoaderInit => LoadInv
  /\ LoadInv /\ [LoaderNext]_loaderVars => LoadInv'
  /\ LoadInv => KernelIntact
<1>1. ASSUME LoaderInit PROVE LoadInv
  <2>1. /\ headers \in Kernels /\ loader = "parameters" /\ ph = 1 /\ granted = FALSE
        /\ buffer_address = 0 /\ wild = {}
        /\ memory = [a \in Addresses |-> Old]
        /\ owner = [p \in Pages |-> IF p \in FirmwarePages THEN "firmware" ELSE "free"]
    BY <1>1 DEF LoaderInit
  <2>2. InvLoader
    BY <2>1 DEF InvLoader
  <2>3. InvFirmware /\ InvBuffer /\ InvKernel /\ InvCopied
    BY <2>1 DEF InvFirmware, InvBuffer, InvKernel, InvCopied, Early
  <2> QED
    BY <2>2, <2>3 DEF LoadInv
<1>2. ASSUME LoadInv, [LoaderNext]_loaderVars PROVE LoadInv'
  <2>1. CASE AllocateParameters \/ LoadFile
    BY <1>2, <2>1, EarlyStep
  <2>2. CASE AllocateKernel
    BY <1>2, <2>2, AllocateKernelStep
  <2>3. CASE CopySegment
    BY <1>2, <2>3, CopySegmentStep
  <2>4. CASE FreeBuffer
    BY <1>2, <2>4, FreeBufferStep
  <2>5. CASE LoadFileFails
    <3>1. /\ UNCHANGED <<headers, memory, owner, buffer_address, granted, ph, wild>>
          /\ loader = "LoadFile" /\ loader' = "undefined"
      BY <2>5 DEF LoadFileFails, imageVars
    <3>2. ~granted
      BY <1>2, <3>1 DEF LoadInv, InvLoader, Early
    <3> QED
      BY <1>2, <3>1, <3>2, SameLoad DEF Early
  <2>6. CASE GetMapSize \/ AllocateMapPool \/ GetMemoryMap \/ ExitBootServices
    <3>1. /\ UNCHANGED <<headers, memory, owner, buffer_address, granted, ph, wild>>
          /\ loader \in {"mapSize", "pool", "map", "exit"}
          /\ loader' \in {"pool", "map", "exit", "kernel"}
      BY <2>6 DEF GetMapSize, AllocateMapPool, GetMemoryMap, ExitBootServices, imageVars
    <3> QED
      BY <1>2, <3>1, SameLoad DEF Early
  <2>7. CASE FirmwareAllocates
    BY <1>2, <2>7, FirmwareAllocatesStep
  <2>8. CASE UNCHANGED loaderVars
    BY <1>2, <2>8, SameKernel
    DEF loaderVars, imageVars, ParameterBytes, LoadInv, InvLoader, InvFirmware, InvBuffer, InvKernel, InvCopied, LoadedAs,
        Settled, BytesOf
  <2> QED
    BY <1>2, <2>1, <2>2, <2>3, <2>4, <2>5, <2>6, <2>7, <2>8 DEF LoaderNext
<1>3. ASSUME LoadInv PROVE KernelIntact
  <2> SUFFICES ASSUME loader = "kernel", Settled
               PROVE  /\ \A h \in Segments : LoadedAs(h)
                      /\ \A h \in Segments : \A a \in BytesOf(h) : owner[PageOf(a)] = "kernel"
                      /\ \A a \in Addresses \ (ParameterBytes \cup wild) :
                           owner[PageOf(a)] \in {"firmware", "params"} => memory[a] = Old
    BY DEF KernelIntact, Settled, LoadedAs
  <2>1. ASSUME NEW h \in Segments PROVE LoadedAs(h)
    <3>1. PICK n \in 1 .. Len(headers) : h = headers[n] /\ headers[n].type = 1
      BY <2>1 DEF Segments
    <3>2. ph > Len(headers) /\ ph \in Nat
      BY <1>3 DEF LoadInv, InvCopied, InvLoader, Early
    <3>3. n < ph
      <4>1. Len(headers) \in Nat
        BY <1>3, LoaderAssumption DEF LoadInv, InvLoader
      <4> QED
        BY <3>1, <3>2, <4>1
    <3> QED
      BY <1>3, <3>1, <3>3 DEF LoadInv, InvCopied, Early
  <2> QED
    BY <1>3, <2>1 DEF LoadInv, InvKernel, InvFirmware, Early
<1> QED
  BY <1>1, <1>2, <1>3

\* A kernel whose pages were granted is entered with its segments in memory as
\* they are in the file, in pages of its own, and with the pages of the firmware
\* as they were, but for what is written through the unset boot->gdt_desc and the
\* parameters: the copies read a buffer that no copy overwrites, and the pages
\* counted from the first header hold all of them (XV6/xv6.c).
THEOREM KernelArrivesIntact == FirmwareSpec => []KernelIntact
<1>1. FirmwareInit => LoadInv
  BY LoadInductive DEF FirmwareInit
<1>2. LoadInv /\ [FirmwareNext]_firmwareVars => LoadInv'
  BY OneApplicationSteps, LoadInductive
<1>3. LoadInv => KernelIntact
  BY LoadInductive
<1> QED
  BY <1>1, <1>2, <1>3, PTL DEF FirmwareSpec
=============================================================================
