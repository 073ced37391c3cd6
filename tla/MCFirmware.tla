----------------------------- MODULE MCFirmware -----------------------------
(***************************************************************************)
(* An instance of Firmware for TLC: the instances of the boot manager and of *)
(* the parser, and small files for the other applications.                   *)
(***************************************************************************)
EXTENDS Firmware, MCBootManager2D, MCParseConfigFile

\* A corridor of two cells in a closed border: an escape cell at each end of it,
\* and one where the first of them is above the corridor.
BorderMazes ==
  {[c \in Cells |-> CASE c \in {<<1, 1>>, <<2, 1>>} -> 0 [] c = e -> 10 [] c = <<3, 1>> -> 11
                     [] OTHER -> 1] : e \in {<<0, 1>>, <<1, 0>>}}

\* Four straight and four diagonal directions.
Compass == <<<<1, 0>>, <<1, 1>>, <<0, 1>>, <<-1, 1>>, <<-1, 0>>, <<-1, -1>>, <<0, -1>>, <<1, -1>>>>
FirstCell == <<1, 1>>

Text(rows) == FlattenSeq([n \in 1 .. Len(rows) |-> Append(rows[n], "nl")])

\* Tables of one to three rows and one or two columns, a map whose second row is
\* longer, one whose second row is shorter, and one without a last line feed.
Digit == <<"1", "2", "3", "4", "5", "6", "7">>

MapTexts ==
  {Text([n \in 1 .. h |-> IF w = 1 THEN <<Digit[2 * n]>>
                                   ELSE <<Digit[2 * n], "sp", Digit[2 * n + 1]>>])
     : w \in 1 .. 2, h \in 1 .. 3}
  \cup {Text(<<<<"1">>, <<"2", "sp", "3">>>>), Text(<<<<"1", "sp", "2">>, <<"3">>>>),
        <<"1", "sp", "2", "nl", "3", "sp", "4">>}

TextureTexts == {Text(<<<<"a">>, <<"b", "c">>, <<"d">>>>), <<"a", "nl", "b">>}

SpritePictures == {Text(<<<<"k", ".">>, <<"b", "w">>>>), Text(<<<<"k", "?", "b">>, <<"y", "n", "d">>>>)}

\* Mazes of four columns and three rows, all of their inner and left cells free to
\* choose; and one whose start is in the last column, with a way out of the map.
MazeRows(left, a, b) ==
  <<<<"#", "#", "#", "#">>, <<left, a, b, "x">>, <<"#", "#", "#", "#">>>>

MazeTexts ==
  {Text(MazeRows(l, a, b)) : l \in {"#", "o"}, a \in {"#", ".", "o"}, b \in {"#", ".", "o", "?"}}
  \cup {Text(<<<<"#", "x", "#">>, <<"#", ".", "o">>, <<"#", ".", "#">>>>),
        Text(<<<<"#", "#", "#", "#", "#">>, <<"o", ".", ".", "#", "#">>,
               <<"#", "#", ".", ".", "x">>, <<"#", ".", ".", "#", "#">>,
               <<"#", "#", "#", "#", "#">>>>)}

SpriteBoxes == {Text(<<<<"k", ".">>, <<"b", "w">>>>), Text(<<<<"k", "?">>, <<"y", "n">>>>),
                Text(<<<<"k", "k", "k", "k">>, <<"k", "k", "k", "k">>, <<"k", "k", "k", "k">>,
                       <<"k", "k", "k", "k">>>>)}
Screen == <<20, 15>>

\* A byte order mark and three words of three letters; the second one is taken.
WordTexts ==
  {<<"bom">> \o Text(<<<<"a", "b", "c">>, w, <<"c", "c", "c">>>>)
     : w \in {<<"a", "b", "b">>, <<"b", "a", "c">>}}

Header(type, paddr, off, filesz, memsz, align) ==
  [type |-> type, paddr |-> paddr, off |-> off, filesz |-> filesz, memsz |-> memsz,
   align |-> align]

\* A kernel in one segment, one whose second segment is in the rounding of the
\* first, one whose second segment is beyond it, and one that starts with a
\* header that is not loaded.
KernelHeaders ==
  {<<Header(1, 4, 0, 2, 5, 1)>>,
   <<Header(1, 4, 0, 2, 3, 4), Header(1, 7, 2, 1, 1, 1), Header(0, 0, 0, 0, 0, 1)>>,
   <<Header(1, 4, 0, 2, 2, 2), Header(1, 10, 2, 1, 2, 2)>>,
   <<Header(0, 4, 0, 0, 0, 2), Header(1, 4, 0, 3, 4, 2)>>}

\* Bytes that the pointer may hit: of the firmware, of the kernel, and of no memory.
Strays == {{1}, {8, 9}, {99}}
=============================================================================
