--------------------------- MODULE ParseConfigFile --------------------------
(***************************************************************************)
(* ParseConfigFile of Config.c (the same function in both boot managers).    *)
(* One pass over the file counts the boot entries, which blank lines         *)
(* separate, and allocates the array; a second pass stores the values, the   *)
(* text after ": " of each line, in the fields of the entries in order.      *)
(*                                                                         *)
(* A step is one iteration of a loop.  Characters are classes: the parser    *)
(* tells apart a line feed, a colon, a space and everything else.  A value   *)
(* is the range of positions that is copied.  Positions count from 1.        *)
(***************************************************************************)
EXTENDS Naturals, Sequences, FiniteSets

CONSTANTS
  Files,    \* contents of the configuration file: sequences of characters
  NULL      \* a field that AllocateZeroPool has zeroed

Characters == {"nl", "colon", "space", "other"}

\* What a field may point to: a copy of the characters first to last.
Value == [first : Nat, last : Nat]

ASSUME FilesAssumption == Files \subseteq Seq(Characters) /\ NULL \notin Value

\* title, volume_guid, loader_name, icon, options
Fields == 0 .. 4

VARIABLES
  FileData,      \* never assigned
  idx, prev,     \* the i of the code, and the character before it
  result_size, result,
  cur_struct, cur_value, cur_char, write,
  parser         \* "count", "store", "done"

parseVars == <<FileData, idx, prev, result_size, result, cur_struct, cur_value,
               cur_char, write, parser>>

length == Len(FileData)
cur == FileData[idx]

BlankLine == cur = "nl" /\ prev = "nl"

ParseInit ==
  /\ FileData \in Files
  /\ idx = 1 /\ prev = "none"
  /\ result_size = 1 /\ result = << >>
  /\ cur_struct = 0 /\ cur_value = 0 /\ cur_char = 0 /\ write = FALSE
  /\ parser = "count"

-----------------------------------------------------------------------------
\* Mutant of CountBlankLines: prev is not updated, so no blank line is seen.
CountBlankLines_NoPrev ==
  /\ parser = "count"
  /\ idx <= length
  /\ result_size' = IF BlankLine THEN result_size + 1 ELSE result_size
  /\ idx' = idx + 1
  /\ UNCHANGED <<FileData, prev, result, cur_struct, cur_value, cur_char, write, parser>>

\* An iteration of the first loop.
CountBlankLines ==
  /\ parser = "count"
  /\ idx <= length
  /\ result_size' = IF BlankLine THEN result_size + 1 ELSE result_size
  /\ prev' = cur
  /\ idx' = idx + 1
  /\ UNCHANGED <<FileData, result, cur_struct, cur_value, cur_char, write, parser>>

Allocate ==
  /\ parser = "count"
  /\ idx = length + 1
  /\ result' = [s \in 0 .. result_size - 1 |-> [f \in Fields |-> NULL]]
  /\ idx' = 1 /\ prev' = "none"
  /\ parser' = "store"
  /\ UNCHANGED <<FileData, result_size, cur_struct, cur_value, cur_char, write>>

\* The four branches of the second loop.
NextCharacter ==
  /\ parser = "store"
  /\ idx <= length
  /\ prev' = cur
  /\ idx' = idx + 1
  /\ UNCHANGED <<FileData, result_size, parser>>

NextEntry ==
  /\ NextCharacter
  /\ BlankLine
  /\ cur_struct' = cur_struct + 1
  /\ cur_value' = 0
  /\ UNCHANGED <<result, cur_char, write>>

\* A line ends: the last cur_char characters are its value.  A sixth value of
\* an entry is dropped.
EndOfLine ==
  /\ NextCharacter
  /\ cur = "nl" /\ prev # "nl"
  /\ write' = FALSE
  /\ result' = IF cur_value \in Fields
                 THEN [result EXCEPT ![cur_struct][cur_value] =
                         [first |-> idx - cur_char, last |-> idx - 1]]
                 ELSE result
  /\ cur_char' = 0
  /\ cur_value' = cur_value + 1
  /\ UNCHANGED cur_struct

\* Mutant of Separator: the space of ": " is taken into the value.
Separator_Counted ==
  /\ NextCharacter
  /\ cur = "space" /\ prev = "colon"
  /\ write' = TRUE
  /\ cur_char' = cur_char + 1
  /\ UNCHANGED <<result, cur_struct, cur_value>>

Separator ==
  /\ NextCharacter
  /\ cur = "space" /\ prev = "colon"
  /\ write' = TRUE
  /\ UNCHANGED <<result, cur_struct, cur_value, cur_char>>

OtherCharacter ==
  /\ NextCharacter
  /\ cur # "nl"
  /\ ~(cur = "space" /\ prev = "colon")
  /\ cur_char' = IF write THEN cur_char + 1 ELSE cur_char
  /\ UNCHANGED <<result, cur_struct, cur_value, write>>

EndOfFile ==
  /\ parser = "store"
  /\ idx = length + 1
  /\ parser' = "done"
  /\ UNCHANGED <<FileData, idx, prev, result_size, result, cur_struct, cur_value,
                 cur_char, write>>

ParseNext ==
  \/ CountBlankLines \/ Allocate
  \/ NextEntry \/ EndOfLine \/ Separator \/ OtherCharacter \/ EndOfFile

ParseSpec == ParseInit /\ [][ParseNext]_parseVars /\ WF_parseVars(ParseNext)

-----------------------------------------------------------------------------
\* The values of the parser's state.
ParseTypeOK ==
  /\ FileData \in Files
  /\ idx \in 1 .. length + 1
  /\ prev \in Characters \cup {"none"}
  /\ result_size \in Nat \ {0}
  /\ parser \in {"count", "store", "done"}
  /\ parser # "count" => result \in [0 .. result_size - 1 -> [Fields -> Value \cup {NULL}]]
  /\ cur_struct \in Nat /\ cur_value \in Nat /\ cur_char \in Nat
  /\ write \in BOOLEAN

\* The second pass stays inside the array that the first pass sized.
StaysInArray == parser = "store" => cur_struct < result_size

\* The characters about to be copied are characters of the line being read: the
\* index idx - cur_char + j neither underflows nor reaches into another line.
CopiesOwnLine ==
  parser = "store" =>
    /\ cur_char < idx
    /\ \A k \in idx - cur_char .. idx - 1 : FileData[k] # "nl"

\* A reference reading of the file, position by position.
IsBlankLine(k) == k > 1 /\ FileData[k] = "nl" /\ FileData[k - 1] = "nl"
IsLineEnd(k) == FileData[k] = "nl" /\ ~IsBlankLine(k)
IsSeparator(k) == k > 1 /\ FileData[k] = "space" /\ FileData[k - 1] = "colon"

EntryAt(k) == Cardinality({b \in 1 .. k - 1 : IsBlankLine(b)})

\* Lines of the entry at position k that end before k.
LinesBefore(k) ==
  {e \in 1 .. k - 1 : IsLineEnd(e) /\ ~\E b \in e .. k - 1 : IsBlankLine(b)}

SameLine(a, b) == ~\E k \in a .. b : FileData[k] = "nl"

\* When the parser is done, the value of every line with one ": " is the rest of
\* that line, in the field and the entry that the line counts for; entries are
\* as many as blank lines separate; and a field without a line is zero.
ParsedAsWritten ==
  parser = "done" =>
    /\ result_size = EntryAt(length + 1) + 1
    /\ \A e \in 1 .. length, s \in 1 .. length :
         /\ IsLineEnd(e) /\ IsSeparator(s) /\ s < e /\ SameLine(s, e - 1)
         /\ \A t \in 1 .. e - 1 : IsSeparator(t) /\ SameLine(t, e - 1) => t = s
         /\ Cardinality(LinesBefore(e)) \in Fields
         => result[EntryAt(e)][Cardinality(LinesBefore(e))]
              = [first |-> s + 1, last |-> e - 1]
    /\ \A n \in 0 .. result_size - 1, f \in Fields :
         result[n][f] = NULL <=>
           ~\E e \in 1 .. length :
              IsLineEnd(e) /\ EntryAt(e) = n /\ Cardinality(LinesBefore(e)) = f
=============================================================================
