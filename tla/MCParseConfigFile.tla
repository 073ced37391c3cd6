------------------------- MODULE MCParseConfigFile --------------------------
(***************************************************************************)
(* Every file of up to MaxLength characters, and every file of MaxLines      *)
(* lines of three kinds, enough for an entry with more lines than fields.    *)
(***************************************************************************)
EXTENDS ParseConfigFile, SequencesExt

CONSTANTS MaxLength, MaxLines

AllFiles == UNION {[1 .. n -> Characters] : n \in 0 .. MaxLength}

\* A blank line, a line with a value, and one with a second separator.
Lines == {<<"nl">>,
          <<"colon", "space", "other", "nl">>,
          <<"colon", "space", "other", "colon", "space", "nl">>}

LineFiles == {FlattenSeq(ls) : ls \in [1 .. MaxLines -> Lines]}

SomeFiles == AllFiles \cup LineFiles
=============================================================================
