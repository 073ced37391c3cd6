------------------------------- MODULE Wordle -------------------------------
(***************************************************************************)
(* The Wordle application (Application/Wordle/Wordle.c): take a word from    *)
(* words.txt, let the player guess it in six moves, and boot the fourth boot *)
(* option of the firmware when the word is guessed.                          *)
(*                                                                         *)
(* The file is a sequence of 16-bit units: a byte order mark, then lines of  *)
(* WordLength letters.  Letters are compared, never looked at.               *)
(***************************************************************************)
EXTENDS Naturals, Sequences, FiniteSets

CONSTANTS
  WordFiles,    \* contents of words.txt
  Letters,      \* what a key may give for Key.UnicodeChar
  WordLength,   \* 5
  Moves,        \* 6
  RandomWord,   \* 10: GetRandom calls no generator
  FourthOption  \* what EfiBootManagerBoot may find: a set of booleans

\* words.txt is long enough for the word that is taken.
ASSUME WordAssumption ==
  /\ WordLength \in Nat \ {0} /\ Moves \in Nat \ {0} /\ RandomWord \in Nat
  /\ FourthOption \subseteq BOOLEAN
  /\ WordFiles \subseteq Seq(Letters \cup {"bom", "nl"})
  /\ \A w \in WordFiles : Len(w) >= (RandomWord + 1) * (WordLength + 1)

VARIABLES
  words,        \* the file; never assigned
  word,         \* the word to guess
  move, input_word, reply,
  pluses,
  guesses,      \* the words that were entered: history
  wordBooted,   \* EfiBootManagerBoot(&BootOption[3]) was called
  wordle        \* "read", "key", "mark", "returned", "undefined"

wordleVars == <<words, word, move, input_word, reply, pluses, guesses, wordBooted, wordle>>

WordleInit ==
  /\ words \in WordFiles
  /\ word = << >> /\ move = 0 /\ input_word = << >> /\ reply = << >> /\ pluses = 0
  /\ guesses = << >>
  /\ wordBooted = FALSE
  /\ wordle = "read"

-----------------------------------------------------------------------------
\* Every status of ReadFile is printed and ignored.
ReadWordsFails ==
  /\ wordle = "read"
  /\ wordle' = "undefined"
  /\ UNCHANGED <<words, word, move, input_word, reply, pluses, guesses, wordBooted>>

\* ReadFile clears the last byte, the high half of the last unit, which is zero
\* in a file of letters.
ReadWords == words

\* The random number, which is not random.
GetRandom == RandomWord

\* word[i] = word_list[6 * word_idx + i + 1], with i from 0.
PickWord ==
  /\ wordle = "read"
  /\ word' = [k \in 1 .. WordLength |-> ReadWords[(WordLength + 1) * GetRandom + k + 1]]
  /\ wordle' = "key"
  /\ UNCHANGED <<words, move, input_word, reply, pluses, guesses, wordBooted>>

\* A key is read and echoed; there is no way to take it back.
TypeLetter ==
  /\ wordle = "key"
  /\ \E c \in Letters : input_word' = Append(input_word, c)
  /\ wordle' = IF Len(input_word') = WordLength THEN "mark" ELSE "key"
  /\ UNCHANGED <<words, word, move, reply, pluses, guesses, wordBooted>>

\* The mark of a letter.
Mark(k) ==
  IF input_word[k] = word[k] THEN "+"
  ELSE IF \E j \in 1 .. WordLength : input_word[k] = word[j] THEN "?" ELSE "_"

Pluses == Cardinality({k \in 1 .. WordLength : Mark(k) = "+"})

\* Mutant of Count: pluses is not reset between the moves.
Count_Keeps == pluses + Pluses

Count == Pluses

\* The reply, then the fourth boot option when all the letters are right; the
\* firmware may have fewer options.
MarkWord ==
  /\ wordle = "mark"
  /\ reply' = [k \in 1 .. WordLength |-> Mark(k)]
  /\ pluses' = Count
  /\ guesses' = Append(guesses, input_word)
  /\ input_word' = << >>
  /\ move' = move + 1
  /\ IF pluses' = WordLength
       THEN \E there \in FourthOption :
              wordBooted' = there /\ wordle' = IF there THEN "returned" ELSE "undefined"
       ELSE UNCHANGED wordBooted /\ wordle' = IF move' = Moves THEN "returned" ELSE "key"
  /\ UNCHANGED <<words, word>>

WordleNext == ReadWordsFails \/ PickWord \/ TypeLetter \/ MarkWord

-----------------------------------------------------------------------------
\* Line number n of the file, counted from 0, without its line feed.
Line(n) == SubSeq(words, 2 + n * (WordLength + 1), 1 + WordLength + n * (WordLength + 1))

\* The word to guess is a whole line of the file, nothing of its neighbours in it; the
\* game ends after the guess that is that word, which boots, or after the last move
\* without it, which does not.  (Which line it is is the same at every start.)
GuessedMeansBooted ==
  /\ word # << >> => \E n \in 0 .. Len(words) : word = Line(n)
  /\ \A n \in 1 .. Len(guesses) :
       guesses[n] = word => n = Len(guesses) /\ wordle \in {"returned", "undefined"}
  /\ wordBooted => guesses # << >> /\ guesses[Len(guesses)] = word
  /\ wordle = "returned" => wordBooted \/ Len(guesses) = Moves
=============================================================================
