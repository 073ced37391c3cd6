------------------------------ MODULE Labyrinth -----------------------------
(***************************************************************************)
(* What a boot manager promises its player (README.md: "you have to solve a  *)
(* labyrinth to boot the operating system"): every entry is hidden behind a  *)
(* door of its own, the player walks on the floor, and the entry that is     *)
(* chosen is the one behind the door the player walked through.              *)
(***************************************************************************)
EXTENDS Naturals

CONSTANTS Cells, Adjacent(_, _), Start

VARIABLES
  floor, doors,  \* cells of the labyrinth; they never change
  entries,       \* the entries to choose from
  exits,         \* the door of each entry, once they are hidden
  player,        \* cell of the player
  over,          \* the game has ended
  chosen         \* the entry chosen, if any: a set of at most one

labyrinthVars == <<floor, doors, entries, exits, player, over, chosen>>

Init ==
  /\ floor \subseteq Cells /\ doors \subseteq Cells \ floor
  /\ Start \in floor
  /\ exits = << >>
  /\ player = Start
  /\ over = FALSE /\ chosen = {}

Hidden == DOMAIN exits = entries

\* Each entry gets a door of its own.
Hide ==
  /\ ~Hidden
  /\ exits' \in [entries -> doors]
  /\ \A e, f \in entries : exits'[e] = exits'[f] => e = f
  /\ UNCHANGED <<floor, doors, entries, player, over, chosen>>

Walk ==
  /\ Hidden /\ ~over
  /\ \E c \in floor : Adjacent(player, c) /\ player' = c
  /\ UNCHANGED <<floor, doors, entries, exits, over, chosen>>

WalkOut ==
  /\ Hidden /\ ~over
  /\ \E e \in entries :
       /\ Adjacent(player, exits[e])
       /\ player' = exits[e]
       /\ chosen' = {e}
  /\ over' = TRUE
  /\ UNCHANGED <<floor, doors, entries, exits>>

Quit ==
  /\ Hidden /\ ~over
  /\ over' = TRUE
  /\ UNCHANGED <<floor, doors, entries, exits, player, chosen>>

Next == Hide \/ Walk \/ WalkOut \/ Quit

Spec == Init /\ [][Next]_labyrinthVars /\ WF_labyrinthVars(Hide)
=============================================================================
