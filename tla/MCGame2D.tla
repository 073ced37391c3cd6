------------------------------ MODULE MCGame2D ------------------------------
(***************************************************************************)
(* Instances of Game2D for TLC: 3 x 3 labyrinths that start in the middle of *)
(* the left column, with escape cells in the corners and floor or wall in    *)
(* between.                                                                 *)
(***************************************************************************)
EXTENDS Game2D

Corners == {0, MapWidth - 1} \X {0, MapHeight - 1}

CornerMazes ==
  {m \in [Cells -> {0, 1, 10, 11}] :
     /\ m[Start] = 0
     /\ \A c \in Cells :
          m[c] \in CASE c = <<0, 0>>   -> {1, 11}
                    [] c \in Corners \ {<<0, 0>>} -> {1, 10}
                    [] OTHER          -> {0, 1}
     /\ Cardinality(EscapeCells(m)) \in 2 .. 3}
=============================================================================
