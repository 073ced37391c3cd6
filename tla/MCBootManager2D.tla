--------------------------- MODULE MCBootManager2D --------------------------
(***************************************************************************)
(* Instances of BootManager2D for TLC: one corridor of floor with an escape  *)
(* cell at each end, two entries on two volumes, and every list of one to    *)
(* three file system handles (the boot manager was itself loaded from one).  *)
(***************************************************************************)
EXTENDS BootManager2D

CorridorMazes == {[c \in Cells |-> IF c \in {<<0, 0>>, <<2, 0>>} THEN 10 ELSE 0]}

Lists ==
  UNION {{h \in [1 .. n -> Guids \cup {NoHardDrive}] :
            \A j, k \in 1 .. n : h[j] = h[k] => j = k \/ h[j] = NoHardDrive} : n \in 1 .. 3}

\* Entry 0 is on volume g0, entry 1 on volume g1.
CONSTANTS g0, g1
TwoVolumes == [e \in 0 .. MaxBootEntries - 1 |-> IF e = 0 THEN g0 ELSE g1]
=============================================================================
