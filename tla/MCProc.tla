------------------------------- MODULE MCProc -------------------------------
(* Two CPUs and three processes; programs kill the first child or pid 0. *)
EXTENDS Proc

MCKillPids == {0, 2}
=============================================================================
