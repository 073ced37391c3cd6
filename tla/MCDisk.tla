------------------------------- MODULE MCDisk -------------------------------
(* Three uses of more blocks than there are buffers, one of which may be pinned. *)
EXTENDS Disk, TLC

Symmetry == Permutations(Procs) \cup Permutations(Blocks) \cup Permutations(Values)
=============================================================================
