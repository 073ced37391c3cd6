-------------------------------- MODULE MCLog -------------------------------
(***************************************************************************)
(* Instances of Log for TLC: LOGSIZE is three times MAXOPBLOCKS and nlog is   *)
(* LOGSIZE, as in param.h and mkfs.c.                                        *)
(***************************************************************************)
EXTENDS Log

ZeroDisk == [b \in Blocks |-> 0]
=============================================================================
