------------------------------- MODULE MCFile -------------------------------
(* A parent and a child, two inodes, files of one direct and four indirect blocks. *)
EXTENDS File
=============================================================================
