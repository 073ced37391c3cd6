---------------------------- MODULE MCFileSystem ----------------------------
(* Two processes and four inodes, three of which fit into the cache; the disk has a *)
(* root alone, or /a, /a/b and a file /b, which take all of its inodes.             *)
EXTENDS FileSystem, TLC

MCPaths == {<<TRUE, <<"a">>>>, <<TRUE, <<"a", "b">>>>, <<FALSE, <<"..">>>>}
AllCalls == {"link", "unlink", "open", "create", "mkdir", "close", "chdir"}
Symmetry == Permutations(Procs)

Dir(i, up, nlink, ents) ==
  [type |-> "dir", nlink |-> nlink, ents |-> ents @@ [NoEntries EXCEPT !["."] = i, ![".."] = up]]
MCImages ==
  {[i \in Inums |-> IF i = ROOTINO THEN Dir(1, 1, 1, <<>>) ELSE Free],
   [i \in Inums |-> CASE i = 1 -> Dir(1, 1, 2, "a" :> 2 @@ "b" :> 4)
                      [] i = 2 -> Dir(2, 1, 2, "b" :> 3)
                      [] i = 3 -> Dir(3, 2, 1, <<>>)
                      [] OTHER -> [type |-> "file", nlink |-> 1, ents |-> NoEntries]]}
=============================================================================
