----------------------------- MODULE FileProofs -----------------------------
(***************************************************************************)
(* What File promises, for every number of processes, descriptors, files,     *)
(* inodes, pipes and blocks, and for every size of block, inode and write.    *)
(*                                                                         *)
(* RefsAreDescriptors: open, dup, pipe, close, fork, exit and the calls that  *)
(* fail keep the reference counts of files, inodes and pipes.  The invariant  *)
(* FileInv counts the descriptors of a file as pairs of a process and a       *)
(* descriptor, and what holds an inode or an end of a pipe as one set: the    *)
(* files that are open, and the last closes that ftable.lock has already let   *)
(* go.                                                                     *)
(*                                                                         *)
(* NoBlockLost, TransactionsFit, ReadsWhatWasWritten: bmap, writei and itrunc  *)
(* keep the blocks of the files.  The invariant ContentInv sees the block     *)
(* numbers of an inode and of its indirect block as one row of a table: no    *)
(* block is in two slots, the bitmap marks what is in one, and the blocks of  *)
(* a file hold its bytes.  A write under way keeps its descriptor (FileInv),   *)
(* so that no other process can free what it writes to.                      *)
(***************************************************************************)
EXTENDS File, FiniteSetTheorems, WellFoundedInduction, TLAPS

Kinds == {"FD_INODE", "FD_PIPE"}

\* An entry of ftable: unused exactly when its type says so.
EntryOK(e) ==
  /\ e = [type |-> e.type, ref |-> e.ref, mode |-> e.mode, of |-> e.of, off |-> e.off]
  /\ e.type \in Kinds \cup {"FD_NONE"} /\ e.ref \in Nat
  /\ e.ref = 0 <=> e.type = "FD_NONE"
  /\ e.type = "FD_INODE" => e.of \in Inodes
  /\ e.type = "FD_PIPE" => e.of \in Pipes /\ e.mode \in {"r", "w"}

\* A call that is not finished: a last close with its copy of the entry, or a write.
TaskOK(t) ==
  \/ t = Idle
  \/ /\ t.op = "FD_INODE" /\ t.of \in Inodes
     /\ t = [op |-> "FD_INODE", of |-> t.of, mode |-> t.mode, put |-> t.put]
  \/ t.op = "FD_PIPE" /\ t.of \in Pipes
  \/ t.op = "write" /\ t = [op |-> "write", of |-> t.of, n |-> t.n, v |-> t.v] /\ t.of \in Files

TableOK ==
  /\ ofile \in [Procs -> [Fds -> Files \cup {NoFile}]]
  /\ DOMAIN ftable = Files /\ ftable = [f \in Files |-> ftable[f]]
  /\ \A f \in Files : EntryOK(ftable[f])
  /\ ends \in [Pipes -> SUBSET {"r", "w"}] /\ iref \in [Inodes -> Int]
  /\ DOMAIN task = Procs /\ task = [p \in Procs |-> task[p]]
  /\ \A p \in Procs : TaskOK(task[p])

\* A process that does not exist has nothing open.
LiveOK == \A p \in Procs \ live : task[p] = Idle /\ \A fd \in Fds : ofile[p][fd] = NoFile

\* The descriptors that refer to a file.
Users(f) == {pf \in Procs \X Fds : ofile[pf[1]][pf[2]] = f}
RefOK == \A f \in Files : ftable[f].ref = Cardinality(Users(f))

\* What may hold an inode or an end of a pipe: a file, or a last close under way.
Handles == ({"file"} \X Files) \cup ({"close"} \X Procs)
Kind(h) ==
  IF h[1] = "file" THEN ftable[h[2]].type
  ELSE IF task[h[2]].op \in Kinds THEN task[h[2]].op ELSE "FD_NONE"
Of(h) == IF h[1] = "file" THEN ftable[h[2]].of ELSE task[h[2]].of
End(h) == IF h[1] = "file" THEN ftable[h[2]].mode ELSE task[h[2]].mode
Holders(type, x) == {h \in Handles : Kind(h) = type /\ Of(h) = x}

InodeOK == \A i \in Inodes : iref[i] = Cardinality(Holders("FD_INODE", i))
PipeOK ==
  \A q \in Pipes :
    /\ ends[q] = {End(h) : h \in Holders("FD_PIPE", q)}
    /\ \A g, h \in Holders("FD_PIPE", q) : End(g) = End(h) => g = h

FileInv == TableOK /\ LiveOK /\ RefOK /\ InodeOK /\ PipeOK

\* A step that leaves a handle what it is.
Same(h) ==
  /\ Kind(h)' = Kind(h)
  /\ Kind(h) \in Kinds => Of(h)' = Of(h) /\ End(h)' = End(h)

-----------------------------------------------------------------------------
(* Sets of descriptors, files and closes *)

\* The descriptors of a process, the entries and the descriptors of a file are finite.
LEMMA TableFinite ==
  /\ IsFiniteSet(Files) /\ IsFiniteSet(Fds) /\ Files \subseteq Nat /\ Fds \subseteq Nat
  /\ NoFile \notin Files
  /\ \A f : IsFiniteSet(Users(f)) /\ Cardinality(Users(f)) \in Nat
<1>1. IsFiniteSet(Files) /\ IsFiniteSet(Fds)
  BY SMTT(30), FileAssumption, FS_Interval DEF Files, Fds
<1>2. IsFiniteSet(Procs \X Fds)
  BY <1>1, FileAssumption, FS_Product
<1>3. \A f : IsFiniteSet(Users(f))
  <2>1. \A f : Users(f) \subseteq Procs \X Fds
    BY DEF Users
  <2> QED
    BY <1>2, <2>1, FS_Subset
<1>4. \A f : Cardinality(Users(f)) \in Nat
  BY <1>3, FS_CardinalityType
<1> QED
  BY <1>1, <1>3, <1>4, FileAssumption DEF Files, Fds, NoFile

\* What holds an inode or a pipe is finite.
LEMMA HoldersFinite ==
  \A t, x : IsFiniteSet(Holders(t, x)) /\ Cardinality(Holders(t, x)) \in Nat
<1>1. \A k : IsFiniteSet({k})
  BY FS_Singleton
<1>2. IsFiniteSet({"file"} \X Files) /\ IsFiniteSet({"close"} \X Procs)
  BY <1>1, TableFinite, FileAssumption, FS_Product
<1>3. IsFiniteSet(Handles)
  BY <1>2, FS_Union DEF Handles
<1>4. \A t, x : IsFiniteSet(Holders(t, x))
  BY <1>3, FS_Subset DEF Holders
<1> QED
  BY <1>4, FS_CardinalityType

\* The holders are the files that are open and the closes under way.
LEMMA HoldersAre ==
  ASSUME TableOK, NEW t \in Kinds, NEW x
  PROVE  Holders(t, x) = ({"file"} \X Holds(t, x)) \cup ({"close"} \X Dropping(t, x))
<1>1. ASSUME NEW f \in Files PROVE <<"file", f>> \in Holders(t, x) <=> f \in Holds(t, x)
  <2>1. ftable[f].type = t => ftable[f].ref > 0
    BY DEF TableOK, EntryOK, Kinds
  <2> QED
    BY <2>1 DEF Holders, Handles, Kind, Of, Holds
<1>2. ASSUME NEW p \in Procs PROVE <<"close", p>> \in Holders(t, x) <=> p \in Dropping(t, x)
  BY DEF Holders, Handles, Kind, Of, Dropping, Kinds
<1>3. \A h \in Handles : (\E f \in Files : h = <<"file", f>>) \/ (\E p \in Procs : h = <<"close", p>>)
  BY DEF Handles
<1>4. Holders(t, x) \subseteq Handles /\ Holds(t, x) \subseteq Files /\ Dropping(t, x) \subseteq Procs
  BY DEF Holders, Holds, Dropping
<1>5. Holders(t, x) \subseteq ({"file"} \X Holds(t, x)) \cup ({"close"} \X Dropping(t, x))
  BY <1>1, <1>2, <1>3, <1>4
<1>6. ({"file"} \X Holds(t, x)) \cup ({"close"} \X Dropping(t, x)) \subseteq Holders(t, x)
  BY <1>1, <1>2, <1>4
<1> QED
  BY <1>5, <1>6

\* So that counting the holders counts both.
LEMMA HoldersCount ==
  ASSUME TableOK, NEW t \in Kinds, NEW x
  PROVE  Cardinality(Holders(t, x)) = Cardinality(Holds(t, x)) + Cardinality(Dropping(t, x))
<1> DEFINE H == Holds(t, x)
           D == Dropping(t, x)
<1>1. IsFiniteSet(H) /\ IsFiniteSet(D)
  BY TableFinite, FileAssumption, FS_Subset DEF Holds, Dropping
<1>2. Holders(t, x) = ({"file"} \X H) \cup ({"close"} \X D)
  BY HoldersAre
<1> HIDE DEF H, D
<1>3. \A k : IsFiniteSet({k}) /\ Cardinality({k}) = 1
  BY FS_Singleton
<1>4. Cardinality(H) \in Nat /\ Cardinality(D) \in Nat
  BY <1>1, FS_CardinalityType
<1>5. IsFiniteSet({"file"} \X H) /\ Cardinality({"file"} \X H) = Cardinality({"file"}) * Cardinality(H)
  BY <1>1, <1>3, FS_Product
<1>6. IsFiniteSet({"close"} \X D) /\ Cardinality({"close"} \X D) = Cardinality({"close"}) * Cardinality(D)
  BY <1>1, <1>3, FS_Product
<1>7. Cardinality({"file"} \X H) = Cardinality(H) /\ Cardinality({"close"} \X D) = Cardinality(D)
  <2>1. Cardinality({"file"}) = 1 /\ Cardinality({"close"}) = 1
    BY <1>3
  <2>2. \A m \in Nat : 1 * m = m
    OBVIOUS
  <2> QED
    BY <1>4, <1>5, <1>6, <2>1, <2>2
<1>8. ({"file"} \X H) \cap ({"close"} \X D) = {}
  OBVIOUS
<1>9. Cardinality(({"file"} \X H) \cap ({"close"} \X D)) = 0
  BY <1>8, FS_EmptySet
<1>10. Cardinality(({"file"} \X H) \cup ({"close"} \X D))
         = Cardinality({"file"} \X H) + Cardinality({"close"} \X D)
             - Cardinality(({"file"} \X H) \cap ({"close"} \X D))
  BY <1>5, <1>6, FS_Union
<1>11. Cardinality(Holders(t, x)) = Cardinality(H) + Cardinality(D)
  BY <1>2, <1>4, <1>7, <1>9, <1>10
<1> QED
  BY <1>11 DEF H, D

\* One more, and one less.
LEMMA AddOne ==
  ASSUME NEW S, IsFiniteSet(S), NEW x, x \notin S
  PROVE  IsFiniteSet(S \cup {x}) /\ Cardinality(S \cup {x}) = Cardinality(S) + 1
BY FS_AddElement

\* Taking one element from a finite set lowers its cardinality by one.
LEMMA DropOne ==
  ASSUME NEW S, IsFiniteSet(S), NEW x \in S
  PROVE  /\ IsFiniteSet(S \ {x}) /\ Cardinality(S \ {x}) = Cardinality(S) - 1
         /\ Cardinality(S) \in Nat /\ Cardinality(S) >= 1
<1>1. Cardinality(S) \in Nat /\ Cardinality(S) # 0
  BY FS_CardinalityType, FS_EmptySet
<1> QED
  BY <1>1, FS_RemoveElement

\* The lowest entry, or the lowest descriptor, that is free.
LEMMA FirstIsIn ==
  ASSUME NEW S, S \subseteq Nat, S # {}
  PROVE  First(S) \in S
<1>1. IsWellFoundedOn(OpToRel(<, Nat), Nat)
  BY NatLessThanWellFounded
<1> DEFINE R == OpToRel(<, Nat)
<1>2. \A x, y \in Nat : <<x, y>> \in R <=> x < y
  BY DEF OpToRel
<1> HIDE DEF R
<1>3. \E x \in S : \A y \in S : ~(<<y, x>> \in R)
  BY <1>1, WFMin DEF R
<1>4. PICK x \in S : \A y \in S : ~(<<y, x>> \in R)
  BY <1>3
<1>5. \A y \in S : ~(y < x)
  BY <1>2, <1>4
<1>6. \A y \in S : x <= y
  BY <1>5
<1> QED
  BY <1>6 DEF First

\* A descriptor that is in use counts.
LEMMA OpenIsCounted ==
  ASSUME TableOK, RefOK, NEW p \in Procs, NEW fd \in Fds, ofile[p][fd] # NoFile
  PROVE  /\ ofile[p][fd] \in Files /\ <<p, fd>> \in Users(ofile[p][fd])
         /\ ftable[ofile[p][fd]].ref >= 1 /\ ftable[ofile[p][fd]].type \in Kinds
<1>1. ofile[p][fd] \in Files
  BY DEF TableOK
<1>2. <<p, fd>> \in Users(ofile[p][fd])
  BY DEF Users
<1>3. ftable[ofile[p][fd]].ref >= 1
  BY <1>1, <1>2, TableFinite, DropOne DEF RefOK
<1> QED
  BY <1>1, <1>2, <1>3 DEF TableOK, EntryOK

\* An entry that is not used has no descriptors.
LEMMA UnusedIsFree ==
  ASSUME TableOK, RefOK, NEW f \in Unused
  PROVE  /\ f \in Files /\ Users(f) = {} /\ ftable[f].type = "FD_NONE" /\ ftable[f].ref = 0
<1>1. f \in Files /\ ftable[f].ref = 0
  BY DEF Unused
<1>2. Users(f) = {}
  BY <1>1, TableFinite, FS_EmptySet DEF RefOK
<1> QED
  BY <1>1, <1>2 DEF TableOK, EntryOK

\* The descriptors after one of them changes.
LEMMA SetDescriptor ==
  ASSUME TableOK, NEW p \in Procs, NEW fd \in Fds, NEW g \in Files \cup {NoFile},
         ofile' = [ofile EXCEPT ![p][fd] = g]
  PROVE  /\ ofile' \in [Procs -> [Fds -> Files \cup {NoFile}]]
         /\ \A q \in Procs, d \in Fds : ofile'[q][d] = IF q = p /\ d = fd THEN g ELSE ofile[q][d]
         /\ \A f \in Files : Users(f)' = IF f = g THEN Users(f) \cup {<<p, fd>>}
                                                ELSE Users(f) \ {<<p, fd>>}
<1>1. ofile \in [Procs -> [Fds -> Files \cup {NoFile}]]
  BY DEF TableOK
<1>2. ofile' \in [Procs -> [Fds -> Files \cup {NoFile}]]
  BY <1>1
<1>3. \A q \in Procs, d \in Fds : ofile'[q][d] = IF q = p /\ d = fd THEN g ELSE ofile[q][d]
  BY <1>1
<1>4. ASSUME NEW f \in Files
      PROVE  Users(f)' = IF f = g THEN Users(f) \cup {<<p, fd>>} ELSE Users(f) \ {<<p, fd>>}
  <2>1. \A u \in Procs \X Fds : u \in Users(f)' <=> (IF u = <<p, fd>> THEN f = g ELSE u \in Users(f))
    <3> SUFFICES ASSUME NEW q \in Procs, NEW d \in Fds
                 PROVE  <<q, d>> \in Users(f)' <=> (IF <<q, d>> = <<p, fd>> THEN f = g ELSE <<q, d>> \in Users(f))
      OBVIOUS
    <3> QED
      BY <1>3 DEF Users
  <2>2. Users(f)' \subseteq Procs \X Fds /\ Users(f) \subseteq Procs \X Fds /\ <<p, fd>> \in Procs \X Fds
    BY DEF Users
  <2> QED
    BY <2>1, <2>2
<1> QED
  BY <1>2, <1>3, <1>4

\* The fields of an entry after its count, its offset or its type changes.
LEMMA EntryUpdate ==
  ASSUME NEW e, EntryOK(e), NEW x
  PROVE  /\ [e EXCEPT !.ref = x] = [type |-> e.type, ref |-> x, mode |-> e.mode, of |-> e.of, off |-> e.off]
         /\ [e EXCEPT !.off = x] = [type |-> e.type, ref |-> e.ref, mode |-> e.mode, of |-> e.of, off |-> x]
         /\ [e EXCEPT !.type = x] = [type |-> x, ref |-> e.ref, mode |-> e.mode, of |-> e.of, off |-> e.off]
BY DEF EntryOK

-----------------------------------------------------------------------------
(* What a step does to the holders of inodes and pipes *)

\* Nothing is taken or given up.
LEMMA HoldersStay ==
  ASSUME FileInv, \A h \in Handles : Same(h), iref' = iref, ends' = ends
  PROVE  InodeOK' /\ PipeOK'
<1>1. \A t \in Kinds : \A x : Holders(t, x)' = Holders(t, x)
  BY DEF Holders, Same, Handles
<1>2. \A q \in Pipes : \A h \in Holders("FD_PIPE", q) : End(h)' = End(h)
  BY DEF Holders, Same, Kinds
<1>3. InodeOK'
  BY <1>1 DEF FileInv, InodeOK, Kinds
<1>4. PipeOK'
  <2> SUFFICES ASSUME NEW q \in Pipes
               PROVE  /\ ends'[q] = {End(h)' : h \in Holders("FD_PIPE", q)}
                      /\ \A g, h \in Holders("FD_PIPE", q) : End(g)' = End(h)' => g = h
    BY <1>1 DEF PipeOK, Kinds
  <2> QED
    BY <1>2 DEF FileInv, PipeOK
<1> QED
  BY <1>3, <1>4

\* One handle takes what another gives up: the last close of a file.
LEMMA HolderPasses ==
  ASSUME FileInv, NEW g \in Handles, NEW h \in Handles, g # h,
         Kind(g) \in Kinds, Kind(h) = "FD_NONE", Kind(g)' = "FD_NONE",
         Kind(h)' = Kind(g), Of(h)' = Of(g), End(h)' = End(g),
         \A k \in Handles \ {g, h} : Same(k), iref' = iref, ends' = ends
  PROVE  InodeOK' /\ PipeOK'
<1>1. ASSUME NEW t \in Kinds, NEW x
      PROVE  Holders(t, x)' = IF g \in Holders(t, x) THEN (Holders(t, x) \ {g}) \cup {h} ELSE Holders(t, x)
  <2>1. \A k \in Handles \ {g, h} : k \in Holders(t, x)' <=> k \in Holders(t, x)
    BY DEF Holders, Same, Handles
  <2>2. g \notin Holders(t, x)' /\ h \notin Holders(t, x) /\ (h \in Holders(t, x)' <=> g \in Holders(t, x))
    BY DEF Holders, Kinds, Handles
  <2>3. Holders(t, x)' \subseteq Handles /\ Holders(t, x) \subseteq Handles
    BY DEF Holders, Handles
  <2> QED
    BY <2>1, <2>2, <2>3
<1>2. ASSUME NEW t \in Kinds, NEW x PROVE h \notin Holders(t, x)
  BY DEF Holders, Kinds
<1>3. InodeOK'
  <2> SUFFICES ASSUME NEW i \in Inodes
               PROVE  Cardinality(Holders("FD_INODE", i)') = Cardinality(Holders("FD_INODE", i))
    BY DEF FileInv, InodeOK
  <2> DEFINE S == Holders("FD_INODE", i)
  <2>1. h \notin S /\ IsFiniteSet(S) /\ Cardinality(S) \in Nat
    BY <1>2, HoldersFinite DEF Kinds
  <2>2. CASE g \in S
    <3>1. Holders("FD_INODE", i)' = (S \ {g}) \cup {h}
      BY <1>1, <2>2 DEF Kinds
    <3> HIDE DEF S
    <3>2. IsFiniteSet(S \ {g}) /\ Cardinality(S \ {g}) = Cardinality(S) - 1 /\ h \notin S \ {g}
      BY <2>1, <2>2, DropOne
    <3>3. Cardinality((S \ {g}) \cup {h}) = Cardinality(S \ {g}) + 1
      BY <3>2, AddOne
    <3>4. Cardinality((S \ {g}) \cup {h}) = Cardinality(S)
      BY <2>1, <3>2, <3>3
    <3> QED
      BY <3>1, <3>4 DEF S
  <2>3. CASE g \notin S
    BY <1>1, <2>3 DEF Kinds
  <2> QED
    BY <2>2, <2>3
<1>4. PipeOK'
  <2> SUFFICES ASSUME NEW q \in Pipes
               PROVE  /\ ends'[q] = {End(k)' : k \in Holders("FD_PIPE", q)'}
                      /\ \A j, k \in Holders("FD_PIPE", q)' : End(j)' = End(k)' => j = k
    BY DEF PipeOK
  <2>1. /\ ends[q] = {End(k) : k \in Holders("FD_PIPE", q)}
        /\ \A j, k \in Holders("FD_PIPE", q) : End(j) = End(k) => j = k
    BY DEF FileInv, PipeOK
  <2>2. \A k \in Holders("FD_PIPE", q) \ {g} : k # h /\ End(k)' = End(k)
    BY <1>2 DEF Holders, Same, Kinds
  <2>3. CASE g \in Holders("FD_PIPE", q)
    <3>1. Holders("FD_PIPE", q)' = (Holders("FD_PIPE", q) \ {g}) \cup {h}
      BY <1>1, <2>3 DEF Kinds
    <3>2. {End(k)' : k \in Holders("FD_PIPE", q)'} = {End(k) : k \in Holders("FD_PIPE", q)}
      BY <2>2, <2>3, <3>1
    <3>3. \A j, k \in Holders("FD_PIPE", q)' : End(j)' = End(k)' => j = k
      BY <2>1, <2>2, <2>3, <3>1
    <3> QED
      BY <2>1, <3>2, <3>3
  <2>4. CASE g \notin Holders("FD_PIPE", q)
    <3>1. Holders("FD_PIPE", q)' = Holders("FD_PIPE", q)
      BY <1>1, <2>4 DEF Kinds
    <3> QED
      BY <2>1, <2>2, <2>4, <3>1
  <2> QED
    BY <2>3, <2>4
<1> QED
  BY <1>3, <1>4

\* An open file takes an inode.
LEMMA HolderTakesInode ==
  ASSUME FileInv, NEW h \in Handles, NEW i \in Inodes,
         Kind(h) = "FD_NONE", Kind(h)' = "FD_INODE", Of(h)' = i,
         \A k \in Handles \ {h} : Same(k), iref' = [iref EXCEPT ![i] = @ + 1], ends' = ends
  PROVE  InodeOK' /\ PipeOK'
<1>1. ASSUME NEW t \in Kinds, NEW x
      PROVE  /\ h \notin Holders(t, x)
             /\ Holders(t, x)' = IF t = "FD_INODE" /\ x = i THEN Holders(t, x) \cup {h} ELSE Holders(t, x)
  <2>1. \A k \in Handles \ {h} : k \in Holders(t, x)' <=> k \in Holders(t, x)
    BY DEF Holders, Same, Handles
  <2>2. h \notin Holders(t, x) /\ (h \in Holders(t, x)' <=> t = "FD_INODE" /\ x = i)
    BY DEF Holders, Kinds, Handles
  <2>3. Holders(t, x)' \subseteq Handles /\ Holders(t, x) \subseteq Handles
    BY DEF Holders, Handles
  <2> QED
    BY <2>1, <2>2, <2>3
<1>2. InodeOK'
  <2> SUFFICES ASSUME NEW j \in Inodes PROVE iref'[j] = Cardinality(Holders("FD_INODE", j)')
    BY DEF InodeOK
  <2> DEFINE S == Holders("FD_INODE", j)
  <2>1. iref[j] = Cardinality(S) /\ IsFiniteSet(S) /\ h \notin S
    BY <1>1, HoldersFinite DEF FileInv, InodeOK, Kinds
  <2>2. iref'[j] = IF j = i THEN iref[j] + 1 ELSE iref[j]
    BY DEF FileInv, TableOK
  <2>3. Holders("FD_INODE", j)' = IF j = i THEN S \cup {h} ELSE S
    BY <1>1 DEF Kinds
  <2> HIDE DEF S
  <2>4. Cardinality(S \cup {h}) = Cardinality(S) + 1
    BY <2>1, AddOne
  <2> QED
    BY <2>1, <2>2, <2>3, <2>4
<1>3. PipeOK'
  <2> SUFFICES ASSUME NEW q \in Pipes
               PROVE  /\ ends'[q] = {End(k)' : k \in Holders("FD_PIPE", q)'}
                      /\ \A j, k \in Holders("FD_PIPE", q)' : End(j)' = End(k)' => j = k
    BY DEF PipeOK
  <2>1. /\ ends[q] = {End(k) : k \in Holders("FD_PIPE", q)}
        /\ \A j, k \in Holders("FD_PIPE", q) : End(j) = End(k) => j = k
    BY DEF FileInv, PipeOK
  <2>2. Holders("FD_PIPE", q)' = Holders("FD_PIPE", q) /\ h \notin Holders("FD_PIPE", q)
    BY <1>1 DEF Kinds
  <2>3. \A k \in Holders("FD_PIPE", q) : End(k)' = End(k)
    BY <2>2 DEF Holders, Same, Kinds
  <2> QED
    BY <2>1, <2>2, <2>3
<1> QED
  BY <1>2, <1>3

\* The last close gives an inode back.
LEMMA HolderDropsInode ==
  ASSUME FileInv, NEW h \in Handles, NEW i \in Inodes,
         Kind(h) = "FD_INODE", Of(h) = i, Kind(h)' = "FD_NONE",
         \A k \in Handles \ {h} : Same(k), iref' = [iref EXCEPT ![i] = @ - 1], ends' = ends
  PROVE  InodeOK' /\ PipeOK'
<1>1. ASSUME NEW t \in Kinds, NEW x
      PROVE  /\ h \in Holders(t, x) <=> t = "FD_INODE" /\ x = i
             /\ Holders(t, x)' = Holders(t, x) \ {h}
  <2>1. \A k \in Handles \ {h} : k \in Holders(t, x)' <=> k \in Holders(t, x)
    BY DEF Holders, Same, Handles
  <2>2. h \notin Holders(t, x)' /\ (h \in Holders(t, x) <=> t = "FD_INODE" /\ x = i)
    BY DEF Holders, Kinds, Handles
  <2>3. Holders(t, x)' \subseteq Handles /\ Holders(t, x) \subseteq Handles
    BY DEF Holders, Handles
  <2> QED
    BY <2>1, <2>2, <2>3
<1>2. InodeOK'
  <2> SUFFICES ASSUME NEW j \in Inodes PROVE iref'[j] = Cardinality(Holders("FD_INODE", j)')
    BY DEF InodeOK
  <2> DEFINE S == Holders("FD_INODE", j)
  <2>1. iref[j] = Cardinality(S) /\ IsFiniteSet(S) /\ (h \in S <=> j = i)
    BY <1>1, HoldersFinite DEF FileInv, InodeOK, Kinds
  <2>2. iref'[j] = IF j = i THEN iref[j] - 1 ELSE iref[j]
    BY DEF FileInv, TableOK
  <2>3. Holders("FD_INODE", j)' = S \ {h}
    BY <1>1 DEF Kinds
  <2> HIDE DEF S
  <2>4. CASE j = i
    BY <2>1, <2>2, <2>3, <2>4, DropOne
  <2>5. CASE j # i
    <3>1. S \ {h} = S
      BY <2>1, <2>5
    <3> QED
      BY <2>1, <2>2, <2>3, <2>5, <3>1
  <2> QED
    BY <2>4, <2>5
<1>3. PipeOK'
  <2> SUFFICES ASSUME NEW q \in Pipes
               PROVE  /\ ends'[q] = {End(k)' : k \in Holders("FD_PIPE", q)'}
                      /\ \A j, k \in Holders("FD_PIPE", q)' : End(j)' = End(k)' => j = k
    BY DEF PipeOK
  <2>1. /\ ends[q] = {End(k) : k \in Holders("FD_PIPE", q)}
        /\ \A j, k \in Holders("FD_PIPE", q) : End(j) = End(k) => j = k
    BY DEF FileInv, PipeOK
  <2>2. Holders("FD_PIPE", q)' = Holders("FD_PIPE", q) /\ h \notin Holders("FD_PIPE", q)
    BY <1>1 DEF Kinds
  <2>3. \A k \in Holders("FD_PIPE", q) : End(k)' = End(k)
    BY <2>2 DEF Holders, Same, Kinds
  <2> QED
    BY <2>1, <2>2, <2>3
<1> QED
  BY <1>2, <1>3

\* The last close of an end of a pipe closes that end, and no other close or file had it.
LEMMA HolderDropsEnd ==
  ASSUME FileInv, NEW h \in Handles, NEW q \in Pipes,
         Kind(h) = "FD_PIPE", Of(h) = q, Kind(h)' = "FD_NONE",
         \A k \in Handles \ {h} : Same(k), iref' = iref, ends' = [ends EXCEPT ![q] = @ \ {End(h)}]
  PROVE  InodeOK' /\ PipeOK'
<1>1. ASSUME NEW t \in Kinds, NEW x
      PROVE  /\ h \in Holders(t, x) <=> t = "FD_PIPE" /\ x = q
             /\ Holders(t, x)' = Holders(t, x) \ {h}
  <2>1. \A k \in Handles \ {h} : k \in Holders(t, x)' <=> k \in Holders(t, x)
    BY DEF Holders, Same, Handles
  <2>2. h \notin Holders(t, x)' /\ (h \in Holders(t, x) <=> t = "FD_PIPE" /\ x = q)
    BY DEF Holders, Kinds, Handles
  <2>3. Holders(t, x)' \subseteq Handles /\ Holders(t, x) \subseteq Handles
    BY DEF Holders, Handles
  <2> QED
    BY <2>1, <2>2, <2>3
<1>2. InodeOK'
  <2>1. \A i \in Inodes : Holders("FD_INODE", i)' = Holders("FD_INODE", i)
    BY <1>1 DEF Kinds
  <2> QED
    BY <2>1 DEF FileInv, InodeOK
<1>3. PipeOK'
  <2> SUFFICES ASSUME NEW r \in Pipes
               PROVE  /\ ends'[r] = {End(k)' : k \in Holders("FD_PIPE", r)'}
                      /\ \A j, k \in Holders("FD_PIPE", r)' : End(j)' = End(k)' => j = k
    BY DEF PipeOK
  <2> DEFINE S == Holders("FD_PIPE", r)
  <2>1. /\ ends[r] = {End(k) : k \in S}
        /\ \A j, k \in S : End(j) = End(k) => j = k
    BY DEF FileInv, PipeOK
  <2>2. Holders("FD_PIPE", r)' = S \ {h} /\ (h \in S <=> r = q)
    BY <1>1 DEF Kinds
  <2>3. \A k \in S \ {h} : End(k)' = End(k)
    BY <2>2 DEF Holders, Same, Kinds
  <2>4. ends'[r] = IF r = q THEN ends[r] \ {End(h)} ELSE ends[r]
    BY DEF FileInv, TableOK
  <2> HIDE DEF S
  <2>5. {End(k)' : k \in S \ {h}} = {End(k) : k \in S \ {h}}
    BY <2>3
  <2>6. ends'[r] = {End(k) : k \in S \ {h}}
    BY <2>1, <2>2, <2>4
  <2> QED
    BY <2>1, <2>2, <2>3, <2>5, <2>6
<1> QED
  BY <1>2, <1>3

\* pipe opens the two ends of a page that nothing held.
LEMMA HoldersOpenPipe ==
  ASSUME FileInv, NEW g \in Handles, NEW h \in Handles, g # h, NEW q \in Pipes, ends[q] = {},
         Kind(g) = "FD_NONE", Kind(h) = "FD_NONE",
         Kind(g)' = "FD_PIPE", Of(g)' = q, End(g)' = "r",
         Kind(h)' = "FD_PIPE", Of(h)' = q, End(h)' = "w",
         \A k \in Handles \ {g, h} : Same(k), iref' = iref, ends' = [ends EXCEPT ![q] = {"r", "w"}]
  PROVE  InodeOK' /\ PipeOK'
<1>1. ASSUME NEW t \in Kinds, NEW x
      PROVE  /\ g \notin Holders(t, x) /\ h \notin Holders(t, x)
             /\ Holders(t, x)' = IF t = "FD_PIPE" /\ x = q THEN Holders(t, x) \cup {g, h} ELSE Holders(t, x)
  <2>1. \A k \in Handles \ {g, h} : k \in Holders(t, x)' <=> k \in Holders(t, x)
    BY DEF Holders, Same, Handles
  <2>2. /\ g \notin Holders(t, x) /\ (g \in Holders(t, x)' <=> t = "FD_PIPE" /\ x = q)
        /\ h \notin Holders(t, x) /\ (h \in Holders(t, x)' <=> t = "FD_PIPE" /\ x = q)
    BY DEF Holders, Kinds, Handles
  <2>3. Holders(t, x)' \subseteq Handles /\ Holders(t, x) \subseteq Handles
    BY DEF Holders, Handles
  <2> QED
    BY <2>1, <2>2, <2>3
<1>2. InodeOK'
  <2>1. \A i \in Inodes : Holders("FD_INODE", i)' = Holders("FD_INODE", i)
    BY <1>1 DEF Kinds
  <2> QED
    BY <2>1 DEF FileInv, InodeOK
<1>3. PipeOK'
  <2> SUFFICES ASSUME NEW r \in Pipes
               PROVE  /\ ends'[r] = {End(k)' : k \in Holders("FD_PIPE", r)'}
                      /\ \A j, k \in Holders("FD_PIPE", r)' : End(j)' = End(k)' => j = k
    BY DEF PipeOK
  <2> DEFINE S == Holders("FD_PIPE", r)
  <2>1. /\ ends[r] = {End(k) : k \in S}
        /\ \A j, k \in S : End(j) = End(k) => j = k
    BY DEF FileInv, PipeOK
  <2>2. Holders("FD_PIPE", r)' = IF r = q THEN S \cup {g, h} ELSE S
    BY <1>1 DEF Kinds
  <2>3. \A k \in S : End(k)' = End(k)
    BY <1>1 DEF Holders, Same, Kinds
  <2>4. ends'[r] = IF r = q THEN {"r", "w"} ELSE ends[r]
    BY DEF FileInv, TableOK
  <2> HIDE DEF S
  <2>5. CASE r = q
    <3>1. S = {}
      BY <2>1, <2>5
    <3>2. Holders("FD_PIPE", r)' = {g, h}
      BY <2>2, <2>5, <3>1
    <3> QED
      BY <2>4, <2>5, <3>2
  <2>6. CASE r # q
    BY <2>1, <2>2, <2>3, <2>4, <2>6
  <2> QED
    BY <2>5, <2>6
<1> QED
  BY <1>2, <1>3

-----------------------------------------------------------------------------
(* Calls that take and give up nothing *)

\* The handles whose file or call stays what it is.
LEMMA HandlesSame ==
  ASSUME NEW F \in SUBSET Files, NEW P \in SUBSET Procs,
         \A f \in F : /\ ftable'[f].type = ftable[f].type
                      /\ ftable[f].type \in Kinds => ftable'[f].of = ftable[f].of /\ ftable'[f].mode = ftable[f].mode,
         \A p \in P : task'[p] = task[p] \/ (task[p].op \notin Kinds /\ task'[p].op \notin Kinds)
  PROVE  \A h \in ({"file"} \X F) \cup ({"close"} \X P) : Same(h)
<1>1. ASSUME NEW f \in F PROVE Same(<<"file", f>>)
  BY DEF Same, Kind, Of, End
<1>2. ASSUME NEW p \in P PROVE Same(<<"close", p>>)
  BY DEF Same, Kind, Of, End, Kinds
<1> QED
  BY <1>1, <1>2

\* No open file and no close under way changes.
LEMMA QuietStep ==
  ASSUME FileInv, LiveOK', ofile' = ofile, ends' = ends, iref' = iref,
         DOMAIN ftable' = Files /\ ftable' = [f \in Files |-> ftable'[f]],
         \A f \in Files : /\ EntryOK(ftable'[f]) /\ ftable'[f].ref = ftable[f].ref /\ ftable'[f].type = ftable[f].type
                          /\ ftable'[f].of = ftable[f].of /\ ftable'[f].mode = ftable[f].mode,
         DOMAIN task' = Procs /\ task' = [p \in Procs |-> task'[p]],
         \A p \in Procs : /\ TaskOK(task'[p])
                          /\ task'[p] = task[p] \/ (task[p].op \notin Kinds /\ task'[p].op \notin Kinds)
  PROVE  FileInv'
<1>1. TableOK'
  BY DEF FileInv, TableOK
<1>2. RefOK'
  <2>1. \A f \in Files : Users(f)' = Users(f)
    BY DEF Users
  <2> QED
    BY <2>1 DEF FileInv, RefOK
<1>3. \A h \in Handles : Same(h)
  <2>1. \A f \in Files : /\ ftable'[f].type = ftable[f].type
                         /\ ftable[f].type \in Kinds => ftable'[f].of = ftable[f].of /\ ftable'[f].mode = ftable[f].mode
    OBVIOUS
  <2>2. \A p \in Procs : task'[p] = task[p] \/ (task[p].op \notin Kinds /\ task'[p].op \notin Kinds)
    OBVIOUS
  <2>3. Files \in SUBSET Files /\ Procs \in SUBSET Procs
    OBVIOUS
  <2> QED
    BY ONLY <2>1, <2>2, <2>3, HandlesSame DEF Handles
<1> QED
  BY <1>1, <1>2, <1>3, HoldersStay DEF FileInv

\* The same when even the table and the calls stay.
LEMMA UnchangedStep ==
  ASSUME FileInv, UNCHANGED <<ofile, ftable, ends, iref, task, live>>
  PROVE  FileInv'
<1>1. LiveOK'
  BY DEF FileInv, LiveOK
<1> QED
  BY <1>1, QuietStep DEF FileInv, TableOK

\* What a call that can start or go on knows of its process.
LEMMA CallsAreLive ==
  ASSUME FileInv, NEW p \in Procs
  PROVE  /\ Calling(p) => task[p] = Idle /\ p \in live
         /\ task[p].op # "none" => p \in live
         /\ Idle.op = "none" /\ Idle.op \notin Kinds /\ TaskOK(Idle)
BY DEF FileInv, LiveOK, Calling, Idle, Kinds, TaskOK

\* The entry that a failed call gives back is unused: nothing is left to be done with it.
LEMMA GiveBackIsQuiet ==
  ASSUME FileInv, NEW p \in Procs, Calling(p), GiveBack(p)
  PROVE  task' = task
<1>1. CASE Unused = {}
  BY <1>1 DEF GiveBack
<1>2. CASE Unused # {}
  <2>1. First(Unused) \in Unused
    BY <1>2, TableFinite, FirstIsIn DEF Unused
  <2>2. ftable[First(Unused)].type = "FD_NONE"
    BY <2>1, UnusedIsFree DEF FileInv
  <2>3. task' = [task EXCEPT ![p] = Idle]
    BY <1>2, <2>2 DEF GiveBack, Finishing
  <2>4. task[p] = Idle /\ task = [q \in Procs |-> task[q]]
    BY DEF Calling, FileInv, TableOK
  <2>5. [task EXCEPT ![p] = Idle] = [q \in Procs |-> task[q]]
    BY <2>4
  <2> QED
    BY <2>3, <2>4, <2>5
<1> QED
  BY <1>1, <1>2

\* open and pipe that fail.
LEMMA OpenFailsKeeps ==
  ASSUME FileInv, NEW p \in Procs, NEW i \in Inodes, sys_open_fails(p, i)
  PROVE  FileInv'
<1>1. task' = task /\ UNCHANGED tableVars
  BY GiveBackIsQuiet DEF sys_open_fails
<1> QED
  BY <1>1, UnchangedStep DEF tableVars

\* A pipe that fails gives back both files and both ends of the pipe.
LEMMA PipeFailsKeeps ==
  ASSUME FileInv, NEW p \in Procs, sys_pipe_fails(p)
  PROVE  FileInv'
<1>1. task' = task
  BY GiveBackIsQuiet DEF sys_pipe_fails
<1> QED
  BY <1>1, UnchangedStep DEF sys_pipe_fails, tableVars

\* unlink changes the inode and not who refers to it.
LEMMA UnlinkKeeps ==
  ASSUME FileInv, NEW p \in Procs, NEW i \in Inodes, sys_unlink(p, i)
  PROVE  FileInv'
BY UnchangedStep DEF sys_unlink, tableVars

\* The offset of a file is all that read and write change in it.
LEMMA OffsetKeeps ==
  ASSUME FileInv, NEW f \in Files, NEW x, ftable' = [ftable EXCEPT ![f].off = x]
  PROVE  /\ DOMAIN ftable' = Files /\ ftable' = [g \in Files |-> ftable'[g]]
         /\ \A g \in Files : /\ EntryOK(ftable'[g]) /\ ftable'[g].ref = ftable[g].ref
                             /\ ftable'[g].type = ftable[g].type
                             /\ ftable'[g].of = ftable[g].of /\ ftable'[g].mode = ftable[g].mode
<1>1. ftable = [g \in Files |-> ftable[g]] /\ \A g \in Files : EntryOK(ftable[g])
  BY DEF FileInv, TableOK
<1>2. DOMAIN ftable' = Files /\ ftable' = [g \in Files |-> ftable'[g]]
  BY <1>1
<1>3. \A g \in Files \ {f} : ftable'[g] = ftable[g]
  BY <1>1
<1>4. ftable'[f] = [ftable[f] EXCEPT !.off = x]
  BY <1>1
<1>5. ftable'[f] = [type |-> ftable[f].type, ref |-> ftable[f].ref, mode |-> ftable[f].mode,
                    of |-> ftable[f].of, off |-> x]
  BY <1>1, <1>4, EntryUpdate
<1> QED
  BY <1>1, <1>2, <1>3, <1>5 DEF EntryOK

\* fileread moves the offset.
LEMMA ReadKeeps ==
  ASSUME FileInv, NEW p \in Procs, NEW fd \in Fds, sys_read(p, fd)
  PROVE  FileInv'
<1> DEFINE f == ofile[p][fd]
           x == ftable[f].off + Len(readi(Disk(ftable[f].of), ftable[f].off, ReadSize))
<1>1. f \in Files
  BY OpenIsCounted DEF FileInv, sys_read
<1>2. ftable' = [ftable EXCEPT ![f].off = x]
  BY DEF sys_read
<1>3. UNCHANGED <<ofile, ends, iref, live, task>>
  BY DEF sys_read
<1>4. LiveOK'
  BY <1>3 DEF FileInv, LiveOK
<1> HIDE DEF f, x
<1>5. /\ DOMAIN ftable' = Files /\ ftable' = [g \in Files |-> ftable'[g]]
      /\ \A g \in Files : /\ EntryOK(ftable'[g]) /\ ftable'[g].ref = ftable[g].ref
                          /\ ftable'[g].type = ftable[g].type
                          /\ ftable'[g].of = ftable[g].of /\ ftable'[g].mode = ftable[g].mode
  BY <1>1, <1>2, OffsetKeeps
<1>6. /\ DOMAIN task' = Procs /\ task' = [q \in Procs |-> task'[q]]
      /\ \A q \in Procs : TaskOK(task'[q]) /\ task'[q] = task[q]
  BY <1>3 DEF FileInv, TableOK
<1> QED
  BY <1>3, <1>4, <1>5, <1>6, QuietStep

\* The call of one process starts, goes on or ends, without a close.
LEMMA TaskKeeps ==
  ASSUME FileInv, NEW p \in Procs, p \in live, live' = live, ofile' = ofile, NEW t, TaskOK(t),
         task[p].op \notin Kinds, t.op \notin Kinds, task' = [task EXCEPT ![p] = t]
  PROVE  /\ LiveOK' /\ DOMAIN task' = Procs /\ task' = [q \in Procs |-> task'[q]]
         /\ \A q \in Procs : /\ TaskOK(task'[q])
                             /\ task'[q] = task[q] \/ (task[q].op \notin Kinds /\ task'[q].op \notin Kinds)
<1>1. task = [q \in Procs |-> task[q]] /\ \A q \in Procs : TaskOK(task[q])
  BY DEF FileInv, TableOK
<1>2. DOMAIN task' = Procs /\ task' = [q \in Procs |-> task'[q]]
  BY <1>1
<1>3. task'[p] = t /\ \A q \in Procs \ {p} : task'[q] = task[q]
  BY <1>1
<1>4. LiveOK'
  BY <1>3 DEF FileInv, LiveOK
<1> QED
  BY <1>1, <1>2, <1>3, <1>4

\* filewrite starts.
LEMMA WriteKeeps ==
  ASSUME FileInv, NEW p \in Procs, NEW fd \in Fds, NEW n \in WriteSizes, NEW v \in Bytes, sys_write(p, fd, n, v)
  PROVE  FileInv'
<1> DEFINE t == [op |-> "write", of |-> ofile[p][fd], n |-> n, v |-> v]
<1>1. ofile[p][fd] \in Files
  BY OpenIsCounted DEF FileInv, sys_write
<1>2. TaskOK(t) /\ t.op \notin Kinds
  BY <1>1 DEF TaskOK, Kinds
<1>3. task' = [task EXCEPT ![p] = t] /\ UNCHANGED <<ofile, ftable, ends, iref, live>>
  BY DEF sys_write, tableVars
<1>4. p \in live /\ task[p].op \notin Kinds
  BY CallsAreLive DEF sys_write
<1> HIDE DEF t
<1>5. /\ LiveOK' /\ DOMAIN task' = Procs /\ task' = [q \in Procs |-> task'[q]]
      /\ \A q \in Procs : /\ TaskOK(task'[q])
                          /\ task'[q] = task[q] \/ (task[q].op \notin Kinds /\ task'[q].op \notin Kinds)
  BY <1>2, <1>3, <1>4, TaskKeeps
<1>6. /\ DOMAIN ftable' = Files /\ ftable' = [f \in Files |-> ftable'[f]]
      /\ \A f \in Files : EntryOK(ftable'[f]) /\ ftable'[f] = ftable[f]
  BY <1>3 DEF FileInv, TableOK
<1> QED
  BY <1>3, <1>5, <1>6, QuietStep

\* One transaction of filewrite.
LEMMA FilewriteKeeps ==
  ASSUME FileInv, NEW p \in Procs, filewrite(p)
  PROVE  FileInv'
<1> DEFINE f == task[p].of
           n1 == Smaller(task[p].n, max)
           t == IF task[p].n = n1 THEN Idle ELSE [task[p] EXCEPT !.n = task[p].n - n1]
<1>1. /\ task[p].op = "write" /\ f \in Files
      /\ task[p] = [op |-> "write", of |-> task[p].of, n |-> task[p].n, v |-> task[p].v]
  <2>1. TaskOK(task[p]) /\ task[p].op = "write"
    BY DEF FileInv, TableOK, filewrite
  <2> QED
    BY <2>1, CallsAreLive DEF TaskOK
<1>2. TaskOK(t) /\ t.op \notin Kinds
  <2>1. CASE task[p].n = n1
    BY <2>1, CallsAreLive
  <2>2. CASE task[p].n # n1
    <3> DEFINE m == task[p].n - n1
    <3>1. t = [op |-> "write", of |-> task[p].of, n |-> m, v |-> task[p].v]
      BY <1>1, <2>2
    <3> HIDE DEF m, t
    <3> QED
      BY <1>1, <3>1 DEF TaskOK, Kinds
  <2> QED
    BY <2>1, <2>2
<1>3. task = [q \in Procs |-> task[q]]
  BY DEF FileInv, TableOK
<1>4. /\ ftable' = [ftable EXCEPT ![f].off = ftable[f].off + n1]
      /\ task' = [task EXCEPT ![p] = t]
      /\ UNCHANGED <<ofile, ends, iref, live>>
  <2>1. ftable' = [ftable EXCEPT ![f].off = ftable[f].off + n1] /\ UNCHANGED <<ofile, ends, iref, live>>
    BY DEF filewrite
  <2>2. task' = [task EXCEPT ![p] = t]
    BY DEF filewrite
  <2> QED
    BY <2>1, <2>2
<1>5. p \in live /\ task[p].op \notin Kinds
  BY <1>1, CallsAreLive DEF Kinds
<1> HIDE DEF f, t
<1>6. /\ LiveOK' /\ DOMAIN task' = Procs /\ task' = [q \in Procs |-> task'[q]]
      /\ \A q \in Procs : /\ TaskOK(task'[q])
                          /\ task'[q] = task[q] \/ (task[q].op \notin Kinds /\ task'[q].op \notin Kinds)
  BY <1>2, <1>4, <1>5, TaskKeeps
<1>7. /\ DOMAIN ftable' = Files /\ ftable' = [g \in Files |-> ftable'[g]]
      /\ \A g \in Files : /\ EntryOK(ftable'[g]) /\ ftable'[g].ref = ftable[g].ref
                          /\ ftable'[g].type = ftable[g].type
                          /\ ftable'[g].of = ftable[g].of /\ ftable'[g].mode = ftable[g].mode
  BY <1>1, <1>4, OffsetKeeps
<1> QED
  BY <1>4, <1>6, <1>7, QuietStep

\* A write that writei refuses.
LEMMA FilewriteFailsKeeps ==
  ASSUME FileInv, NEW p \in Procs, filewrite_fails(p)
  PROVE  FileInv'
<1>1. task' = [task EXCEPT ![p] = Idle] /\ UNCHANGED <<ofile, ftable, ends, iref, live>>
  BY DEF filewrite_fails, tableVars
<1>2. p \in live /\ task[p].op \notin Kinds
  BY CallsAreLive DEF filewrite_fails, Kinds
<1>3. /\ LiveOK' /\ DOMAIN task' = Procs /\ task' = [q \in Procs |-> task'[q]]
      /\ \A q \in Procs : /\ TaskOK(task'[q])
                          /\ task'[q] = task[q] \/ (task[q].op \notin Kinds /\ task'[q].op \notin Kinds)
  BY <1>1, <1>2, CallsAreLive, TaskKeeps
<1>4. /\ DOMAIN ftable' = Files /\ ftable' = [f \in Files |-> ftable'[f]]
      /\ \A f \in Files : EntryOK(ftable'[f]) /\ ftable'[f] = ftable[f]
  BY <1>1 DEF FileInv, TableOK
<1> QED
  BY <1>1, <1>3, <1>4, QuietStep

-----------------------------------------------------------------------------
(* Calls that open, share and close *)

\* A new descriptor of a process that is calling.
LEMMA OpensForLive ==
  ASSUME FileInv, NEW p \in Procs, p \in live, live' = live, task' = task,
         \A q \in Procs \ {p} : \A d \in Fds : ofile'[q][d] = ofile[q][d]
  PROVE  LiveOK'
BY DEF FileInv, LiveOK

\* open takes the first free entry and the first free descriptor.
LEMMA OpenKeeps ==
  ASSUME FileInv, NEW p \in Procs, NEW i \in Inodes, NEW mode \in Modes, sys_open(p, i, mode)
  PROVE  FileInv'
<1> DEFINE e == [type |-> "FD_INODE", ref |-> 1, mode |-> mode, of |-> i, off |-> 0]
<1>1. First(Unused) \in Unused /\ First(FreeFds(p)) \in FreeFds(p)
  BY TableFinite, FirstIsIn DEF sys_open, Unused, FreeFds
<1>2. PICK f \in Unused, fd \in FreeFds(p) : f = First(Unused) /\ fd = First(FreeFds(p))
  BY <1>1
<1>3. f \in Files /\ Users(f) = {} /\ ftable[f].type = "FD_NONE"
  BY <1>2, UnusedIsFree DEF FileInv
<1>4. fd \in Fds /\ ofile[p][fd] = NoFile
  BY <1>2 DEF FreeFds
<1>5. /\ ftable' = [ftable EXCEPT ![f] = e] /\ ofile' = [ofile EXCEPT ![p][fd] = f]
      /\ iref' = [iref EXCEPT ![i] = @ + 1] /\ UNCHANGED <<ends, live, task>>
  BY <1>2 DEF sys_open
<1>6. EntryOK(e) /\ e.type = "FD_INODE" /\ e.of = i /\ e.ref = 1
  BY DEF EntryOK, Kinds
<1>7. p \in live
  BY DEF sys_open, Calling
<1> HIDE DEF e
<1>8. /\ ofile' \in [Procs -> [Fds -> Files \cup {NoFile}]]
      /\ \A q \in Procs, d \in Fds : ofile'[q][d] = IF q = p /\ d = fd THEN f ELSE ofile[q][d]
      /\ \A g \in Files : Users(g)' = IF g = f THEN Users(g) \cup {<<p, fd>>} ELSE Users(g) \ {<<p, fd>>}
  BY <1>3, <1>4, <1>5, SetDescriptor DEF FileInv
<1>9. /\ DOMAIN ftable' = Files /\ ftable' = [g \in Files |-> ftable'[g]] /\ ftable'[f] = e
      /\ \A g \in Files \ {f} : ftable'[g] = ftable[g]
  BY <1>3, <1>5 DEF FileInv, TableOK
<1>10. TableOK'
  BY <1>5, <1>6, <1>8, <1>9 DEF FileInv, TableOK
<1>11. LiveOK'
  BY <1>5, <1>7, <1>8, OpensForLive
<1>12. RefOK'
  <2> SUFFICES ASSUME NEW g \in Files PROVE ftable'[g].ref = Cardinality(Users(g)')
    BY DEF RefOK
  <2>1. CASE g = f
    <3>1. Users(g)' = {<<p, fd>>}
      BY <1>3, <1>8, <2>1
    <3> QED
      BY <1>6, <1>9, <2>1, <3>1, FS_Singleton
  <2>2. CASE g # f
    <3>1. <<p, fd>> \notin Users(g)
      BY <1>4, TableFinite DEF Users
    <3>2. Users(g) \ {<<p, fd>>} = Users(g)
      BY <3>1
    <3>3. Users(g)' = Users(g)
      BY <1>8, <2>2, <3>2
    <3> QED
      BY <1>9, <2>2, <3>3 DEF FileInv, RefOK
  <2> QED
    BY <2>1, <2>2
<1>13. InodeOK' /\ PipeOK'
  <2> DEFINE h == <<"file", f>>
  <2>1. h \in Handles /\ Kind(h) = "FD_NONE" /\ Kind(h)' = "FD_INODE" /\ Of(h)' = i
    BY <1>3, <1>6, <1>9 DEF Handles, Kind, Of
  <2>2. \A k \in ({"file"} \X (Files \ {f})) \cup ({"close"} \X Procs) : Same(k)
    BY <1>5, <1>9, HandlesSame
  <2>3. Handles \ {h} \subseteq ({"file"} \X (Files \ {f})) \cup ({"close"} \X Procs)
    BY DEF Handles
  <2>4. \A k \in Handles \ {h} : Same(k)
    BY <2>2, <2>3
  <2> HIDE DEF h
  <2> QED
    BY <1>5, <2>1, <2>4, HolderTakesInode
<1> QED
  BY <1>10, <1>11, <1>12, <1>13 DEF FileInv

\* dup: one more descriptor of an open file.
LEMMA DupKeeps ==
  ASSUME FileInv, NEW p \in Procs, NEW fd0 \in Fds, sys_dup(p, fd0)
  PROVE  FileInv'
<1>1. First(FreeFds(p)) \in FreeFds(p)
  BY TableFinite, FirstIsIn DEF sys_dup, FreeFds
<1>2. PICK f \in {ofile[p][fd0]}, fd \in FreeFds(p) : f = ofile[p][fd0] /\ fd = First(FreeFds(p))
  BY <1>1
<1>3. fd \in Fds /\ ofile[p][fd] = NoFile
  BY <1>2 DEF FreeFds
<1>4. f \in Files /\ ftable[f].ref >= 1 /\ ftable[f].type \in Kinds /\ f # NoFile
  BY <1>2, OpenIsCounted DEF FileInv, sys_dup
<1>5. /\ ftable' = [ftable EXCEPT ![f].ref = @ + 1] /\ ofile' = [ofile EXCEPT ![p][fd] = f]
      /\ UNCHANGED <<ends, iref, live, task>>
  BY <1>2 DEF sys_dup
<1>6. p \in live
  BY DEF sys_dup, Calling
<1>7. /\ ofile' \in [Procs -> [Fds -> Files \cup {NoFile}]]
      /\ \A q \in Procs, d \in Fds : ofile'[q][d] = IF q = p /\ d = fd THEN f ELSE ofile[q][d]
      /\ \A g \in Files : Users(g)' = IF g = f THEN Users(g) \cup {<<p, fd>>} ELSE Users(g) \ {<<p, fd>>}
  <2>1. TableOK /\ f \in Files \cup {NoFile} /\ fd \in Fds /\ ofile' = [ofile EXCEPT ![p][fd] = f]
    BY <1>3, <1>4, <1>5 DEF FileInv
  <2> QED
    BY ONLY p \in Procs, <2>1, SetDescriptor
<1>8. /\ DOMAIN ftable' = Files /\ ftable' = [g \in Files |-> ftable'[g]]
      /\ \A g \in Files \ {f} : ftable'[g] = ftable[g]
  BY <1>4, <1>5 DEF FileInv, TableOK
<1>9. ftable'[f] = [type |-> ftable[f].type, ref |-> ftable[f].ref + 1, mode |-> ftable[f].mode,
                    of |-> ftable[f].of, off |-> ftable[f].off]
  <2>1. ftable'[f] = [ftable[f] EXCEPT !.ref = ftable[f].ref + 1] /\ EntryOK(ftable[f])
    BY <1>4, <1>5 DEF FileInv, TableOK
  <2> QED
    BY <2>1, EntryUpdate
<1>10. EntryOK(ftable'[f])
  <2>1. EntryOK(ftable[f])
    BY <1>4 DEF FileInv, TableOK
  <2> QED
    BY <1>4, <1>9, <2>1 DEF EntryOK, Kinds
<1>11. TableOK'
  BY <1>5, <1>7, <1>8, <1>10 DEF FileInv, TableOK
<1>12. LiveOK'
  BY <1>5, <1>6, <1>7, OpensForLive
<1>13. \A g \in Files : <<p, fd>> \notin Users(g)
  BY <1>3, TableFinite DEF Users
<1>14. RefOK'
  <2> SUFFICES ASSUME NEW g \in Files PROVE ftable'[g].ref = Cardinality(Users(g)')
    BY DEF RefOK
  <2>1. ftable[g].ref = Cardinality(Users(g)) /\ IsFiniteSet(Users(g))
    BY TableFinite DEF FileInv, RefOK
  <2>2. CASE g = f
    BY <1>7, <1>9, <1>13, <2>1, <2>2, AddOne
  <2>3. CASE g # f
    <3>1. Users(g) \ {<<p, fd>>} = Users(g)
      BY <1>13
    <3>2. Users(g)' = Users(g)
      BY <1>7, <2>3, <3>1
    <3> QED
      BY <1>8, <2>1, <2>3, <3>2
  <2> QED
    BY <2>2, <2>3
<1>15. \A h \in Handles : Same(h)
  <2>1. \A g \in Files : /\ ftable'[g].type = ftable[g].type
                         /\ ftable[g].type \in Kinds => ftable'[g].of = ftable[g].of /\ ftable'[g].mode = ftable[g].mode
    BY <1>8, <1>9
  <2>2. \A q \in Procs : task'[q] = task[q] \/ (task[q].op \notin Kinds /\ task'[q].op \notin Kinds)
    BY <1>5
  <2>3. Files \in SUBSET Files /\ Procs \in SUBSET Procs
    OBVIOUS
  <2> QED
    BY ONLY <2>1, <2>2, <2>3, HandlesSame DEF Handles
<1> QED
  BY <1>5, <1>11, <1>12, <1>14, <1>15, HoldersStay DEF FileInv

\* pipe takes two entries, two descriptors and the two ends of a free page.
LEMMA PipeKeeps ==
  ASSUME FileInv, NEW p \in Procs, sys_pipe(p)
  PROVE  FileInv'
<1> DEFINE end(m, q) == [type |-> "FD_PIPE", ref |-> 1, mode |-> m, of |-> q, off |-> 0]
<1>1. /\ First(Unused) \in Unused /\ First(Unused \ {First(Unused)}) \in Unused \ {First(Unused)}
      /\ First(FreeFds(p)) \in FreeFds(p)
      /\ First(FreeFds(p) \ {First(FreeFds(p))}) \in FreeFds(p) \ {First(FreeFds(p))}
  <2>1. /\ Unused \subseteq Nat /\ FreeFds(p) \subseteq Nat
        /\ IsFiniteSet(Unused) /\ IsFiniteSet(FreeFds(p))
    BY TableFinite, FS_Subset DEF Unused, FreeFds
  <2>2. ASSUME NEW S, S \subseteq Nat, IsFiniteSet(S), Cardinality(S) >= 2
        PROVE  First(S) \in S /\ First(S \ {First(S)}) \in S \ {First(S)}
    <3>1. S # {}
      BY <2>2, FS_EmptySet
    <3>2. First(S) \in S
      BY <2>2, <3>1, FirstIsIn
    <3>3. Cardinality(S \ {First(S)}) = Cardinality(S) - 1 /\ Cardinality(S) \in Nat
      BY <2>2, <3>2, DropOne
    <3>4. S \ {First(S)} # {}
      BY <2>2, <3>3, FS_EmptySet
    <3> QED
      BY <2>2, <3>2, <3>4, FirstIsIn
  <2>3. Cardinality(Unused) >= 2 /\ Cardinality(FreeFds(p)) >= 2
    BY DEF sys_pipe
  <2> QED
    BY <2>1, <2>2, <2>3
<1>2. PICK f0 \in Unused : f0 = First(Unused)
  BY <1>1
<1>3. PICK f1 \in Unused \ {f0} : f1 = First(Unused \ {f0})
  BY <1>1, <1>2
<1>4. PICK d0 \in FreeFds(p) : d0 = First(FreeFds(p))
  BY <1>1
<1>5. PICK d1 \in FreeFds(p) \ {d0} : d1 = First(FreeFds(p) \ {d0})
  BY <1>1, <1>4
<1>6. f0 # f1 /\ f1 \in Unused /\ d0 # d1 /\ d1 \in FreeFds(p)
  BY <1>3, <1>5
<1>7. PICK q \in Pipes :
        /\ ends[q] = {} /\ ends' = [ends EXCEPT ![q] = {"r", "w"}]
        /\ ftable' = [ftable EXCEPT ![f0] = end("r", q), ![f1] = end("w", q)]
        /\ ofile' = [ofile EXCEPT ![p][d0] = f0, ![p][d1] = f1]
  BY <1>2, <1>3, <1>4, <1>5 DEF sys_pipe
<1>8. UNCHANGED <<iref, live, task>> /\ p \in live
  BY DEF sys_pipe, Calling
<1>9. /\ f0 \in Files /\ Users(f0) = {} /\ ftable[f0].type = "FD_NONE"
      /\ f1 \in Files /\ Users(f1) = {} /\ ftable[f1].type = "FD_NONE"
  BY <1>6, UnusedIsFree DEF FileInv
<1>10. d0 \in Fds /\ ofile[p][d0] = NoFile /\ d1 \in Fds /\ ofile[p][d1] = NoFile
  BY <1>6 DEF FreeFds
<1>11. \A m \in {"r", "w"} : /\ EntryOK(end(m, q)) /\ end(m, q).type = "FD_PIPE" /\ end(m, q).of = q
                             /\ end(m, q).ref = 1 /\ end(m, q).mode = m
  BY DEF EntryOK, Kinds
<1> HIDE DEF end
<1>12. /\ DOMAIN ftable' = Files /\ ftable' = [g \in Files |-> ftable'[g]]
       /\ ftable'[f0] = end("r", q) /\ ftable'[f1] = end("w", q)
       /\ \A g \in Files \ {f0, f1} : ftable'[g] = ftable[g]
  BY <1>6, <1>7, <1>9 DEF FileInv, TableOK
<1>13. /\ ofile' \in [Procs -> [Fds -> Files \cup {NoFile}]]
       /\ \A r \in Procs, d \in Fds : ofile'[r][d] = IF r # p THEN ofile[r][d]
                                                     ELSE IF d = d0 THEN f0 ELSE IF d = d1 THEN f1 ELSE ofile[p][d]
  <2>1. ofile \in [Procs -> [Fds -> Files \cup {NoFile}]]
    BY DEF FileInv, TableOK
  <2> QED
    BY <1>6, <1>7, <1>9, <1>10, <2>1
<1>14. TableOK'
  <2>1. ends' \in [Pipes -> SUBSET {"r", "w"}]
    BY <1>7 DEF FileInv, TableOK
  <2>2. \A g \in Files : EntryOK(ftable'[g])
    BY <1>11, <1>12 DEF FileInv, TableOK
  <2> QED
    BY <1>8, <1>12, <1>13, <2>1, <2>2 DEF FileInv, TableOK
<1>15. LiveOK'
  BY <1>8, <1>13, OpensForLive
<1>16. RefOK'
  <2> SUFFICES ASSUME NEW g \in Files PROVE ftable'[g].ref = Cardinality(Users(g)')
    BY DEF RefOK
  <2>1. \A u \in Procs \X Fds : u \in Users(g)' <=> IF u = <<p, d0>> THEN g = f0
                                                  ELSE IF u = <<p, d1>> THEN g = f1 ELSE u \in Users(g)
    <3> SUFFICES ASSUME NEW r \in Procs, NEW d \in Fds
                 PROVE  <<r, d>> \in Users(g)' <=> IF <<r, d>> = <<p, d0>> THEN g = f0
                                                   ELSE IF <<r, d>> = <<p, d1>> THEN g = f1 ELSE <<r, d>> \in Users(g)
      OBVIOUS
    <3>1. (<<r, d>> \in Users(g)' <=> ofile'[r][d] = g) /\ (<<r, d>> \in Users(g) <=> ofile[r][d] = g)
      BY DEF Users
    <3>2. CASE r = p /\ d = d0
      BY <1>13, <3>1, <3>2
    <3>3. CASE r = p /\ d = d1
      BY <1>6, <1>13, <3>1, <3>3
    <3>4. CASE ~(r = p /\ d = d0) /\ ~(r = p /\ d = d1)
      <4>1. ofile'[r][d] = ofile[r][d]
        BY <1>13, <3>4
      <4> QED
        BY <3>1, <3>4, <4>1
    <3> QED
      BY <3>2, <3>3, <3>4
  <2>2. Users(g)' \subseteq Procs \X Fds /\ Users(g) \subseteq Procs \X Fds
    BY DEF Users
  <2>3. <<p, d0>> \in Procs \X Fds /\ <<p, d1>> \in Procs \X Fds /\ <<p, d0>> # <<p, d1>>
    BY <1>6, <1>10
  <2>4. <<p, d0>> \notin Users(g) /\ <<p, d1>> \notin Users(g)
    BY <1>10, TableFinite DEF Users
  <2>5. CASE g = f0
    <3>1. Users(g)' = {<<p, d0>>}
      BY <1>6, <1>9, <2>1, <2>2, <2>3, <2>5
    <3> QED
      BY ZenonT(30), <1>11, <1>12, <2>5, <3>1, FS_Singleton
  <2>6. CASE g = f1
    <3>1. Users(g)' = {<<p, d1>>}
      BY <1>6, <1>9, <2>1, <2>2, <2>3, <2>6
    <3> QED
      BY ZenonT(30), <1>11, <1>12, <2>6, <3>1, FS_Singleton
  <2>7. CASE g \notin {f0, f1}
    <3>1. Users(g)' = Users(g)
      BY <2>1, <2>2, <2>4, <2>7
    <3> QED
      BY <1>12, <2>7, <3>1 DEF FileInv, RefOK
  <2> QED
    BY <2>5, <2>6, <2>7
<1>17. InodeOK' /\ PipeOK'
  <2> DEFINE g == <<"file", f0>>
             h == <<"file", f1>>
  <2>1. /\ g \in Handles /\ h \in Handles /\ g # h /\ Kind(g) = "FD_NONE" /\ Kind(h) = "FD_NONE"
        /\ Kind(g)' = "FD_PIPE" /\ Of(g)' = q /\ End(g)' = "r"
        /\ Kind(h)' = "FD_PIPE" /\ Of(h)' = q /\ End(h)' = "w"
    BY <1>6, <1>9, <1>11, <1>12 DEF Handles, Kind, Of, End
  <2>2. \A k \in ({"file"} \X (Files \ {f0, f1})) \cup ({"close"} \X Procs) : Same(k)
    <3>1. \A f \in Files \ {f0, f1} :
            /\ ftable'[f].type = ftable[f].type
            /\ ftable[f].type \in Kinds => ftable'[f].of = ftable[f].of /\ ftable'[f].mode = ftable[f].mode
      BY <1>12
    <3>2. \A r \in Procs : task'[r] = task[r] \/ (task[r].op \notin Kinds /\ task'[r].op \notin Kinds)
      BY <1>8
    <3>3. Files \ {f0, f1} \in SUBSET Files /\ Procs \in SUBSET Procs
      OBVIOUS
    <3> QED
      BY ONLY <3>1, <3>2, <3>3, HandlesSame
  <2>3. Handles \ {g, h} \subseteq ({"file"} \X (Files \ {f0, f1})) \cup ({"close"} \X Procs)
    BY DEF Handles
  <2>4. \A k \in Handles \ {g, h} : Same(k)
    BY <2>2, <2>3
  <2> HIDE DEF g, h
  <2> QED
    BY <1>7, <1>8, <2>1, <2>4, HoldersOpenPipe
<1> QED
  BY <1>14, <1>15, <1>16, <1>17 DEF FileInv

\* What one close leaves in the table, under ftable.lock.
LEMMA FilecloseEntry ==
  ASSUME FileInv, NEW f \in Files, ftable[f].ref >= 1, ftable' = fileclose(f)
  PROVE  /\ DOMAIN ftable' = Files /\ ftable' = [g \in Files |-> ftable'[g]]
         /\ \A g \in Files \ {f} : ftable'[g] = ftable[g]
         /\ EntryOK(ftable'[f]) /\ ftable'[f].ref = ftable[f].ref - 1
         /\ ftable[f].ref > 1 => /\ ftable'[f].type = ftable[f].type /\ ftable'[f].of = ftable[f].of
                                 /\ ftable'[f].mode = ftable[f].mode
         /\ ftable[f].ref = 1 => ftable'[f].type = "FD_NONE"
         /\ ftable'[f].off = ftable[f].off
<1>1. /\ ftable = [g \in Files |-> ftable[g]] /\ EntryOK(ftable[f])
      /\ ftable[f].ref \in Nat
  BY DEF FileInv, TableOK, EntryOK
<1>2. CASE ftable[f].ref > 1
  <2>1. ftable' = [ftable EXCEPT ![f].ref = @ - 1]
    BY <1>2 DEF fileclose
  <2>2. /\ DOMAIN ftable' = Files /\ ftable' = [g \in Files |-> ftable'[g]]
        /\ \A g \in Files \ {f} : ftable'[g] = ftable[g]
    BY <1>1, <2>1
  <2>3. ftable'[f] = [ftable[f] EXCEPT !.ref = ftable[f].ref - 1]
    BY <1>1, <2>1
  <2>4. ftable'[f] = [type |-> ftable[f].type, ref |-> ftable[f].ref - 1, mode |-> ftable[f].mode,
                      of |-> ftable[f].of, off |-> ftable[f].off]
    BY <1>1, <2>3, EntryUpdate
  <2> QED
    BY <1>1, <1>2, <2>2, <2>4 DEF EntryOK, Kinds
<1>3. CASE ftable[f].ref = 1
  <2>1. ftable' = [ftable EXCEPT ![f].ref = 0, ![f].type = "FD_NONE"]
    BY <1>3 DEF fileclose
  <2>2. /\ DOMAIN ftable' = Files /\ ftable' = [g \in Files |-> ftable'[g]]
        /\ \A g \in Files \ {f} : ftable'[g] = ftable[g]
    BY <1>1, <2>1
  <2>3. ftable'[f] = [[ftable[f] EXCEPT !.ref = 0] EXCEPT !.type = "FD_NONE"]
    BY <1>1, <2>1
  <2>4. [ftable[f] EXCEPT !.ref = 0] = [type |-> ftable[f].type, ref |-> 0, mode |-> ftable[f].mode,
                                        of |-> ftable[f].of, off |-> ftable[f].off]
    BY <1>1, EntryUpdate
  <2>5. ftable'[f] = [type |-> "FD_NONE", ref |-> 0, mode |-> ftable[f].mode,
                      of |-> ftable[f].of, off |-> ftable[f].off]
    BY <2>3, <2>4
  <2> QED
    BY <1>1, <1>3, <2>2, <2>5 DEF EntryOK, Kinds
<1> QED
  BY <1>1, <1>2, <1>3

\* One descriptor is closed: by close, or by exit.
LEMMA CloseKeeps ==
  ASSUME FileInv, NEW p \in Procs, NEW fd \in Fds, Calling(p), ofile[p][fd] # NoFile,
         close(p, fd), live' = live
  PROVE  FileInv'
<1>1. PICK f \in Files : f = ofile[p][fd]
  BY OpenIsCounted DEF FileInv
<1>2. <<p, fd>> \in Users(f) /\ ftable[f].ref >= 1 /\ ftable[f].type \in Kinds
  BY <1>1, OpenIsCounted DEF FileInv
<1>3. /\ ftable' = fileclose(f) /\ ofile' = [ofile EXCEPT ![p][fd] = NoFile] /\ UNCHANGED <<ends, iref>>
      /\ task' = [task EXCEPT ![p] = IF ftable[f].ref > 1 THEN Idle ELSE Finishing(f)]
  BY <1>1 DEF close
<1>4. /\ DOMAIN ftable' = Files /\ ftable' = [g \in Files |-> ftable'[g]]
      /\ \A g \in Files \ {f} : ftable'[g] = ftable[g]
      /\ EntryOK(ftable'[f]) /\ ftable'[f].ref = ftable[f].ref - 1
      /\ ftable[f].ref > 1 => /\ ftable'[f].type = ftable[f].type /\ ftable'[f].of = ftable[f].of
                              /\ ftable'[f].mode = ftable[f].mode
      /\ ftable[f].ref = 1 => ftable'[f].type = "FD_NONE"
  BY <1>2, <1>3, FilecloseEntry
<1>5. /\ ofile' \in [Procs -> [Fds -> Files \cup {NoFile}]]
      /\ \A q \in Procs, d \in Fds : ofile'[q][d] = IF q = p /\ d = fd THEN NoFile ELSE ofile[q][d]
      /\ \A g \in Files : Users(g)' = IF g = NoFile THEN Users(g) \cup {<<p, fd>>} ELSE Users(g) \ {<<p, fd>>}
  <2>1. TableOK /\ NoFile \in Files \cup {NoFile} /\ ofile' = [ofile EXCEPT ![p][fd] = NoFile]
    BY <1>3 DEF FileInv
  <2> QED
    BY ONLY p \in Procs, fd \in Fds, <2>1, SetDescriptor
<1>6. \A g \in Files : Users(g)' = Users(g) \ {<<p, fd>>}
  BY <1>5, TableFinite
<1>7. EntryOK(ftable[f]) /\ ftable[f].ref \in Nat /\ Finishing(f).op = ftable[f].type
      /\ Finishing(f).of = ftable[f].of /\ Finishing(f).mode = ftable[f].mode
      /\ Finishing(f) = [op |-> Finishing(f).op, of |-> Finishing(f).of,
                         mode |-> Finishing(f).mode, put |-> Finishing(f).put]
  <2>1. EntryOK(ftable[f])
    BY DEF FileInv, TableOK
  <2>2. Finishing(f) = [op |-> ftable[f].type, of |-> ftable[f].of, mode |-> ftable[f].mode, put |-> FALSE]
    BY <1>2 DEF Finishing, Kinds
  <2> QED
    BY <2>1, <2>2 DEF EntryOK
<1>8. task[p] = Idle /\ p \in live /\ Idle.op \notin Kinds /\ TaskOK(Idle)
  BY CallsAreLive
<1>9. /\ DOMAIN task' = Procs /\ task' = [q \in Procs |-> task'[q]]
      /\ \A q \in Procs \ {p} : task'[q] = task[q]
      /\ task'[p] = IF ftable[f].ref > 1 THEN Idle ELSE Finishing(f)
  BY <1>3 DEF FileInv, TableOK
<1>10. TableOK'
  <2>1. TaskOK(Finishing(f))
    BY <1>2, <1>7 DEF EntryOK, TaskOK, Kinds
  <2>2. \A q \in Procs : TaskOK(task'[q])
    BY <1>8, <1>9, <2>1 DEF FileInv, TableOK
  <2>3. \A g \in Files : EntryOK(ftable'[g])
    BY <1>4 DEF FileInv, TableOK
  <2> QED
    BY <1>3, <1>4, <1>5, <1>9, <2>2, <2>3 DEF FileInv, TableOK
<1>11. LiveOK'
  BY SMTT(30), <1>5, <1>8, <1>9 DEF FileInv, LiveOK
<1>12. RefOK'
  <2> SUFFICES ASSUME NEW g \in Files PROVE ftable'[g].ref = Cardinality(Users(g)')
    BY DEF RefOK
  <2>1. ftable[g].ref = Cardinality(Users(g)) /\ IsFiniteSet(Users(g))
    BY TableFinite DEF FileInv, RefOK
  <2>2. CASE g = f
    BY <1>2, <1>4, <1>6, <2>1, <2>2, DropOne
  <2>3. CASE g # f
    <3>1. <<p, fd>> \notin Users(g)
      BY <1>1, <2>3 DEF Users
    <3>2. Users(g) \ {<<p, fd>>} = Users(g)
      BY <3>1
    <3> QED
      BY <1>4, <1>6, <2>1, <2>3, <3>2
  <2> QED
    BY <2>2, <2>3
<1>13. ASSUME ftable[f].ref > 1 PROVE InodeOK' /\ PipeOK'
  <2>1. \A g \in Files : /\ ftable'[g].type = ftable[g].type
                         /\ ftable[g].type \in Kinds => ftable'[g].of = ftable[g].of /\ ftable'[g].mode = ftable[g].mode
    BY <1>4, <1>13
  <2>2. \A q \in Procs : task'[q] = task[q] \/ (task[q].op \notin Kinds /\ task'[q].op \notin Kinds)
    BY <1>8, <1>9, <1>13
  <2>3. Files \in SUBSET Files /\ Procs \in SUBSET Procs
    OBVIOUS
  <2>4. \A h \in Handles : Same(h)
    BY ONLY <2>1, <2>2, <2>3, HandlesSame DEF Handles
  <2> QED
    BY <1>3, <2>4, HoldersStay
<1>14. ASSUME ftable[f].ref = 1 PROVE InodeOK' /\ PipeOK'
  <2> DEFINE g == <<"file", f>>
             h == <<"close", p>>
  <2>1. g \in Handles /\ h \in Handles /\ g # h
    BY DEF Handles
  <2>2. Kind(g) \in Kinds /\ Kind(g)' = "FD_NONE"
    BY <1>2, <1>4, <1>14 DEF Kind
  <2>3. Kind(h) = "FD_NONE"
    BY <1>8 DEF Kind
  <2>4. task'[p] = Finishing(f)
    BY <1>9, <1>14
  <2>5. Kind(h)' = Kind(g) /\ Of(h)' = Of(g) /\ End(h)' = End(g)
    BY <1>2, <1>7, <2>4 DEF Kind, Of, End
  <2>6. \A k \in ({"file"} \X (Files \ {f})) \cup ({"close"} \X (Procs \ {p})) : Same(k)
    <3>1. \A e \in Files \ {f} :
            /\ ftable'[e].type = ftable[e].type
            /\ ftable[e].type \in Kinds => ftable'[e].of = ftable[e].of /\ ftable'[e].mode = ftable[e].mode
      BY <1>4
    <3>2. \A r \in Procs \ {p} : task'[r] = task[r] \/ (task[r].op \notin Kinds /\ task'[r].op \notin Kinds)
      BY <1>9
    <3>3. Files \ {f} \in SUBSET Files /\ Procs \ {p} \in SUBSET Procs
      OBVIOUS
    <3> QED
      BY ONLY <3>1, <3>2, <3>3, HandlesSame
  <2>7. Handles \ {g, h} \subseteq ({"file"} \X (Files \ {f})) \cup ({"close"} \X (Procs \ {p}))
    BY DEF Handles
  <2>8. \A k \in Handles \ {g, h} : Same(k)
    BY <2>6, <2>7
  <2> HIDE DEF g, h
  <2> QED
    BY <1>3, <2>1, <2>2, <2>3, <2>5, <2>8, HolderPasses
<1> QED
  BY <1>2, <1>7, <1>10, <1>11, <1>12, <1>13, <1>14 DEF FileInv

\* exit closes what is open, one descriptor at a time, and then the process is gone.
LEMMA ExitKeeps ==
  ASSUME FileInv, NEW p \in Procs, exit(p)
  PROVE  FileInv'
<1> DEFINE open == {fd \in Fds : ofile[p][fd] # NoFile}
<1>1. CASE open = {}
  <2>1. live' = live \ {p} /\ UNCHANGED <<ofile, ftable, ends, iref, task>>
    BY <1>1 DEF exit
  <2>2. task[p] = Idle /\ \A fd \in Fds : ofile[p][fd] = NoFile
    BY <1>1 DEF exit, Calling
  <2>3. LiveOK'
    BY <2>1, <2>2 DEF FileInv, LiveOK
  <2> QED
    BY <2>1, <2>3, QuietStep DEF FileInv, TableOK
<1>2. CASE open # {}
  <2>1. PICK fd \in open : fd = First(open)
    BY <1>2, TableFinite, FirstIsIn
  <2>2. Calling(p) /\ close(p, fd) /\ live' = live
    BY <1>2, <2>1 DEF exit
  <2> QED
    BY <2>1, <2>2, CloseKeeps
<1> QED
  BY <1>1, <1>2

\* The call of a last close ends: what it leaves of the table and of the other calls.
LEMMA CloseEnds ==
  ASSUME FileInv, NEW p \in Procs, task[p].op \in Kinds, task' = [task EXCEPT ![p] = Idle],
         UNCHANGED <<ofile, ftable, live>>,
         ends' \in [Pipes -> SUBSET {"r", "w"}], iref' \in [Inodes -> Int]
  PROVE  /\ TableOK' /\ LiveOK' /\ RefOK'
         /\ <<"close", p>> \in Handles /\ Kind(<<"close", p>>) = task[p].op /\ Kind(<<"close", p>>)' = "FD_NONE"
         /\ Of(<<"close", p>>) = task[p].of /\ End(<<"close", p>>) = task[p].mode
         /\ \A k \in Handles \ {<<"close", p>>} : Same(k)
<1>1. /\ DOMAIN task' = Procs /\ task' = [q \in Procs |-> task'[q]]
      /\ task'[p] = Idle /\ \A q \in Procs \ {p} : task'[q] = task[q]
  BY DEF FileInv, TableOK
<1>2. TaskOK(Idle) /\ Idle.op \notin Kinds
  BY CallsAreLive
<1>3. TableOK'
  BY <1>1, <1>2 DEF FileInv, TableOK
<1>4. LiveOK'
  BY <1>1 DEF FileInv, LiveOK
<1>5. RefOK'
  <2>1. \A f \in Files : Users(f)' = Users(f)
    BY DEF Users
  <2> QED
    BY <2>1 DEF FileInv, RefOK
<1>6. /\ <<"close", p>> \in Handles /\ Kind(<<"close", p>>) = task[p].op /\ Kind(<<"close", p>>)' = "FD_NONE"
      /\ Of(<<"close", p>>) = task[p].of /\ End(<<"close", p>>) = task[p].mode
  BY <1>1, <1>2 DEF Handles, Kind, Of, End
<1>7. \A k \in ({"file"} \X Files) \cup ({"close"} \X (Procs \ {p})) : Same(k)
  <2>1. \A e \in Files : /\ ftable'[e].type = ftable[e].type
                         /\ ftable[e].type \in Kinds => ftable'[e].of = ftable[e].of /\ ftable'[e].mode = ftable[e].mode
    OBVIOUS
  <2>2. \A r \in Procs \ {p} : task'[r] = task[r] \/ (task[r].op \notin Kinds /\ task'[r].op \notin Kinds)
    BY <1>1
  <2>3. Files \in SUBSET Files /\ Procs \ {p} \in SUBSET Procs
    OBVIOUS
  <2> QED
    BY ONLY <2>1, <2>2, <2>3, HandlesSame
<1>8. Handles \ {<<"close", p>>} \subseteq ({"file"} \X Files) \cup ({"close"} \X (Procs \ {p}))
  BY DEF Handles
<1> QED
  BY <1>3, <1>4, <1>5, <1>6, <1>7, <1>8

\* iput under the lock of the inode: the reference is not given back yet.
LEMMA FilecloseInodeKeeps ==
  ASSUME FileInv, NEW p \in Procs, fileclose_inode(p)
  PROVE  FileInv'
<1> DEFINE t == [task[p] EXCEPT !.put = TRUE]
<1>1. TaskOK(task[p]) /\ task[p].op = "FD_INODE" /\ task = [q \in Procs |-> task[q]]
  BY DEF FileInv, TableOK, fileclose_inode
<1>2. task[p] = [op |-> "FD_INODE", of |-> task[p].of, mode |-> task[p].mode, put |-> task[p].put]
      /\ task[p].of \in Inodes
  BY <1>1 DEF TaskOK, Idle
<1>3. t = [op |-> "FD_INODE", of |-> task[p].of, mode |-> task[p].mode, put |-> TRUE]
  <2>1. PICK i, m, u : i = task[p].of /\ m = task[p].mode /\ u = task[p].put
    OBVIOUS
  <2>2. task[p] = [op |-> "FD_INODE", of |-> i, mode |-> m, put |-> u]
    BY <1>2, <2>1
  <2>3. t = [[op |-> "FD_INODE", of |-> i, mode |-> m, put |-> u] EXCEPT !.put = TRUE]
    BY <2>2
  <2>4. [[op |-> "FD_INODE", of |-> i, mode |-> m, put |-> u] EXCEPT !.put = TRUE]
          = [op |-> "FD_INODE", of |-> i, mode |-> m, put |-> TRUE]
    <3>1. \A v : [[op |-> "FD_INODE", of |-> i, mode |-> m, put |-> u] EXCEPT !.put = v]
                   = [op |-> "FD_INODE", of |-> i, mode |-> m, put |-> v]
      OBVIOUS
    <3> QED
      BY <3>1, Zenon
  <2> QED
    BY <2>1, <2>3, <2>4
<1>4. /\ TaskOK(t) /\ t.op = task[p].op /\ t.of = task[p].of /\ t.mode = task[p].mode
  BY <1>2, <1>3 DEF TaskOK
<1>5. task' = [task EXCEPT ![p].put = TRUE] /\ UNCHANGED <<ofile, ftable, ends, iref, live>>
  BY DEF fileclose_inode, tableVars
<1>6. /\ DOMAIN task' = Procs /\ task' = [q \in Procs |-> task'[q]]
      /\ task'[p] = t /\ \A q \in Procs \ {p} : task'[q] = task[q]
  BY <1>1, <1>5
<1> HIDE DEF t
<1>7. TableOK'
  BY <1>4, <1>5, <1>6 DEF FileInv, TableOK
<1>8. LiveOK'
  <2>1. p \in live
    BY <1>1, CallsAreLive
  <2> QED
    BY <1>5, <1>6, <2>1 DEF FileInv, LiveOK
<1>9. RefOK'
  <2>1. \A f \in Files : Users(f)' = Users(f)
    BY <1>5 DEF Users
  <2> QED
    BY <1>5, <2>1 DEF FileInv, RefOK
<1>10. \A h \in Handles : Same(h)
  <2>1. \A f \in Files : /\ ftable'[f].type = ftable[f].type
                         /\ ftable[f].type \in Kinds => ftable'[f].of = ftable[f].of /\ ftable'[f].mode = ftable[f].mode
    BY <1>5
  <2>2. \A r \in Procs \ {p} : task'[r] = task[r] \/ (task[r].op \notin Kinds /\ task'[r].op \notin Kinds)
    BY <1>6
  <2>3. Files \in SUBSET Files /\ Procs \ {p} \in SUBSET Procs
    OBVIOUS
  <2>4. \A h \in ({"file"} \X Files) \cup ({"close"} \X (Procs \ {p})) : Same(h)
    BY ONLY <2>1, <2>2, <2>3, HandlesSame
  <2>5. Same(<<"close", p>>)
    BY <1>4, <1>6 DEF Same, Kind, Of, End
  <2>6. \A h \in Handles : h = <<"close", p>> \/ h \in ({"file"} \X Files) \cup ({"close"} \X (Procs \ {p}))
    BY DEF Handles
  <2> QED
    BY <2>4, <2>5, <2>6
<1>11. InodeOK' /\ PipeOK'
  BY <1>5, <1>10, HoldersStay
<1> QED
  BY <1>7, <1>8, <1>9, <1>11 DEF FileInv

\* The inode is given back after ftable.lock: its reference is the last close's own.
LEMMA IputRefKeeps ==
  ASSUME FileInv, NEW p \in Procs, iput_ref(p)
  PROVE  FileInv'
<1>1. task[p].op = "FD_INODE" /\ task[p].op \in Kinds
  BY DEF iput_ref, Kinds
<1>2. PICK i \in Inodes : i = task[p].of
  <2>1. TaskOK(task[p])
    BY DEF FileInv, TableOK
  <2> QED
    BY <1>1, <2>1 DEF TaskOK, Idle
<1>3. /\ iref' = [iref EXCEPT ![i] = @ - 1] /\ task' = [task EXCEPT ![p] = Idle]
      /\ UNCHANGED <<ofile, ftable, ends, live>>
  BY <1>2 DEF iput_ref
<1>4. ends' \in [Pipes -> SUBSET {"r", "w"}] /\ iref' \in [Inodes -> Int]
  BY <1>3 DEF FileInv, TableOK
<1>5. /\ TableOK' /\ LiveOK' /\ RefOK'
      /\ <<"close", p>> \in Handles /\ Kind(<<"close", p>>) = "FD_INODE" /\ Kind(<<"close", p>>)' = "FD_NONE"
      /\ Of(<<"close", p>>) = i /\ \A k \in Handles \ {<<"close", p>>} : Same(k)
  BY <1>1, <1>2, <1>3, <1>4, CloseEnds
<1>6. InodeOK' /\ PipeOK'
  BY <1>3, <1>5, HolderDropsInode
<1> QED
  BY <1>5, <1>6 DEF FileInv

\* pipeclose after ftable.lock: the end is the last close's own.
LEMMA FileclosePipeKeeps ==
  ASSUME FileInv, NEW p \in Procs, fileclose_pipe(p)
  PROVE  FileInv'
<1>1. task[p].op = "FD_PIPE" /\ task[p].op \in Kinds
  BY DEF fileclose_pipe, Kinds
<1>2. PICK q \in Pipes : q = task[p].of
  <2>1. TaskOK(task[p])
    BY DEF FileInv, TableOK
  <2> QED
    BY <1>1, <2>1 DEF TaskOK, Idle
<1>3. /\ ends' = [ends EXCEPT ![q] = @ \ {task[p].mode}] /\ task' = [task EXCEPT ![p] = Idle]
      /\ UNCHANGED <<ofile, ftable, iref, live>>
  BY <1>2 DEF fileclose_pipe
<1>4. ends' \in [Pipes -> SUBSET {"r", "w"}] /\ iref' \in [Inodes -> Int]
  BY <1>3 DEF FileInv, TableOK
<1>5. /\ TableOK' /\ LiveOK' /\ RefOK'
      /\ <<"close", p>> \in Handles /\ Kind(<<"close", p>>) = "FD_PIPE" /\ Kind(<<"close", p>>)' = "FD_NONE"
      /\ Of(<<"close", p>>) = q /\ End(<<"close", p>>) = task[p].mode
      /\ \A k \in Handles \ {<<"close", p>>} : Same(k)
  BY <1>1, <1>2, <1>3, <1>4, CloseEnds
<1>6. InodeOK' /\ PipeOK'
  BY <1>3, <1>5, HolderDropsEnd
<1> QED
  BY <1>5, <1>6 DEF FileInv

\* fork: every descriptor of the parent is one more for its file.
LEMMA ForkKeeps ==
  ASSUME FileInv, NEW p \in Procs, NEW c \in Procs, fork(p, c)
  PROVE  FileInv'
<1> DEFINE Own(f) == {fd \in Fds : ofile[p][fd] = f}
<1>1. /\ c \notin live /\ p \in live /\ live' = live \cup {c} /\ ofile' = [ofile EXCEPT ![c] = ofile[p]]
      /\ ftable' = [f \in Files |-> [ftable[f] EXCEPT !.ref = @ + Cardinality(Own(f))]]
      /\ UNCHANGED <<ends, iref, task>>
  BY DEF fork, Calling
<1>2. \A f : IsFiniteSet(Own(f)) /\ Cardinality(Own(f)) \in Nat
  BY TableFinite, FS_Subset, FS_CardinalityType
<1>3. ofile \in [Procs -> [Fds -> Files \cup {NoFile}]] /\ \A fd \in Fds : ofile[c][fd] = NoFile
  BY <1>1 DEF FileInv, TableOK, LiveOK
<1>4. /\ ofile' \in [Procs -> [Fds -> Files \cup {NoFile}]]
      /\ \A q \in Procs, fd \in Fds : ofile'[q][fd] = IF q = c THEN ofile[p][fd] ELSE ofile[q][fd]
  BY <1>1, <1>3
<1>5. ASSUME NEW f \in Files PROVE Users(f)' = Users(f) \cup ({c} \X Own(f)) /\ Users(f) \cap ({c} \X Own(f)) = {}
  <2>1. \A q \in Procs, fd \in Fds : /\ <<q, fd>> \in Users(f)' <=> ofile'[q][fd] = f
                                     /\ <<q, fd>> \in Users(f) <=> ofile[q][fd] = f
                                     /\ <<q, fd>> \in {c} \X Own(f) <=> q = c /\ ofile[p][fd] = f
    BY DEF Users
  <2>2. \A fd \in Fds : <<c, fd>> \notin Users(f)
    BY <1>3, <2>1, TableFinite
  <2>3. \A q \in Procs, fd \in Fds :
          <<q, fd>> \in Users(f)' <=> <<q, fd>> \in Users(f) \cup ({c} \X Own(f))
    <3> SUFFICES ASSUME NEW q \in Procs, NEW fd \in Fds
                 PROVE  <<q, fd>> \in Users(f)' <=> <<q, fd>> \in Users(f) \cup ({c} \X Own(f))
      OBVIOUS
    <3>1. CASE q = c
      BY <1>4, <2>1, <2>2, <3>1
    <3>2. CASE q # c
      BY <1>4, <2>1, <3>2
    <3> QED
      BY <3>1, <3>2
  <2>4. /\ Users(f)' \subseteq Procs \X Fds /\ Users(f) \subseteq Procs \X Fds
        /\ {c} \X Own(f) \subseteq Procs \X Fds
    BY DEF Users
  <2>5. Users(f)' = Users(f) \cup ({c} \X Own(f))
    BY <2>3, <2>4
  <2>6. Users(f) \cap ({c} \X Own(f)) = {}
    BY <2>2, <2>4
  <2> QED
    BY <2>5, <2>6
<1>6. ASSUME NEW f \in Files
      PROVE  /\ ftable'[f].type = ftable[f].type /\ ftable'[f].ref = ftable[f].ref + Cardinality(Own(f))
             /\ ftable'[f].mode = ftable[f].mode /\ ftable'[f].of = ftable[f].of /\ EntryOK(ftable'[f])
  <2>1. EntryOK(ftable[f]) /\ ftable'[f] = [ftable[f] EXCEPT !.ref = ftable[f].ref + Cardinality(Own(f))]
    BY <1>1 DEF FileInv, TableOK
  <2>2. ftable'[f] = [type |-> ftable[f].type, ref |-> ftable[f].ref + Cardinality(Own(f)),
                      mode |-> ftable[f].mode, of |-> ftable[f].of, off |-> ftable[f].off]
    BY <2>1, EntryUpdate
  <2>3. ftable[f].ref = 0 => Cardinality(Own(f)) = 0
    <3> SUFFICES ASSUME ftable[f].ref = 0 PROVE Own(f) = {}
      BY FS_EmptySet
    <3>1. f \in Unused
      BY DEF Unused
    <3>2. Users(f) = {}
      BY <3>1, UnusedIsFree DEF FileInv
    <3>3. \A fd \in Fds : fd \in Own(f) => <<p, fd>> \in Users(f)
      BY DEF Users
    <3> QED
      BY <3>2, <3>3
  <2>4. Cardinality(Own(f)) \in Nat
    BY <1>2
  <2> HIDE DEF Own
  <2> QED
    BY <2>1, <2>2, <2>3, <2>4 DEF EntryOK
<1> HIDE DEF Own
<1>7. TableOK'
  <2>1. DOMAIN ftable' = Files /\ ftable' = [f \in Files |-> ftable'[f]]
    BY <1>1
  <2>2. \A f \in Files : EntryOK(ftable'[f])
    BY <1>6
  <2>3. UNCHANGED <<ends, iref, task>>
    BY <1>1
  <2>4. TableOK
    BY DEF FileInv
  <2> QED
    BY ONLY <1>4, <2>1, <2>2, <2>3, <2>4 DEF TableOK
<1>8. LiveOK'
  BY <1>1, <1>4 DEF FileInv, LiveOK
<1>9. RefOK'
  <2> SUFFICES ASSUME NEW f \in Files PROVE ftable'[f].ref = Cardinality(Users(f)')
    BY DEF RefOK
  <2> DEFINE S == Own(f)
  <2>1. /\ ftable'[f].ref = ftable[f].ref + Cardinality(S) /\ ftable[f].ref = Cardinality(Users(f))
        /\ Users(f)' = Users(f) \cup ({c} \X S) /\ Users(f) \cap ({c} \X S) = {}
        /\ IsFiniteSet(S) /\ Cardinality(S) \in Nat
    <3>1. ftable'[f].ref = ftable[f].ref + Cardinality(S)
      BY <1>6
    <3> QED
      BY <1>2, <1>5, <3>1 DEF FileInv, RefOK
  <2>2. IsFiniteSet(Users(f)) /\ Cardinality(Users(f)) \in Nat
    BY TableFinite
  <2> HIDE DEF S
  <2>3. IsFiniteSet({c}) /\ Cardinality({c}) = 1
    BY FS_Singleton
  <2>4. IsFiniteSet({c} \X S) /\ Cardinality({c} \X S) = Cardinality({c}) * Cardinality(S)
    BY <2>1, <2>3, FS_Product
  <2>5. \A m \in Nat : 1 * m = m
    OBVIOUS
  <2>6. Cardinality({c} \X S) = Cardinality(S)
    BY <2>1, <2>3, <2>4, <2>5
  <2>7. Cardinality(Users(f) \cup ({c} \X S))
          = Cardinality(Users(f)) + Cardinality({c} \X S) - Cardinality(Users(f) \cap ({c} \X S))
    BY <2>2, <2>4, FS_Union
  <2>8. Cardinality(Users(f) \cap ({c} \X S)) = 0
    BY <2>1, FS_EmptySet
  <2> QED
    BY <2>1, <2>2, <2>6, <2>7, <2>8
<1>10. \A h \in Handles : Same(h)
  <2>1. \A g \in Files : /\ ftable'[g].type = ftable[g].type
                         /\ ftable[g].type \in Kinds => ftable'[g].of = ftable[g].of /\ ftable'[g].mode = ftable[g].mode
    BY <1>6
  <2>2. \A q \in Procs : task'[q] = task[q] \/ (task[q].op \notin Kinds /\ task'[q].op \notin Kinds)
    BY <1>1
  <2>3. Files \in SUBSET Files /\ Procs \in SUBSET Procs
    OBVIOUS
  <2> QED
    BY ONLY <2>1, <2>2, <2>3, HandlesSame DEF Handles
<1>11. InodeOK' /\ PipeOK'
  BY <1>1, <1>10, HoldersStay
<1> QED
  BY <1>7, <1>8, <1>9, <1>11 DEF FileInv

-----------------------------------------------------------------------------
(* The theorem *)

\* Nothing is open at first.
LEMMA FileInvInit == FileInit => FileInv
<1> SUFFICES ASSUME FileInit PROVE FileInv
  OBVIOUS
<1>1. TableOK
  <2>1. EntryOK(Closed) /\ TaskOK(Idle)
    BY DEF EntryOK, Closed, Kinds, TaskOK
  <2> QED
    BY <2>1 DEF FileInit, TableOK
<1>2. LiveOK
  BY DEF FileInit, LiveOK
<1>3. RefOK
  <2> SUFFICES ASSUME NEW f \in Files PROVE Users(f) = {}
    BY FS_EmptySet DEF FileInit, RefOK, Closed
  <2> QED
    BY TableFinite DEF FileInit, Users
<1>4. \A t \in Kinds : \A x : Holders(t, x) = {}
  <2>1. \A h \in Handles : Kind(h) = "FD_NONE"
    BY DEF Handles, Kind, FileInit, Closed, Idle, Kinds
  <2> QED
    BY <2>1 DEF Holders, Kinds
<1>5. InodeOK
  BY <1>4, FS_EmptySet DEF FileInit, InodeOK, Kinds
<1>6. PipeOK
  BY <1>4 DEF FileInit, PipeOK, Kinds
<1> QED
  BY <1>1, <1>2, <1>3, <1>5, <1>6 DEF FileInv

\* Every call, and every step of a call that is not finished, keeps the invariant.
LEMMA FileInvNext == FileInv /\ [FileNext]_fileVars => FileInv'
<1> SUFFICES ASSUME FileInv, [FileNext]_fileVars PROVE FileInv'
  OBVIOUS
<1>1. CASE UNCHANGED fileVars
  BY <1>1, UnchangedStep DEF fileVars, tableVars
<1>2. ASSUME NEW p \in Procs, NEW i \in Inodes,
             (\E m \in Modes : sys_open(p, i, m)) \/ sys_open_fails(p, i) \/ sys_unlink(p, i)
      PROVE  FileInv'
  BY <1>2, OpenKeeps, OpenFailsKeeps, UnlinkKeeps
<1>3. ASSUME NEW p \in Procs, NEW fd \in Fds,
             \/ sys_dup(p, fd) \/ sys_close(p, fd) \/ sys_read(p, fd)
             \/ \E n \in WriteSizes, v \in Bytes : sys_write(p, fd, n, v)
      PROVE  FileInv'
  <2>1. CASE sys_close(p, fd)
    BY <2>1, CloseKeeps DEF sys_close
  <2> QED
    BY <1>3, <2>1, DupKeeps, ReadKeeps, WriteKeeps
<1>4. ASSUME NEW p \in Procs,
             \/ sys_pipe(p) \/ sys_pipe_fails(p) \/ fileclose_inode(p) \/ iput_ref(p)
             \/ fileclose_pipe(p) \/ filewrite(p) \/ filewrite_fails(p) \/ exit(p)
             \/ \E c \in Procs : fork(p, c)
      PROVE  FileInv'
  BY <1>4, PipeKeeps, PipeFailsKeeps, FilecloseInodeKeeps, IputRefKeeps, FileclosePipeKeeps,
     FilewriteKeeps, FilewriteFailsKeeps, ExitKeeps, ForkKeeps
<1> QED
  BY <1>1, <1>2, <1>3, <1>4 DEF FileNext

\* The holders of a pipe are as many as its open ends.
LEMMA FileInvCounts == FileInv => RefsAreDescriptors
<1> SUFFICES ASSUME FileInv PROVE RefsAreDescriptors
  OBVIOUS
<1>1. \A f \in Files : ftable[f].ref = Cardinality({pf \in Procs \X Fds : ofile[pf[1]][pf[2]] = f})
  BY DEF FileInv, RefOK, Users
<1>2. \A i \in Inodes :
        iref[i] = Cardinality(Holds("FD_INODE", i)) + Cardinality(Dropping("FD_INODE", i))
  BY HoldersCount DEF FileInv, InodeOK, Kinds
<1>3. ASSUME NEW q \in Pipes
      PROVE  Cardinality(ends[q]) = Cardinality(Holds("FD_PIPE", q)) + Cardinality(Dropping("FD_PIPE", q))
  <2> DEFINE S == Holders("FD_PIPE", q)
             e == [h \in S |-> End(h)]
  <2>1. ends[q] = {End(h) : h \in S} /\ \A g, h \in S : End(g) = End(h) => g = h
    BY DEF FileInv, PipeOK
  <2>2. IsFiniteSet(S)
    BY HoldersFinite
  <2>3. Cardinality(S) = Cardinality(Holds("FD_PIPE", q)) + Cardinality(Dropping("FD_PIPE", q))
    BY HoldersCount DEF FileInv, Kinds
  <2> HIDE DEF S
  <2>4. e \in [S -> ends[q]] /\ (\A g, h \in S : e[g] = e[h] => g = h)
        /\ \A m \in ends[q] : \E h \in S : e[h] = m
    BY <2>1
  <2>5. e \in Bijection(S, ends[q])
    BY <2>4 DEF Bijection, Injection, Surjection, IsInjective
  <2>6. ExistsBijection(S, ends[q])
    BY <2>5 DEF ExistsBijection
  <2>7. Cardinality(S) = Cardinality(ends[q])
    BY <2>2, <2>6, FS_Bijection
  <2> QED
    BY <2>3, <2>7
<1> QED
  BY <1>1, <1>2, <1>3 DEF RefsAreDescriptors

\* Through every interleaving of open, dup, pipe, close, fork, exit and calls that fail, an
\* entry of ftable counts its descriptors, an inode the files that hold it and a pipe its
\* open ends, the last closes that ftable.lock has let go included.
THEOREM DescriptorsAreCounted == FileSpec => []RefsAreDescriptors
<1>1. FileInit => FileInv
  BY FileInvInit
<1>2. FileInv /\ [FileNext]_fileVars => FileInv'
  BY FileInvNext
<1>3. FileInv => RefsAreDescriptors
  BY FileInvCounts
<1> QED
  BY <1>1, <1>2, <1>3, PTL DEF FileSpec

-----------------------------------------------------------------------------
(* Numbers: recursion over a range, quotients and remainders *)

\* A set of numbers that is not empty has a least element.
LEMMA LeastNumber ==
  ASSUME NEW S, S \subseteq Nat, S # {}
  PROVE  \E col \in S : \A row \in S : col <= row
<1>1. IsWellFoundedOn(OpToRel(<, Nat), Nat)
  BY NatLessThanWellFounded
<1> DEFINE R == OpToRel(<, Nat)
<1>2. \A col, row \in Nat : <<col, row>> \in R <=> col < row
  BY DEF OpToRel
<1> HIDE DEF R
<1>3. \E col \in S : \A row \in S : ~(<<row, col>> \in R)
  BY <1>1, WFMin DEF R
<1>4. PICK col \in S : \A row \in S : ~(<<row, col>> \in R)
  BY <1>3
<1>5. \A row \in S : ~(row < col)
  BY <1>2, <1>4
<1> QED
  BY <1>5

\* What holds of 0 and passes from each number of a range to the next holds of all.
LEMMA RangeInduction ==
  ASSUME NEW N \in Nat, NEW S, 0 \in S, \A n \in 0 .. N : n < N /\ n \in S => n + 1 \in S
  PROVE  \A n \in 0 .. N : n \in S
<1> SUFFICES ASSUME NEW n \in 0 .. N, n \notin S PROVE FALSE
  OBVIOUS
<1> DEFINE Bad == {k \in 0 .. N : k \notin S}
<1>1. Bad \subseteq Nat /\ Bad # {}
  OBVIOUS
<1>2. PICK col \in Bad : \A row \in Bad : col <= row
  BY <1>1, LeastNumber
<1>3. col \in 0 .. N /\ col \notin S /\ col # 0
  BY <1>2
<1>4. col - 1 \in 0 .. N /\ col - 1 < N /\ col - 1 \notin Bad /\ (col - 1) + 1 = col
  BY <1>2, <1>3
<1> QED
  BY <1>3, <1>4

\* The values that a recursion over a range of numbers gives.
FollowsStep(f, N, a, G) == f[0] = a /\ \A n \in 1 .. N : f[n] = G[<<n, f[n - 1]>>]

\* A recursion over a range of numbers defines a function.
LEMMA RangeRecursion ==
  ASSUME NEW N \in Nat, NEW T, NEW a \in T, NEW G \in [(0 .. N) \X T -> T]
  PROVE  \E f \in [0 .. N -> T] : FollowsStep(f, N, a, G)
<1> DEFINE Good(m, f) == f[0] = a /\ \A n \in 1 .. m : f[n] = G[<<n, f[n - 1]>>]
           S == {m \in 0 .. N : \E f \in [0 .. m -> T] : Good(m, f)}
<1>1. 0 \in S
  <2> DEFINE f == [u \in 0 .. 0 |-> a]
  <2>1. f \in [0 .. 0 -> T] /\ Good(0, f) /\ 0 \in 0 .. N
    OBVIOUS
  <2> HIDE DEF f, Good
  <2> QED
    BY <2>1
<1>2. ASSUME NEW m \in 0 .. N, m < N, m \in S
      PROVE  m + 1 \in S
  <2>1. PICK f \in [0 .. m -> T] : Good(m, f)
    BY <1>2
  <2> DEFINE g == [u \in 0 .. m + 1 |-> IF u <= m THEN f[u] ELSE G[<<m + 1, f[m]>>]]
  <2>2. f[m] \in T /\ m + 1 \in 0 .. N
    BY <1>2
  <2>3. g \in [0 .. m + 1 -> T]
    <3>1. G[<<m + 1, f[m]>>] \in T
      BY <2>2
    <3>2. \A u \in 0 .. m + 1 : u <= m => u \in 0 .. m
      OBVIOUS
    <3> QED
      BY <3>1, <3>2
  <2>4. Good(m + 1, g)
    <3>1. g[0] = a
      BY <2>1
    <3>2. ASSUME NEW n \in 1 .. m + 1
          PROVE  g[n] = G[<<n, g[n - 1]>>]
      <4>1. n - 1 \in 0 .. m /\ g[n - 1] = f[n - 1]
        OBVIOUS
      <4>2. CASE n <= m
        BY <2>1, <4>1, <4>2
      <4>3. CASE n = m + 1
        <5>1. g[m + 1] = G[<<m + 1, f[m]>>] /\ n - 1 = m
          BY <4>3
        <5> QED
          BY <4>1, <4>3, <5>1
      <4> QED
        BY <4>2, <4>3
    <3> QED
      BY <3>1, <3>2
  <2> HIDE DEF g, Good
  <2> QED
    BY <2>2, <2>3, <2>4
<1> HIDE DEF S
<1>3. N \in S
  BY <1>1, <1>2, RangeInduction
<1> QED
  BY <1>3 DEF S, FollowsStep

\* A number is known by its quotient and its remainder.
LEMMA QuotientUnique ==
  ASSUME NEW m \in Nat \ {0}, NEW q \in Nat, NEW p \in Nat,
         NEW r \in 0 .. m - 1, NEW s \in 0 .. m - 1, q * m + r = p * m + s
  PROVE  q = p /\ r = s
<1>1. ASSUME NEW col \in Nat, NEW row \in Nat, col < row
      PROVE  col * m + m <= row * m
  <2>1. PICK d \in Nat : row = col + 1 + d
    <3>1. row - (col + 1) \in Nat /\ row = col + 1 + (row - (col + 1))
      BY <1>1
    <3> QED
      BY <3>1
  <2>2. row * m = col * m + m + d * m /\ d * m \in Nat /\ col * m \in Nat
    BY <2>1
  <2> QED
    BY <2>2
<1>2. q * m \in Nat /\ p * m \in Nat
  OBVIOUS
<1>3. ~(q < p)
  BY <1>1, <1>2
<1>4. ~(p < q)
  BY <1>1, <1>2
<1> QED
  BY <1>2, <1>3, <1>4

\* Division with remainder.
LEMMA DivMod ==
  ASSUME NEW a \in Nat, NEW m \in Nat \ {0}
  PROVE  a \div m \in Nat /\ a % m \in 0 .. m - 1 /\ a = (a \div m) * m + (a % m)
OBVIOUS

\* Row and column of an index.
LEMMA RowColumn ==
  ASSUME NEW w \in Nat \ {0}, NEW col \in 0 .. w - 1, NEW row \in Nat
  PROVE  row * w + col \in Nat /\ (row * w + col) \div w = row /\ (row * w + col) % w = col
<1>1. row * w + col \in Nat
  OBVIOUS
<1>2. PICK a \in Nat : a = row * w + col
  BY <1>1
<1>3. a \div w \in Nat /\ a % w \in 0 .. w - 1 /\ a = (a \div w) * w + (a % w)
  BY DivMod
<1>4. (a \div w) * w + (a % w) = row * w + col
  BY <1>2, <1>3
<1>5. a \div w = row /\ a % w = col
  BY ONLY <1>3, <1>4, QuotientUnique, row \in Nat, col \in 0 .. w - 1, w \in Nat \ {0}
<1> QED
  BY <1>1, <1>2, <1>5

\* A smaller number has no larger quotient.
LEMMA DivMonotone ==
  ASSUME NEW m \in Nat \ {0}, NEW a \in Nat, NEW b \in Nat, a <= b
  PROVE  a \div m <= b \div m
<1>1. PICK q \in Nat, r \in 0 .. m - 1 : q = a \div m /\ a = q * m + r
  BY DivMod
<1>2. PICK p \in Nat, s \in 0 .. m - 1 : p = b \div m /\ b = p * m + s
  BY DivMod
<1>3. ~(p < q)
  <2> SUFFICES ASSUME p < q PROVE FALSE
    OBVIOUS
  <2>1. PICK d \in Nat : q = p + 1 + d
    <3>1. q - (p + 1) \in Nat /\ q = p + 1 + (q - (p + 1))
      OBVIOUS
    <3> QED
      BY <3>1
  <2>2. q * m = p * m + m + d * m /\ d * m \in Nat /\ p * m \in Nat
    BY <2>1
  <2> QED
    BY <1>1, <1>2, <2>2
<1> QED
  BY <1>1, <1>2, <1>3

\* A quotient is below n when the number is below n * m.
LEMMA DivBelow ==
  ASSUME NEW m \in Nat \ {0}, NEW a \in Nat, NEW n \in Nat, a < n * m
  PROVE  a \div m < n
<1>1. PICK q \in Nat, r \in 0 .. m - 1 : q = a \div m /\ a = q * m + r
  BY DivMod
<1>2. ~(n <= q)
  <2> SUFFICES ASSUME n <= q PROVE FALSE
    OBVIOUS
  <2>1. PICK d \in Nat : q = n + d
    <3>1. q - n \in Nat /\ q = n + (q - n)
      OBVIOUS
    <3> QED
      BY <3>1
  <2>2. q * m = n * m + d * m /\ d * m \in Nat /\ n * m \in Nat
    BY <2>1
  <2> QED
    BY <1>1, <2>2
<1> QED
  BY <1>1, <1>2

\* The quotient of a number and of the one before it.
LEMMA DivPred ==
  ASSUME NEW m \in Nat \ {0}, NEW a \in Nat \ {0}
  PROVE  /\ a % m # 0 => (a - 1) \div m = a \div m
         /\ a \div m <= (a - 1) \div m + 1
<1>1. PICK q \in Nat, r \in 0 .. m - 1 : q = a \div m /\ r = a % m /\ a = q * m + r
  BY DivMod
<1>2. CASE r # 0
  <2>1. r - 1 \in 0 .. m - 1 /\ a - 1 = q * m + (r - 1)
    BY <1>1, <1>2
  <2>2. (q * m + (r - 1)) \div m = q
    BY ONLY <2>1, RowColumn, m \in Nat \ {0}, q \in Nat
  <2> QED
    BY <1>1, <2>1, <2>2
<1>3. CASE r = 0
  <2>1. q # 0
    BY <1>1, <1>3
  <2>2. q - 1 \in Nat /\ m - 1 \in 0 .. m - 1
    BY <2>1
  <2>3. (q - 1) * m = q * m - m
    OBVIOUS
  <2>4. a - 1 = (q - 1) * m + (m - 1)
    BY <1>1, <1>3, <2>3
  <2>5. ((q - 1) * m + (m - 1)) \div m = q - 1
    BY ONLY <2>2, RowColumn, m \in Nat \ {0}
  <2> QED
    BY <1>1, <1>3, <2>4, <2>5
<1> QED
  BY <1>2, <1>3

\* The first byte of a block that a file of size bytes reaches.
LEMMA BlockStart ==
  ASSUME NEW m \in Nat \ {0}, NEW size \in Nat \ {0}, NEW k \in Nat, k <= (size - 1) \div m
  PROVE  k * m \in 0 .. size - 1 /\ (k * m) \div m = k
<1>1. (k * m + 0) \div m = k /\ k * m + 0 = k * m /\ k * m \in Nat
  BY RowColumn
<1>2. size - 1 \in Nat
  OBVIOUS
<1>3. PICK q \in Nat, r \in 0 .. m - 1 : q = (size - 1) \div m /\ size - 1 = q * m + r
  BY <1>2, DivMod
<1>4. PICK d \in Nat : q = k + d
  <2>1. q - k \in Nat /\ q = k + (q - k)
    BY <1>3
  <2> QED
    BY <2>1
<1>5. q * m = k * m + d * m /\ d * m \in Nat
  BY <1>4
<1> QED
  BY <1>1, <1>3, <1>5

\* The blocks that n bytes at off reach, where n is at most w blocks.
LEMMA BlocksReached ==
  ASSUME NEW m \in Nat \ {0}, NEW off \in Nat, NEW n \in Nat \ {0}, NEW w \in Nat, n <= w * m
  PROVE  /\ (off + n - 1) \div m - off \div m \in Nat
         /\ (off + n - 1) \div m - off \div m <= (IF off % m = 0 THEN w - 1 ELSE w)
<1>1. PICK q \in Nat, r \in 0 .. m - 1 : q = off \div m /\ r = off % m /\ off = q * m + r
  BY DivMod
<1>2. off + n - 1 \in Nat /\ off <= off + n - 1
  OBVIOUS
<1>3. PICK p \in Nat : p = (off + n - 1) \div m
  BY <1>2, DivMod
<1>4. q <= p
  BY <1>1, <1>2, <1>3, DivMonotone
<1>5. (q + w) * m = q * m + w * m /\ (q + w + 1) * m = q * m + w * m + m /\ q * m \in Nat /\ w * m \in Nat
  OBVIOUS
<1>6. CASE r = 0
  <2>1. off + n - 1 < (q + w) * m
    BY <1>1, <1>5, <1>6
  <2>2. p < q + w
    BY <1>2, <1>3, <2>1, DivBelow
  <2> QED
    BY <1>1, <1>3, <1>4, <1>6, <2>2
<1>7. CASE r # 0
  <2>1. off + n - 1 < (q + w + 1) * m
    BY <1>1, <1>5, <1>7
  <2>2. p < q + w + 1
    BY <1>2, <1>3, <2>1, DivBelow
  <2> QED
    BY <1>1, <1>3, <1>4, <1>7, <2>2
<1> QED
  BY <1>6, <1>7

-----------------------------------------------------------------------------
(***************************************************************************)
(* The blocks of an inode as one table: the slot of a block of the file is    *)
(* its number, the slot MAXFILE is the indirect block's.                     *)
(***************************************************************************)
Slots == 0 .. MAXFILE
Blocks == 1 .. NBlocks

At(ip, d, k) ==
  IF k < NDIRECT THEN ip.addrs[k]
  ELSE IF k = MAXFILE THEN ip.addrs[NDIRECT]
  ELSE IF ip.addrs[NDIRECT] = 0 THEN 0
  ELSE d[ip.addrs[NDIRECT]][k - NDIRECT]

InodeType == [nlink : Int, size : Nat, addrs : [0 .. NDIRECT -> 0 .. NBlocks]]
DataType == [Blocks -> [Cells -> Nat]]
LogIds == {<<"inode">>} \cup ({"data"} \X Blocks) \cup ({"bitmap"} \X Nat)

Table(ino, d) == [j \in Inodes |-> [k \in Slots |-> At(ino[j], d, k)]]

\* No block is in two slots, and the bitmap marks those that are in one.
TableFits(T, m) ==
  /\ T \in [Inodes -> [Slots -> 0 .. NBlocks]]
  /\ \A i, j \in Inodes : \A k, l \in Slots :
       T[i][k] = T[j][l] /\ T[i][k] # 0 => i = j /\ k = l
  /\ m = {b \in Blocks : \E i \in Inodes : \E k \in Slots : T[i][k] = b}

\* The copy of the disk that a transaction on the inode i works on.
Copies == [ip : InodeType, dip : InodeType, map : SUBSET Blocks, data : DataType,
           log : SUBSET LogIds, full : BOOLEAN, addr : 0 .. NBlocks]
CopyTable(i, u) == Table([inode EXCEPT ![i] = u.ip], u.data)
CopiesOK(i) == {u \in Copies : TableFits(CopyTable(i, u), u.map) /\ IsFiniteSet(u.log)}

\* What allocating the indirect block has put into the log.
IndirectLog(u) ==
  LET ind == u.ip.addrs[NDIRECT] IN
  IF ind = 0 THEN {} ELSE {Bitmap(ind), <<"data", ind>>}

-----------------------------------------------------------------------------
(* Slots are filled, blocks are written and files are freed *)

\* The numbers that the sizes of inodes and blocks give.
LEMMA Sizes ==
  /\ NDIRECT \in Nat \ {0} /\ NINDIRECT \in Nat \ {0} /\ NBlocks \in Nat \ {0}
  /\ BSIZE \in Nat \ {0} /\ BPB \in Nat \ {0} /\ MAXFILE \in Nat \ {0}
  /\ MAXFILE = NDIRECT + NINDIRECT
  /\ \A k \in Slots : k >= NDIRECT /\ k # MAXFILE => k - NDIRECT \in 0 .. NINDIRECT - 1
  /\ 0 .. NINDIRECT - 1 \subseteq Cells /\ 0 .. BSIZE - 1 \subseteq Cells
BY FileAssumption DEF MAXFILE, Slots, Cells

\* A free block goes into an empty slot.
LEMMA SlotFilled ==
  ASSUME NEW T, NEW m, TableFits(T, m), NEW i \in Inodes, NEW k \in Slots, T[i][k] = 0,
         NEW b \in Blocks, b \notin m
  PROVE  TableFits([T EXCEPT ![i][k] = b], m \cup {b})
<1> DEFINE U == [T EXCEPT ![i][k] = b]
<1>1. T \in [Inodes -> [Slots -> 0 .. NBlocks]]
  BY DEF TableFits
<1>2. U \in [Inodes -> [Slots -> 0 .. NBlocks]]
  BY <1>1 DEF Blocks
<1>3. \A j \in Inodes : \A l \in Slots : U[j][l] = IF j = i /\ l = k THEN b ELSE T[j][l]
  BY <1>1
<1> HIDE DEF U
<1>4. \A j \in Inodes : \A l \in Slots : T[j][l] # b
  BY DEF TableFits
<1>5. \A h, j \in Inodes : \A n, l \in Slots :
        U[h][n] = U[j][l] /\ U[h][n] # 0 => h = j /\ n = l
  BY <1>3, <1>4 DEF TableFits
<1>6. m = {a \in Blocks : \E j \in Inodes : \E l \in Slots : T[j][l] = a}
  BY DEF TableFits
<1>7. ASSUME NEW a \in Blocks
      PROVE  a \in m \cup {b} <=> \E j \in Inodes : \E l \in Slots : U[j][l] = a
  <2>1. CASE a = b
    BY <1>3, <2>1
  <2>2. CASE a # b
    <3>1. a # 0
      BY Sizes DEF Blocks
    <3> QED
      BY <1>3, <1>6, <2>2, <3>1
  <2> QED
    BY <2>1, <2>2
<1>8. m \cup {b} = {a \in Blocks : \E j \in Inodes : \E l \in Slots : U[j][l] = a}
  BY <1>6, <1>7
<1> QED
  BY <1>2, <1>5, <1>8 DEF TableFits, U

\* The blocks of a freed file are free.
Emptied(T, i) == [T EXCEPT ![i] = [k \in Slots |-> 0]]
InSlots(T, i) == {T[i][k] : k \in Slots}

\* The slots of one file are emptied, and the bitmap loses what was in them.
LEMMA SlotsEmptied ==
  ASSUME NEW T, NEW m, TableFits(T, m), NEW i \in Inodes,
         NEW U, U = Emptied(T, i), NEW n, n = m \ InSlots(T, i)
  PROVE  TableFits(U, n)
<1> USE DEF Emptied, InSlots
<1>1. T \in [Inodes -> [Slots -> 0 .. NBlocks]]
  BY DEF TableFits
<1>2. U \in [Inodes -> [Slots -> 0 .. NBlocks]]
  BY <1>1, Sizes
<1>3. \A j \in Inodes : \A l \in Slots : U[j][l] = IF j = i THEN 0 ELSE T[j][l]
  BY <1>1
<1>4. \A h, j \in Inodes : \A g, l \in Slots :
        U[h][g] = U[j][l] /\ U[h][g] # 0 => h = j /\ g = l
  BY <1>3 DEF TableFits
<1>5. m = {a \in Blocks : \E j \in Inodes : \E l \in Slots : T[j][l] = a}
  BY DEF TableFits
<1>6. ASSUME NEW a \in Blocks
      PROVE  a \in m \ {T[i][k] : k \in Slots} <=> \E j \in Inodes : \E l \in Slots : U[j][l] = a
  <2>1. a # 0
    BY Sizes DEF Blocks
  <2>2. ASSUME a \in m, a \notin {T[i][k] : k \in Slots}
        PROVE  \E j \in Inodes : \E l \in Slots : U[j][l] = a
    BY <1>3, <1>5, <2>2
  <2>3. ASSUME NEW j \in Inodes, NEW l \in Slots, U[j][l] = a
        PROVE  a \in m /\ a \notin {T[i][k] : k \in Slots}
    BY <1>3, <1>5, <2>1, <2>3 DEF TableFits
  <2> QED
    BY <2>2, <2>3
<1>7. m \ {T[i][k] : k \in Slots} = {a \in Blocks : \E j \in Inodes : \E l \in Slots : U[j][l] = a}
  BY <1>5, <1>6
<1> QED
  BY <1>2, <1>4, <1>7 DEF TableFits

\* Adding two elements to a finite set.
LEMMA AddTwo ==
  ASSUME NEW S, IsFiniteSet(S), NEW x, NEW y
  PROVE  /\ IsFiniteSet((S \cup {x}) \cup {y})
         /\ Cardinality((S \cup {x}) \cup {y}) <= Cardinality(S) + 2
<1>1. Cardinality(S) \in Nat
  BY FS_CardinalityType
<1>2. PICK R : R = S \cup {x}
  OBVIOUS
<1>3. IsFiniteSet(R) /\ Cardinality(R) <= Cardinality(S) + 1 /\ Cardinality(R) \in Nat
  BY <1>1, <1>2, FS_AddElement, FS_CardinalityType
<1>4. IsFiniteSet(R \cup {y}) /\ Cardinality(R \cup {y}) <= Cardinality(R) + 1
  <2>1. IsFiniteSet(R \cup {y}) /\ Cardinality(R \cup {y}) = IF y \in R THEN Cardinality(R) ELSE Cardinality(R) + 1
    BY <1>3, FS_AddElement
  <2> QED
    BY <1>3, <2>1
<1>5. Cardinality(R \cup {y}) \in Nat
  BY <1>4, FS_CardinalityType
<1> QED
  BY <1>1, <1>2, <1>3, <1>4, <1>5

\* The entries of the table of a copy.
LEMMA CopyTableAt ==
  ASSUME inode \in [Inodes -> InodeType], NEW i \in Inodes, NEW u
  PROVE  \A j \in Inodes : \A k \in Slots :
           CopyTable(i, u)[j][k] = IF j = i THEN At(u.ip, u.data, k) ELSE At(inode[j], u.data, k)
BY DEF CopyTable, Table

\* A table is its entries.
LEMMA SameTable ==
  ASSUME NEW T \in [Inodes -> [Slots -> 0 .. NBlocks]], NEW U \in [Inodes -> [Slots -> 0 .. NBlocks]],
         \A j \in Inodes : \A k \in Slots : T[j][k] = U[j][k]
  PROVE  T = U
<1>1. \A j \in Inodes : T[j] = U[j]
  OBVIOUS
<1> QED
  BY <1>1

\* balloc gives a block that is free, zeroed, and logs it and its bit.
LEMMA BallocIs ==
  ASSUME NEW u \in Copies, ~balloc(u).full
  PROVE  /\ balloc(u) \in Copies
         /\ balloc(u).ip = u.ip /\ balloc(u).dip = u.dip /\ balloc(u).full = u.full
         /\ balloc(u).addr \in Blocks /\ balloc(u).addr \notin u.map
         /\ balloc(u).map = u.map \cup {balloc(u).addr}
         /\ balloc(u).data = [u.data EXCEPT ![balloc(u).addr] = Zeroed]
         /\ balloc(u).log = u.log \cup {Bitmap(balloc(u).addr), <<"data", balloc(u).addr>>}
<1> DEFINE free == (1 .. NBlocks) \ u.map
           b == CHOOSE x \in free : \A y \in free : x <= y
           t == [u EXCEPT !.map = @ \cup {b}, !.data[b] = Zeroed,
                          !.log = @ \cup {Bitmap(b), <<"data", b>>}, !.addr = b]
<1>1. free # {}
  <2> SUFFICES ASSUME free = {} PROVE balloc(u).full
    OBVIOUS
  <2>1. balloc(u) = [u EXCEPT !.full = TRUE]
    BY DEF balloc
  <2> QED
    BY <2>1 DEF Copies
<1>2. free \subseteq Nat
  BY Sizes
<1>3. b \in free
  <2>1. \E x \in free : \A y \in free : x <= y
    BY <1>1, <1>2, LeastNumber
  <2> QED
    BY <2>1
<1>4. balloc(u) = t
  BY <1>1 DEF balloc
<1> HIDE DEF b
<1>5. /\ t.ip = u.ip /\ t.dip = u.dip /\ t.full = u.full /\ t.addr = b
      /\ t.map = u.map \cup {b} /\ t.data = [u.data EXCEPT ![b] = Zeroed]
      /\ t.log = u.log \cup {Bitmap(b), <<"data", b>>}
      /\ t = [ip |-> t.ip, dip |-> t.dip, map |-> t.map, data |-> t.data, log |-> t.log,
              full |-> t.full, addr |-> t.addr]
  <2>1. u = [ip |-> u.ip, dip |-> u.dip, map |-> u.map, data |-> u.data, log |-> u.log,
             full |-> u.full, addr |-> u.addr]
    BY DEF Copies
  <2> DEFINE X == u.map \cup {b}
             Y == [u.data EXCEPT ![b] = Zeroed]
             Z == u.log \cup {Bitmap(b), <<"data", b>>}
             t1 == [u EXCEPT !.map = X]
             t2 == [t1 EXCEPT !.data = Y]
             t3 == [t2 EXCEPT !.log = Z]
  <2>2. t1 = [ip |-> u.ip, dip |-> u.dip, map |-> X, data |-> u.data, log |-> u.log,
              full |-> u.full, addr |-> u.addr]
    <3> HIDE DEF X
    <3> QED
      BY <2>1
  <2>3. t = [[[t1 EXCEPT !.data = [t1.data EXCEPT ![b] = Zeroed]] EXCEPT !.log = Z] EXCEPT !.addr = b]
    OBVIOUS
  <2> HIDE DEF t1, t
  <2>4. t1.data = u.data
    BY <2>2
  <2>5. t = [t3 EXCEPT !.addr = b]
    BY <2>3, <2>4
  <2> HIDE DEF X, Y, Z
  <2>6. t2 = [ip |-> u.ip, dip |-> u.dip, map |-> X, data |-> Y, log |-> u.log,
              full |-> u.full, addr |-> u.addr]
    BY <2>2
  <2> HIDE DEF t2
  <2>7. t3 = [ip |-> u.ip, dip |-> u.dip, map |-> X, data |-> Y, log |-> Z,
              full |-> u.full, addr |-> u.addr]
    BY <2>6
  <2> HIDE DEF t3
  <2>8. t = [ip |-> u.ip, dip |-> u.dip, map |-> X, data |-> Y, log |-> Z, full |-> u.full, addr |-> b]
    BY <2>5, <2>7
  <2> QED
    BY <2>8 DEF X, Y, Z
<1> HIDE DEF t
<1>6. b \in Blocks /\ b \notin u.map /\ b \in 0 .. NBlocks
  BY <1>3, Sizes DEF Blocks
<1>7. t.data \in DataType /\ t.map \in SUBSET Blocks
  <2>1. Zeroed \in [Cells -> Nat]
    BY DEF Zeroed
  <2> QED
    BY <1>5, <1>6, <2>1 DEF Copies, DataType
<1>8. t.log \in SUBSET LogIds
  <2>1. (b - 1) \div BPB \in Nat
    <3>1. b - 1 \in Nat
      BY <1>6, Sizes DEF Blocks
    <3> QED
      BY <3>1, Sizes, DivMod
  <2> QED
    BY <1>5, <1>6, <2>1 DEF LogIds, Bitmap, Copies
<1>9. t.ip \in InodeType /\ t.dip \in InodeType /\ t.full \in BOOLEAN /\ t.addr \in 0 .. NBlocks
  BY <1>5, <1>6 DEF Copies
<1>10. t \in Copies
  BY <1>5, <1>7, <1>8, <1>9 DEF Copies
<1> QED
  BY <1>4, <1>5, <1>6, <1>10

\* Where the table of a copy has the block of a slot of the inode.
SlotOf(k) == IF k = NDIRECT THEN MAXFILE ELSE k

\* The copy t has the block of one more slot of the inode, or the one that was there.
Fetched(i, u, t, slot) ==
  /\ t \in CopiesOK(i) /\ t.full = FALSE /\ t.addr \in Blocks
  /\ t.dip = u.dip /\ t.ip.size = u.ip.size /\ t.ip.nlink = u.ip.nlink
  /\ CopyTable(i, t) = [CopyTable(i, u) EXCEPT ![i][slot] = t.addr]

\* The block was there.
Found(i, u, t, slot) ==
  /\ CopyTable(i, u)[i][slot] # 0
  /\ t.ip = u.ip /\ t.map = u.map /\ t.data = u.data /\ t.log = u.log

\* The block is new: its bit and its zeros are logged.
Allocated(i, u, t, slot) ==
  /\ CopyTable(i, u)[i][slot] = 0
  /\ t.addr \notin u.map
  /\ t.log \ {Bitmap(t.addr), <<"data", t.addr>>} \subseteq u.log

\* A slot of an inode in memory.
LEMMA DirectFetches ==
  ASSUME inode \in [Inodes -> InodeType], NEW i \in Inodes, NEW u \in CopiesOK(i), u.full = FALSE,
         NEW k \in 0 .. NDIRECT, ~Direct(u, k).full
  PROVE  /\ Fetched(i, u, Direct(u, k), SlotOf(k))
         /\ Direct(u, k).ip.addrs = [u.ip.addrs EXCEPT ![k] = Direct(u, k).addr]
         /\ \/ Found(i, u, Direct(u, k), SlotOf(k))
            \/ /\ Allocated(i, u, Direct(u, k), SlotOf(k))
               /\ Direct(u, k).data = [u.data EXCEPT ![Direct(u, k).addr] = Zeroed]
<1> DEFINE T == CopyTable(i, u)
           slot == SlotOf(k)
<1>1. /\ u \in Copies /\ TableFits(T, u.map) /\ IsFiniteSet(u.log)
      /\ T \in [Inodes -> [Slots -> 0 .. NBlocks]]
  BY DEF CopiesOK, TableFits
<1>2. u.ip \in InodeType /\ u.ip.addrs \in [0 .. NDIRECT -> 0 .. NBlocks] /\ u.data \in DataType
  BY <1>1 DEF Copies, InodeType
<1>3. /\ slot \in Slots /\ T[i][slot] = u.ip.addrs[k]
      /\ (k # NDIRECT /\ slot = k /\ slot < NDIRECT) \/ (k = NDIRECT /\ slot = MAXFILE)
  <2>1. slot \in Slots
    BY Sizes DEF SlotOf, Slots
  <2>2. T[i][slot] = At(u.ip, u.data, slot)
    BY <2>1, CopyTableAt
  <2> QED
    BY <2>1, <2>2, Sizes DEF SlotOf, At
<1>4. CASE u.ip.addrs[k] # 0
  <2> DEFINE t == [u EXCEPT !.addr = u.ip.addrs[k]]
  <2>1. Direct(u, k) = t
    BY <1>4 DEF Direct
  <2>2. /\ t.ip = u.ip /\ t.dip = u.dip /\ t.map = u.map /\ t.data = u.data /\ t.log = u.log
        /\ t.full = u.full /\ t.addr = u.ip.addrs[k] /\ t.addr \in 0 .. NBlocks /\ t \in Copies
    BY <1>1, <1>2 DEF Copies
  <2> HIDE DEF t
  <2>3. CopyTable(i, t) = T
    BY <2>2 DEF CopyTable
  <2>4. t \in CopiesOK(i)
    BY <1>1, <2>2, <2>3 DEF CopiesOK
  <2>5. T = [T EXCEPT ![i][slot] = t.addr]
    BY <1>1, <1>3, <2>2
  <2>6. t.addr \in Blocks
    BY <1>4, <2>2, Sizes DEF Blocks
  <2>7. t.ip.addrs = [u.ip.addrs EXCEPT ![k] = t.addr]
    BY <1>2, <2>2
  <2>8. Fetched(i, u, t, slot)
    BY <2>2, <2>3, <2>4, <2>5, <2>6 DEF Fetched
  <2>9. Found(i, u, t, slot)
    BY <1>3, <1>4, <2>2 DEF Found
  <2> QED
    BY <2>1, <2>7, <2>8, <2>9
<1>5. CASE u.ip.addrs[k] = 0
  <2> DEFINE s == balloc(u)
             b == s.addr
             t == [s EXCEPT !.ip.addrs[k] = s.addr]
  <2>1. ~s.full
    BY <1>5 DEF Direct
  <2>2. Direct(u, k) = t
    BY <1>5, <2>1 DEF Direct
  <2>3. /\ s \in Copies
        /\ s.ip = u.ip /\ s.dip = u.dip /\ s.full = u.full
        /\ s.addr \in Blocks /\ s.addr \notin u.map /\ s.map = u.map \cup {s.addr}
        /\ s.data = [u.data EXCEPT ![s.addr] = Zeroed]
        /\ s.log = u.log \cup {Bitmap(s.addr), <<"data", s.addr>>}
    BY <1>1, <2>1, BallocIs
  <2>4. /\ t.ip = [u.ip EXCEPT !.addrs[k] = b] /\ t.dip = u.dip /\ t.map = u.map \cup {b}
        /\ t.data = s.data /\ t.log = s.log /\ t.full = u.full /\ t.addr = b
        /\ t = [ip |-> t.ip, dip |-> t.dip, map |-> t.map, data |-> t.data, log |-> t.log,
                full |-> t.full, addr |-> t.addr]
    BY <2>3 DEF Copies
  <2> HIDE DEF s, t
  <2>5. /\ t.ip.addrs = [u.ip.addrs EXCEPT ![k] = b] /\ t.ip.size = u.ip.size /\ t.ip.nlink = u.ip.nlink
        /\ t.ip \in InodeType
    <3>1. b \in 0 .. NBlocks
      BY <2>3, Sizes DEF Blocks
    <3> QED
      BY ZenonT(30), <1>2, <2>4, <3>1 DEF InodeType
  <2>6. t \in Copies
    BY <2>3, <2>4, <2>5 DEF Copies
  <2>7. \A j \in Inodes : \A l \in Slots : CopyTable(i, t)[j][l] = IF j = i /\ l = slot THEN b ELSE T[j][l]
    <3> SUFFICES ASSUME NEW j \in Inodes, NEW l \in Slots
                 PROVE  CopyTable(i, t)[j][l] = IF j = i /\ l = slot THEN b ELSE T[j][l]
      OBVIOUS
    <3>1. MAXFILE \in Slots
      BY Sizes DEF Slots
    <3>2. \A h \in Inodes : T[h][MAXFILE] # b
      BY <1>1, <2>3, <3>1 DEF TableFits
    <3>3. CASE j # i
      <4>1. T[j][l] = At(inode[j], u.data, l) /\ CopyTable(i, t)[j][l] = At(inode[j], t.data, l)
        BY <3>3, CopyTableAt
      <4>2. T[j][MAXFILE] = inode[j].addrs[NDIRECT]
        BY <3>1, <3>3, CopyTableAt, Sizes DEF At
      <4>3. inode[j].addrs[NDIRECT] \in 0 .. NBlocks
        BY Sizes DEF InodeType
      <4>4. inode[j].addrs[NDIRECT] # 0 => t.data[inode[j].addrs[NDIRECT]] = u.data[inode[j].addrs[NDIRECT]]
        BY <1>2, <2>3, <2>4, <3>2, <4>2, <4>3 DEF DataType, Blocks
      <4> QED
        BY <3>3, <4>1, <4>4 DEF At
    <3>4. CASE j = i
      <4>1. T[j][l] = At(u.ip, u.data, l) /\ CopyTable(i, t)[j][l] = At(t.ip, t.data, l)
        BY <3>4, CopyTableAt
      <4>2. T[i][MAXFILE] = u.ip.addrs[NDIRECT]
        BY <3>1, CopyTableAt, Sizes DEF At
      <4>3. u.ip.addrs[NDIRECT] \in 0 .. NBlocks /\ u.ip.addrs[NDIRECT] # b
        BY <1>2, <3>2, <4>2, Sizes
      <4>4. u.ip.addrs[NDIRECT] # 0 => t.data[u.ip.addrs[NDIRECT]] = u.data[u.ip.addrs[NDIRECT]]
        BY <1>2, <2>3, <2>4, <4>3 DEF DataType, Blocks
      <4>5. t.data[b] = Zeroed
        BY <1>2, <2>3, <2>4 DEF DataType
      <4>6. l >= NDIRECT /\ l # MAXFILE => Zeroed[l - NDIRECT] = 0
        BY Sizes DEF Zeroed
      <4>7. b # 0
        BY <2>3, Sizes DEF Blocks
      <4>8. \A n \in 0 .. NDIRECT : t.ip.addrs[n] = IF n = k THEN b ELSE u.ip.addrs[n]
        BY <1>2, <2>5
      <4>9. CASE l < NDIRECT
        <5>1. l \in 0 .. NDIRECT /\ At(u.ip, u.data, l) = u.ip.addrs[l] /\ At(t.ip, t.data, l) = t.ip.addrs[l]
          BY <4>9, Sizes DEF At, Slots
        <5> QED
          BY <1>3, <3>4, <4>1, <4>8, <4>9, <5>1, Sizes
      <4>10. CASE l = MAXFILE
        <5>1. At(u.ip, u.data, l) = u.ip.addrs[NDIRECT] /\ At(t.ip, t.data, l) = t.ip.addrs[NDIRECT]
          BY <4>10, Sizes DEF At
        <5>2. NDIRECT \in 0 .. NDIRECT
          BY Sizes
        <5> QED
          BY <1>3, <3>4, <4>1, <4>8, <4>10, <5>1, <5>2, Sizes
      <4>11. CASE l >= NDIRECT /\ l # MAXFILE
        <5>1. /\ At(u.ip, u.data, l) = IF u.ip.addrs[NDIRECT] = 0 THEN 0 ELSE u.data[u.ip.addrs[NDIRECT]][l - NDIRECT]
              /\ At(t.ip, t.data, l) = IF t.ip.addrs[NDIRECT] = 0 THEN 0 ELSE t.data[t.ip.addrs[NDIRECT]][l - NDIRECT]
          BY <4>11, Sizes DEF At, Slots
        <5>2. slot # l
          <6> HIDE DEF slot
          <6> QED
            BY <1>3, <4>11, Sizes DEF Slots
        <5>3. NDIRECT \in 0 .. NDIRECT
          BY Sizes
        <5>4. CASE k = NDIRECT
          BY <1>5, <3>4, <4>1, <4>5, <4>6, <4>7, <4>8, <4>11, <5>1, <5>2, <5>3, <5>4
        <5>5. CASE k # NDIRECT
          BY <3>4, <4>1, <4>4, <4>8, <4>11, <5>1, <5>2, <5>3, <5>5
        <5> QED
          BY <5>4, <5>5
      <4> QED
        BY <4>9, <4>10, <4>11, Sizes DEF Slots
    <3> QED
      BY <3>3, <3>4
  <2>8. CopyTable(i, t) = [T EXCEPT ![i][slot] = b]
    <3> DEFINE U == [T EXCEPT ![i][slot] = b]
    <3>1. U \in [Inodes -> [Slots -> 0 .. NBlocks]]
      BY <1>1, <1>3, <2>3, Sizes DEF Blocks
    <3>2. \A j \in Inodes : \A l \in Slots : U[j][l] = IF j = i /\ l = slot THEN b ELSE T[j][l]
      BY <1>1, <1>3
    <3>3. CopyTable(i, t) \in [Inodes -> [Slots -> 0 .. NBlocks]]
      <4>1. CopyTable(i, t) = [j \in Inodes |-> [l \in Slots |-> CopyTable(i, t)[j][l]]]
        BY DEF CopyTable, Table
      <4>2. \A j \in Inodes : \A l \in Slots : CopyTable(i, t)[j][l] \in 0 .. NBlocks
        BY <1>1, <2>3, <2>7, Sizes DEF Blocks
      <4> QED
        BY <4>1, <4>2
    <3> HIDE DEF U
    <3> QED
      BY <2>7, <3>1, <3>2, <3>3, SameTable DEF U
  <2>9. TableFits(CopyTable(i, t), t.map)
    <3> HIDE DEF T, slot
    <3>1. TableFits([T EXCEPT ![i][slot] = b], u.map \cup {b})
      BY <1>1, <1>3, <1>5, <2>3, SlotFilled
    <3> QED
      BY <2>4, <2>8, <3>1
  <2>10. t \in CopiesOK(i)
    <3>1. IsFiniteSet(t.log)
      <4>1. PICK L, x, y : L = u.log /\ x = Bitmap(b) /\ y = <<"data", b>>
        OBVIOUS
      <4>2. IsFiniteSet((L \cup {x}) \cup {y})
        BY <1>1, <4>1, AddTwo
      <4>3. t.log = (L \cup {x}) \cup {y}
        BY <2>3, <2>4, <4>1
      <4> QED
        BY <4>2, <4>3
    <3> QED
      BY <2>6, <2>9, <3>1 DEF CopiesOK
  <2>11. Fetched(i, u, t, slot)
    BY <2>3, <2>4, <2>5, <2>8, <2>10 DEF Fetched
  <2>12. Allocated(i, u, t, slot)
    BY <1>3, <1>5, <2>3, <2>4 DEF Allocated
  <2> QED
    BY <2>2, <2>3, <2>4, <2>5, <2>11, <2>12
<1> QED
  BY <1>4, <1>5

\* The block is new, and the indirect block that has its number is logged too.
Listed(i, u, t, slot, ind) ==
  /\ CopyTable(i, u)[i][slot] = 0 /\ t.addr \notin u.map
  /\ t.log = u.log \cup {Bitmap(t.addr), <<"data", t.addr>>, <<"data", ind>>}
  /\ \A c \in Blocks : c # t.addr /\ c # ind => t.data[c] = u.data[c]

\* A slot of the indirect block.
LEMMA IndirectFetches ==
  ASSUME inode \in [Inodes -> InodeType], NEW i \in Inodes, NEW u \in CopiesOK(i), u.full = FALSE,
         NEW ind, ind = u.ip.addrs[NDIRECT], ind # 0, NEW k \in 0 .. NINDIRECT - 1,
         ~Indirect(u, ind, k).full
  PROVE  /\ Fetched(i, u, Indirect(u, ind, k), NDIRECT + k)
         /\ Indirect(u, ind, k).ip = u.ip
         /\ \/ Found(i, u, Indirect(u, ind, k), NDIRECT + k)
            \/ Listed(i, u, Indirect(u, ind, k), NDIRECT + k, ind)
<1> DEFINE T == CopyTable(i, u)
<1>1. /\ u \in Copies /\ TableFits(T, u.map) /\ IsFiniteSet(u.log)
      /\ T \in [Inodes -> [Slots -> 0 .. NBlocks]]
  BY DEF CopiesOK, TableFits
<1>2. u.ip \in InodeType /\ u.ip.addrs \in [0 .. NDIRECT -> 0 .. NBlocks] /\ u.data \in DataType
  BY <1>1 DEF Copies, InodeType
<1>3. PICK slot \in Slots : slot = NDIRECT + k /\ slot >= NDIRECT /\ slot # MAXFILE /\ slot - NDIRECT = k
  BY Sizes DEF Slots
<1>4. k \in Cells /\ ind \in Blocks /\ MAXFILE \in Slots
  BY <1>2, Sizes DEF Blocks, Slots
<1>5. T[i][slot] = u.data[ind][k] /\ T[i][MAXFILE] = ind
  BY <1>3, <1>4, CopyTableAt, Sizes DEF At, Slots
<1>6. CASE u.data[ind][k] # 0
  <2> DEFINE t == [u EXCEPT !.addr = u.data[ind][k]]
  <2>1. Indirect(u, ind, k) = t
    BY <1>6 DEF Indirect
  <2>2. u.data[ind][k] \in 0 .. NBlocks
    BY <1>1, <1>5
  <2>3. /\ t.ip = u.ip /\ t.dip = u.dip /\ t.map = u.map /\ t.data = u.data /\ t.log = u.log
        /\ t.full = u.full /\ t.addr = u.data[ind][k] /\ t.addr \in 0 .. NBlocks /\ t \in Copies
    BY <1>1, <1>2, <2>2 DEF Copies
  <2> HIDE DEF t
  <2>4. CopyTable(i, t) = T
    BY <2>3 DEF CopyTable
  <2>5. t \in CopiesOK(i)
    BY <1>1, <2>3, <2>4 DEF CopiesOK
  <2>6. T = [T EXCEPT ![i][slot] = t.addr]
    BY <1>1, <1>3, <1>5, <2>3
  <2>7. t.addr \in Blocks
    BY <1>6, <2>3, Sizes DEF Blocks
  <2>8. Fetched(i, u, t, slot)
    BY <2>3, <2>4, <2>5, <2>6, <2>7 DEF Fetched
  <2>9. Found(i, u, t, slot)
    BY <1>5, <1>6, <2>3 DEF Found
  <2> QED
    BY <1>3, <2>1, <2>3, <2>8, <2>9
<1>7. CASE u.data[ind][k] = 0
  <2> DEFINE s == balloc(u)
             b == s.addr
             t == [s EXCEPT !.data[ind][k] = s.addr, !.log = @ \cup {<<"data", ind>>}]
  <2>1. ~s.full
    BY <1>7 DEF Indirect
  <2>2. Indirect(u, ind, k) = t
    BY <1>7, <2>1 DEF Indirect
  <2>3. /\ s \in Copies
        /\ s.ip = u.ip /\ s.dip = u.dip /\ s.full = u.full
        /\ s.addr \in Blocks /\ s.addr \notin u.map /\ s.map = u.map \cup {s.addr}
        /\ s.data = [u.data EXCEPT ![s.addr] = Zeroed]
        /\ s.log = u.log \cup {Bitmap(s.addr), <<"data", s.addr>>}
    BY <1>1, <2>1, BallocIs
  <2> HIDE DEF s
  <2>4. /\ t.ip = u.ip /\ t.dip = u.dip /\ t.map = u.map \cup {b}
        /\ t.data = [s.data EXCEPT ![ind][k] = b]
        /\ t.log = s.log \cup {<<"data", ind>>} /\ t.full = u.full /\ t.addr = b
        /\ t = [ip |-> t.ip, dip |-> t.dip, map |-> t.map, data |-> t.data, log |-> t.log,
                full |-> t.full, addr |-> t.addr]
    <3>1. s = [ip |-> s.ip, dip |-> s.dip, map |-> s.map, data |-> s.data, log |-> s.log,
               full |-> s.full, addr |-> s.addr]
      BY <2>3 DEF Copies
    <3> DEFINE Y == [s.data EXCEPT ![ind][k] = s.addr]
               Z == s.log \cup {<<"data", ind>>}
               t1 == [s EXCEPT !.data = Y]
    <3>2. t = [t1 EXCEPT !.log = Z]
      OBVIOUS
    <3> HIDE DEF Y, Z, t
    <3>3. t1 = [ip |-> s.ip, dip |-> s.dip, map |-> s.map, data |-> Y, log |-> s.log,
                full |-> s.full, addr |-> s.addr]
      BY <3>1
    <3> HIDE DEF t1
    <3>4. t = [ip |-> s.ip, dip |-> s.dip, map |-> s.map, data |-> Y, log |-> Z,
               full |-> s.full, addr |-> s.addr]
      BY <3>2, <3>3
    <3> QED
      BY <2>3, <3>4 DEF Y, Z
  <2> HIDE DEF t
  <2>5. T[i][MAXFILE] # b /\ b # ind /\ \A h \in Inodes : T[h][MAXFILE] # b
    BY <1>1, <1>4, <1>5, <2>3 DEF TableFits
  <2>6. s.data \in [Blocks -> [Cells -> Nat]] /\ s.data[ind] = u.data[ind] /\ b \in Nat
    <3>1. s.data \in DataType
      BY <2>3 DEF Copies
    <3>2. b \in Nat
      BY <2>3, Sizes DEF Blocks
    <3> QED
      BY <1>2, <1>4, <2>3, <2>5, <3>1, <3>2 DEF DataType
  <2>7. /\ t.data \in DataType
        /\ \A c \in Blocks : c # b /\ c # ind => t.data[c] = u.data[c]
        /\ \A n \in Cells : t.data[ind][n] = IF n = k THEN b ELSE u.data[ind][n]
    <3>1. t.data \in DataType
      BY SMTT(30), <1>4, <2>4, <2>6 DEF DataType
    <3>2. \A c \in Blocks : c # b /\ c # ind => t.data[c] = u.data[c]
      BY SMTT(30), <1>2, <2>3, <2>4, <2>6 DEF DataType
    <3>3. \A n \in Cells : t.data[ind][n] = IF n = k THEN b ELSE u.data[ind][n]
      BY SMTT(30), <1>4, <2>4, <2>6
    <3> QED
      BY <3>1, <3>2, <3>3
  <2>8. t \in Copies
    <3>1. <<"data", ind>> \in LogIds
      BY <1>4 DEF LogIds
    <3> QED
      BY <2>3, <2>4, <2>7, <3>1 DEF Copies
  <2>9. \A j \in Inodes : \A l \in Slots : CopyTable(i, t)[j][l] = IF j = i /\ l = slot THEN b ELSE T[j][l]
    <3> SUFFICES ASSUME NEW j \in Inodes, NEW l \in Slots
                 PROVE  CopyTable(i, t)[j][l] = IF j = i /\ l = slot THEN b ELSE T[j][l]
      OBVIOUS
    <3>1. CASE j # i
      <4>1. T[j][l] = At(inode[j], u.data, l) /\ CopyTable(i, t)[j][l] = At(inode[j], t.data, l)
        BY <3>1, CopyTableAt
      <4>2. T[j][MAXFILE] = inode[j].addrs[NDIRECT]
        BY <1>4, <3>1, CopyTableAt, Sizes DEF At
      <4>3. inode[j].addrs[NDIRECT] \in 0 .. NBlocks
        BY Sizes DEF InodeType
      <4>4. inode[j].addrs[NDIRECT] # ind
        BY <1>1, <1>4, <1>5, <3>1, <4>2 DEF TableFits
      <4>5. inode[j].addrs[NDIRECT] # 0 => t.data[inode[j].addrs[NDIRECT]] = u.data[inode[j].addrs[NDIRECT]]
        BY <2>5, <2>7, <4>2, <4>3, <4>4 DEF Blocks
      <4> QED
        BY <3>1, <4>1, <4>5 DEF At
    <3>2. CASE j = i
      <4>1. T[j][l] = At(u.ip, u.data, l) /\ CopyTable(i, t)[j][l] = At(t.ip, t.data, l)
        BY <3>2, CopyTableAt
      <4>2. CASE l < NDIRECT \/ l = MAXFILE
        <5>1. At(u.ip, u.data, l) = At(t.ip, t.data, l)
          BY <2>4, <4>2, Sizes DEF At
        <5>2. l # slot
          BY <1>3, <4>2, Sizes DEF Slots
        <5> QED
          BY <3>2, <4>1, <5>1, <5>2
      <4>3. CASE l >= NDIRECT /\ l # MAXFILE
        <5>1. At(u.ip, u.data, l) = u.data[ind][l - NDIRECT] /\ At(t.ip, t.data, l) = t.data[ind][l - NDIRECT]
          BY SMTT(30), <2>4, <4>3, Sizes DEF At, Slots
        <5>2. l - NDIRECT \in Cells /\ (l - NDIRECT = k <=> l = slot)
          BY <1>3, <4>3, Sizes DEF Slots
        <5> QED
          BY <2>7, <3>2, <4>1, <5>1, <5>2
      <4> QED
        BY <4>2, <4>3, Sizes DEF Slots
    <3> QED
      BY <3>1, <3>2
  <2>10. CopyTable(i, t) = [T EXCEPT ![i][slot] = b]
    <3> DEFINE U == [T EXCEPT ![i][slot] = b]
    <3>1. U \in [Inodes -> [Slots -> 0 .. NBlocks]]
      BY <1>1, <1>3, <2>3, Sizes DEF Blocks
    <3>2. \A j \in Inodes : \A l \in Slots : U[j][l] = IF j = i /\ l = slot THEN b ELSE T[j][l]
      BY <1>1, <1>3
    <3>3. CopyTable(i, t) \in [Inodes -> [Slots -> 0 .. NBlocks]]
      <4>1. CopyTable(i, t) = [j \in Inodes |-> [l \in Slots |-> CopyTable(i, t)[j][l]]]
        BY DEF CopyTable, Table
      <4>2. \A j \in Inodes : \A l \in Slots : CopyTable(i, t)[j][l] \in 0 .. NBlocks
        BY <1>1, <2>3, <2>9, Sizes DEF Blocks
      <4> QED
        BY <4>1, <4>2
    <3> HIDE DEF U
    <3> QED
      BY <2>9, <3>1, <3>2, <3>3, SameTable DEF U
  <2>11. TableFits(CopyTable(i, t), t.map)
    <3> HIDE DEF T
    <3>1. TableFits([T EXCEPT ![i][slot] = b], u.map \cup {b})
      BY <1>1, <1>5, <1>7, <2>3, SlotFilled
    <3> QED
      BY <2>4, <2>10, <3>1
  <2>12. t.log = u.log \cup {Bitmap(b), <<"data", b>>, <<"data", ind>>}
    BY <2>3, <2>4
  <2>13. t \in CopiesOK(i)
    <3>1. IsFiniteSet(t.log)
      <4>1. PICK L, x, y, z : L = u.log /\ x = Bitmap(b) /\ y = <<"data", b>> /\ z = <<"data", ind>>
        OBVIOUS
      <4>2. IsFiniteSet((L \cup {x}) \cup {y})
        BY <1>1, <4>1, AddTwo
      <4>3. PICK R : R = (L \cup {x}) \cup {y}
        OBVIOUS
      <4>4. IsFiniteSet(R \cup {z})
        BY <4>2, <4>3, FS_AddElement
      <4>5. t.log = R \cup {z}
        BY <2>12, <4>1, <4>3
      <4> QED
        BY <4>4, <4>5
    <3> QED
      BY <2>8, <2>11, <3>1 DEF CopiesOK
  <2>14. Fetched(i, u, t, slot)
    BY <2>3, <2>4, <2>10, <2>13 DEF Fetched
  <2> QED
    <3>1. Listed(i, u, t, slot, ind)
      BY <1>5, <1>7, <2>3, <2>4, <2>7, <2>12 DEF Listed
    <3> QED
      BY <1>3, <2>2, <2>4, <2>14, <3>1
<1> QED
  BY <1>6, <1>7

\* What bmap leaves for the block bn of the file: every block that was in a slot is still
\* there and, but for indirect blocks, as it was; new blocks are in the log.
Mapped(i, u, t, bn) ==
  /\ t \in CopiesOK(i) /\ t.full = FALSE /\ t.addr \in Blocks
  /\ t.dip = u.dip /\ t.ip.size = u.ip.size /\ t.ip.nlink = u.ip.nlink
  /\ CopyTable(i, t)[i][bn] = t.addr
  /\ \A j \in Inodes : \A k \in Slots :
       CopyTable(i, u)[j][k] # 0 => CopyTable(i, t)[j][k] = CopyTable(i, u)[j][k]
  /\ \A j \in Inodes : \A k \in Slots : CopyTable(i, u)[j][k] # 0 /\ k # MAXFILE =>
       t.data[CopyTable(i, u)[j][k]] = u.data[CopyTable(i, u)[j][k]]
  /\ CopyTable(i, u)[i][bn] # 0 => t.ip = u.ip
  /\ t.log \ IndirectLog(t) \subseteq
       (u.log \ IndirectLog(u))
         \cup IF CopyTable(i, u)[i][bn] # 0 THEN {} ELSE {Bitmap(t.addr), <<"data", t.addr>>}

\* A block that is in a slot is marked in the bitmap.
LEMMA InSlotIsMarked ==
  ASSUME NEW T, NEW m, TableFits(T, m), NEW j \in Inodes, NEW k \in Slots, T[j][k] # 0
  PROVE  T[j][k] \in Blocks /\ T[j][k] \in m
<1>1. T[j][k] \in 0 .. NBlocks
  BY DEF TableFits
<1>2. T[j][k] \in Blocks
  BY <1>1, Sizes DEF Blocks
<1> QED
  BY <1>2 DEF TableFits

\* bmap finds the block, or puts a free one into the slot, with the indirect block if it is missing.
LEMMA BmapMaps ==
  ASSUME inode \in [Inodes -> InodeType], NEW i \in Inodes, NEW u \in CopiesOK(i), u.full = FALSE,
         NEW bn \in Slots, bn # MAXFILE, ~bmap(u, bn).full
  PROVE  Mapped(i, u, bmap(u, bn), bn)
<1> DEFINE T == CopyTable(i, u)
<1>1. /\ u \in Copies /\ TableFits(T, u.map) /\ T \in [Inodes -> [Slots -> 0 .. NBlocks]]
  BY DEF CopiesOK, TableFits
<1>2. u.ip.addrs \in [0 .. NDIRECT -> 0 .. NBlocks] /\ u.data \in DataType
  BY <1>1 DEF Copies, InodeType
<1>3. CASE bn < NDIRECT
  <2>1. bn \in 0 .. NDIRECT /\ SlotOf(bn) = bn /\ bmap(u, bn) = Direct(u, bn)
    BY <1>3, Sizes DEF bmap, SlotOf, Slots
  <2>2. PICK t : t = Direct(u, bn)
    OBVIOUS
  <2>3. /\ Fetched(i, u, t, bn) /\ t.ip.addrs = [u.ip.addrs EXCEPT ![bn] = t.addr]
        /\ \/ Found(i, u, t, bn)
           \/ Allocated(i, u, t, bn) /\ t.data = [u.data EXCEPT ![t.addr] = Zeroed]
    <3>1. ~Direct(u, bn).full
      BY <2>1
    <3> HIDE DEF T
    <3>2. /\ Fetched(i, u, Direct(u, bn), SlotOf(bn))
          /\ Direct(u, bn).ip.addrs = [u.ip.addrs EXCEPT ![bn] = Direct(u, bn).addr]
          /\ \/ Found(i, u, Direct(u, bn), SlotOf(bn))
             \/ /\ Allocated(i, u, Direct(u, bn), SlotOf(bn))
                /\ Direct(u, bn).data = [u.data EXCEPT ![Direct(u, bn).addr] = Zeroed]
      BY <2>1, <3>1, DirectFetches
    <3> QED
      BY <2>1, <2>2, <3>2
  <2>4. CopyTable(i, t) = [T EXCEPT ![i][bn] = t.addr]
    BY <2>3 DEF Fetched
  <2>5. \A j \in Inodes : \A k \in Slots :
          CopyTable(i, t)[j][k] = IF j = i /\ k = bn THEN t.addr ELSE T[j][k]
    BY <1>1, <2>4
  <2>6. IndirectLog(t) = IndirectLog(u)
    <3>1. t.ip.addrs[NDIRECT] = u.ip.addrs[NDIRECT]
      BY <1>2, <1>3, <2>1, <2>3, Sizes
    <3> QED
      BY <3>1 DEF IndirectLog
  <2> HIDE DEF T
  <2>7. CASE Found(i, u, t, bn)
    <3>1. T[i][bn] # 0 /\ t.ip = u.ip /\ t.data = u.data /\ t.log = u.log
      BY <2>7 DEF Found, T
    <3>2. CopyTable(i, t) = T
      BY <3>1 DEF CopyTable, T
    <3> QED
      BY <2>1, <2>2, <2>3, <2>5, <2>6, <3>1, <3>2 DEF Mapped, Fetched, T
  <2>8. CASE Allocated(i, u, t, bn) /\ t.data = [u.data EXCEPT ![t.addr] = Zeroed]
    <3>1. T[i][bn] = 0 /\ t.addr \notin u.map /\ t.log \ {Bitmap(t.addr), <<"data", t.addr>>} \subseteq u.log
      BY <2>8 DEF Allocated, T
    <3>2. \A j \in Inodes : \A k \in Slots : T[j][k] # 0 => CopyTable(i, t)[j][k] = T[j][k]
      BY <2>5, <3>1
    <3>3. \A j \in Inodes : \A k \in Slots : T[j][k] # 0 => t.data[T[j][k]] = u.data[T[j][k]]
      BY <1>1, <1>2, <2>8, <3>1, InSlotIsMarked DEF DataType
    <3>4. CopyTable(i, t)[i][bn] = t.addr
      BY <2>5
    <3> QED
      BY <2>1, <2>2, <2>3, <2>6, <3>1, <3>2, <3>3, <3>4 DEF Mapped, Fetched, T
  <2> QED
    BY <2>3, <2>7, <2>8
<1>4. CASE bn >= NDIRECT
  <2>1. PICK n \in 0 .. NINDIRECT - 1 : n = bn - NDIRECT /\ NDIRECT + n = bn
    BY <1>4, Sizes DEF Slots
  <2>2. /\ NDIRECT \in 0 .. NDIRECT /\ SlotOf(NDIRECT) = MAXFILE /\ ~(bn < NDIRECT)
        /\ MAXFILE \in Slots
    BY <1>4, Sizes DEF SlotOf, Slots
  <2>3. PICK s : s = Direct(u, NDIRECT)
    OBVIOUS
  <2>4. ~s.full /\ bmap(u, bn) = Indirect(s, s.addr, bn - NDIRECT)
    BY <2>2, <2>3 DEF bmap
  <2>5. /\ Fetched(i, u, s, MAXFILE) /\ s.ip.addrs = [u.ip.addrs EXCEPT ![NDIRECT] = s.addr]
        /\ \/ Found(i, u, s, MAXFILE)
           \/ Allocated(i, u, s, MAXFILE) /\ s.data = [u.data EXCEPT ![s.addr] = Zeroed]
    BY ZenonT(30), <2>2, <2>3, <2>4, DirectFetches
  <2>6. /\ s \in CopiesOK(i) /\ s.full = FALSE /\ s.addr \in Blocks /\ s.addr # 0
        /\ s.addr = s.ip.addrs[NDIRECT]
    BY <1>2, <2>2, <2>5, Sizes DEF Fetched, Blocks
  <2>7. PICK t : t = Indirect(s, s.addr, n)
    OBVIOUS
  <2>8. bmap(u, bn) = t /\ ~t.full
    BY <2>1, <2>4, <2>7
  <2>9. /\ Fetched(i, s, t, bn) /\ t.ip = s.ip
        /\ Found(i, s, t, bn) \/ Listed(i, s, t, bn, s.addr)
    <3>1. ~Indirect(s, s.addr, n).full
      BY <2>7, <2>8
    <3>2. /\ Fetched(i, s, Indirect(s, s.addr, n), NDIRECT + n)
          /\ Indirect(s, s.addr, n).ip = s.ip
          /\ \/ Found(i, s, Indirect(s, s.addr, n), NDIRECT + n)
             \/ Listed(i, s, Indirect(s, s.addr, n), NDIRECT + n, s.addr)
      BY <2>6, <3>1, IndirectFetches
    <3> QED
      BY <2>1, <2>7, <3>2
  <2> DEFINE S == CopyTable(i, s)
  <2>10. /\ TableFits(S, s.map) /\ S = [T EXCEPT ![i][MAXFILE] = s.addr]
         /\ S \in [Inodes -> [Slots -> 0 .. NBlocks]] /\ CopyTable(i, t) = [S EXCEPT ![i][bn] = t.addr]
    BY <2>5, <2>6, <2>9 DEF Fetched, CopiesOK, TableFits
  <2> HIDE DEF T, S
  <2>11. \A j \in Inodes : \A k \in Slots : S[j][k] = IF j = i /\ k = MAXFILE THEN s.addr ELSE T[j][k]
    BY <1>1, <2>10
  <2>12. \A j \in Inodes : \A k \in Slots :
           CopyTable(i, t)[j][k] = IF j = i /\ k = bn THEN t.addr ELSE S[j][k]
    BY <2>10
  <2>13. T[i][MAXFILE] = u.ip.addrs[NDIRECT] /\ (T[i][MAXFILE] = 0 => T[i][bn] = 0)
    <3>1. T[i][MAXFILE] = At(u.ip, u.data, MAXFILE) /\ T[i][bn] = At(u.ip, u.data, bn)
      BY <2>2, CopyTableAt DEF T
    <3> QED
      BY <1>4, <3>1, <2>2, Sizes DEF At
  <2>14. /\ \A j \in Inodes : \A k \in Slots : T[j][k] # 0 => S[j][k] = T[j][k]
         /\ \A j \in Inodes : \A k \in Slots : T[j][k] # 0 => s.data[T[j][k]] = u.data[T[j][k]]
         /\ T[i][bn] # 0 => s.ip = u.ip
         /\ s.log \ IndirectLog(s) \subseteq u.log \ IndirectLog(u)
    <3>1. CASE Found(i, u, s, MAXFILE)
      <4>1. s.ip = u.ip /\ s.data = u.data /\ s.log = u.log
        BY <3>1 DEF Found
      <4>2. S = T /\ IndirectLog(s) = IndirectLog(u)
        BY <4>1 DEF CopyTable, T, S, IndirectLog
      <4> QED
        BY <4>1, <4>2
    <3>2. CASE Allocated(i, u, s, MAXFILE) /\ s.data = [u.data EXCEPT ![s.addr] = Zeroed]
      <4>1. /\ T[i][MAXFILE] = 0 /\ s.addr \notin u.map
            /\ s.log \ {Bitmap(s.addr), <<"data", s.addr>>} \subseteq u.log
        BY <3>2 DEF Allocated, T
      <4>2. IndirectLog(u) = {} /\ IndirectLog(s) = {Bitmap(s.addr), <<"data", s.addr>>}
        BY <2>6, <2>13, <4>1 DEF IndirectLog
      <4>3. \A j \in Inodes : \A k \in Slots : T[j][k] # 0 => s.data[T[j][k]] = u.data[T[j][k]]
        BY <1>1, <1>2, <3>2, <4>1, InSlotIsMarked DEF DataType
      <4>4. s.log \ IndirectLog(s) \subseteq u.log \ IndirectLog(u)
        BY <4>1, <4>2
      <4> QED
        BY <2>11, <2>13, <4>1, <4>3, <4>4
    <3> QED
      BY <2>5, <3>1, <3>2
  <2>15. IndirectLog(t) = IndirectLog(s) /\ <<"data", s.addr>> \in IndirectLog(s)
    BY <2>6, <2>9 DEF IndirectLog
  <2>16. S[i][bn] = T[i][bn]
    BY <2>11
  <2>17. t.dip = u.dip /\ t.ip.size = u.ip.size /\ t.ip.nlink = u.ip.nlink
    BY <2>5, <2>9 DEF Fetched
  <2>18. CopyTable(i, t)[i][bn] = t.addr
    BY <2>12
  <2>19. CASE Found(i, s, t, bn)
    <3>1. S[i][bn] # 0 /\ t.data = s.data /\ t.log = s.log
      BY <2>19 DEF Found, S
    <3>2. CopyTable(i, t) = S
      BY <2>9, <3>1 DEF CopyTable, S
    <3>3. \A j \in Inodes : \A k \in Slots : T[j][k] # 0 => CopyTable(i, t)[j][k] = T[j][k]
      BY <2>14, <3>2
    <3>4. t.log \ IndirectLog(t) \subseteq u.log \ IndirectLog(u)
      BY <2>14, <2>15, <3>1
    <3>5. \A j \in Inodes : \A k \in Slots : T[j][k] # 0 => t.data[T[j][k]] = u.data[T[j][k]]
      BY <2>14, <3>1
    <3> QED
      BY <2>8, <2>9, <2>14, <2>16, <2>17, <2>18, <3>1, <3>3, <3>4, <3>5 DEF Mapped, Fetched, T
  <2>20. CASE Listed(i, s, t, bn, s.addr)
    <3>1. T[i][bn] = 0
      BY <2>16, <2>20 DEF S, Listed
    <3>2. \A j \in Inodes : \A k \in Slots : T[j][k] # 0 => CopyTable(i, t)[j][k] = T[j][k]
      BY <2>12, <2>14, <3>1
    <3>3. ASSUME NEW j \in Inodes, NEW k \in Slots, T[j][k] # 0, k # MAXFILE
          PROVE  t.data[T[j][k]] = u.data[T[j][k]]
      <4>1. S[j][k] = T[j][k] /\ S[i][MAXFILE] = s.addr
        BY <2>2, <2>11, <2>14, <3>3
      <4>2. S[j][k] \in Blocks /\ S[j][k] \in s.map
        BY <2>10, <3>3, <4>1, InSlotIsMarked
      <4>3. S[j][k] # s.addr
        BY <2>2, <2>10, <3>3, <4>1 DEF TableFits
      <4> QED
        BY <2>14, <2>20, <3>3, <4>1, <4>2, <4>3 DEF Listed
    <3>4. t.log \ IndirectLog(t) \subseteq (u.log \ IndirectLog(u)) \cup {Bitmap(t.addr), <<"data", t.addr>>}
      BY <2>14, <2>15, <2>20 DEF Listed
    <3> QED
      BY <2>8, <2>9, <2>17, <2>18, <3>1, <3>2, <3>3, <3>4 DEF Mapped, Fetched, T
  <2> QED
    BY <2>9, <2>19, <2>20
<1> QED
  BY <1>3, <1>4, Sizes DEF Slots

\* What a turn of the loop of writei leaves, where balloc finds the blocks it needs.
Written(i, u, w, bn, off, end, v) ==
  /\ w \in CopiesOK(i) /\ w.full = FALSE
  /\ w.dip = u.dip /\ w.ip.size = u.ip.size /\ w.ip.nlink = u.ip.nlink
  /\ CopyTable(i, w)[i][bn] # 0
  /\ \A j \in Inodes : \A k \in Slots :
       CopyTable(i, u)[j][k] # 0 => CopyTable(i, w)[j][k] = CopyTable(i, u)[j][k]
  /\ \A j \in Inodes : \A k \in Slots :
       CopyTable(i, u)[j][k] # 0 /\ k # MAXFILE /\ (j # i \/ k # bn) =>
         w.data[CopyTable(i, u)[j][k]] = u.data[CopyTable(i, u)[j][k]]
  /\ \A x \in 0 .. BSIZE - 1 :
       /\ bn * BSIZE + x \in off .. end - 1 => w.data[CopyTable(i, w)[i][bn]][x] = v
       /\ bn * BSIZE + x \notin off .. end - 1 /\ CopyTable(i, u)[i][bn] # 0 =>
            w.data[CopyTable(i, w)[i][bn]][x] = u.data[CopyTable(i, u)[i][bn]][x]
  /\ CopyTable(i, u)[i][bn] # 0 => w.ip = u.ip
  /\ Cardinality(w.log \ IndirectLog(w)) <=
       Cardinality(u.log \ IndirectLog(u)) + IF CopyTable(i, u)[i][bn] # 0 THEN 1 ELSE 2

\* balloc has panicked.
OutOfBlocks(i, u, w) ==
  /\ w \in CopiesOK(i) /\ w.full = TRUE
  /\ w.ip = u.ip /\ w.dip = u.dip /\ w.log = u.log

\* A set that is larger by at most one or two elements.
LEMMA FewMore ==
  ASSUME NEW S, NEW R, IsFiniteSet(S), NEW x, NEW y, R \subseteq (S \cup {x}) \cup {y}
  PROVE  /\ IsFiniteSet(R) /\ Cardinality(R) \in Nat /\ Cardinality(S) \in Nat
         /\ Cardinality(R) <= Cardinality(S) + 2
         /\ x = y => Cardinality(R) <= Cardinality(S) + 1
<1>1. Cardinality(S) \in Nat
  BY FS_CardinalityType
<1>2. PICK U : U = (S \cup {x}) \cup {y}
  OBVIOUS
<1>3. IsFiniteSet(U) /\ Cardinality(U) <= Cardinality(S) + 2
  BY <1>2, AddTwo
<1>4. R \subseteq U
  BY <1>2
<1>5. IsFiniteSet(R) /\ Cardinality(R) <= Cardinality(U)
  BY <1>3, <1>4, FS_Subset
<1>6. Cardinality(R) \in Nat /\ Cardinality(U) \in Nat
  BY <1>3, <1>5, FS_CardinalityType
<1>7. ASSUME x = y PROVE Cardinality(R) <= Cardinality(S) + 1
  <2>1. U = S \cup {x}
    BY <1>2, <1>7
  <2>2. Cardinality(S \cup {x}) = IF x \in S THEN Cardinality(S) ELSE Cardinality(S) + 1
    BY FS_AddElement
  <2>3. Cardinality(U) <= Cardinality(S) + 1
    BY <1>1, <2>1, <2>2
  <2> QED
    BY <1>1, <1>5, <1>6, <2>3
<1> QED
  BY <1>1, <1>3, <1>5, <1>6, <1>7

\* Writing to a block of a file changes no table.
LEMMA DataKeepsTable ==
  ASSUME inode \in [Inodes -> InodeType], NEW i \in Inodes, NEW t \in CopiesOK(i), NEW w,
         w.ip = t.ip, NEW bn \in Slots, bn # MAXFILE, CopyTable(i, t)[i][bn] # 0,
         \A c \in Blocks : c # CopyTable(i, t)[i][bn] => w.data[c] = t.data[c]
  PROVE  CopyTable(i, w) = CopyTable(i, t)
<1> DEFINE T == CopyTable(i, t)
<1>1. TableFits(T, t.map) /\ MAXFILE \in Slots /\ t.ip \in InodeType
  BY Sizes DEF CopiesOK, Slots, Copies
<1>2. ASSUME NEW j \in Inodes, NEW k \in Slots, NEW ip \in InodeType,
             ip = IF j = i THEN t.ip ELSE inode[j]
      PROVE  At(ip, w.data, k) = At(ip, t.data, k)
  <2>1. T[j][MAXFILE] = ip.addrs[NDIRECT]
    BY <1>1, <1>2, CopyTableAt, Sizes DEF At
  <2>2. ip.addrs[NDIRECT] # 0 => ip.addrs[NDIRECT] \in Blocks /\ ip.addrs[NDIRECT] # T[i][bn]
    <3> SUFFICES ASSUME ip.addrs[NDIRECT] # 0
                 PROVE  ip.addrs[NDIRECT] \in Blocks /\ ip.addrs[NDIRECT] # T[i][bn]
      OBVIOUS
    <3> HIDE DEF T
    <3>1. T[j][MAXFILE] \in Blocks
      BY <1>1, <2>1, InSlotIsMarked
    <3>2. T[j][MAXFILE] # T[i][bn]
      BY <1>1, <2>1 DEF TableFits
    <3> QED
      BY <2>1, <3>1, <3>2
  <2> QED
    BY <2>2 DEF At
<1>3. \A j \in Inodes : (IF j = i THEN t.ip ELSE inode[j]) \in InodeType
  BY <1>1
<1>4. \A j \in Inodes : \A k \in Slots :
        At([inode EXCEPT ![i] = t.ip][j], w.data, k) = At([inode EXCEPT ![i] = t.ip][j], t.data, k)
  BY <1>2, <1>3
<1> QED
  BY <1>4 DEF CopyTable, Table

\* One turn of the loop of writei changes the bytes of one block of the file.
LEMMA WriteBlockWrites ==
  ASSUME inode \in [Inodes -> InodeType], NEW i \in Inodes, NEW u \in CopiesOK(i),
         NEW bn \in Slots, bn # MAXFILE, NEW off \in Nat, NEW end \in Nat, NEW v \in Nat
  PROVE  \/ OutOfBlocks(i, u, WriteBlock(u, bn, off, end, v))
         \/ u.full = FALSE /\ Written(i, u, WriteBlock(u, bn, off, end, v), bn, off, end, v)
<1> DEFINE t == bmap(u, bn)
           here == {k \in 0 .. BSIZE - 1 : bn * BSIZE + k \in off .. end - 1}
           w == WriteBlock(u, bn, off, end, v)
<1>1. u \in Copies /\ u.full \in BOOLEAN /\ IsFiniteSet(u.log)
  BY DEF CopiesOK, Copies
<1>2. CASE u.full \/ t.full
  <2>1. w = [u EXCEPT !.full = TRUE]
    BY <1>2 DEF WriteBlock
  <2> HIDE DEF w
  <2>2. /\ w.ip = u.ip /\ w.dip = u.dip /\ w.map = u.map /\ w.data = u.data /\ w.log = u.log
        /\ w.full = TRUE /\ w \in Copies
    BY <1>1, <2>1 DEF Copies
  <2>3. CopyTable(i, w) = CopyTable(i, u)
    BY <2>2 DEF CopyTable
  <2>4. w \in CopiesOK(i)
    BY <2>2, <2>3 DEF CopiesOK
  <2> QED
    BY <2>2, <2>4 DEF OutOfBlocks, w
<1>3. CASE ~u.full /\ ~t.full
  <2>1. u.full = FALSE /\ Mapped(i, u, t, bn)
    BY <1>1, <1>3, BmapMaps
  <2>2. PICK a \in Blocks : a = t.addr
    BY <2>1 DEF Mapped
  <2>3. t \in CopiesOK(i) /\ t \in Copies /\ t.data \in DataType /\ t.full = FALSE /\ IsFiniteSet(t.log)
    BY <2>1 DEF Mapped, CopiesOK, Copies
  <2> HIDE DEF t
  <2> DEFINE Y == [k \in DOMAIN t.data[a] |-> IF k \in here THEN v ELSE t.data[a][k]]
             D == [t.data EXCEPT ![a] = Y]
             L == t.log \cup {<<"data", a>>}
  <2>4. /\ w.ip = t.ip /\ w.dip = t.dip /\ w.map = t.map /\ w.data = D /\ w.log = L
        /\ w.full = FALSE /\ w.addr = t.addr
        /\ w = [ip |-> w.ip, dip |-> w.dip, map |-> w.map, data |-> w.data, log |-> w.log,
                full |-> w.full, addr |-> w.addr]
    <3>1. w = [t EXCEPT !.data[t.addr] = [k \in DOMAIN @ |-> IF k \in here THEN v ELSE @[k]],
                        !.log = @ \cup {<<"data", t.addr>>}]
      BY <1>3 DEF WriteBlock, t
    <3>2. w = [[t EXCEPT !.data = D] EXCEPT !.log = L]
      BY <2>2, <3>1
    <3> HIDE DEF D, L, w
    <3>3. PICK r : r = [t EXCEPT !.data = D]
      OBVIOUS
    <3>4. r = [ip |-> t.ip, dip |-> t.dip, map |-> t.map, data |-> D, log |-> t.log,
               full |-> t.full, addr |-> t.addr]
      BY <2>3, <3>3 DEF Copies
    <3>5. w = [r EXCEPT !.log = L]
      BY <3>2, <3>3
    <3>6. w = [ip |-> t.ip, dip |-> t.dip, map |-> t.map, data |-> D, log |-> L,
               full |-> t.full, addr |-> t.addr]
      BY <3>4, <3>5
    <3> QED
      BY <2>3, <3>6
  <2> HIDE DEF w
  <2>5. /\ Y \in [Cells -> Nat]
        /\ \A x \in 0 .. BSIZE - 1 : Y[x] = IF bn * BSIZE + x \in off .. end - 1 THEN v ELSE t.data[a][x]
    <3>1. t.data[a] \in [Cells -> Nat] /\ DOMAIN t.data[a] = Cells
      BY <2>3 DEF DataType
    <3>2. Y \in [Cells -> Nat]
      BY <3>1
    <3>3. ASSUME NEW x \in 0 .. BSIZE - 1
          PROVE  Y[x] = IF bn * BSIZE + x \in off .. end - 1 THEN v ELSE t.data[a][x]
      <4>1. x \in Cells /\ (x \in here <=> bn * BSIZE + x \in off .. end - 1)
        BY Sizes
      <4> HIDE DEF here
      <4> QED
        BY <3>1, <4>1
    <3> QED
      BY <3>2, <3>3
  <2> HIDE DEF Y
  <2>6. w.data \in DataType /\ w.data[a] = Y /\ \A c \in Blocks : c # a => w.data[c] = t.data[c]
    BY <2>3, <2>4, <2>5 DEF DataType
  <2>7. CopyTable(i, t)[i][bn] = a /\ a # 0
    BY <2>1, <2>2, Sizes DEF Mapped, Blocks
  <2>8. CopyTable(i, w) = CopyTable(i, t)
    <3>1. \A c \in Blocks : c # CopyTable(i, t)[i][bn] => w.data[c] = t.data[c]
      BY <2>6, <2>7
    <3>2. w.ip = t.ip /\ CopyTable(i, t)[i][bn] # 0
      BY <2>4, <2>7
    <3> QED
      BY <2>3, <3>1, <3>2, DataKeepsTable
  <2>9. w \in CopiesOK(i)
    <3>1. IsFiniteSet(w.log)
      <4>1. PICK M, y : M = t.log /\ y = <<"data", a>>
        OBVIOUS
      <4>2. IsFiniteSet(M \cup {y})
        BY <2>3, <4>1, FS_AddElement
      <4> QED
        BY <2>4, <4>1, <4>2
    <3>2. w \in Copies
      <4>1. <<"data", a>> \in LogIds
        BY DEF LogIds
      <4> QED
        BY <2>3, <2>4, <2>6, <4>1 DEF Copies
    <3> QED
      BY <2>3, <2>4, <2>8, <3>1, <3>2 DEF CopiesOK
  <2> DEFINE T == CopyTable(i, u)
  <2>10. \A j \in Inodes : \A k \in Slots : T[j][k] # 0 => CopyTable(i, w)[j][k] = T[j][k]
    BY <2>1, <2>8 DEF Mapped
  <2>11. ASSUME NEW j \in Inodes, NEW k \in Slots, T[j][k] # 0, k # MAXFILE, j # i \/ k # bn
         PROVE  w.data[T[j][k]] = u.data[T[j][k]]
    <3>1. CopyTable(i, t)[j][k] = T[j][k] /\ t.data[T[j][k]] = u.data[T[j][k]]
      BY <2>1, <2>11 DEF Mapped
    <3>2. TableFits(CopyTable(i, t), t.map)
      BY <2>3 DEF CopiesOK
    <3>3. T[j][k] \in Blocks /\ T[j][k] # a
      <4>1. PICK U, m : U = CopyTable(i, t) /\ m = t.map
        OBVIOUS
      <4>2. TableFits(U, m) /\ U[j][k] # 0 /\ U[j][k] = T[j][k] /\ U[i][bn] = a
        BY <2>7, <2>11, <3>1, <3>2, <4>1
      <4> HIDE DEF T
      <4>3. U[j][k] \in Blocks
        BY <4>2, InSlotIsMarked
      <4>4. U[j][k] # a
        BY <2>11, <4>2 DEF TableFits
      <4> QED
        BY <4>2, <4>3, <4>4
    <3> QED
      BY <2>6, <3>1, <3>3
  <2>12. ASSUME NEW x \in 0 .. BSIZE - 1
         PROVE  /\ bn * BSIZE + x \in off .. end - 1 => w.data[CopyTable(i, w)[i][bn]][x] = v
                /\ bn * BSIZE + x \notin off .. end - 1 /\ T[i][bn] # 0 =>
                     w.data[CopyTable(i, w)[i][bn]][x] = u.data[T[i][bn]][x]
    <3>1. T[i][bn] # 0 => a = T[i][bn] /\ t.data[a] = u.data[a]
      BY <2>1, <2>7 DEF Mapped
    <3> QED
      BY <2>5, <2>6, <2>7, <2>8, <3>1
  <2>13. T[i][bn] # 0 => w.ip = u.ip
    BY <2>1, <2>4 DEF Mapped
  <2>14. Cardinality(w.log \ IndirectLog(w)) <=
           Cardinality(u.log \ IndirectLog(u)) + IF T[i][bn] # 0 THEN 1 ELSE 2
    <3>1. IndirectLog(w) = IndirectLog(t)
      BY <2>4 DEF IndirectLog
    <3>2. PICK S, R, x, y : /\ S = u.log \ IndirectLog(u) /\ R = w.log \ IndirectLog(w)
                            /\ x = <<"data", a>> /\ y = IF T[i][bn] # 0 THEN x ELSE Bitmap(a)
      OBVIOUS
    <3>3. IsFiniteSet(S)
      BY <1>1, <3>2, FS_Subset
    <3>4. t.log \ IndirectLog(t) \subseteq S \cup IF T[i][bn] # 0 THEN {} ELSE {Bitmap(a), <<"data", a>>}
      BY <2>1, <2>2, <3>2 DEF Mapped
    <3>5. R \subseteq (S \cup {x}) \cup {y}
      BY <2>4, <3>1, <3>2, <3>4
    <3>6. /\ Cardinality(R) <= Cardinality(S) + 2
          /\ x = y => Cardinality(R) <= Cardinality(S) + 1
      BY <3>3, <3>5, FewMore
    <3> QED
      BY <3>2, <3>6
  <2>15. w.dip = u.dip /\ w.ip.size = u.ip.size /\ w.ip.nlink = u.ip.nlink /\ CopyTable(i, w)[i][bn] # 0
    BY <2>1, <2>4, <2>7, <2>8 DEF Mapped
  <2>16. Written(i, u, w, bn, off, end, v)
    BY <2>4, <2>9, <2>10, <2>11, <2>12, <2>13, <2>14, <2>15 DEF Written
  <2> QED
    BY <2>1, <2>16 DEF w
<1> QED
  BY <1>2, <1>3

-----------------------------------------------------------------------------
(* The loop of writei *)

\* A byte that the first h turns of the loop have written.
Done(at, off, end, h) == at \in off .. end - 1 /\ at \div BSIZE < off \div BSIZE + h

\* The bytes of the file c are in the blocks of the inode.
Holding(i, s, c) ==
  \A at \in 0 .. s.ip.size - 1 :
    /\ CopyTable(i, s)[i][at \div BSIZE] # 0
    /\ s.data[CopyTable(i, s)[i][at \div BSIZE]][at % BSIZE] = c[at + 1]

\* What h turns may log, but for the indirect block: a block and its bit, and no bit for a
\* first block that is not written from its start.
Allowance(off, h) == IF h = 0 THEN 0 ELSE 2 * h - (IF off % BSIZE = 0 THEN 0 ELSE 1)

Progress(i, s, u, off, end, v, c, h) ==
  /\ u \in CopiesOK(i)
  /\ u.dip = s.dip /\ u.ip.size = s.ip.size /\ u.ip.nlink = s.ip.nlink
  /\ Cardinality(u.log \ IndirectLog(u)) <= Allowance(off, h)
  /\ u.full = FALSE =>
       /\ \A j \in Inodes : \A k \in Slots :
            CopyTable(i, s)[j][k] # 0 => CopyTable(i, u)[j][k] = CopyTable(i, s)[j][k]
       /\ \A j \in Inodes \ {i} : \A k \in Slots : CopyTable(i, s)[j][k] # 0 /\ k # MAXFILE =>
            u.data[CopyTable(i, s)[j][k]] = s.data[CopyTable(i, s)[j][k]]
       /\ end <= s.ip.size => u.ip = s.ip
       /\ \A at \in 0 .. MAXFILE * BSIZE - 1 : at < s.ip.size \/ Done(at, off, end, h) =>
            /\ CopyTable(i, u)[i][at \div BSIZE] # 0
            /\ u.data[CopyTable(i, u)[i][at \div BSIZE]][at % BSIZE]
                 = IF Done(at, off, end, h) THEN v ELSE c[at + 1]

\* A write that the tests of writei let pass, on an inode that holds the file c.
Writable(i, s, off, n, v, c) ==
  /\ inode \in [Inodes -> InodeType] /\ s \in CopiesOK(i) /\ s.full = FALSE /\ s.log = {}
  /\ off \in Nat /\ n \in Nat \ {0} /\ v \in Nat
  /\ off <= s.ip.size /\ s.ip.size <= MAXFILE * BSIZE /\ off + n <= MAXFILE * BSIZE
  /\ Holding(i, s, c)

\* The numbers of a write that passes the tests of writei: its blocks have slots.
LEMMA WritableType ==
  ASSUME NEW i \in Inodes, NEW s, NEW off, NEW n, NEW v, NEW c, Writable(i, s, off, n, v, c)
  PROVE  /\ s.ip.size \in Nat /\ off + n \in Nat \ {0} /\ off + n - 1 \in Nat
         /\ off \div BSIZE \in Nat /\ (off + n - 1) \div BSIZE \in Nat
         /\ off \div BSIZE <= (off + n - 1) \div BSIZE
         /\ \A k \in 0 .. (off + n - 1) \div BSIZE : k \in Slots /\ k # MAXFILE
         /\ \A at \in 0 .. MAXFILE * BSIZE - 1 :
              /\ at \div BSIZE \in Slots /\ at \div BSIZE # MAXFILE /\ at % BSIZE \in 0 .. BSIZE - 1
              /\ (at \div BSIZE) * BSIZE + (at % BSIZE) = at
<1>1. off \in Nat /\ n \in Nat \ {0} /\ off + n <= MAXFILE * BSIZE /\ s.ip.size \in Nat
  BY DEF Writable, CopiesOK, Copies, InodeType
<1>2. MAXFILE * BSIZE \in Nat
  BY Sizes
<1>3. off + n \in Nat \ {0} /\ off + n - 1 \in Nat /\ off <= off + n - 1 /\ off + n - 1 < MAXFILE * BSIZE
  BY <1>1, <1>2
<1>4. off \div BSIZE \in Nat /\ (off + n - 1) \div BSIZE \in Nat
  BY <1>1, <1>3, Sizes, DivMod
<1>5. off \div BSIZE <= (off + n - 1) \div BSIZE /\ (off + n - 1) \div BSIZE < MAXFILE
  BY <1>1, <1>3, Sizes, DivMonotone, DivBelow
<1>6. \A k \in 0 .. (off + n - 1) \div BSIZE : k \in Slots /\ k # MAXFILE
  <2>1. PICK q \in Nat : q = (off + n - 1) \div BSIZE
    BY <1>4
  <2> QED
    BY <1>5, <2>1, Sizes DEF Slots
<1>7. ASSUME NEW at \in 0 .. MAXFILE * BSIZE - 1
      PROVE  /\ at \div BSIZE \in Slots /\ at \div BSIZE # MAXFILE /\ at % BSIZE \in 0 .. BSIZE - 1
             /\ (at \div BSIZE) * BSIZE + (at % BSIZE) = at
  <2>1. at \in Nat /\ at < MAXFILE * BSIZE
    BY <1>2
  <2>2. at \div BSIZE \in Nat /\ at \div BSIZE < MAXFILE
    BY <2>1, Sizes, DivBelow, DivMod
  <2>3. at % BSIZE \in 0 .. BSIZE - 1 /\ (at \div BSIZE) * BSIZE + (at % BSIZE) = at
    BY <2>1, Sizes, DivMod
  <2>4. PICK q \in Nat : q = at \div BSIZE
    BY <2>2
  <2> QED
    BY <2>2, <2>3, <2>4, Sizes DEF Slots
<1> QED
  BY <1>1, <1>3, <1>4, <1>5, <1>6, <1>7

\* Before the first turn nothing is written.
LEMMA ProgressStart ==
  ASSUME NEW i \in Inodes, NEW s, NEW off, NEW n, NEW v, NEW c, Writable(i, s, off, n, v, c)
  PROVE  Progress(i, s, s, off, off + n, v, c, 0)
<1>1. /\ s \in CopiesOK(i) /\ s.log = {} /\ s.full = FALSE /\ off \in Nat /\ n \in Nat \ {0}
      /\ Holding(i, s, c) /\ s.ip.size \in Nat
  BY WritableType DEF Writable
<1>2. Cardinality(s.log \ IndirectLog(s)) <= Allowance(off, 0)
  <2>1. s.log \ IndirectLog(s) = {}
    BY <1>1
  <2> QED
    BY <2>1, FS_EmptySet DEF Allowance
<1>3. ASSUME NEW at \in 0 .. MAXFILE * BSIZE - 1
      PROVE  ~Done(at, off, off + n, 0)
  <2> SUFFICES ASSUME at \in off .. off + n - 1 PROVE ~(at \div BSIZE < off \div BSIZE)
    BY <1>1, WritableType DEF Done
  <2>1. at \in Nat /\ off <= at
    BY <1>1
  <2>2. off \div BSIZE <= at \div BSIZE /\ at \div BSIZE \in Nat /\ off \div BSIZE \in Nat
    BY <1>1, <2>1, Sizes, DivMonotone, DivMod
  <2> QED
    BY <2>2
<1>4. ASSUME NEW at \in 0 .. MAXFILE * BSIZE - 1, at < s.ip.size
      PROVE  /\ CopyTable(i, s)[i][at \div BSIZE] # 0
             /\ s.data[CopyTable(i, s)[i][at \div BSIZE]][at % BSIZE] = c[at + 1]
  <2>1. at \in 0 .. s.ip.size - 1
    BY <1>1, <1>4, Sizes
  <2> QED
    BY <1>1, <2>1 DEF Holding
<1> QED
  BY <1>1, <1>2, <1>3, <1>4 DEF Progress

\* A block in front of the end of the file is there.
LEMMA ReachedIsThere ==
  ASSUME NEW i \in Inodes, NEW s, NEW u, NEW off, NEW n, NEW v, NEW c, NEW h,
         Writable(i, s, off, n, v, c), Progress(i, s, u, off, off + n, v, c, h), u.full = FALSE,
         NEW bn \in Nat, s.ip.size # 0, bn <= (s.ip.size - 1) \div BSIZE
  PROVE  CopyTable(i, u)[i][bn] # 0
<1>1. s.ip.size \in Nat \ {0} /\ s.ip.size <= MAXFILE * BSIZE
  BY WritableType DEF Writable
<1>2. bn * BSIZE \in 0 .. s.ip.size - 1 /\ (bn * BSIZE) \div BSIZE = bn
  BY <1>1, Sizes, BlockStart
<1>3. PICK at \in 0 .. s.ip.size - 1 : at \div BSIZE = bn
  BY <1>2
<1>4. at \in 0 .. MAXFILE * BSIZE - 1 /\ at < s.ip.size
  BY <1>1, Sizes
<1> QED
  BY <1>3, <1>4 DEF Progress

\* One more turn of the loop of writei.
LEMMA ProgressStep ==
  ASSUME NEW i \in Inodes, NEW s, NEW u, NEW off, NEW n, NEW v, NEW c, NEW h \in Nat,
         Writable(i, s, off, n, v, c), Progress(i, s, u, off, off + n, v, c, h),
         off \div BSIZE + h <= (off + n - 1) \div BSIZE
  PROVE  Progress(i, s, WriteBlock(u, off \div BSIZE + h, off, off + n, v), off, off + n, v, c, h + 1)
<1>1. PICK w : w = WriteBlock(u, off \div BSIZE + h, off, off + n, v)
  OBVIOUS
<1>2. PICK bn : bn = off \div BSIZE + h
  OBVIOUS
<1>3. PICK end : end = off + n
  OBVIOUS
<1>4. /\ s.ip.size \in Nat /\ off \in Nat /\ end \in Nat \ {0} /\ v \in Nat /\ end - 1 \in Nat
      /\ off <= s.ip.size /\ off \div BSIZE \in Nat /\ off \div BSIZE <= bn /\ bn \in Nat
      /\ bn <= (end - 1) \div BSIZE /\ (end - 1) \div BSIZE \in Nat
      /\ bn \in Slots /\ bn # MAXFILE /\ inode \in [Inodes -> InodeType] /\ u \in CopiesOK(i)
  <2>1. /\ s.ip.size \in Nat /\ off \in Nat /\ v \in Nat /\ off <= s.ip.size
        /\ inode \in [Inodes -> InodeType] /\ u \in CopiesOK(i)
    BY WritableType DEF Writable, Progress
  <2>2. /\ off + n \in Nat \ {0} /\ off + n - 1 \in Nat /\ off \div BSIZE \in Nat
        /\ (off + n - 1) \div BSIZE \in Nat
        /\ \A k \in 0 .. (off + n - 1) \div BSIZE : k \in Slots /\ k # MAXFILE
    BY WritableType
  <2>3. off + n - 1 = end - 1
    BY <1>3, <2>1, <2>2 DEF Writable
  <2>4. bn \in Nat /\ off \div BSIZE <= bn /\ bn <= (off + n - 1) \div BSIZE
    BY <1>2, <2>2
  <2>5. bn \in 0 .. (off + n - 1) \div BSIZE
    BY <2>2, <2>4
  <2>6. bn \in Slots /\ bn # MAXFILE
    BY <2>2, <2>5
  <2> QED
    BY <1>3, <2>1, <2>2, <2>3, <2>4, <2>6
<1>5. Cardinality(u.log \ IndirectLog(u)) \in Nat
  <2>1. PICK R : R = u.log \ IndirectLog(u)
    OBVIOUS
  <2>2. IsFiniteSet(u.log) /\ R \subseteq u.log
    BY <1>4, <2>1 DEF CopiesOK
  <2>3. IsFiniteSet(R)
    BY <2>2, FS_Subset
  <2> QED
    BY <2>1, <2>3, FS_CardinalityType
<1>6. off % BSIZE \in 0 .. BSIZE - 1
  BY <1>4, Sizes, DivMod
<1>7. CASE OutOfBlocks(i, u, w)
  <2>1. /\ w \in CopiesOK(i) /\ w.full = TRUE /\ w.ip = u.ip /\ w.dip = u.dip /\ w.log = u.log
        /\ IndirectLog(w) = IndirectLog(u)
    BY <1>7 DEF OutOfBlocks, IndirectLog
  <2>2. Allowance(off, h) <= Allowance(off, h + 1) /\ Allowance(off, h) \in Nat /\ Allowance(off, h + 1) \in Nat
    BY <1>6 DEF Allowance
  <2>3. Cardinality(w.log \ IndirectLog(w)) <= Allowance(off, h + 1)
    BY <1>5, <2>1, <2>2 DEF Progress
  <2> QED
    BY <1>1, <1>2, <2>1, <2>3 DEF Progress
<1>8. CASE u.full = FALSE /\ Written(i, u, w, bn, off, end, v)
  <2> DEFINE S == CopyTable(i, s)
             T == CopyTable(i, u)
             W == CopyTable(i, w)
  <2>1. /\ w \in CopiesOK(i) /\ w.full = FALSE
        /\ w.dip = u.dip /\ w.ip.size = u.ip.size /\ w.ip.nlink = u.ip.nlink
        /\ W[i][bn] # 0
        /\ T[i][bn] # 0 => w.ip = u.ip
    BY <1>8 DEF Written
  <2>2. \A j \in Inodes : \A k \in Slots : T[j][k] # 0 => W[j][k] = T[j][k]
    BY <1>8 DEF Written
  <2>3. \A j \in Inodes : \A k \in Slots : T[j][k] # 0 /\ k # MAXFILE /\ (j # i \/ k # bn) =>
          w.data[T[j][k]] = u.data[T[j][k]]
    BY <1>8 DEF Written
  <2>4. \A x \in 0 .. BSIZE - 1 :
          /\ bn * BSIZE + x \in off .. end - 1 => w.data[W[i][bn]][x] = v
          /\ bn * BSIZE + x \notin off .. end - 1 /\ T[i][bn] # 0 => w.data[W[i][bn]][x] = u.data[T[i][bn]][x]
    BY <1>8 DEF Written
  <2>5. /\ u.dip = s.dip /\ u.ip.size = s.ip.size /\ u.ip.nlink = s.ip.nlink
        /\ \A j \in Inodes : \A k \in Slots : S[j][k] # 0 => T[j][k] = S[j][k]
        /\ \A j \in Inodes \ {i} : \A k \in Slots : S[j][k] # 0 /\ k # MAXFILE => u.data[S[j][k]] = s.data[S[j][k]]
        /\ end <= s.ip.size => u.ip = s.ip
    BY <1>3, <1>8 DEF Progress
  <2>6. s.ip.size # 0 /\ bn <= (s.ip.size - 1) \div BSIZE => T[i][bn] # 0
    BY <1>4, <1>8, ReachedIsThere
  <2>7. end <= s.ip.size => w.ip = s.ip
    <3> SUFFICES ASSUME end <= s.ip.size PROVE w.ip = s.ip
      OBVIOUS
    <3>1. s.ip.size # 0 /\ s.ip.size - 1 \in Nat /\ end - 1 <= s.ip.size - 1
      BY <1>4
    <3>2. (end - 1) \div BSIZE <= (s.ip.size - 1) \div BSIZE /\ (s.ip.size - 1) \div BSIZE \in Nat
      BY <1>4, <3>1, Sizes, DivMonotone, DivMod
    <3>3. bn <= (s.ip.size - 1) \div BSIZE
      BY <1>4, <3>2
    <3> QED
      BY <2>1, <2>5, <2>6, <3>1, <3>3
  <2>8. Cardinality(w.log \ IndirectLog(w)) <= Allowance(off, h + 1)
    <3>1. PICK new : new = Cardinality(w.log \ IndirectLog(w))
      OBVIOUS
    <3>2. PICK old \in Nat : old = Cardinality(u.log \ IndirectLog(u))
      BY <1>5
    <3>3. old <= Allowance(off, h) /\ new <= old + (IF T[i][bn] # 0 THEN 1 ELSE 2)
      BY <1>8, <3>1, <3>2 DEF Progress, Written
    <3>4. new \in Nat
      <4>1. PICK R : R = w.log \ IndirectLog(w)
        OBVIOUS
      <4>2. IsFiniteSet(w.log) /\ R \subseteq w.log
        BY <2>1, <4>1 DEF CopiesOK
      <4>3. IsFiniteSet(R)
        BY <4>2, FS_Subset
      <4> QED
        BY <3>1, <4>1, <4>3, FS_CardinalityType
    <3>5. new <= old + 2
      BY <3>2, <3>3, <3>4
    <3>6. CASE h # 0
      <4>1. Allowance(off, h + 1) = Allowance(off, h) + 2 /\ Allowance(off, h) \in Nat
        BY <1>6, <3>6 DEF Allowance
      <4> QED
        BY <3>1, <3>2, <3>3, <3>4, <3>5, <4>1
    <3>7. CASE h = 0 /\ off % BSIZE = 0
      <4>1. Allowance(off, h + 1) = 2 /\ Allowance(off, h) = 0
        BY <3>7 DEF Allowance
      <4> QED
        BY <3>1, <3>2, <3>3, <3>4, <3>5, <4>1
    <3>8. CASE h = 0 /\ off % BSIZE # 0
      <4>1. Allowance(off, h + 1) = 1 /\ Allowance(off, h) = 0
        BY <3>8 DEF Allowance
      <4>2. off # 0
        BY <3>8, Sizes
      <4>3. s.ip.size # 0 /\ off - 1 \in Nat /\ s.ip.size - 1 \in Nat /\ off - 1 <= s.ip.size - 1
        BY <1>4, <4>2
      <4>4. (off - 1) \div BSIZE <= (s.ip.size - 1) \div BSIZE
        BY <4>3, Sizes, DivMonotone
      <4>5. (off - 1) \div BSIZE = off \div BSIZE
        BY <1>4, <3>8, <4>2, Sizes, DivPred
      <4>6. bn <= (s.ip.size - 1) \div BSIZE
        BY <1>2, <1>4, <3>8, <4>4, <4>5
      <4>7. new <= old + 1
        BY <2>6, <3>3, <4>3, <4>6
      <4> QED
        BY <3>1, <3>2, <3>3, <3>4, <4>1, <4>7
    <3> QED
      BY <3>6, <3>7, <3>8
  <2>9. \A j \in Inodes : \A k \in Slots : S[j][k] # 0 => W[j][k] = S[j][k]
    BY <2>2, <2>5
  <2>10. \A j \in Inodes \ {i} : \A k \in Slots : S[j][k] # 0 /\ k # MAXFILE => w.data[S[j][k]] = s.data[S[j][k]]
    BY <2>3, <2>5
  <2>11. ASSUME NEW at \in 0 .. MAXFILE * BSIZE - 1, at < s.ip.size \/ Done(at, off, end, h + 1)
         PROVE  /\ W[i][at \div BSIZE] # 0
                /\ w.data[W[i][at \div BSIZE]][at % BSIZE]
                     = IF Done(at, off, end, h + 1) THEN v ELSE c[at + 1]
    <3>1. PICK q \in Slots, r \in 0 .. BSIZE - 1 :
            q = at \div BSIZE /\ r = at % BSIZE /\ q # MAXFILE /\ q * BSIZE + r = at
      BY WritableType
    <3>2. at < s.ip.size \/ Done(at, off, end, h) =>
            T[i][q] # 0 /\ u.data[T[i][q]][r] = IF Done(at, off, end, h) THEN v ELSE c[at + 1]
      BY <1>3, <1>8, <3>1 DEF Progress
    <3>3. q \in Nat
      BY Sizes DEF Slots
    <3>4. CASE q # bn
      <4>1. Done(at, off, end, h + 1) <=> Done(at, off, end, h)
        <5>1. q < off \div BSIZE + (h + 1) <=> q < off \div BSIZE + h
          BY <1>2, <1>4, <3>3, <3>4
        <5> QED
          BY <3>1, <5>1 DEF Done
      <4>2. T[i][q] # 0 /\ u.data[T[i][q]][r] = IF Done(at, off, end, h) THEN v ELSE c[at + 1]
        BY <2>11, <3>2, <4>1
      <4>3. W[i][q] = T[i][q] /\ w.data[T[i][q]] = u.data[T[i][q]]
        BY <2>2, <2>3, <3>1, <3>4, <4>2
      <4> QED
        BY <3>1, <4>1, <4>2, <4>3
    <3>5. CASE q = bn
      <4>1. Done(at, off, end, h + 1) <=> at \in off .. end - 1
        BY <1>2, <1>4, <3>1, <3>5 DEF Done
      <4>2. ~Done(at, off, end, h)
        BY <1>2, <1>4, <3>1, <3>5 DEF Done
      <4>3. CASE at \in off .. end - 1
        <5>1. w.data[W[i][bn]][r] = v
          BY <2>4, <3>1, <3>5, <4>3
        <5> QED
          BY <2>1, <3>1, <3>5, <4>1, <4>3, <5>1
      <4>4. CASE at \notin off .. end - 1
        <5>1. at < s.ip.size
          BY <2>11, <4>1, <4>4
        <5>2. T[i][bn] # 0 /\ u.data[T[i][bn]][r] = c[at + 1]
          BY <3>2, <3>5, <4>2, <5>1
        <5>3. w.data[W[i][bn]][r] = u.data[T[i][bn]][r]
          BY <2>4, <3>1, <3>5, <4>4, <5>2
        <5> QED
          BY <2>1, <3>1, <3>5, <4>1, <4>4, <5>2, <5>3
      <4> QED
        BY <4>3, <4>4
    <3> QED
      BY <3>4, <3>5
  <2>12. w.dip = s.dip /\ w.ip.size = s.ip.size /\ w.ip.nlink = s.ip.nlink
    BY <2>1, <2>5
  <2> HIDE DEF W, S, T
  <2>13. Progress(i, s, w, off, end, v, c, h + 1)
    BY <2>1, <2>7, <2>8, <2>9, <2>10, <2>11, <2>12 DEF Progress, W, S
  <2> QED
    BY <1>1, <1>3, <2>13
<1> QED
  <2>1. OutOfBlocks(i, u, w) \/ (u.full = FALSE /\ Written(i, u, w, bn, off, end, v))
    BY <1>1, <1>2, <1>3, <1>4, WriteBlockWrites
  <2> QED
    BY <1>7, <1>8, <2>1

\* The loop of writei does its turns.
LEMMA WriteiLoops ==
  ASSUME NEW i \in Inodes, NEW s, NEW off, NEW n, NEW v, NEW c, Writable(i, s, off, n, v, c)
  PROVE  \E t : /\ Progress(i, s, t, off, off + n, v, c, (off + n - 1) \div BSIZE - off \div BSIZE + 1)
                /\ writei(s, off, n, v) = IF off + n > t.ip.size
                                          THEN iupdate([t EXCEPT !.ip.size = off + n]) ELSE t
<1> DEFINE end == off + n
           first == off \div BSIZE
           N == (end - 1) \div BSIZE - first
<1>1. first \in Nat /\ first = off \div BSIZE
  BY WritableType
<1>2. N \in Nat /\ N = (off + n - 1) \div BSIZE - off \div BSIZE
  <2>1. N = (off + n - 1) \div BSIZE - off \div BSIZE
    BY WritableType DEF Writable
  <2>2. PICK p \in Nat, q \in Nat : p = off \div BSIZE /\ q = (off + n - 1) \div BSIZE /\ p <= q
    BY WritableType
  <2>3. N = q - p
    BY <2>1, <2>2
  <2> QED
    BY <2>1, <2>2, <2>3
<1> HIDE DEF N, first
<1> DEFINE Turn(u, k) == WriteBlock(u, first + k, off, end, v)
           X == CopiesOK(i)
           a == Turn(s, 0)
           G == [kx \in (0 .. N) \X X |-> Turn(kx[2], kx[1])]
           IsRec(f) == f = [k \in 0 .. N |-> Turn(IF k = 0 THEN s ELSE f[k - 1], k)]
<1>3. /\ inode \in [Inodes -> InodeType] /\ s \in X /\ off \in Nat /\ end \in Nat /\ v \in Nat
      /\ \A k \in 0 .. N : first + k \in Slots /\ first + k # MAXFILE /\ first + k <= (off + n - 1) \div BSIZE
  <2>1. inode \in [Inodes -> InodeType] /\ s \in X /\ off \in Nat /\ v \in Nat /\ end \in Nat
    BY WritableType DEF Writable
  <2>2. PICK last \in Nat : last = (off + n - 1) \div BSIZE
    BY WritableType
  <2>3. \A k \in 0 .. N : first + k \in 0 .. last
    BY <1>1, <1>2, <2>2
  <2>4. \A k \in 0 .. last : k \in Slots /\ k # MAXFILE
    BY <2>2, WritableType
  <2> QED
    BY <2>1, <2>2, <2>3, <2>4
<1>4. \A u \in X : \A k \in 0 .. N : Turn(u, k) \in X
  <2> SUFFICES ASSUME NEW u \in X, NEW k \in 0 .. N PROVE Turn(u, k) \in X
    OBVIOUS
  <2>1. PICK bn \in Slots : bn = first + k /\ bn # MAXFILE
    BY <1>3
  <2> HIDE DEF end
  <2>2. \/ OutOfBlocks(i, u, WriteBlock(u, bn, off, end, v))
        \/ u.full = FALSE /\ Written(i, u, WriteBlock(u, bn, off, end, v), bn, off, end, v)
    BY <1>3, <2>1, WriteBlockWrites
  <2> QED
    BY <2>1, <2>2 DEF OutOfBlocks, Written
<1>5. a \in X /\ G \in [(0 .. N) \X X -> X]
  <2>1. 0 \in 0 .. N
    BY <1>2
  <2> HIDE DEF X, Turn
  <2>2. a \in X
    BY <1>3, <1>4, <2>1
  <2>3. \A kx \in (0 .. N) \X X : Turn(kx[2], kx[1]) \in X
    BY <1>4
  <2> QED
    BY <2>2, <2>3
<1>6. PICK g \in [0 .. N -> X] : g[0] = a /\ \A k \in 1 .. N : g[k] = G[<<k, g[k - 1]>>]
  <2> HIDE DEF X, a, G
  <2>1. PICK M \in Nat : M = N
    BY <1>2
  <2>0. PICK U : U = X
    OBVIOUS
  <2>2. PICK b \in U : b = a
    BY <1>5, <2>0
  <2>3. PICK H \in [(0 .. M) \X U -> U] : H = G
    BY <1>5, <2>0, <2>1
  <2>4. \E f \in [0 .. M -> U] : FollowsStep(f, M, b, H)
    BY ONLY M \in Nat, b \in U, H \in [(0 .. M) \X U -> U], RangeRecursion
  <2> QED
    BY <2>0, <2>1, <2>2, <2>3, <2>4 DEF FollowsStep
<1> HIDE DEF X, Turn
<1>7. \A k \in 1 .. N : g[k] = Turn(g[k - 1], k)
  <2> SUFFICES ASSUME NEW k \in 1 .. N PROVE g[k] = Turn(g[k - 1], k)
    OBVIOUS
  <2>1. k \in 0 .. N /\ k - 1 \in 0 .. N
    BY <1>2
  <2>2. g[k - 1] \in X
    BY <2>1
  <2> QED
    BY <1>6, <2>1, <2>2
<1>8. IsRec(g)
  <2>1. \A k \in 0 .. N : k # 0 => k \in 1 .. N
    BY <1>2
  <2>2. \A k \in 0 .. N : g[k] = Turn(IF k = 0 THEN s ELSE g[k - 1], k)
    BY <1>6, <1>7, <2>1
  <2> QED
    BY <2>2
<1> DEFINE turn == CHOOSE f : IsRec(f)
<1>9. IsRec(turn)
  <2> HIDE DEF IsRec
  <2> QED
    BY <1>8
<1>10. writei(s, off, n, v) = IF off + n > turn[N].ip.size
                              THEN iupdate([turn[N] EXCEPT !.ip.size = off + n]) ELSE turn[N]
  BY DEF writei, Turn, N, first
<1> HIDE DEF turn
<1>11. turn[0] = Turn(s, 0) /\ \A k \in 1 .. N : turn[k] = Turn(turn[k - 1], k)
  <2>1. \A k \in 0 .. N : turn[k] = Turn(IF k = 0 THEN s ELSE turn[k - 1], k)
    BY <1>9
  <2>2. 0 \in 0 .. N /\ \A k \in 1 .. N : k \in 0 .. N /\ k # 0
    BY <1>2
  <2> QED
    BY <2>1, <2>2
<1>12. ASSUME NEW u, NEW k \in 0 .. N, Progress(i, s, u, off, off + n, v, c, k)
       PROVE  Progress(i, s, Turn(u, k), off, off + n, v, c, k + 1)
  <2>1. k \in Nat /\ off \div BSIZE + k <= (off + n - 1) \div BSIZE
    BY <1>1, <1>2, <1>3
  <2>2. Progress(i, s, WriteBlock(u, off \div BSIZE + k, off, off + n, v), off, off + n, v, c, k + 1)
    BY <1>12, <2>1, ProgressStep
  <2> QED
    BY <1>1, <2>2 DEF Turn
<1> DEFINE P == {k \in 0 .. N : Progress(i, s, turn[k], off, off + n, v, c, k + 1)}
<1>13. 0 \in P
  <2>1. Progress(i, s, s, off, off + n, v, c, 0) /\ 0 \in 0 .. N
    BY <1>2, ProgressStart
  <2>2. Progress(i, s, Turn(s, 0), off, off + n, v, c, 0 + 1)
    BY <1>12, <2>1
  <2> QED
    BY <1>11, <2>1, <2>2
<1>14. ASSUME NEW k \in 0 .. N, k < N, k \in P
       PROVE  k + 1 \in P
  <2>1. k + 1 \in 1 .. N /\ k + 1 \in 0 .. N /\ (k + 1) - 1 = k
    BY <1>2, <1>14
  <2>2. turn[k + 1] = Turn(turn[k], k + 1)
    BY <1>11, <2>1
  <2>3. Progress(i, s, Turn(turn[k], k + 1), off, off + n, v, c, (k + 1) + 1)
    BY <1>12, <1>14, <2>1
  <2> QED
    BY <2>1, <2>2, <2>3
<1> HIDE DEF P
<1>15. N \in P
  <2>1. \A k \in 0 .. N : k \in P
    BY <1>2, <1>13, <1>14, RangeInduction
  <2> QED
    BY <1>2, <2>1
<1>16. Progress(i, s, turn[N], off, off + n, v, c, N + 1)
  BY <1>15 DEF P
<1> QED
  BY <1>2, <1>10, <1>16

\* What writei leaves of the disk, where balloc finds the blocks it needs.
WroteFile(i, s, w, off, n, v, c) ==
  /\ w.dip = w.ip
  /\ w.ip.size = IF off + n > s.ip.size THEN off + n ELSE s.ip.size
  /\ Holding(i, w, Overwritten(c, off, n, v))
  /\ \A j \in Inodes \ {i} : \A k \in Slots : CopyTable(i, s)[j][k] # 0 /\ k # MAXFILE =>
       /\ CopyTable(i, w)[j][k] = CopyTable(i, s)[j][k]
       /\ w.data[CopyTable(i, w)[j][k]] = s.data[CopyTable(i, s)[j][k]]

\* writei leaves the bytes of the write over those of the file, in a log that fits.
LEMMA WriteiWrites ==
  ASSUME NEW i \in Inodes, NEW s, NEW off, NEW n, NEW v, NEW c, Writable(i, s, off, n, v, c),
         s.dip = s.ip, Len(c) = s.ip.size, NEW b \in Nat, n <= b * BSIZE
  PROVE  /\ writei(s, off, n, v) \in CopiesOK(i)
         /\ writei(s, off, n, v).full = FALSE => WroteFile(i, s, writei(s, off, n, v), off, n, v, c)
         /\ Cardinality(writei(s, off, n, v).log) <= 2 * b + 4
<1>1. PICK N \in Nat : N = (off + n - 1) \div BSIZE - off \div BSIZE
  BY WritableType
<1>2. PICK t : /\ Progress(i, s, t, off, off + n, v, c, N + 1)
               /\ writei(s, off, n, v) = IF off + n > t.ip.size
                                         THEN iupdate([t EXCEPT !.ip.size = off + n]) ELSE t
  BY <1>1, WriteiLoops
<1>3. PICK w : w = writei(s, off, n, v)
  OBVIOUS
<1>4. PICK end \in Nat : end = off + n
  BY WritableType
<1>5. /\ t \in CopiesOK(i) /\ t \in Copies /\ t.dip = s.dip /\ t.ip.size = s.ip.size /\ t.ip \in InodeType
      /\ s.ip.size \in Nat /\ t.full \in BOOLEAN /\ IsFiniteSet(t.log)
      /\ off \in Nat /\ n \in Nat \ {0} /\ off <= s.ip.size /\ s.ip.size <= MAXFILE * BSIZE
      /\ off + n <= MAXFILE * BSIZE /\ inode \in [Inodes -> InodeType]
  BY <1>2, WritableType DEF Progress, CopiesOK, Copies, Writable
<1>6. /\ w \in Copies /\ w.map = t.map /\ w.data = t.data /\ w.full = t.full
      /\ w.ip.addrs = t.ip.addrs /\ w.log \subseteq t.log \cup {<<"inode">>}
      /\ w.ip.size = IF off + n > s.ip.size THEN off + n ELSE s.ip.size
      /\ w.dip = w.ip \/ (w = t /\ end <= s.ip.size)
  <2>1. CASE end > s.ip.size
    <3> DEFINE ip == [t.ip EXCEPT !.size = end]
    <3>1. ip \in InodeType /\ ip.addrs = t.ip.addrs /\ ip.size = end
      BY <1>5 DEF InodeType
    <3>2. PICK r : r = [t EXCEPT !.ip.size = end]
      OBVIOUS
    <3>3. r = [t EXCEPT !.ip = ip]
      BY <3>2
    <3> HIDE DEF ip
    <3>4. r = [ip |-> ip, dip |-> t.dip, map |-> t.map, data |-> t.data, log |-> t.log,
               full |-> t.full, addr |-> t.addr]
      BY <1>5, <3>3 DEF Copies
    <3>5. w = iupdate(r)
      BY <1>2, <1>3, <1>4, <1>5, <2>1, <3>2
    <3>6. w = [[r EXCEPT !.dip = r.ip] EXCEPT !.log = r.log \cup {<<"inode">>}]
      BY <3>5 DEF iupdate
    <3>7. PICK L : L = r.log \cup {<<"inode">>}
      OBVIOUS
    <3>8. PICK e : e = [r EXCEPT !.dip = r.ip]
      OBVIOUS
    <3>9. e = [ip |-> ip, dip |-> ip, map |-> t.map, data |-> t.data, log |-> t.log,
               full |-> t.full, addr |-> t.addr]
      BY <3>4, <3>8
    <3>10. w = [e EXCEPT !.log = L]
      BY <3>6, <3>7, <3>8
    <3>11. w = [ip |-> ip, dip |-> ip, map |-> t.map, data |-> t.data, log |-> L,
                full |-> t.full, addr |-> t.addr]
      BY <3>9, <3>10
    <3>12. L = t.log \cup {<<"inode">>} /\ L \in SUBSET LogIds
      BY <1>5, <3>4, <3>7 DEF Copies, LogIds
    <3>13. w \in Copies
      BY <1>5, <3>1, <3>11, <3>12 DEF Copies
    <3>14. /\ w.map = t.map /\ w.data = t.data /\ w.full = t.full /\ w.ip = ip /\ w.dip = ip /\ w.log = L
      BY <3>11
    <3> QED
      BY <1>4, <2>1, <3>1, <3>12, <3>13, <3>14
  <2>2. CASE ~(end > s.ip.size)
    <3>1. w = t /\ end <= s.ip.size
      BY <1>2, <1>3, <1>4, <1>5, <2>2
    <3> QED
      BY <1>4, <1>5, <2>2, <3>1
  <2> QED
    BY <2>1, <2>2
<1>7. CopyTable(i, w) = CopyTable(i, t)
  <2>1. \A k \in Slots : At(w.ip, w.data, k) = At(t.ip, t.data, k)
    BY <1>6 DEF At
  <2>2. \A j \in Inodes : \A k \in Slots :
          At([inode EXCEPT ![i] = w.ip][j], w.data, k) = At([inode EXCEPT ![i] = t.ip][j], t.data, k)
    BY <1>5, <1>6, <2>1
  <2> QED
    BY <2>2 DEF CopyTable, Table
<1>8. w \in CopiesOK(i) /\ IsFiniteSet(w.log)
  <2>1. IsFiniteSet(w.log)
    <3>1. PICK L, x : L = t.log /\ x = <<"inode">>
      OBVIOUS
    <3>2. IsFiniteSet(L \cup {x})
      BY <1>5, <3>1, FS_AddElement
    <3> QED
      BY <1>6, <3>1, <3>2, FS_Subset
  <2> QED
    BY <1>5, <1>6, <1>7, <2>1 DEF CopiesOK
<1>9. Cardinality(w.log) <= 2 * b + 4
  <2>1. N <= (IF off % BSIZE = 0 THEN b - 1 ELSE b)
    BY <1>1, <1>5, Sizes, BlocksReached
  <2>2. PICK R : R = t.log \ IndirectLog(t)
    OBVIOUS
  <2>3. IsFiniteSet(R) /\ Cardinality(R) \in Nat
    BY <1>5, <2>2, FS_Subset, FS_CardinalityType
  <2>4. Cardinality(R) <= 2 * (N + 1) - (IF off % BSIZE = 0 THEN 0 ELSE 1)
    BY <1>2, <2>2 DEF Progress, Allowance
  <2>5. Cardinality(R) <= 2 * b + 1
    BY <2>1, <2>3, <2>4
  <2>6. PICK x, y, z : IndirectLog(t) \subseteq {x, y} /\ z = <<"inode">>
    <3>1. IndirectLog(t) \subseteq {Bitmap(t.ip.addrs[NDIRECT]), <<"data", t.ip.addrs[NDIRECT]>>}
      BY DEF IndirectLog
    <3> QED
      BY <3>1
  <2>7. PICK S : S = R \cup {z}
    OBVIOUS
  <2>8. IsFiniteSet(S) /\ Cardinality(S) \in Nat /\ Cardinality(S) <= Cardinality(R) + 1
    <3>1. IsFiniteSet(S) /\ Cardinality(S) = IF z \in R THEN Cardinality(R) ELSE Cardinality(R) + 1
      BY <2>3, <2>7, FS_AddElement
    <3> QED
      BY <2>3, <3>1
  <2>9. w.log \subseteq (S \cup {x}) \cup {y}
    BY <1>6, <2>2, <2>6, <2>7
  <2>10. PICK L : L = w.log
    OBVIOUS
  <2>11. Cardinality(L) <= Cardinality(S) + 2 /\ Cardinality(L) \in Nat
    BY <2>8, <2>9, <2>10, FewMore
  <2> QED
    BY <2>3, <2>5, <2>8, <2>10, <2>11
<1>10. ASSUME w.full = FALSE PROVE WroteFile(i, s, w, off, n, v, c)
  <2>1. t.full = FALSE
    BY <1>6, <1>10
  <2>2. end <= s.ip.size => t.ip = s.ip
    BY <1>2, <1>4, <2>1 DEF Progress
  <2>3. w.dip = w.ip
    BY <1>5, <1>6, <2>2
  <2>4. ASSUME NEW at \in 0 .. w.ip.size - 1
        PROVE  /\ CopyTable(i, w)[i][at \div BSIZE] # 0
               /\ w.data[CopyTable(i, w)[i][at \div BSIZE]][at % BSIZE] = Overwritten(c, off, n, v)[at + 1]
    <3>1. at \in Nat /\ at < w.ip.size /\ at \in 0 .. MAXFILE * BSIZE - 1
      <4>1. PICK z \in Nat : z = MAXFILE * BSIZE
        BY Sizes
      <4>2. w.ip.size \in Nat /\ w.ip.size <= z
        BY <1>4, <1>5, <1>6, <4>1
      <4> QED
        BY <4>1, <4>2
    <3>2. Done(at, off, off + n, N + 1) <=> at \in off .. off + n - 1
      <4> SUFFICES ASSUME at \in off .. off + n - 1 PROVE at \div BSIZE < off \div BSIZE + (N + 1)
        BY <1>5, <3>1 DEF Done
      <4>1. at <= off + n - 1 /\ off + n - 1 \in Nat
        BY <1>5, <3>1
      <4>2. at \div BSIZE <= (off + n - 1) \div BSIZE
        BY <3>1, <4>1, Sizes, DivMonotone
      <4>3. at \div BSIZE \in Nat /\ off \div BSIZE \in Nat /\ (off + n - 1) \div BSIZE \in Nat
        BY <1>5, <3>1, <4>1, Sizes, DivMod
      <4> QED
        BY <1>1, <4>2, <4>3
    <3>3. at < s.ip.size \/ Done(at, off, off + n, N + 1)
      BY <1>4, <1>5, <1>6, <3>1, <3>2
    <3>4. /\ CopyTable(i, t)[i][at \div BSIZE] # 0
          /\ t.data[CopyTable(i, t)[i][at \div BSIZE]][at % BSIZE]
               = IF Done(at, off, off + n, N + 1) THEN v ELSE c[at + 1]
      BY <1>2, <2>1, <3>1, <3>3 DEF Progress
    <3>5. Overwritten(c, off, n, v)[at + 1] = IF at \in off .. off + n - 1 THEN v ELSE c[at + 1]
      <4>1. at + 1 \in 1 .. (IF off + n > Len(c) THEN off + n ELSE Len(c))
        BY <1>4, <1>5, <1>6, <3>1
      <4>2. at + 1 \in off + 1 .. off + n <=> at \in off .. off + n - 1
        BY <1>5, <3>1
      <4> QED
        BY <4>1, <4>2 DEF Overwritten
    <3> QED
      BY <1>6, <1>7, <3>2, <3>4, <3>5
  <2>5. \A j \in Inodes \ {i} : \A k \in Slots : CopyTable(i, s)[j][k] # 0 /\ k # MAXFILE =>
          /\ CopyTable(i, w)[j][k] = CopyTable(i, s)[j][k]
          /\ w.data[CopyTable(i, w)[j][k]] = s.data[CopyTable(i, s)[j][k]]
    BY <1>2, <1>6, <1>7, <2>1 DEF Progress
  <2>6. Holding(i, w, Overwritten(c, off, n, v))
    BY <2>4 DEF Holding
  <2> QED
    BY <1>6, <2>3, <2>5, <2>6 DEF WroteFile
<1> QED
  BY <1>3, <1>8, <1>9, <1>10

-----------------------------------------------------------------------------
(* Freeing a file, and the end of a transaction *)

Bitmaps == {<<"bitmap", x>> : x \in 0 .. (NBlocks - 1) \div BPB}

\* A log that leaves room for two blocks of a directory.
Fits(L) == IsFiniteSet(L) /\ Cardinality(L) \in Nat /\ Cardinality(L) + 2 <= MAXOPBLOCKS

\* Freeing a file logs bitmap blocks and the inode: there are as many as fit.
LEMMA FreeingFits ==
  ASSUME NEW L, L \subseteq Bitmaps \cup {<<"inode">>}
  PROVE  Fits(L)
<1>1. PICK q \in Nat : q = (NBlocks - 1) \div BPB
  <2>1. NBlocks - 1 \in Nat
    BY Sizes
  <2> QED
    BY <2>1, Sizes, DivMod
<1>2. IsFiniteSet(0 .. q) /\ Cardinality(0 .. q) = q + 1
  BY FS_Interval
<1>3. IsFiniteSet(Bitmaps) /\ Cardinality(Bitmaps) <= q + 1
  <2> DEFINE f == [x \in 0 .. q |-> <<"bitmap", x>>]
  <2>1. f \in [0 .. q -> Bitmaps] /\ \A y \in Bitmaps : \E x \in 0 .. q : f[x] = y
    BY <1>1 DEF Bitmaps
  <2> HIDE DEF f
  <2>2. f \in Surjection(0 .. q, Bitmaps)
    BY <2>1 DEF Surjection
  <2>3. IsFiniteSet(Bitmaps) /\ Cardinality(Bitmaps) <= Cardinality(0 .. q)
    BY <1>2, <2>2, FS_Surjection
  <2> QED
    BY <1>2, <2>3
<1>4. Cardinality(Bitmaps) \in Nat
  BY <1>3, FS_CardinalityType
<1>5. PICK S, x : S = Bitmaps /\ x = <<"inode">>
  OBVIOUS
<1>6. IsFiniteSet(S) /\ L \subseteq (S \cup {x}) \cup {x}
  BY <1>3, <1>5
<1>7. IsFiniteSet(L) /\ Cardinality(L) \in Nat /\ Cardinality(L) <= Cardinality(S) + 1
  BY <1>6, FewMore
<1>8. q + 4 <= MAXOPBLOCKS /\ MAXOPBLOCKS \in Nat
  BY <1>1, BitmapAssumption, FileAssumption
<1>9. Cardinality(L) + 2 <= MAXOPBLOCKS
  BY <1>3, <1>4, <1>5, <1>7, <1>8
<1> QED
  BY <1>7, <1>9 DEF Fits

\* The blocks of a directory that making and removing a name log.
LEMMA DirectoryBlocks ==
  /\ IsFiniteSet(Linked) /\ Cardinality(Linked) = 5
  /\ IsFiniteSet(Unlinked) /\ Cardinality(Unlinked) = 2
<1>1. IsFiniteSet({"dir"}) /\ Cardinality({"dir"}) = 1
  BY FS_Singleton
<1>2. /\ IsFiniteSet(1 .. 5) /\ Cardinality(1 .. 5) = 5
      /\ IsFiniteSet(1 .. 2) /\ Cardinality(1 .. 2) = 2
  <2>1. ASSUME NEW n \in Nat PROVE IsFiniteSet(1 .. n) /\ Cardinality(1 .. n) = n
    <3>1. IsFiniteSet(1 .. n) /\ Cardinality(1 .. n) = IF 1 > n THEN 0 ELSE n - 1 + 1
      BY FS_Interval
    <3> QED
      BY <3>1
  <2> QED
    BY <2>1
<1>3. IsFiniteSet(Linked) /\ Cardinality(Linked) = 5
  <2>1. PICK S : S = 1 .. 5
    OBVIOUS
  <2>2. IsFiniteSet({"dir"} \X S) /\ Cardinality({"dir"} \X S) = Cardinality({"dir"}) * Cardinality(S)
    BY <1>1, <1>2, <2>1, FS_Product
  <2> QED
    BY <1>1, <1>2, <2>1, <2>2 DEF Linked
<1>4. IsFiniteSet(Unlinked) /\ Cardinality(Unlinked) = 2
  <2>1. PICK S : S = 1 .. 2
    OBVIOUS
  <2>2. IsFiniteSet({"dir"} \X S) /\ Cardinality({"dir"} \X S) = Cardinality({"dir"}) * Cardinality(S)
    BY <1>1, <1>2, <2>1, FS_Product
  <2> QED
    BY <1>1, <1>2, <2>1, <2>2 DEF Unlinked
<1> QED
  BY <1>3, <1>4

\* What a transaction logs on an inode and in a directory.
LEMMA Together ==
  ASSUME NEW L, NEW D, IsFiniteSet(L), IsFiniteSet(D)
  PROVE  Cardinality(L \cup D) \in Nat /\ Cardinality(L \cup D) <= Cardinality(L) + Cardinality(D)
<1>1. IsFiniteSet(L \cup D) /\ Cardinality(L \cup D) = Cardinality(L) + Cardinality(D) - Cardinality(L \cap D)
  BY FS_Union
<1>2. IsFiniteSet(L \cap D)
  BY FS_Intersection
<1>3. Cardinality(L) \in Nat /\ Cardinality(D) \in Nat /\ Cardinality(L \cap D) \in Nat /\ Cardinality(L \cup D) \in Nat
  BY <1>1, <1>2, FS_CardinalityType
<1> QED
  BY <1>1, <1>3

\* Freeing a file fits, with the blocks of the directory that it is removed from.
LEMMA FreeingFitsToo ==
  ASSUME NEW L, Fits(L)
  PROVE  /\ Cardinality(L \cup {}) \in Nat /\ Cardinality(L \cup {}) <= MAXOPBLOCKS
         /\ Cardinality(L \cup Unlinked) \in Nat /\ Cardinality(L \cup Unlinked) <= MAXOPBLOCKS
<1>1. L \cup {} = L
  OBVIOUS
<1>2. Cardinality(L \cup Unlinked) \in Nat /\ Cardinality(L \cup Unlinked) <= Cardinality(L) + 2
  BY DirectoryBlocks, Together DEF Fits
<1>3. Cardinality(L) \in Nat /\ Cardinality(L) + 2 <= MAXOPBLOCKS /\ MAXOPBLOCKS \in Nat
  BY FileAssumption DEF Fits
<1> QED
  BY <1>1, <1>2, <1>3

\* The bit of a block is in one of the bitmap blocks.
LEMMA BitmapIsOne ==
  ASSUME NEW b \in Blocks
  PROVE  Bitmap(b) \in Bitmaps
<1>1. b - 1 \in Nat /\ NBlocks - 1 \in Nat /\ b - 1 <= NBlocks - 1
  BY Sizes DEF Blocks
<1>2. (b - 1) \div BPB \in Nat /\ (b - 1) \div BPB <= (NBlocks - 1) \div BPB /\ (NBlocks - 1) \div BPB \in Nat
  BY <1>1, Sizes, DivMod, DivMonotone
<1>3. PICK x \in Nat, q \in Nat : x = (b - 1) \div BPB /\ q = (NBlocks - 1) \div BPB /\ x <= q
  BY <1>2
<1> QED
  BY <1>3 DEF Bitmap, Bitmaps

\* iupdate writes the inode.
Put(s, ip) == iupdate([s EXCEPT !.ip = ip])
IsPut(w, s, ip) ==
  /\ w \in Copies /\ w.ip = ip /\ w.dip = ip /\ w.map = s.map /\ w.data = s.data
  /\ w.log = s.log \cup {<<"inode">>} /\ w.full = s.full

\* What iupdate leaves, field by field.
LEMMA IupdateIs ==
  ASSUME NEW s \in Copies, NEW ip \in InodeType, NEW w, w = Put(s, ip)
  PROVE  IsPut(w, s, ip)
<1>1. PICK r : r = [s EXCEPT !.ip = ip]
  OBVIOUS
<1>2. r = [ip |-> ip, dip |-> s.dip, map |-> s.map, data |-> s.data, log |-> s.log,
           full |-> s.full, addr |-> s.addr]
  BY <1>1 DEF Copies
<1>3. w = iupdate(r)
  BY <1>1 DEF Put
<1>4. w = [[r EXCEPT !.dip = r.ip] EXCEPT !.log = r.log \cup {<<"inode">>}]
  BY <1>3 DEF iupdate
<1>5. PICK L, e : L = r.log \cup {<<"inode">>} /\ e = [r EXCEPT !.dip = r.ip]
  OBVIOUS
<1>6. e = [ip |-> ip, dip |-> ip, map |-> s.map, data |-> s.data, log |-> s.log,
           full |-> s.full, addr |-> s.addr]
  BY <1>2, <1>5
<1>7. w = [e EXCEPT !.log = L]
  BY <1>4, <1>5
<1>8. w = [ip |-> ip, dip |-> ip, map |-> s.map, data |-> s.data, log |-> L,
           full |-> s.full, addr |-> s.addr]
  BY <1>6, <1>7
<1>9. L = s.log \cup {<<"inode">>} /\ L \in SUBSET LogIds
  BY <1>2, <1>5 DEF Copies, LogIds
<1>10. w \in Copies
  BY <1>8, <1>9 DEF Copies
<1>11. w.ip = ip /\ w.dip = ip /\ w.map = s.map /\ w.data = s.data /\ w.log = L /\ w.full = s.full
  BY <1>8
<1> QED
  BY <1>9, <1>10, <1>11 DEF IsPut

\* itrunc frees what is in the slots of the inode.
LEMMA ItruncFrees ==
  ASSUME inode \in [Inodes -> InodeType], NEW i \in Inodes, NEW s \in CopiesOK(i)
  PROVE  /\ itrunc(s) \in Copies /\ itrunc(s).data = s.data /\ itrunc(s).full = s.full
         /\ itrunc(s).map = s.map \ {CopyTable(i, s)[i][k] : k \in Slots}
         /\ itrunc(s).log \subseteq s.log \cup Bitmaps \cup {<<"inode">>}
<1> DEFINE ind == s.ip.addrs[NDIRECT]
           direct == {s.ip.addrs[k] : k \in 0 .. NDIRECT - 1}
           listed == IF ind = 0 THEN {} ELSE {s.data[ind][j] : j \in 0 .. NINDIRECT - 1}
           B == (direct \cup listed \cup {ind}) \ {0}
           T == CopyTable(i, s)
<1>1. s \in Copies /\ TableFits(T, s.map) /\ s.ip \in InodeType
  BY DEF CopiesOK, Copies
<1>2. \A k \in Slots : T[i][k] = At(s.ip, s.data, k)
  BY CopyTableAt
<1>3. ASSUME NEW b, b # 0
      PROVE  b \in B <=> \E k \in Slots : T[i][k] = b
  <2>1. ASSUME NEW k \in Slots, T[i][k] = b
        PROVE  b \in B
    <3>1. At(s.ip, s.data, k) = b
      BY <1>2, <2>1
    <3>2. CASE k < NDIRECT
      <4>1. k \in 0 .. NDIRECT - 1 /\ s.ip.addrs[k] = b
        BY <3>1, <3>2, Sizes DEF At, Slots
      <4> QED
        BY <1>3, <4>1
    <3>3. CASE k = MAXFILE
      <4>1. ind = b
        BY <3>1, <3>3, Sizes DEF At
      <4> QED
        BY <1>3, <4>1
    <3>4. CASE k >= NDIRECT /\ k # MAXFILE
      <4>1. ind # 0 /\ s.data[ind][k - NDIRECT] = b
        BY <1>3, <3>1, <3>4, Sizes DEF At, Slots
      <4>2. k - NDIRECT \in 0 .. NINDIRECT - 1
        BY <3>4, Sizes
      <4> QED
        BY <1>3, <4>1, <4>2
    <3> QED
      BY <3>2, <3>3, <3>4, Sizes DEF Slots
  <2>2. ASSUME b \in B
        PROVE  \E k \in Slots : T[i][k] = b
    <3>1. CASE b \in direct
      <4>1. PICK k \in 0 .. NDIRECT - 1 : s.ip.addrs[k] = b
        BY <3>1
      <4>2. k \in Slots /\ At(s.ip, s.data, k) = b
        BY <4>1, Sizes DEF At, Slots
      <4> QED
        BY <1>2, <4>2
    <3>2. CASE b = ind
      <4>1. MAXFILE \in Slots /\ At(s.ip, s.data, MAXFILE) = b
        BY <3>2, Sizes DEF At, Slots
      <4> QED
        BY <1>2, <4>1
    <3>3. CASE b \in listed
      <4>1. PICK j \in 0 .. NINDIRECT - 1 : ind # 0 /\ s.data[ind][j] = b
        BY <3>3
      <4>2. PICK k \in Slots : k = NDIRECT + j /\ k >= NDIRECT /\ k # MAXFILE /\ k - NDIRECT = j
        BY Sizes DEF Slots
      <4>3. At(s.ip, s.data, k) = b
        BY <4>1, <4>2, Sizes DEF At, Slots
      <4> QED
        BY <1>2, <4>3
    <3> QED
      BY <2>2, <3>1, <3>2, <3>3
  <2> QED
    BY <2>1, <2>2
<1>4. B \subseteq Blocks /\ s.map \ B = s.map \ {T[i][k] : k \in Slots}
  <2>1. 0 \notin B /\ 0 \notin s.map
    BY <1>1, Sizes DEF TableFits, Blocks
  <2> HIDE DEF B, T
  <2>2. ASSUME NEW b \in B PROVE b \in Blocks
    <3>1. PICK k \in Slots : T[i][k] = b
      BY <1>3, <2>1, <2>2
    <3> QED
      BY <1>1, <2>1, <2>2, <3>1, InSlotIsMarked
  <2>3. \A b \in s.map : b \in B <=> b \in {T[i][k] : k \in Slots}
    BY <1>3, <2>1
  <2> QED
    BY <2>2, <2>3
<1> DEFINE M == s.map \ B
           L == s.log \cup {Bitmap(b) : b \in B}
           r == bfree(s, B)
           ip == [s.ip EXCEPT !.addrs = NoAddrs, !.size = 0]
<1>5. itrunc(s) = iupdate([r EXCEPT !.ip.addrs = NoAddrs, !.ip.size = 0])
  BY DEF itrunc
<1>6. r = [[s EXCEPT !.map = M] EXCEPT !.log = L]
  BY DEF bfree
<1> HIDE DEF B, r
<1>7. /\ r = [ip |-> s.ip, dip |-> s.dip, map |-> M, data |-> s.data, log |-> L,
              full |-> s.full, addr |-> s.addr]
      /\ r \in Copies
  <2> HIDE DEF M, L
  <2>1. PICK e : e = [s EXCEPT !.map = M]
    OBVIOUS
  <2>2. e = [ip |-> s.ip, dip |-> s.dip, map |-> M, data |-> s.data, log |-> s.log,
             full |-> s.full, addr |-> s.addr]
    BY <1>1, <2>1 DEF Copies
  <2>3. r = [e EXCEPT !.log = L]
    BY <1>6, <2>1
  <2>4. r = [ip |-> s.ip, dip |-> s.dip, map |-> M, data |-> s.data, log |-> L,
             full |-> s.full, addr |-> s.addr]
    BY <2>2, <2>3
  <2>5. M \in SUBSET Blocks /\ L \in SUBSET LogIds
    <3>1. \A b \in B : Bitmap(b) \in LogIds
      <4>1. ASSUME NEW b \in Blocks PROVE (b - 1) \div BPB \in Nat
        <5>1. b - 1 \in Nat
          BY Sizes DEF Blocks
        <5> QED
          BY <5>1, Sizes, DivMod
      <4> QED
        BY <1>4, <4>1 DEF Bitmap, LogIds
    <3> QED
      BY <1>1, <3>1 DEF M, L, Copies
  <2> QED
    BY <1>1, <2>4, <2>5 DEF Copies
<1>8. ip \in InodeType
  <2>1. NoAddrs \in [0 .. NDIRECT -> 0 .. NBlocks]
    BY Sizes DEF NoAddrs
  <2> QED
    BY <1>1, <2>1 DEF InodeType
<1>9. itrunc(s) = iupdate([r EXCEPT !.ip = ip])
  <2>1. PICK R : R = r /\ R \in Copies /\ R.ip = s.ip
    BY <1>7
  <2>2. [R EXCEPT !.ip.addrs = NoAddrs, !.ip.size = 0] = [R EXCEPT !.ip = ip]
    <3>1. PICK a, e : a = [R.ip EXCEPT !.addrs = NoAddrs] /\ e = [R EXCEPT !.ip = a]
      OBVIOUS
    <3>2. e = [ip |-> a, dip |-> R.dip, map |-> R.map, data |-> R.data, log |-> R.log,
               full |-> R.full, addr |-> R.addr]
      BY <2>1, <3>1 DEF Copies
    <3>3. [R EXCEPT !.ip.addrs = NoAddrs, !.ip.size = 0] = [e EXCEPT !.ip = [e.ip EXCEPT !.size = 0]]
      BY <3>1
    <3>4. [e.ip EXCEPT !.size = 0] = ip
      BY <2>1, <3>1, <3>2
    <3>5. [R EXCEPT !.ip.addrs = NoAddrs, !.ip.size = 0] = [e EXCEPT !.ip = ip]
      BY <3>3, <3>4
    <3> HIDE DEF ip
    <3>6. [e EXCEPT !.ip = ip] = [ip |-> ip, dip |-> R.dip, map |-> R.map, data |-> R.data, log |-> R.log,
                                  full |-> R.full, addr |-> R.addr]
      BY <3>2
    <3>7. [R EXCEPT !.ip = ip] = [ip |-> ip, dip |-> R.dip, map |-> R.map, data |-> R.data, log |-> R.log,
                                  full |-> R.full, addr |-> R.addr]
      BY <2>1 DEF Copies
    <3> QED
      BY <3>5, <3>6, <3>7
  <2> QED
    BY <1>5, <2>1, <2>2
<1> HIDE DEF ip
<1>10. /\ itrunc(s) \in Copies /\ itrunc(s).map = r.map /\ itrunc(s).data = r.data
       /\ itrunc(s).log = r.log \cup {<<"inode">>} /\ itrunc(s).full = r.full
  <2>1. PICK w : w = itrunc(s) /\ w = Put(r, ip)
    BY <1>9 DEF Put
  <2> QED
    <3>1. PICK R \in Copies : R = r
      BY <1>7
    <3>2. PICK a \in InodeType : a = ip
      BY <1>8
    <3>3. w = Put(R, a)
      BY <2>1, <3>1, <3>2
    <3>4. IsPut(w, R, a)
      BY <3>3, IupdateIs
    <3> QED
      BY <2>1, <3>1, <3>2, <3>4 DEF IsPut
<1>11. r.map = M /\ r.data = s.data /\ r.log = L /\ r.full = s.full
  BY <1>7
<1>12. L \subseteq s.log \cup Bitmaps
  BY <1>4, BitmapIsOne
<1> QED
  BY <1>4, <1>10, <1>11, <1>12

\* The last use of an inode without names frees it.
LEMMA FreeInodeFrees ==
  ASSUME inode \in [Inodes -> InodeType], NEW i \in Inodes, NEW s \in CopiesOK(i),
         s.log \subseteq {<<"inode">>}, NEW w, w = iupdate([itrunc(s) EXCEPT !.ip = FreeInode])
  PROVE  /\ w \in CopiesOK(i) /\ w.ip = FreeInode /\ w.dip = FreeInode /\ w.full = s.full
         /\ w.data = s.data
         /\ \A j \in Inodes \ {i} : \A k \in Slots : CopyTable(i, w)[j][k] = CopyTable(i, s)[j][k]
         /\ Fits(w.log)
<1>1. FreeInode \in InodeType /\ FreeInode.addrs = NoAddrs
  BY Sizes DEF FreeInode, NoAddrs, InodeType
<1>2. PICK t : t = itrunc(s)
  OBVIOUS
<1>3. /\ t \in Copies /\ t.data = s.data /\ t.full = s.full
      /\ t.map = s.map \ {CopyTable(i, s)[i][k] : k \in Slots}
      /\ t.log \subseteq s.log \cup Bitmaps \cup {<<"inode">>}
  BY <1>2, ItruncFrees
<1>4. PICK f \in InodeType : f = FreeInode
  BY <1>1
<1>5. /\ w \in Copies /\ w.ip = FreeInode /\ w.dip = FreeInode /\ w.map = t.map /\ w.data = t.data
      /\ w.log = t.log \cup {<<"inode">>} /\ w.full = t.full
  <2>1. w = Put(t, f)
    BY <1>2, <1>4 DEF Put
  <2>2. /\ w \in Copies /\ w.ip = f /\ w.dip = f /\ w.map = t.map /\ w.data = t.data
        /\ w.log = t.log \cup {<<"inode">>} /\ w.full = t.full
    <3>1. t \in Copies
      BY <1>3
    <3> QED
      <4>1. IsPut(w, t, f)
        BY <2>1, <3>1, IupdateIs
      <4> QED
        BY <4>1 DEF IsPut
  <2> QED
    BY <1>4, <2>2
<1>6. w.log \subseteq Bitmaps \cup {<<"inode">>}
  BY <1>3, <1>5
<1>7. Fits(w.log)
  BY <1>6, FreeingFits
<1>8. PICK T, U : T = CopyTable(i, s) /\ U = CopyTable(i, w)
  OBVIOUS
<1>9. TableFits(T, s.map) /\ T \in [Inodes -> [Slots -> 0 .. NBlocks]]
  BY <1>8 DEF CopiesOK, TableFits
<1>10. \A j \in Inodes \ {i} : \A k \in Slots : U[j][k] = T[j][k]
  BY <1>3, <1>5, <1>8, CopyTableAt
<1>11. \A k \in Slots : U[i][k] = 0
  <2> SUFFICES ASSUME NEW k \in Slots PROVE U[i][k] = 0
    OBVIOUS
  <2>1. U[i][k] = At(w.ip, w.data, k)
    BY <1>8, CopyTableAt
  <2>2. \A n \in 0 .. NDIRECT : w.ip.addrs[n] = 0
    BY <1>1, <1>5 DEF NoAddrs
  <2>3. NDIRECT \in 0 .. NDIRECT /\ (k < NDIRECT => k \in 0 .. NDIRECT)
    BY Sizes DEF Slots
  <2> QED
    BY <2>1, <2>2, <2>3 DEF At
<1>12. U \in [Inodes -> [Slots -> 0 .. NBlocks]]
  <2>1. U = [j \in Inodes |-> [k \in Slots |-> U[j][k]]]
    BY <1>8 DEF CopyTable, Table
  <2>2. \A j \in Inodes : \A k \in Slots : U[j][k] \in 0 .. NBlocks
    BY <1>9, <1>10, <1>11, Sizes
  <2> QED
    BY <2>1, <2>2
<1>13. PICK V : V = Emptied(T, i)
  OBVIOUS
<1>14. V \in [Inodes -> [Slots -> 0 .. NBlocks]]
  BY <1>9, <1>13, Sizes DEF Emptied
<1>15. (\A k \in Slots : V[i][k] = 0) /\ \A j \in Inodes \ {i} : \A k \in Slots : V[j][k] = T[j][k]
  BY <1>9, <1>13 DEF Emptied
<1>16. U = V
  <2>1. \A j \in Inodes : \A k \in Slots : U[j][k] = V[j][k]
    BY <1>10, <1>11, <1>15
  <2> QED
    BY <1>12, <1>14, <2>1, SameTable
<1>17. PICK m : m = s.map
  OBVIOUS
<1>18. PICK n : n = w.map
  OBVIOUS
<1>19. n = m \ InSlots(T, i)
  BY <1>3, <1>5, <1>8, <1>17, <1>18 DEF InSlots
<1>20. TableFits(CopyTable(i, w), w.map)
  <2>1. TableFits(V, n)
    BY <1>9, <1>13, <1>17, <1>19, SlotsEmptied
  <2> QED
    BY <1>8, <1>16, <1>18, <2>1
<1> QED
  BY <1>3, <1>5, <1>7, <1>8, <1>10, <1>20 DEF CopiesOK, Fits

-----------------------------------------------------------------------------
(***************************************************************************)
(* The blocks of the files: the table of the inodes on the disk, and the      *)
(* bytes that the calls wrote in the blocks that it names.                   *)
(***************************************************************************)
\* The blocks of a file hold the bytes that were written.
FileHeld(i) ==
  /\ Len(contents[i]) = inode[i].size /\ inode[i].size <= MAXFILE * BSIZE
  /\ \A at \in 0 .. inode[i].size - 1 :
       /\ Table(inode, data)[i][at \div BSIZE] # 0
       /\ data[Table(inode, data)[i][at \div BSIZE]][at % BSIZE] = contents[i][at + 1]

DiskOK ==
  panicked = "no" =>
    /\ inode \in [Inodes -> InodeType] /\ dinode = inode /\ data \in DataType
    /\ TableFits(Table(inode, data), bitmap)
    /\ contents \in [Inodes -> Seq(Nat)]
    /\ \A i \in Inodes : FileHeld(i)

LogOK == logged \in Nat /\ logged <= MAXOPBLOCKS

\* A write that is not finished still has its descriptor, and bytes to write.
WriteOK ==
  \A p \in Procs : task[p].op = "write" =>
    /\ task[p].n \in Nat \ {0} /\ task[p].v \in Nat
    /\ ftable[task[p].of].type = "FD_INODE"
    /\ \E fd \in Fds : ofile[p][fd] = task[p].of

OffOK == \A f \in Files : ftable[f].off \in Nat

\* No free block was freed.
PanicOK == panicked # "freeing_free"

ContentInv == DiskOK /\ LogOK /\ PanicOK /\ WriteOK /\ OffOK

-----------------------------------------------------------------------------
(* What a transaction leaves on the disk *)

\* The copy that a transaction begins with.
LEMMA DiskIsCopy ==
  ASSUME DiskOK, panicked = "no", NEW i \in Inodes
  PROVE  /\ Disk(i) \in CopiesOK(i) /\ CopyTable(i, Disk(i)) = Table(inode, data)
         /\ inode \in [Inodes -> InodeType] /\ Disk(i).ip = inode[i] /\ Disk(i).dip = inode[i]
         /\ Disk(i).map = bitmap /\ Disk(i).data = data /\ Disk(i).log = {} /\ Disk(i).full = FALSE
         /\ Holding(i, Disk(i), contents[i]) /\ Len(contents[i]) = inode[i].size
         /\ inode[i].size \in Nat /\ inode[i].size <= MAXFILE * BSIZE /\ contents[i] \in Seq(Nat)
<1>1. /\ inode \in [Inodes -> InodeType] /\ dinode = inode /\ data \in DataType
      /\ TableFits(Table(inode, data), bitmap) /\ FileHeld(i) /\ contents \in [Inodes -> Seq(Nat)]
  BY DEF DiskOK
<1>2. PICK s : s = Disk(i)
  OBVIOUS
<1>3. s = [ip |-> inode[i], dip |-> inode[i], map |-> bitmap, data |-> data,
           log |-> {}, full |-> FALSE, addr |-> 0]
  BY <1>1, <1>2 DEF Disk
<1>4. inode[i] \in InodeType /\ inode[i].size \in Nat
  BY <1>1 DEF InodeType
<1>5. bitmap \in SUBSET Blocks
  BY <1>1 DEF TableFits
<1>6. 0 \in 0 .. NBlocks
  BY Sizes
<1>7. s \in Copies
  BY <1>1, <1>3, <1>4, <1>5, <1>6 DEF Copies
<1>8. [inode EXCEPT ![i] = s.ip] = inode
  BY <1>1, <1>3
<1>9. s.data = data /\ s.map = bitmap /\ s.log = {} /\ s.ip = inode[i] /\ s.dip = inode[i] /\ s.full = FALSE
  BY <1>3
<1>10. CopyTable(i, s) = Table(inode, data)
  BY <1>8, <1>9 DEF CopyTable
<1>11. s \in CopiesOK(i)
  BY <1>1, <1>7, <1>9, <1>10, FS_EmptySet DEF CopiesOK
<1>12. Holding(i, s, contents[i])
  BY <1>1, <1>9, <1>10 DEF Holding, FileHeld
<1>13. Len(contents[i]) = inode[i].size /\ inode[i].size <= MAXFILE * BSIZE /\ contents[i] \in Seq(Nat)
  BY <1>1 DEF FileHeld
<1> QED
  BY <1>1, <1>2, <1>4, <1>9, <1>10, <1>11, <1>12, <1>13

\* The bytes of the other files stay where they are.
Others(i, s) ==
  \A j \in Inodes \ {i} : \A k \in Slots : Table(inode, data)[j][k] # 0 /\ k # MAXFILE =>
    /\ CopyTable(i, s)[j][k] = Table(inode, data)[j][k]
    /\ s.data[CopyTable(i, s)[j][k]] = data[Table(inode, data)[j][k]]

\* A copy that the end of the transaction may write.
Saved(i, s, c) ==
  /\ s \in CopiesOK(i) /\ s.dip = s.ip /\ c \in Seq(Nat) /\ Len(c) = s.ip.size
  /\ s.ip.size <= MAXFILE * BSIZE /\ Holding(i, s, c) /\ Others(i, s)

\* The end of a transaction whose copy may be written keeps the disk in order; a panic ends all calls.
LEMMA DiskStep ==
  ASSUME DiskOK, panicked = "no", NEW i \in Inodes, NEW s, NEW c, NEW D,
         s.full = FALSE => Saved(i, s, c) /\ contents' = [contents EXCEPT ![i] = c],
         s.full \in BOOLEAN, s.full = TRUE => panicked' # "no", ends_op(i, s, D)
  PROVE  DiskOK'
<1> SUFFICES ASSUME panicked' = "no"
             PROVE  /\ inode' \in [Inodes -> InodeType] /\ dinode' = inode' /\ data' \in DataType
                    /\ TableFits(Table(inode', data'), bitmap')
                    /\ contents' \in [Inodes -> Seq(Nat)]
                    /\ \A j \in Inodes : FileHeld(j)'
  BY DEF DiskOK
<1>1. /\ inode' = [inode EXCEPT ![i] = s.ip] /\ dinode' = [dinode EXCEPT ![i] = s.dip]
      /\ bitmap' = s.map /\ data' = s.data /\ s.full = FALSE
  BY DEF ends_op
<1>2. Saved(i, s, c) /\ contents' = [contents EXCEPT ![i] = c]
  BY <1>1
<1>3. /\ inode \in [Inodes -> InodeType] /\ dinode = inode
      /\ contents \in [Inodes -> Seq(Nat)] /\ \A j \in Inodes : FileHeld(j)
  BY DEF DiskOK
<1>4. s \in Copies /\ TableFits(CopyTable(i, s), s.map) /\ s.dip = s.ip /\ s.ip \in InodeType /\ s.data \in DataType
  BY <1>2 DEF Saved, CopiesOK, Copies
<1>5. inode' \in [Inodes -> InodeType] /\ dinode' = inode' /\ data' \in DataType
  BY <1>1, <1>3, <1>4
<1>6. Table(inode', data') = CopyTable(i, s)
  BY <1>1 DEF CopyTable
<1>7. TableFits(Table(inode', data'), bitmap')
  BY <1>1, <1>4, <1>6
<1>8. contents' \in [Inodes -> Seq(Nat)]
  BY <1>2, <1>3 DEF Saved
<1>9. FileHeld(i)'
  <2>1. inode'[i] = s.ip /\ contents'[i] = c
    BY <1>1, <1>2, <1>3
  <2>2. /\ Len(c) = s.ip.size /\ s.ip.size <= MAXFILE * BSIZE
        /\ \A at \in 0 .. s.ip.size - 1 :
             /\ CopyTable(i, s)[i][at \div BSIZE] # 0
             /\ s.data[CopyTable(i, s)[i][at \div BSIZE]][at % BSIZE] = c[at + 1]
    BY <1>2 DEF Saved, Holding
  <2> QED
    BY <1>1, <1>6, <2>1, <2>2 DEF FileHeld
<1>10. ASSUME NEW j \in Inodes \ {i}
       PROVE  FileHeld(j)'
  <2>1. inode'[j] = inode[j] /\ contents'[j] = contents[j] /\ FileHeld(j) /\ inode[j].size \in Nat
    BY <1>1, <1>2, <1>3 DEF InodeType
  <2>2. PICK T, U : T = Table(inode, data) /\ U = CopyTable(i, s)
    OBVIOUS
  <2>3. \A k \in Slots : T[j][k] # 0 /\ k # MAXFILE => U[j][k] = T[j][k] /\ s.data[U[j][k]] = data[T[j][k]]
    BY <1>2, <2>2 DEF Saved, Others
  <2>4. /\ Len(contents[j]) = inode[j].size /\ inode[j].size <= MAXFILE * BSIZE
        /\ \A at \in 0 .. inode[j].size - 1 :
             T[j][at \div BSIZE] # 0 /\ data[T[j][at \div BSIZE]][at % BSIZE] = contents[j][at + 1]
    BY <2>1, <2>2 DEF FileHeld
  <2>5. ASSUME NEW at \in 0 .. inode[j].size - 1
        PROVE  U[j][at \div BSIZE] # 0 /\ s.data[U[j][at \div BSIZE]][at % BSIZE] = contents[j][at + 1]
    <3>1. at \in Nat /\ at < MAXFILE * BSIZE
      <4>1. PICK m \in Nat : m = MAXFILE * BSIZE
        BY Sizes
      <4>2. PICK z \in Nat : z = inode[j].size
        BY <2>1
      <4>3. at \in 0 .. z - 1 /\ z <= m
        BY <2>4, <4>1, <4>2
      <4> QED
        BY <4>1, <4>3
    <3>2. PICK k \in Nat : k = at \div BSIZE /\ k < MAXFILE
      BY <3>1, Sizes, DivBelow, DivMod
    <3>3. k \in Slots /\ k # MAXFILE
      BY <3>2, Sizes DEF Slots
    <3> QED
      BY <2>3, <2>4, <3>2, <3>3
  <2> QED
    BY <1>1, <1>6, <2>1, <2>2, <2>4, <2>5 DEF FileHeld
<1> QED
  BY <1>5, <1>7, <1>8, <1>9, <1>10

\* A change of the number of names is written, and nothing else.
Relink(i, n) == iupdate([Disk(i) EXCEPT !.ip.nlink = n])
IsRelinked(i, w) ==
  /\ Saved(i, w, contents[i]) /\ w.full = FALSE /\ w.log = {<<"inode">>} /\ w.data = data
  /\ CopyTable(i, w) = Table(inode, data)

\* open and unlink change the number of names of an inode and leave its blocks.
LEMMA Relinked ==
  ASSUME DiskOK, panicked = "no", NEW i \in Inodes, NEW n \in Int,
         NEW w, w = Relink(i, n)
  PROVE  IsRelinked(i, w)
<1>1. PICK s : s = Disk(i)
  OBVIOUS
<1>2. /\ s \in CopiesOK(i) /\ CopyTable(i, s) = Table(inode, data)
      /\ inode \in [Inodes -> InodeType] /\ s.ip = inode[i] /\ s.dip = inode[i]
      /\ s.map = bitmap /\ s.data = data /\ s.log = {} /\ s.full = FALSE
      /\ Holding(i, s, contents[i]) /\ Len(contents[i]) = inode[i].size
      /\ inode[i].size \in Nat /\ inode[i].size <= MAXFILE * BSIZE /\ contents[i] \in Seq(Nat)
  BY <1>1, DiskIsCopy
<1>3. s \in Copies
  BY <1>2 DEF CopiesOK
<1>4. PICK a \in InodeType : a = [inode[i] EXCEPT !.nlink = n] /\ a.addrs = inode[i].addrs /\ a.size = inode[i].size
  <2>1. PICK ip \in InodeType : ip = inode[i]
    BY <1>2
  <2>2. PICK a : a = [ip EXCEPT !.nlink = n]
    OBVIOUS
  <2>3. a = [nlink |-> n, size |-> ip.size, addrs |-> ip.addrs]
    BY <2>2 DEF InodeType
  <2>4. a \in InodeType /\ a.addrs = ip.addrs /\ a.size = ip.size
    BY <2>3 DEF InodeType
  <2> QED
    BY <2>1, <2>2, <2>4
<1>5. w = Put(s, a)
  <2>1. w = iupdate([s EXCEPT !.ip.nlink = n])
    BY <1>1 DEF Relink
  <2>2. [s EXCEPT !.ip.nlink = n] = [s EXCEPT !.ip = a]
    <3>1. [s EXCEPT !.ip.nlink = n] = [s EXCEPT !.ip = [s.ip EXCEPT !.nlink = n]]
      BY <1>3 DEF Copies
    <3> QED
      BY <1>2, <1>4, <3>1
  <2> QED
    BY <2>1, <2>2 DEF Put
<1>6. IsPut(w, s, a)
  BY <1>3, <1>4, <1>5, IupdateIs
<1>7. /\ w \in Copies /\ w.ip = a /\ w.dip = a /\ w.map = bitmap /\ w.data = data
      /\ w.log = {<<"inode">>} /\ w.full = FALSE
  BY <1>2, <1>6 DEF IsPut
<1>8. PICK T, U : T = Table(inode, data) /\ U = CopyTable(i, w)
  OBVIOUS
<1>9. \A j \in Inodes : \A k \in Slots : U[j][k] = T[j][k]
  <2>1. \A j \in Inodes : \A k \in Slots :
          U[j][k] = IF j = i THEN At(w.ip, w.data, k) ELSE At(inode[j], w.data, k)
    BY <1>2, <1>8, CopyTableAt
  <2>2. \A j \in Inodes : \A k \in Slots : T[j][k] = At(inode[j], data, k)
    BY <1>8 DEF Table
  <2>3. \A k \in Slots : At(w.ip, w.data, k) = At(inode[i], data, k)
    BY <1>4, <1>7 DEF At
  <2> QED
    BY <1>7, <2>1, <2>2, <2>3
<1>10. U = T
  <2>1. T \in [Inodes -> [Slots -> 0 .. NBlocks]]
    BY <1>2, <1>8 DEF CopiesOK, TableFits
  <2>2. U = [j \in Inodes |-> [k \in Slots |-> U[j][k]]]
    BY <1>8 DEF CopyTable, Table
  <2>3. U \in [Inodes -> [Slots -> 0 .. NBlocks]]
    BY <1>9, <2>1, <2>2
  <2> QED
    BY <1>9, <2>1, <2>3, SameTable
<1>11. w \in CopiesOK(i)
  <2>1. TableFits(T, bitmap)
    BY <1>2, <1>8 DEF CopiesOK
  <2>2. IsFiniteSet(w.log)
    BY <1>7, FS_Singleton
  <2> QED
    BY <1>7, <1>8, <1>10, <2>1, <2>2 DEF CopiesOK
<1>12. Holding(i, w, contents[i])
  <2>1. \A at \in 0 .. inode[i].size - 1 :
          T[i][at \div BSIZE] # 0 /\ data[T[i][at \div BSIZE]][at % BSIZE] = contents[i][at + 1]
    BY <1>2, <1>8 DEF Holding
  <2>2. w.ip.size = inode[i].size /\ w.data = data /\ CopyTable(i, w) = T
    BY <1>4, <1>7, <1>8, <1>10
  <2> QED
    BY <2>1, <2>2 DEF Holding
<1>13. Others(i, w)
  BY <1>7, <1>8, <1>10 DEF Others
<1> QED
  BY <1>2, <1>4, <1>7, <1>8, <1>10, <1>11, <1>12, <1>13 DEF Saved, IsRelinked

\* A file that stays as it is.
LEMMA DiskIsSaved ==
  ASSUME DiskOK, panicked = "no", NEW i \in Inodes
  PROVE  Saved(i, Disk(i), contents[i])
<1>1. PICK s : s = Disk(i)
  OBVIOUS
<1>2. /\ s \in CopiesOK(i) /\ CopyTable(i, s) = Table(inode, data)
      /\ inode \in [Inodes -> InodeType] /\ s.ip = inode[i] /\ s.dip = inode[i]
      /\ s.map = bitmap /\ s.data = data /\ s.log = {} /\ s.full = FALSE
      /\ Holding(i, s, contents[i]) /\ Len(contents[i]) = inode[i].size
      /\ inode[i].size \in Nat /\ inode[i].size <= MAXFILE * BSIZE /\ contents[i] \in Seq(Nat)
  BY <1>1, DiskIsCopy
<1>3. Others(i, s)
  BY <1>2 DEF Others
<1> QED
  BY <1>1, <1>2, <1>3 DEF Saved

\* Contents that do not change.
LEMMA SameContents ==
  ASSUME DiskOK, panicked = "no", NEW i \in Inodes, contents' = contents
  PROVE  contents' = [contents EXCEPT ![i] = contents[i]]
BY DEF DiskOK

\* The number of blocks of a log that holds the inode at most.
LEMMA ShortLog ==
  /\ Cardinality({} \cup {}) = 0 /\ 0 \in Nat /\ 0 <= MAXOPBLOCKS
  /\ Cardinality({<<"inode">>} \cup Linked) \in Nat /\ Cardinality({<<"inode">>} \cup Linked) <= MAXOPBLOCKS
  /\ Fits({<<"inode">>})
<1>1. PICK x : x = <<"inode">>
  OBVIOUS
<1>2. IsFiniteSet({x}) /\ Cardinality({x}) = 1
  BY FS_Singleton
<1>3. {} \cup {} = {}
  OBVIOUS
<1>4. Cardinality({x} \cup Linked) \in Nat /\ Cardinality({x} \cup Linked) <= 1 + 5
  BY <1>2, DirectoryBlocks, Together
<1>5. Fits({x})
  BY <1>2, FileAssumption DEF Fits
<1>6. MAXOPBLOCKS \in Nat /\ MAXOPBLOCKS >= 6
  BY FileAssumption
<1> QED
  BY <1>1, <1>3, <1>4, <1>5, <1>6, FS_EmptySet

\* open writes the inode that it makes, or nothing.
LEMMA OpenSaves ==
  ASSUME DiskOK, panicked = "no", NEW i \in Inodes, opens(i)
  PROVE  DiskOK' /\ LogOK'
<1>1. contents' = contents
  BY DEF opens
<1>2. PICK c : c = contents[i]
  OBVIOUS
<1>3. contents' = [contents EXCEPT ![i] = c]
  BY <1>1, <1>2, SameContents
<1>4. CASE inode[i].nlink = -1
  <2>1. PICK t : t = Relink(i, 1)
    OBVIOUS
  <2>2. ends_op(i, t, Linked)
    BY <1>4, <2>1 DEF opens, Relink
  <2>3. Saved(i, t, c) /\ t.full = FALSE /\ t.log = {<<"inode">>}
    <3>1. 1 \in Int /\ IsRelinked(i, t)
      BY <2>1, Relinked
    <3> QED
      BY <1>2, <3>1 DEF IsRelinked
  <2>4. DiskOK'
    <3>1. t.full \in BOOLEAN
      BY <2>3
    <3> QED
      BY <1>3, <2>2, <2>3, <3>1, DiskStep
  <2>5. LogOK'
    BY <2>2, <2>3, ShortLog DEF ends_op, LogOK
  <2> QED
    BY <2>4, <2>5
<1>5. CASE inode[i].nlink # -1
  <2>1. PICK t : t = Disk(i)
    OBVIOUS
  <2>2. ends_op(i, t, {})
    BY <1>5, <2>1 DEF opens
  <2>3. Saved(i, t, c) /\ t.full = FALSE /\ t.log = {}
    BY <1>2, <2>1, DiskIsCopy, DiskIsSaved
  <2>4. DiskOK'
    <3>1. t.full \in BOOLEAN
      BY <2>3
    <3> QED
      BY <1>3, <2>2, <2>3, <3>1, DiskStep
  <2>5. LogOK'
    BY <2>2, <2>3, ShortLog DEF ends_op, LogOK
  <2> QED
    BY <2>4, <2>5
<1> QED
  BY <1>4, <1>5

\* A file that is freed is empty, and its blocks are free.
LEMMA FreedIsSaved ==
  ASSUME DiskOK, panicked = "no", NEW i \in Inodes, NEW s \in CopiesOK(i), s.full = FALSE,
         s.log \subseteq {<<"inode">>}, s.data = data, CopyTable(i, s) = Table(inode, data),
         NEW w, w = iupdate([itrunc(s) EXCEPT !.ip = FreeInode])
  PROVE  Saved(i, w, <<>>) /\ w.full = FALSE /\ Fits(w.log)
<1>1. inode \in [Inodes -> InodeType]
  BY DiskIsCopy
<1>2. /\ w \in CopiesOK(i) /\ w.ip = FreeInode /\ w.dip = FreeInode /\ w.full = s.full
      /\ w.data = s.data
      /\ \A j \in Inodes \ {i} : \A k \in Slots : CopyTable(i, w)[j][k] = CopyTable(i, s)[j][k]
      /\ Fits(w.log)
  BY <1>1, FreeInodeFrees
<1>3. FreeInode.size = 0 /\ 0 <= MAXFILE * BSIZE
  BY Sizes DEF FreeInode
<1>4. Holding(i, w, <<>>)
  BY <1>2, <1>3 DEF Holding
<1>5. Others(i, w)
  BY <1>2 DEF Others
<1>6. <<>> \in Seq(Nat) /\ Len(<<>>) = 0
  OBVIOUS
<1> QED
  BY <1>2, <1>3, <1>4, <1>5, <1>6 DEF Saved

\* unlink writes the inode, or frees it.
LEMMA UnlinkSaves ==
  ASSUME DiskOK, NEW p \in Procs, NEW i \in Inodes, sys_unlink(p, i)
  PROVE  DiskOK' /\ LogOK'
<1>1. panicked = "no"
  BY DEF sys_unlink, Calling
<1>2. PICK s : s = Relink(i, 0)
  OBVIOUS
<1>3. PICK t : /\ t = IF iref[i] = 0 THEN iupdate([itrunc(s) EXCEPT !.ip = FreeInode]) ELSE s
               /\ ends_op(i, t, Unlinked)
  BY <1>2 DEF sys_unlink, Relink
<1>4. contents' = [contents EXCEPT ![i] = IF iref[i] = 0 THEN <<>> ELSE contents[i]]
  BY DEF sys_unlink
<1>5. /\ Saved(i, s, contents[i]) /\ s.full = FALSE /\ s.log = {<<"inode">>} /\ s.data = data
      /\ CopyTable(i, s) = Table(inode, data)
  <2>1. 0 \in Int /\ IsRelinked(i, s)
    BY <1>1, <1>2, Relinked
  <2> QED
    BY <2>1 DEF IsRelinked
<1>6. PICK c : c = IF iref[i] = 0 THEN <<>> ELSE contents[i]
  OBVIOUS
<1>7. Saved(i, t, c) /\ t.full = FALSE /\ Fits(t.log)
  <2>1. CASE iref[i] = 0
    <3>1. s \in CopiesOK(i)
      BY <1>5 DEF Saved
    <3>2. t = iupdate([itrunc(s) EXCEPT !.ip = FreeInode]) /\ c = <<>>
      BY <1>3, <1>6, <2>1
    <3>3. Saved(i, t, <<>>) /\ t.full = FALSE /\ Fits(t.log)
      BY <1>1, <1>5, <3>1, <3>2, FreedIsSaved
    <3> QED
      BY <3>2, <3>3
  <2>2. CASE iref[i] # 0
    <3>1. t = s /\ c = contents[i]
      BY <1>3, <1>6, <2>2
    <3> QED
      BY <1>5, <3>1, ShortLog
  <2> QED
    BY <2>1, <2>2
<1>8. DiskOK'
  <2>1. contents' = [contents EXCEPT ![i] = c] /\ t.full \in BOOLEAN
    BY <1>4, <1>6, <1>7
  <2> QED
    BY <1>1, <1>3, <1>7, <2>1, DiskStep
<1>9. LogOK'
  BY <1>3, <1>7, FreeingFitsToo DEF ends_op, LogOK
<1> QED
  BY <1>8, <1>9

\* The last close of a file without names frees it.
LEMMA FilecloseSaves ==
  ASSUME DiskOK, FileInv, NEW p \in Procs, fileclose_inode(p)
  PROVE  DiskOK' /\ LogOK'
<1>1. panicked = "no" /\ task[p].op = "FD_INODE"
  BY DEF fileclose_inode
<1>2. PICK i : i = task[p].of /\ iput(i)
  BY DEF fileclose_inode
<1>3. i \in Inodes
  BY <1>1, <1>2 DEF FileInv, TableOK, TaskOK, Idle
<1>4. CASE iref[i] = 1 /\ inode[i].nlink = 0
  <2>1. PICK s : s = Disk(i)
    OBVIOUS
  <2>2. PICK t : t = iupdate([itrunc(s) EXCEPT !.ip = FreeInode]) /\ ends_op(i, t, {})
    BY <1>2, <1>4, <2>1 DEF iput
  <2>3. contents' = [contents EXCEPT ![i] = <<>>]
    BY <1>2, <1>4 DEF iput
  <2>4. /\ s \in CopiesOK(i) /\ s.full = FALSE /\ s.log = {} /\ s.data = data
        /\ CopyTable(i, s) = Table(inode, data)
    BY <1>1, <1>3, <2>1, DiskIsCopy
  <2>5. s.log \subseteq {<<"inode">>}
    BY <2>4
  <2>6. Saved(i, t, <<>>) /\ t.full = FALSE /\ Fits(t.log)
    BY <1>1, <1>3, <2>2, <2>4, <2>5, FreedIsSaved
  <2>7. PICK c : c = <<>>
    OBVIOUS
  <2>8. DiskOK'
    <3>1. Saved(i, t, c) /\ contents' = [contents EXCEPT ![i] = c] /\ t.full \in BOOLEAN
      BY <2>3, <2>6, <2>7
    <3> QED
      BY <1>1, <1>3, <2>2, <2>6, <3>1, DiskStep
  <2>9. LogOK'
    BY <2>2, <2>6, FreeingFitsToo DEF ends_op, LogOK
  <2> QED
    BY <2>8, <2>9
<1>5. CASE ~(iref[i] = 1 /\ inode[i].nlink = 0)
  <2>1. logged' = 0 /\ UNCHANGED <<inode, dinode, bitmap, data, contents, panicked>>
    BY <1>2, <1>5 DEF iput
  <2> QED
    BY SMTT(30), <2>1, FileAssumption DEF DiskOK, LogOK, FileHeld
<1> QED
  BY <1>4, <1>5

\* The blocks of an inode are in use, and none is in two slots: itrunc frees each once.
LEMMA NothingFreedTwice ==
  ASSUME DiskOK, panicked = "no", NEW i \in Inodes
  PROVE  ~FreesFree(Disk(i))
<1>1. PICK s : s = Disk(i)
  OBVIOUS
<1>2. s.ip = inode[i] /\ s.map = bitmap /\ s.data = data
  BY <1>1, DiskIsCopy
<1>3. PICK T : T = Table(inode, data)
  OBVIOUS
<1>4. TableFits(T, bitmap)
  BY <1>3 DEF DiskOK
<1>5. \A k \in Slots : T[i][k] = At(s.ip, s.data, k)
  BY <1>2, <1>3 DEF Table
<1>6. ASSUME NEW k \in Slots, At(s.ip, s.data, k) # 0
      PROVE  At(s.ip, s.data, k) \in s.map /\ \A l \in Slots \ {k} : At(s.ip, s.data, l) # At(s.ip, s.data, k)
  <2>1. T[i][k] = At(s.ip, s.data, k) /\ T[i][k] # 0
    BY <1>5, <1>6
  <2>2. T[i][k] \in bitmap
    BY <1>4, <2>1, InSlotIsMarked
  <2>3. \A l \in Slots \ {k} : T[i][l] # T[i][k]
    BY <1>4, <2>1 DEF TableFits
  <2> QED
    BY <1>2, <1>5, <2>1, <2>2, <2>3
<1>7. ~FreesFree(s)
  BY <1>6 DEF FreesFree, At, Slots
<1> QED
  BY <1>1, <1>7

\* unlink and a last close free no block that is free.
LEMMA PanicKept ==
  ASSUME FileInv, DiskOK, PanicOK, FileNext
  PROVE  PanicOK'
<1>1. ASSUME NEW p \in Procs, NEW i \in Inodes, sys_unlink(p, i) PROVE PanicOK'
  <2>1. panicked = "no" /\ panicked' = IF iref[i] = 0 /\ FreesFree(Disk(i)) THEN "freeing_free" ELSE panicked
    BY <1>1 DEF sys_unlink, Calling
  <2> QED
    BY <2>1, NothingFreedTwice DEF PanicOK
<1>2. ASSUME NEW p \in Procs, fileclose_inode(p) PROVE PanicOK'
  <2>1. panicked = "no" /\ task[p].op = "FD_INODE" /\ iput(task[p].of)
    BY <1>2 DEF fileclose_inode
  <2>2. PICK i \in Inodes : i = task[p].of
    BY <2>1 DEF FileInv, TableOK, TaskOK, Idle
  <2>3. panicked' = panicked \/ panicked' = IF FreesFree(Disk(i)) THEN "freeing_free" ELSE panicked
    BY <2>1, <2>2 DEF iput
  <2> QED
    BY <2>1, <2>3, NothingFreedTwice DEF PanicOK
<1>3. ASSUME NEW p \in Procs, filewrite(p) PROVE PanicOK'
  <2>1. panicked' = panicked \/ panicked' = "out_of_blocks"
    BY <1>3 DEF filewrite
  <2> QED
    BY <2>1 DEF PanicOK
<1>4. ASSUME NEW p \in Procs, NEW i \in Inodes, (\E m \in Modes : sys_open(p, i, m)) \/ sys_open_fails(p, i)
      PROVE  PanicOK'
  BY <1>4 DEF sys_open, sys_open_fails, opens, PanicOK
<1>5. ASSUME NEW p \in Procs, NEW fd \in Fds,
             \/ sys_dup(p, fd) \/ sys_close(p, fd) \/ sys_read(p, fd)
             \/ \E n \in WriteSizes, v \in Bytes : sys_write(p, fd, n, v)
      PROVE  PanicOK'
  BY <1>5 DEF sys_dup, sys_close, close, sys_read, sys_write, PanicOK
<1>6. ASSUME NEW p \in Procs,
             \/ sys_pipe(p) \/ sys_pipe_fails(p) \/ iput_ref(p) \/ fileclose_pipe(p) \/ filewrite_fails(p)
             \/ exit(p) \/ \E c \in Procs : fork(p, c)
      PROVE  PanicOK'
  BY <1>6 DEF sys_pipe, sys_pipe_fails, iput_ref, fileclose_pipe, filewrite_fails, exit, close, fork, PanicOK
<1> QED
  BY <1>1, <1>2, <1>3, <1>4, <1>5, <1>6 DEF FileNext

\* The bytes of a file after a write.
LEMMA OverwrittenIs ==
  ASSUME NEW c \in Seq(Nat), NEW off \in Nat, off <= Len(c), NEW n \in Nat \ {0}, NEW v \in Nat
  PROVE  /\ Overwritten(c, off, n, v) \in Seq(Nat)
         /\ Len(Overwritten(c, off, n, v)) = IF off + n > Len(c) THEN off + n ELSE Len(c)
<1>1. PICK m \in Nat : m = IF off + n > Len(c) THEN off + n ELSE Len(c)
  OBVIOUS
<1>2. PICK d : d = Overwritten(c, off, n, v)
  OBVIOUS
<1>3. d = [k \in 1 .. m |-> IF k \in off + 1 .. off + n THEN v ELSE c[k]]
  BY <1>1, <1>2 DEF Overwritten
<1>4. ASSUME NEW k \in 1 .. m, k \notin off + 1 .. off + n PROVE c[k] \in Nat
  <2>1. k \in 1 .. Len(c)
    BY <1>1, <1>4
  <2> QED
    BY <2>1
<1>5. d \in [1 .. m -> Nat]
  BY <1>3, <1>4
<1>6. d \in Seq(Nat) /\ Len(d) = m
  BY <1>5
<1> QED
  BY <1>1, <1>2, <1>6

\* The bytes of one transaction: at least one block of them.
LEMMA TransactionSize ==
  \E b \in Nat \ {0} : max = b * BSIZE /\ 2 * b + 4 <= MAXOPBLOCKS
<1>1. PICK b \in Int : b = (MAXOPBLOCKS - 1 - 1 - 2) \div 2
  BY FileAssumption
<1>2. b \in Nat \ {0} /\ 2 * b + 4 <= MAXOPBLOCKS
  BY <1>1, FileAssumption
<1>3. max = b * BSIZE
  BY <1>1 DEF max
<1> QED
  BY <1>2, <1>3

\* What one turn of filewrite works on.
Turn(p, i, off, n, v) ==
  /\ i \in Inodes /\ off \in Nat /\ n \in Nat \ {0} /\ v \in Nat
  /\ i = ftable[task[p].of].of /\ off = ftable[task[p].of].off
  /\ n = Smaller(task[p].n, max) /\ v = task[p].v
  /\ task[p].of \in Files /\ n <= task[p].n

\* A write that is not finished has an inode, an offset and at least one byte to write, and what it takes fits.
LEMMA FilewriteTurn ==
  ASSUME FileInv, WriteOK, OffOK, NEW p \in Procs, task[p].op = "write"
  PROVE  /\ \E i, off, n, v : Turn(p, i, off, n, v)
         /\ \E b \in Nat \ {0} : 2 * b + 4 <= MAXOPBLOCKS /\ Smaller(task[p].n, max) <= b * BSIZE
<1>1. task[p].of \in Files
  BY DEF FileInv, TableOK, TaskOK, Idle
<1>2. task[p].n \in Nat \ {0} /\ task[p].v \in Nat /\ ftable[task[p].of].type = "FD_INODE"
  BY DEF WriteOK
<1>3. ftable[task[p].of].of \in Inodes
  BY <1>1, <1>2 DEF FileInv, TableOK, EntryOK
<1>4. ftable[task[p].of].off \in Nat
  BY <1>1 DEF OffOK
<1>5. PICK b \in Nat \ {0} : max = b * BSIZE /\ 2 * b + 4 <= MAXOPBLOCKS
  BY TransactionSize
<1>6. PICK m \in Nat \ {0} : m = b * BSIZE
  <2>1. b \in Nat \ {0} /\ BSIZE \in Nat \ {0}
    BY Sizes
  <2>2. b * BSIZE \in Nat /\ b * BSIZE # 0
    BY <2>1
  <2> QED
    BY <2>2
<1>7. PICK n : n = Smaller(task[p].n, m)
  OBVIOUS
<1>8. n \in Nat \ {0} /\ n <= task[p].n /\ n <= m
  BY <1>2, <1>7 DEF Smaller
<1>9. Turn(p, ftable[task[p].of].of, ftable[task[p].of].off, n, task[p].v)
  BY <1>1, <1>2, <1>3, <1>4, <1>5, <1>6, <1>7, <1>8 DEF Turn
<1>10. n = Smaller(task[p].n, max)
  BY <1>5, <1>6, <1>7
<1> QED
  BY <1>5, <1>6, <1>8, <1>9, <1>10

\* One transaction of filewrite.
LEMMA FilewriteSaves ==
  ASSUME DiskOK, FileInv, WriteOK, OffOK, NEW p \in Procs, filewrite(p)
  PROVE  DiskOK' /\ LogOK'
<1>1. panicked = "no" /\ task[p].op = "write"
  BY DEF filewrite
<1>2. PICK i, off, n, v : Turn(p, i, off, n, v)
  BY <1>1, FilewriteTurn
<1>3. PICK b \in Nat : 2 * b + 4 <= MAXOPBLOCKS /\ n <= b * BSIZE
  BY <1>1, <1>2, FilewriteTurn DEF Turn
<1>4. i \in Inodes /\ off \in Nat /\ n \in Nat \ {0} /\ v \in Nat
  BY <1>2 DEF Turn
<1>5. PICK s : s = Disk(i)
  OBVIOUS
<1>6. PICK w : w = writei(s, off, n, v)
  OBVIOUS
<1>7. /\ off <= inode[i].size /\ off + n <= MAXFILE * BSIZE /\ ends_op(i, w, {})
      /\ w.full = TRUE => panicked' # "no"
      /\ contents' = [contents EXCEPT ![i] = IF w.full THEN @ ELSE Overwritten(@, off, n, v)]
  BY <1>2, <1>5, <1>6 DEF filewrite, Turn
<1>8. PICK c \in Seq(Nat) : c = contents[i]
  BY <1>1, <1>4, DiskIsCopy
<1>9. /\ s \in CopiesOK(i) /\ CopyTable(i, s) = Table(inode, data)
      /\ inode \in [Inodes -> InodeType] /\ s.ip = inode[i] /\ s.dip = inode[i]
      /\ s.data = data /\ s.log = {} /\ s.full = FALSE
      /\ Holding(i, s, c) /\ Len(c) = inode[i].size
      /\ inode[i].size \in Nat /\ inode[i].size <= MAXFILE * BSIZE
  BY <1>1, <1>4, <1>5, <1>8, DiskIsCopy
<1>10. Writable(i, s, off, n, v, c) /\ s.dip = s.ip /\ Len(c) = s.ip.size
  BY <1>4, <1>7, <1>9 DEF Writable
<1>11. /\ w \in CopiesOK(i)
       /\ w.full = FALSE => WroteFile(i, s, w, off, n, v, c)
       /\ Cardinality(w.log) <= 2 * b + 4
  BY <1>3, <1>4, <1>6, <1>10, WriteiWrites
<1>12. w.full \in BOOLEAN /\ Cardinality(w.log) \in Nat
  BY <1>11, FS_CardinalityType DEF CopiesOK, Copies
<1>13. PICK d : d = Overwritten(c, off, n, v)
  OBVIOUS
<1>14. d \in Seq(Nat) /\ Len(d) = IF off + n > inode[i].size THEN off + n ELSE inode[i].size
  BY <1>4, <1>7, <1>9, <1>13, OverwrittenIs
<1>15. ASSUME w.full = FALSE
       PROVE  Saved(i, w, d) /\ contents' = [contents EXCEPT ![i] = d]
  <2>1. WroteFile(i, s, w, off, n, v, c)
    BY <1>11, <1>15
  <2>2. w.dip = w.ip /\ w.ip.size = (IF off + n > s.ip.size THEN off + n ELSE s.ip.size) /\ Holding(i, w, d)
    BY <1>13, <2>1 DEF WroteFile
  <2>3. Others(i, w)
    BY <1>9, <2>1 DEF WroteFile, Others
  <2>4. PICK M \in Nat : M = MAXFILE * BSIZE
    BY Sizes
  <2>5. Len(d) = w.ip.size /\ w.ip.size <= M
    BY <1>4, <1>7, <1>9, <1>14, <2>2, <2>4
  <2>6. Saved(i, w, d)
    BY <1>11, <1>14, <2>2, <2>3, <2>4, <2>5 DEF Saved
  <2>7. contents' = [contents EXCEPT ![i] = d]
    BY <1>7, <1>8, <1>13, <1>15
  <2> QED
    BY <2>6, <2>7
<1>16. DiskOK'
  BY <1>1, <1>4, <1>7, <1>12, <1>15, DiskStep
<1>17. LogOK'
  <2>1. w.log \cup {} = w.log /\ logged' = Cardinality(w.log \cup {})
    BY <1>7 DEF ends_op
  <2> QED
    BY <1>3, <1>11, <1>12, <2>1, FileAssumption DEF LogOK
<1> QED
  BY <1>16, <1>17

-----------------------------------------------------------------------------
(* A write under way keeps its file, and offsets are numbers *)

\* A step that no write notices.
WritesStay ==
  /\ \A f \in Files : ftable'[f].off \in Nat
  /\ \A p \in Procs : task'[p].op = "write" =>
       /\ task[p].op = "write" /\ task'[p].of = task[p].of /\ task'[p].v = task[p].v
       /\ task'[p].n \in Nat \ {0}
       /\ \A fd \in Fds : ofile'[p][fd] = ofile[p][fd]
       /\ ftable'[task[p].of].type = ftable[task[p].of].type

\* A step that no write notices keeps what is known of writes and offsets.
LEMMA StayKeeps ==
  ASSUME WriteOK, WritesStay
  PROVE  WriteOK' /\ OffOK'
<1>1. OffOK'
  BY DEF WritesStay, OffOK
<1>2. WriteOK'
  BY DEF WritesStay, WriteOK
<1> QED
  BY <1>1, <1>2

\* The file of a write is open, and its process is calling nothing else.
LEMMA WriterIsOpen ==
  ASSUME FileInv, WriteOK, NEW p \in Procs, task[p].op = "write"
  PROVE  /\ task[p].of \in Files /\ task[p].of \notin Unused /\ ~Calling(p) /\ p \in live
         /\ task[p].n \in Nat \ {0} /\ task[p].v \in Nat
         /\ \E fd \in Fds : <<p, fd>> \in Users(task[p].of)
<1>1. PICK fd \in Fds : ofile[p][fd] = task[p].of
  BY DEF WriteOK
<1>2. task[p].of \in Files
  BY DEF FileInv, TableOK, TaskOK, Idle
<1>3. ofile[p][fd] # NoFile
  BY <1>1, <1>2, TableFinite
<1>4. <<p, fd>> \in Users(task[p].of) /\ ftable[task[p].of].ref >= 1
  BY <1>1, <1>3, OpenIsCounted DEF FileInv
<1>5. task[p].of \notin Unused
  BY <1>4 DEF Unused
<1>6. ~Calling(p) /\ p \in live
  BY CallsAreLive
<1> QED
  BY <1>2, <1>4, <1>5, <1>6 DEF WriteOK

\* Calls that leave the table alone.
LEMMA QuietWrites ==
  ASSUME FileInv, WriteOK, OffOK, UNCHANGED <<ofile, ftable>>,
         \A q \in Procs : task'[q] = task[q] \/ task'[q].op # "write"
  PROVE  WriteOK' /\ OffOK'
<1>1. \A f \in Files : ftable'[f].off \in Nat
  BY DEF OffOK
<1>2. \A q \in Procs : task'[q].op = "write" => task'[q] = task[q] /\ task[q].n \in Nat \ {0}
  BY DEF WriteOK
<1>3. WritesStay
  BY <1>1, <1>2 DEF WritesStay
<1> QED
  BY <1>3, StayKeeps

\* The call of one process ends.
LEMMA EndedCall ==
  ASSUME FileInv, NEW p \in Procs, task' = [task EXCEPT ![p] = Idle]
  PROVE  \A q \in Procs : task'[q] = task[q] \/ task'[q].op # "write"
<1>1. task = [q \in Procs |-> task[q]] /\ Idle.op # "write"
  BY DEF FileInv, TableOK, Idle
<1> QED
  BY <1>1

\* The calls that fail, unlink, and the ends of closes and writes leave descriptors and files alone.
LEMMA QuietCalls ==
  ASSUME FileInv, WriteOK, OffOK, NEW p \in Procs,
         \/ \E i \in Inodes : sys_open_fails(p, i) \/ sys_unlink(p, i)
         \/ sys_pipe_fails(p) \/ fileclose_inode(p) \/ iput_ref(p) \/ fileclose_pipe(p)
         \/ filewrite_fails(p)
  PROVE  WriteOK' /\ OffOK'
<1>1. CASE \E i \in Inodes : sys_open_fails(p, i)
  <2>1. task' = task /\ UNCHANGED <<ofile, ftable>>
    BY <1>1, GiveBackIsQuiet DEF sys_open_fails, tableVars
  <2> QED
    BY <2>1, QuietWrites
<1>2. CASE \E i \in Inodes : sys_unlink(p, i)
  <2>1. task' = task /\ UNCHANGED <<ofile, ftable>>
    BY <1>2 DEF sys_unlink, tableVars
  <2> QED
    BY <2>1, QuietWrites
<1>3. CASE sys_pipe_fails(p)
  <2>1. task' = task /\ UNCHANGED <<ofile, ftable>>
    BY <1>3, GiveBackIsQuiet DEF sys_pipe_fails, tableVars
  <2> QED
    BY <2>1, QuietWrites
<1>4. CASE iput_ref(p) \/ fileclose_pipe(p) \/ filewrite_fails(p)
  <2>1. task' = [task EXCEPT ![p] = Idle] /\ UNCHANGED <<ofile, ftable>>
    BY <1>4 DEF iput_ref, fileclose_pipe, filewrite_fails, tableVars
  <2> QED
    BY <2>1, EndedCall, QuietWrites
<1>5. CASE fileclose_inode(p)
  <2>1. task[p].op = "FD_INODE" /\ task' = [task EXCEPT ![p].put = TRUE] /\ UNCHANGED <<ofile, ftable>>
    BY <1>5 DEF fileclose_inode, tableVars
  <2>2. task[p] = [op |-> "FD_INODE", of |-> task[p].of, mode |-> task[p].mode, put |-> task[p].put]
    BY <2>1 DEF FileInv, TableOK, TaskOK, Idle
  <2>3. task = [q \in Procs |-> task[q]]
    BY DEF FileInv, TableOK
  <2>4. task'[p] = [task[p] EXCEPT !.put = TRUE] /\ \A q \in Procs \ {p} : task'[q] = task[q]
    BY <2>1, <2>3
  <2>5. task'[p].op = "FD_INODE"
    BY <2>2, <2>4
  <2> QED
    BY <2>1, <2>4, <2>5, QuietWrites
<1> QED
  BY <1>1, <1>2, <1>3, <1>4, <1>5

\* Calls of another process that change entries no write uses.
LEMMA OtherCalls ==
  ASSUME FileInv, WriteOK, OffOK, NEW p \in Procs, task[p].op # "write",
         \A q \in Procs \ {p} : task'[q] = task[q] /\ (task[q].op = "write" => \A fd \in Fds : ofile'[q][fd] = ofile[q][fd]),
         task'[p].op # "write",
         \A f \in Files : ftable'[f].off \in Nat,
         \A f \in Files : ftable'[f].type = ftable[f].type \/ Users(f) \subseteq {p} \X Fds
  PROVE  WriteOK' /\ OffOK'
<1>1. ASSUME NEW q \in Procs, task'[q].op = "write"
      PROVE  /\ task[q].op = "write" /\ task'[q].of = task[q].of /\ task'[q].v = task[q].v
             /\ task'[q].n \in Nat \ {0}
             /\ \A fd \in Fds : ofile'[q][fd] = ofile[q][fd]
             /\ ftable'[task[q].of].type = ftable[task[q].of].type
  <2>1. q # p /\ task'[q] = task[q]
    BY <1>1
  <2>2. task[q].op = "write"
    BY <1>1, <2>1
  <2>3. task[q].of \in Files /\ task[q].n \in Nat \ {0} /\ \E fd \in Fds : <<q, fd>> \in Users(task[q].of)
    BY <2>2, WriterIsOpen
  <2>4. ~(Users(task[q].of) \subseteq {p} \X Fds)
    BY <2>1, <2>3
  <2> QED
    BY <2>1, <2>2, <2>3, <2>4
<1>2. WritesStay
  BY <1>1 DEF WritesStay
<1> QED
  BY <1>2, StayKeeps

\* open takes an entry that no write uses.
LEMMA OpenWrites ==
  ASSUME FileInv, WriteOK, OffOK, NEW p \in Procs, NEW i \in Inodes, NEW mode \in Modes, sys_open(p, i, mode)
  PROVE  WriteOK' /\ OffOK'
<1> DEFINE e == [type |-> "FD_INODE", ref |-> 1, mode |-> mode, of |-> i, off |-> 0]
<1>1. First(Unused) \in Unused /\ First(FreeFds(p)) \in FreeFds(p)
  BY TableFinite, FirstIsIn DEF sys_open, Unused, FreeFds
<1>2. PICK f \in Unused, fd \in FreeFds(p) : f = First(Unused) /\ fd = First(FreeFds(p))
  BY <1>1
<1>3. f \in Files /\ Users(f) = {}
  BY <1>2, UnusedIsFree DEF FileInv
<1>4. ftable' = [ftable EXCEPT ![f] = e] /\ ofile' = [ofile EXCEPT ![p][fd] = f] /\ task' = task /\ e.off = 0
  BY <1>2 DEF sys_open
<1>5. Calling(p)
  BY DEF sys_open
<1> HIDE DEF e
<1>6. ftable'[f] = e /\ \A g \in Files \ {f} : ftable'[g] = ftable[g]
  BY <1>3, <1>4 DEF FileInv, TableOK
<1>7. \A q \in Procs \ {p} : ofile'[q] = ofile[q]
  BY <1>4 DEF FileInv, TableOK
<1>8. \A g \in Files : ftable'[g].off \in Nat
  BY <1>4, <1>6 DEF OffOK
<1>9. task[p].op # "write"
  BY <1>5, WriterIsOpen
<1>10. \A g \in Files : ftable'[g].type = ftable[g].type \/ Users(g) \subseteq {p} \X Fds
  BY <1>3, <1>6
<1> QED
  BY <1>4, <1>7, <1>8, <1>9, <1>10, OtherCalls

\* dup counts.
LEMMA DupWrites ==
  ASSUME FileInv, WriteOK, OffOK, NEW p \in Procs, NEW fd0 \in Fds, sys_dup(p, fd0)
  PROVE  WriteOK' /\ OffOK'
<1>1. PICK f : f = ofile[p][fd0]
  OBVIOUS
<1>2. f \in Files
  BY <1>1, OpenIsCounted DEF FileInv, sys_dup
<1>3. PICK fd : fd = First(FreeFds(p))
  OBVIOUS
<1>4. /\ ftable' = [ftable EXCEPT ![f].ref = @ + 1] /\ ofile' = [ofile EXCEPT ![p][fd] = f] /\ task' = task
      /\ Calling(p)
  BY <1>1, <1>3 DEF sys_dup
<1>5. ftable = [g \in Files |-> ftable[g]] /\ \A g \in Files : EntryOK(ftable[g])
  BY DEF FileInv, TableOK
<1>6. ftable'[f] = [ftable[f] EXCEPT !.ref = ftable[f].ref + 1] /\ \A g \in Files \ {f} : ftable'[g] = ftable[g]
  BY <1>2, <1>4, <1>5
<1>7. ftable'[f].type = ftable[f].type /\ ftable'[f].off = ftable[f].off
  <2>1. ftable'[f] = [type |-> ftable[f].type, ref |-> ftable[f].ref + 1, mode |-> ftable[f].mode,
                      of |-> ftable[f].of, off |-> ftable[f].off]
    BY <1>2, <1>5, <1>6, EntryUpdate
  <2> QED
    BY <2>1
<1>8. \A q \in Procs \ {p} : ofile'[q] = ofile[q]
  BY <1>4 DEF FileInv, TableOK
<1>9. \A g \in Files : ftable'[g].off \in Nat /\ ftable'[g].type = ftable[g].type
  BY <1>2, <1>6, <1>7 DEF OffOK
<1>10. task[p].op # "write"
  BY <1>4, WriterIsOpen
<1> QED
  BY <1>4, <1>8, <1>9, <1>10, OtherCalls

\* pipe takes two entries that no write uses.
LEMMA PipeWrites ==
  ASSUME FileInv, WriteOK, OffOK, NEW p \in Procs, sys_pipe(p)
  PROVE  WriteOK' /\ OffOK'
<1> DEFINE end(m, q) == [type |-> "FD_PIPE", ref |-> 1, mode |-> m, of |-> q, off |-> 0]
<1>1. First(Unused) \in Unused /\ First(Unused \ {First(Unused)}) \in Unused
  <2>1. Unused \subseteq Nat /\ IsFiniteSet(Unused) /\ Cardinality(Unused) >= 2
    BY TableFinite, FS_Subset DEF Unused, sys_pipe
  <2>2. Unused # {}
    BY <2>1, FS_EmptySet
  <2>3. First(Unused) \in Unused
    BY <2>1, <2>2, FirstIsIn
  <2>4. Cardinality(Unused \ {First(Unused)}) = Cardinality(Unused) - 1 /\ Cardinality(Unused) \in Nat
    BY <2>1, <2>3, DropOne
  <2>5. Unused \ {First(Unused)} # {}
    BY <2>1, <2>4, FS_EmptySet
  <2>6. First(Unused \ {First(Unused)}) \in Unused \ {First(Unused)}
    BY <2>1, <2>5, FirstIsIn
  <2> QED
    BY <2>3, <2>6
<1>2. PICK f0, f1, d0, d1 :
        /\ f0 = First(Unused) /\ f1 = First(Unused \ {f0})
        /\ d0 = First(FreeFds(p)) /\ d1 = First(FreeFds(p) \ {d0})
  OBVIOUS
<1>3. f0 \in Unused /\ f1 \in Unused
  BY <1>1, <1>2
<1>4. PICK q \in Pipes :
        /\ ftable' = [ftable EXCEPT ![f0] = end("r", q), ![f1] = end("w", q)]
        /\ ofile' = [ofile EXCEPT ![p][d0] = f0, ![p][d1] = f1]
  BY <1>2 DEF sys_pipe
<1>5. task' = task /\ Calling(p)
  BY DEF sys_pipe
<1>6. \A f \in {f0, f1} : f \in Files /\ Users(f) = {}
  BY <1>3, UnusedIsFree DEF FileInv
<1>7. \A m : end(m, q).off = 0
  OBVIOUS
<1> HIDE DEF end
<1>8. \A g \in Files : ftable'[g] = IF g = f1 THEN end("w", q) ELSE IF g = f0 THEN end("r", q) ELSE ftable[g]
  BY <1>4, <1>6 DEF FileInv, TableOK
<1>9. \A r \in Procs \ {p} : ofile'[r] = ofile[r]
  BY <1>4 DEF FileInv, TableOK
<1>10. \A g \in Files : ftable'[g].off \in Nat
  BY <1>7, <1>8 DEF OffOK
<1>11. \A g \in Files : ftable'[g].type = ftable[g].type \/ Users(g) \subseteq {p} \X Fds
  BY <1>6, <1>8
<1>12. task[p].op # "write"
  BY <1>5, WriterIsOpen
<1> QED
  BY <1>5, <1>9, <1>10, <1>11, <1>12, OtherCalls

\* A close that is the last one is not of a file that another process writes.
LEMMA CloseWrites ==
  ASSUME FileInv, WriteOK, OffOK, NEW p \in Procs, NEW fd \in Fds, Calling(p), ofile[p][fd] # NoFile, close(p, fd)
  PROVE  WriteOK' /\ OffOK'
<1>1. PICK f \in Files : f = ofile[p][fd]
  BY OpenIsCounted DEF FileInv
<1>2. <<p, fd>> \in Users(f) /\ ftable[f].ref >= 1 /\ ftable[f].type \in Kinds
  BY <1>1, OpenIsCounted DEF FileInv
<1>3. /\ ftable' = fileclose(f) /\ ofile' = [ofile EXCEPT ![p][fd] = NoFile]
      /\ task' = [task EXCEPT ![p] = IF ftable[f].ref > 1 THEN Idle ELSE Finishing(f)]
  BY <1>1 DEF close
<1>4. /\ \A g \in Files \ {f} : ftable'[g] = ftable[g]
      /\ ftable'[f].off = ftable[f].off
      /\ ftable[f].ref > 1 => ftable'[f].type = ftable[f].type
  BY <1>2, <1>3, FilecloseEntry
<1>5. task'[p].op # "write" /\ \A q \in Procs \ {p} : task'[q] = task[q]
  <2>1. Idle.op # "write"
    BY DEF Idle
  <2>2. Finishing(f) = [op |-> ftable[f].type, of |-> ftable[f].of, mode |-> ftable[f].mode, put |-> FALSE]
    BY <1>2 DEF Finishing, Kinds
  <2>3. Finishing(f).op # "write"
    BY <1>2, <2>2 DEF Kinds
  <2>4. task = [q \in Procs |-> task[q]]
    BY DEF FileInv, TableOK
  <2> QED
    BY <1>3, <2>1, <2>3, <2>4
<1>6. \A q \in Procs \ {p} : ofile'[q] = ofile[q]
  BY <1>3 DEF FileInv, TableOK
<1>7. \A g \in Files : ftable'[g].off \in Nat
  BY <1>4 DEF OffOK
<1>8. \A g \in Files : ftable'[g].type = ftable[g].type \/ Users(g) \subseteq {p} \X Fds
  <2>1. CASE ftable[f].ref > 1
    BY <1>4, <2>1
  <2>2. CASE ~(ftable[f].ref > 1)
    <3>1. Cardinality(Users(f)) = 1 /\ IsFiniteSet(Users(f))
      <4>1. ftable[f].ref \in Nat /\ ftable[f].ref = Cardinality(Users(f))
        BY DEF FileInv, TableOK, EntryOK, RefOK
      <4> QED
        BY <1>2, <2>2, <4>1, TableFinite
    <3>2. Cardinality(Users(f) \ {<<p, fd>>}) = 0 /\ IsFiniteSet(Users(f) \ {<<p, fd>>})
      BY <1>2, <3>1, DropOne
    <3>3. Users(f) \ {<<p, fd>>} = {}
      BY <3>2, FS_EmptySet
    <3>4. Users(f) \subseteq {p} \X Fds
      BY <3>3
    <3> QED
      BY <1>4, <3>4
  <2> QED
    BY <2>1, <2>2
<1>9. task[p].op # "write"
  BY WriterIsOpen
<1> QED
  BY <1>5, <1>6, <1>7, <1>8, <1>9, OtherCalls

\* exit closes only what no other process writes to.
LEMMA ExitWrites ==
  ASSUME FileInv, WriteOK, OffOK, NEW p \in Procs, exit(p)
  PROVE  WriteOK' /\ OffOK'
<1> DEFINE open == {fd \in Fds : ofile[p][fd] # NoFile}
<1>1. CASE open = {}
  <2>1. task' = task /\ UNCHANGED <<ofile, ftable>>
    BY <1>1 DEF exit
  <2> QED
    BY <2>1, QuietWrites
<1>2. CASE open # {}
  <2>1. PICK fd \in open : fd = First(open)
    BY <1>2, TableFinite, FirstIsIn
  <2>2. Calling(p) /\ close(p, fd)
    BY <1>2, <2>1 DEF exit
  <2> QED
    BY <2>1, <2>2, CloseWrites
<1> QED
  BY <1>1, <1>2

\* fork counts, and gives descriptors to a process that does not write.
LEMMA ForkWrites ==
  ASSUME FileInv, WriteOK, OffOK, NEW p \in Procs, NEW c \in Procs, fork(p, c)
  PROVE  WriteOK' /\ OffOK'
<1>1. /\ c \notin live /\ ofile' = [ofile EXCEPT ![c] = ofile[p]] /\ task' = task
      /\ ftable' = [f \in Files |->
           [ftable[f] EXCEPT !.ref = ftable[f].ref + Cardinality({fd \in Fds : ofile[p][fd] = f})]]
  BY DEF fork
<1>2. ASSUME NEW f \in Files
      PROVE  ftable'[f].type = ftable[f].type /\ ftable'[f].off = ftable[f].off
  <2>1. PICK n : n = ftable[f].ref + Cardinality({fd \in Fds : ofile[p][fd] = f})
    OBVIOUS
  <2>2. ftable'[f] = [ftable[f] EXCEPT !.ref = n] /\ EntryOK(ftable[f])
    BY <1>1, <2>1 DEF FileInv, TableOK
  <2>3. ftable'[f] = [type |-> ftable[f].type, ref |-> n, mode |-> ftable[f].mode,
                      of |-> ftable[f].of, off |-> ftable[f].off]
    BY <2>2, EntryUpdate
  <2> QED
    BY <2>3
<1>3. task[c].op # "write"
  BY <1>1, WriterIsOpen
<1>4. \A q \in Procs \ {c} : ofile'[q] = ofile[q]
  BY <1>1 DEF FileInv, TableOK
<1>5. \A f \in Files : ftable'[f].off \in Nat
  BY <1>2 DEF OffOK
<1> QED
  BY <1>1, <1>2, <1>3, <1>4, <1>5, OtherCalls

\* sys_write begins a write with the descriptor it was given.
LEMMA WriteWrites ==
  ASSUME FileInv, WriteOK, OffOK, NEW p \in Procs, NEW fd \in Fds, NEW n \in WriteSizes, NEW v \in Bytes,
         sys_write(p, fd, n, v)
  PROVE  WriteOK' /\ OffOK'
<1>1. /\ ftable[ofile[p][fd]].type = "FD_INODE"
      /\ task' = [task EXCEPT ![p] = [op |-> "write", of |-> ofile[p][fd], n |-> n, v |-> v]]
      /\ UNCHANGED <<ofile, ftable>>
  BY DEF sys_write, tableVars
<1>2. n \in Nat \ {0} /\ v \in Nat
  BY FileAssumption
<1>3. task = [q \in Procs |-> task[q]]
  BY DEF FileInv, TableOK
<1>4. PICK t : t = [op |-> "write", of |-> ofile[p][fd], n |-> n, v |-> v]
  OBVIOUS
<1>5. t.of = ofile[p][fd] /\ t.n = n /\ t.v = v
  BY <1>4
<1>6. task'[p] = t /\ \A q \in Procs \ {p} : task'[q] = task[q]
  BY <1>1, <1>3, <1>4
<1>7. ASSUME NEW q \in Procs, task'[q].op = "write"
      PROVE  /\ task'[q].n \in Nat \ {0} /\ task'[q].v \in Nat
             /\ ftable'[task'[q].of].type = "FD_INODE" /\ \E d \in Fds : ofile'[q][d] = task'[q].of
  <2>1. CASE q = p
    BY <1>1, <1>2, <1>5, <1>6, <2>1
  <2>2. CASE q # p
    BY <1>1, <1>6, <1>7, <2>2 DEF WriteOK
  <2> QED
    BY <2>1, <2>2
<1>8. WriteOK'
  BY <1>7 DEF WriteOK
<1>9. OffOK'
  BY <1>1 DEF OffOK
<1> QED
  BY <1>8, <1>9

\* One turn of filewrite moves the offset and leaves fewer bytes.
LEMMA FilewriteWrites ==
  ASSUME FileInv, WriteOK, OffOK, NEW p \in Procs, filewrite(p)
  PROVE  WriteOK' /\ OffOK'
<1>1. task[p].op = "write"
  BY DEF filewrite
<1>2. PICK i, off, n, v : Turn(p, i, off, n, v)
  BY <1>1, FilewriteTurn
<1>3. PICK f \in Files : f = task[p].of
  BY <1>2 DEF Turn
<1>4. /\ n \in Nat \ {0} /\ n <= task[p].n /\ task[p].n \in Nat \ {0} /\ off \in Nat /\ off = ftable[f].off
      /\ n = Smaller(task[p].n, max)
  BY <1>1, <1>2, <1>3 DEF Turn, WriteOK
<1>5. PICK t : t = IF task[p].n = n THEN Idle ELSE [task[p] EXCEPT !.n = task[p].n - n]
  OBVIOUS
<1>6. /\ ftable' = [ftable EXCEPT ![f].off = off + n] /\ task' = [task EXCEPT ![p] = t] /\ UNCHANGED ofile
  <2>1. ftable' = [ftable EXCEPT ![f].off = ftable[f].off + Smaller(task[p].n, max)] /\ UNCHANGED ofile
    BY <1>3 DEF filewrite
  <2>2. task' = [task EXCEPT ![p] = t]
    BY <1>4, <1>5 DEF filewrite
  <2> QED
    BY <1>4, <2>1, <2>2
<1>7. \A g \in Files : ftable'[g].type = ftable[g].type
  <2>1. PICK x : x = off + n
    OBVIOUS
  <2> QED
    BY <1>3, <1>6, <2>1, OffsetKeeps
<1>8. \A g \in Files : ftable'[g].off \in Nat
  <2>1. ftable = [g \in Files |-> ftable[g]] /\ EntryOK(ftable[f])
    BY DEF FileInv, TableOK
  <2>2. PICK x \in Nat : x = off + n
    BY <1>4
  <2>3. ftable'[f] = [ftable[f] EXCEPT !.off = x] /\ \A g \in Files \ {f} : ftable'[g] = ftable[g]
    BY <1>6, <2>1, <2>2
  <2>4. ftable'[f] = [type |-> ftable[f].type, ref |-> ftable[f].ref, mode |-> ftable[f].mode, of |-> ftable[f].of, off |-> x]
    BY <2>1, <2>3, EntryUpdate
  <2> QED
    BY <2>2, <2>3, <2>4 DEF OffOK
<1>9. task'[p] = t /\ \A q \in Procs \ {p} : task'[q] = task[q]
  BY <1>6 DEF FileInv, TableOK
<1>10. t.op = "write" => t.of = task[p].of /\ t.v = task[p].v /\ t.n \in Nat \ {0}
  <2>1. CASE task[p].n = n
    BY <1>5, <2>1 DEF Idle
  <2>2. CASE task[p].n # n
    <3>1. task[p] = [op |-> "write", of |-> task[p].of, n |-> task[p].n, v |-> task[p].v]
      <4>1. TaskOK(task[p])
        BY DEF FileInv, TableOK
      <4> QED
        BY <1>1, <4>1 DEF TaskOK, Idle
    <3>2. PICK m \in Nat \ {0} : m = task[p].n - n
      BY <1>4, <2>2
    <3>3. t = [op |-> "write", of |-> task[p].of, n |-> m, v |-> task[p].v]
      BY <1>5, <2>2, <3>1, <3>2
    <3> QED
      BY <3>3
  <2> QED
    BY <2>1, <2>2
<1>11. ASSUME NEW q \in Procs, task'[q].op = "write"
       PROVE  /\ task[q].op = "write" /\ task'[q].of = task[q].of /\ task'[q].v = task[q].v
              /\ task'[q].n \in Nat \ {0} /\ task[q].of \in Files
  <2>1. CASE q = p
    BY <1>1, <1>3, <1>9, <1>10, <1>11, <2>1
  <2>2. CASE q # p
    BY <1>9, <1>11, <2>2, WriterIsOpen
  <2> QED
    BY <2>1, <2>2
<1>12. WritesStay
  BY <1>6, <1>7, <1>8, <1>11 DEF WritesStay
<1> QED
  BY <1>12, StayKeeps

-----------------------------------------------------------------------------
(* Reading, and what a check of the disk finds *)

\* bmap finds the block that the table names, and allocates nothing.
LEMMA BmapFinds ==
  ASSUME NEW s \in Copies, s.full = FALSE, NEW bn \in Slots, bn # MAXFILE, At(s.ip, s.data, bn) # 0
  PROVE  bmap(s, bn).addr = At(s.ip, s.data, bn)
<1>1. s = [ip |-> s.ip, dip |-> s.dip, map |-> s.map, data |-> s.data, log |-> s.log,
           full |-> s.full, addr |-> s.addr]
  BY DEF Copies
<1>2. ASSUME NEW k, s.ip.addrs[k] # 0
      PROVE  /\ Direct(s, k).addr = s.ip.addrs[k] /\ Direct(s, k).full = FALSE
             /\ Direct(s, k).data = s.data
             /\ \A x : [Direct(s, k) EXCEPT !.addr = x].addr = x
  <2>1. PICK t : t = Direct(s, k)
    OBVIOUS
  <2>2. t = [s EXCEPT !.addr = s.ip.addrs[k]]
    BY <1>2, <2>1 DEF Direct
  <2>3. t = [ip |-> s.ip, dip |-> s.dip, map |-> s.map, data |-> s.data, log |-> s.log,
             full |-> s.full, addr |-> s.ip.addrs[k]]
    BY <1>1, <2>2
  <2>4. t.addr = s.ip.addrs[k] /\ t.full = FALSE /\ t.data = s.data /\ \A x : [t EXCEPT !.addr = x].addr = x
    BY <2>3
  <2> QED
    BY <2>1, <2>4
<1>3. CASE bn < NDIRECT
  <2>1. bmap(s, bn) = Direct(s, bn) /\ At(s.ip, s.data, bn) = s.ip.addrs[bn]
    BY <1>3 DEF bmap, At
  <2> QED
    BY <1>2, <2>1
<1>4. CASE ~(bn < NDIRECT)
  <2>1. PICK ind : ind = s.ip.addrs[NDIRECT]
    OBVIOUS
  <2>2. ind # 0 /\ At(s.ip, s.data, bn) = s.data[ind][bn - NDIRECT]
    BY <1>4, <2>1 DEF At
  <2>3. PICK t : t = Direct(s, NDIRECT)
    OBVIOUS
  <2>4. t.addr = ind /\ t.full = FALSE /\ t.data = s.data /\ \A x : [t EXCEPT !.addr = x].addr = x
    BY ZenonT(30), <1>2, <2>1, <2>2, <2>3
  <2>5. bmap(s, bn) = Indirect(t, ind, bn - NDIRECT)
    BY <1>4, <2>3, <2>4 DEF bmap
  <2>6. Indirect(t, ind, bn - NDIRECT) = [t EXCEPT !.addr = s.data[ind][bn - NDIRECT]]
    BY <2>2, <2>4 DEF Indirect
  <2> QED
    BY <2>2, <2>4, <2>5, <2>6
<1> QED
  BY <1>3, <1>4

\* A byte of a file, where readi looks for it.
LEMMA ByteIsRead ==
  ASSUME DiskOK, panicked = "no", NEW i \in Inodes, NEW at \in 0 .. inode[i].size - 1
  PROVE  data[bmap(Disk(i), at \div BSIZE).addr][at % BSIZE] = contents[i][at + 1]
<1>1. PICK s : s = Disk(i)
  OBVIOUS
<1>2. /\ s \in CopiesOK(i) /\ inode \in [Inodes -> InodeType] /\ s.ip = inode[i] /\ s.data = data /\ s.full = FALSE
      /\ inode[i].size \in Nat /\ inode[i].size <= MAXFILE * BSIZE
  BY <1>1, DiskIsCopy
<1>3. at \in Nat /\ at < MAXFILE * BSIZE
  <2>1. PICK m \in Nat, z \in Nat : m = MAXFILE * BSIZE /\ z = inode[i].size /\ z <= m
    BY <1>2, Sizes
  <2>2. at \in 0 .. z - 1
    BY <2>1
  <2> QED
    BY <2>1, <2>2
<1>4. PICK k \in Nat : k = at \div BSIZE /\ k < MAXFILE
  BY <1>3, Sizes, DivBelow, DivMod
<1>5. k \in Slots /\ k # MAXFILE
  BY <1>4, Sizes DEF Slots
<1>6. FileHeld(i)
  BY DEF DiskOK
<1>7. Table(inode, data)[i][k] = At(inode[i], data, k)
  BY <1>5 DEF Table
<1>8. At(inode[i], data, k) # 0 /\ data[At(inode[i], data, k)][at % BSIZE] = contents[i][at + 1]
  BY <1>4, <1>6, <1>7 DEF FileHeld
<1>9. s \in Copies
  BY <1>2 DEF CopiesOK
<1>10. bmap(s, k).addr = At(inode[i], data, k)
  BY <1>2, <1>5, <1>8, <1>9, BmapFinds
<1> QED
  BY <1>1, <1>4, <1>8, <1>10

\* What readi returns.
LEMMA ReadiReads ==
  ASSUME DiskOK, panicked = "no", NEW i \in Inodes, NEW off \in Nat, NEW n \in Nat
  PROVE  /\ Len(readi(Disk(i), off, n)) \in Nat
         /\ off <= Len(contents[i]) =>
              readi(Disk(i), off, n) = SubSeq(contents[i], off + 1, Smaller(off + n, Len(contents[i])))
<1>1. PICK s : s = Disk(i)
  OBVIOUS
<1>2. /\ s.ip = inode[i] /\ s.data = data /\ inode[i].size \in Nat /\ Len(contents[i]) = inode[i].size
      /\ contents[i] \in Seq(Nat)
  BY <1>1, DiskIsCopy
<1>3. PICK z \in Nat, c \in Seq(Nat) : z = inode[i].size /\ c = contents[i] /\ Len(c) = z
  BY <1>2
<1>4. CASE off > z
  <2>1. readi(s, off, n) = <<>>
    BY <1>2, <1>3, <1>4 DEF readi
  <2> QED
    BY <1>1, <1>3, <1>4, <2>1
<1>5. CASE off <= z
  <2>1. PICK m \in Nat : m = Smaller(n, z - off)
    <3>1. PICK e \in Nat : e = z - off
      BY <1>5
    <3>2. Smaller(n, e) \in Nat
      BY DEF Smaller
    <3> QED
      BY <3>1, <3>2
  <2>2. m <= z - off
    BY <1>5, <2>1 DEF Smaller
  <2>3. readi(s, off, n) = [k \in 1 .. m |-> data[bmap(s, (off + k - 1) \div BSIZE).addr][(off + k - 1) % BSIZE]]
    BY <1>2, <1>3, <1>5, <2>1 DEF readi
  <2>4. \A k \in 1 .. m : data[bmap(s, (off + k - 1) \div BSIZE).addr][(off + k - 1) % BSIZE] = c[off + k]
    <3> SUFFICES ASSUME NEW k \in 1 .. m
                 PROVE  data[bmap(s, (off + k - 1) \div BSIZE).addr][(off + k - 1) % BSIZE] = c[off + k]
      OBVIOUS
    <3>1. PICK at \in 0 .. z - 1 : at = off + k - 1 /\ at + 1 = off + k
      BY <1>5, <2>2
    <3>2. at \in 0 .. inode[i].size - 1
      BY <1>3, <3>1
    <3> QED
      BY <1>1, <1>3, <3>1, <3>2, ByteIsRead
  <2>5. readi(s, off, n) = [k \in 1 .. m |-> c[off + k]]
    BY <2>3, <2>4
  <2>6. Smaller(off + n, Len(c)) = off + m
    BY <1>3, <1>5, <2>1 DEF Smaller
  <2>7. SubSeq(c, off + 1, off + m) = [k \in 1 .. m |-> c[off + k]]
    <3>1. PICK d : d = SubSeq(c, off + 1, off + m)
      OBVIOUS
    <3>2. PICK a \in Nat \ {0}, b \in Nat : a = off + 1 /\ b = off + m
      OBVIOUS
    <3>3. b <= Len(c)
      BY <1>3, <1>5, <2>2, <3>2
    <3>4. d = SubSeq(c, a, b)
      BY <3>1, <3>2
    <3>5. /\ d \in Seq(Nat) /\ Len(d) = (IF a <= b THEN b - a + 1 ELSE 0)
          /\ \A k \in 1 .. b - a + 1 : d[k] = c[a + k - 1]
      BY <3>2, <3>3, <3>4
    <3>6. Len(d) = m /\ \A k \in 1 .. m : d[k] = c[off + k]
      BY SMTT(30), <3>2, <3>5
    <3>7. d = [k \in 1 .. m |-> d[k]]
      BY <3>5, <3>6
    <3> QED
      BY <3>1, <3>6, <3>7
  <2>8. \A k \in 1 .. m : c[off + k] \in Nat
    <3> SUFFICES ASSUME NEW k \in 1 .. m PROVE c[off + k] \in Nat
      OBVIOUS
    <3>1. off + k \in 1 .. Len(c)
      BY <1>3, <1>5, <2>2
    <3> QED
      BY <3>1
  <2>9. Len([k \in 1 .. m |-> c[off + k]]) \in Nat
    <3>1. PICK d : d = [k \in 1 .. m |-> c[off + k]]
      OBVIOUS
    <3>2. d \in [1 .. m -> Nat]
      BY <2>8, <3>1
    <3>3. d \in Seq(Nat)
      BY <3>2
    <3>4. Len(d) \in Nat
      BY <3>3
    <3> QED
      BY <3>1, <3>4
  <2> QED
    BY <1>1, <1>3, <2>5, <2>6, <2>7, <2>9
<1> QED
  BY <1>3, <1>4, <1>5

\* fileread moves the offset by what it read.
LEMMA ReadWrites ==
  ASSUME FileInv, DiskOK, WriteOK, OffOK, NEW p \in Procs, NEW fd \in Fds, sys_read(p, fd)
  PROVE  WriteOK' /\ OffOK'
<1>1. PICK f : f = ofile[p][fd]
  OBVIOUS
<1>2. f \in Files
  BY <1>1, OpenIsCounted DEF FileInv, sys_read
<1>3. ftable[f].type = "FD_INODE" /\ panicked = "no"
  BY <1>1 DEF sys_read, Calling
<1>4. PICK i \in Inodes, off \in Nat : i = ftable[f].of /\ off = ftable[f].off
  BY <1>2, <1>3 DEF FileInv, TableOK, EntryOK, OffOK
<1>5. ReadSize \in Nat
  BY FileAssumption
<1>6. PICK x \in Nat : x = off + Len(readi(Disk(i), off, ReadSize))
  BY <1>3, <1>5, ReadiReads
<1>7. ftable' = [ftable EXCEPT ![f].off = x] /\ UNCHANGED <<ofile, task>>
  BY <1>1, <1>4, <1>6 DEF sys_read
<1>8. \A g \in Files : ftable'[g].type = ftable[g].type
  BY <1>2, <1>7, OffsetKeeps
<1>9. \A g \in Files : ftable'[g].off \in Nat
  <2>1. ftable = [g \in Files |-> ftable[g]] /\ EntryOK(ftable[f])
    BY <1>2 DEF FileInv, TableOK
  <2>2. ftable'[f] = [ftable[f] EXCEPT !.off = x] /\ \A g \in Files \ {f} : ftable'[g] = ftable[g]
    BY <1>2, <1>7, <2>1
  <2>3. ftable'[f] = [type |-> ftable[f].type, ref |-> ftable[f].ref, mode |-> ftable[f].mode, of |-> ftable[f].of, off |-> x]
    BY <2>1, <2>2, EntryUpdate
  <2> QED
    BY <2>2, <2>3 DEF OffOK
<1>10. \A q \in Procs : task'[q].op = "write" => task[q].of \in Files /\ task'[q] = task[q] /\ task[q].n \in Nat \ {0}
  BY <1>7, WriterIsOpen
<1>11. WritesStay
  BY <1>7, <1>8, <1>9, <1>10 DEF WritesStay
<1> QED
  BY <1>11, StayKeeps

\* The blocks that an inode on the disk refers to are those in its slots.
LEMMA BlocksAreSlots ==
  ASSUME DiskOK, panicked = "no", NEW i \in Inodes, NEW b
  PROVE  b \in BlocksOf(i) <=> b # 0 /\ \E k \in Slots : Table(inode, data)[i][k] = b
<1>1. dinode[i] = inode[i] /\ \A k \in Slots : Table(inode, data)[i][k] = At(inode[i], data, k)
  BY DEF DiskOK, Table
<1>2. PICK ip, ind : ip = inode[i] /\ ind = ip.addrs[NDIRECT]
  OBVIOUS
<1>3. b \in BlocksOf(i) <=> /\ b # 0
                            /\ \/ \E k \in 0 .. NDIRECT : b = ip.addrs[k]
                               \/ ind # 0 /\ \E j \in 0 .. NINDIRECT - 1 : b = data[ind][j]
  BY <1>1, <1>2 DEF BlocksOf
<1>4. ASSUME NEW k \in Slots, At(ip, data, k) = b, b # 0
      PROVE  \/ \E n \in 0 .. NDIRECT : b = ip.addrs[n]
             \/ ind # 0 /\ \E j \in 0 .. NINDIRECT - 1 : b = data[ind][j]
  <2>1. CASE k < NDIRECT
    BY <1>4, <2>1, Sizes DEF At, Slots
  <2>2. CASE k = MAXFILE
    <3>1. b = ip.addrs[NDIRECT] /\ NDIRECT \in 0 .. NDIRECT
      BY <1>4, <2>2, Sizes DEF At
    <3> QED
      BY <3>1
  <2>3. CASE k >= NDIRECT /\ k # MAXFILE
    <3>1. k - NDIRECT \in 0 .. NINDIRECT - 1
      BY <2>3, Sizes
    <3>2. ind # 0 /\ b = data[ind][k - NDIRECT]
      BY <1>2, <1>4, <2>3, Sizes DEF At, Slots
    <3> QED
      BY <3>1, <3>2
  <2> QED
    BY <2>1, <2>2, <2>3, Sizes DEF Slots
<1>5. ASSUME NEW n \in 0 .. NDIRECT, b = ip.addrs[n]
      PROVE  \E k \in Slots : At(ip, data, k) = b
  <2>1. CASE n < NDIRECT
    <3>1. n \in Slots /\ At(ip, data, n) = b
      BY <1>5, <2>1, Sizes DEF At, Slots
    <3> QED
      BY <3>1
  <2>2. CASE n = NDIRECT
    <3>1. MAXFILE \in Slots /\ At(ip, data, MAXFILE) = b
      BY <1>5, <2>2, Sizes DEF At, Slots
    <3> QED
      BY <3>1
  <2> QED
    BY <2>1, <2>2, Sizes
<1>6. ASSUME ind # 0, NEW j \in 0 .. NINDIRECT - 1, b = data[ind][j]
      PROVE  \E k \in Slots : At(ip, data, k) = b
  <2>1. PICK k \in Slots : k = NDIRECT + j /\ k >= NDIRECT /\ k # MAXFILE /\ k - NDIRECT = j
    BY Sizes DEF Slots
  <2>2. At(ip, data, k) = b
    BY <1>2, <1>6, <2>1, Sizes DEF At, Slots
  <2> QED
    BY <2>2
<1>7. b \in BlocksOf(i) <=> b # 0 /\ \E k \in Slots : At(ip, data, k) = b
  BY <1>3, <1>4, <1>5, <1>6
<1> QED
  BY <1>1, <1>2, <1>7

\* A table of blocks that fits the bitmap is what a check of the disk asks for.
LEMMA DiskIsConsistent == DiskOK /\ PanicOK => NoBlockLost
<1> SUFFICES ASSUME DiskOK, panicked = "no"
             PROVE  /\ bitmap = UNION {BlocksOf(i) : i \in Inodes}
                    /\ \A i, j \in Inodes : i # j => BlocksOf(i) \cap BlocksOf(j) = {}
  BY DEF NoBlockLost, PanicOK
<1>1. PICK T : T = Table(inode, data)
  OBVIOUS
<1>2. TableFits(T, bitmap)
  BY <1>1 DEF DiskOK
<1>3. ASSUME NEW i \in Inodes, NEW b
      PROVE  b \in BlocksOf(i) <=> b # 0 /\ \E k \in Slots : T[i][k] = b
  BY <1>1, BlocksAreSlots
<1>4. \A i, j \in Inodes : i # j => BlocksOf(i) \cap BlocksOf(j) = {}
  <2> SUFFICES ASSUME NEW i \in Inodes, NEW j \in Inodes, i # j, NEW b, b \in BlocksOf(i), b \in BlocksOf(j)
               PROVE  FALSE
    OBVIOUS
  <2>1. b # 0 /\ \E k \in Slots : T[i][k] = b
    BY <1>3
  <2>2. \E k \in Slots : T[j][k] = b
    BY <1>3
  <2> QED
    BY <1>2, <2>1, <2>2 DEF TableFits
<1>5. ASSUME NEW b
      PROVE  b \in bitmap <=> \E i \in Inodes : b \in BlocksOf(i)
  <2>1. ASSUME b \in bitmap PROVE \E i \in Inodes : b \in BlocksOf(i)
    <3>1. b \in Blocks /\ \E i \in Inodes : \E k \in Slots : T[i][k] = b
      BY <1>2, <2>1 DEF TableFits
    <3>2. b # 0
      BY <3>1, Sizes DEF Blocks
    <3> QED
      BY <1>3, <3>1, <3>2
  <2>2. ASSUME NEW i \in Inodes, b \in BlocksOf(i) PROVE b \in bitmap
    <3>1. PICK k \in Slots : T[i][k] = b /\ b # 0
      BY <1>3, <2>2
    <3> QED
      BY <1>2, <3>1, InSlotIsMarked
  <2> QED
    BY <2>1, <2>2
<1>6. bitmap = UNION {BlocksOf(i) : i \in Inodes}
  BY <1>5
<1> QED
  BY <1>4, <1>6

-----------------------------------------------------------------------------
(* The invariant of the disk *)

\* An empty disk.
LEMMA ContentInvInit == FileInit => ContentInv
<1> SUFFICES ASSUME FileInit PROVE ContentInv
  OBVIOUS
<1>1. /\ inode = [i \in Inodes |-> FreeInode] /\ dinode = inode /\ bitmap = {}
      /\ data = [b \in Blocks |-> Zeroed] /\ contents = [i \in Inodes |-> <<>>]
      /\ task = [p \in Procs |-> Idle] /\ ftable = [f \in Files |-> Closed] /\ logged = 0
  BY DEF FileInit, Blocks
<1>2. FreeInode \in InodeType /\ FreeInode.addrs = NoAddrs /\ FreeInode.size = 0
  BY Sizes DEF FreeInode, NoAddrs, InodeType
<1>3. inode \in [Inodes -> InodeType]
  BY <1>1, <1>2
<1>4. data \in DataType
  BY <1>1 DEF DataType, Zeroed
<1>5. PICK T : T = Table(inode, data)
  OBVIOUS
<1>6. \A i \in Inodes : \A k \in Slots : T[i][k] = 0
  <2> SUFFICES ASSUME NEW i \in Inodes, NEW k \in Slots PROVE At(inode[i], data, k) = 0
    BY <1>5 DEF Table
  <2>1. \A n \in 0 .. NDIRECT : inode[i].addrs[n] = 0
    BY <1>1, <1>2 DEF NoAddrs
  <2>2. NDIRECT \in 0 .. NDIRECT /\ (k < NDIRECT => k \in 0 .. NDIRECT)
    BY Sizes DEF Slots
  <2> QED
    BY <2>1, <2>2 DEF At
<1>7. TableFits(T, bitmap)
  <2>1. T = [j \in Inodes |-> [k \in Slots |-> T[j][k]]]
    BY <1>5 DEF Table
  <2>2. T \in [Inodes -> [Slots -> 0 .. NBlocks]]
    BY <1>6, <2>1, Sizes
  <2>3. \A b \in Blocks : b # 0
    BY Sizes DEF Blocks
  <2> QED
    BY <1>1, <1>6, <2>2, <2>3 DEF TableFits
<1>8. ASSUME NEW i \in Inodes PROVE FileHeld(i)
  <2>1. inode[i].size = 0 /\ contents[i] = <<>>
    BY <1>1, <1>2
  <2>2. 0 <= MAXFILE * BSIZE
    BY Sizes
  <2> QED
    BY <2>1, <2>2 DEF FileHeld
<1>9. DiskOK
  BY <1>1, <1>3, <1>4, <1>5, <1>7, <1>8 DEF DiskOK
<1>10. LogOK
  BY <1>1, FileAssumption DEF LogOK
<1>11. WriteOK /\ OffOK
  BY <1>1 DEF WriteOK, OffOK, Idle, Closed
<1>12. PanicOK
  BY DEF FileInit, PanicOK
<1> QED
  BY <1>9, <1>10, <1>11, <1>12 DEF ContentInv

\* Calls that leave the disk alone.
LEMMA SameDisk ==
  ASSUME DiskOK, LogOK, UNCHANGED <<diskVars, panicked>>
  PROVE  DiskOK' /\ LogOK'
BY DEF diskVars, DiskOK, LogOK, FileHeld

\* Every call, and every step of a call that is not finished, keeps the disk in order.
LEMMA ContentInvNext == FileInv /\ ContentInv /\ [FileNext]_fileVars => ContentInv'
<1> SUFFICES ASSUME FileInv, ContentInv, [FileNext]_fileVars PROVE ContentInv'
  OBVIOUS
<1>1. DiskOK /\ LogOK /\ WriteOK /\ OffOK /\ PanicOK /\ PanicOK'
  <2>1. FileNext => PanicOK'
    BY PanicKept DEF ContentInv
  <2>2. panicked' = panicked => PanicOK'
    BY DEF ContentInv, PanicOK
  <2> QED
    BY <2>1, <2>2 DEF ContentInv, fileVars
<1>2. CASE UNCHANGED fileVars
  <2>1. UNCHANGED <<diskVars, panicked>> /\ UNCHANGED <<ofile, ftable, task>>
    BY <1>2 DEF fileVars, tableVars
  <2>2. \A q \in Procs : task'[q] = task[q] \/ task'[q].op # "write"
    BY <2>1
  <2> QED
    BY <1>1, <2>1, <2>2, SameDisk, QuietWrites DEF ContentInv
<1>3. ASSUME NEW p \in Procs, NEW i \in Inodes,
             (\E m \in Modes : sys_open(p, i, m)) \/ sys_open_fails(p, i) \/ sys_unlink(p, i)
      PROVE  ContentInv'
  <2>1. CASE \E m \in Modes : sys_open(p, i, m)
    <3>1. panicked = "no" /\ opens(i)
      BY <2>1 DEF sys_open, Calling
    <3> QED
      BY <1>1, <2>1, <3>1, OpenSaves, OpenWrites DEF ContentInv
  <2>2. CASE sys_open_fails(p, i)
    <3>1. panicked = "no" /\ opens(i)
      BY <2>2 DEF sys_open_fails, Calling
    <3> QED
      BY <1>1, <2>2, <3>1, OpenSaves, QuietCalls DEF ContentInv
  <2>3. CASE sys_unlink(p, i)
    BY <1>1, <2>3, UnlinkSaves, QuietCalls DEF ContentInv
  <2> QED
    BY <1>3, <2>1, <2>2, <2>3
<1>4. ASSUME NEW p \in Procs, NEW fd \in Fds,
             \/ sys_dup(p, fd) \/ sys_close(p, fd) \/ sys_read(p, fd)
             \/ \E n \in WriteSizes, v \in Bytes : sys_write(p, fd, n, v)
      PROVE  ContentInv'
  <2>1. UNCHANGED <<diskVars, panicked>>
    BY <1>4 DEF sys_dup, sys_close, close, sys_read, sys_write
  <2>2. DiskOK' /\ LogOK'
    BY <1>1, <2>1, SameDisk
  <2>3. CASE sys_dup(p, fd)
    BY <1>1, <2>2, <2>3, DupWrites DEF ContentInv
  <2>4. CASE sys_close(p, fd)
    <3>1. Calling(p) /\ ofile[p][fd] # NoFile /\ close(p, fd)
      BY <2>4 DEF sys_close
    <3> QED
      BY <1>1, <2>2, <3>1, CloseWrites DEF ContentInv
  <2>5. CASE sys_read(p, fd)
    BY <1>1, <2>2, <2>5, ReadWrites DEF ContentInv
  <2>6. CASE \E n \in WriteSizes, v \in Bytes : sys_write(p, fd, n, v)
    BY <1>1, <2>2, <2>6, WriteWrites DEF ContentInv
  <2> QED
    BY <1>4, <2>3, <2>4, <2>5, <2>6
<1>5. ASSUME NEW p \in Procs,
             \/ sys_pipe(p) \/ sys_pipe_fails(p) \/ fileclose_inode(p) \/ iput_ref(p)
             \/ fileclose_pipe(p) \/ filewrite(p) \/ filewrite_fails(p) \/ exit(p)
             \/ \E c \in Procs : fork(p, c)
      PROVE  ContentInv'
  <2>1. ASSUME \/ sys_pipe(p) \/ sys_pipe_fails(p) \/ iput_ref(p) \/ fileclose_pipe(p)
               \/ filewrite_fails(p) \/ exit(p) \/ \E c \in Procs : fork(p, c)
        PROVE  DiskOK' /\ LogOK'
    <3>1. UNCHANGED <<diskVars, panicked>>
      BY <2>1 DEF sys_pipe, sys_pipe_fails, iput_ref, fileclose_pipe, filewrite_fails, exit, close, fork
    <3> QED
      BY <1>1, <3>1, SameDisk
  <2>2. CASE sys_pipe(p)
    BY <1>1, <2>1, <2>2, PipeWrites DEF ContentInv
  <2>3. CASE sys_pipe_fails(p) \/ iput_ref(p) \/ fileclose_pipe(p) \/ filewrite_fails(p)
    BY <1>1, <2>1, <2>3, QuietCalls DEF ContentInv
  <2>4. CASE fileclose_inode(p)
    BY <1>1, <2>4, FilecloseSaves, QuietCalls DEF ContentInv
  <2>5. CASE filewrite(p)
    BY <1>1, <2>5, FilewriteSaves, FilewriteWrites DEF ContentInv
  <2>6. CASE exit(p)
    BY <1>1, <2>1, <2>6, ExitWrites DEF ContentInv
  <2>7. CASE \E c \in Procs : fork(p, c)
    BY <1>1, <2>1, <2>7, ForkWrites DEF ContentInv
  <2> QED
    BY <1>5, <2>2, <2>3, <2>4, <2>5, <2>6, <2>7
<1> QED
  BY <1>2, <1>3, <1>4, <1>5 DEF FileNext

\* The invariant of the disk holds together with the one of the file table.
LEMMA ContentInvAlways == FileSpec => []ContentInv
<1>1. FileInit => FileInv /\ ContentInv
  BY FileInvInit, ContentInvInit
<1>2. FileInv /\ ContentInv /\ [FileNext]_fileVars => (FileInv /\ ContentInv)'
  BY FileInvNext, ContentInvNext
<1> QED
  BY <1>1, <1>2, PTL DEF FileSpec

\* After every transaction, for every size of disk, inode and block: the bitmap marks
\* exactly the blocks that the inodes on the disk refer to, directly or through their
\* indirect blocks, no block belongs to two files, and no free block is freed.
THEOREM DiskStaysConsistent == FileSpec => []NoBlockLost
<1>1. ContentInv => NoBlockLost
  BY DiskIsConsistent DEF ContentInv
<1> QED
  BY <1>1, ContentInvAlways, PTL

\* No transaction logs more than MAXOPBLOCKS blocks: not a turn of filewrite, whatever its
\* alignment and however the bits of its blocks spread over the bitmap; not the making and
\* the removing of a file, the blocks of its directory included; not the last close that
\* frees one.
THEOREM EveryCallFitsTheLog == FileSpec => []TransactionsFit
<1>1. ContentInv => TransactionsFit
  BY DEF ContentInv, LogOK, TransactionsFit
<1> QED
  BY <1>1, ContentInvAlways, PTL

\* For every size of file and of read, readi returns the bytes that the writes left,
\* through direct and indirect blocks and whoever wrote, shared or freed files since.
THEOREM ReadIsWhatWasWritten == FileSpec => []ReadsWhatWasWritten
<1>1. ContentInv => ReadsWhatWasWritten
  <2> SUFFICES ASSUME DiskOK, panicked = "no", NEW i \in Inodes, NEW off \in 0 .. MAXFILE * BSIZE,
                      off <= Len(contents[i])
               PROVE  readi(Disk(i), off, ReadSize)
                        = SubSeq(contents[i], off + 1, Smaller(off + ReadSize, Len(contents[i])))
    BY DEF ContentInv, ReadsWhatWasWritten
  <2>1. off \in Nat /\ ReadSize \in Nat
    BY Sizes, FileAssumption
  <2> QED
    BY <2>1, ReadiReads
<1> QED
  BY <1>1, ContentInvAlways, PTL
=============================================================================
