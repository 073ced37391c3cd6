-------------------------- MODULE FileSystemProofs --------------------------
(***************************************************************************)
(* Theorems about the names and inodes of xv6: references are balanced       *)
(* (RefsBalance), nothing is freed that is in use (NoUseAfterFree), and links *)
(* cover names (LinksCoverNames).                                          *)
(*                                                                         *)
(* RefInv counts the pointers that a process holds at each place of a call,  *)
(* LockOK says which locks it holds there, and LinkInv counts for every      *)
(* inode what its nlink stands for.                                        *)
(***************************************************************************)
EXTENDS FileSystem, FiniteSetTheorems, WellFoundedInduction, TLAPS

\* Where a call goes on, during an iput after that.
At(p) == IF pc[p] \in {"iput", "iput_free", "iput_ref"} THEN iret[p] ELSE pc[p]

\* The calls that look up a parent, and those that look up a whole path.
ParentCalls == {"unlink_dp", "create_dp", "mkdir_dp", "link_dp"}
PathCalls == {"link_ip", "open_ip", "chdir_ip"}
Places ==
  {"user", "namex", "create_ip", "mkdir_ip", "create_end", "mkdir_end", "link_exists",
   "link_end", "link_bad", "unlink_ip", "unlink_bad", "unlink_end", "panic"}
    \cup ParentCalls \cup PathCalls

\* A call of link between the count of the new link and its name.
Linking2(p) == At(p) = "namex" /\ ret[p] = "link_dp"

\* The pointers of a process, and those that count as references.
HoldsDp(p) ==
  At(p) \in ParentCalls \cup {"namex", "link_exists", "unlink_ip", "unlink_bad", "panic"}
HoldsIp(p) ==
  \/ At(p) \in PathCalls \cup {"create_ip", "mkdir_ip", "create_end", "mkdir_end", "link_dp",
                              "link_exists", "link_end", "link_bad", "unlink_ip", "unlink_end"}
  \/ Linking2(p)
HoldsPut(p) == pc[p] \in {"iput", "iput_free", "iput_ref"}

Slots == {"cwd", "ofile", "dp", "ip", "put"}
Points(p, k) ==
  CASE k = "cwd" -> cwd[p]
    [] k = "ofile" -> ofile[p]
    [] k = "dp" -> IF HoldsDp(p) THEN dp[p] ELSE NoInode
    [] k = "ip" -> IF HoldsIp(p) THEN ip[p] ELSE NoInode
    [] k = "put" -> IF HoldsPut(p) THEN put[p] ELSE NoInode
Users(i) == {u \in Procs \X Slots : Points(u[1], u[2]) = i}

Inodes == [type : {"none", "file", "dir"}, nlink : Int, ents : [AllNames -> Inums \cup {NoInode}]]

DiskTypeOK ==
  /\ dinode \in [Inums -> Inodes]
  /\ ref \in [Inums -> Int] /\ valid \in [Inums -> BOOLEAN]
  /\ lock \in [Inums -> Procs \cup {NoOne}]
CallTypeOK ==
  /\ cwd \in [Procs -> Inums] /\ ofile \in [Procs -> Inums \cup {NoInode}]
  /\ pc \in [Procs -> Places \cup {"iput", "iput_free", "iput_ref"}]
  /\ iret \in [Procs -> Places] /\ ret \in [Procs -> ParentCalls \cup PathCalls \cup {"user"}]
  /\ ip \in [Procs -> Inums \cup {NoInode}] /\ dp \in [Procs -> Inums \cup {NoInode}]
  /\ put \in [Procs -> Inums \cup {NoInode}]
  /\ rest \in [Procs -> Seq(AllNames)] /\ parent \in [Procs -> BOOLEAN]
  /\ name \in [Procs -> AllNames] /\ new \in [Procs -> BOOLEAN \X Seq(AllNames)]
FSTypeOK == DiskTypeOK /\ CallTypeOK

\* Pointers that count are not null, and a walk knows where it returns to.
WalkOK(p) ==
  /\ HoldsDp(p) => dp[p] # NoInode
  /\ HoldsIp(p) => ip[p] # NoInode
  /\ HoldsPut(p) => put[p] # NoInode
  /\ At(p) = "namex" => ret[p] \in (IF parent[p] THEN ParentCalls ELSE PathCalls)
WalkInv == \A p \in Procs : WalkOK(p)

RefInv == \A i \in Inums : ref[i] = Cardinality(Users(i))

\* The locks a process holds between two steps.
LocksDp(p) == At(p) \in {"link_exists", "unlink_ip", "unlink_bad"}
LocksIp(p) == At(p) \in {"create_end", "mkdir_end", "unlink_end"}
LocksPut(p) == pc[p] = "iput_free"
LockOK(p) ==
  \A i \in Inums :
    lock[i] = p <=> \/ LocksDp(p) /\ Points(p, "dp") = i
                    \/ LocksIp(p) /\ Points(p, "ip") = i
                    \/ LocksPut(p) /\ Points(p, "put") = i

\* What a process points to is allocated, but for an inode that iput has just freed.
Freed(p, k) == k = "put" /\ pc[p] = "iput_ref"
AliveOK(p) ==
  \A k \in Slots : Points(p, k) # NoInode /\ ~Freed(p, k) => dinode[Points(p, k)].type # "none"

\* A call that has counted a link without a name, or removed the name of a link.
Pending(p) ==
  /\ At(p) \in {"namex", "link_dp", "link_exists", "link_bad", "unlink_end"}
  /\ Points(p, "ip") # NoInode

\* Directories and files that a call has looked at stay what they are, and a name that
\* unlink has found stays in the directory.
KindOK(p) ==
  /\ dinode[Points(p, "cwd")].type = "dir"
  /\ At(p) \in ParentCalls \cup {"link_exists", "unlink_ip", "unlink_bad"} =>
       dinode[Points(p, "dp")].type = "dir"
  /\ At(p) \in {"namex", "link_dp", "link_exists", "link_end", "link_bad"} /\ Points(p, "ip") # NoInode =>
       dinode[Points(p, "ip")].type # "dir"
  /\ At(p) = "unlink_ip" =>
       name[p] \in Names /\ Lookup(Points(p, "dp"), name[p]) = Points(p, "ip")

\* What holds of every process.
CallOK(p) == LockOK(p) /\ AliveOK(p) /\ KindOK(p)
CallInv == \A p \in Procs : CallOK(p)

DotInv ==
  \A i \in Inums :
    /\ dinode[i].type = "none" => dinode[i] = Free
    /\ dinode[i].type = "dir" => Lookup(i, ".") = i /\ Lookup(i, "..") # NoInode

\* What the links of an inode stand for: names, subdirectories, calls that are pending,
\* and the root for itself.
CallsOn(i) == {p \in Procs : Pending(p) /\ Points(p, "ip") = i}
Bundle(names, dirs, calling, i) ==
  ({"name"} \X names) \cup ({"dir"} \X dirs) \cup ({"call"} \X calling) \cup ({"root"} \X ({ROOTINO} \cap {i}))
Links(i) == Bundle(Entries(i), Subdirs(i), CallsOn(i), i)

LinkInv ==
  /\ \A i \in Inums : dinode[i].nlink >= Cardinality(Links(i))
  /\ dinode[ROOTINO].type = "dir"
PanicInv == panicked \in {"no", "no_inodes"}

\* An inode that iput has found in its last use stays so until it is freed.
LastInv == \A p \in Procs : pc[p] = "iput_free" => ref[put[p]] = 1 /\ dinode[put[p]].nlink = 0

CountInv == FSTypeOK /\ WalkInv /\ RefInv
FSInv == CountInv /\ CallInv /\ DotInv /\ LinkInv /\ PanicInv
FSAll == FSInv /\ LastInv

-----------------------------------------------------------------------------
(* Counting the pointers of one process *)

\* A step of p: the others keep what they have.
Local(p) ==
  \A q \in Procs \ {p} :
    /\ cwd'[q] = cwd[q] /\ ofile'[q] = ofile[q] /\ pc'[q] = pc[q]
    /\ ret'[q] = ret[q] /\ iret'[q] = iret[q]
    /\ ip'[q] = ip[q] /\ dp'[q] = dp[q] /\ put'[q] = put[q]
    /\ rest'[q] = rest[q] /\ parent'[q] = parent[q] /\ name'[q] = name[q] /\ new'[q] = new[q]

Same(c, i) == IF c = i THEN 1 ELSE 0
Weight(p, i) ==
  Same(Points(p, "cwd"), i) + Same(Points(p, "ofile"), i) + Same(Points(p, "dp"), i)
    + Same(Points(p, "ip"), i) + Same(Points(p, "put"), i)

\* The pairs of a process and a slot at which a function is i, those of p apart.
PairsAt(pts, i) == {u \in Procs \X Slots : pts[u] = i}
PairsApart(pts, p, i) == {u \in (Procs \ {p}) \X Slots : pts[u] = i}

\* Adding one element to the pairs counted for c alone raises the count of c by one.
LEMMA AddOne ==
  ASSUME NEW S, IsFiniteSet(S), NEW x, x \notin S, NEW c, NEW i,
         NEW T, T = IF c = i THEN S \cup {x} ELSE S
  PROVE  IsFiniteSet(T) /\ Cardinality(T) = Cardinality(S) + Same(c, i)
<1>1. CASE c = i
  BY <1>1, FS_AddElement DEF Same
<1>2. CASE c # i
  <2>1. Cardinality(S) \in Nat
    BY FS_CardinalityType
  <2> QED
    BY <1>2, <2>1 DEF Same
<1> QED
  BY <1>1, <1>2

\* A process has five pointers.
LEMMA SlotsFinite == IsFiniteSet(Slots)
<1>1. IsFiniteSet({"cwd"})
  BY FS_Singleton
<1>2. IsFiniteSet({"cwd"} \cup {"ofile"})
  BY <1>1, FS_AddElement
<1>3. IsFiniteSet({"cwd"} \cup {"ofile"} \cup {"dp"})
  BY <1>2, FS_AddElement
<1>4. IsFiniteSet({"cwd"} \cup {"ofile"} \cup {"dp"} \cup {"ip"})
  BY <1>3, FS_AddElement
<1>5. IsFiniteSet({"cwd"} \cup {"ofile"} \cup {"dp"} \cup {"ip"} \cup {"put"})
  BY <1>4, FS_AddElement
<1>6. Slots = {"cwd"} \cup {"ofile"} \cup {"dp"} \cup {"ip"} \cup {"put"}
  BY DEF Slots
<1> QED
  BY <1>5, <1>6

\* The pairs at which a function is i: those of the other processes and those of p.
LEMMA UsersOfOne ==
  ASSUME NEW pts, NEW p \in Procs, NEW i
  PROVE  /\ Cardinality(PairsApart(pts, p, i)) \in Nat
         /\ Cardinality(PairsAt(pts, i))
              = Cardinality(PairsApart(pts, p, i))
                  + Same(pts[<<p, "cwd">>], i) + Same(pts[<<p, "ofile">>], i)
                  + Same(pts[<<p, "dp">>], i) + Same(pts[<<p, "ip">>], i) + Same(pts[<<p, "put">>], i)
<1> DEFINE B(k) == pts[<<p, k>>]
           U == {u \in Procs \X Slots : pts[u] = i}
           U0 == {u \in (Procs \ {p}) \X Slots : pts[u] = i}
           U1 == IF B("cwd") = i THEN U0 \cup {<<p, "cwd">>} ELSE U0
           U2 == IF B("ofile") = i THEN U1 \cup {<<p, "ofile">>} ELSE U1
           U3 == IF B("dp") = i THEN U2 \cup {<<p, "dp">>} ELSE U2
           U4 == IF B("ip") = i THEN U3 \cup {<<p, "ip">>} ELSE U3
           U5 == IF B("put") = i THEN U4 \cup {<<p, "put">>} ELSE U4
<1>1. IsFiniteSet(Slots)
  BY SlotsFinite
<1>2. IsFiniteSet(Procs \X Slots)
  BY <1>1, FS_Product, FSAssumption
<1>3. U0 \subseteq Procs \X Slots
  OBVIOUS
<1>4. IsFiniteSet(U0) /\ Cardinality(U0) \in Nat
  BY <1>2, <1>3, FS_Subset, FS_CardinalityType
<1>5. \A k \in Slots : <<p, k>> \notin U0
  OBVIOUS
<1>6. /\ <<p, "cwd">> \notin U0 /\ <<p, "ofile">> \notin U1 /\ <<p, "dp">> \notin U2
      /\ <<p, "ip">> \notin U3 /\ <<p, "put">> \notin U4
  BY <1>5 DEF Slots
<1>7. U = U5
  <2>1. ASSUME NEW u \in Procs \X Slots
        PROVE  u \in U <=> u \in U5
    <3>1. CASE u[1] = p
      <4>1. u = <<p, u[2]>> /\ u[2] \in Slots
        BY <3>1
      <4>2. u \notin U0
        BY <4>1, <1>5
      <4>3. u \in U <=> B(u[2]) = i
        BY <4>1
      <4> QED
        BY <4>1, <4>2, <4>3 DEF Slots
    <3>2. CASE u[1] # p
      BY <3>2
    <3> QED
      BY <3>1, <3>2
  <2>2. U5 \subseteq Procs \X Slots
    BY <1>3 DEF Slots
  <2> QED
    BY SMTT(30), <2>1, <2>2
<1>8. /\ U1 = IF B("cwd") = i THEN U0 \cup {<<p, "cwd">>} ELSE U0
      /\ U2 = IF B("ofile") = i THEN U1 \cup {<<p, "ofile">>} ELSE U1
      /\ U3 = IF B("dp") = i THEN U2 \cup {<<p, "dp">>} ELSE U2
      /\ U4 = IF B("ip") = i THEN U3 \cup {<<p, "ip">>} ELSE U3
      /\ U5 = IF B("put") = i THEN U4 \cup {<<p, "put">>} ELSE U4
  OBVIOUS
<1> HIDE DEF U0, U1, U2, U3, U4, U5, B
<1>9. IsFiniteSet(U1) /\ Cardinality(U1) = Cardinality(U0) + Same(B("cwd"), i)
  BY <1>4, <1>6, <1>8, AddOne
<1>10. IsFiniteSet(U2) /\ Cardinality(U2) = Cardinality(U1) + Same(B("ofile"), i)
  BY SMTT(30), <1>9, <1>6, <1>8, AddOne
<1>11. IsFiniteSet(U3) /\ Cardinality(U3) = Cardinality(U2) + Same(B("dp"), i)
  BY <1>10, <1>6, <1>8, AddOne
<1>12. IsFiniteSet(U4) /\ Cardinality(U4) = Cardinality(U3) + Same(B("ip"), i)
  BY <1>11, <1>6, <1>8, AddOne
<1>13. IsFiniteSet(U5) /\ Cardinality(U5) = Cardinality(U4) + Same(B("put"), i)
  BY <1>12, <1>6, <1>8, AddOne
<1>14. Cardinality(U) = Cardinality(U0) + Same(B("cwd"), i) + Same(B("ofile"), i) + Same(B("dp"), i)
                          + Same(B("ip"), i) + Same(B("put"), i)
  BY <1>7, <1>9, <1>10, <1>11, <1>12, <1>13
<1> QED
  BY <1>4, <1>14 DEF U, U0, B, PairsAt, PairsApart

\* The pointers of the others do not move.
LEMMA OthersPoint ==
  ASSUME NEW p \in Procs, Local(p), NEW q \in Procs, q # p
  PROVE  /\ At(q)' = At(q) /\ (HoldsDp(q)' <=> HoldsDp(q)) /\ (HoldsIp(q)' <=> HoldsIp(q))
         /\ (HoldsPut(q)' <=> HoldsPut(q))
         /\ \A k \in Slots : Points(q, k)' = Points(q, k)
<1>1. At(q)' = At(q) /\ (HoldsPut(q)' <=> HoldsPut(q))
  BY DEF Local, At, HoldsPut
<1>2. (HoldsDp(q)' <=> HoldsDp(q)) /\ (HoldsIp(q)' <=> HoldsIp(q))
  BY <1>1 DEF HoldsDp, HoldsIp, Linking2, Local
<1>3. cwd'[q] = cwd[q] /\ ofile'[q] = ofile[q] /\ dp'[q] = dp[q] /\ ip'[q] = ip[q] /\ put'[q] = put[q]
  BY DEF Local
<1> QED
  BY <1>1, <1>2, <1>3 DEF Points, Slots

\* A step of p keeps the balance if it counts what it does to its own pointers.
LEMMA RefStep ==
  ASSUME RefInv, NEW p \in Procs, Local(p), FSTypeOK, FSTypeOK',
         \A i \in Inums : ref'[i] - ref[i] = Weight(p, i)' - Weight(p, i)
  PROVE  RefInv'
<1> SUFFICES ASSUME NEW i \in Inums PROVE ref'[i] = Cardinality(Users(i))'
  BY DEF RefInv
<1> DEFINE pts == [u \in Procs \X Slots |-> Points(u[1], u[2])]
<1>1. PairsApart(pts', p, i) = PairsApart(pts, p, i)
  <2>1. \A q \in Procs \ {p}, k \in Slots : Points(q, k)' = Points(q, k)
    BY OthersPoint
  <2>2. \A u \in (Procs \ {p}) \X Slots : pts'[u] = pts[u]
    BY <2>1
  <2> QED
    BY <2>2 DEF PairsApart
<1>2. /\ Users(i) = PairsAt(pts, i)
      /\ Users(i)' = PairsAt(pts', i)
  BY DEF Users, PairsAt
<1>3. \A k \in Slots : pts[<<p, k>>] = Points(p, k) /\ pts'[<<p, k>>] = Points(p, k)'
  OBVIOUS
<1>4. /\ pts[<<p, "cwd">>] = Points(p, "cwd") /\ pts[<<p, "ofile">>] = Points(p, "ofile")
      /\ pts[<<p, "dp">>] = Points(p, "dp") /\ pts[<<p, "ip">>] = Points(p, "ip")
      /\ pts[<<p, "put">>] = Points(p, "put")
      /\ pts'[<<p, "cwd">>] = Points(p, "cwd")' /\ pts'[<<p, "ofile">>] = Points(p, "ofile")'
      /\ pts'[<<p, "dp">>] = Points(p, "dp")' /\ pts'[<<p, "ip">>] = Points(p, "ip")'
      /\ pts'[<<p, "put">>] = Points(p, "put")'
  BY <1>3 DEF Slots
<1> HIDE DEF pts
<1>5. /\ Cardinality(PairsApart(pts, p, i)) \in Nat
      /\ Cardinality(PairsAt(pts, i))
           = Cardinality(PairsApart(pts, p, i)) + Same(pts[<<p, "cwd">>], i) + Same(pts[<<p, "ofile">>], i)
               + Same(pts[<<p, "dp">>], i) + Same(pts[<<p, "ip">>], i) + Same(pts[<<p, "put">>], i)
  BY UsersOfOne
<1>6. /\ Cardinality(PairsApart(pts', p, i)) \in Nat
      /\ Cardinality(PairsAt(pts', i))
           = Cardinality(PairsApart(pts', p, i)) + Same(pts'[<<p, "cwd">>], i) + Same(pts'[<<p, "ofile">>], i)
               + Same(pts'[<<p, "dp">>], i) + Same(pts'[<<p, "ip">>], i) + Same(pts'[<<p, "put">>], i)
  BY UsersOfOne
<1>7. Cardinality(Users(i)) = Cardinality(PairsApart(pts, p, i)) + Weight(p, i)
  BY <1>2, <1>5, <1>4 DEF Weight, Same
<1>8. Cardinality(Users(i)') = Cardinality(PairsApart(pts', p, i)) + Weight(p, i)'
  BY <1>2, <1>6, <1>4 DEF Weight, Same
<1>9. Weight(p, i) \in Int /\ Weight(p, i)' \in Int
  BY DEF Weight, Same
<1>10. ref[i] \in Int /\ ref'[i] \in Int /\ ref[i] = Cardinality(Users(i))
  BY DEF FSTypeOK, DiskTypeOK, CallTypeOK, RefInv
<1>11. ref'[i] - ref[i] = Weight(p, i)' - Weight(p, i)
  OBVIOUS
<1> QED
  BY <1>1, <1>5, <1>7, <1>8, <1>9, <1>10, <1>11

\* Where p stands, and the pointers of it that count; and the same after a step.
Stands(p, a, c, o, d, i, u) ==
  /\ At(p) = a /\ Points(p, "cwd") = c /\ Points(p, "ofile") = o
  /\ Points(p, "dp") = d /\ Points(p, "ip") = i /\ Points(p, "put") = u
StandsThen(p, a, c, o, d, i, u) ==
  /\ At(p)' = a /\ Points(p, "cwd")' = c /\ Points(p, "ofile")' = o
  /\ Points(p, "dp")' = d /\ Points(p, "ip")' = i /\ Points(p, "put")' = u

\* The inode at which a walk starts, those that a step looks up and that ialloc takes,
\* and where create and iput go on.
Start(p, path) == IF path[1] THEN ROOTINO ELSE cwd[p]
NextInode(p) == Lookup(dp[p], Head(rest[p]))
Found(p) == Lookup(dp[p], name[p])
AfterFound(p) == IF pc[p] = "create_dp" THEN "create_ip" ELSE "mkdir_ip"
AfterNew(p) == IF pc[p] = "mkdir_dp" THEN "mkdir_end" ELSE "create_end"
AfterLook(p) == IF LastUse(put[p]) THEN "iput_free" ELSE "iput_ref"
FirstFree == CHOOSE i \in FreeInodes : \A j \in FreeInodes : i <= j

\* What a step of p has to show for CountInv.
LEMMA CountStep ==
  ASSUME CountInv, NEW p \in Procs, Local(p), FSTypeOK', WalkOK(p)',
         \A i \in Inums : ref'[i] - ref[i] = Weight(p, i)' - Weight(p, i)
  PROVE  CountInv'
<1>1. RefInv'
  BY RefStep DEF CountInv
<1>2. WalkInv'
  <2> SUFFICES ASSUME NEW q \in Procs PROVE WalkOK(q)'
    BY DEF WalkInv
  <2>1. CASE q = p
    BY <2>1
  <2>2. CASE q # p
    <3>1. WalkOK(q)
      BY DEF CountInv, WalkInv
    <3>2. /\ At(q)' = At(q) /\ (HoldsDp(q)' <=> HoldsDp(q)) /\ (HoldsIp(q)' <=> HoldsIp(q))
          /\ (HoldsPut(q)' <=> HoldsPut(q))
      BY <2>2, OthersPoint
    <3>3. dp'[q] = dp[q] /\ ip'[q] = ip[q] /\ put'[q] = put[q] /\ ret'[q] = ret[q] /\ parent'[q] = parent[q]
      BY <2>2 DEF Local
    <3> QED
      BY <3>1, <3>2, <3>3 DEF WalkOK
  <2> QED
    BY <2>1, <2>2
<1> QED
  BY <1>1, <1>2 DEF CountInv

\* The values that no path, no name and no second path have.
LEMMA NoPath == /\ <<>> \in Seq(AllNames) /\ <<FALSE, <<>>>> \in BOOLEAN \X Seq(AllNames)
                /\ "." \in AllNames /\ Len(<<>>) = 0
<1>1. <<>> \in Seq(AllNames) /\ FALSE \in BOOLEAN /\ Len(<<>>) = 0
  OBVIOUS
<1>2. "." \in AllNames
  BY DEF AllNames
<1> QED
  BY <1>1, <1>2, Zenon

\* ialloc scans from the first inode.
LEMMA FirstInode ==
  ASSUME NEW S, S \subseteq Inums, S # {}
  PROVE  \E i \in S : \A j \in S : i <= j
<1> DEFINE R == OpToRel(<, Nat)
<1>1. \A i, j \in Nat : <<i, j>> \in R <=> i < j
  BY DEF OpToRel
<1>2. IsWellFoundedOn(R, Nat)
  BY NatLessThanWellFounded
<1>3. S \subseteq Nat
  BY DEF Inums
<1> HIDE DEF R
<1>4. \E i \in S : \A j \in S : ~ (<<j, i>> \in R)
  BY <1>2, <1>3, WFMin
<1> QED
  <2>1. PICK i \in S : \A j \in S : ~ (<<j, i>> \in R)
    BY <1>4
  <2>2. \A j \in S : ~ (j < i)
    BY <1>1, <1>3, <2>1
  <2>3. \A j \in S : i <= j
    BY <1>3, <2>2
  <2> QED
    BY <2>3

\* The first name of a path and the rest of it are a name and a path.
LEMMA FirstName ==
  ASSUME NEW s \in Seq(AllNames), s # <<>> \/ Len(s) = 1
  PROVE  s # <<>> /\ Head(s) \in AllNames /\ Tail(s) \in Seq(AllNames)
OBVIOUS

\* Where namex looks up a name to go on with, there are names left.
LEMMA MoreNames ==
  ASSUME NEW s \in Seq(AllNames), s # <<>>, NEW b \in BOOLEAN, ~(b /\ Len(s) = 1)
  PROVE  Len(s) > (IF b THEN 1 ELSE 0)
<1>1. \A n \in Nat : (n # 0 => n > 0) /\ (n # 0 /\ n # 1 => n > 1)
  OBVIOUS
<1>2. Len(s) \in Nat /\ Len(s) # 0
  OBVIOUS
<1>3. CASE b
  <2>1. Len(s) # 1
    BY <1>3, Zenon
  <2>2. Len(s) > 1
    BY <1>1, <1>2, <2>1, Zenon
  <2>3. (IF b THEN 1 ELSE 0) = 1
    BY <1>3, Zenon
  <2> QED
    BY <2>2, <2>3, Zenon
<1>4. CASE ~b
  <2>1. Len(s) > 0
    BY <1>1, <1>2, Zenon
  <2>2. (IF b THEN 1 ELSE 0) = 0
    BY <1>4, Zenon
  <2> QED
    BY <2>1, <2>2, Zenon
<1> QED
  BY <1>3, <1>4, Zenon

\* What the types say of one process and of one directory entry.
LEMMA FSTypes ==
  ASSUME FSTypeOK, NEW p \in Procs
  PROVE  /\ cwd[p] \in Inums /\ ofile[p] \in Inums \cup {NoInode}
         /\ ip[p] \in Inums \cup {NoInode} /\ dp[p] \in Inums \cup {NoInode}
         /\ put[p] \in Inums \cup {NoInode}
         /\ pc[p] \in Places \cup {"iput", "iput_free", "iput_ref"} /\ iret[p] \in Places
         /\ ret[p] \in ParentCalls \cup PathCalls \cup {"user"}
         /\ rest[p] \in Seq(AllNames) /\ parent[p] \in BOOLEAN
         /\ name[p] \in AllNames /\ new[p] \in BOOLEAN \X Seq(AllNames)
         /\ new[p][2] \in Seq(AllNames) /\ new[p][1] \in BOOLEAN
         /\ \A i \in Inums, n \in AllNames : Lookup(i, n) \in Inums \cup {NoInode}
         /\ \A i \in Inums : ref[i] \in Int /\ dinode[i] \in Inodes
<1>1. \A i \in Inums : dinode[i] \in Inodes
  BY DEF FSTypeOK, DiskTypeOK, CallTypeOK
<1>2. \A i \in Inums, n \in AllNames : Lookup(i, n) \in Inums \cup {NoInode}
  BY <1>1 DEF Inodes, Lookup
<1> QED
  BY <1>1, <1>2 DEF FSTypeOK, DiskTypeOK, CallTypeOK

\* No inode has the number of the null pointer, and the root is an inode.
LEMMA NullIsNone == NoInode \notin Inums /\ ROOTINO \in Inums
BY FSAssumption DEF NoInode, Inums, ROOTINO

\* A free inode is an inode without names.
LEMMA FreeIsInode ==
  /\ NoEntries \in [AllNames -> Inums \cup {NoInode}]
  /\ Free \in Inodes
BY DEF NoEntries, Free, Inodes

\* The fields of an inode.
LEMMA InodeFields ==
  ASSUME NEW x \in Inodes
  PROVE  /\ x.nlink \in Int /\ x.type \in {"none", "file", "dir"}
         /\ x.ents \in [AllNames -> Inums \cup {NoInode}]
         /\ x = [type |-> x.type, nlink |-> x.nlink, ents |-> x.ents]
BY DEF Inodes

\* Writing one name changes neither type nor links.
LEMMA EntryUpdate ==
  ASSUME NEW x \in Inodes, NEW n \in AllNames, NEW i \in Inums \cup {NoInode}
  PROVE  /\ [x EXCEPT !.ents[n] = i] \in Inodes
         /\ [x EXCEPT !.ents[n] = i]
              = [type |-> x.type, nlink |-> x.nlink, ents |-> [x.ents EXCEPT ![n] = i]]
<1>1. /\ x = [type |-> x.type, nlink |-> x.nlink, ents |-> x.ents]
      /\ x.nlink \in Int /\ x.type \in {"none", "file", "dir"}
      /\ x.ents \in [AllNames -> Inums \cup {NoInode}]
  BY InodeFields
<1>2. [x.ents EXCEPT ![n] = i] \in [AllNames -> Inums \cup {NoInode}]
  BY <1>1
<1>3. [x EXCEPT !.ents[n] = i] = [type |-> x.type, nlink |-> x.nlink, ents |-> [x.ents EXCEPT ![n] = i]]
  BY <1>1
<1> QED
  BY <1>1, <1>2, <1>3 DEF Inodes

\* A step that changes the variables of a call at p only.
Moves(p) ==
  /\ cwd' = [cwd EXCEPT ![p] = cwd'[p]] /\ ofile' = [ofile EXCEPT ![p] = ofile'[p]]
  /\ pc' = [pc EXCEPT ![p] = pc'[p]]
  /\ iret' = [iret EXCEPT ![p] = iret'[p]] /\ ret' = [ret EXCEPT ![p] = ret'[p]]
  /\ ip' = [ip EXCEPT ![p] = ip'[p]] /\ dp' = [dp EXCEPT ![p] = dp'[p]]
  /\ put' = [put EXCEPT ![p] = put'[p]]
  /\ rest' = [rest EXCEPT ![p] = rest'[p]] /\ parent' = [parent EXCEPT ![p] = parent'[p]]
  /\ name' = [name EXCEPT ![p] = name'[p]] /\ new' = [new EXCEPT ![p] = new'[p]]

CallTypeAt(p) ==
  /\ cwd[p] \in Inums /\ ofile[p] \in Inums \cup {NoInode}
  /\ pc[p] \in Places \cup {"iput", "iput_free", "iput_ref"}
  /\ iret[p] \in Places /\ ret[p] \in ParentCalls \cup PathCalls \cup {"user"}
  /\ ip[p] \in Inums \cup {NoInode} /\ dp[p] \in Inums \cup {NoInode}
  /\ put[p] \in Inums \cup {NoInode}
  /\ rest[p] \in Seq(AllNames) /\ parent[p] \in BOOLEAN
  /\ name[p] \in AllNames /\ new[p] \in BOOLEAN \X Seq(AllNames)

\* A call changes the state of its own process only.
LEMMA MovesLocal ==
  ASSUME CallTypeOK, NEW p \in Procs, Moves(p)
  PROVE  Local(p)
BY DEF CallTypeOK, Moves, Local

\* When the state of the process that moves has its type, that of every process has.
LEMMA MovesTyped ==
  ASSUME CallTypeOK, NEW p \in Procs, Moves(p), CallTypeAt(p)'
  PROVE  CallTypeOK'
<1>1. /\ cwd' \in [Procs -> Inums] /\ ofile' \in [Procs -> Inums \cup {NoInode}]
      /\ pc' \in [Procs -> Places \cup {"iput", "iput_free", "iput_ref"}]
  BY DEF CallTypeOK, Moves, CallTypeAt
<1>2. iret' \in [Procs -> Places] /\ ret' \in [Procs -> ParentCalls \cup PathCalls \cup {"user"}]
  BY DEF CallTypeOK, Moves, CallTypeAt
<1>3. /\ ip' \in [Procs -> Inums \cup {NoInode}] /\ dp' \in [Procs -> Inums \cup {NoInode}]
      /\ put' \in [Procs -> Inums \cup {NoInode}]
  BY DEF CallTypeOK, Moves, CallTypeAt
<1>4. rest' \in [Procs -> Seq(AllNames)] /\ parent' \in [Procs -> BOOLEAN]
  BY DEF CallTypeOK, Moves, CallTypeAt
<1>5. name' \in [Procs -> AllNames] /\ new' \in [Procs -> BOOLEAN \X Seq(AllNames)]
  BY DEF CallTypeOK, Moves, CallTypeAt
<1> QED
  BY <1>1, <1>2, <1>3, <1>4, <1>5 DEF CallTypeOK

\* namex at the end of a path whose parent was asked for: the last directory is put back.
\* References stay counted.
LEMMA NamexEndParentCount ==
  ASSUME CountInv, NEW p \in Procs, namex_end(p), parent[p]
  PROVE  /\ CountInv' /\ Moves(p)
         /\ Stands(p, "namex", cwd[p], ofile[p], dp[p], IF Linking2(p) THEN ip[p] ELSE NoInode, NoInode)
         /\ StandsThen(p, Failed(p), cwd[p], ofile[p], NoInode, IF Linking2(p) THEN ip[p] ELSE NoInode, dp[p])
         /\ pc'[p] = "iput" /\ rest'[p] = rest[p] /\ name'[p] = name[p] /\ new'[p] = new[p]
<1> USE DEF CountInv, FSTypeOK
<1>1. At(p) = "namex" /\ HoldsDp(p) /\ (HoldsIp(p) <=> Linking2(p)) /\ ~HoldsPut(p)
  BY DEF namex_end, At, Linking2, HoldsPut, HoldsDp, HoldsIp, ParentCalls, PathCalls
<1>2. dp[p] \in Inums /\ Failed(p) \in {"link_bad", "user"} /\ (Failed(p) = "link_bad" <=> Linking2(p))
  BY <1>1, FSTypes DEF WalkInv, WalkOK, Failed, Linking2, At, namex_end
<1>3. /\ put' = [put EXCEPT ![p] = dp[p]]
      /\ iret' = [iret EXCEPT ![p] = Failed(p)]
      /\ pc' = [pc EXCEPT ![p] = "iput"]
      /\ UNCHANGED <<dinode, ref, valid, lock, cwd, ofile, ret, ip, dp, rest, parent, name, new>>
  BY <1>1, <1>2, FSTypes DEF namex_end, loads, iget, iput, goto, done, diskVars, callVars, namex, FSTypeOK, DiskTypeOK, CallTypeOK
<1>4. /\ cwd'[p] = cwd[p] /\ ofile'[p] = ofile[p] /\ pc'[p] = "iput" /\ ret'[p] = ret[p]
      /\ iret'[p] = Failed(p) /\ ip'[p] = ip[p] /\ dp'[p] = dp[p] /\ put'[p] = dp[p]
      /\ rest'[p] = rest[p] /\ parent'[p] = parent[p] /\ name'[p] = name[p] /\ new'[p] = new[p]
  BY <1>3 DEF FSTypeOK, DiskTypeOK, CallTypeOK
<1>5. Moves(p)
  BY <1>3, <1>4 DEF CallTypeOK, Moves
<1>6. DiskTypeOK' /\ CallTypeOK'
  <2>1. DiskTypeOK'
    BY <1>3 DEF DiskTypeOK
  <2>2. CallTypeAt(p)'
    <3>1. pc'[p] \in Places \cup {"iput", "iput_free", "iput_ref"} /\ iret'[p] \in Places
      BY <1>2, <1>4, FSTypes DEF Places, ParentCalls, PathCalls
    <3>2. /\ cwd'[p] \in Inums /\ ofile'[p] \in Inums \cup {NoInode} /\ ip'[p] \in Inums \cup {NoInode}
          /\ dp'[p] \in Inums \cup {NoInode} /\ put'[p] \in Inums \cup {NoInode}
      BY <1>2, <1>4, FSTypes
    <3>3. /\ ret'[p] \in ParentCalls \cup PathCalls \cup {"user"} /\ rest'[p] \in Seq(AllNames)
          /\ parent'[p] \in BOOLEAN /\ name'[p] \in AllNames /\ new'[p] \in BOOLEAN \X Seq(AllNames)
      BY <1>2, <1>4, FSTypes, NoPath DEF ParentCalls, PathCalls
    <3> QED
      BY <3>1, <3>2, <3>3 DEF CallTypeAt
  <2> QED
    BY <1>5, <2>1, <2>2, MovesTyped
<1>7. /\ At(p)' = Failed(p) /\ ~HoldsDp(p)' /\ (HoldsIp(p)' <=> Linking2(p)) /\ HoldsPut(p)'
  BY <1>1, <1>2, <1>3 DEF At, Linking2, HoldsPut, HoldsDp, HoldsIp, FSTypeOK, DiskTypeOK, CallTypeOK, ParentCalls, PathCalls
<1>8. WalkOK(p)'
  BY <1>1, <1>2, <1>7, <1>4, NullIsNone DEF WalkInv, WalkOK
<1>9. /\ Stands(p, "namex", cwd[p], ofile[p], dp[p], IF Linking2(p) THEN ip[p] ELSE NoInode, NoInode)
      /\ StandsThen(p, Failed(p), cwd[p], ofile[p], NoInode, IF Linking2(p) THEN ip[p] ELSE NoInode, dp[p])
  BY <1>1, <1>2, <1>7, <1>4 DEF Stands, StandsThen, Points
<1>10. ASSUME NEW j \in Inums PROVE ref'[j] - ref[j] = Weight(p, j)' - Weight(p, j)
  <2>1. ref[j] \in Int /\ ref'[j] = ref[j]
    BY <1>3, FSTypes
  <2> QED
    BY <1>9, <2>1, <1>2, NullIsNone DEF Same, Weight, Stands, StandsThen
<1> QED
  BY <1>5, <1>6, <1>4, <1>8, <1>9, <1>10, MovesLocal, CountStep

\* namex at the end of a path: the inode reached is the one the call wanted.
\* References stay counted.
LEMMA NamexEndFoundCount ==
  ASSUME CountInv, NEW p \in Procs, namex_end(p), ~parent[p]
  PROVE  /\ CountInv' /\ Moves(p)
         /\ Stands(p, "namex", cwd[p], ofile[p], dp[p], NoInode, NoInode)
         /\ StandsThen(p, ret[p], cwd[p], ofile[p], NoInode, dp[p], NoInode)
         /\ pc'[p] = ret[p] /\ rest'[p] = rest[p] /\ name'[p] = name[p] /\ new'[p] = new[p]
<1> USE DEF CountInv, FSTypeOK
<1>1. At(p) = "namex" /\ HoldsDp(p) /\ (HoldsIp(p) <=> Linking2(p)) /\ ~HoldsPut(p)
  BY DEF namex_end, At, Linking2, HoldsPut, HoldsDp, HoldsIp, ParentCalls, PathCalls
<1>2. dp[p] \in Inums /\ ret[p] \in PathCalls /\ ~Linking2(p)
  BY <1>1, FSTypes DEF WalkInv, WalkOK, Linking2, PathCalls
<1>3. /\ ip' = [ip EXCEPT ![p] = dp[p]]
      /\ pc' = [pc EXCEPT ![p] = ret[p]]
      /\ UNCHANGED <<dinode, ref, valid, lock, cwd, ofile, ret, iret, dp, put, rest, parent, name, new>>
  BY <1>1, <1>2, FSTypes DEF namex_end, loads, iget, iput, goto, done, diskVars, callVars, namex, FSTypeOK, DiskTypeOK, CallTypeOK
<1>4. /\ cwd'[p] = cwd[p] /\ ofile'[p] = ofile[p] /\ pc'[p] = ret[p] /\ ret'[p] = ret[p]
      /\ iret'[p] = iret[p] /\ ip'[p] = dp[p] /\ dp'[p] = dp[p] /\ put'[p] = put[p]
      /\ rest'[p] = rest[p] /\ parent'[p] = parent[p] /\ name'[p] = name[p] /\ new'[p] = new[p]
  BY <1>3 DEF FSTypeOK, DiskTypeOK, CallTypeOK
<1>5. Moves(p)
  BY <1>3, <1>4 DEF CallTypeOK, Moves
<1>6. DiskTypeOK' /\ CallTypeOK'
  <2>1. DiskTypeOK'
    BY <1>3 DEF DiskTypeOK
  <2>2. CallTypeAt(p)'
    <3>1. pc'[p] \in Places \cup {"iput", "iput_free", "iput_ref"} /\ iret'[p] \in Places
      BY <1>2, <1>4, FSTypes DEF Places, ParentCalls, PathCalls
    <3>2. /\ cwd'[p] \in Inums /\ ofile'[p] \in Inums \cup {NoInode} /\ ip'[p] \in Inums \cup {NoInode}
          /\ dp'[p] \in Inums \cup {NoInode} /\ put'[p] \in Inums \cup {NoInode}
      BY <1>2, <1>4, FSTypes
    <3>3. /\ ret'[p] \in ParentCalls \cup PathCalls \cup {"user"} /\ rest'[p] \in Seq(AllNames)
          /\ parent'[p] \in BOOLEAN /\ name'[p] \in AllNames /\ new'[p] \in BOOLEAN \X Seq(AllNames)
      BY <1>2, <1>4, FSTypes, NoPath DEF ParentCalls, PathCalls
    <3> QED
      BY <3>1, <3>2, <3>3 DEF CallTypeAt
  <2> QED
    BY <1>5, <2>1, <2>2, MovesTyped
<1>7. /\ At(p)' = ret[p] /\ ~HoldsDp(p)' /\ HoldsIp(p)' /\ ~HoldsPut(p)'
  BY <1>1, <1>2, <1>3 DEF At, Linking2, HoldsPut, HoldsDp, HoldsIp, FSTypeOK, DiskTypeOK, CallTypeOK, ParentCalls, PathCalls
<1>8. WalkOK(p)'
  BY <1>1, <1>2, <1>7, <1>4, NullIsNone DEF WalkInv, WalkOK, PathCalls
<1>9. /\ Stands(p, "namex", cwd[p], ofile[p], dp[p], NoInode, NoInode)
      /\ StandsThen(p, ret[p], cwd[p], ofile[p], NoInode, dp[p], NoInode)
  BY <1>1, <1>2, <1>7, <1>4 DEF Stands, StandsThen, Points
<1>10. ASSUME NEW j \in Inums PROVE ref'[j] - ref[j] = Weight(p, j)' - Weight(p, j)
  <2>1. ref[j] \in Int /\ ref'[j] = ref[j]
    BY <1>3, FSTypes
  <2> QED
    BY <1>9, <2>1, <1>2, NullIsNone DEF Same, Weight, Stands, StandsThen
<1> QED
  BY <1>5, <1>6, <1>4, <1>8, <1>9, <1>10, MovesLocal, CountStep

\* namex at an inode that is no directory, or that has no such name. References stay counted.
LEMMA NamexMissCount ==
  ASSUME CountInv, NEW p \in Procs, namex_miss(p)
  PROVE  /\ CountInv' /\ Moves(p)
         /\ Stands(p, "namex", cwd[p], ofile[p], dp[p], IF Linking2(p) THEN ip[p] ELSE NoInode, NoInode)
         /\ StandsThen(p, Failed(p), cwd[p], ofile[p], NoInode, IF Linking2(p) THEN ip[p] ELSE NoInode, dp[p])
         /\ pc'[p] = "iput" /\ rest'[p] = rest[p] /\ name'[p] = name[p] /\ new'[p] = new[p]
<1> USE DEF CountInv, FSTypeOK
<1>1. At(p) = "namex" /\ HoldsDp(p) /\ (HoldsIp(p) <=> Linking2(p)) /\ ~HoldsPut(p)
  BY DEF namex_miss, At, Linking2, HoldsPut, HoldsDp, HoldsIp, ParentCalls, PathCalls
<1>2. dp[p] \in Inums /\ Failed(p) \in {"link_bad", "user"} /\ (Failed(p) = "link_bad" <=> Linking2(p))
  BY <1>1, FSTypes DEF WalkInv, WalkOK, Failed, Linking2, At, namex_miss
<1>3. /\ put' = [put EXCEPT ![p] = dp[p]]
      /\ iret' = [iret EXCEPT ![p] = Failed(p)]
      /\ pc' = [pc EXCEPT ![p] = "iput"]
      /\ UNCHANGED <<dinode, ref, lock, cwd, ofile, ret, ip, dp, rest, parent, name, new>>
      /\ valid' \in [Inums -> BOOLEAN]
  BY <1>1, <1>2, FSTypes DEF namex_miss, loads, iget, iput, goto, done, diskVars, callVars, namex, FSTypeOK, DiskTypeOK, CallTypeOK
<1>4. /\ cwd'[p] = cwd[p] /\ ofile'[p] = ofile[p] /\ pc'[p] = "iput" /\ ret'[p] = ret[p]
      /\ iret'[p] = Failed(p) /\ ip'[p] = ip[p] /\ dp'[p] = dp[p] /\ put'[p] = dp[p]
      /\ rest'[p] = rest[p] /\ parent'[p] = parent[p] /\ name'[p] = name[p] /\ new'[p] = new[p]
  BY <1>3 DEF FSTypeOK, DiskTypeOK, CallTypeOK
<1>5. Moves(p)
  BY <1>3, <1>4 DEF CallTypeOK, Moves
<1>6. DiskTypeOK' /\ CallTypeOK'
  <2>1. DiskTypeOK'
    BY <1>3 DEF DiskTypeOK
  <2>2. CallTypeAt(p)'
    <3>1. pc'[p] \in Places \cup {"iput", "iput_free", "iput_ref"} /\ iret'[p] \in Places
      BY <1>2, <1>4, FSTypes DEF Places, ParentCalls, PathCalls
    <3>2. /\ cwd'[p] \in Inums /\ ofile'[p] \in Inums \cup {NoInode} /\ ip'[p] \in Inums \cup {NoInode}
          /\ dp'[p] \in Inums \cup {NoInode} /\ put'[p] \in Inums \cup {NoInode}
      BY <1>2, <1>4, FSTypes
    <3>3. /\ ret'[p] \in ParentCalls \cup PathCalls \cup {"user"} /\ rest'[p] \in Seq(AllNames)
          /\ parent'[p] \in BOOLEAN /\ name'[p] \in AllNames /\ new'[p] \in BOOLEAN \X Seq(AllNames)
      BY <1>2, <1>4, FSTypes, NoPath DEF ParentCalls, PathCalls
    <3> QED
      BY <3>1, <3>2, <3>3 DEF CallTypeAt
  <2> QED
    BY <1>5, <2>1, <2>2, MovesTyped
<1>7. /\ At(p)' = Failed(p) /\ ~HoldsDp(p)' /\ (HoldsIp(p)' <=> Linking2(p)) /\ HoldsPut(p)'
  BY <1>1, <1>2, <1>3 DEF At, Linking2, HoldsPut, HoldsDp, HoldsIp, FSTypeOK, DiskTypeOK, CallTypeOK, ParentCalls, PathCalls
<1>8. WalkOK(p)'
  BY <1>1, <1>2, <1>7, <1>4, NullIsNone DEF WalkInv, WalkOK
<1>9. /\ Stands(p, "namex", cwd[p], ofile[p], dp[p], IF Linking2(p) THEN ip[p] ELSE NoInode, NoInode)
      /\ StandsThen(p, Failed(p), cwd[p], ofile[p], NoInode, IF Linking2(p) THEN ip[p] ELSE NoInode, dp[p])
  BY <1>1, <1>2, <1>7, <1>4 DEF Stands, StandsThen, Points
<1>10. ASSUME NEW j \in Inums PROVE ref'[j] - ref[j] = Weight(p, j)' - Weight(p, j)
  <2>1. ref[j] \in Int /\ ref'[j] = ref[j]
    BY <1>3, FSTypes
  <2> QED
    BY <1>9, <2>1, <1>2, NullIsNone DEF Same, Weight, Stands, StandsThen
<1> QED
  BY <1>5, <1>6, <1>4, <1>8, <1>9, <1>10, MovesLocal, CountStep

\* namex one name before the end: the directory, unlocked, is the parent. References stay counted.
LEMMA NamexParentCount ==
  ASSUME CountInv, NEW p \in Procs, namex_parent(p)
  PROVE  /\ CountInv' /\ Moves(p)
         /\ Stands(p, "namex", cwd[p], ofile[p], dp[p], IF Linking2(p) THEN ip[p] ELSE NoInode, NoInode)
         /\ StandsThen(p, ret[p], cwd[p], ofile[p], dp[p], IF Linking2(p) THEN ip[p] ELSE NoInode, NoInode)
         /\ pc'[p] = ret[p] /\ rest'[p] = rest[p] /\ name'[p] = Head(rest[p]) /\ new'[p] = new[p]
<1> USE DEF CountInv, FSTypeOK
<1>1. At(p) = "namex" /\ HoldsDp(p) /\ (HoldsIp(p) <=> Linking2(p)) /\ ~HoldsPut(p)
  BY DEF namex_parent, At, Linking2, HoldsPut, HoldsDp, HoldsIp, ParentCalls, PathCalls
<1>2. dp[p] \in Inums /\ ret[p] \in ParentCalls /\ (Linking2(p) <=> ret[p] = "link_dp") /\ Head(rest[p]) \in AllNames
  <2>1. rest[p] \in Seq(AllNames) /\ Len(rest[p]) = 1
    BY FSTypes DEF namex_parent
  <2>2. Head(rest[p]) \in AllNames
    BY <2>1, FirstName
  <2>3. dp[p] \in Inums /\ ret[p] \in ParentCalls
    BY <1>1, FSTypes DEF WalkInv, WalkOK, namex_parent
  <2> QED
    BY <1>1, <2>2, <2>3 DEF Linking2
<1>3. /\ pc' = [pc EXCEPT ![p] = ret[p]]
      /\ name' = [name EXCEPT ![p] = Head(rest[p])]
      /\ UNCHANGED <<dinode, ref, lock, cwd, ofile, ret, iret, ip, dp, put, rest, parent, new>>
      /\ valid' \in [Inums -> BOOLEAN]
  BY <1>1, <1>2, FSTypes DEF namex_parent, loads, iget, iput, goto, done, diskVars, callVars, namex, FSTypeOK, DiskTypeOK, CallTypeOK
<1>4. /\ cwd'[p] = cwd[p] /\ ofile'[p] = ofile[p] /\ pc'[p] = ret[p] /\ ret'[p] = ret[p]
      /\ iret'[p] = iret[p] /\ ip'[p] = ip[p] /\ dp'[p] = dp[p] /\ put'[p] = put[p]
      /\ rest'[p] = rest[p] /\ parent'[p] = parent[p] /\ name'[p] = Head(rest[p]) /\ new'[p] = new[p]
  BY <1>3 DEF FSTypeOK, DiskTypeOK, CallTypeOK
<1>5. Moves(p)
  BY <1>3, <1>4 DEF CallTypeOK, Moves
<1>6. DiskTypeOK' /\ CallTypeOK'
  <2>1. DiskTypeOK'
    BY <1>3 DEF DiskTypeOK
  <2>2. CallTypeAt(p)'
    <3>1. pc'[p] \in Places \cup {"iput", "iput_free", "iput_ref"} /\ iret'[p] \in Places
      BY <1>2, <1>4, FSTypes DEF Places, ParentCalls, PathCalls
    <3>2. /\ cwd'[p] \in Inums /\ ofile'[p] \in Inums \cup {NoInode} /\ ip'[p] \in Inums \cup {NoInode}
          /\ dp'[p] \in Inums \cup {NoInode} /\ put'[p] \in Inums \cup {NoInode}
      BY <1>2, <1>4, FSTypes
    <3>3. /\ ret'[p] \in ParentCalls \cup PathCalls \cup {"user"} /\ rest'[p] \in Seq(AllNames)
          /\ parent'[p] \in BOOLEAN /\ name'[p] \in AllNames /\ new'[p] \in BOOLEAN \X Seq(AllNames)
      BY <1>2, <1>4, FSTypes, NoPath DEF ParentCalls, PathCalls
    <3> QED
      BY <3>1, <3>2, <3>3 DEF CallTypeAt
  <2> QED
    BY <1>5, <2>1, <2>2, MovesTyped
<1>7. /\ At(p)' = ret[p] /\ HoldsDp(p)' /\ (HoldsIp(p)' <=> Linking2(p)) /\ ~HoldsPut(p)'
  BY <1>1, <1>2, <1>3 DEF At, Linking2, HoldsPut, HoldsDp, HoldsIp, FSTypeOK, DiskTypeOK, CallTypeOK, ParentCalls, PathCalls
<1>8. WalkOK(p)'
  BY <1>1, <1>2, <1>7, <1>4, NullIsNone DEF WalkInv, WalkOK, ParentCalls
<1>9. /\ Stands(p, "namex", cwd[p], ofile[p], dp[p], IF Linking2(p) THEN ip[p] ELSE NoInode, NoInode)
      /\ StandsThen(p, ret[p], cwd[p], ofile[p], dp[p], IF Linking2(p) THEN ip[p] ELSE NoInode, NoInode)
  BY <1>1, <1>2, <1>7, <1>4 DEF Stands, StandsThen, Points
<1>10. ASSUME NEW j \in Inums PROVE ref'[j] - ref[j] = Weight(p, j)' - Weight(p, j)
  <2>1. ref[j] \in Int /\ ref'[j] = ref[j]
    BY <1>3, FSTypes
  <2> QED
    BY <1>9, <2>1, <1>2, NullIsNone DEF Same, Weight, Stands, StandsThen
<1> QED
  BY <1>5, <1>6, <1>4, <1>8, <1>9, <1>10, MovesLocal, CountStep

\* The start of a call, at the root or at the current directory. References stay counted.
LEMMA BeginCount ==
  ASSUME CountInv, NEW p \in Procs, NEW call \in Calls, NEW path \in Paths, NEW path2 \in Paths, begin(p, call, path, path2)
  PROVE  /\ CountInv' /\ Moves(p)
         /\ Stands(p, "user", cwd[p], ofile[p], NoInode, NoInode, NoInode)
         /\ StandsThen(p, "namex", cwd[p], ofile[p], Start(p, path), NoInode, NoInode)
         /\ pc'[p] = "namex" /\ rest'[p] = path[2] /\ name'[p] = name[p] /\ new'[p] = (IF call = "link" THEN path2 ELSE <<FALSE, <<>>>>)
<1> DEFINE argument == IF call = "link" THEN path2 ELSE <<FALSE, <<>>>>
           isparent == call \in {"unlink", "create", "mkdir"}
           next == CASE call = "link" -> "link_ip" [] call = "unlink" -> "unlink_dp"
             [] call = "open" -> "open_ip" [] call = "chdir" -> "chdir_ip"
             [] call = "create" -> "create_dp" [] call = "mkdir" -> "mkdir_dp"
<1> USE DEF CountInv, FSTypeOK
<1>1. At(p) = "user" /\ ~HoldsDp(p) /\ ~HoldsIp(p) /\ ~HoldsPut(p)
  BY DEF begin, At, Linking2, HoldsPut, HoldsDp, HoldsIp, ParentCalls, PathCalls
<1>2. Start(p, path) \in Inums /\ path[2] \in Seq(AllNames) /\ argument \in BOOLEAN \X Seq(AllNames)
      /\ isparent \in BOOLEAN /\ next \in (IF isparent THEN ParentCalls ELSE PathCalls) \ {"link_dp"}
  <2>1. Start(p, path) \in Inums
    BY FSTypes, NullIsNone DEF Start
  <2>2. path[2] \in Seq(AllNames) /\ argument \in BOOLEAN \X Seq(AllNames)
    <3>1. path \in BOOLEAN \X Seq(AllNames) /\ path2 \in BOOLEAN \X Seq(AllNames)
      BY FSAssumption DEF AllNames
    <3> QED
      BY <3>1, NoPath
  <2>3. call \in {"link", "unlink", "open", "create", "mkdir", "chdir"}
    BY FSAssumption DEF begin
  <2>4. isparent \in BOOLEAN /\ next \in (IF isparent THEN ParentCalls ELSE PathCalls) \ {"link_dp"}
    BY <2>3 DEF ParentCalls, PathCalls
  <2> QED
    BY <2>1, <2>2, <2>4
<1>3. /\ dp' = [dp EXCEPT ![p] = Start(p, path)]
      /\ rest' = [rest EXCEPT ![p] = path[2]]
      /\ parent' = [parent EXCEPT ![p] = isparent]
      /\ ret' = [ret EXCEPT ![p] = next]
      /\ pc' = [pc EXCEPT ![p] = "namex"]
      /\ new' = [new EXCEPT ![p] = argument]
      /\ UNCHANGED <<dinode, valid, lock, cwd, ofile, iret, ip, put, name>>
      /\ ref' = [ref EXCEPT ![Start(p, path)] = @ + 1]
  BY <1>1, <1>2, FSTypes DEF begin, loads, iget, iput, goto, done, diskVars, callVars, namex, FSTypeOK, DiskTypeOK, CallTypeOK, Start
<1> HIDE DEF argument, isparent, next
<1>4. /\ cwd'[p] = cwd[p] /\ ofile'[p] = ofile[p] /\ pc'[p] = "namex" /\ ret'[p] = next
      /\ iret'[p] = iret[p] /\ ip'[p] = ip[p] /\ dp'[p] = Start(p, path) /\ put'[p] = put[p]
      /\ rest'[p] = path[2] /\ parent'[p] = isparent /\ name'[p] = name[p] /\ new'[p] = argument
  BY <1>3 DEF FSTypeOK, DiskTypeOK, CallTypeOK
<1>5. Moves(p)
  BY <1>3, <1>4 DEF CallTypeOK, Moves
<1>6. DiskTypeOK' /\ CallTypeOK'
  <2>1. DiskTypeOK'
    <3>1. ref' \in [Inums -> Int]
      BY <1>2, <1>3 DEF DiskTypeOK
    <3> QED
      BY <1>3, <3>1 DEF DiskTypeOK
  <2>2. CallTypeAt(p)'
    <3>1. pc'[p] \in Places \cup {"iput", "iput_free", "iput_ref"} /\ iret'[p] \in Places
      BY <1>2, <1>4, FSTypes DEF Places, ParentCalls, PathCalls
    <3>2. /\ cwd'[p] \in Inums /\ ofile'[p] \in Inums \cup {NoInode} /\ ip'[p] \in Inums \cup {NoInode}
          /\ dp'[p] \in Inums \cup {NoInode} /\ put'[p] \in Inums \cup {NoInode}
      BY <1>2, <1>4, FSTypes
    <3>3. /\ ret'[p] \in ParentCalls \cup PathCalls \cup {"user"} /\ rest'[p] \in Seq(AllNames)
          /\ parent'[p] \in BOOLEAN /\ name'[p] \in AllNames /\ new'[p] \in BOOLEAN \X Seq(AllNames)
      BY <1>2, <1>4, FSTypes, NoPath DEF ParentCalls, PathCalls
    <3> QED
      BY <3>1, <3>2, <3>3 DEF CallTypeAt
  <2> QED
    BY <1>5, <2>1, <2>2, MovesTyped
<1>7. /\ At(p)' = "namex" /\ HoldsDp(p)' /\ ~HoldsIp(p)' /\ ~HoldsPut(p)'
  BY <1>1, <1>2, <1>3 DEF At, Linking2, HoldsPut, HoldsDp, HoldsIp, FSTypeOK, DiskTypeOK, CallTypeOK, ParentCalls, PathCalls
<1>8. WalkOK(p)'
  BY <1>1, <1>2, <1>7, <1>4, NullIsNone DEF WalkInv, WalkOK
<1>9. /\ Stands(p, "user", cwd[p], ofile[p], NoInode, NoInode, NoInode)
      /\ StandsThen(p, "namex", cwd[p], ofile[p], Start(p, path), NoInode, NoInode)
  BY <1>1, <1>2, <1>7, <1>4 DEF Stands, StandsThen, Points
<1>10. ASSUME NEW j \in Inums PROVE ref'[j] - ref[j] = Weight(p, j)' - Weight(p, j)
  <2>1. ref[j] \in Int /\ ref'[j] = ref[j] + Same(Start(p, path), j)
    BY <1>2, <1>3, FSTypes DEF Same, FSTypeOK, DiskTypeOK, CallTypeOK
  <2> QED
    BY <1>9, <2>1, <1>2, NullIsNone DEF Same, Weight, Stands, StandsThen
<1> QED
  BY <1>5, <1>6, <1>4, <1>8, <1>9, <1>10, MovesLocal, CountStep DEF argument

\* close hands the reference of the descriptor to iput. References stay counted.
LEMMA CloseCount ==
  ASSUME CountInv, NEW p \in Procs, close(p)
  PROVE  /\ CountInv' /\ Moves(p)
         /\ Stands(p, "user", cwd[p], ofile[p], NoInode, NoInode, NoInode)
         /\ StandsThen(p, "user", cwd[p], NoInode, NoInode, NoInode, ofile[p])
         /\ pc'[p] = "iput" /\ rest'[p] = rest[p] /\ name'[p] = name[p] /\ new'[p] = new[p]
<1> USE DEF CountInv, FSTypeOK
<1>1. At(p) = "user" /\ ~HoldsDp(p) /\ ~HoldsIp(p) /\ ~HoldsPut(p)
  BY DEF close, At, Linking2, HoldsPut, HoldsDp, HoldsIp, ParentCalls, PathCalls
<1>2. ofile[p] \in Inums
  BY FSTypes DEF close
<1>3. /\ ofile' = [ofile EXCEPT ![p] = NoInode]
      /\ put' = [put EXCEPT ![p] = ofile[p]]
      /\ iret' = [iret EXCEPT ![p] = "user"]
      /\ pc' = [pc EXCEPT ![p] = "iput"]
      /\ UNCHANGED <<dinode, ref, valid, lock, cwd, ret, ip, dp, rest, parent, name, new>>
  BY <1>1, <1>2, FSTypes DEF close, loads, iget, iput, goto, done, diskVars, callVars, namex, FSTypeOK, DiskTypeOK, CallTypeOK
<1>4. /\ cwd'[p] = cwd[p] /\ ofile'[p] = NoInode /\ pc'[p] = "iput" /\ ret'[p] = ret[p]
      /\ iret'[p] = "user" /\ ip'[p] = ip[p] /\ dp'[p] = dp[p] /\ put'[p] = ofile[p]
      /\ rest'[p] = rest[p] /\ parent'[p] = parent[p] /\ name'[p] = name[p] /\ new'[p] = new[p]
  BY <1>3 DEF FSTypeOK, DiskTypeOK, CallTypeOK
<1>5. Moves(p)
  BY <1>3, <1>4 DEF CallTypeOK, Moves
<1>6. DiskTypeOK' /\ CallTypeOK'
  <2>1. DiskTypeOK'
    BY <1>3 DEF DiskTypeOK
  <2>2. CallTypeAt(p)'
    <3>1. pc'[p] \in Places \cup {"iput", "iput_free", "iput_ref"} /\ iret'[p] \in Places
      BY <1>2, <1>4, FSTypes DEF Places, ParentCalls, PathCalls
    <3>2. /\ cwd'[p] \in Inums /\ ofile'[p] \in Inums \cup {NoInode} /\ ip'[p] \in Inums \cup {NoInode}
          /\ dp'[p] \in Inums \cup {NoInode} /\ put'[p] \in Inums \cup {NoInode}
      BY <1>2, <1>4, FSTypes
    <3>3. /\ ret'[p] \in ParentCalls \cup PathCalls \cup {"user"} /\ rest'[p] \in Seq(AllNames)
          /\ parent'[p] \in BOOLEAN /\ name'[p] \in AllNames /\ new'[p] \in BOOLEAN \X Seq(AllNames)
      BY <1>2, <1>4, FSTypes, NoPath DEF ParentCalls, PathCalls
    <3> QED
      BY <3>1, <3>2, <3>3 DEF CallTypeAt
  <2> QED
    BY <1>5, <2>1, <2>2, MovesTyped
<1>7. /\ At(p)' = "user" /\ ~HoldsDp(p)' /\ ~HoldsIp(p)' /\ HoldsPut(p)'
  BY <1>1, <1>2, <1>3 DEF At, Linking2, HoldsPut, HoldsDp, HoldsIp, FSTypeOK, DiskTypeOK, CallTypeOK, ParentCalls, PathCalls
<1>8. WalkOK(p)'
  BY <1>1, <1>2, <1>7, <1>4, NullIsNone DEF WalkInv, WalkOK
<1>9. /\ Stands(p, "user", cwd[p], ofile[p], NoInode, NoInode, NoInode)
      /\ StandsThen(p, "user", cwd[p], NoInode, NoInode, NoInode, ofile[p])
  BY <1>1, <1>2, <1>7, <1>4 DEF Stands, StandsThen, Points
<1>10. ASSUME NEW j \in Inums PROVE ref'[j] - ref[j] = Weight(p, j)' - Weight(p, j)
  <2>1. ref[j] \in Int /\ ref'[j] = ref[j]
    BY <1>3, FSTypes
  <2> QED
    BY <1>9, <2>1, <1>2, NullIsNone DEF Same, Weight, Stands, StandsThen
<1> QED
  BY <1>5, <1>6, <1>4, <1>8, <1>9, <1>10, MovesLocal, CountStep

\* open that succeeds hands its reference to the descriptor. References stay counted.
LEMMA OpenGetsFileCount ==
  ASSUME CountInv, NEW p \in Procs, open_ip(p), done(p)
  PROVE  /\ CountInv' /\ Moves(p)
         /\ Stands(p, "open_ip", cwd[p], NoInode, NoInode, ip[p], NoInode)
         /\ StandsThen(p, "user", cwd[p], ip[p], NoInode, NoInode, NoInode)
         /\ pc'[p] = "user" /\ rest'[p] = <<>> /\ name'[p] = "." /\ new'[p] = <<FALSE, <<>>>>
<1> USE DEF CountInv, FSTypeOK
<1>1. At(p) = "open_ip" /\ ~HoldsDp(p) /\ HoldsIp(p) /\ ~HoldsPut(p)
  BY DEF open_ip, At, Linking2, HoldsPut, HoldsDp, HoldsIp, ParentCalls, PathCalls
<1>2. ip[p] \in Inums /\ ofile[p] = NoInode
  <2>1. ip[p] \in Inums
    BY <1>1, FSTypes DEF WalkInv, WalkOK
  <2>2. pc[p] # "iput" /\ pc'[p] # "iput"
    BY <1>1 DEF open_ip, done, goto, FSTypeOK, DiskTypeOK, CallTypeOK, HoldsPut
  <2>3. ~iput(p, ip[p], "user")
    BY <2>2 DEF iput, goto, FSTypeOK, DiskTypeOK, CallTypeOK
  <2> QED
    BY <2>1, <2>3 DEF open_ip
<1>3. /\ pc' = [pc EXCEPT ![p] = "user"]
      /\ ret' = [ret EXCEPT ![p] = "user"]
      /\ iret' = [iret EXCEPT ![p] = "user"]
      /\ ip' = [ip EXCEPT ![p] = NoInode]
      /\ dp' = [dp EXCEPT ![p] = NoInode]
      /\ put' = [put EXCEPT ![p] = NoInode]
      /\ rest' = [rest EXCEPT ![p] = <<>>]
      /\ parent' = [parent EXCEPT ![p] = FALSE]
      /\ name' = [name EXCEPT ![p] = "."]
      /\ new' = [new EXCEPT ![p] = <<FALSE, <<>>>>]
      /\ ofile' = [ofile EXCEPT ![p] = ip[p]]
      /\ UNCHANGED <<dinode, ref, lock, cwd>>
      /\ valid' \in [Inums -> BOOLEAN]
  BY ZenonT(30), <1>1, <1>2, FSTypes DEF open_ip, loads, iget, iput, goto, done, diskVars, callVars, namex, FSTypeOK, DiskTypeOK, CallTypeOK
<1>4. /\ cwd'[p] = cwd[p] /\ ofile'[p] = ip[p] /\ pc'[p] = "user" /\ ret'[p] = "user"
      /\ iret'[p] = "user" /\ ip'[p] = NoInode /\ dp'[p] = NoInode /\ put'[p] = NoInode
      /\ rest'[p] = <<>> /\ parent'[p] = FALSE /\ name'[p] = "." /\ new'[p] = <<FALSE, <<>>>>
  BY <1>3 DEF FSTypeOK, DiskTypeOK, CallTypeOK
<1>5. Moves(p)
  BY <1>3, <1>4 DEF CallTypeOK, Moves
<1>6. DiskTypeOK' /\ CallTypeOK'
  <2>1. DiskTypeOK'
    BY <1>3 DEF DiskTypeOK
  <2>2. CallTypeAt(p)'
    <3>1. pc'[p] \in Places \cup {"iput", "iput_free", "iput_ref"} /\ iret'[p] \in Places
      BY <1>2, <1>4, FSTypes DEF Places, ParentCalls, PathCalls
    <3>2. /\ cwd'[p] \in Inums /\ ofile'[p] \in Inums \cup {NoInode} /\ ip'[p] \in Inums \cup {NoInode}
          /\ dp'[p] \in Inums \cup {NoInode} /\ put'[p] \in Inums \cup {NoInode}
      BY <1>2, <1>4, FSTypes
    <3>3. /\ ret'[p] \in ParentCalls \cup PathCalls \cup {"user"} /\ rest'[p] \in Seq(AllNames)
          /\ parent'[p] \in BOOLEAN /\ name'[p] \in AllNames /\ new'[p] \in BOOLEAN \X Seq(AllNames)
      BY <1>2, <1>4, FSTypes, NoPath DEF ParentCalls, PathCalls
    <3> QED
      BY <3>1, <3>2, <3>3 DEF CallTypeAt
  <2> QED
    BY <1>5, <2>1, <2>2, MovesTyped
<1>7. /\ At(p)' = "user" /\ ~HoldsDp(p)' /\ ~HoldsIp(p)' /\ ~HoldsPut(p)'
  BY <1>1, <1>2, <1>3 DEF At, Linking2, HoldsPut, HoldsDp, HoldsIp, FSTypeOK, DiskTypeOK, CallTypeOK, ParentCalls, PathCalls
<1>8. WalkOK(p)'
  BY <1>1, <1>2, <1>7, <1>4, NullIsNone DEF WalkInv, WalkOK
<1>9. /\ Stands(p, "open_ip", cwd[p], NoInode, NoInode, ip[p], NoInode)
      /\ StandsThen(p, "user", cwd[p], ip[p], NoInode, NoInode, NoInode)
  BY <1>1, <1>2, <1>7, <1>4 DEF Stands, StandsThen, Points
<1>10. ASSUME NEW j \in Inums PROVE ref'[j] - ref[j] = Weight(p, j)' - Weight(p, j)
  <2>1. ref[j] \in Int /\ ref'[j] = ref[j]
    BY <1>3, FSTypes
  <2> QED
    BY <1>9, <2>1, <1>2, NullIsNone DEF Same, Weight, Stands, StandsThen
<1> QED
  BY <1>5, <1>6, <1>4, <1>8, <1>9, <1>10, MovesLocal, CountStep

\* open that fails puts the inode back. References stay counted.
LEMMA OpenGivesCount ==
  ASSUME CountInv, NEW p \in Procs, open_ip(p), ~done(p)
  PROVE  /\ CountInv' /\ Moves(p)
         /\ Stands(p, "open_ip", cwd[p], ofile[p], NoInode, ip[p], NoInode)
         /\ StandsThen(p, "user", cwd[p], ofile[p], NoInode, NoInode, ip[p])
         /\ pc'[p] = "iput" /\ rest'[p] = rest[p] /\ name'[p] = name[p] /\ new'[p] = new[p]
<1> USE DEF CountInv, FSTypeOK
<1>1. At(p) = "open_ip" /\ ~HoldsDp(p) /\ HoldsIp(p) /\ ~HoldsPut(p)
  BY DEF open_ip, At, Linking2, HoldsPut, HoldsDp, HoldsIp, ParentCalls, PathCalls
<1>2. ip[p] \in Inums
  BY <1>1, FSTypes DEF WalkInv, WalkOK
<1>3. /\ put' = [put EXCEPT ![p] = ip[p]]
      /\ iret' = [iret EXCEPT ![p] = "user"]
      /\ pc' = [pc EXCEPT ![p] = "iput"]
      /\ UNCHANGED <<dinode, ref, lock, cwd, ofile, ret, ip, dp, rest, parent, name, new>>
      /\ valid' \in [Inums -> BOOLEAN]
  BY <1>1, <1>2, FSTypes DEF open_ip, loads, iget, iput, goto, done, diskVars, callVars, namex, FSTypeOK, DiskTypeOK, CallTypeOK
<1>4. /\ cwd'[p] = cwd[p] /\ ofile'[p] = ofile[p] /\ pc'[p] = "iput" /\ ret'[p] = ret[p]
      /\ iret'[p] = "user" /\ ip'[p] = ip[p] /\ dp'[p] = dp[p] /\ put'[p] = ip[p]
      /\ rest'[p] = rest[p] /\ parent'[p] = parent[p] /\ name'[p] = name[p] /\ new'[p] = new[p]
  BY <1>3 DEF FSTypeOK, DiskTypeOK, CallTypeOK
<1>5. Moves(p)
  BY <1>3, <1>4 DEF CallTypeOK, Moves
<1>6. DiskTypeOK' /\ CallTypeOK'
  <2>1. DiskTypeOK'
    BY <1>3 DEF DiskTypeOK
  <2>2. CallTypeAt(p)'
    <3>1. pc'[p] \in Places \cup {"iput", "iput_free", "iput_ref"} /\ iret'[p] \in Places
      BY <1>2, <1>4, FSTypes DEF Places, ParentCalls, PathCalls
    <3>2. /\ cwd'[p] \in Inums /\ ofile'[p] \in Inums \cup {NoInode} /\ ip'[p] \in Inums \cup {NoInode}
          /\ dp'[p] \in Inums \cup {NoInode} /\ put'[p] \in Inums \cup {NoInode}
      BY <1>2, <1>4, FSTypes
    <3>3. /\ ret'[p] \in ParentCalls \cup PathCalls \cup {"user"} /\ rest'[p] \in Seq(AllNames)
          /\ parent'[p] \in BOOLEAN /\ name'[p] \in AllNames /\ new'[p] \in BOOLEAN \X Seq(AllNames)
      BY <1>2, <1>4, FSTypes, NoPath DEF ParentCalls, PathCalls
    <3> QED
      BY <3>1, <3>2, <3>3 DEF CallTypeAt
  <2> QED
    BY <1>5, <2>1, <2>2, MovesTyped
<1>7. /\ At(p)' = "user" /\ ~HoldsDp(p)' /\ ~HoldsIp(p)' /\ HoldsPut(p)'
  BY <1>1, <1>2, <1>3 DEF At, Linking2, HoldsPut, HoldsDp, HoldsIp, FSTypeOK, DiskTypeOK, CallTypeOK, ParentCalls, PathCalls
<1>8. WalkOK(p)'
  BY <1>1, <1>2, <1>7, <1>4, NullIsNone DEF WalkInv, WalkOK
<1>9. /\ Stands(p, "open_ip", cwd[p], ofile[p], NoInode, ip[p], NoInode)
      /\ StandsThen(p, "user", cwd[p], ofile[p], NoInode, NoInode, ip[p])
  BY <1>1, <1>2, <1>7, <1>4 DEF Stands, StandsThen, Points
<1>10. ASSUME NEW j \in Inums PROVE ref'[j] - ref[j] = Weight(p, j)' - Weight(p, j)
  <2>1. ref[j] \in Int /\ ref'[j] = ref[j]
    BY <1>3, FSTypes
  <2> QED
    BY <1>9, <2>1, <1>2, NullIsNone DEF Same, Weight, Stands, StandsThen
<1> QED
  BY <1>5, <1>6, <1>4, <1>8, <1>9, <1>10, MovesLocal, CountStep

\* chdir to something else than a directory puts the inode back. References stay counted.
LEMMA ChdirFailsCount ==
  ASSUME CountInv, NEW p \in Procs, chdir_ip(p), dinode[ip[p]].type # "dir"
  PROVE  /\ CountInv' /\ Moves(p)
         /\ Stands(p, "chdir_ip", cwd[p], ofile[p], NoInode, ip[p], NoInode)
         /\ StandsThen(p, "user", cwd[p], ofile[p], NoInode, NoInode, ip[p])
         /\ pc'[p] = "iput" /\ rest'[p] = rest[p] /\ name'[p] = name[p] /\ new'[p] = new[p]
<1> USE DEF CountInv, FSTypeOK
<1>1. At(p) = "chdir_ip" /\ ~HoldsDp(p) /\ HoldsIp(p) /\ ~HoldsPut(p)
  BY DEF chdir_ip, At, Linking2, HoldsPut, HoldsDp, HoldsIp, ParentCalls, PathCalls
<1>2. ip[p] \in Inums
  BY <1>1, FSTypes DEF WalkInv, WalkOK
<1>3. /\ put' = [put EXCEPT ![p] = ip[p]]
      /\ iret' = [iret EXCEPT ![p] = "user"]
      /\ pc' = [pc EXCEPT ![p] = "iput"]
      /\ UNCHANGED <<dinode, ref, lock, cwd, ofile, ret, ip, dp, rest, parent, name, new>>
      /\ valid' \in [Inums -> BOOLEAN]
  BY <1>1, <1>2, FSTypes DEF chdir_ip, loads, iget, iput, goto, done, diskVars, callVars, namex, FSTypeOK, DiskTypeOK, CallTypeOK
<1>4. /\ cwd'[p] = cwd[p] /\ ofile'[p] = ofile[p] /\ pc'[p] = "iput" /\ ret'[p] = ret[p]
      /\ iret'[p] = "user" /\ ip'[p] = ip[p] /\ dp'[p] = dp[p] /\ put'[p] = ip[p]
      /\ rest'[p] = rest[p] /\ parent'[p] = parent[p] /\ name'[p] = name[p] /\ new'[p] = new[p]
  BY <1>3 DEF FSTypeOK, DiskTypeOK, CallTypeOK
<1>5. Moves(p)
  BY <1>3, <1>4 DEF CallTypeOK, Moves
<1>6. DiskTypeOK' /\ CallTypeOK'
  <2>1. DiskTypeOK'
    BY <1>3 DEF DiskTypeOK
  <2>2. CallTypeAt(p)'
    <3>1. pc'[p] \in Places \cup {"iput", "iput_free", "iput_ref"} /\ iret'[p] \in Places
      BY <1>2, <1>4, FSTypes DEF Places, ParentCalls, PathCalls
    <3>2. /\ cwd'[p] \in Inums /\ ofile'[p] \in Inums \cup {NoInode} /\ ip'[p] \in Inums \cup {NoInode}
          /\ dp'[p] \in Inums \cup {NoInode} /\ put'[p] \in Inums \cup {NoInode}
      BY <1>2, <1>4, FSTypes
    <3>3. /\ ret'[p] \in ParentCalls \cup PathCalls \cup {"user"} /\ rest'[p] \in Seq(AllNames)
          /\ parent'[p] \in BOOLEAN /\ name'[p] \in AllNames /\ new'[p] \in BOOLEAN \X Seq(AllNames)
      BY <1>2, <1>4, FSTypes, NoPath DEF ParentCalls, PathCalls
    <3> QED
      BY <3>1, <3>2, <3>3 DEF CallTypeAt
  <2> QED
    BY <1>5, <2>1, <2>2, MovesTyped
<1>7. /\ At(p)' = "user" /\ ~HoldsDp(p)' /\ ~HoldsIp(p)' /\ HoldsPut(p)'
  BY <1>1, <1>2, <1>3 DEF At, Linking2, HoldsPut, HoldsDp, HoldsIp, FSTypeOK, DiskTypeOK, CallTypeOK, ParentCalls, PathCalls
<1>8. WalkOK(p)'
  BY <1>1, <1>2, <1>7, <1>4, NullIsNone DEF WalkInv, WalkOK
<1>9. /\ Stands(p, "chdir_ip", cwd[p], ofile[p], NoInode, ip[p], NoInode)
      /\ StandsThen(p, "user", cwd[p], ofile[p], NoInode, NoInode, ip[p])
  BY <1>1, <1>2, <1>7, <1>4 DEF Stands, StandsThen, Points
<1>10. ASSUME NEW j \in Inums PROVE ref'[j] - ref[j] = Weight(p, j)' - Weight(p, j)
  <2>1. ref[j] \in Int /\ ref'[j] = ref[j]
    BY <1>3, FSTypes
  <2> QED
    BY <1>9, <2>1, <1>2, NullIsNone DEF Same, Weight, Stands, StandsThen
<1> QED
  BY <1>5, <1>6, <1>4, <1>8, <1>9, <1>10, MovesLocal, CountStep

\* chdir hands its reference to the current directory and puts the old one back.
\* References stay counted.
LEMMA ChdirCount ==
  ASSUME CountInv, NEW p \in Procs, chdir_ip(p), dinode[ip[p]].type = "dir"
  PROVE  /\ CountInv' /\ Moves(p)
         /\ Stands(p, "chdir_ip", cwd[p], ofile[p], NoInode, ip[p], NoInode)
         /\ StandsThen(p, "user", ip[p], ofile[p], NoInode, NoInode, cwd[p])
         /\ pc'[p] = "iput" /\ rest'[p] = rest[p] /\ name'[p] = name[p] /\ new'[p] = new[p]
<1> USE DEF CountInv, FSTypeOK
<1>1. At(p) = "chdir_ip" /\ ~HoldsDp(p) /\ HoldsIp(p) /\ ~HoldsPut(p)
  BY DEF chdir_ip, At, Linking2, HoldsPut, HoldsDp, HoldsIp, ParentCalls, PathCalls
<1>2. ip[p] \in Inums /\ cwd[p] \in Inums
  BY <1>1, FSTypes DEF WalkInv, WalkOK
<1>3. /\ cwd' = [cwd EXCEPT ![p] = ip[p]]
      /\ put' = [put EXCEPT ![p] = cwd[p]]
      /\ iret' = [iret EXCEPT ![p] = "user"]
      /\ pc' = [pc EXCEPT ![p] = "iput"]
      /\ UNCHANGED <<dinode, ref, lock, ofile, ret, ip, dp, rest, parent, name, new>>
      /\ valid' \in [Inums -> BOOLEAN]
  BY <1>1, <1>2, FSTypes DEF chdir_ip, loads, iget, iput, goto, done, diskVars, callVars, namex, FSTypeOK, DiskTypeOK, CallTypeOK
<1>4. /\ cwd'[p] = ip[p] /\ ofile'[p] = ofile[p] /\ pc'[p] = "iput" /\ ret'[p] = ret[p]
      /\ iret'[p] = "user" /\ ip'[p] = ip[p] /\ dp'[p] = dp[p] /\ put'[p] = cwd[p]
      /\ rest'[p] = rest[p] /\ parent'[p] = parent[p] /\ name'[p] = name[p] /\ new'[p] = new[p]
  BY <1>3 DEF FSTypeOK, DiskTypeOK, CallTypeOK
<1>5. Moves(p)
  BY <1>3, <1>4 DEF CallTypeOK, Moves
<1>6. DiskTypeOK' /\ CallTypeOK'
  <2>1. DiskTypeOK'
    BY <1>3 DEF DiskTypeOK
  <2>2. CallTypeAt(p)'
    <3>1. pc'[p] \in Places \cup {"iput", "iput_free", "iput_ref"} /\ iret'[p] \in Places
      BY <1>2, <1>4, FSTypes DEF Places, ParentCalls, PathCalls
    <3>2. /\ cwd'[p] \in Inums /\ ofile'[p] \in Inums \cup {NoInode} /\ ip'[p] \in Inums \cup {NoInode}
          /\ dp'[p] \in Inums \cup {NoInode} /\ put'[p] \in Inums \cup {NoInode}
      BY <1>2, <1>4, FSTypes
    <3>3. /\ ret'[p] \in ParentCalls \cup PathCalls \cup {"user"} /\ rest'[p] \in Seq(AllNames)
          /\ parent'[p] \in BOOLEAN /\ name'[p] \in AllNames /\ new'[p] \in BOOLEAN \X Seq(AllNames)
      BY <1>2, <1>4, FSTypes, NoPath DEF ParentCalls, PathCalls
    <3> QED
      BY <3>1, <3>2, <3>3 DEF CallTypeAt
  <2> QED
    BY <1>5, <2>1, <2>2, MovesTyped
<1>7. /\ At(p)' = "user" /\ ~HoldsDp(p)' /\ ~HoldsIp(p)' /\ HoldsPut(p)'
  BY <1>1, <1>2, <1>3 DEF At, Linking2, HoldsPut, HoldsDp, HoldsIp, FSTypeOK, DiskTypeOK, CallTypeOK, ParentCalls, PathCalls
<1>8. WalkOK(p)'
  BY <1>1, <1>2, <1>7, <1>4, NullIsNone DEF WalkInv, WalkOK
<1>9. /\ Stands(p, "chdir_ip", cwd[p], ofile[p], NoInode, ip[p], NoInode)
      /\ StandsThen(p, "user", ip[p], ofile[p], NoInode, NoInode, cwd[p])
  BY <1>1, <1>2, <1>7, <1>4 DEF Stands, StandsThen, Points
<1>10. ASSUME NEW j \in Inums PROVE ref'[j] - ref[j] = Weight(p, j)' - Weight(p, j)
  <2>1. ref[j] \in Int /\ ref'[j] = ref[j]
    BY <1>3, FSTypes
  <2> QED
    BY <1>9, <2>1, <1>2, NullIsNone DEF Same, Weight, Stands, StandsThen
<1> QED
  BY <1>5, <1>6, <1>4, <1>8, <1>9, <1>10, MovesLocal, CountStep

\* create of a name that exists takes that inode and puts the parent back.
\* References stay counted.
LEMMA CreateFoundCount ==
  ASSUME CountInv, NEW p \in Procs, create_found(p)
  PROVE  /\ CountInv' /\ Moves(p)
         /\ Stands(p, pc[p], cwd[p], ofile[p], dp[p], NoInode, NoInode)
         /\ StandsThen(p, AfterFound(p), cwd[p], ofile[p], NoInode, Found(p), dp[p])
         /\ pc'[p] = "iput" /\ rest'[p] = rest[p] /\ name'[p] = name[p] /\ new'[p] = new[p]
<1> USE DEF CountInv, FSTypeOK
<1>1. At(p) = pc[p] /\ HoldsDp(p) /\ ~HoldsIp(p) /\ ~HoldsPut(p)
  BY DEF create_found, At, Linking2, HoldsPut, HoldsDp, HoldsIp, ParentCalls, PathCalls
<1>2. Found(p) \in Inums /\ dp[p] \in Inums /\ AfterFound(p) \in {"create_ip", "mkdir_ip"}
  BY <1>1, FSTypes DEF WalkInv, WalkOK, create_found, Found, AfterFound
<1>3. /\ ip' = [ip EXCEPT ![p] = Found(p)]
      /\ put' = [put EXCEPT ![p] = dp[p]]
      /\ iret' = [iret EXCEPT ![p] = AfterFound(p)]
      /\ pc' = [pc EXCEPT ![p] = "iput"]
      /\ UNCHANGED <<dinode, lock, cwd, ofile, ret, dp, rest, parent, name, new>>
      /\ valid' \in [Inums -> BOOLEAN]
      /\ ref' = [ref EXCEPT ![Found(p)] = @ + 1]
  BY <1>1, <1>2, FSTypes DEF create_found, loads, iget, iput, goto, done, diskVars, callVars, namex, FSTypeOK, DiskTypeOK, CallTypeOK, Found, AfterFound
<1>4. /\ cwd'[p] = cwd[p] /\ ofile'[p] = ofile[p] /\ pc'[p] = "iput" /\ ret'[p] = ret[p]
      /\ iret'[p] = AfterFound(p) /\ ip'[p] = Found(p) /\ dp'[p] = dp[p] /\ put'[p] = dp[p]
      /\ rest'[p] = rest[p] /\ parent'[p] = parent[p] /\ name'[p] = name[p] /\ new'[p] = new[p]
  BY <1>3 DEF FSTypeOK, DiskTypeOK, CallTypeOK
<1>5. Moves(p)
  BY <1>3, <1>4 DEF CallTypeOK, Moves
<1>6. DiskTypeOK' /\ CallTypeOK'
  <2>1. DiskTypeOK'
    <3>1. ref' \in [Inums -> Int]
      BY <1>2, <1>3 DEF DiskTypeOK
    <3> QED
      BY <1>3, <3>1 DEF DiskTypeOK
  <2>2. CallTypeAt(p)'
    <3>1. pc'[p] \in Places \cup {"iput", "iput_free", "iput_ref"} /\ iret'[p] \in Places
      BY <1>2, <1>4, FSTypes DEF Places, ParentCalls, PathCalls
    <3>2. /\ cwd'[p] \in Inums /\ ofile'[p] \in Inums \cup {NoInode} /\ ip'[p] \in Inums \cup {NoInode}
          /\ dp'[p] \in Inums \cup {NoInode} /\ put'[p] \in Inums \cup {NoInode}
      BY <1>2, <1>4, FSTypes
    <3>3. /\ ret'[p] \in ParentCalls \cup PathCalls \cup {"user"} /\ rest'[p] \in Seq(AllNames)
          /\ parent'[p] \in BOOLEAN /\ name'[p] \in AllNames /\ new'[p] \in BOOLEAN \X Seq(AllNames)
      BY <1>2, <1>4, FSTypes, NoPath DEF ParentCalls, PathCalls
    <3> QED
      BY <3>1, <3>2, <3>3 DEF CallTypeAt
  <2> QED
    BY <1>5, <2>1, <2>2, MovesTyped
<1>7. /\ At(p)' = AfterFound(p) /\ ~HoldsDp(p)' /\ HoldsIp(p)' /\ HoldsPut(p)'
  BY <1>1, <1>2, <1>3 DEF At, Linking2, HoldsPut, HoldsDp, HoldsIp, FSTypeOK, DiskTypeOK, CallTypeOK, ParentCalls, PathCalls
<1>8. WalkOK(p)'
  BY <1>1, <1>2, <1>7, <1>4, NullIsNone DEF WalkInv, WalkOK
<1>9. /\ Stands(p, pc[p], cwd[p], ofile[p], dp[p], NoInode, NoInode)
      /\ StandsThen(p, AfterFound(p), cwd[p], ofile[p], NoInode, Found(p), dp[p])
  BY <1>1, <1>2, <1>7, <1>4 DEF Stands, StandsThen, Points
<1>10. ASSUME NEW j \in Inums PROVE ref'[j] - ref[j] = Weight(p, j)' - Weight(p, j)
  <2>1. ref[j] \in Int /\ ref'[j] = ref[j] + Same(Found(p), j)
    BY <1>2, <1>3, FSTypes DEF Same, FSTypeOK, DiskTypeOK, CallTypeOK
  <2> QED
    BY <1>9, <2>1, <1>2, NullIsNone DEF Same, Weight, Stands, StandsThen
<1> QED
  BY <1>5, <1>6, <1>4, <1>8, <1>9, <1>10, MovesLocal, CountStep

\* create of a file that exists, opened. References stay counted.
LEMMA CreateOpensCount ==
  ASSUME CountInv, NEW p \in Procs, create_ip(p), done(p)
  PROVE  /\ CountInv' /\ Moves(p)
         /\ Stands(p, pc[p], cwd[p], NoInode, NoInode, ip[p], NoInode)
         /\ StandsThen(p, "user", cwd[p], ip[p], NoInode, NoInode, NoInode)
         /\ pc'[p] = "user" /\ rest'[p] = <<>> /\ name'[p] = "." /\ new'[p] = <<FALSE, <<>>>>
<1> USE DEF CountInv, FSTypeOK
<1>1. At(p) = pc[p] /\ ~HoldsDp(p) /\ HoldsIp(p) /\ ~HoldsPut(p)
  BY DEF create_ip, At, Linking2, HoldsPut, HoldsDp, HoldsIp, ParentCalls, PathCalls
<1>2. ip[p] \in Inums /\ ofile[p] = NoInode
  <2>1. ip[p] \in Inums
    BY <1>1, FSTypes DEF WalkInv, WalkOK
  <2>2. pc[p] # "iput" /\ pc'[p] # "iput"
    BY <1>1 DEF create_ip, done, goto, FSTypeOK, DiskTypeOK, CallTypeOK, HoldsPut
  <2>3. ~iput(p, ip[p], "user")
    BY <2>2 DEF iput, goto, FSTypeOK, DiskTypeOK, CallTypeOK
  <2> QED
    BY <2>1, <2>3 DEF create_ip
<1>3. /\ pc' = [pc EXCEPT ![p] = "user"]
      /\ ret' = [ret EXCEPT ![p] = "user"]
      /\ iret' = [iret EXCEPT ![p] = "user"]
      /\ ip' = [ip EXCEPT ![p] = NoInode]
      /\ dp' = [dp EXCEPT ![p] = NoInode]
      /\ put' = [put EXCEPT ![p] = NoInode]
      /\ rest' = [rest EXCEPT ![p] = <<>>]
      /\ parent' = [parent EXCEPT ![p] = FALSE]
      /\ name' = [name EXCEPT ![p] = "."]
      /\ new' = [new EXCEPT ![p] = <<FALSE, <<>>>>]
      /\ ofile' = [ofile EXCEPT ![p] = ip[p]]
      /\ UNCHANGED <<dinode, ref, lock, cwd>>
      /\ valid' \in [Inums -> BOOLEAN]
  BY <1>1, <1>2, FSTypes DEF create_ip, loads, iget, iput, goto, done, diskVars, callVars, namex, FSTypeOK, DiskTypeOK, CallTypeOK
<1>4. /\ cwd'[p] = cwd[p] /\ ofile'[p] = ip[p] /\ pc'[p] = "user" /\ ret'[p] = "user"
      /\ iret'[p] = "user" /\ ip'[p] = NoInode /\ dp'[p] = NoInode /\ put'[p] = NoInode
      /\ rest'[p] = <<>> /\ parent'[p] = FALSE /\ name'[p] = "." /\ new'[p] = <<FALSE, <<>>>>
  BY <1>3 DEF FSTypeOK, DiskTypeOK, CallTypeOK
<1>5. Moves(p)
  BY <1>3, <1>4 DEF CallTypeOK, Moves
<1>6. DiskTypeOK' /\ CallTypeOK'
  <2>1. DiskTypeOK'
    BY <1>3 DEF DiskTypeOK
  <2>2. CallTypeAt(p)'
    <3>1. pc'[p] \in Places \cup {"iput", "iput_free", "iput_ref"} /\ iret'[p] \in Places
      BY <1>2, <1>4, FSTypes DEF Places, ParentCalls, PathCalls
    <3>2. /\ cwd'[p] \in Inums /\ ofile'[p] \in Inums \cup {NoInode} /\ ip'[p] \in Inums \cup {NoInode}
          /\ dp'[p] \in Inums \cup {NoInode} /\ put'[p] \in Inums \cup {NoInode}
      BY <1>2, <1>4, FSTypes
    <3>3. /\ ret'[p] \in ParentCalls \cup PathCalls \cup {"user"} /\ rest'[p] \in Seq(AllNames)
          /\ parent'[p] \in BOOLEAN /\ name'[p] \in AllNames /\ new'[p] \in BOOLEAN \X Seq(AllNames)
      BY <1>2, <1>4, FSTypes, NoPath DEF ParentCalls, PathCalls
    <3> QED
      BY <3>1, <3>2, <3>3 DEF CallTypeAt
  <2> QED
    BY <1>5, <2>1, <2>2, MovesTyped
<1>7. /\ At(p)' = "user" /\ ~HoldsDp(p)' /\ ~HoldsIp(p)' /\ ~HoldsPut(p)'
  BY <1>1, <1>2, <1>3 DEF At, Linking2, HoldsPut, HoldsDp, HoldsIp, FSTypeOK, DiskTypeOK, CallTypeOK, ParentCalls, PathCalls
<1>8. WalkOK(p)'
  BY <1>1, <1>2, <1>7, <1>4, NullIsNone DEF WalkInv, WalkOK
<1>9. /\ Stands(p, pc[p], cwd[p], NoInode, NoInode, ip[p], NoInode)
      /\ StandsThen(p, "user", cwd[p], ip[p], NoInode, NoInode, NoInode)
  BY <1>1, <1>2, <1>7, <1>4 DEF Stands, StandsThen, Points
<1>10. ASSUME NEW j \in Inums PROVE ref'[j] - ref[j] = Weight(p, j)' - Weight(p, j)
  <2>1. ref[j] \in Int /\ ref'[j] = ref[j]
    BY <1>3, FSTypes
  <2> QED
    BY <1>9, <2>1, <1>2, NullIsNone DEF Same, Weight, Stands, StandsThen
<1> QED
  BY <1>5, <1>6, <1>4, <1>8, <1>9, <1>10, MovesLocal, CountStep

\* create of a name that exists and cannot be opened: the inode is put back.
\* References stay counted.
LEMMA CreateGivesCount ==
  ASSUME CountInv, NEW p \in Procs, create_ip(p), ~done(p)
  PROVE  /\ CountInv' /\ Moves(p)
         /\ Stands(p, pc[p], cwd[p], ofile[p], NoInode, ip[p], NoInode)
         /\ StandsThen(p, "user", cwd[p], ofile[p], NoInode, NoInode, ip[p])
         /\ pc'[p] = "iput" /\ rest'[p] = rest[p] /\ name'[p] = name[p] /\ new'[p] = new[p]
<1> USE DEF CountInv, FSTypeOK
<1>1. At(p) = pc[p] /\ ~HoldsDp(p) /\ HoldsIp(p) /\ ~HoldsPut(p)
  BY DEF create_ip, At, Linking2, HoldsPut, HoldsDp, HoldsIp, ParentCalls, PathCalls
<1>2. ip[p] \in Inums
  BY <1>1, FSTypes DEF WalkInv, WalkOK
<1>3. /\ put' = [put EXCEPT ![p] = ip[p]]
      /\ iret' = [iret EXCEPT ![p] = "user"]
      /\ pc' = [pc EXCEPT ![p] = "iput"]
      /\ UNCHANGED <<dinode, ref, lock, cwd, ofile, ret, ip, dp, rest, parent, name, new>>
      /\ valid' \in [Inums -> BOOLEAN]
  BY <1>1, <1>2, FSTypes DEF create_ip, loads, iget, iput, goto, done, diskVars, callVars, namex, FSTypeOK, DiskTypeOK, CallTypeOK
<1>4. /\ cwd'[p] = cwd[p] /\ ofile'[p] = ofile[p] /\ pc'[p] = "iput" /\ ret'[p] = ret[p]
      /\ iret'[p] = "user" /\ ip'[p] = ip[p] /\ dp'[p] = dp[p] /\ put'[p] = ip[p]
      /\ rest'[p] = rest[p] /\ parent'[p] = parent[p] /\ name'[p] = name[p] /\ new'[p] = new[p]
  BY <1>3 DEF FSTypeOK, DiskTypeOK, CallTypeOK
<1>5. Moves(p)
  BY <1>3, <1>4 DEF CallTypeOK, Moves
<1>6. DiskTypeOK' /\ CallTypeOK'
  <2>1. DiskTypeOK'
    BY <1>3 DEF DiskTypeOK
  <2>2. CallTypeAt(p)'
    <3>1. pc'[p] \in Places \cup {"iput", "iput_free", "iput_ref"} /\ iret'[p] \in Places
      BY <1>2, <1>4, FSTypes DEF Places, ParentCalls, PathCalls
    <3>2. /\ cwd'[p] \in Inums /\ ofile'[p] \in Inums \cup {NoInode} /\ ip'[p] \in Inums \cup {NoInode}
          /\ dp'[p] \in Inums \cup {NoInode} /\ put'[p] \in Inums \cup {NoInode}
      BY <1>2, <1>4, FSTypes
    <3>3. /\ ret'[p] \in ParentCalls \cup PathCalls \cup {"user"} /\ rest'[p] \in Seq(AllNames)
          /\ parent'[p] \in BOOLEAN /\ name'[p] \in AllNames /\ new'[p] \in BOOLEAN \X Seq(AllNames)
      BY <1>2, <1>4, FSTypes, NoPath DEF ParentCalls, PathCalls
    <3> QED
      BY <3>1, <3>2, <3>3 DEF CallTypeAt
  <2> QED
    BY <1>5, <2>1, <2>2, MovesTyped
<1>7. /\ At(p)' = "user" /\ ~HoldsDp(p)' /\ ~HoldsIp(p)' /\ HoldsPut(p)'
  BY <1>1, <1>2, <1>3 DEF At, Linking2, HoldsPut, HoldsDp, HoldsIp, FSTypeOK, DiskTypeOK, CallTypeOK, ParentCalls, PathCalls
<1>8. WalkOK(p)'
  BY <1>1, <1>2, <1>7, <1>4, NullIsNone DEF WalkInv, WalkOK
<1>9. /\ Stands(p, pc[p], cwd[p], ofile[p], NoInode, ip[p], NoInode)
      /\ StandsThen(p, "user", cwd[p], ofile[p], NoInode, NoInode, ip[p])
  BY <1>1, <1>2, <1>7, <1>4 DEF Stands, StandsThen, Points
<1>10. ASSUME NEW j \in Inums PROVE ref'[j] - ref[j] = Weight(p, j)' - Weight(p, j)
  <2>1. ref[j] \in Int /\ ref'[j] = ref[j]
    BY <1>3, FSTypes
  <2> QED
    BY <1>9, <2>1, <1>2, NullIsNone DEF Same, Weight, Stands, StandsThen
<1> QED
  BY <1>5, <1>6, <1>4, <1>8, <1>9, <1>10, MovesLocal, CountStep

\* create that has made a file, opened. References stay counted.
LEMMA CreateEndOpensCount ==
  ASSUME CountInv, NEW p \in Procs, create_end(p), done(p)
  PROVE  /\ CountInv' /\ Moves(p)
         /\ Stands(p, pc[p], cwd[p], NoInode, NoInode, ip[p], NoInode)
         /\ StandsThen(p, "user", cwd[p], ip[p], NoInode, NoInode, NoInode)
         /\ pc'[p] = "user" /\ rest'[p] = <<>> /\ name'[p] = "." /\ new'[p] = <<FALSE, <<>>>>
<1> USE DEF CountInv, FSTypeOK
<1>1. At(p) = pc[p] /\ ~HoldsDp(p) /\ HoldsIp(p) /\ ~HoldsPut(p)
  BY DEF create_end, At, Linking2, HoldsPut, HoldsDp, HoldsIp, ParentCalls, PathCalls
<1>2. ip[p] \in Inums /\ ofile[p] = NoInode
  <2>1. ip[p] \in Inums
    BY <1>1, FSTypes DEF WalkInv, WalkOK
  <2>2. pc[p] # "iput" /\ pc'[p] # "iput"
    BY <1>1 DEF create_end, done, goto, FSTypeOK, DiskTypeOK, CallTypeOK, HoldsPut
  <2>3. ~iput(p, ip[p], "user")
    BY <2>2 DEF iput, goto, FSTypeOK, DiskTypeOK, CallTypeOK
  <2> QED
    BY <2>1, <2>3 DEF create_end
<1>3. /\ pc' = [pc EXCEPT ![p] = "user"]
      /\ ret' = [ret EXCEPT ![p] = "user"]
      /\ iret' = [iret EXCEPT ![p] = "user"]
      /\ ip' = [ip EXCEPT ![p] = NoInode]
      /\ dp' = [dp EXCEPT ![p] = NoInode]
      /\ put' = [put EXCEPT ![p] = NoInode]
      /\ rest' = [rest EXCEPT ![p] = <<>>]
      /\ parent' = [parent EXCEPT ![p] = FALSE]
      /\ name' = [name EXCEPT ![p] = "."]
      /\ new' = [new EXCEPT ![p] = <<FALSE, <<>>>>]
      /\ ofile' = [ofile EXCEPT ![p] = ip[p]]
      /\ UNCHANGED <<dinode, ref, valid, cwd>>
  BY <1>1, <1>2, FSTypes DEF create_end, loads, iget, iput, goto, done, diskVars, callVars, namex, FSTypeOK, DiskTypeOK, CallTypeOK
<1>4. lock' \in [Inums -> Procs \cup {NoOne}]
  BY DEF create_end, FSTypeOK, DiskTypeOK, CallTypeOK
<1>5. /\ cwd'[p] = cwd[p] /\ ofile'[p] = ip[p] /\ pc'[p] = "user" /\ ret'[p] = "user"
      /\ iret'[p] = "user" /\ ip'[p] = NoInode /\ dp'[p] = NoInode /\ put'[p] = NoInode
      /\ rest'[p] = <<>> /\ parent'[p] = FALSE /\ name'[p] = "." /\ new'[p] = <<FALSE, <<>>>>
  BY <1>3 DEF FSTypeOK, DiskTypeOK, CallTypeOK
<1>6. Moves(p)
  BY <1>3, <1>5 DEF CallTypeOK, Moves
<1>7. DiskTypeOK' /\ CallTypeOK'
  <2>1. DiskTypeOK'
    BY <1>3, <1>4 DEF DiskTypeOK
  <2>2. CallTypeAt(p)'
    <3>1. pc'[p] \in Places \cup {"iput", "iput_free", "iput_ref"} /\ iret'[p] \in Places
      BY <1>2, <1>5, FSTypes DEF Places, ParentCalls, PathCalls
    <3>2. /\ cwd'[p] \in Inums /\ ofile'[p] \in Inums \cup {NoInode} /\ ip'[p] \in Inums \cup {NoInode}
          /\ dp'[p] \in Inums \cup {NoInode} /\ put'[p] \in Inums \cup {NoInode}
      BY <1>2, <1>5, FSTypes
    <3>3. /\ ret'[p] \in ParentCalls \cup PathCalls \cup {"user"} /\ rest'[p] \in Seq(AllNames)
          /\ parent'[p] \in BOOLEAN /\ name'[p] \in AllNames /\ new'[p] \in BOOLEAN \X Seq(AllNames)
      BY <1>2, <1>5, FSTypes, NoPath DEF ParentCalls, PathCalls
    <3> QED
      BY <3>1, <3>2, <3>3 DEF CallTypeAt
  <2> QED
    BY <1>6, <2>1, <2>2, MovesTyped
<1>8. /\ At(p)' = "user" /\ ~HoldsDp(p)' /\ ~HoldsIp(p)' /\ ~HoldsPut(p)'
  BY <1>1, <1>2, <1>3 DEF At, Linking2, HoldsPut, HoldsDp, HoldsIp, FSTypeOK, DiskTypeOK, CallTypeOK, ParentCalls, PathCalls
<1>9. WalkOK(p)'
  BY <1>1, <1>2, <1>8, <1>5, NullIsNone DEF WalkInv, WalkOK
<1>10. /\ Stands(p, pc[p], cwd[p], NoInode, NoInode, ip[p], NoInode)
       /\ StandsThen(p, "user", cwd[p], ip[p], NoInode, NoInode, NoInode)
  BY <1>1, <1>2, <1>8, <1>5 DEF Stands, StandsThen, Points
<1>11. ASSUME NEW j \in Inums PROVE ref'[j] - ref[j] = Weight(p, j)' - Weight(p, j)
  <2>1. ref[j] \in Int /\ ref'[j] = ref[j]
    BY <1>3, FSTypes
  <2> QED
    BY <1>10, <2>1, <1>2, NullIsNone DEF Same, Weight, Stands, StandsThen
<1> QED
  BY <1>6, <1>7, <1>5, <1>9, <1>10, <1>11, MovesLocal, CountStep

\* create that has made a file or a directory, and no descriptor keeps it.
\* References stay counted.
LEMMA CreateEndGivesCount ==
  ASSUME CountInv, NEW p \in Procs, create_end(p), ~done(p)
  PROVE  /\ CountInv' /\ Moves(p)
         /\ Stands(p, pc[p], cwd[p], ofile[p], NoInode, ip[p], NoInode)
         /\ StandsThen(p, "user", cwd[p], ofile[p], NoInode, NoInode, ip[p])
         /\ pc'[p] = "iput" /\ rest'[p] = rest[p] /\ name'[p] = name[p] /\ new'[p] = new[p]
<1> USE DEF CountInv, FSTypeOK
<1>1. At(p) = pc[p] /\ ~HoldsDp(p) /\ HoldsIp(p) /\ ~HoldsPut(p)
  BY DEF create_end, At, Linking2, HoldsPut, HoldsDp, HoldsIp, ParentCalls, PathCalls
<1>2. ip[p] \in Inums
  BY <1>1, FSTypes DEF WalkInv, WalkOK
<1>3. /\ put' = [put EXCEPT ![p] = ip[p]]
      /\ iret' = [iret EXCEPT ![p] = "user"]
      /\ pc' = [pc EXCEPT ![p] = "iput"]
      /\ UNCHANGED <<dinode, ref, valid, cwd, ofile, ret, ip, dp, rest, parent, name, new>>
  BY <1>1, <1>2, FSTypes DEF create_end, loads, iget, iput, goto, done, diskVars, callVars, namex, FSTypeOK, DiskTypeOK, CallTypeOK
<1>4. lock' \in [Inums -> Procs \cup {NoOne}]
  BY DEF create_end, FSTypeOK, DiskTypeOK, CallTypeOK
<1>5. /\ cwd'[p] = cwd[p] /\ ofile'[p] = ofile[p] /\ pc'[p] = "iput" /\ ret'[p] = ret[p]
      /\ iret'[p] = "user" /\ ip'[p] = ip[p] /\ dp'[p] = dp[p] /\ put'[p] = ip[p]
      /\ rest'[p] = rest[p] /\ parent'[p] = parent[p] /\ name'[p] = name[p] /\ new'[p] = new[p]
  BY <1>3 DEF FSTypeOK, DiskTypeOK, CallTypeOK
<1>6. Moves(p)
  BY <1>3, <1>5 DEF CallTypeOK, Moves
<1>7. DiskTypeOK' /\ CallTypeOK'
  <2>1. DiskTypeOK'
    BY <1>3, <1>4 DEF DiskTypeOK
  <2>2. CallTypeAt(p)'
    <3>1. pc'[p] \in Places \cup {"iput", "iput_free", "iput_ref"} /\ iret'[p] \in Places
      BY <1>2, <1>5, FSTypes DEF Places, ParentCalls, PathCalls
    <3>2. /\ cwd'[p] \in Inums /\ ofile'[p] \in Inums \cup {NoInode} /\ ip'[p] \in Inums \cup {NoInode}
          /\ dp'[p] \in Inums \cup {NoInode} /\ put'[p] \in Inums \cup {NoInode}
      BY <1>2, <1>5, FSTypes
    <3>3. /\ ret'[p] \in ParentCalls \cup PathCalls \cup {"user"} /\ rest'[p] \in Seq(AllNames)
          /\ parent'[p] \in BOOLEAN /\ name'[p] \in AllNames /\ new'[p] \in BOOLEAN \X Seq(AllNames)
      BY <1>2, <1>5, FSTypes, NoPath DEF ParentCalls, PathCalls
    <3> QED
      BY <3>1, <3>2, <3>3 DEF CallTypeAt
  <2> QED
    BY <1>6, <2>1, <2>2, MovesTyped
<1>8. /\ At(p)' = "user" /\ ~HoldsDp(p)' /\ ~HoldsIp(p)' /\ HoldsPut(p)'
  BY <1>1, <1>2, <1>3 DEF At, Linking2, HoldsPut, HoldsDp, HoldsIp, FSTypeOK, DiskTypeOK, CallTypeOK, ParentCalls, PathCalls
<1>9. WalkOK(p)'
  BY <1>1, <1>2, <1>8, <1>5, NullIsNone DEF WalkInv, WalkOK
<1>10. /\ Stands(p, pc[p], cwd[p], ofile[p], NoInode, ip[p], NoInode)
       /\ StandsThen(p, "user", cwd[p], ofile[p], NoInode, NoInode, ip[p])
  BY <1>1, <1>2, <1>8, <1>5 DEF Stands, StandsThen, Points
<1>11. ASSUME NEW j \in Inums PROVE ref'[j] - ref[j] = Weight(p, j)' - Weight(p, j)
  <2>1. ref[j] \in Int /\ ref'[j] = ref[j]
    BY <1>3, FSTypes
  <2> QED
    BY <1>10, <2>1, <1>2, NullIsNone DEF Same, Weight, Stands, StandsThen
<1> QED
  BY <1>6, <1>7, <1>5, <1>9, <1>10, <1>11, MovesLocal, CountStep

\* create with no inode left: ialloc panics. References stay counted.
LEMMA CreatePanicsCount ==
  ASSUME CountInv, NEW p \in Procs, create_new(p), FreeInodes = {}
  PROVE  /\ CountInv' /\ Moves(p)
         /\ Stands(p, pc[p], cwd[p], ofile[p], dp[p], NoInode, NoInode)
         /\ StandsThen(p, "panic", cwd[p], ofile[p], dp[p], NoInode, NoInode)
         /\ pc'[p] = "panic" /\ rest'[p] = rest[p] /\ name'[p] = name[p] /\ new'[p] = new[p]
<1> USE DEF CountInv, FSTypeOK
<1>1. At(p) = pc[p] /\ HoldsDp(p) /\ ~HoldsIp(p) /\ ~HoldsPut(p)
  BY DEF create_new, At, Linking2, HoldsPut, HoldsDp, HoldsIp, ParentCalls, PathCalls
<1>2. dp[p] \in Inums
  BY <1>1, FSTypes DEF WalkInv, WalkOK
<1>3. /\ pc' = [pc EXCEPT ![p] = "panic"]
      /\ UNCHANGED <<dinode, ref, valid, lock, cwd, ofile, ret, iret, ip, dp, put, rest, parent, name, new>>
  BY <1>1, <1>2, FSTypes DEF create_new, loads, iget, iput, goto, done, diskVars, callVars, namex, FSTypeOK, DiskTypeOK, CallTypeOK
<1>4. /\ cwd'[p] = cwd[p] /\ ofile'[p] = ofile[p] /\ pc'[p] = "panic" /\ ret'[p] = ret[p]
      /\ iret'[p] = iret[p] /\ ip'[p] = ip[p] /\ dp'[p] = dp[p] /\ put'[p] = put[p]
      /\ rest'[p] = rest[p] /\ parent'[p] = parent[p] /\ name'[p] = name[p] /\ new'[p] = new[p]
  BY <1>3 DEF FSTypeOK, DiskTypeOK, CallTypeOK
<1>5. Moves(p)
  BY <1>3, <1>4 DEF CallTypeOK, Moves
<1>6. DiskTypeOK' /\ CallTypeOK'
  <2>1. DiskTypeOK'
    BY <1>3 DEF DiskTypeOK
  <2>2. CallTypeAt(p)'
    <3>1. pc'[p] \in Places \cup {"iput", "iput_free", "iput_ref"} /\ iret'[p] \in Places
      BY <1>2, <1>4, FSTypes DEF Places, ParentCalls, PathCalls
    <3>2. /\ cwd'[p] \in Inums /\ ofile'[p] \in Inums \cup {NoInode} /\ ip'[p] \in Inums \cup {NoInode}
          /\ dp'[p] \in Inums \cup {NoInode} /\ put'[p] \in Inums \cup {NoInode}
      BY <1>2, <1>4, FSTypes
    <3>3. /\ ret'[p] \in ParentCalls \cup PathCalls \cup {"user"} /\ rest'[p] \in Seq(AllNames)
          /\ parent'[p] \in BOOLEAN /\ name'[p] \in AllNames /\ new'[p] \in BOOLEAN \X Seq(AllNames)
      BY <1>2, <1>4, FSTypes, NoPath DEF ParentCalls, PathCalls
    <3> QED
      BY <3>1, <3>2, <3>3 DEF CallTypeAt
  <2> QED
    BY <1>5, <2>1, <2>2, MovesTyped
<1>7. /\ At(p)' = "panic" /\ HoldsDp(p)' /\ ~HoldsIp(p)' /\ ~HoldsPut(p)'
  BY <1>1, <1>2, <1>3 DEF At, Linking2, HoldsPut, HoldsDp, HoldsIp, FSTypeOK, DiskTypeOK, CallTypeOK, ParentCalls, PathCalls
<1>8. WalkOK(p)'
  BY <1>1, <1>2, <1>7, <1>4, NullIsNone DEF WalkInv, WalkOK
<1>9. /\ Stands(p, pc[p], cwd[p], ofile[p], dp[p], NoInode, NoInode)
      /\ StandsThen(p, "panic", cwd[p], ofile[p], dp[p], NoInode, NoInode)
  BY <1>1, <1>2, <1>7, <1>4 DEF Stands, StandsThen, Points
<1>10. ASSUME NEW j \in Inums PROVE ref'[j] - ref[j] = Weight(p, j)' - Weight(p, j)
  <2>1. ref[j] \in Int /\ ref'[j] = ref[j]
    BY <1>3, FSTypes
  <2> QED
    BY <1>9, <2>1, <1>2, NullIsNone DEF Same, Weight, Stands, StandsThen
<1> QED
  BY <1>5, <1>6, <1>4, <1>8, <1>9, <1>10, MovesLocal, CountStep

\* create of a new name: ialloc, the names . and .. of a directory, the name in the parent.
\* References stay counted.
LEMMA CreateNewCount ==
  ASSUME CountInv, NEW p \in Procs, create_new(p), FreeInodes # {}
  PROVE  /\ CountInv' /\ Moves(p)
         /\ Stands(p, pc[p], cwd[p], ofile[p], dp[p], NoInode, NoInode)
         /\ StandsThen(p, AfterNew(p), cwd[p], ofile[p], NoInode, FirstFree, dp[p])
         /\ pc'[p] = "iput" /\ rest'[p] = rest[p] /\ name'[p] = name[p] /\ new'[p] = new[p]
<1> DEFINE isdir == pc[p] = "mkdir_dp"
           dots == [NoEntries EXCEPT !["."] = FirstFree, ![".."] = dp[p]]
           inode == [type |-> IF isdir THEN "dir" ELSE "file", nlink |-> 1,
                     ents |-> IF isdir THEN dots ELSE NoEntries]
<1> USE DEF CountInv, FSTypeOK
<1>1. At(p) = pc[p] /\ HoldsDp(p) /\ ~HoldsIp(p) /\ ~HoldsPut(p)
  BY DEF create_new, At, Linking2, HoldsPut, HoldsDp, HoldsIp, ParentCalls, PathCalls
<1>2. FirstFree \in Inums /\ FirstFree \in FreeInodes /\ dp[p] \in Inums
      /\ AfterNew(p) \in {"create_end", "mkdir_end"}
  <2>1. \E j \in FreeInodes : \A k \in FreeInodes : j <= k
    BY FirstInode DEF FreeInodes
  <2> QED
    BY <1>1, <2>1, FSTypes DEF WalkInv, WalkOK, FreeInodes, FirstFree, AfterNew
<1>3. /\ ip' = [ip EXCEPT ![p] = FirstFree]
      /\ put' = [put EXCEPT ![p] = dp[p]]
      /\ iret' = [iret EXCEPT ![p] = AfterNew(p)]
      /\ pc' = [pc EXCEPT ![p] = "iput"]
      /\ UNCHANGED <<cwd, ofile, ret, dp, rest, parent, name, new>>
      /\ ref' = [ref EXCEPT ![FirstFree] = @ + 1]
  BY <1>1, <1>2, FSTypes DEF create_new, loads, iget, iput, goto, done, diskVars, callVars, namex, FSTypeOK, DiskTypeOK, CallTypeOK, FirstFree, AfterNew
<1> HIDE DEF isdir, dots, inode
<1>4. dinode' \in [Inums -> Inodes]
  <2>1. dots \in [AllNames -> Inums \cup {NoInode}]
    BY <1>2, FreeIsInode DEF dots
  <2>2. inode \in Inodes
    BY <2>1, FreeIsInode DEF inode, Inodes
  <2>3. dinode[dp[p]] \in Inodes /\ name[p] \in AllNames
    BY <1>2, FSTypes
  <2>4. [dinode[dp[p]] EXCEPT !.ents[name[p]] = FirstFree, !.nlink = IF isdir THEN @ + 1 ELSE @] \in Inodes
    <3> DEFINE x == dinode[dp[p]]
               y == [x EXCEPT !.ents[name[p]] = FirstFree]
    <3>1. y \in Inodes /\ x.nlink \in Int
      BY <1>2, <2>3, EntryUpdate, InodeFields
    <3>2. [x EXCEPT !.ents[name[p]] = FirstFree, !.nlink = IF isdir THEN @ + 1 ELSE @]
            = [y EXCEPT !.nlink = IF isdir THEN x.nlink + 1 ELSE x.nlink]
      BY <2>3, InodeFields
    <3> HIDE DEF y
    <3>3. [y EXCEPT !.nlink = IF isdir THEN x.nlink + 1 ELSE x.nlink] \in Inodes
      BY <3>1 DEF Inodes
    <3> QED
      BY <3>2, <3>3
  <2>5. dinode' = [dinode EXCEPT ![FirstFree] = inode, ![dp[p]].ents[name[p]] = FirstFree,
                                ![dp[p]].nlink = IF isdir THEN @ + 1 ELSE @]
    BY <1>2 DEF create_new, FirstFree, isdir, inode, dots
  <2> QED
    BY ZenonT(30), <1>2, <2>2, <2>4, <2>5 DEF FSTypeOK, DiskTypeOK, CallTypeOK, Inodes
<1>5. valid' \in [Inums -> BOOLEAN]
  BY <1>2 DEF create_new, FirstFree, FSTypeOK, DiskTypeOK, CallTypeOK
<1>6. lock' \in [Inums -> Procs \cup {NoOne}]
  BY ZenonT(30), <1>2 DEF create_new, FirstFree, FSTypeOK, DiskTypeOK, CallTypeOK
<1>7. /\ cwd'[p] = cwd[p] /\ ofile'[p] = ofile[p] /\ pc'[p] = "iput" /\ ret'[p] = ret[p]
      /\ iret'[p] = AfterNew(p) /\ ip'[p] = FirstFree /\ dp'[p] = dp[p] /\ put'[p] = dp[p]
      /\ rest'[p] = rest[p] /\ parent'[p] = parent[p] /\ name'[p] = name[p] /\ new'[p] = new[p]
  BY <1>3 DEF FSTypeOK, DiskTypeOK, CallTypeOK
<1>8. Moves(p)
  BY <1>3, <1>7 DEF CallTypeOK, Moves
<1>9. DiskTypeOK' /\ CallTypeOK'
  <2>1. DiskTypeOK'
    <3>1. ref' \in [Inums -> Int]
      BY <1>2, <1>3 DEF DiskTypeOK
    <3> QED
      BY <1>3, <3>1, <1>4, <1>5, <1>6 DEF DiskTypeOK
  <2>2. CallTypeAt(p)'
    <3>1. pc'[p] \in Places \cup {"iput", "iput_free", "iput_ref"} /\ iret'[p] \in Places
      BY <1>2, <1>7, FSTypes DEF Places, ParentCalls, PathCalls
    <3>2. /\ cwd'[p] \in Inums /\ ofile'[p] \in Inums \cup {NoInode} /\ ip'[p] \in Inums \cup {NoInode}
          /\ dp'[p] \in Inums \cup {NoInode} /\ put'[p] \in Inums \cup {NoInode}
      BY <1>2, <1>7, FSTypes
    <3>3. /\ ret'[p] \in ParentCalls \cup PathCalls \cup {"user"} /\ rest'[p] \in Seq(AllNames)
          /\ parent'[p] \in BOOLEAN /\ name'[p] \in AllNames /\ new'[p] \in BOOLEAN \X Seq(AllNames)
      BY <1>2, <1>7, FSTypes, NoPath DEF ParentCalls, PathCalls
    <3> QED
      BY <3>1, <3>2, <3>3 DEF CallTypeAt
  <2> QED
    BY <1>8, <2>1, <2>2, MovesTyped
<1>10. /\ At(p)' = AfterNew(p) /\ ~HoldsDp(p)' /\ HoldsIp(p)' /\ HoldsPut(p)'
  BY <1>1, <1>2, <1>3 DEF At, Linking2, HoldsPut, HoldsDp, HoldsIp, FSTypeOK, DiskTypeOK, CallTypeOK, ParentCalls, PathCalls
<1>11. WalkOK(p)'
  BY <1>1, <1>2, <1>10, <1>7, NullIsNone DEF WalkInv, WalkOK
<1>12. /\ Stands(p, pc[p], cwd[p], ofile[p], dp[p], NoInode, NoInode)
       /\ StandsThen(p, AfterNew(p), cwd[p], ofile[p], NoInode, FirstFree, dp[p])
  BY <1>1, <1>2, <1>10, <1>7 DEF Stands, StandsThen, Points
<1>13. ASSUME NEW j \in Inums PROVE ref'[j] - ref[j] = Weight(p, j)' - Weight(p, j)
  <2>1. ref[j] \in Int /\ ref'[j] = ref[j] + Same(FirstFree, j)
    BY <1>2, <1>3, FSTypes DEF Same, FSTypeOK, DiskTypeOK, CallTypeOK
  <2> QED
    BY <1>12, <2>1, <1>2, NullIsNone DEF Same, Weight, Stands, StandsThen
<1> QED
  BY <1>8, <1>9, <1>7, <1>11, <1>12, <1>13, MovesLocal, CountStep

\* link of a directory fails and puts it back. References stay counted.
LEMMA LinkDirCount ==
  ASSUME CountInv, NEW p \in Procs, link_ip(p), dinode[ip[p]].type = "dir"
  PROVE  /\ CountInv' /\ Moves(p)
         /\ Stands(p, "link_ip", cwd[p], ofile[p], NoInode, ip[p], NoInode)
         /\ StandsThen(p, "user", cwd[p], ofile[p], NoInode, NoInode, ip[p])
         /\ pc'[p] = "iput" /\ rest'[p] = rest[p] /\ name'[p] = name[p] /\ new'[p] = new[p]
<1> USE DEF CountInv, FSTypeOK
<1>1. At(p) = "link_ip" /\ ~HoldsDp(p) /\ HoldsIp(p) /\ ~HoldsPut(p)
  BY DEF link_ip, At, Linking2, HoldsPut, HoldsDp, HoldsIp, ParentCalls, PathCalls
<1>2. ip[p] \in Inums
  BY <1>1, FSTypes DEF WalkInv, WalkOK
<1>3. /\ put' = [put EXCEPT ![p] = ip[p]]
      /\ iret' = [iret EXCEPT ![p] = "user"]
      /\ pc' = [pc EXCEPT ![p] = "iput"]
      /\ UNCHANGED <<dinode, ref, lock, cwd, ofile, ret, ip, dp, rest, parent, name, new>>
      /\ valid' \in [Inums -> BOOLEAN]
  BY <1>1, <1>2, FSTypes DEF link_ip, loads, iget, iput, goto, done, diskVars, callVars, namex, FSTypeOK, DiskTypeOK, CallTypeOK
<1>4. /\ cwd'[p] = cwd[p] /\ ofile'[p] = ofile[p] /\ pc'[p] = "iput" /\ ret'[p] = ret[p]
      /\ iret'[p] = "user" /\ ip'[p] = ip[p] /\ dp'[p] = dp[p] /\ put'[p] = ip[p]
      /\ rest'[p] = rest[p] /\ parent'[p] = parent[p] /\ name'[p] = name[p] /\ new'[p] = new[p]
  BY <1>3 DEF FSTypeOK, DiskTypeOK, CallTypeOK
<1>5. Moves(p)
  BY <1>3, <1>4 DEF CallTypeOK, Moves
<1>6. DiskTypeOK' /\ CallTypeOK'
  <2>1. DiskTypeOK'
    BY <1>3 DEF DiskTypeOK
  <2>2. CallTypeAt(p)'
    <3>1. pc'[p] \in Places \cup {"iput", "iput_free", "iput_ref"} /\ iret'[p] \in Places
      BY <1>2, <1>4, FSTypes DEF Places, ParentCalls, PathCalls
    <3>2. /\ cwd'[p] \in Inums /\ ofile'[p] \in Inums \cup {NoInode} /\ ip'[p] \in Inums \cup {NoInode}
          /\ dp'[p] \in Inums \cup {NoInode} /\ put'[p] \in Inums \cup {NoInode}
      BY <1>2, <1>4, FSTypes
    <3>3. /\ ret'[p] \in ParentCalls \cup PathCalls \cup {"user"} /\ rest'[p] \in Seq(AllNames)
          /\ parent'[p] \in BOOLEAN /\ name'[p] \in AllNames /\ new'[p] \in BOOLEAN \X Seq(AllNames)
      BY <1>2, <1>4, FSTypes, NoPath DEF ParentCalls, PathCalls
    <3> QED
      BY <3>1, <3>2, <3>3 DEF CallTypeAt
  <2> QED
    BY <1>5, <2>1, <2>2, MovesTyped
<1>7. /\ At(p)' = "user" /\ ~HoldsDp(p)' /\ ~HoldsIp(p)' /\ HoldsPut(p)'
  BY <1>1, <1>2, <1>3 DEF At, Linking2, HoldsPut, HoldsDp, HoldsIp, FSTypeOK, DiskTypeOK, CallTypeOK, ParentCalls, PathCalls
<1>8. WalkOK(p)'
  BY <1>1, <1>2, <1>7, <1>4, NullIsNone DEF WalkInv, WalkOK
<1>9. /\ Stands(p, "link_ip", cwd[p], ofile[p], NoInode, ip[p], NoInode)
      /\ StandsThen(p, "user", cwd[p], ofile[p], NoInode, NoInode, ip[p])
  BY <1>1, <1>2, <1>7, <1>4 DEF Stands, StandsThen, Points
<1>10. ASSUME NEW j \in Inums PROVE ref'[j] - ref[j] = Weight(p, j)' - Weight(p, j)
  <2>1. ref[j] \in Int /\ ref'[j] = ref[j]
    BY <1>3, FSTypes
  <2> QED
    BY <1>9, <2>1, <1>2, NullIsNone DEF Same, Weight, Stands, StandsThen
<1> QED
  BY <1>5, <1>6, <1>4, <1>8, <1>9, <1>10, MovesLocal, CountStep

\* link counts the new link, then looks up the parent of the new name. References stay counted.
LEMMA LinkCount ==
  ASSUME CountInv, NEW p \in Procs, link_ip(p), dinode[ip[p]].type # "dir"
  PROVE  /\ CountInv' /\ Moves(p)
         /\ Stands(p, "link_ip", cwd[p], ofile[p], NoInode, ip[p], NoInode)
         /\ StandsThen(p, "namex", cwd[p], ofile[p], Start(p, new[p]), ip[p], NoInode)
         /\ pc'[p] = "namex" /\ rest'[p] = new[p][2] /\ name'[p] = name[p] /\ new'[p] = new[p]
<1> USE DEF CountInv, FSTypeOK
<1>1. At(p) = "link_ip" /\ ~HoldsDp(p) /\ HoldsIp(p) /\ ~HoldsPut(p)
  BY DEF link_ip, At, Linking2, HoldsPut, HoldsDp, HoldsIp, ParentCalls, PathCalls
<1>2. Start(p, new[p]) \in Inums /\ ip[p] \in Inums /\ new[p][2] \in Seq(AllNames)
  BY <1>1, FSTypes, NullIsNone DEF WalkInv, WalkOK, Start
<1>3. /\ dp' = [dp EXCEPT ![p] = Start(p, new[p])]
      /\ rest' = [rest EXCEPT ![p] = new[p][2]]
      /\ parent' = [parent EXCEPT ![p] = TRUE]
      /\ ret' = [ret EXCEPT ![p] = "link_dp"]
      /\ pc' = [pc EXCEPT ![p] = "namex"]
      /\ UNCHANGED <<lock, cwd, ofile, iret, ip, put, name, new>>
      /\ valid' \in [Inums -> BOOLEAN]
      /\ ref' = [ref EXCEPT ![Start(p, new[p])] = @ + 1]
  BY <1>1, <1>2, FSTypes DEF link_ip, loads, iget, iput, goto, done, diskVars, callVars, namex, FSTypeOK, DiskTypeOK, CallTypeOK, Start
<1>4. dinode' \in [Inums -> Inodes]
  <2>1. dinode[ip[p]] \in Inodes /\ dinode' = [dinode EXCEPT ![ip[p]].nlink = @ + 1]
    BY <1>2, FSTypes DEF link_ip
  <2>2. [dinode[ip[p]] EXCEPT !.nlink = @ + 1] \in Inodes
    BY <2>1, InodeFields DEF Inodes
  <2> QED
    BY <1>2, <2>1, <2>2 DEF FSTypeOK, DiskTypeOK, CallTypeOK
<1>5. /\ cwd'[p] = cwd[p] /\ ofile'[p] = ofile[p] /\ pc'[p] = "namex" /\ ret'[p] = "link_dp"
      /\ iret'[p] = iret[p] /\ ip'[p] = ip[p] /\ dp'[p] = Start(p, new[p]) /\ put'[p] = put[p]
      /\ rest'[p] = new[p][2] /\ parent'[p] = TRUE /\ name'[p] = name[p] /\ new'[p] = new[p]
  BY <1>3 DEF FSTypeOK, DiskTypeOK, CallTypeOK
<1>6. Moves(p)
  BY <1>3, <1>5 DEF CallTypeOK, Moves
<1>7. DiskTypeOK' /\ CallTypeOK'
  <2>1. DiskTypeOK'
    <3>1. ref' \in [Inums -> Int]
      BY <1>2, <1>3 DEF DiskTypeOK
    <3> QED
      BY <1>3, <3>1, <1>4 DEF DiskTypeOK
  <2>2. CallTypeAt(p)'
    <3>1. pc'[p] \in Places \cup {"iput", "iput_free", "iput_ref"} /\ iret'[p] \in Places
      BY <1>2, <1>5, FSTypes DEF Places, ParentCalls, PathCalls
    <3>2. /\ cwd'[p] \in Inums /\ ofile'[p] \in Inums \cup {NoInode} /\ ip'[p] \in Inums \cup {NoInode}
          /\ dp'[p] \in Inums \cup {NoInode} /\ put'[p] \in Inums \cup {NoInode}
      BY <1>2, <1>5, FSTypes
    <3>3. /\ ret'[p] \in ParentCalls \cup PathCalls \cup {"user"} /\ rest'[p] \in Seq(AllNames)
          /\ parent'[p] \in BOOLEAN /\ name'[p] \in AllNames /\ new'[p] \in BOOLEAN \X Seq(AllNames)
      BY <1>2, <1>5, FSTypes, NoPath DEF ParentCalls, PathCalls
    <3> QED
      BY <3>1, <3>2, <3>3 DEF CallTypeAt
  <2> QED
    BY <1>6, <2>1, <2>2, MovesTyped
<1>8. /\ At(p)' = "namex" /\ HoldsDp(p)' /\ HoldsIp(p)' /\ ~HoldsPut(p)'
  BY <1>1, <1>2, <1>3 DEF At, Linking2, HoldsPut, HoldsDp, HoldsIp, FSTypeOK, DiskTypeOK, CallTypeOK, ParentCalls, PathCalls
<1>9. WalkOK(p)'
  BY <1>1, <1>2, <1>8, <1>5, NullIsNone DEF WalkInv, WalkOK, ParentCalls
<1>10. /\ Stands(p, "link_ip", cwd[p], ofile[p], NoInode, ip[p], NoInode)
       /\ StandsThen(p, "namex", cwd[p], ofile[p], Start(p, new[p]), ip[p], NoInode)
  BY <1>1, <1>2, <1>8, <1>5 DEF Stands, StandsThen, Points
<1>11. ASSUME NEW j \in Inums PROVE ref'[j] - ref[j] = Weight(p, j)' - Weight(p, j)
  <2>1. ref[j] \in Int /\ ref'[j] = ref[j] + Same(Start(p, new[p]), j)
    BY <1>2, <1>3, FSTypes DEF Same, FSTypeOK, DiskTypeOK, CallTypeOK
  <2> QED
    BY <1>10, <2>1, <1>2, NullIsNone DEF Same, Weight, Stands, StandsThen
<1> QED
  BY <1>6, <1>7, <1>5, <1>9, <1>10, <1>11, MovesLocal, CountStep

\* link to a name that is taken, with the parent locked. References stay counted.
LEMMA LinkExistsCount ==
  ASSUME CountInv, NEW p \in Procs, link_dp(p), Found(p) # NoInode
  PROVE  /\ CountInv' /\ Moves(p)
         /\ Stands(p, "link_dp", cwd[p], ofile[p], dp[p], ip[p], NoInode)
         /\ StandsThen(p, "link_exists", cwd[p], ofile[p], dp[p], ip[p], Found(p))
         /\ pc'[p] = "iput" /\ rest'[p] = rest[p] /\ name'[p] = name[p] /\ new'[p] = new[p]
<1> USE DEF CountInv, FSTypeOK
<1>1. At(p) = "link_dp" /\ HoldsDp(p) /\ HoldsIp(p) /\ ~HoldsPut(p)
  BY DEF link_dp, At, Linking2, HoldsPut, HoldsDp, HoldsIp, ParentCalls, PathCalls
<1>2. Found(p) \in Inums /\ dp[p] \in Inums /\ ip[p] \in Inums
  BY <1>1, FSTypes DEF WalkInv, WalkOK, Found
<1>3. /\ put' = [put EXCEPT ![p] = Found(p)]
      /\ iret' = [iret EXCEPT ![p] = "link_exists"]
      /\ pc' = [pc EXCEPT ![p] = "iput"]
      /\ UNCHANGED <<dinode, cwd, ofile, ret, ip, dp, rest, parent, name, new>>
      /\ valid' \in [Inums -> BOOLEAN]
      /\ ref' = [ref EXCEPT ![Found(p)] = @ + 1]
  BY <1>1, <1>2, FSTypes DEF link_dp, loads, iget, iput, goto, done, diskVars, callVars, namex, FSTypeOK, DiskTypeOK, CallTypeOK, Found
<1>4. lock' \in [Inums -> Procs \cup {NoOne}]
  BY <1>2 DEF link_dp, Found, FSTypeOK, DiskTypeOK, CallTypeOK
<1>5. /\ cwd'[p] = cwd[p] /\ ofile'[p] = ofile[p] /\ pc'[p] = "iput" /\ ret'[p] = ret[p]
      /\ iret'[p] = "link_exists" /\ ip'[p] = ip[p] /\ dp'[p] = dp[p] /\ put'[p] = Found(p)
      /\ rest'[p] = rest[p] /\ parent'[p] = parent[p] /\ name'[p] = name[p] /\ new'[p] = new[p]
  BY <1>3 DEF FSTypeOK, DiskTypeOK, CallTypeOK
<1>6. Moves(p)
  BY <1>3, <1>5 DEF CallTypeOK, Moves
<1>7. DiskTypeOK' /\ CallTypeOK'
  <2>1. DiskTypeOK'
    <3>1. ref' \in [Inums -> Int]
      BY <1>2, <1>3 DEF DiskTypeOK
    <3> QED
      BY <1>3, <3>1, <1>4 DEF DiskTypeOK
  <2>2. CallTypeAt(p)'
    <3>1. pc'[p] \in Places \cup {"iput", "iput_free", "iput_ref"} /\ iret'[p] \in Places
      BY <1>2, <1>5, FSTypes DEF Places, ParentCalls, PathCalls
    <3>2. /\ cwd'[p] \in Inums /\ ofile'[p] \in Inums \cup {NoInode} /\ ip'[p] \in Inums \cup {NoInode}
          /\ dp'[p] \in Inums \cup {NoInode} /\ put'[p] \in Inums \cup {NoInode}
      BY <1>2, <1>5, FSTypes
    <3>3. /\ ret'[p] \in ParentCalls \cup PathCalls \cup {"user"} /\ rest'[p] \in Seq(AllNames)
          /\ parent'[p] \in BOOLEAN /\ name'[p] \in AllNames /\ new'[p] \in BOOLEAN \X Seq(AllNames)
      BY <1>2, <1>5, FSTypes, NoPath DEF ParentCalls, PathCalls
    <3> QED
      BY <3>1, <3>2, <3>3 DEF CallTypeAt
  <2> QED
    BY <1>6, <2>1, <2>2, MovesTyped
<1>8. /\ At(p)' = "link_exists" /\ HoldsDp(p)' /\ HoldsIp(p)' /\ HoldsPut(p)'
  BY <1>1, <1>2, <1>3 DEF At, Linking2, HoldsPut, HoldsDp, HoldsIp, FSTypeOK, DiskTypeOK, CallTypeOK, ParentCalls, PathCalls
<1>9. WalkOK(p)'
  BY <1>1, <1>2, <1>8, <1>5, NullIsNone DEF WalkInv, WalkOK
<1>10. /\ Stands(p, "link_dp", cwd[p], ofile[p], dp[p], ip[p], NoInode)
       /\ StandsThen(p, "link_exists", cwd[p], ofile[p], dp[p], ip[p], Found(p))
  BY <1>1, <1>2, <1>8, <1>5 DEF Stands, StandsThen, Points
<1>11. ASSUME NEW j \in Inums PROVE ref'[j] - ref[j] = Weight(p, j)' - Weight(p, j)
  <2>1. ref[j] \in Int /\ ref'[j] = ref[j] + Same(Found(p), j)
    BY <1>2, <1>3, FSTypes DEF Same, FSTypeOK, DiskTypeOK, CallTypeOK
  <2> QED
    BY <1>10, <2>1, <1>2, NullIsNone DEF Same, Weight, Stands, StandsThen
<1> QED
  BY <1>6, <1>7, <1>5, <1>9, <1>10, <1>11, MovesLocal, CountStep

\* link writes the name that it has counted. References stay counted.
LEMMA LinkNameCount ==
  ASSUME CountInv, NEW p \in Procs, link_dp(p), Found(p) = NoInode
  PROVE  /\ CountInv' /\ Moves(p)
         /\ Stands(p, "link_dp", cwd[p], ofile[p], dp[p], ip[p], NoInode)
         /\ StandsThen(p, "link_end", cwd[p], ofile[p], NoInode, ip[p], dp[p])
         /\ pc'[p] = "iput" /\ rest'[p] = rest[p] /\ name'[p] = name[p] /\ new'[p] = new[p]
<1> USE DEF CountInv, FSTypeOK
<1>1. At(p) = "link_dp" /\ HoldsDp(p) /\ HoldsIp(p) /\ ~HoldsPut(p)
  BY DEF link_dp, At, Linking2, HoldsPut, HoldsDp, HoldsIp, ParentCalls, PathCalls
<1>2. dp[p] \in Inums /\ ip[p] \in Inums
  BY <1>1, FSTypes DEF WalkInv, WalkOK
<1>3. /\ put' = [put EXCEPT ![p] = dp[p]]
      /\ iret' = [iret EXCEPT ![p] = "link_end"]
      /\ pc' = [pc EXCEPT ![p] = "iput"]
      /\ UNCHANGED <<ref, lock, cwd, ofile, ret, ip, dp, rest, parent, name, new>>
      /\ valid' \in [Inums -> BOOLEAN]
  BY <1>1, <1>2, FSTypes DEF link_dp, loads, iget, iput, goto, done, diskVars, callVars, namex, FSTypeOK, DiskTypeOK, CallTypeOK, Found
<1>4. dinode' \in [Inums -> Inodes]
  <2>1. dinode[dp[p]] \in Inodes /\ name[p] \in AllNames
    BY <1>2, FSTypes
  <2>2. [dinode[dp[p]] EXCEPT !.ents[name[p]] = ip[p]] \in Inodes
    BY <1>2, <2>1 DEF Inodes
  <2>3. dinode' = [dinode EXCEPT ![dp[p]].ents[name[p]] = ip[p]]
    BY DEF link_dp, Found
  <2> QED
    BY <1>2, <2>2, <2>3 DEF FSTypeOK, DiskTypeOK, CallTypeOK
<1>5. /\ cwd'[p] = cwd[p] /\ ofile'[p] = ofile[p] /\ pc'[p] = "iput" /\ ret'[p] = ret[p]
      /\ iret'[p] = "link_end" /\ ip'[p] = ip[p] /\ dp'[p] = dp[p] /\ put'[p] = dp[p]
      /\ rest'[p] = rest[p] /\ parent'[p] = parent[p] /\ name'[p] = name[p] /\ new'[p] = new[p]
  BY <1>3 DEF FSTypeOK, DiskTypeOK, CallTypeOK
<1>6. Moves(p)
  BY <1>3, <1>5 DEF CallTypeOK, Moves
<1>7. DiskTypeOK' /\ CallTypeOK'
  <2>1. DiskTypeOK'
    BY <1>3, <1>4 DEF DiskTypeOK
  <2>2. CallTypeAt(p)'
    <3>1. pc'[p] \in Places \cup {"iput", "iput_free", "iput_ref"} /\ iret'[p] \in Places
      BY <1>2, <1>5, FSTypes DEF Places, ParentCalls, PathCalls
    <3>2. /\ cwd'[p] \in Inums /\ ofile'[p] \in Inums \cup {NoInode} /\ ip'[p] \in Inums \cup {NoInode}
          /\ dp'[p] \in Inums \cup {NoInode} /\ put'[p] \in Inums \cup {NoInode}
      BY <1>2, <1>5, FSTypes
    <3>3. /\ ret'[p] \in ParentCalls \cup PathCalls \cup {"user"} /\ rest'[p] \in Seq(AllNames)
          /\ parent'[p] \in BOOLEAN /\ name'[p] \in AllNames /\ new'[p] \in BOOLEAN \X Seq(AllNames)
      BY <1>2, <1>5, FSTypes, NoPath DEF ParentCalls, PathCalls
    <3> QED
      BY <3>1, <3>2, <3>3 DEF CallTypeAt
  <2> QED
    BY <1>6, <2>1, <2>2, MovesTyped
<1>8. /\ At(p)' = "link_end" /\ ~HoldsDp(p)' /\ HoldsIp(p)' /\ HoldsPut(p)'
  BY <1>1, <1>2, <1>3 DEF At, Linking2, HoldsPut, HoldsDp, HoldsIp, FSTypeOK, DiskTypeOK, CallTypeOK, ParentCalls, PathCalls
<1>9. WalkOK(p)'
  BY <1>1, <1>2, <1>8, <1>5, NullIsNone DEF WalkInv, WalkOK
<1>10. /\ Stands(p, "link_dp", cwd[p], ofile[p], dp[p], ip[p], NoInode)
       /\ StandsThen(p, "link_end", cwd[p], ofile[p], NoInode, ip[p], dp[p])
  BY <1>1, <1>2, <1>8, <1>5 DEF Stands, StandsThen, Points
<1>11. ASSUME NEW j \in Inums PROVE ref'[j] - ref[j] = Weight(p, j)' - Weight(p, j)
  <2>1. ref[j] \in Int /\ ref'[j] = ref[j]
    BY <1>3, FSTypes
  <2> QED
    BY <1>10, <2>1, <1>2, NullIsNone DEF Same, Weight, Stands, StandsThen
<1> QED
  BY <1>6, <1>7, <1>5, <1>9, <1>10, <1>11, MovesLocal, CountStep

\* link to a name that is taken unlocks the parent and puts it back. References stay counted.
LEMMA LinkUnlocksCount ==
  ASSUME CountInv, NEW p \in Procs, link_exists(p)
  PROVE  /\ CountInv' /\ Moves(p)
         /\ Stands(p, "link_exists", cwd[p], ofile[p], dp[p], ip[p], NoInode)
         /\ StandsThen(p, "link_bad", cwd[p], ofile[p], NoInode, ip[p], dp[p])
         /\ pc'[p] = "iput" /\ rest'[p] = rest[p] /\ name'[p] = name[p] /\ new'[p] = new[p]
<1> USE DEF CountInv, FSTypeOK
<1>1. At(p) = "link_exists" /\ HoldsDp(p) /\ HoldsIp(p) /\ ~HoldsPut(p)
  BY DEF link_exists, At, Linking2, HoldsPut, HoldsDp, HoldsIp, ParentCalls, PathCalls
<1>2. dp[p] \in Inums /\ ip[p] \in Inums
  BY <1>1, FSTypes DEF WalkInv, WalkOK
<1>3. /\ put' = [put EXCEPT ![p] = dp[p]]
      /\ iret' = [iret EXCEPT ![p] = "link_bad"]
      /\ pc' = [pc EXCEPT ![p] = "iput"]
      /\ UNCHANGED <<dinode, ref, valid, cwd, ofile, ret, ip, dp, rest, parent, name, new>>
  BY <1>1, <1>2, FSTypes DEF link_exists, loads, iget, iput, goto, done, diskVars, callVars, namex, FSTypeOK, DiskTypeOK, CallTypeOK
<1>4. lock' \in [Inums -> Procs \cup {NoOne}]
  BY <1>2 DEF link_exists, FSTypeOK, DiskTypeOK, CallTypeOK
<1>5. /\ cwd'[p] = cwd[p] /\ ofile'[p] = ofile[p] /\ pc'[p] = "iput" /\ ret'[p] = ret[p]
      /\ iret'[p] = "link_bad" /\ ip'[p] = ip[p] /\ dp'[p] = dp[p] /\ put'[p] = dp[p]
      /\ rest'[p] = rest[p] /\ parent'[p] = parent[p] /\ name'[p] = name[p] /\ new'[p] = new[p]
  BY <1>3 DEF FSTypeOK, DiskTypeOK, CallTypeOK
<1>6. Moves(p)
  BY <1>3, <1>5 DEF CallTypeOK, Moves
<1>7. DiskTypeOK' /\ CallTypeOK'
  <2>1. DiskTypeOK'
    BY <1>3, <1>4 DEF DiskTypeOK
  <2>2. CallTypeAt(p)'
    <3>1. pc'[p] \in Places \cup {"iput", "iput_free", "iput_ref"} /\ iret'[p] \in Places
      BY <1>2, <1>5, FSTypes DEF Places, ParentCalls, PathCalls
    <3>2. /\ cwd'[p] \in Inums /\ ofile'[p] \in Inums \cup {NoInode} /\ ip'[p] \in Inums \cup {NoInode}
          /\ dp'[p] \in Inums \cup {NoInode} /\ put'[p] \in Inums \cup {NoInode}
      BY <1>2, <1>5, FSTypes
    <3>3. /\ ret'[p] \in ParentCalls \cup PathCalls \cup {"user"} /\ rest'[p] \in Seq(AllNames)
          /\ parent'[p] \in BOOLEAN /\ name'[p] \in AllNames /\ new'[p] \in BOOLEAN \X Seq(AllNames)
      BY <1>2, <1>5, FSTypes, NoPath DEF ParentCalls, PathCalls
    <3> QED
      BY <3>1, <3>2, <3>3 DEF CallTypeAt
  <2> QED
    BY <1>6, <2>1, <2>2, MovesTyped
<1>8. /\ At(p)' = "link_bad" /\ ~HoldsDp(p)' /\ HoldsIp(p)' /\ HoldsPut(p)'
  BY <1>1, <1>2, <1>3 DEF At, Linking2, HoldsPut, HoldsDp, HoldsIp, FSTypeOK, DiskTypeOK, CallTypeOK, ParentCalls, PathCalls
<1>9. WalkOK(p)'
  BY <1>1, <1>2, <1>8, <1>5, NullIsNone DEF WalkInv, WalkOK
<1>10. /\ Stands(p, "link_exists", cwd[p], ofile[p], dp[p], ip[p], NoInode)
       /\ StandsThen(p, "link_bad", cwd[p], ofile[p], NoInode, ip[p], dp[p])
  BY <1>1, <1>2, <1>8, <1>5 DEF Stands, StandsThen, Points
<1>11. ASSUME NEW j \in Inums PROVE ref'[j] - ref[j] = Weight(p, j)' - Weight(p, j)
  <2>1. ref[j] \in Int /\ ref'[j] = ref[j]
    BY <1>3, FSTypes
  <2> QED
    BY <1>10, <2>1, <1>2, NullIsNone DEF Same, Weight, Stands, StandsThen
<1> QED
  BY <1>6, <1>7, <1>5, <1>9, <1>10, <1>11, MovesLocal, CountStep

\* link puts the inode back. References stay counted.
LEMMA LinkEndCount ==
  ASSUME CountInv, NEW p \in Procs, link_end(p)
  PROVE  /\ CountInv' /\ Moves(p)
         /\ Stands(p, "link_end", cwd[p], ofile[p], NoInode, ip[p], NoInode)
         /\ StandsThen(p, "user", cwd[p], ofile[p], NoInode, NoInode, ip[p])
         /\ pc'[p] = "iput" /\ rest'[p] = rest[p] /\ name'[p] = name[p] /\ new'[p] = new[p]
<1> USE DEF CountInv, FSTypeOK
<1>1. At(p) = "link_end" /\ ~HoldsDp(p) /\ HoldsIp(p) /\ ~HoldsPut(p)
  BY DEF link_end, At, Linking2, HoldsPut, HoldsDp, HoldsIp, ParentCalls, PathCalls
<1>2. ip[p] \in Inums
  BY <1>1, FSTypes DEF WalkInv, WalkOK
<1>3. /\ put' = [put EXCEPT ![p] = ip[p]]
      /\ iret' = [iret EXCEPT ![p] = "user"]
      /\ pc' = [pc EXCEPT ![p] = "iput"]
      /\ UNCHANGED <<dinode, ref, valid, lock, cwd, ofile, ret, ip, dp, rest, parent, name, new>>
  BY <1>1, <1>2, FSTypes DEF link_end, loads, iget, iput, goto, done, diskVars, callVars, namex, FSTypeOK, DiskTypeOK, CallTypeOK
<1>4. /\ cwd'[p] = cwd[p] /\ ofile'[p] = ofile[p] /\ pc'[p] = "iput" /\ ret'[p] = ret[p]
      /\ iret'[p] = "user" /\ ip'[p] = ip[p] /\ dp'[p] = dp[p] /\ put'[p] = ip[p]
      /\ rest'[p] = rest[p] /\ parent'[p] = parent[p] /\ name'[p] = name[p] /\ new'[p] = new[p]
  BY <1>3 DEF FSTypeOK, DiskTypeOK, CallTypeOK
<1>5. Moves(p)
  BY <1>3, <1>4 DEF CallTypeOK, Moves
<1>6. DiskTypeOK' /\ CallTypeOK'
  <2>1. DiskTypeOK'
    BY <1>3 DEF DiskTypeOK
  <2>2. CallTypeAt(p)'
    <3>1. pc'[p] \in Places \cup {"iput", "iput_free", "iput_ref"} /\ iret'[p] \in Places
      BY <1>2, <1>4, FSTypes DEF Places, ParentCalls, PathCalls
    <3>2. /\ cwd'[p] \in Inums /\ ofile'[p] \in Inums \cup {NoInode} /\ ip'[p] \in Inums \cup {NoInode}
          /\ dp'[p] \in Inums \cup {NoInode} /\ put'[p] \in Inums \cup {NoInode}
      BY <1>2, <1>4, FSTypes
    <3>3. /\ ret'[p] \in ParentCalls \cup PathCalls \cup {"user"} /\ rest'[p] \in Seq(AllNames)
          /\ parent'[p] \in BOOLEAN /\ name'[p] \in AllNames /\ new'[p] \in BOOLEAN \X Seq(AllNames)
      BY <1>2, <1>4, FSTypes, NoPath DEF ParentCalls, PathCalls
    <3> QED
      BY <3>1, <3>2, <3>3 DEF CallTypeAt
  <2> QED
    BY <1>5, <2>1, <2>2, MovesTyped
<1>7. /\ At(p)' = "user" /\ ~HoldsDp(p)' /\ ~HoldsIp(p)' /\ HoldsPut(p)'
  BY <1>1, <1>2, <1>3 DEF At, Linking2, HoldsPut, HoldsDp, HoldsIp, FSTypeOK, DiskTypeOK, CallTypeOK, ParentCalls, PathCalls
<1>8. WalkOK(p)'
  BY <1>1, <1>2, <1>7, <1>4, NullIsNone DEF WalkInv, WalkOK
<1>9. /\ Stands(p, "link_end", cwd[p], ofile[p], NoInode, ip[p], NoInode)
      /\ StandsThen(p, "user", cwd[p], ofile[p], NoInode, NoInode, ip[p])
  BY <1>1, <1>2, <1>7, <1>4 DEF Stands, StandsThen, Points
<1>10. ASSUME NEW j \in Inums PROVE ref'[j] - ref[j] = Weight(p, j)' - Weight(p, j)
  <2>1. ref[j] \in Int /\ ref'[j] = ref[j]
    BY <1>3, FSTypes
  <2> QED
    BY <1>9, <2>1, <1>2, NullIsNone DEF Same, Weight, Stands, StandsThen
<1> QED
  BY <1>5, <1>6, <1>4, <1>8, <1>9, <1>10, MovesLocal, CountStep

\* link that has failed takes back the link it has counted. References stay counted.
LEMMA LinkBadCount ==
  ASSUME CountInv, NEW p \in Procs, link_bad(p)
  PROVE  /\ CountInv' /\ Moves(p)
         /\ Stands(p, "link_bad", cwd[p], ofile[p], NoInode, ip[p], NoInode)
         /\ StandsThen(p, "user", cwd[p], ofile[p], NoInode, NoInode, ip[p])
         /\ pc'[p] = "iput" /\ rest'[p] = rest[p] /\ name'[p] = name[p] /\ new'[p] = new[p]
<1> USE DEF CountInv, FSTypeOK
<1>1. At(p) = "link_bad" /\ ~HoldsDp(p) /\ HoldsIp(p) /\ ~HoldsPut(p)
  BY DEF link_bad, At, Linking2, HoldsPut, HoldsDp, HoldsIp, ParentCalls, PathCalls
<1>2. ip[p] \in Inums
  BY <1>1, FSTypes DEF WalkInv, WalkOK
<1>3. /\ put' = [put EXCEPT ![p] = ip[p]]
      /\ iret' = [iret EXCEPT ![p] = "user"]
      /\ pc' = [pc EXCEPT ![p] = "iput"]
      /\ UNCHANGED <<ref, lock, cwd, ofile, ret, ip, dp, rest, parent, name, new>>
      /\ valid' \in [Inums -> BOOLEAN]
  BY <1>1, <1>2, FSTypes DEF link_bad, loads, iget, iput, goto, done, diskVars, callVars, namex, FSTypeOK, DiskTypeOK, CallTypeOK
<1>4. dinode' \in [Inums -> Inodes]
  <2>1. dinode[ip[p]] \in Inodes /\ dinode' = [dinode EXCEPT ![ip[p]].nlink = @ - 1]
    BY <1>2, FSTypes DEF link_bad
  <2>2. [dinode[ip[p]] EXCEPT !.nlink = @ - 1] \in Inodes
    BY <2>1, InodeFields DEF Inodes
  <2> QED
    BY <1>2, <2>1, <2>2 DEF FSTypeOK, DiskTypeOK, CallTypeOK
<1>5. /\ cwd'[p] = cwd[p] /\ ofile'[p] = ofile[p] /\ pc'[p] = "iput" /\ ret'[p] = ret[p]
      /\ iret'[p] = "user" /\ ip'[p] = ip[p] /\ dp'[p] = dp[p] /\ put'[p] = ip[p]
      /\ rest'[p] = rest[p] /\ parent'[p] = parent[p] /\ name'[p] = name[p] /\ new'[p] = new[p]
  BY <1>3 DEF FSTypeOK, DiskTypeOK, CallTypeOK
<1>6. Moves(p)
  BY <1>3, <1>5 DEF CallTypeOK, Moves
<1>7. DiskTypeOK' /\ CallTypeOK'
  <2>1. DiskTypeOK'
    BY <1>3, <1>4 DEF DiskTypeOK
  <2>2. CallTypeAt(p)'
    <3>1. pc'[p] \in Places \cup {"iput", "iput_free", "iput_ref"} /\ iret'[p] \in Places
      BY <1>2, <1>5, FSTypes DEF Places, ParentCalls, PathCalls
    <3>2. /\ cwd'[p] \in Inums /\ ofile'[p] \in Inums \cup {NoInode} /\ ip'[p] \in Inums \cup {NoInode}
          /\ dp'[p] \in Inums \cup {NoInode} /\ put'[p] \in Inums \cup {NoInode}
      BY <1>2, <1>5, FSTypes
    <3>3. /\ ret'[p] \in ParentCalls \cup PathCalls \cup {"user"} /\ rest'[p] \in Seq(AllNames)
          /\ parent'[p] \in BOOLEAN /\ name'[p] \in AllNames /\ new'[p] \in BOOLEAN \X Seq(AllNames)
      BY <1>2, <1>5, FSTypes, NoPath DEF ParentCalls, PathCalls
    <3> QED
      BY <3>1, <3>2, <3>3 DEF CallTypeAt
  <2> QED
    BY <1>6, <2>1, <2>2, MovesTyped
<1>8. /\ At(p)' = "user" /\ ~HoldsDp(p)' /\ ~HoldsIp(p)' /\ HoldsPut(p)'
  BY <1>1, <1>2, <1>3 DEF At, Linking2, HoldsPut, HoldsDp, HoldsIp, FSTypeOK, DiskTypeOK, CallTypeOK, ParentCalls, PathCalls
<1>9. WalkOK(p)'
  BY <1>1, <1>2, <1>8, <1>5, NullIsNone DEF WalkInv, WalkOK
<1>10. /\ Stands(p, "link_bad", cwd[p], ofile[p], NoInode, ip[p], NoInode)
       /\ StandsThen(p, "user", cwd[p], ofile[p], NoInode, NoInode, ip[p])
  BY <1>1, <1>2, <1>8, <1>5 DEF Stands, StandsThen, Points
<1>11. ASSUME NEW j \in Inums PROVE ref'[j] - ref[j] = Weight(p, j)' - Weight(p, j)
  <2>1. ref[j] \in Int /\ ref'[j] = ref[j]
    BY <1>3, FSTypes
  <2> QED
    BY <1>10, <2>1, <1>2, NullIsNone DEF Same, Weight, Stands, StandsThen
<1> QED
  BY <1>6, <1>7, <1>5, <1>9, <1>10, <1>11, MovesLocal, CountStep

\* unlink of . or .., or of a name that is not there. References stay counted.
LEMMA UnlinkFailsCount ==
  ASSUME CountInv, NEW p \in Procs, unlink_dp(p), name[p] \in {".", ".."} \/ Found(p) = NoInode
  PROVE  /\ CountInv' /\ Moves(p)
         /\ Stands(p, "unlink_dp", cwd[p], ofile[p], dp[p], NoInode, NoInode)
         /\ StandsThen(p, "user", cwd[p], ofile[p], NoInode, NoInode, dp[p])
         /\ pc'[p] = "iput" /\ rest'[p] = rest[p] /\ name'[p] = name[p] /\ new'[p] = new[p]
<1> USE DEF CountInv, FSTypeOK
<1>1. At(p) = "unlink_dp" /\ HoldsDp(p) /\ ~HoldsIp(p) /\ ~HoldsPut(p)
  BY DEF unlink_dp, At, Linking2, HoldsPut, HoldsDp, HoldsIp, ParentCalls, PathCalls
<1>2. dp[p] \in Inums
  BY <1>1, FSTypes DEF WalkInv, WalkOK
<1>3. /\ put' = [put EXCEPT ![p] = dp[p]]
      /\ iret' = [iret EXCEPT ![p] = "user"]
      /\ pc' = [pc EXCEPT ![p] = "iput"]
      /\ UNCHANGED <<dinode, ref, lock, cwd, ofile, ret, ip, dp, rest, parent, name, new>>
      /\ valid' \in [Inums -> BOOLEAN]
  BY <1>1, <1>2, FSTypes DEF unlink_dp, loads, iget, iput, goto, done, diskVars, callVars, namex, FSTypeOK, DiskTypeOK, CallTypeOK, Found
<1>4. /\ cwd'[p] = cwd[p] /\ ofile'[p] = ofile[p] /\ pc'[p] = "iput" /\ ret'[p] = ret[p]
      /\ iret'[p] = "user" /\ ip'[p] = ip[p] /\ dp'[p] = dp[p] /\ put'[p] = dp[p]
      /\ rest'[p] = rest[p] /\ parent'[p] = parent[p] /\ name'[p] = name[p] /\ new'[p] = new[p]
  BY <1>3 DEF FSTypeOK, DiskTypeOK, CallTypeOK
<1>5. Moves(p)
  BY <1>3, <1>4 DEF CallTypeOK, Moves
<1>6. DiskTypeOK' /\ CallTypeOK'
  <2>1. DiskTypeOK'
    BY <1>3 DEF DiskTypeOK
  <2>2. CallTypeAt(p)'
    <3>1. pc'[p] \in Places \cup {"iput", "iput_free", "iput_ref"} /\ iret'[p] \in Places
      BY <1>2, <1>4, FSTypes DEF Places, ParentCalls, PathCalls
    <3>2. /\ cwd'[p] \in Inums /\ ofile'[p] \in Inums \cup {NoInode} /\ ip'[p] \in Inums \cup {NoInode}
          /\ dp'[p] \in Inums \cup {NoInode} /\ put'[p] \in Inums \cup {NoInode}
      BY <1>2, <1>4, FSTypes
    <3>3. /\ ret'[p] \in ParentCalls \cup PathCalls \cup {"user"} /\ rest'[p] \in Seq(AllNames)
          /\ parent'[p] \in BOOLEAN /\ name'[p] \in AllNames /\ new'[p] \in BOOLEAN \X Seq(AllNames)
      BY <1>2, <1>4, FSTypes, NoPath DEF ParentCalls, PathCalls
    <3> QED
      BY <3>1, <3>2, <3>3 DEF CallTypeAt
  <2> QED
    BY <1>5, <2>1, <2>2, MovesTyped
<1>7. /\ At(p)' = "user" /\ ~HoldsDp(p)' /\ ~HoldsIp(p)' /\ HoldsPut(p)'
  BY <1>1, <1>2, <1>3 DEF At, Linking2, HoldsPut, HoldsDp, HoldsIp, FSTypeOK, DiskTypeOK, CallTypeOK, ParentCalls, PathCalls
<1>8. WalkOK(p)'
  BY <1>1, <1>2, <1>7, <1>4, NullIsNone DEF WalkInv, WalkOK
<1>9. /\ Stands(p, "unlink_dp", cwd[p], ofile[p], dp[p], NoInode, NoInode)
      /\ StandsThen(p, "user", cwd[p], ofile[p], NoInode, NoInode, dp[p])
  BY <1>1, <1>2, <1>7, <1>4 DEF Stands, StandsThen, Points
<1>10. ASSUME NEW j \in Inums PROVE ref'[j] - ref[j] = Weight(p, j)' - Weight(p, j)
  <2>1. ref[j] \in Int /\ ref'[j] = ref[j]
    BY <1>3, FSTypes
  <2> QED
    BY <1>9, <2>1, <1>2, NullIsNone DEF Same, Weight, Stands, StandsThen
<1> QED
  BY <1>5, <1>6, <1>4, <1>8, <1>9, <1>10, MovesLocal, CountStep

\* unlink finds the name and keeps the parent locked. References stay counted.
LEMMA UnlinkFoundCount ==
  ASSUME CountInv, NEW p \in Procs, unlink_dp(p), name[p] \notin {".", ".."}, Found(p) # NoInode
  PROVE  /\ CountInv' /\ Moves(p)
         /\ Stands(p, "unlink_dp", cwd[p], ofile[p], dp[p], NoInode, NoInode)
         /\ StandsThen(p, "unlink_ip", cwd[p], ofile[p], dp[p], Found(p), NoInode)
         /\ pc'[p] = "unlink_ip" /\ rest'[p] = rest[p] /\ name'[p] = name[p] /\ new'[p] = new[p]
<1> USE DEF CountInv, FSTypeOK
<1>1. At(p) = "unlink_dp" /\ HoldsDp(p) /\ ~HoldsIp(p) /\ ~HoldsPut(p)
  BY DEF unlink_dp, At, Linking2, HoldsPut, HoldsDp, HoldsIp, ParentCalls, PathCalls
<1>2. Found(p) \in Inums /\ dp[p] \in Inums
  BY <1>1, FSTypes DEF WalkInv, WalkOK, Found
<1>3. /\ ip' = [ip EXCEPT ![p] = Found(p)]
      /\ pc' = [pc EXCEPT ![p] = "unlink_ip"]
      /\ UNCHANGED <<dinode, cwd, ofile, ret, iret, dp, put, rest, parent, name, new>>
      /\ valid' \in [Inums -> BOOLEAN]
      /\ ref' = [ref EXCEPT ![Found(p)] = @ + 1]
  BY <1>1, <1>2, FSTypes DEF unlink_dp, loads, iget, iput, goto, done, diskVars, callVars, namex, FSTypeOK, DiskTypeOK, CallTypeOK, Found
<1>4. lock' \in [Inums -> Procs \cup {NoOne}]
  BY <1>2 DEF unlink_dp, Found, FSTypeOK, DiskTypeOK, CallTypeOK
<1>5. /\ cwd'[p] = cwd[p] /\ ofile'[p] = ofile[p] /\ pc'[p] = "unlink_ip" /\ ret'[p] = ret[p]
      /\ iret'[p] = iret[p] /\ ip'[p] = Found(p) /\ dp'[p] = dp[p] /\ put'[p] = put[p]
      /\ rest'[p] = rest[p] /\ parent'[p] = parent[p] /\ name'[p] = name[p] /\ new'[p] = new[p]
  BY <1>3 DEF FSTypeOK, DiskTypeOK, CallTypeOK
<1>6. Moves(p)
  BY <1>3, <1>5 DEF CallTypeOK, Moves
<1>7. DiskTypeOK' /\ CallTypeOK'
  <2>1. DiskTypeOK'
    <3>1. ref' \in [Inums -> Int]
      BY <1>2, <1>3 DEF DiskTypeOK
    <3> QED
      BY <1>3, <3>1, <1>4 DEF DiskTypeOK
  <2>2. CallTypeAt(p)'
    <3>1. pc'[p] \in Places \cup {"iput", "iput_free", "iput_ref"} /\ iret'[p] \in Places
      BY <1>2, <1>5, FSTypes DEF Places, ParentCalls, PathCalls
    <3>2. /\ cwd'[p] \in Inums /\ ofile'[p] \in Inums \cup {NoInode} /\ ip'[p] \in Inums \cup {NoInode}
          /\ dp'[p] \in Inums \cup {NoInode} /\ put'[p] \in Inums \cup {NoInode}
      BY <1>2, <1>5, FSTypes
    <3>3. /\ ret'[p] \in ParentCalls \cup PathCalls \cup {"user"} /\ rest'[p] \in Seq(AllNames)
          /\ parent'[p] \in BOOLEAN /\ name'[p] \in AllNames /\ new'[p] \in BOOLEAN \X Seq(AllNames)
      BY <1>2, <1>5, FSTypes, NoPath DEF ParentCalls, PathCalls
    <3> QED
      BY <3>1, <3>2, <3>3 DEF CallTypeAt
  <2> QED
    BY <1>6, <2>1, <2>2, MovesTyped
<1>8. /\ At(p)' = "unlink_ip" /\ HoldsDp(p)' /\ HoldsIp(p)' /\ ~HoldsPut(p)'
  BY <1>1, <1>2, <1>3 DEF At, Linking2, HoldsPut, HoldsDp, HoldsIp, FSTypeOK, DiskTypeOK, CallTypeOK, ParentCalls, PathCalls
<1>9. WalkOK(p)'
  BY <1>1, <1>2, <1>8, <1>5, NullIsNone DEF WalkInv, WalkOK
<1>10. /\ Stands(p, "unlink_dp", cwd[p], ofile[p], dp[p], NoInode, NoInode)
       /\ StandsThen(p, "unlink_ip", cwd[p], ofile[p], dp[p], Found(p), NoInode)
  BY <1>1, <1>2, <1>8, <1>5 DEF Stands, StandsThen, Points
<1>11. ASSUME NEW j \in Inums PROVE ref'[j] - ref[j] = Weight(p, j)' - Weight(p, j)
  <2>1. ref[j] \in Int /\ ref'[j] = ref[j] + Same(Found(p), j)
    BY <1>2, <1>3, FSTypes DEF Same, FSTypeOK, DiskTypeOK, CallTypeOK
  <2> QED
    BY <1>10, <2>1, <1>2, NullIsNone DEF Same, Weight, Stands, StandsThen
<1> QED
  BY <1>6, <1>7, <1>5, <1>9, <1>10, <1>11, MovesLocal, CountStep

\* unlink of a directory that is not empty puts the inode back. References stay counted.
LEMMA UnlinkFullCount ==
  ASSUME CountInv, NEW p \in Procs, unlink_ip(p), dinode[ip[p]].type = "dir" /\ ~Empty(ip[p])
  PROVE  /\ CountInv' /\ Moves(p)
         /\ Stands(p, "unlink_ip", cwd[p], ofile[p], dp[p], ip[p], NoInode)
         /\ StandsThen(p, "unlink_bad", cwd[p], ofile[p], dp[p], NoInode, ip[p])
         /\ pc'[p] = "iput" /\ rest'[p] = rest[p] /\ name'[p] = name[p] /\ new'[p] = new[p]
<1> USE DEF CountInv, FSTypeOK
<1>1. At(p) = "unlink_ip" /\ HoldsDp(p) /\ HoldsIp(p) /\ ~HoldsPut(p)
  BY DEF unlink_ip, At, Linking2, HoldsPut, HoldsDp, HoldsIp, ParentCalls, PathCalls
<1>2. dp[p] \in Inums /\ ip[p] \in Inums
  BY <1>1, FSTypes DEF WalkInv, WalkOK
<1>3. /\ put' = [put EXCEPT ![p] = ip[p]]
      /\ iret' = [iret EXCEPT ![p] = "unlink_bad"]
      /\ pc' = [pc EXCEPT ![p] = "iput"]
      /\ UNCHANGED <<dinode, ref, lock, cwd, ofile, ret, ip, dp, rest, parent, name, new>>
  BY <1>1, <1>2, FSTypes DEF unlink_ip, loads, iget, iput, goto, done, diskVars, callVars, namex, FSTypeOK, DiskTypeOK, CallTypeOK
<1>4. valid' \in [Inums -> BOOLEAN]
  BY <1>2 DEF unlink_ip, FSTypeOK, DiskTypeOK, CallTypeOK
<1>5. /\ cwd'[p] = cwd[p] /\ ofile'[p] = ofile[p] /\ pc'[p] = "iput" /\ ret'[p] = ret[p]
      /\ iret'[p] = "unlink_bad" /\ ip'[p] = ip[p] /\ dp'[p] = dp[p] /\ put'[p] = ip[p]
      /\ rest'[p] = rest[p] /\ parent'[p] = parent[p] /\ name'[p] = name[p] /\ new'[p] = new[p]
  BY <1>3 DEF FSTypeOK, DiskTypeOK, CallTypeOK
<1>6. Moves(p)
  BY <1>3, <1>5 DEF CallTypeOK, Moves
<1>7. DiskTypeOK' /\ CallTypeOK'
  <2>1. DiskTypeOK'
    BY <1>3, <1>4 DEF DiskTypeOK
  <2>2. CallTypeAt(p)'
    <3>1. pc'[p] \in Places \cup {"iput", "iput_free", "iput_ref"} /\ iret'[p] \in Places
      BY <1>2, <1>5, FSTypes DEF Places, ParentCalls, PathCalls
    <3>2. /\ cwd'[p] \in Inums /\ ofile'[p] \in Inums \cup {NoInode} /\ ip'[p] \in Inums \cup {NoInode}
          /\ dp'[p] \in Inums \cup {NoInode} /\ put'[p] \in Inums \cup {NoInode}
      BY <1>2, <1>5, FSTypes
    <3>3. /\ ret'[p] \in ParentCalls \cup PathCalls \cup {"user"} /\ rest'[p] \in Seq(AllNames)
          /\ parent'[p] \in BOOLEAN /\ name'[p] \in AllNames /\ new'[p] \in BOOLEAN \X Seq(AllNames)
      BY <1>2, <1>5, FSTypes, NoPath DEF ParentCalls, PathCalls
    <3> QED
      BY <3>1, <3>2, <3>3 DEF CallTypeAt
  <2> QED
    BY <1>6, <2>1, <2>2, MovesTyped
<1>8. /\ At(p)' = "unlink_bad" /\ HoldsDp(p)' /\ ~HoldsIp(p)' /\ HoldsPut(p)'
  BY <1>1, <1>2, <1>3 DEF At, Linking2, HoldsPut, HoldsDp, HoldsIp, FSTypeOK, DiskTypeOK, CallTypeOK, ParentCalls, PathCalls
<1>9. WalkOK(p)'
  BY <1>1, <1>2, <1>8, <1>5, NullIsNone DEF WalkInv, WalkOK
<1>10. /\ Stands(p, "unlink_ip", cwd[p], ofile[p], dp[p], ip[p], NoInode)
       /\ StandsThen(p, "unlink_bad", cwd[p], ofile[p], dp[p], NoInode, ip[p])
  BY <1>1, <1>2, <1>8, <1>5 DEF Stands, StandsThen, Points
<1>11. ASSUME NEW j \in Inums PROVE ref'[j] - ref[j] = Weight(p, j)' - Weight(p, j)
  <2>1. ref[j] \in Int /\ ref'[j] = ref[j]
    BY <1>3, FSTypes
  <2> QED
    BY <1>10, <2>1, <1>2, NullIsNone DEF Same, Weight, Stands, StandsThen
<1> QED
  BY <1>6, <1>7, <1>5, <1>9, <1>10, <1>11, MovesLocal, CountStep

\* unlink clears the name, and takes one link from the parent of a directory.
\* References stay counted.
LEMMA UnlinkNameCount ==
  ASSUME CountInv, NEW p \in Procs, unlink_ip(p), ~(dinode[ip[p]].type = "dir" /\ ~Empty(ip[p]))
  PROVE  /\ CountInv' /\ Moves(p)
         /\ Stands(p, "unlink_ip", cwd[p], ofile[p], dp[p], ip[p], NoInode)
         /\ StandsThen(p, "unlink_end", cwd[p], ofile[p], NoInode, ip[p], dp[p])
         /\ pc'[p] = "iput" /\ rest'[p] = rest[p] /\ name'[p] = name[p] /\ new'[p] = new[p]
<1> USE DEF CountInv, FSTypeOK
<1>1. At(p) = "unlink_ip" /\ HoldsDp(p) /\ HoldsIp(p) /\ ~HoldsPut(p)
  BY DEF unlink_ip, At, Linking2, HoldsPut, HoldsDp, HoldsIp, ParentCalls, PathCalls
<1>2. dp[p] \in Inums /\ ip[p] \in Inums
  BY <1>1, FSTypes DEF WalkInv, WalkOK
<1>3. /\ put' = [put EXCEPT ![p] = dp[p]]
      /\ iret' = [iret EXCEPT ![p] = "unlink_end"]
      /\ pc' = [pc EXCEPT ![p] = "iput"]
      /\ UNCHANGED <<ref, cwd, ofile, ret, ip, dp, rest, parent, name, new>>
  BY <1>1, <1>2, FSTypes DEF unlink_ip, loads, iget, iput, goto, done, diskVars, callVars, namex, FSTypeOK, DiskTypeOK, CallTypeOK
<1>4. valid' \in [Inums -> BOOLEAN]
  BY <1>2 DEF unlink_ip, FSTypeOK, DiskTypeOK, CallTypeOK
<1>5. lock' \in [Inums -> Procs \cup {NoOne}]
  BY <1>2 DEF unlink_ip, FSTypeOK, DiskTypeOK, CallTypeOK
<1>6. dinode' \in [Inums -> Inodes]
  <2>1. dinode[dp[p]] \in Inodes /\ name[p] \in AllNames
    BY <1>2, FSTypes
  <2>2. \A b \in BOOLEAN : [dinode[dp[p]] EXCEPT !.ents[name[p]] = NoInode,
                                               !.nlink = IF b THEN @ - 1 ELSE @] \in Inodes
    <3> SUFFICES ASSUME NEW b \in BOOLEAN
                 PROVE  [dinode[dp[p]] EXCEPT !.ents[name[p]] = NoInode,
                                              !.nlink = IF b THEN @ - 1 ELSE @] \in Inodes
      OBVIOUS
    <3> DEFINE x == dinode[dp[p]]
               y == [x EXCEPT !.ents[name[p]] = NoInode]
    <3>1. y \in Inodes /\ x.nlink \in Int
      BY <1>2, <2>1, EntryUpdate, InodeFields
    <3>2. [x EXCEPT !.ents[name[p]] = NoInode, !.nlink = IF b THEN @ - 1 ELSE @]
            = [y EXCEPT !.nlink = IF b THEN x.nlink - 1 ELSE x.nlink]
      BY <2>1, InodeFields
    <3> HIDE DEF y
    <3>3. [y EXCEPT !.nlink = IF b THEN x.nlink - 1 ELSE x.nlink] \in Inodes
      BY <3>1 DEF Inodes
    <3> QED
      BY <3>2, <3>3
  <2>3. dinode' = [dinode EXCEPT ![dp[p]].ents[name[p]] = NoInode,
                                 ![dp[p]].nlink = IF dinode[ip[p]].type = "dir" THEN @ - 1 ELSE @]
    BY DEF unlink_ip
  <2> QED
    BY <1>2, <2>1, <2>2, <2>3 DEF FSTypeOK, DiskTypeOK, CallTypeOK, Inodes
<1>7. /\ cwd'[p] = cwd[p] /\ ofile'[p] = ofile[p] /\ pc'[p] = "iput" /\ ret'[p] = ret[p]
      /\ iret'[p] = "unlink_end" /\ ip'[p] = ip[p] /\ dp'[p] = dp[p] /\ put'[p] = dp[p]
      /\ rest'[p] = rest[p] /\ parent'[p] = parent[p] /\ name'[p] = name[p] /\ new'[p] = new[p]
  BY <1>3 DEF FSTypeOK, DiskTypeOK, CallTypeOK
<1>8. Moves(p)
  BY <1>3, <1>7 DEF CallTypeOK, Moves
<1>9. DiskTypeOK' /\ CallTypeOK'
  <2>1. DiskTypeOK'
    BY <1>3, <1>4, <1>5, <1>6 DEF DiskTypeOK
  <2>2. CallTypeAt(p)'
    <3>1. pc'[p] \in Places \cup {"iput", "iput_free", "iput_ref"} /\ iret'[p] \in Places
      BY <1>2, <1>7, FSTypes DEF Places, ParentCalls, PathCalls
    <3>2. /\ cwd'[p] \in Inums /\ ofile'[p] \in Inums \cup {NoInode} /\ ip'[p] \in Inums \cup {NoInode}
          /\ dp'[p] \in Inums \cup {NoInode} /\ put'[p] \in Inums \cup {NoInode}
      BY <1>2, <1>7, FSTypes
    <3>3. /\ ret'[p] \in ParentCalls \cup PathCalls \cup {"user"} /\ rest'[p] \in Seq(AllNames)
          /\ parent'[p] \in BOOLEAN /\ name'[p] \in AllNames /\ new'[p] \in BOOLEAN \X Seq(AllNames)
      BY <1>2, <1>7, FSTypes, NoPath DEF ParentCalls, PathCalls
    <3> QED
      BY <3>1, <3>2, <3>3 DEF CallTypeAt
  <2> QED
    BY <1>8, <2>1, <2>2, MovesTyped
<1>10. /\ At(p)' = "unlink_end" /\ ~HoldsDp(p)' /\ HoldsIp(p)' /\ HoldsPut(p)'
  BY <1>1, <1>2, <1>3 DEF At, Linking2, HoldsPut, HoldsDp, HoldsIp, FSTypeOK, DiskTypeOK, CallTypeOK, ParentCalls, PathCalls
<1>11. WalkOK(p)'
  BY <1>1, <1>2, <1>10, <1>7, NullIsNone DEF WalkInv, WalkOK
<1>12. /\ Stands(p, "unlink_ip", cwd[p], ofile[p], dp[p], ip[p], NoInode)
       /\ StandsThen(p, "unlink_end", cwd[p], ofile[p], NoInode, ip[p], dp[p])
  BY <1>1, <1>2, <1>10, <1>7 DEF Stands, StandsThen, Points
<1>13. ASSUME NEW j \in Inums PROVE ref'[j] - ref[j] = Weight(p, j)' - Weight(p, j)
  <2>1. ref[j] \in Int /\ ref'[j] = ref[j]
    BY <1>3, FSTypes
  <2> QED
    BY <1>12, <2>1, <1>2, NullIsNone DEF Same, Weight, Stands, StandsThen
<1> QED
  BY <1>8, <1>9, <1>7, <1>11, <1>12, <1>13, MovesLocal, CountStep

\* unlink that has failed unlocks the parent and puts it back. References stay counted.
LEMMA UnlinkBadCount ==
  ASSUME CountInv, NEW p \in Procs, unlink_bad(p)
  PROVE  /\ CountInv' /\ Moves(p)
         /\ Stands(p, "unlink_bad", cwd[p], ofile[p], dp[p], NoInode, NoInode)
         /\ StandsThen(p, "user", cwd[p], ofile[p], NoInode, NoInode, dp[p])
         /\ pc'[p] = "iput" /\ rest'[p] = rest[p] /\ name'[p] = name[p] /\ new'[p] = new[p]
<1> USE DEF CountInv, FSTypeOK
<1>1. At(p) = "unlink_bad" /\ HoldsDp(p) /\ ~HoldsIp(p) /\ ~HoldsPut(p)
  BY DEF unlink_bad, At, Linking2, HoldsPut, HoldsDp, HoldsIp, ParentCalls, PathCalls
<1>2. dp[p] \in Inums
  BY <1>1, FSTypes DEF WalkInv, WalkOK
<1>3. /\ put' = [put EXCEPT ![p] = dp[p]]
      /\ iret' = [iret EXCEPT ![p] = "user"]
      /\ pc' = [pc EXCEPT ![p] = "iput"]
      /\ UNCHANGED <<dinode, ref, valid, cwd, ofile, ret, ip, dp, rest, parent, name, new>>
  BY <1>1, <1>2, FSTypes DEF unlink_bad, loads, iget, iput, goto, done, diskVars, callVars, namex, FSTypeOK, DiskTypeOK, CallTypeOK
<1>4. lock' \in [Inums -> Procs \cup {NoOne}]
  BY <1>2 DEF unlink_bad, FSTypeOK, DiskTypeOK, CallTypeOK
<1>5. /\ cwd'[p] = cwd[p] /\ ofile'[p] = ofile[p] /\ pc'[p] = "iput" /\ ret'[p] = ret[p]
      /\ iret'[p] = "user" /\ ip'[p] = ip[p] /\ dp'[p] = dp[p] /\ put'[p] = dp[p]
      /\ rest'[p] = rest[p] /\ parent'[p] = parent[p] /\ name'[p] = name[p] /\ new'[p] = new[p]
  BY <1>3 DEF FSTypeOK, DiskTypeOK, CallTypeOK
<1>6. Moves(p)
  BY <1>3, <1>5 DEF CallTypeOK, Moves
<1>7. DiskTypeOK' /\ CallTypeOK'
  <2>1. DiskTypeOK'
    BY <1>3, <1>4 DEF DiskTypeOK
  <2>2. CallTypeAt(p)'
    <3>1. pc'[p] \in Places \cup {"iput", "iput_free", "iput_ref"} /\ iret'[p] \in Places
      BY <1>2, <1>5, FSTypes DEF Places, ParentCalls, PathCalls
    <3>2. /\ cwd'[p] \in Inums /\ ofile'[p] \in Inums \cup {NoInode} /\ ip'[p] \in Inums \cup {NoInode}
          /\ dp'[p] \in Inums \cup {NoInode} /\ put'[p] \in Inums \cup {NoInode}
      BY <1>2, <1>5, FSTypes
    <3>3. /\ ret'[p] \in ParentCalls \cup PathCalls \cup {"user"} /\ rest'[p] \in Seq(AllNames)
          /\ parent'[p] \in BOOLEAN /\ name'[p] \in AllNames /\ new'[p] \in BOOLEAN \X Seq(AllNames)
      BY <1>2, <1>5, FSTypes, NoPath DEF ParentCalls, PathCalls
    <3> QED
      BY <3>1, <3>2, <3>3 DEF CallTypeAt
  <2> QED
    BY <1>6, <2>1, <2>2, MovesTyped
<1>8. /\ At(p)' = "user" /\ ~HoldsDp(p)' /\ ~HoldsIp(p)' /\ HoldsPut(p)'
  BY <1>1, <1>2, <1>3 DEF At, Linking2, HoldsPut, HoldsDp, HoldsIp, FSTypeOK, DiskTypeOK, CallTypeOK, ParentCalls, PathCalls
<1>9. WalkOK(p)'
  BY <1>1, <1>2, <1>8, <1>5, NullIsNone DEF WalkInv, WalkOK
<1>10. /\ Stands(p, "unlink_bad", cwd[p], ofile[p], dp[p], NoInode, NoInode)
       /\ StandsThen(p, "user", cwd[p], ofile[p], NoInode, NoInode, dp[p])
  BY <1>1, <1>2, <1>8, <1>5 DEF Stands, StandsThen, Points
<1>11. ASSUME NEW j \in Inums PROVE ref'[j] - ref[j] = Weight(p, j)' - Weight(p, j)
  <2>1. ref[j] \in Int /\ ref'[j] = ref[j]
    BY <1>3, FSTypes
  <2> QED
    BY <1>10, <2>1, <1>2, NullIsNone DEF Same, Weight, Stands, StandsThen
<1> QED
  BY <1>6, <1>7, <1>5, <1>9, <1>10, <1>11, MovesLocal, CountStep

\* unlink takes the link whose name it has cleared, and puts the inode back.
\* References stay counted.
LEMMA UnlinkEndCount ==
  ASSUME CountInv, NEW p \in Procs, unlink_end(p)
  PROVE  /\ CountInv' /\ Moves(p)
         /\ Stands(p, "unlink_end", cwd[p], ofile[p], NoInode, ip[p], NoInode)
         /\ StandsThen(p, "user", cwd[p], ofile[p], NoInode, NoInode, ip[p])
         /\ pc'[p] = "iput" /\ rest'[p] = rest[p] /\ name'[p] = name[p] /\ new'[p] = new[p]
<1> USE DEF CountInv, FSTypeOK
<1>1. At(p) = "unlink_end" /\ ~HoldsDp(p) /\ HoldsIp(p) /\ ~HoldsPut(p)
  BY DEF unlink_end, At, Linking2, HoldsPut, HoldsDp, HoldsIp, ParentCalls, PathCalls
<1>2. ip[p] \in Inums
  BY <1>1, FSTypes DEF WalkInv, WalkOK
<1>3. /\ put' = [put EXCEPT ![p] = ip[p]]
      /\ iret' = [iret EXCEPT ![p] = "user"]
      /\ pc' = [pc EXCEPT ![p] = "iput"]
      /\ UNCHANGED <<ref, valid, cwd, ofile, ret, ip, dp, rest, parent, name, new>>
  BY <1>1, <1>2, FSTypes DEF unlink_end, loads, iget, iput, goto, done, diskVars, callVars, namex, FSTypeOK, DiskTypeOK, CallTypeOK
<1>4. lock' \in [Inums -> Procs \cup {NoOne}]
  BY <1>2 DEF unlink_end, FSTypeOK, DiskTypeOK, CallTypeOK
<1>5. dinode' \in [Inums -> Inodes]
  <2>1. dinode[ip[p]] \in Inodes /\ dinode' = [dinode EXCEPT ![ip[p]].nlink = @ - 1]
    BY <1>2, FSTypes DEF unlink_end
  <2>2. [dinode[ip[p]] EXCEPT !.nlink = @ - 1] \in Inodes
    BY <2>1, InodeFields DEF Inodes
  <2> QED
    BY <1>2, <2>1, <2>2 DEF FSTypeOK, DiskTypeOK, CallTypeOK
<1>6. /\ cwd'[p] = cwd[p] /\ ofile'[p] = ofile[p] /\ pc'[p] = "iput" /\ ret'[p] = ret[p]
      /\ iret'[p] = "user" /\ ip'[p] = ip[p] /\ dp'[p] = dp[p] /\ put'[p] = ip[p]
      /\ rest'[p] = rest[p] /\ parent'[p] = parent[p] /\ name'[p] = name[p] /\ new'[p] = new[p]
  BY <1>3 DEF FSTypeOK, DiskTypeOK, CallTypeOK
<1>7. Moves(p)
  BY <1>3, <1>6 DEF CallTypeOK, Moves
<1>8. DiskTypeOK' /\ CallTypeOK'
  <2>1. DiskTypeOK'
    BY <1>3, <1>4, <1>5 DEF DiskTypeOK
  <2>2. CallTypeAt(p)'
    <3>1. pc'[p] \in Places \cup {"iput", "iput_free", "iput_ref"} /\ iret'[p] \in Places
      BY <1>2, <1>6, FSTypes DEF Places, ParentCalls, PathCalls
    <3>2. /\ cwd'[p] \in Inums /\ ofile'[p] \in Inums \cup {NoInode} /\ ip'[p] \in Inums \cup {NoInode}
          /\ dp'[p] \in Inums \cup {NoInode} /\ put'[p] \in Inums \cup {NoInode}
      BY <1>2, <1>6, FSTypes
    <3>3. /\ ret'[p] \in ParentCalls \cup PathCalls \cup {"user"} /\ rest'[p] \in Seq(AllNames)
          /\ parent'[p] \in BOOLEAN /\ name'[p] \in AllNames /\ new'[p] \in BOOLEAN \X Seq(AllNames)
      BY <1>2, <1>6, FSTypes, NoPath DEF ParentCalls, PathCalls
    <3> QED
      BY <3>1, <3>2, <3>3 DEF CallTypeAt
  <2> QED
    BY <1>7, <2>1, <2>2, MovesTyped
<1>9. /\ At(p)' = "user" /\ ~HoldsDp(p)' /\ ~HoldsIp(p)' /\ HoldsPut(p)'
  BY <1>1, <1>2, <1>3 DEF At, Linking2, HoldsPut, HoldsDp, HoldsIp, FSTypeOK, DiskTypeOK, CallTypeOK, ParentCalls, PathCalls
<1>10. WalkOK(p)'
  BY <1>1, <1>2, <1>9, <1>6, NullIsNone DEF WalkInv, WalkOK
<1>11. /\ Stands(p, "unlink_end", cwd[p], ofile[p], NoInode, ip[p], NoInode)
       /\ StandsThen(p, "user", cwd[p], ofile[p], NoInode, NoInode, ip[p])
  BY <1>1, <1>2, <1>9, <1>6 DEF Stands, StandsThen, Points
<1>12. ASSUME NEW j \in Inums PROVE ref'[j] - ref[j] = Weight(p, j)' - Weight(p, j)
  <2>1. ref[j] \in Int /\ ref'[j] = ref[j]
    BY <1>3, FSTypes
  <2> QED
    BY <1>11, <2>1, <1>2, NullIsNone DEF Same, Weight, Stands, StandsThen
<1> QED
  BY <1>7, <1>8, <1>6, <1>10, <1>11, <1>12, MovesLocal, CountStep

\* namex one name further: the next inode is taken before this one is put back.
\* References stay counted.
LEMMA NamexNextCount ==
  ASSUME CountInv, NEW p \in Procs, namex_next(p)
  PROVE  /\ CountInv' /\ Moves(p)
         /\ Stands(p, "namex", cwd[p], ofile[p], dp[p], IF Linking2(p) THEN ip[p] ELSE NoInode, NoInode)
         /\ StandsThen(p, "namex", cwd[p], ofile[p], NextInode(p), IF Linking2(p) THEN ip[p] ELSE NoInode, dp[p])
         /\ pc'[p] = "iput" /\ rest'[p] = Tail(rest[p]) /\ name'[p] = name[p] /\ new'[p] = new[p]
<1> USE DEF CountInv, FSTypeOK
<1>1. At(p) = "namex" /\ HoldsDp(p) /\ (HoldsIp(p) <=> Linking2(p)) /\ ~HoldsPut(p)
  BY DEF namex_next, At, Linking2, HoldsPut, HoldsDp, HoldsIp, ParentCalls, PathCalls
<1>2. dp[p] \in Inums /\ NextInode(p) \in Inums /\ Tail(rest[p]) \in Seq(AllNames)
      /\ ret[p] \in ParentCalls \cup PathCalls
  <2>1. rest[p] \in Seq(AllNames) /\ rest[p] # <<>>
    BY FSTypes DEF namex_next
  <2>2. Head(rest[p]) \in AllNames /\ Tail(rest[p]) \in Seq(AllNames)
    BY <2>1, FirstName
  <2>3. dp[p] \in Inums
    BY <1>1, FSTypes DEF WalkInv, WalkOK
  <2>4. NextInode(p) \in Inums
    BY <2>2, <2>3, FSTypes DEF NextInode, namex_next
  <2> QED
    BY <1>1, <2>2, <2>3, <2>4 DEF WalkInv, WalkOK
<1>3. /\ dp' = [dp EXCEPT ![p] = NextInode(p)]
      /\ rest' = [rest EXCEPT ![p] = Tail(rest[p])]
      /\ put' = [put EXCEPT ![p] = dp[p]]
      /\ iret' = [iret EXCEPT ![p] = "namex"]
      /\ pc' = [pc EXCEPT ![p] = "iput"]
      /\ UNCHANGED <<dinode, lock, cwd, ofile, ret, ip, parent, name, new>>
      /\ valid' \in [Inums -> BOOLEAN]
      /\ ref' = [ref EXCEPT ![NextInode(p)] = @ + 1]
  BY <1>1, <1>2, FSTypes DEF namex_next, loads, iget, iput, goto, done, diskVars, callVars, namex, FSTypeOK, DiskTypeOK, CallTypeOK, NextInode
<1>4. /\ cwd'[p] = cwd[p] /\ ofile'[p] = ofile[p] /\ pc'[p] = "iput" /\ ret'[p] = ret[p]
      /\ iret'[p] = "namex" /\ ip'[p] = ip[p] /\ dp'[p] = NextInode(p) /\ put'[p] = dp[p]
      /\ rest'[p] = Tail(rest[p]) /\ parent'[p] = parent[p] /\ name'[p] = name[p] /\ new'[p] = new[p]
  BY <1>3 DEF FSTypeOK, DiskTypeOK, CallTypeOK
<1>5. Moves(p)
  BY <1>3, <1>4 DEF CallTypeOK, Moves
<1>6. DiskTypeOK' /\ CallTypeOK'
  <2>1. DiskTypeOK'
    <3>1. ref' \in [Inums -> Int]
      BY <1>2, <1>3 DEF DiskTypeOK
    <3> QED
      BY <1>3, <3>1 DEF DiskTypeOK
  <2>2. CallTypeAt(p)'
    <3>1. pc'[p] \in Places \cup {"iput", "iput_free", "iput_ref"} /\ iret'[p] \in Places
      BY <1>2, <1>4, FSTypes DEF Places, ParentCalls, PathCalls
    <3>2. /\ cwd'[p] \in Inums /\ ofile'[p] \in Inums \cup {NoInode} /\ ip'[p] \in Inums \cup {NoInode}
          /\ dp'[p] \in Inums \cup {NoInode} /\ put'[p] \in Inums \cup {NoInode}
      BY <1>2, <1>4, FSTypes
    <3>3. /\ ret'[p] \in ParentCalls \cup PathCalls \cup {"user"} /\ rest'[p] \in Seq(AllNames)
          /\ parent'[p] \in BOOLEAN /\ name'[p] \in AllNames /\ new'[p] \in BOOLEAN \X Seq(AllNames)
      BY <1>2, <1>4, FSTypes, NoPath DEF ParentCalls, PathCalls
    <3> QED
      BY <3>1, <3>2, <3>3 DEF CallTypeAt
  <2> QED
    BY <1>5, <2>1, <2>2, MovesTyped
<1>7. /\ At(p)' = "namex" /\ HoldsDp(p)' /\ (HoldsIp(p)' <=> Linking2(p)) /\ HoldsPut(p)'
  BY <1>1, <1>2, <1>3 DEF At, Linking2, HoldsPut, HoldsDp, HoldsIp, FSTypeOK, DiskTypeOK, CallTypeOK, ParentCalls, PathCalls
<1>8. WalkOK(p)'
  BY <1>1, <1>2, <1>7, <1>4, NullIsNone DEF WalkInv, WalkOK
<1>9. /\ Stands(p, "namex", cwd[p], ofile[p], dp[p], IF Linking2(p) THEN ip[p] ELSE NoInode, NoInode)
      /\ StandsThen(p, "namex", cwd[p], ofile[p], NextInode(p), IF Linking2(p) THEN ip[p] ELSE NoInode, dp[p])
  BY <1>1, <1>2, <1>7, <1>4 DEF Stands, StandsThen, Points
<1>10. ASSUME NEW j \in Inums PROVE ref'[j] - ref[j] = Weight(p, j)' - Weight(p, j)
  <2>1. ref[j] \in Int /\ ref'[j] = ref[j] + Same(NextInode(p), j)
    BY <1>2, <1>3, FSTypes DEF Same, FSTypeOK, DiskTypeOK, CallTypeOK
  <2> QED
    BY <1>9, <2>1, <1>2, NullIsNone DEF Same, Weight, Stands, StandsThen
<1> QED
  BY <1>5, <1>6, <1>4, <1>8, <1>9, <1>10, MovesLocal, CountStep

\* iput decides whether the inode is in its last use, and keeps its lock if it is. References stay counted.
LEMMA IputLastCount ==
  ASSUME CountInv, NEW p \in Procs, iput_last(p)
  PROVE  /\ CountInv' /\ Moves(p)
         /\ Stands(p, iret[p], cwd[p], ofile[p], IF HoldsDp(p) THEN dp[p] ELSE NoInode, IF HoldsIp(p) THEN ip[p] ELSE NoInode, put[p])
         /\ StandsThen(p, iret[p], cwd[p], ofile[p], IF HoldsDp(p) THEN dp[p] ELSE NoInode, IF HoldsIp(p) THEN ip[p] ELSE NoInode, put[p])
         /\ pc'[p] = AfterLook(p) /\ rest'[p] = rest[p] /\ name'[p] = name[p] /\ new'[p] = new[p]
<1> USE DEF CountInv, FSTypeOK
<1>1. At(p) = iret[p] /\ HoldsPut(p)
  BY DEF iput_last, At, Linking2, HoldsPut, HoldsDp, HoldsIp, ParentCalls, PathCalls
<1>2. put[p] \in Inums /\ AfterLook(p) \in {"iput_free", "iput_ref"}
  BY <1>1, FSTypes DEF WalkInv, WalkOK, AfterLook
<1>3. /\ pc' = [pc EXCEPT ![p] = AfterLook(p)]
      /\ UNCHANGED <<dinode, valid, ref, cwd, ofile, ret, iret, ip, dp, put, rest, parent, name, new>>
  BY <1>1, <1>2, FSTypes DEF iput_last, AfterLook, loads, iget, iput, goto, done, diskVars, callVars, namex, FSTypeOK, DiskTypeOK, CallTypeOK
<1>4. dinode' \in [Inums -> Inodes] /\ valid' \in [Inums -> BOOLEAN]
  BY <1>3 DEF FSTypeOK, DiskTypeOK
<1>5. lock' \in [Inums -> Procs \cup {NoOne}]
  BY DEF iput_last, FSTypeOK, DiskTypeOK, CallTypeOK
<1>6. /\ cwd'[p] = cwd[p] /\ ofile'[p] = ofile[p] /\ pc'[p] = AfterLook(p) /\ ret'[p] = ret[p]
      /\ iret'[p] = iret[p] /\ ip'[p] = ip[p] /\ dp'[p] = dp[p] /\ put'[p] = put[p]
      /\ rest'[p] = rest[p] /\ parent'[p] = parent[p] /\ name'[p] = name[p] /\ new'[p] = new[p]
  BY <1>3 DEF FSTypeOK, DiskTypeOK, CallTypeOK
<1>7. Moves(p)
  BY <1>3, <1>6 DEF CallTypeOK, Moves
<1>8. DiskTypeOK' /\ CallTypeOK'
  <2>1. DiskTypeOK'
    BY <1>3, <1>4, <1>5 DEF DiskTypeOK
  <2>2. CallTypeAt(p)'
    <3>1. pc'[p] \in Places \cup {"iput", "iput_free", "iput_ref"} /\ iret'[p] \in Places
      BY <1>2, <1>6, FSTypes DEF Places, ParentCalls, PathCalls
    <3>2. /\ cwd'[p] \in Inums /\ ofile'[p] \in Inums \cup {NoInode} /\ ip'[p] \in Inums \cup {NoInode}
          /\ dp'[p] \in Inums \cup {NoInode} /\ put'[p] \in Inums \cup {NoInode}
      BY <1>2, <1>6, FSTypes
    <3>3. /\ ret'[p] \in ParentCalls \cup PathCalls \cup {"user"} /\ rest'[p] \in Seq(AllNames)
          /\ parent'[p] \in BOOLEAN /\ name'[p] \in AllNames /\ new'[p] \in BOOLEAN \X Seq(AllNames)
      BY <1>2, <1>6, FSTypes, NoPath DEF ParentCalls, PathCalls
    <3> QED
      BY <3>1, <3>2, <3>3 DEF CallTypeAt
  <2> QED
    BY <1>7, <2>1, <2>2, MovesTyped
<1>9. /\ At(p)' = iret[p] /\ (HoldsDp(p)' <=> HoldsDp(p)) /\ (HoldsIp(p)' <=> HoldsIp(p)) /\ HoldsPut(p)'
  BY <1>1, <1>2, <1>3 DEF At, Linking2, HoldsPut, HoldsDp, HoldsIp, FSTypeOK, DiskTypeOK, CallTypeOK, ParentCalls, PathCalls
<1>10. WalkOK(p)'
  BY <1>1, <1>2, <1>9, <1>6, NullIsNone DEF WalkInv, WalkOK
<1>11. /\ Stands(p, iret[p], cwd[p], ofile[p], IF HoldsDp(p) THEN dp[p] ELSE NoInode, IF HoldsIp(p) THEN ip[p] ELSE NoInode, put[p])
       /\ StandsThen(p, iret[p], cwd[p], ofile[p], IF HoldsDp(p) THEN dp[p] ELSE NoInode, IF HoldsIp(p) THEN ip[p] ELSE NoInode, put[p])
  BY <1>1, <1>2, <1>9, <1>6 DEF Stands, StandsThen, Points
<1>12. ASSUME NEW j \in Inums PROVE ref'[j] - ref[j] = Weight(p, j)' - Weight(p, j)
  <2>1. ref[j] \in Int /\ ref'[j] = ref[j]
    BY <1>3, FSTypes
  <2> QED
    BY <1>11, <2>1, <1>2, NullIsNone DEF Same, Weight, Stands, StandsThen
<1> QED
  BY <1>7, <1>8, <1>6, <1>10, <1>11, <1>12, MovesLocal, CountStep

\* iput frees the inode that has no links and no other reference. References stay counted.
LEMMA IputFreeCount ==
  ASSUME CountInv, NEW p \in Procs, iput_free(p)
  PROVE  /\ CountInv' /\ Moves(p)
         /\ Stands(p, iret[p], cwd[p], ofile[p], IF HoldsDp(p) THEN dp[p] ELSE NoInode, IF HoldsIp(p) THEN ip[p] ELSE NoInode, put[p])
         /\ StandsThen(p, iret[p], cwd[p], ofile[p], IF HoldsDp(p) THEN dp[p] ELSE NoInode, IF HoldsIp(p) THEN ip[p] ELSE NoInode, put[p])
         /\ pc'[p] = "iput_ref" /\ rest'[p] = rest[p] /\ name'[p] = name[p] /\ new'[p] = new[p]
<1> USE DEF CountInv, FSTypeOK
<1>1. At(p) = iret[p] /\ HoldsPut(p)
  BY DEF iput_free, At, Linking2, HoldsPut, HoldsDp, HoldsIp, ParentCalls, PathCalls
<1>2. put[p] \in Inums
  BY <1>1, FSTypes DEF WalkInv, WalkOK
<1>3. /\ pc' = [pc EXCEPT ![p] = "iput_ref"]
      /\ UNCHANGED <<ref, cwd, ofile, ret, iret, ip, dp, put, rest, parent, name, new>>
  BY <1>1, <1>2, FSTypes DEF iput_free, loads, iget, iput, goto, done, diskVars, callVars, namex, FSTypeOK, DiskTypeOK, CallTypeOK
<1>4. dinode' \in [Inums -> Inodes]
  BY FreeIsInode DEF iput_free, FSTypeOK, DiskTypeOK, CallTypeOK
<1>5. valid' \in [Inums -> BOOLEAN] /\ lock' \in [Inums -> Procs \cup {NoOne}]
  BY DEF iput_free, FSTypeOK, DiskTypeOK, CallTypeOK
<1>6. /\ cwd'[p] = cwd[p] /\ ofile'[p] = ofile[p] /\ pc'[p] = "iput_ref" /\ ret'[p] = ret[p]
      /\ iret'[p] = iret[p] /\ ip'[p] = ip[p] /\ dp'[p] = dp[p] /\ put'[p] = put[p]
      /\ rest'[p] = rest[p] /\ parent'[p] = parent[p] /\ name'[p] = name[p] /\ new'[p] = new[p]
  BY <1>3 DEF FSTypeOK, DiskTypeOK, CallTypeOK
<1>7. Moves(p)
  BY <1>3, <1>6 DEF CallTypeOK, Moves
<1>8. DiskTypeOK' /\ CallTypeOK'
  <2>1. DiskTypeOK'
    BY <1>3, <1>4, <1>5 DEF DiskTypeOK
  <2>2. CallTypeAt(p)'
    <3>1. pc'[p] \in Places \cup {"iput", "iput_free", "iput_ref"} /\ iret'[p] \in Places
      BY <1>2, <1>6, FSTypes DEF Places, ParentCalls, PathCalls
    <3>2. /\ cwd'[p] \in Inums /\ ofile'[p] \in Inums \cup {NoInode} /\ ip'[p] \in Inums \cup {NoInode}
          /\ dp'[p] \in Inums \cup {NoInode} /\ put'[p] \in Inums \cup {NoInode}
      BY <1>2, <1>6, FSTypes
    <3>3. /\ ret'[p] \in ParentCalls \cup PathCalls \cup {"user"} /\ rest'[p] \in Seq(AllNames)
          /\ parent'[p] \in BOOLEAN /\ name'[p] \in AllNames /\ new'[p] \in BOOLEAN \X Seq(AllNames)
      BY <1>2, <1>6, FSTypes, NoPath DEF ParentCalls, PathCalls
    <3> QED
      BY <3>1, <3>2, <3>3 DEF CallTypeAt
  <2> QED
    BY <1>7, <2>1, <2>2, MovesTyped
<1>9. /\ At(p)' = iret[p] /\ (HoldsDp(p)' <=> HoldsDp(p)) /\ (HoldsIp(p)' <=> HoldsIp(p)) /\ HoldsPut(p)'
  BY <1>1, <1>2, <1>3 DEF At, Linking2, HoldsPut, HoldsDp, HoldsIp, FSTypeOK, DiskTypeOK, CallTypeOK, ParentCalls, PathCalls
<1>10. WalkOK(p)'
  BY <1>1, <1>2, <1>9, <1>6, NullIsNone DEF WalkInv, WalkOK
<1>11. /\ Stands(p, iret[p], cwd[p], ofile[p], IF HoldsDp(p) THEN dp[p] ELSE NoInode, IF HoldsIp(p) THEN ip[p] ELSE NoInode, put[p])
       /\ StandsThen(p, iret[p], cwd[p], ofile[p], IF HoldsDp(p) THEN dp[p] ELSE NoInode, IF HoldsIp(p) THEN ip[p] ELSE NoInode, put[p])
  BY <1>1, <1>2, <1>9, <1>6 DEF Stands, StandsThen, Points
<1>12. ASSUME NEW j \in Inums PROVE ref'[j] - ref[j] = Weight(p, j)' - Weight(p, j)
  <2>1. ref[j] \in Int /\ ref'[j] = ref[j]
    BY <1>3, FSTypes
  <2> QED
    BY <1>11, <2>1, <1>2, NullIsNone DEF Same, Weight, Stands, StandsThen
<1> QED
  BY <1>7, <1>8, <1>6, <1>10, <1>11, <1>12, MovesLocal, CountStep

\* iput gives the reference up at the end of a call. References stay counted.
LEMMA IputDoneCount ==
  ASSUME CountInv, NEW p \in Procs, iput_ref(p), iret[p] = "user"
  PROVE  /\ CountInv' /\ Moves(p)
         /\ Stands(p, "user", cwd[p], ofile[p], NoInode, NoInode, put[p])
         /\ StandsThen(p, "user", cwd[p], ofile[p], NoInode, NoInode, NoInode)
         /\ pc'[p] = "user" /\ rest'[p] = <<>> /\ name'[p] = "." /\ new'[p] = <<FALSE, <<>>>>
<1> USE DEF CountInv, FSTypeOK
<1>1. At(p) = "user" /\ ~HoldsDp(p) /\ ~HoldsIp(p) /\ HoldsPut(p)
  BY DEF iput_ref, At, Linking2, HoldsPut, HoldsDp, HoldsIp, ParentCalls, PathCalls
<1>2. put[p] \in Inums
  BY <1>1, FSTypes DEF WalkInv, WalkOK
<1>3. /\ pc' = [pc EXCEPT ![p] = "user"]
      /\ ret' = [ret EXCEPT ![p] = "user"]
      /\ iret' = [iret EXCEPT ![p] = "user"]
      /\ ip' = [ip EXCEPT ![p] = NoInode]
      /\ dp' = [dp EXCEPT ![p] = NoInode]
      /\ put' = [put EXCEPT ![p] = NoInode]
      /\ rest' = [rest EXCEPT ![p] = <<>>]
      /\ parent' = [parent EXCEPT ![p] = FALSE]
      /\ name' = [name EXCEPT ![p] = "."]
      /\ new' = [new EXCEPT ![p] = <<FALSE, <<>>>>]
      /\ UNCHANGED <<dinode, lock, cwd, ofile>>
      /\ ref' = [ref EXCEPT ![put[p]] = @ - 1]
  BY <1>1, <1>2, FSTypes DEF iput_ref, loads, iget, iput, goto, done, diskVars, callVars, namex, FSTypeOK, DiskTypeOK, CallTypeOK
<1>4. valid' \in [Inums -> BOOLEAN]
  BY <1>2 DEF iput_ref, FSTypeOK, DiskTypeOK
<1>5. /\ cwd'[p] = cwd[p] /\ ofile'[p] = ofile[p] /\ pc'[p] = "user" /\ ret'[p] = "user"
      /\ iret'[p] = "user" /\ ip'[p] = NoInode /\ dp'[p] = NoInode /\ put'[p] = NoInode
      /\ rest'[p] = <<>> /\ parent'[p] = FALSE /\ name'[p] = "." /\ new'[p] = <<FALSE, <<>>>>
  BY <1>3 DEF FSTypeOK, DiskTypeOK, CallTypeOK
<1>6. Moves(p)
  BY <1>3, <1>5 DEF CallTypeOK, Moves
<1>7. DiskTypeOK' /\ CallTypeOK'
  <2>1. DiskTypeOK'
    <3>1. ref' \in [Inums -> Int]
      BY <1>2, <1>3 DEF DiskTypeOK
    <3> QED
      BY <1>3, <3>1, <1>4 DEF DiskTypeOK
  <2>2. CallTypeAt(p)'
    <3>1. pc'[p] \in Places \cup {"iput", "iput_free", "iput_ref"} /\ iret'[p] \in Places
      BY <1>2, <1>5, FSTypes DEF Places, ParentCalls, PathCalls
    <3>2. /\ cwd'[p] \in Inums /\ ofile'[p] \in Inums \cup {NoInode} /\ ip'[p] \in Inums \cup {NoInode}
          /\ dp'[p] \in Inums \cup {NoInode} /\ put'[p] \in Inums \cup {NoInode}
      BY <1>2, <1>5, FSTypes
    <3>3. /\ ret'[p] \in ParentCalls \cup PathCalls \cup {"user"} /\ rest'[p] \in Seq(AllNames)
          /\ parent'[p] \in BOOLEAN /\ name'[p] \in AllNames /\ new'[p] \in BOOLEAN \X Seq(AllNames)
      BY <1>2, <1>5, FSTypes, NoPath DEF ParentCalls, PathCalls
    <3> QED
      BY <3>1, <3>2, <3>3 DEF CallTypeAt
  <2> QED
    BY <1>6, <2>1, <2>2, MovesTyped
<1>8. /\ At(p)' = "user" /\ ~HoldsDp(p)' /\ ~HoldsIp(p)' /\ ~HoldsPut(p)'
  BY <1>1, <1>2, <1>3 DEF At, Linking2, HoldsPut, HoldsDp, HoldsIp, FSTypeOK, DiskTypeOK, CallTypeOK, ParentCalls, PathCalls
<1>9. WalkOK(p)'
  BY <1>1, <1>2, <1>8, <1>5, NullIsNone DEF WalkInv, WalkOK
<1>10. /\ Stands(p, "user", cwd[p], ofile[p], NoInode, NoInode, put[p])
       /\ StandsThen(p, "user", cwd[p], ofile[p], NoInode, NoInode, NoInode)
  BY <1>1, <1>2, <1>8, <1>5 DEF Stands, StandsThen, Points
<1>11. ASSUME NEW j \in Inums PROVE ref'[j] - ref[j] = Weight(p, j)' - Weight(p, j)
  <2>1. ref[j] \in Int /\ ref'[j] = ref[j] - Same(put[p], j)
    BY <1>2, <1>3, FSTypes DEF Same, FSTypeOK, DiskTypeOK, CallTypeOK
  <2> QED
    BY <1>10, <2>1, <1>2, NullIsNone DEF Same, Weight, Stands, StandsThen
<1> QED
  BY <1>6, <1>7, <1>5, <1>9, <1>10, <1>11, MovesLocal, CountStep

\* iput gives the reference up in the middle of a call. References stay counted.
LEMMA IputBackCount ==
  ASSUME CountInv, NEW p \in Procs, iput_ref(p), iret[p] # "user"
  PROVE  /\ CountInv' /\ Moves(p)
         /\ Stands(p, iret[p], cwd[p], ofile[p], IF HoldsDp(p) THEN dp[p] ELSE NoInode, IF HoldsIp(p) THEN ip[p] ELSE NoInode, put[p])
         /\ StandsThen(p, iret[p], cwd[p], ofile[p], IF HoldsDp(p) THEN dp[p] ELSE NoInode, IF HoldsIp(p) THEN ip[p] ELSE NoInode, NoInode)
         /\ pc'[p] = iret[p] /\ rest'[p] = rest[p] /\ name'[p] = name[p] /\ new'[p] = new[p]
<1> USE DEF CountInv, FSTypeOK
<1>1. At(p) = iret[p] /\ HoldsPut(p)
  BY DEF iput_ref, At, Linking2, HoldsPut, HoldsDp, HoldsIp, ParentCalls, PathCalls
<1>2. put[p] \in Inums /\ iret[p] \notin {"iput", "iput_free", "iput_ref"}
  BY <1>1, FSTypes DEF WalkInv, WalkOK, Places, ParentCalls, PathCalls
<1>3. /\ pc' = [pc EXCEPT ![p] = iret[p]]
      /\ UNCHANGED <<dinode, lock, cwd, ofile, ret, iret, ip, dp, put, rest, parent, name, new>>
      /\ ref' = [ref EXCEPT ![put[p]] = @ - 1]
  BY <1>1, <1>2, FSTypes DEF iput_ref, loads, iget, iput, goto, done, diskVars, callVars, namex, FSTypeOK, DiskTypeOK, CallTypeOK
<1>4. valid' \in [Inums -> BOOLEAN]
  BY <1>2 DEF iput_ref, FSTypeOK, DiskTypeOK
<1>5. /\ cwd'[p] = cwd[p] /\ ofile'[p] = ofile[p] /\ pc'[p] = iret[p] /\ ret'[p] = ret[p]
      /\ iret'[p] = iret[p] /\ ip'[p] = ip[p] /\ dp'[p] = dp[p] /\ put'[p] = put[p]
      /\ rest'[p] = rest[p] /\ parent'[p] = parent[p] /\ name'[p] = name[p] /\ new'[p] = new[p]
  BY <1>3 DEF FSTypeOK, DiskTypeOK, CallTypeOK
<1>6. Moves(p)
  BY <1>3, <1>5 DEF CallTypeOK, Moves
<1>7. DiskTypeOK' /\ CallTypeOK'
  <2>1. DiskTypeOK'
    <3>1. ref' \in [Inums -> Int]
      BY <1>2, <1>3 DEF DiskTypeOK
    <3> QED
      BY <1>3, <3>1, <1>4 DEF DiskTypeOK
  <2>2. CallTypeAt(p)'
    <3>1. pc'[p] \in Places \cup {"iput", "iput_free", "iput_ref"} /\ iret'[p] \in Places
      BY <1>2, <1>5, FSTypes DEF Places, ParentCalls, PathCalls
    <3>2. /\ cwd'[p] \in Inums /\ ofile'[p] \in Inums \cup {NoInode} /\ ip'[p] \in Inums \cup {NoInode}
          /\ dp'[p] \in Inums \cup {NoInode} /\ put'[p] \in Inums \cup {NoInode}
      BY <1>2, <1>5, FSTypes
    <3>3. /\ ret'[p] \in ParentCalls \cup PathCalls \cup {"user"} /\ rest'[p] \in Seq(AllNames)
          /\ parent'[p] \in BOOLEAN /\ name'[p] \in AllNames /\ new'[p] \in BOOLEAN \X Seq(AllNames)
      BY <1>2, <1>5, FSTypes, NoPath DEF ParentCalls, PathCalls
    <3> QED
      BY <3>1, <3>2, <3>3 DEF CallTypeAt
  <2> QED
    BY <1>6, <2>1, <2>2, MovesTyped
<1>8. /\ At(p)' = iret[p] /\ (HoldsDp(p)' <=> HoldsDp(p)) /\ (HoldsIp(p)' <=> HoldsIp(p)) /\ ~HoldsPut(p)'
  BY <1>1, <1>2, <1>3 DEF At, Linking2, HoldsPut, HoldsDp, HoldsIp, FSTypeOK, DiskTypeOK, CallTypeOK, ParentCalls, PathCalls
<1>9. WalkOK(p)'
  BY <1>1, <1>2, <1>8, <1>5, NullIsNone DEF WalkInv, WalkOK
<1>10. /\ Stands(p, iret[p], cwd[p], ofile[p], IF HoldsDp(p) THEN dp[p] ELSE NoInode, IF HoldsIp(p) THEN ip[p] ELSE NoInode, put[p])
       /\ StandsThen(p, iret[p], cwd[p], ofile[p], IF HoldsDp(p) THEN dp[p] ELSE NoInode, IF HoldsIp(p) THEN ip[p] ELSE NoInode, NoInode)
  BY <1>1, <1>2, <1>8, <1>5 DEF Stands, StandsThen, Points
<1>11. ASSUME NEW j \in Inums PROVE ref'[j] - ref[j] = Weight(p, j)' - Weight(p, j)
  <2>1. ref[j] \in Int /\ ref'[j] = ref[j] - Same(put[p], j)
    BY <1>2, <1>3, FSTypes DEF Same, FSTypeOK, DiskTypeOK, CallTypeOK
  <2> QED
    BY <1>10, <2>1, <1>2, NullIsNone DEF Same, Weight, Stands, StandsThen
<1> QED
  BY <1>6, <1>7, <1>5, <1>9, <1>10, <1>11, MovesLocal, CountStep

-----------------------------------------------------------------------------
(* References are balanced *)

\* Pairs with a slot are as many as the processes in them.
LEMMA PairsOf ==
  ASSUME NEW S, S \subseteq Procs, NEW k
  PROVE  /\ IsFiniteSet(S) /\ Cardinality(S) \in Nat
         /\ IsFiniteSet(S \X {k}) /\ Cardinality(S \X {k}) = Cardinality(S)
<1>1. IsFiniteSet(S) /\ Cardinality(S) \in Nat
  BY FSAssumption, FS_Subset, FS_CardinalityType
<1>2. IsFiniteSet({k}) /\ Cardinality({k}) = 1
  BY FS_Singleton
<1>3. IsFiniteSet(S \X {k}) /\ Cardinality(S \X {k}) = Cardinality(S) * Cardinality({k})
  BY <1>1, <1>2, FS_Product
<1> QED
  BY <1>1, <1>2, <1>3

\* While no call runs, only open files and current directories count.
LEMMA IdleUsers ==
  ASSUME FSTypeOK, \A p \in Procs : pc[p] = "user", NEW i \in Inums
  PROVE  Cardinality(Users(i)) = Count({p \in Procs : cwd[p] = i}) + Count({p \in Procs : ofile[p] = i})
<1> DEFINE C == {p \in Procs : cwd[p] = i}
           O == {p \in Procs : ofile[p] = i}
<1>1. \A p \in Procs : /\ Points(p, "cwd") = cwd[p] /\ Points(p, "ofile") = ofile[p]
                       /\ Points(p, "dp") = NoInode /\ Points(p, "ip") = NoInode
                       /\ Points(p, "put") = NoInode
  BY DEF Points, HoldsDp, HoldsIp, HoldsPut, At, Linking2, ParentCalls, PathCalls
<1>2. Users(i) = (C \X {"cwd"}) \cup (O \X {"ofile"})
  <2>1. ASSUME NEW p \in Procs, NEW k \in Slots
        PROVE  Points(p, k) = i <=> (k = "cwd" /\ p \in C) \/ (k = "ofile" /\ p \in O)
    BY <1>1, NullIsNone DEF Slots
  <2>2. ASSUME NEW u \in Procs \X Slots
        PROVE  u \in Users(i) <=> u \in (C \X {"cwd"}) \cup (O \X {"ofile"})
    BY <2>1 DEF Users
  <2>3. (C \X {"cwd"}) \cup (O \X {"ofile"}) \subseteq Procs \X Slots
    BY DEF Slots
  <2>4. Users(i) \subseteq Procs \X Slots
    BY DEF Users
  <2> QED
    BY <2>2, <2>3, <2>4
<1>3. (C \X {"cwd"}) \cap (O \X {"ofile"}) = {}
  OBVIOUS
<1>4. C \subseteq Procs /\ O \subseteq Procs
  OBVIOUS
<1> HIDE DEF C, O
<1>5. /\ IsFiniteSet(C \X {"cwd"}) /\ Cardinality(C \X {"cwd"}) = Cardinality(C) /\ Cardinality(C) \in Nat
      /\ IsFiniteSet(O \X {"ofile"}) /\ Cardinality(O \X {"ofile"}) = Cardinality(O) /\ Cardinality(O) \in Nat
  BY <1>4, PairsOf
<1>6. Cardinality((C \X {"cwd"}) \cup (O \X {"ofile"}))
        = Cardinality(C \X {"cwd"}) + Cardinality(O \X {"ofile"}) - Cardinality((C \X {"cwd"}) \cap (O \X {"ofile"}))
  BY <1>5, FS_Union
<1>7. Cardinality((C \X {"cwd"}) \cap (O \X {"ofile"})) = 0
  BY <1>3, FS_EmptySet
<1>8. Cardinality(Users(i)) = Cardinality(C) + Cardinality(O)
  BY <1>2, <1>5, <1>6, <1>7
<1> QED
  BY <1>8 DEF C, O, Count

\* mkfs and userinit: every process has its root as current directory.
LEMMA CountInit == FSInit => CountInv
<1> SUFFICES ASSUME FSInit PROVE CountInv
  OBVIOUS
<1>1. DiskTypeOK
  <2>1. IsFiniteSet(Procs) /\ Cardinality(Procs) \in Nat
    BY FSAssumption, FS_CardinalityType
  <2>2. Consistent(dinode)
    BY ImagesAssumption DEF FSInit
  <2>3. dinode \in [Inums -> [type : {"none", "file", "dir"}, nlink : Nat, ents : [AllNames -> Inums \cup {NoInode}]]]
    BY <2>2 DEF Consistent
  <2>4. dinode \in [Inums -> Inodes]
    BY <2>3 DEF Inodes
  <2> QED
    BY <2>1, <2>4 DEF FSInit, DiskTypeOK
<1>2. CallTypeOK
  <2>1. /\ cwd \in [Procs -> Inums] /\ ofile \in [Procs -> Inums \cup {NoInode}]
        /\ pc \in [Procs -> Places \cup {"iput", "iput_free", "iput_ref"}]
        /\ iret \in [Procs -> Places] /\ ret \in [Procs -> ParentCalls \cup PathCalls \cup {"user"}]
    BY NullIsNone DEF FSInit, Places
  <2> QED
    BY <2>1, NoPath DEF FSInit, CallTypeOK
<1>3. WalkInv
  BY DEF FSInit, WalkInv, WalkOK, HoldsDp, HoldsIp, HoldsPut, At, Linking2, ParentCalls, PathCalls
<1>4. RefInv
  <2> SUFFICES ASSUME NEW i \in Inums PROVE ref[i] = Cardinality(Users(i))
    BY DEF RefInv
  <2>1. Cardinality(Users(i)) = Count({p \in Procs : cwd[p] = i}) + Count({p \in Procs : ofile[p] = i})
    BY <1>1, <1>2, IdleUsers DEF FSTypeOK, FSInit
  <2>2. {p \in Procs : ofile[p] = i} = {}
    BY NullIsNone DEF FSInit
  <2>3. {p \in Procs : cwd[p] = i} = IF i = ROOTINO THEN Procs ELSE {}
    BY DEF FSInit
  <2>4. Cardinality({}) = 0 /\ Cardinality(Procs) \in Nat
    BY FS_EmptySet, FSAssumption, FS_CardinalityType
  <2>5. ref[i] = IF i = ROOTINO THEN Cardinality(Procs) ELSE 0
    BY DEF FSInit
  <2> QED
    BY <2>1, <2>2, <2>3, <2>4, <2>5 DEF Count
<1> QED
  BY <1>1, <1>2, <1>3, <1>4 DEF CountInv, FSTypeOK

\* A step that changes nothing keeps the count of references.
LEMMA CountStutters ==
  ASSUME CountInv, UNCHANGED fsVars
  PROVE  CountInv'
<1>1. FSTypeOK'
  BY DEF fsVars, diskVars, callVars, CountInv, FSTypeOK, DiskTypeOK, CallTypeOK
<1>2. \A p \in Procs : /\ At(p)' = At(p) /\ (HoldsDp(p)' <=> HoldsDp(p))
                       /\ (HoldsIp(p)' <=> HoldsIp(p)) /\ (HoldsPut(p)' <=> HoldsPut(p))
  BY DEF fsVars, callVars, HoldsDp, HoldsIp, HoldsPut, At, Linking2
<1>3. \A p \in Procs : \A k \in Slots : Points(p, k)' = Points(p, k)
  BY <1>2 DEF fsVars, callVars, Points, Slots
<1>4. WalkInv'
  BY <1>2 DEF fsVars, callVars, CountInv, WalkInv, WalkOK
<1>5. \A i \in Inums : Users(i)' = Users(i)
  BY <1>3 DEF Users
<1>6. RefInv'
  BY <1>5 DEF fsVars, CountInv, RefInv
<1> QED
  BY <1>1, <1>4, <1>6 DEF CountInv

\* Every step of a call counts the pointers it makes and drops, changes the call of its own
\* process only, and comes to the free of an inode from the look at its last use.
LEMMA StepCounts ==
  ASSUME CountInv, NEW p \in Procs, Step(p)
  PROVE  CountInv' /\ Moves(p) /\ (pc'[p] = "iput_free" => iput_last(p))
<1> DEFINE Good == CountInv' /\ Moves(p) /\ (pc'[p] = "iput_free" => iput_last(p))
<1>1. /\ iret[p] \in Places /\ ret[p] \in ParentCalls \cup PathCalls \cup {"user"}
      /\ Failed(p) # "iput_free" /\ "iput_free" \notin Places \cup ParentCalls \cup PathCalls
  BY FSTypes DEF CountInv, Places, ParentCalls, PathCalls, Failed
<1>2. ASSUME NEW call \in Calls, NEW path \in Paths, NEW path2 \in Paths, begin(p, call, path, path2)
      PROVE  Good
  BY <1>2, BeginCount
<1>3. ASSUME close(p) PROVE Good
  BY <1>3, CloseCount
<1>4. ASSUME Walk(p) PROVE Good
  <2>1. CASE namex_end(p)
    BY <1>1, <2>1, NamexEndParentCount, NamexEndFoundCount
  <2>2. CASE namex_miss(p)
    BY <2>2, NamexMissCount
  <2>3. CASE namex_parent(p)
    BY <1>1, <2>3, NamexParentCount
  <2>4. CASE namex_next(p)
    BY <2>4, NamexNextCount
  <2> QED
    BY <1>4, <2>1, <2>2, <2>3, <2>4 DEF Walk
<1>5. ASSUME Cache(p) PROVE Good
  BY <1>1, <1>5, IputLastCount, IputFreeCount, IputDoneCount, IputBackCount DEF Cache
<1>6. ASSUME Linking(p) PROVE Good
  <2>1. CASE link_ip(p)
    BY <2>1, LinkDirCount, LinkCount
  <2>2. CASE link_dp(p)
    BY <2>2, LinkExistsCount, LinkNameCount
  <2>3. CASE link_exists(p) \/ link_end(p) \/ link_bad(p)
    BY <2>3, LinkUnlocksCount, LinkEndCount, LinkBadCount
  <2>4. CASE unlink_dp(p)
    BY <2>4, UnlinkFailsCount, UnlinkFoundCount
  <2>5. CASE unlink_ip(p)
    BY <2>5, UnlinkFullCount, UnlinkNameCount
  <2>6. CASE unlink_bad(p) \/ unlink_end(p)
    BY <2>6, UnlinkBadCount, UnlinkEndCount
  <2> QED
    BY <1>6, <2>1, <2>2, <2>3, <2>4, <2>5, <2>6 DEF Linking
<1>7. ASSUME Opening(p) PROVE Good
  <2>1. CASE open_ip(p)
    BY <2>1, OpenGetsFileCount, OpenGivesCount
  <2>2. CASE chdir_ip(p)
    BY <2>2, ChdirFailsCount, ChdirCount
  <2>3. CASE create_found(p)
    BY <2>3, CreateFoundCount
  <2>4. CASE create_ip(p)
    BY <2>4, CreateOpensCount, CreateGivesCount
  <2>5. CASE create_new(p)
    BY <2>5, CreatePanicsCount, CreateNewCount
  <2>6. CASE create_end(p)
    BY <2>6, CreateEndOpensCount, CreateEndGivesCount
  <2> QED
    BY <1>7, <2>1, <2>2, <2>3, <2>4, <2>5, <2>6 DEF Opening
<1> HIDE DEF Good
<1>8. Good
  BY <1>2, <1>3, <1>4, <1>5, <1>6, <1>7 DEF Step
<1> QED
  BY <1>8 DEF Good

\* So every step of the specification keeps the count.
LEMMA CountNext == CountInv /\ [FSNext]_fsVars => CountInv'
BY CountStutters, StepCounts DEF FSNext

\* Reference counts are the pointers that processes hold, at every step of every call; so
\* they are the open files and current directories when no call is running.
THEOREM ReferencesAreBalanced == FSSpec => []RefsBalance
<1>1. CountInv => RefsBalance
  <2> SUFFICES ASSUME CountInv, \A p \in Procs : pc[p] = "user", NEW i \in Inums
               PROVE  ref[i] = Count({p \in Procs : cwd[p] = i}) + Count({p \in Procs : ofile[p] = i})
    BY DEF RefsBalance
  <2> QED
    BY IdleUsers DEF CountInv, RefInv
<1> QED
  BY <1>1, CountInit, CountNext, PTL DEF FSSpec

-----------------------------------------------------------------------------
(* Links *)

\* There are finitely many inodes.
LEMMA InumsFinite == IsFiniteSet(Inums)
BY FSAssumption, FS_Interval DEF Inums

\* What the links of an inode stand for is a finite set.
LEMMA BundleFinite ==
  ASSUME NEW E, E \subseteq Inums \X Names, NEW D, D \subseteq Names, NEW Q, Q \subseteq Procs, NEW i
  PROVE  IsFiniteSet(Bundle(E, D, Q, i))
<1>1. \A t : IsFiniteSet({t})
  BY FS_Singleton
<1>2. IsFiniteSet(Inums \X Names)
  <2>1. IsFiniteSet(Inums)
    BY InumsFinite
  <2> QED
    BY <2>1, FSAssumption, FS_Product
<1>3. IsFiniteSet(E) /\ IsFiniteSet(D) /\ IsFiniteSet(Q)
  BY <1>2, FSAssumption, FS_Subset
<1>4. IsFiniteSet({ROOTINO} \cap {i})
  BY <1>1, FS_Subset
<1>5. /\ IsFiniteSet({"name"} \X E) /\ IsFiniteSet({"dir"} \X D) /\ IsFiniteSet({"call"} \X Q)
      /\ IsFiniteSet({"root"} \X ({ROOTINO} \cap {i}))
  <2>1. IsFiniteSet({"name"} \X E)
    BY <1>1, <1>3, FS_Product
  <2>2. IsFiniteSet({"dir"} \X D)
    BY <1>1, <1>3, FS_Product
  <2>3. IsFiniteSet({"call"} \X Q)
    BY <1>1, <1>3, FS_Product
  <2>4. IsFiniteSet({"root"} \X ({ROOTINO} \cap {i}))
    BY <1>1, <1>4, FS_Product
  <2> QED
    BY <2>1, <2>2, <2>3, <2>4
<1>6. IsFiniteSet(({"name"} \X E) \cup ({"dir"} \X D))
  BY <1>5, FS_Union
<1>7. IsFiniteSet(({"name"} \X E) \cup ({"dir"} \X D) \cup ({"call"} \X Q))
  BY <1>5, <1>6, FS_Union
<1>8. IsFiniteSet(({"name"} \X E) \cup ({"dir"} \X D) \cup ({"call"} \X Q) \cup ({"root"} \X ({ROOTINO} \cap {i})))
  BY <1>5, <1>7, FS_Union
<1> QED
  BY <1>8 DEF Bundle

\* The same of the links in this state.
LEMMA LinksFinite ==
  ASSUME NEW i
  PROVE  IsFiniteSet(Links(i)) /\ Cardinality(Links(i)) \in Nat
<1>1. Entries(i) \subseteq Inums \X Names /\ Subdirs(i) \subseteq Names /\ CallsOn(i) \subseteq Procs
  BY DEF Entries, Subdirs, CallsOn
<1> QED
  BY <1>1, BundleFinite, FS_CardinalityType DEF Links

\* What counts an inode's links keeps counting them when some go, when one comes, when
\* one goes, and when one is replaced.
LEMMA Fewer ==
  ASSUME NEW S, IsFiniteSet(S), NEW T, T \subseteq S, NEW n \in Int, n >= Cardinality(S),
         NEW m \in Int, m >= n
  PROVE  m >= Cardinality(T)
<1>1. IsFiniteSet(T) /\ Cardinality(T) <= Cardinality(S)
  BY FS_Subset
<1>2. Cardinality(T) \in Nat /\ Cardinality(S) \in Nat
  BY <1>1, FS_CardinalityType
<1> QED
  BY <1>1, <1>2

\* A count that covers a set still covers it when both get one more.
LEMMA OneMore ==
  ASSUME NEW S, IsFiniteSet(S), NEW x, NEW T, T \subseteq S \cup {x}, NEW n \in Int, n >= Cardinality(S),
         NEW m \in Int, m >= n + 1
  PROVE  m >= Cardinality(T)
<1>1. IsFiniteSet(S \cup {x}) /\ Cardinality(S) \in Nat /\ Cardinality(S \cup {x}) <= Cardinality(S) + 1
  <2>1. Cardinality(S) \in Nat
    BY FS_CardinalityType
  <2>2. /\ IsFiniteSet(S \cup {x})
        /\ Cardinality(S \cup {x}) = IF x \in S THEN Cardinality(S) ELSE Cardinality(S) + 1
    BY FS_AddElement
  <2> QED
    BY <2>1, <2>2
<1>2. Cardinality(S \cup {x}) \in Nat
  BY <1>1, FS_CardinalityType
<1>3. n + 1 >= Cardinality(S \cup {x})
  BY <1>1, <1>2
<1> QED
  BY <1>1, <1>3, Fewer

\* A count that covers a set still covers it when both lose one.
LEMMA OneLess ==
  ASSUME NEW S, IsFiniteSet(S), NEW x \in S, NEW T, T \subseteq S \ {x}, NEW n \in Int, n >= Cardinality(S),
         NEW m \in Int, m >= n - 1
  PROVE  m >= Cardinality(T)
<1>1. IsFiniteSet(S \ {x}) /\ Cardinality(S) \in Nat /\ Cardinality(S \ {x}) = Cardinality(S) - 1
  BY FS_RemoveElement, FS_CardinalityType
<1>2. n - 1 >= Cardinality(S \ {x})
  BY <1>1
<1> QED
  BY <1>1, <1>2, Fewer

\* A count that covers a set still covers it when one element takes the place of another.
LEMMA OneForAnother ==
  ASSUME NEW S, IsFiniteSet(S), NEW x \in S, NEW y, NEW T, T \subseteq (S \ {x}) \cup {y},
         NEW n \in Int, n >= Cardinality(S), NEW m \in Int, m >= n
  PROVE  m >= Cardinality(T)
<1>1. IsFiniteSet(S \ {x}) /\ n - 1 >= Cardinality(S \ {x}) /\ n - 1 \in Int /\ m >= (n - 1) + 1
  <2>1. IsFiniteSet(S \ {x})
    BY FS_RemoveElement
  <2> QED
    BY <2>1, OneLess
<1> QED
  BY <1>1, OneMore

\* The calls on an inode, where only p moves.
LEMMA CallsOnStep ==
  ASSUME NEW p \in Procs, Local(p), NEW i
  PROVE  /\ CallsOn(i)' \ {p} = CallsOn(i) \ {p}
         /\ p \in CallsOn(i) <=> Pending(p) /\ Points(p, "ip") = i
         /\ p \in CallsOn(i)' <=> Pending(p)' /\ Points(p, "ip")' = i
         /\ CallsOn(i) \subseteq Procs /\ CallsOn(i)' \subseteq Procs
<1>1. ASSUME NEW q \in Procs, q # p
      PROVE  (Pending(q)' <=> Pending(q)) /\ Points(q, "ip")' = Points(q, "ip")
  <2>1. At(q)' = At(q) /\ Points(q, "ip")' = Points(q, "ip")
    BY <1>1, OthersPoint DEF Slots
  <2> QED
    BY <2>1 DEF Pending
<1> QED
  BY <1>1 DEF CallsOn

\* What is named has links, and what has links is allocated.
LEMMA LinkedIsAlive ==
  ASSUME FSTypeOK, DotInv, LinkInv, NEW i \in Inums, Links(i) # {}
  PROVE  dinode[i].nlink >= 1 /\ dinode[i].type # "none"
<1>1. IsFiniteSet(Links(i)) /\ Cardinality(Links(i)) \in Nat
  BY LinksFinite
<1>2. Cardinality(Links(i)) # 0
  BY <1>1, FS_EmptySet
<1>3. dinode[i].nlink \in Int
  BY InodeFields DEF FSTypeOK, DiskTypeOK
<1>4. dinode[i].nlink >= 1
  BY <1>1, <1>2, <1>3 DEF LinkInv
<1>5. dinode[i] # Free
  BY <1>4 DEF Free
<1> QED
  BY <1>4, <1>5 DEF DotInv

\* A name is one of the links of its inode, and the name of a directory one of its parent's.
LEMMA NamedIsLinked ==
  ASSUME NEW d \in Inums, NEW n \in Names
  PROVE  /\ <<"name", <<d, n>>>> \in Links(Lookup(d, n))
         /\ Lookup(d, n) # NoInode /\ dinode[Lookup(d, n)].type = "dir" => <<"dir", n>> \in Links(d)
<1>1. <<d, n>> \in Entries(Lookup(d, n))
  BY DEF Entries
<1>2. Lookup(d, n) # NoInode /\ dinode[Lookup(d, n)].type = "dir" => n \in Subdirs(d)
  BY DEF Subdirs
<1> QED
  BY <1>1, <1>2 DEF Links, Bundle

\* What a name leads to is allocated, .. included if the directory has a name in it.
LEMMA LookupIsAlive ==
  ASSUME FSTypeOK, DotInv, LinkInv, NEW p \in Procs, ~Strays(p), NEW n \in AllNames,
         n = ".." => Asked(p) = "..", dp[p] \in Inums,
         dinode[dp[p]].type = "dir", Lookup(dp[p], n) # NoInode
  PROVE  Lookup(dp[p], n) \in Inums /\ dinode[Lookup(dp[p], n)].type # "none"
<1>1. \A d \in Inums, m \in AllNames : Lookup(d, m) \in Inums \cup {NoInode}
  BY FSTypes
<1>2. CASE n = "."
  BY <1>1, <1>2 DEF DotInv
<1>3. CASE n \in Names
  <2>1. Links(Lookup(dp[p], n)) # {}
    BY <1>3, NamedIsLinked
  <2> QED
    BY <1>1, <2>1, LinkedIsAlive
<1>4. CASE n = ".."
  <2>1. Lookup(dp[p], n) = dp[p] \/ \E m \in Names : Lookup(Lookup(dp[p], n), m) = dp[p]
    BY <1>4 DEF Strays
  <2>2. ASSUME NEW m \in Names, Lookup(Lookup(dp[p], n), m) = dp[p]
        PROVE  dinode[Lookup(dp[p], n)].type # "none"
    <3>1. m \in AllNames /\ dp[p] # NoInode
      BY NullIsNone DEF AllNames
    <3>2. Free.ents[m] = NoInode
      BY <3>1 DEF Free, NoEntries
    <3> QED
      BY <1>1, <2>2, <3>1, <3>2 DEF DotInv, Lookup
  <2> QED
    BY <1>1, <2>1, <2>2
<1> QED
  BY <1>1, <1>2, <1>3, <1>4 DEF AllNames

-----------------------------------------------------------------------------
(* What a step of one process leaves to the others *)

\* Only p takes and gives back locks.
LocksOnly(p) ==
  \A i \in Inums : lock'[i] # lock[i] => lock[i] \in {p, NoOne} /\ lock'[i] \in {p, NoOne}

\* The inodes of the others keep their types, and a directory in which one of them
\* unlinks keeps its entries.
SparesOthers(p) ==
  \A q \in Procs \ {p} :
    /\ \A k \in Slots : Points(q, k) # NoInode /\ ~Freed(q, k) =>
                          dinode'[Points(q, k)].type = dinode[Points(q, k)].type
    /\ At(q) = "unlink_ip" => dinode'[Points(q, "dp")].ents = dinode[Points(q, "dp")].ents

\* A pointer is an inode or null.
LEMMA PointsTyped ==
  ASSUME FSTypeOK, NEW p \in Procs, NEW k \in Slots
  PROVE  Points(p, k) \in Inums \cup {NoInode}
BY FSTypes DEF Points, Slots

\* Where a pointer is needed it is there.
LEMMA PointsThere ==
  ASSUME FSTypeOK, WalkInv, NEW p \in Procs
  PROVE  /\ Points(p, "cwd") \in Inums
         /\ HoldsDp(p) => Points(p, "dp") \in Inums
         /\ HoldsIp(p) => Points(p, "ip") \in Inums
BY FSTypes DEF Points, WalkInv, WalkOK

\* A step that takes no lock, no inode and no name from the others leaves their calls as they are.
LEMMA OthersCall ==
  ASSUME CountInv, CallInv, NEW p \in Procs, Local(p), LocksOnly(p), SparesOthers(p),
         NEW q \in Procs, q # p
  PROVE  CallOK(q)'
<1>1. /\ At(q)' = At(q)
      /\ \A k \in Slots : Points(q, k)' = Points(q, k)
  BY OthersPoint
<1>2. CallOK(q)
  BY DEF CallInv
<1>3. q # NoOne /\ p # NoOne
  BY FSAssumption DEF NoOne
<1>4. LockOK(q)'
  <2> SUFFICES ASSUME NEW i \in Inums
               PROVE  lock'[i] = q <=> \/ LocksDp(q) /\ Points(q, "dp") = i
                                       \/ LocksIp(q) /\ Points(q, "ip") = i
                                       \/ LocksPut(q) /\ Points(q, "put") = i
    BY <1>1 DEF LockOK, LocksDp, LocksIp, LocksPut, Slots, Local
  <2>1. lock'[i] = q <=> lock[i] = q
    BY <1>3 DEF LocksOnly
  <2> QED
    BY <1>2, <2>1 DEF CallOK, LockOK
<1>6. \A k \in Slots : Points(q, k) # NoInode /\ ~Freed(q, k) =>
                         dinode'[Points(q, k)].type = dinode[Points(q, k)].type
  BY DEF SparesOthers
<1>7. AliveOK(q)'
  <2> SUFFICES ASSUME NEW k \in Slots, Points(q, k)' # NoInode, ~Freed(q, k)'
               PROVE  dinode'[Points(q, k)'].type # "none"
    BY DEF AliveOK
  <2>1. Points(q, k)' = Points(q, k) /\ Points(q, k) # NoInode /\ ~Freed(q, k)
    BY <1>1 DEF Freed, Local
  <2> QED
    BY <1>2, <1>6, <2>1 DEF CallOK, AliveOK
<1>8. KindOK(q)'
  <2>1. /\ Points(q, "cwd") \in Inums
        /\ At(q) \in ParentCalls \cup {"link_exists", "unlink_ip", "unlink_bad"} => Points(q, "dp") \in Inums
        /\ Points(q, "ip") \in Inums \cup {NoInode}
    BY PointsThere, PointsTyped DEF CountInv, HoldsDp, Slots
  <2>2. /\ dinode'[Points(q, "cwd")].type = dinode[Points(q, "cwd")].type
        /\ At(q) \in ParentCalls \cup {"link_exists", "unlink_ip", "unlink_bad"} =>
             dinode'[Points(q, "dp")].type = dinode[Points(q, "dp")].type
        /\ Points(q, "ip") # NoInode => dinode'[Points(q, "ip")].type = dinode[Points(q, "ip")].type
    BY <1>6, <2>1, NullIsNone DEF Slots, Freed
  <2>3. At(q) = "unlink_ip" => \A n : Lookup(Points(q, "dp"), n)' = Lookup(Points(q, "dp"), n)
    BY <1>1 DEF SparesOthers, Lookup, Slots
  <2>4. name'[q] = name[q]
    BY DEF Local
  <2>5. /\ Points(q, "cwd")' = Points(q, "cwd") /\ Points(q, "dp")' = Points(q, "dp")
        /\ Points(q, "ip")' = Points(q, "ip")
    BY <1>1 DEF Slots
  <2>6. KindOK(q)
    BY <1>2 DEF CallOK
  <2>7. dinode'[Points(q, "cwd")'].type = "dir"
    BY <2>2, <2>5, <2>6 DEF KindOK
  <2>8. At(q)' \in ParentCalls \cup {"link_exists", "unlink_ip", "unlink_bad"} =>
          dinode'[Points(q, "dp")'].type = "dir"
    BY <1>1, <2>2, <2>5, <2>6 DEF KindOK
  <2>9. At(q)' \in {"namex", "link_dp", "link_exists", "link_end", "link_bad"} /\ Points(q, "ip")' # NoInode =>
          dinode'[Points(q, "ip")'].type # "dir"
    BY <1>1, <2>2, <2>5, <2>6 DEF KindOK
  <2>10. At(q)' = "unlink_ip" =>
           name'[q] \in Names /\ Lookup(Points(q, "dp"), name[q])' = Points(q, "ip")'
    BY <1>1, <2>3, <2>4, <2>5, <2>6 DEF KindOK, Lookup
  <2> QED
    BY <2>7, <2>8, <2>9, <2>10 DEF KindOK
<1> QED
  BY <1>4, <1>7, <1>8 DEF CallOK

\* A step of p has to show CallOK of p only.
LEMMA CallStep ==
  ASSUME CountInv, CallInv, NEW p \in Procs, Local(p), LocksOnly(p), SparesOthers(p), CallOK(p)'
  PROVE  CallInv'
BY OthersCall DEF CallInv

\* A step that does not write to the disk.
LEMMA QuietStep ==
  ASSUME CountInv, CallInv, DotInv, LinkInv, NEW p \in Procs, Local(p), LocksOnly(p), dinode' = dinode,
         CallOK(p)', Pending(p)' => Pending(p) /\ Points(p, "ip")' = Points(p, "ip")
  PROVE  CallInv' /\ DotInv' /\ LinkInv'
<1>1. CallInv'
  BY CallStep DEF SparesOthers
<1>2. DotInv'
  BY DEF DotInv, Lookup
<1>3. ASSUME NEW i \in Inums PROVE dinode'[i].nlink >= Cardinality(Links(i)')
  <2>1. CallsOn(i)' \subseteq CallsOn(i)
    BY CallsOnStep
  <2>2. Entries(i)' = Entries(i) /\ Subdirs(i)' = Subdirs(i)
    BY DEF Entries, Subdirs, Lookup
  <2>3. Links(i)' \subseteq Links(i)
    BY <2>1, <2>2 DEF Links, Bundle
  <2>4. dinode[i].nlink \in Int /\ dinode[i].nlink >= Cardinality(Links(i))
    BY InodeFields DEF CountInv, FSTypeOK, DiskTypeOK, LinkInv
  <2> QED
    BY <2>3, <2>4, LinksFinite, Fewer
<1>4. dinode'[ROOTINO].type = "dir"
  BY DEF LinkInv
<1> QED
  BY <1>1, <1>2, <1>3, <1>4 DEF LinkInv

\* The pointers of p are to allocated inodes.
LEMMA AliveNow ==
  ASSUME CallInv, NEW p \in Procs, NEW a, NEW c, NEW o, NEW d, NEW i, NEW u, Stands(p, a, c, o, d, i, u)
  PROVE  /\ c # NoInode => dinode[c].type # "none"
         /\ o # NoInode => dinode[o].type # "none"
         /\ d # NoInode => dinode[d].type # "none"
         /\ i # NoInode => dinode[i].type # "none"
         /\ u # NoInode /\ pc[p] # "iput_ref" => dinode[u].type # "none"
BY DEF CallInv, CallOK, AliveOK, Stands, Slots, Freed

\* The pointers after a step lead to allocated inodes when each of them does.
LEMMA AliveThen ==
  ASSUME NEW p \in Procs, NEW a, NEW c, NEW o, NEW d, NEW i, NEW u, StandsThen(p, a, c, o, d, i, u),
         c # NoInode => dinode'[c].type # "none",
         o # NoInode => dinode'[o].type # "none",
         d # NoInode => dinode'[d].type # "none",
         i # NoInode => dinode'[i].type # "none",
         u # NoInode /\ pc'[p] # "iput_ref" => dinode'[u].type # "none"
  PROVE  AliveOK(p)'
BY DEF AliveOK, StandsThen, Slots, Freed

\* The pointers to an inode are finitely many.
LEMMA UsersFinite == \A i : IsFiniteSet(Users(i))
<1> SUFFICES ASSUME NEW i PROVE IsFiniteSet(Users(i))
  OBVIOUS
<1>1. IsFiniteSet(Slots)
  BY SlotsFinite
<1>2. IsFiniteSet(Procs \X Slots)
  BY <1>1, FS_Product, FSAssumption
<1>3. Users(i) \subseteq Procs \X Slots
  BY DEF Users
<1> QED
  BY <1>2, <1>3, FS_Subset

\* ilock does not panic at an inode that a call points to: it is allocated and referenced.
LEMMA LoadsSafely ==
  ASSUME CountInv, CallInv, PanicInv, NEW p \in Procs, NEW k \in {"dp", "ip"},
         NEW x \in Inums, Points(p, k) = x, loads(x)
  PROVE  PanicInv'
<1>1. k \in Slots /\ ~Freed(p, k) /\ x # NoInode
  BY NullIsNone DEF Slots, Freed
<1>2. dinode[x].type # "none"
  BY <1>1 DEF CallInv, CallOK, AliveOK
<1>3. <<p, k>> \in Users(x) /\ IsFiniteSet(Users(x))
  BY <1>1, UsersFinite DEF Users
<1>4. ref[x] = Cardinality(Users(x)) /\ Cardinality(Users(x)) \in Nat /\ Cardinality(Users(x)) # 0
  BY <1>3, FS_CardinalityType, FS_EmptySet DEF CountInv, RefInv
<1>5. ~(ref[x] < 1)
  BY <1>4
<1> QED
  BY <1>2, <1>5 DEF loads, PanicInv

\* namex at the end of a path whose parent was asked for: the last directory is put back.
\* The rest of FSInv is kept.
LEMMA NamexEndParentKeeps ==
  ASSUME FSInv, NEW p \in Procs, namex_end(p), parent[p]
  PROVE  CallInv' /\ DotInv' /\ LinkInv' /\ PanicInv'
<1> USE DEF FSInv, CountInv, FSTypeOK
<1>1. /\ CountInv' /\ Moves(p)
      /\ Stands(p, "namex", cwd[p], ofile[p], dp[p], IF Linking2(p) THEN ip[p] ELSE NoInode, NoInode)
      /\ StandsThen(p, Failed(p), cwd[p], ofile[p], NoInode, IF Linking2(p) THEN ip[p] ELSE NoInode, dp[p])
      /\ pc'[p] = "iput" /\ rest'[p] = rest[p] /\ name'[p] = name[p] /\ new'[p] = new[p]
  BY NamexEndParentCount
<1>2. Local(p) /\ CallOK(p)
  BY <1>1, MovesLocal DEF CallInv
<1>3. Failed(p) \in {"link_bad", "user"} /\ (Failed(p) = "link_bad" <=> Linking2(p))
  BY DEF Failed, Linking2, At, namex_end
<1>4. dp[p] \in Inums
  BY <1>1, FSTypes DEF WalkInv, WalkOK, namex_end, HoldsDp, HoldsIp, HoldsPut, At, ParentCalls, PathCalls
<1>5. dinode' = dinode /\ lock' = lock
  BY <1>1, <1>3, <1>4 DEF namex_end, loads, iget, iput, goto, done, diskVars, callVars, namex
<1>6. LockOK(p)' /\ LocksOnly(p)
  BY NullIsNone, <1>1, <1>2, <1>5, <1>3, <1>4 DEF CallOK, LockOK, LocksOnly, LocksDp, LocksIp, LocksPut, Stands, StandsThen, ParentCalls, PathCalls
<1>7. AliveOK(p)'
  BY <1>1, <1>5, AliveNow, AliveThen, <1>3, <1>4
<1>8. KindOK(p)'
  BY <1>1, <1>2, <1>5, <1>3, <1>4 DEF CallOK, KindOK, Stands, StandsThen, ParentCalls, PathCalls
<1>10. PanicInv'
  BY <1>1, <1>3, <1>4 DEF namex_end, PanicInv
<1>11. Pending(p)' => Pending(p) /\ Points(p, "ip")' = Points(p, "ip")
  BY <1>1, <1>3, <1>4 DEF Pending, Stands, StandsThen, ParentCalls, PathCalls
<1> QED
  BY <1>2, <1>5, <1>6, <1>7, <1>8, <1>10, <1>11, QuietStep DEF CallOK

\* namex at the end of a path: the inode reached is the one the call wanted.
\* The rest of FSInv is kept.
LEMMA NamexEndFoundKeeps ==
  ASSUME FSInv, NEW p \in Procs, namex_end(p), ~parent[p]
  PROVE  CallInv' /\ DotInv' /\ LinkInv' /\ PanicInv'
<1> USE DEF FSInv, CountInv, FSTypeOK
<1>1. /\ CountInv' /\ Moves(p)
      /\ Stands(p, "namex", cwd[p], ofile[p], dp[p], NoInode, NoInode)
      /\ StandsThen(p, ret[p], cwd[p], ofile[p], NoInode, dp[p], NoInode)
      /\ pc'[p] = ret[p] /\ rest'[p] = rest[p] /\ name'[p] = name[p] /\ new'[p] = new[p]
  BY NamexEndFoundCount
<1>2. Local(p) /\ CallOK(p)
  BY <1>1, MovesLocal DEF CallInv
<1>3. ret[p] \in PathCalls
  BY DEF WalkInv, WalkOK, namex_end, At
<1>4. dp[p] \in Inums
  BY <1>1, FSTypes DEF WalkInv, WalkOK, namex_end, HoldsDp, HoldsIp, HoldsPut, At, ParentCalls, PathCalls
<1>5. dinode' = dinode /\ lock' = lock
  BY <1>1, <1>3, <1>4 DEF namex_end, loads, iget, iput, goto, done, diskVars, callVars, namex
<1>6. LockOK(p)' /\ LocksOnly(p)
  BY NullIsNone, <1>1, <1>2, <1>5, <1>3, <1>4 DEF CallOK, LockOK, LocksOnly, LocksDp, LocksIp, LocksPut, Stands, StandsThen, ParentCalls, PathCalls
<1>7. AliveOK(p)'
  BY <1>1, <1>5, AliveNow, AliveThen, <1>3, <1>4
<1>8. KindOK(p)'
  BY <1>1, <1>2, <1>5, <1>3, <1>4 DEF CallOK, KindOK, Stands, StandsThen, ParentCalls, PathCalls
<1>10. PanicInv'
  BY <1>1, <1>3, <1>4 DEF namex_end, PanicInv
<1>11. Pending(p)' => Pending(p) /\ Points(p, "ip")' = Points(p, "ip")
  BY <1>1, <1>3, <1>4 DEF Pending, Stands, StandsThen, ParentCalls, PathCalls
<1> QED
  BY <1>2, <1>5, <1>6, <1>7, <1>8, <1>10, <1>11, QuietStep DEF CallOK

\* namex at an inode that is no directory, or that has no such name. The rest of FSInv is kept.
LEMMA NamexMissKeeps ==
  ASSUME FSInv, NEW p \in Procs, namex_miss(p)
  PROVE  CallInv' /\ DotInv' /\ LinkInv' /\ PanicInv'
<1> USE DEF FSInv, CountInv, FSTypeOK
<1>1. /\ CountInv' /\ Moves(p)
      /\ Stands(p, "namex", cwd[p], ofile[p], dp[p], IF Linking2(p) THEN ip[p] ELSE NoInode, NoInode)
      /\ StandsThen(p, Failed(p), cwd[p], ofile[p], NoInode, IF Linking2(p) THEN ip[p] ELSE NoInode, dp[p])
      /\ pc'[p] = "iput" /\ rest'[p] = rest[p] /\ name'[p] = name[p] /\ new'[p] = new[p]
  BY NamexMissCount
<1>2. Local(p) /\ CallOK(p)
  BY <1>1, MovesLocal DEF CallInv
<1>3. Failed(p) \in {"link_bad", "user"} /\ (Failed(p) = "link_bad" <=> Linking2(p))
  BY DEF Failed, Linking2, At, namex_miss
<1>4. dp[p] \in Inums
  BY <1>1, FSTypes DEF WalkInv, WalkOK, namex_miss, HoldsDp, HoldsIp, HoldsPut, At, ParentCalls, PathCalls
<1>5. dinode' = dinode /\ lock' = lock
  BY <1>1, <1>3, <1>4 DEF namex_miss, loads, iget, iput, goto, done, diskVars, callVars, namex
<1>6. LockOK(p)' /\ LocksOnly(p)
  BY NullIsNone, <1>1, <1>2, <1>5, <1>3, <1>4 DEF CallOK, LockOK, LocksOnly, LocksDp, LocksIp, LocksPut, Stands, StandsThen, ParentCalls, PathCalls
<1>7. AliveOK(p)'
  BY <1>1, <1>5, AliveNow, AliveThen, <1>3, <1>4
<1>8. KindOK(p)'
  BY <1>1, <1>2, <1>5, <1>3, <1>4 DEF CallOK, KindOK, Stands, StandsThen, ParentCalls, PathCalls
<1>10. PanicInv'
  <2>1. Points(p, "dp") = dp[p]
    BY <1>1 DEF Stands
  <2>2. loads(dp[p])
    BY DEF namex_miss
  <2> QED
    BY <2>1, <2>2, <1>3, <1>4, LoadsSafely
<1>11. Pending(p)' => Pending(p) /\ Points(p, "ip")' = Points(p, "ip")
  BY <1>1, <1>3, <1>4 DEF Pending, Stands, StandsThen, ParentCalls, PathCalls
<1> QED
  BY <1>2, <1>5, <1>6, <1>7, <1>8, <1>10, <1>11, QuietStep DEF CallOK

\* namex one name before the end: the directory, unlocked, is the parent.
\* The rest of FSInv is kept.
LEMMA NamexParentKeeps ==
  ASSUME FSInv, NEW p \in Procs, namex_parent(p)
  PROVE  CallInv' /\ DotInv' /\ LinkInv' /\ PanicInv'
<1> USE DEF FSInv, CountInv, FSTypeOK
<1>1. /\ CountInv' /\ Moves(p)
      /\ Stands(p, "namex", cwd[p], ofile[p], dp[p], IF Linking2(p) THEN ip[p] ELSE NoInode, NoInode)
      /\ StandsThen(p, ret[p], cwd[p], ofile[p], dp[p], IF Linking2(p) THEN ip[p] ELSE NoInode, NoInode)
      /\ pc'[p] = ret[p] /\ rest'[p] = rest[p] /\ name'[p] = Head(rest[p]) /\ new'[p] = new[p]
  BY NamexParentCount
<1>2. Local(p) /\ CallOK(p)
  BY <1>1, MovesLocal DEF CallInv
<1>3. ret[p] \in ParentCalls /\ (ret[p] = "link_dp" <=> Linking2(p)) /\ dinode[dp[p]].type = "dir"
  BY DEF WalkInv, WalkOK, namex_parent, At, Linking2
<1>4. dp[p] \in Inums
  BY <1>1, FSTypes DEF WalkInv, WalkOK, namex_parent, HoldsDp, HoldsIp, HoldsPut, At, ParentCalls, PathCalls
<1>5. Head(rest[p]) \in AllNames
  BY FSTypes, FirstName DEF namex_parent
<1>6. dinode' = dinode /\ lock' = lock
  BY <1>1, <1>3, <1>4, <1>5 DEF namex_parent, loads, iget, iput, goto, done, diskVars, callVars, namex
<1>7. LockOK(p)' /\ LocksOnly(p)
  BY NullIsNone, <1>1, <1>2, <1>6, <1>3, <1>4, <1>5 DEF CallOK, LockOK, LocksOnly, LocksDp, LocksIp, LocksPut, Stands, StandsThen, ParentCalls, PathCalls
<1>8. AliveOK(p)'
  BY <1>1, <1>6, AliveNow, AliveThen, <1>3, <1>4, <1>5
<1>9. KindOK(p)'
  BY <1>1, <1>2, <1>6, <1>3, <1>4, <1>5 DEF CallOK, KindOK, Stands, StandsThen, ParentCalls, PathCalls
<1>11. PanicInv'
  <2>1. Points(p, "dp") = dp[p]
    BY <1>1 DEF Stands
  <2>2. loads(dp[p])
    BY DEF namex_parent
  <2> QED
    BY <2>1, <2>2, <1>3, <1>4, <1>5, LoadsSafely
<1>12. Pending(p)' => Pending(p) /\ Points(p, "ip")' = Points(p, "ip")
  BY <1>1, <1>3, <1>4, <1>5 DEF Pending, Stands, StandsThen, ParentCalls, PathCalls
<1> QED
  BY <1>2, <1>6, <1>7, <1>8, <1>9, <1>11, <1>12, QuietStep DEF CallOK

\* namex one name further: the next inode is taken before this one is put back.
\* The rest of FSInv is kept.
LEMMA NamexNextKeeps ==
  ASSUME FSInv, NEW p \in Procs, ~Strays(p), namex_next(p)
  PROVE  CallInv' /\ DotInv' /\ LinkInv' /\ PanicInv'
<1> USE DEF FSInv, CountInv, FSTypeOK
<1>1. /\ CountInv' /\ Moves(p)
      /\ Stands(p, "namex", cwd[p], ofile[p], dp[p], IF Linking2(p) THEN ip[p] ELSE NoInode, NoInode)
      /\ StandsThen(p, "namex", cwd[p], ofile[p], NextInode(p), IF Linking2(p) THEN ip[p] ELSE NoInode, dp[p])
      /\ pc'[p] = "iput" /\ rest'[p] = Tail(rest[p]) /\ name'[p] = name[p] /\ new'[p] = new[p]
  BY NamexNextCount
<1>2. Local(p) /\ CallOK(p)
  BY <1>1, MovesLocal DEF CallInv
<1>3. dp[p] \in Inums /\ dinode[dp[p]].type = "dir"
  BY <1>1, FSTypes DEF WalkInv, WalkOK, namex_next, HoldsDp, HoldsIp, HoldsPut, At, ParentCalls, PathCalls
<1>4. Head(rest[p]) \in AllNames /\ Asked(p) = Head(rest[p])
  <2>1. rest[p] \in Seq(AllNames) /\ rest[p] # <<>> /\ parent[p] \in BOOLEAN
    BY FSTypes DEF namex_next
  <2>2. Len(rest[p]) > (IF parent[p] THEN 1 ELSE 0)
    BY <2>1, MoreNames DEF namex_next
  <2> QED
    BY <2>1, <2>2, FirstName DEF Asked, namex_next
<1>5. NextInode(p) \in Inums /\ dinode[NextInode(p)].type # "none"
  BY <1>3, <1>4, LookupIsAlive DEF NextInode, namex_next
<1>6. dinode' = dinode /\ lock' = lock
  BY <1>1, <1>3, <1>4, <1>5 DEF namex_next, loads, iget, iput, goto, done, diskVars, callVars, namex, NextInode
<1>7. LockOK(p)' /\ LocksOnly(p)
  BY NullIsNone, <1>1, <1>2, <1>6, <1>3, <1>4, <1>5 DEF CallOK, LockOK, LocksOnly, LocksDp, LocksIp, LocksPut, Stands, StandsThen, ParentCalls, PathCalls
<1>8. AliveOK(p)'
  BY <1>1, <1>6, AliveNow, AliveThen, <1>3, <1>4, <1>5
<1>9. KindOK(p)'
  BY <1>1, <1>2, <1>6, <1>3, <1>4, <1>5 DEF CallOK, KindOK, Stands, StandsThen, ParentCalls, PathCalls
<1>11. PanicInv'
  <2>1. Points(p, "dp") = dp[p]
    BY <1>1 DEF Stands
  <2>2. loads(dp[p])
    BY DEF namex_next
  <2> QED
    BY <2>1, <2>2, <1>3, <1>4, <1>5, LoadsSafely
<1>12. Pending(p)' => Pending(p) /\ Points(p, "ip")' = Points(p, "ip")
  BY <1>1, <1>3, <1>4, <1>5 DEF Pending, Stands, StandsThen, ParentCalls, PathCalls
<1> QED
  BY <1>2, <1>6, <1>7, <1>8, <1>9, <1>11, <1>12, QuietStep DEF CallOK

\* The start of a call, at the root or at the current directory. The rest of FSInv is kept.
LEMMA BeginKeeps ==
  ASSUME FSInv, NEW p \in Procs, NEW call \in Calls, NEW path \in Paths, NEW path2 \in Paths, begin(p, call, path, path2)
  PROVE  CallInv' /\ DotInv' /\ LinkInv' /\ PanicInv'
<1> USE DEF FSInv, CountInv, FSTypeOK
<1>1. /\ CountInv' /\ Moves(p)
      /\ Stands(p, "user", cwd[p], ofile[p], NoInode, NoInode, NoInode)
      /\ StandsThen(p, "namex", cwd[p], ofile[p], Start(p, path), NoInode, NoInode)
      /\ pc'[p] = "namex" /\ rest'[p] = path[2] /\ name'[p] = name[p] /\ new'[p] = (IF call = "link" THEN path2 ELSE <<FALSE, <<>>>>)
  BY BeginCount
<1>2. Local(p) /\ CallOK(p)
  BY <1>1, MovesLocal DEF CallInv
<1>3. Start(p, path) \in Inums /\ dinode[Start(p, path)].type # "none"
  BY <1>1, FSTypes, NullIsNone, AliveNow DEF Start, LinkInv
<1>5. dinode' = dinode /\ lock' = lock
  BY <1>1, <1>3 DEF begin, loads, iget, iput, goto, done, diskVars, callVars, namex, Start
<1>6. LockOK(p)' /\ LocksOnly(p)
  BY NullIsNone, <1>1, <1>2, <1>5, <1>3 DEF CallOK, LockOK, LocksOnly, LocksDp, LocksIp, LocksPut, Stands, StandsThen, ParentCalls, PathCalls
<1>7. AliveOK(p)'
  BY <1>1, <1>5, AliveNow, AliveThen, <1>3
<1>8. KindOK(p)'
  BY <1>1, <1>2, <1>5, <1>3 DEF CallOK, KindOK, Stands, StandsThen, ParentCalls, PathCalls
<1>10. PanicInv'
  BY <1>1, <1>3 DEF begin, PanicInv
<1>11. Pending(p)' => Pending(p) /\ Points(p, "ip")' = Points(p, "ip")
  BY <1>1, <1>3 DEF Pending, Stands, StandsThen, ParentCalls, PathCalls
<1> QED
  BY <1>2, <1>5, <1>6, <1>7, <1>8, <1>10, <1>11, QuietStep DEF CallOK

\* close hands the reference of the descriptor to iput. The rest of FSInv is kept.
LEMMA CloseKeeps ==
  ASSUME FSInv, NEW p \in Procs, close(p)
  PROVE  CallInv' /\ DotInv' /\ LinkInv' /\ PanicInv'
<1> USE DEF FSInv, CountInv, FSTypeOK
<1>1. /\ CountInv' /\ Moves(p)
      /\ Stands(p, "user", cwd[p], ofile[p], NoInode, NoInode, NoInode)
      /\ StandsThen(p, "user", cwd[p], NoInode, NoInode, NoInode, ofile[p])
      /\ pc'[p] = "iput" /\ rest'[p] = rest[p] /\ name'[p] = name[p] /\ new'[p] = new[p]
  BY CloseCount
<1>2. Local(p) /\ CallOK(p)
  BY <1>1, MovesLocal DEF CallInv
<1>3. ofile[p] \in Inums
  BY FSTypes DEF close
<1>4. dinode' = dinode /\ lock' = lock
  BY <1>1, <1>3 DEF close, loads, iget, iput, goto, done, diskVars, callVars, namex
<1>5. LockOK(p)' /\ LocksOnly(p)
  BY NullIsNone, <1>1, <1>2, <1>4, <1>3 DEF CallOK, LockOK, LocksOnly, LocksDp, LocksIp, LocksPut, Stands, StandsThen, ParentCalls, PathCalls
<1>6. AliveOK(p)'
  BY <1>1, <1>4, AliveNow, AliveThen, <1>3
<1>7. KindOK(p)'
  BY <1>1, <1>2, <1>4, <1>3 DEF CallOK, KindOK, Stands, StandsThen, ParentCalls, PathCalls
<1>9. PanicInv'
  BY <1>1, <1>3 DEF close, PanicInv
<1>10. Pending(p)' => Pending(p) /\ Points(p, "ip")' = Points(p, "ip")
  BY <1>1, <1>3 DEF Pending, Stands, StandsThen, ParentCalls, PathCalls
<1> QED
  BY <1>2, <1>4, <1>5, <1>6, <1>7, <1>9, <1>10, QuietStep DEF CallOK

\* open that succeeds hands its reference to the descriptor. The rest of FSInv is kept.
LEMMA OpenGetsFileKeeps ==
  ASSUME FSInv, NEW p \in Procs, open_ip(p), done(p)
  PROVE  CallInv' /\ DotInv' /\ LinkInv' /\ PanicInv'
<1> USE DEF FSInv, CountInv, FSTypeOK
<1>1. /\ CountInv' /\ Moves(p)
      /\ Stands(p, "open_ip", cwd[p], NoInode, NoInode, ip[p], NoInode)
      /\ StandsThen(p, "user", cwd[p], ip[p], NoInode, NoInode, NoInode)
      /\ pc'[p] = "user" /\ rest'[p] = <<>> /\ name'[p] = "." /\ new'[p] = <<FALSE, <<>>>>
  BY OpenGetsFileCount
<1>2. Local(p) /\ CallOK(p)
  BY <1>1, MovesLocal DEF CallInv
<1>3. ip[p] \in Inums
  BY <1>1, FSTypes DEF WalkInv, WalkOK, open_ip, HoldsDp, HoldsIp, HoldsPut, At, ParentCalls, PathCalls
<1>4. dinode' = dinode /\ lock' = lock
  BY <1>1, <1>3 DEF open_ip, loads, iget, iput, goto, done, diskVars, callVars, namex
<1>5. LockOK(p)' /\ LocksOnly(p)
  BY NullIsNone, <1>1, <1>2, <1>4, <1>3 DEF CallOK, LockOK, LocksOnly, LocksDp, LocksIp, LocksPut, Stands, StandsThen, ParentCalls, PathCalls
<1>6. AliveOK(p)'
  BY <1>1, <1>4, AliveNow, AliveThen, <1>3
<1>7. KindOK(p)'
  BY <1>1, <1>2, <1>4, <1>3 DEF CallOK, KindOK, Stands, StandsThen, ParentCalls, PathCalls
<1>9. PanicInv'
  <2>1. Points(p, "ip") = ip[p]
    BY <1>1 DEF Stands
  <2>2. loads(ip[p])
    BY DEF open_ip
  <2> QED
    BY <2>1, <2>2, <1>3, LoadsSafely
<1>10. Pending(p)' => Pending(p) /\ Points(p, "ip")' = Points(p, "ip")
  BY <1>1, <1>3 DEF Pending, Stands, StandsThen, ParentCalls, PathCalls
<1> QED
  BY <1>2, <1>4, <1>5, <1>6, <1>7, <1>9, <1>10, QuietStep DEF CallOK

\* open that fails puts the inode back. The rest of FSInv is kept.
LEMMA OpenGivesKeeps ==
  ASSUME FSInv, NEW p \in Procs, open_ip(p), ~done(p)
  PROVE  CallInv' /\ DotInv' /\ LinkInv' /\ PanicInv'
<1> USE DEF FSInv, CountInv, FSTypeOK
<1>1. /\ CountInv' /\ Moves(p)
      /\ Stands(p, "open_ip", cwd[p], ofile[p], NoInode, ip[p], NoInode)
      /\ StandsThen(p, "user", cwd[p], ofile[p], NoInode, NoInode, ip[p])
      /\ pc'[p] = "iput" /\ rest'[p] = rest[p] /\ name'[p] = name[p] /\ new'[p] = new[p]
  BY OpenGivesCount
<1>2. Local(p) /\ CallOK(p)
  BY <1>1, MovesLocal DEF CallInv
<1>3. ip[p] \in Inums
  BY <1>1, FSTypes DEF WalkInv, WalkOK, open_ip, HoldsDp, HoldsIp, HoldsPut, At, ParentCalls, PathCalls
<1>4. dinode' = dinode /\ lock' = lock
  BY <1>1, <1>3 DEF open_ip, loads, iget, iput, goto, done, diskVars, callVars, namex
<1>5. LockOK(p)' /\ LocksOnly(p)
  BY NullIsNone, <1>1, <1>2, <1>4, <1>3 DEF CallOK, LockOK, LocksOnly, LocksDp, LocksIp, LocksPut, Stands, StandsThen, ParentCalls, PathCalls
<1>6. AliveOK(p)'
  BY <1>1, <1>4, AliveNow, AliveThen, <1>3
<1>7. KindOK(p)'
  BY <1>1, <1>2, <1>4, <1>3 DEF CallOK, KindOK, Stands, StandsThen, ParentCalls, PathCalls
<1>9. PanicInv'
  <2>1. Points(p, "ip") = ip[p]
    BY <1>1 DEF Stands
  <2>2. loads(ip[p])
    BY DEF open_ip
  <2> QED
    BY <2>1, <2>2, <1>3, LoadsSafely
<1>10. Pending(p)' => Pending(p) /\ Points(p, "ip")' = Points(p, "ip")
  BY <1>1, <1>3 DEF Pending, Stands, StandsThen, ParentCalls, PathCalls
<1> QED
  BY <1>2, <1>4, <1>5, <1>6, <1>7, <1>9, <1>10, QuietStep DEF CallOK

\* chdir to something else than a directory puts the inode back. The rest of FSInv is kept.
LEMMA ChdirFailsKeeps ==
  ASSUME FSInv, NEW p \in Procs, chdir_ip(p), dinode[ip[p]].type # "dir"
  PROVE  CallInv' /\ DotInv' /\ LinkInv' /\ PanicInv'
<1> USE DEF FSInv, CountInv, FSTypeOK
<1>1. /\ CountInv' /\ Moves(p)
      /\ Stands(p, "chdir_ip", cwd[p], ofile[p], NoInode, ip[p], NoInode)
      /\ StandsThen(p, "user", cwd[p], ofile[p], NoInode, NoInode, ip[p])
      /\ pc'[p] = "iput" /\ rest'[p] = rest[p] /\ name'[p] = name[p] /\ new'[p] = new[p]
  BY ChdirFailsCount
<1>2. Local(p) /\ CallOK(p)
  BY <1>1, MovesLocal DEF CallInv
<1>3. ip[p] \in Inums
  BY <1>1, FSTypes DEF WalkInv, WalkOK, chdir_ip, HoldsDp, HoldsIp, HoldsPut, At, ParentCalls, PathCalls
<1>4. dinode' = dinode /\ lock' = lock
  BY <1>1, <1>3 DEF chdir_ip, loads, iget, iput, goto, done, diskVars, callVars, namex
<1>5. LockOK(p)' /\ LocksOnly(p)
  BY NullIsNone, <1>1, <1>2, <1>4, <1>3 DEF CallOK, LockOK, LocksOnly, LocksDp, LocksIp, LocksPut, Stands, StandsThen, ParentCalls, PathCalls
<1>6. AliveOK(p)'
  BY <1>1, <1>4, AliveNow, AliveThen, <1>3
<1>7. KindOK(p)'
  BY <1>1, <1>2, <1>4, <1>3 DEF CallOK, KindOK, Stands, StandsThen, ParentCalls, PathCalls
<1>9. PanicInv'
  <2>1. Points(p, "ip") = ip[p]
    BY <1>1 DEF Stands
  <2>2. loads(ip[p])
    BY DEF chdir_ip
  <2> QED
    BY <2>1, <2>2, <1>3, LoadsSafely
<1>10. Pending(p)' => Pending(p) /\ Points(p, "ip")' = Points(p, "ip")
  BY <1>1, <1>3 DEF Pending, Stands, StandsThen, ParentCalls, PathCalls
<1> QED
  BY <1>2, <1>4, <1>5, <1>6, <1>7, <1>9, <1>10, QuietStep DEF CallOK

\* chdir hands its reference to the current directory and puts the old one back.
\* The rest of FSInv is kept.
LEMMA ChdirKeeps ==
  ASSUME FSInv, NEW p \in Procs, chdir_ip(p), dinode[ip[p]].type = "dir"
  PROVE  CallInv' /\ DotInv' /\ LinkInv' /\ PanicInv'
<1> USE DEF FSInv, CountInv, FSTypeOK
<1>1. /\ CountInv' /\ Moves(p)
      /\ Stands(p, "chdir_ip", cwd[p], ofile[p], NoInode, ip[p], NoInode)
      /\ StandsThen(p, "user", ip[p], ofile[p], NoInode, NoInode, cwd[p])
      /\ pc'[p] = "iput" /\ rest'[p] = rest[p] /\ name'[p] = name[p] /\ new'[p] = new[p]
  BY ChdirCount
<1>2. Local(p) /\ CallOK(p)
  BY <1>1, MovesLocal DEF CallInv
<1>3. ip[p] \in Inums
  BY <1>1, FSTypes DEF WalkInv, WalkOK, chdir_ip, HoldsDp, HoldsIp, HoldsPut, At, ParentCalls, PathCalls
<1>4. dinode' = dinode /\ lock' = lock
  BY <1>1, <1>3 DEF chdir_ip, loads, iget, iput, goto, done, diskVars, callVars, namex
<1>5. LockOK(p)' /\ LocksOnly(p)
  BY NullIsNone, <1>1, <1>2, <1>4, <1>3 DEF CallOK, LockOK, LocksOnly, LocksDp, LocksIp, LocksPut, Stands, StandsThen, ParentCalls, PathCalls
<1>6. AliveOK(p)'
  BY <1>1, <1>4, AliveNow, AliveThen, <1>3
<1>7. KindOK(p)'
  BY <1>1, <1>2, <1>4, <1>3 DEF CallOK, KindOK, Stands, StandsThen, ParentCalls, PathCalls
<1>9. PanicInv'
  <2>1. Points(p, "ip") = ip[p]
    BY <1>1 DEF Stands
  <2>2. loads(ip[p])
    BY DEF chdir_ip
  <2> QED
    BY <2>1, <2>2, <1>3, LoadsSafely
<1>10. Pending(p)' => Pending(p) /\ Points(p, "ip")' = Points(p, "ip")
  BY <1>1, <1>3 DEF Pending, Stands, StandsThen, ParentCalls, PathCalls
<1> QED
  BY <1>2, <1>4, <1>5, <1>6, <1>7, <1>9, <1>10, QuietStep DEF CallOK

\* link of a directory fails and puts it back. The rest of FSInv is kept.
LEMMA LinkDirKeeps ==
  ASSUME FSInv, NEW p \in Procs, link_ip(p), dinode[ip[p]].type = "dir"
  PROVE  CallInv' /\ DotInv' /\ LinkInv' /\ PanicInv'
<1> USE DEF FSInv, CountInv, FSTypeOK
<1>1. /\ CountInv' /\ Moves(p)
      /\ Stands(p, "link_ip", cwd[p], ofile[p], NoInode, ip[p], NoInode)
      /\ StandsThen(p, "user", cwd[p], ofile[p], NoInode, NoInode, ip[p])
      /\ pc'[p] = "iput" /\ rest'[p] = rest[p] /\ name'[p] = name[p] /\ new'[p] = new[p]
  BY LinkDirCount
<1>2. Local(p) /\ CallOK(p)
  BY <1>1, MovesLocal DEF CallInv
<1>3. ip[p] \in Inums
  BY <1>1, FSTypes DEF WalkInv, WalkOK, link_ip, HoldsDp, HoldsIp, HoldsPut, At, ParentCalls, PathCalls
<1>4. dinode' = dinode /\ lock' = lock
  BY <1>1, <1>3 DEF link_ip, loads, iget, iput, goto, done, diskVars, callVars, namex
<1>5. LockOK(p)' /\ LocksOnly(p)
  BY NullIsNone, <1>1, <1>2, <1>4, <1>3 DEF CallOK, LockOK, LocksOnly, LocksDp, LocksIp, LocksPut, Stands, StandsThen, ParentCalls, PathCalls
<1>6. AliveOK(p)'
  BY <1>1, <1>4, AliveNow, AliveThen, <1>3
<1>7. KindOK(p)'
  BY <1>1, <1>2, <1>4, <1>3 DEF CallOK, KindOK, Stands, StandsThen, ParentCalls, PathCalls
<1>9. PanicInv'
  <2>1. Points(p, "ip") = ip[p]
    BY <1>1 DEF Stands
  <2>2. loads(ip[p])
    BY DEF link_ip
  <2> QED
    BY <2>1, <2>2, <1>3, LoadsSafely
<1>10. Pending(p)' => Pending(p) /\ Points(p, "ip")' = Points(p, "ip")
  BY <1>1, <1>3 DEF Pending, Stands, StandsThen, ParentCalls, PathCalls
<1> QED
  BY <1>2, <1>4, <1>5, <1>6, <1>7, <1>9, <1>10, QuietStep DEF CallOK

\* link puts the inode back. The rest of FSInv is kept.
LEMMA LinkEndKeeps ==
  ASSUME FSInv, NEW p \in Procs, link_end(p)
  PROVE  CallInv' /\ DotInv' /\ LinkInv' /\ PanicInv'
<1> USE DEF FSInv, CountInv, FSTypeOK
<1>1. /\ CountInv' /\ Moves(p)
      /\ Stands(p, "link_end", cwd[p], ofile[p], NoInode, ip[p], NoInode)
      /\ StandsThen(p, "user", cwd[p], ofile[p], NoInode, NoInode, ip[p])
      /\ pc'[p] = "iput" /\ rest'[p] = rest[p] /\ name'[p] = name[p] /\ new'[p] = new[p]
  BY LinkEndCount
<1>2. Local(p) /\ CallOK(p)
  BY <1>1, MovesLocal DEF CallInv
<1>3. ip[p] \in Inums
  BY <1>1, FSTypes DEF WalkInv, WalkOK, link_end, HoldsDp, HoldsIp, HoldsPut, At, ParentCalls, PathCalls
<1>4. dinode' = dinode /\ lock' = lock
  BY <1>1, <1>3 DEF link_end, loads, iget, iput, goto, done, diskVars, callVars, namex
<1>5. LockOK(p)' /\ LocksOnly(p)
  BY NullIsNone, <1>1, <1>2, <1>4, <1>3 DEF CallOK, LockOK, LocksOnly, LocksDp, LocksIp, LocksPut, Stands, StandsThen, ParentCalls, PathCalls
<1>6. AliveOK(p)'
  BY <1>1, <1>4, AliveNow, AliveThen, <1>3
<1>7. KindOK(p)'
  BY <1>1, <1>2, <1>4, <1>3 DEF CallOK, KindOK, Stands, StandsThen, ParentCalls, PathCalls
<1>9. PanicInv'
  BY <1>1, <1>3 DEF link_end, PanicInv
<1>10. Pending(p)' => Pending(p) /\ Points(p, "ip")' = Points(p, "ip")
  BY <1>1, <1>3 DEF Pending, Stands, StandsThen, ParentCalls, PathCalls
<1> QED
  BY <1>2, <1>4, <1>5, <1>6, <1>7, <1>9, <1>10, QuietStep DEF CallOK

\* create of a file that exists, opened. The rest of FSInv is kept.
LEMMA CreateOpensKeeps ==
  ASSUME FSInv, NEW p \in Procs, create_ip(p), done(p)
  PROVE  CallInv' /\ DotInv' /\ LinkInv' /\ PanicInv'
<1> USE DEF FSInv, CountInv, FSTypeOK
<1>1. /\ CountInv' /\ Moves(p)
      /\ Stands(p, pc[p], cwd[p], NoInode, NoInode, ip[p], NoInode)
      /\ StandsThen(p, "user", cwd[p], ip[p], NoInode, NoInode, NoInode)
      /\ pc'[p] = "user" /\ rest'[p] = <<>> /\ name'[p] = "." /\ new'[p] = <<FALSE, <<>>>>
  BY CreateOpensCount
<1>2. Local(p) /\ CallOK(p)
  BY <1>1, MovesLocal DEF CallInv
<1>3. pc[p] \in {"create_ip", "mkdir_ip"}
  BY DEF create_ip
<1>4. ip[p] \in Inums
  BY <1>1, FSTypes DEF WalkInv, WalkOK, create_ip, HoldsDp, HoldsIp, HoldsPut, At, ParentCalls, PathCalls
<1>5. dinode' = dinode /\ lock' = lock
  BY <1>1, <1>3, <1>4 DEF create_ip, loads, iget, iput, goto, done, diskVars, callVars, namex
<1>6. LockOK(p)' /\ LocksOnly(p)
  BY NullIsNone, <1>1, <1>2, <1>5, <1>3, <1>4 DEF CallOK, LockOK, LocksOnly, LocksDp, LocksIp, LocksPut, Stands, StandsThen, ParentCalls, PathCalls
<1>7. AliveOK(p)'
  BY <1>1, <1>5, AliveNow, AliveThen, <1>3, <1>4
<1>8. KindOK(p)'
  BY <1>1, <1>2, <1>5, <1>3, <1>4 DEF CallOK, KindOK, Stands, StandsThen, ParentCalls, PathCalls
<1>10. PanicInv'
  <2>1. Points(p, "ip") = ip[p]
    BY <1>1 DEF Stands
  <2>2. loads(ip[p])
    BY DEF create_ip
  <2> QED
    BY <2>1, <2>2, <1>3, <1>4, LoadsSafely
<1>11. Pending(p)' => Pending(p) /\ Points(p, "ip")' = Points(p, "ip")
  BY <1>1, <1>3, <1>4 DEF Pending, Stands, StandsThen, ParentCalls, PathCalls
<1> QED
  BY <1>2, <1>5, <1>6, <1>7, <1>8, <1>10, <1>11, QuietStep DEF CallOK

\* create of a name that exists and cannot be opened: the inode is put back.
\* The rest of FSInv is kept.
LEMMA CreateGivesKeeps ==
  ASSUME FSInv, NEW p \in Procs, create_ip(p), ~done(p)
  PROVE  CallInv' /\ DotInv' /\ LinkInv' /\ PanicInv'
<1> USE DEF FSInv, CountInv, FSTypeOK
<1>1. /\ CountInv' /\ Moves(p)
      /\ Stands(p, pc[p], cwd[p], ofile[p], NoInode, ip[p], NoInode)
      /\ StandsThen(p, "user", cwd[p], ofile[p], NoInode, NoInode, ip[p])
      /\ pc'[p] = "iput" /\ rest'[p] = rest[p] /\ name'[p] = name[p] /\ new'[p] = new[p]
  BY CreateGivesCount
<1>2. Local(p) /\ CallOK(p)
  BY <1>1, MovesLocal DEF CallInv
<1>3. pc[p] \in {"create_ip", "mkdir_ip"}
  BY DEF create_ip
<1>4. ip[p] \in Inums
  BY <1>1, FSTypes DEF WalkInv, WalkOK, create_ip, HoldsDp, HoldsIp, HoldsPut, At, ParentCalls, PathCalls
<1>5. dinode' = dinode /\ lock' = lock
  BY <1>1, <1>3, <1>4 DEF create_ip, loads, iget, iput, goto, done, diskVars, callVars, namex
<1>6. LockOK(p)' /\ LocksOnly(p)
  BY NullIsNone, <1>1, <1>2, <1>5, <1>3, <1>4 DEF CallOK, LockOK, LocksOnly, LocksDp, LocksIp, LocksPut, Stands, StandsThen, ParentCalls, PathCalls
<1>7. AliveOK(p)'
  BY <1>1, <1>5, AliveNow, AliveThen, <1>3, <1>4
<1>8. KindOK(p)'
  BY <1>1, <1>2, <1>5, <1>3, <1>4 DEF CallOK, KindOK, Stands, StandsThen, ParentCalls, PathCalls
<1>10. PanicInv'
  <2>1. Points(p, "ip") = ip[p]
    BY <1>1 DEF Stands
  <2>2. loads(ip[p])
    BY DEF create_ip
  <2> QED
    BY <2>1, <2>2, <1>3, <1>4, LoadsSafely
<1>11. Pending(p)' => Pending(p) /\ Points(p, "ip")' = Points(p, "ip")
  BY <1>1, <1>3, <1>4 DEF Pending, Stands, StandsThen, ParentCalls, PathCalls
<1> QED
  BY <1>2, <1>5, <1>6, <1>7, <1>8, <1>10, <1>11, QuietStep DEF CallOK

\* create of a name that exists takes that inode and puts the parent back.
\* The rest of FSInv is kept.
LEMMA CreateFoundKeeps ==
  ASSUME FSInv, NEW p \in Procs, ~Strays(p), create_found(p)
  PROVE  CallInv' /\ DotInv' /\ LinkInv' /\ PanicInv'
<1> USE DEF FSInv, CountInv, FSTypeOK
<1>1. /\ CountInv' /\ Moves(p)
      /\ Stands(p, pc[p], cwd[p], ofile[p], dp[p], NoInode, NoInode)
      /\ StandsThen(p, AfterFound(p), cwd[p], ofile[p], NoInode, Found(p), dp[p])
      /\ pc'[p] = "iput" /\ rest'[p] = rest[p] /\ name'[p] = name[p] /\ new'[p] = new[p]
  BY CreateFoundCount
<1>2. Local(p) /\ CallOK(p)
  BY <1>1, MovesLocal DEF CallInv
<1>3. pc[p] \in {"create_dp", "mkdir_dp"}
  BY DEF create_found
<1>4. dp[p] \in Inums
  BY <1>1, FSTypes DEF WalkInv, WalkOK, create_found, HoldsDp, HoldsIp, HoldsPut, At, ParentCalls, PathCalls
<1>5. Found(p) \in Inums /\ dinode[Found(p)].type # "none"
  BY <1>1, <1>2, <1>3, <1>4, FSTypes, LookupIsAlive DEF CallOK, KindOK, Stands, Asked, Found, ParentCalls, create_found
<1>6. AfterFound(p) \in {"create_ip", "mkdir_ip"}
  BY DEF AfterFound
<1>7. dinode' = dinode /\ lock' = lock
  BY <1>1, <1>3, <1>4, <1>5, <1>6 DEF create_found, loads, iget, iput, goto, done, diskVars, callVars, namex, Found, AfterFound
<1>8. LockOK(p)' /\ LocksOnly(p)
  BY NullIsNone, <1>1, <1>2, <1>7, <1>3, <1>4, <1>5, <1>6 DEF CallOK, LockOK, LocksOnly, LocksDp, LocksIp, LocksPut, Stands, StandsThen, ParentCalls, PathCalls
<1>9. AliveOK(p)'
  BY <1>1, <1>7, AliveNow, AliveThen, <1>3, <1>4, <1>5, <1>6
<1>10. KindOK(p)'
  BY <1>1, <1>2, <1>7, <1>3, <1>4, <1>5, <1>6 DEF CallOK, KindOK, Stands, StandsThen, ParentCalls, PathCalls
<1>12. PanicInv'
  <2>1. Points(p, "dp") = dp[p]
    BY <1>1 DEF Stands
  <2>2. loads(dp[p])
    BY DEF create_found
  <2> QED
    BY <2>1, <2>2, <1>3, <1>4, <1>5, <1>6, LoadsSafely
<1>13. Pending(p)' => Pending(p) /\ Points(p, "ip")' = Points(p, "ip")
  BY <1>1, <1>3, <1>4, <1>5, <1>6 DEF Pending, Stands, StandsThen, ParentCalls, PathCalls
<1> QED
  BY <1>2, <1>7, <1>8, <1>9, <1>10, <1>12, <1>13, QuietStep DEF CallOK

\* create that has made a file, opened. The rest of FSInv is kept.
LEMMA CreateEndOpensKeeps ==
  ASSUME FSInv, NEW p \in Procs, create_end(p), done(p)
  PROVE  CallInv' /\ DotInv' /\ LinkInv' /\ PanicInv'
<1> USE DEF FSInv, CountInv, FSTypeOK
<1>1. /\ CountInv' /\ Moves(p)
      /\ Stands(p, pc[p], cwd[p], NoInode, NoInode, ip[p], NoInode)
      /\ StandsThen(p, "user", cwd[p], ip[p], NoInode, NoInode, NoInode)
      /\ pc'[p] = "user" /\ rest'[p] = <<>> /\ name'[p] = "." /\ new'[p] = <<FALSE, <<>>>>
  BY CreateEndOpensCount
<1>2. Local(p) /\ CallOK(p)
  BY <1>1, MovesLocal DEF CallInv
<1>3. pc[p] \in {"create_end", "mkdir_end"}
  BY DEF create_end
<1>4. ip[p] \in Inums
  BY <1>1, FSTypes DEF WalkInv, WalkOK, create_end, HoldsDp, HoldsIp, HoldsPut, At, ParentCalls, PathCalls
<1>5. p # NoOne /\ NoOne \notin Procs
  BY FSAssumption DEF NoOne
<1>6. dinode' = dinode /\ lock' = [lock EXCEPT ![ip[p]] = NoOne]
  BY <1>1, <1>3, <1>4, <1>5 DEF create_end, loads, iget, iput, goto, done, diskVars, callVars, namex
<1>7. LockOK(p)' /\ LocksOnly(p)
  <2>1. \A i \in Inums : lock[i] = p <=> ip[p] = i
    BY <1>1, <1>2, <1>3, <1>4 DEF CallOK, LockOK, LocksDp, LocksIp, LocksPut, Stands
  <2>2. \A i \in Inums : lock'[i] = (IF i = ip[p] THEN NoOne ELSE lock[i])
    BY <1>6 DEF DiskTypeOK
  <2>3. LocksOnly(p)
    BY <2>1, <2>2, <1>4 DEF LocksOnly
  <2>4. ~LocksDp(p)' /\ ~LocksIp(p)' /\ ~LocksPut(p)'
    BY <1>1 DEF LocksDp, LocksIp, LocksPut, StandsThen
  <2> QED
    BY <2>1, <2>2, <2>3, <2>4, <1>5 DEF LockOK
<1>8. AliveOK(p)'
  BY <1>1, <1>6, AliveNow, AliveThen, <1>3, <1>4, <1>5
<1>9. KindOK(p)'
  BY <1>1, <1>2, <1>6, <1>3, <1>4, <1>5 DEF CallOK, KindOK, Stands, StandsThen, ParentCalls, PathCalls
<1>11. PanicInv'
  BY <1>1, <1>3, <1>4, <1>5 DEF create_end, PanicInv
<1>12. Pending(p)' => Pending(p) /\ Points(p, "ip")' = Points(p, "ip")
  BY <1>1, <1>3, <1>4, <1>5 DEF Pending, Stands, StandsThen, ParentCalls, PathCalls
<1> QED
  BY <1>2, <1>6, <1>7, <1>8, <1>9, <1>11, <1>12, QuietStep DEF CallOK

\* create that has made a file or a directory, and no descriptor keeps it.
\* The rest of FSInv is kept.
LEMMA CreateEndGivesKeeps ==
  ASSUME FSInv, NEW p \in Procs, create_end(p), ~done(p)
  PROVE  CallInv' /\ DotInv' /\ LinkInv' /\ PanicInv'
<1> USE DEF FSInv, CountInv, FSTypeOK
<1>1. /\ CountInv' /\ Moves(p)
      /\ Stands(p, pc[p], cwd[p], ofile[p], NoInode, ip[p], NoInode)
      /\ StandsThen(p, "user", cwd[p], ofile[p], NoInode, NoInode, ip[p])
      /\ pc'[p] = "iput" /\ rest'[p] = rest[p] /\ name'[p] = name[p] /\ new'[p] = new[p]
  BY CreateEndGivesCount
<1>2. Local(p) /\ CallOK(p)
  BY <1>1, MovesLocal DEF CallInv
<1>3. pc[p] \in {"create_end", "mkdir_end"}
  BY DEF create_end
<1>4. ip[p] \in Inums
  BY <1>1, FSTypes DEF WalkInv, WalkOK, create_end, HoldsDp, HoldsIp, HoldsPut, At, ParentCalls, PathCalls
<1>5. p # NoOne /\ NoOne \notin Procs
  BY FSAssumption DEF NoOne
<1>6. dinode' = dinode /\ lock' = [lock EXCEPT ![ip[p]] = NoOne]
  BY <1>1, <1>3, <1>4, <1>5 DEF create_end, loads, iget, iput, goto, done, diskVars, callVars, namex
<1>7. LockOK(p)' /\ LocksOnly(p)
  <2>1. \A i \in Inums : lock[i] = p <=> ip[p] = i
    BY <1>1, <1>2, <1>3, <1>4 DEF CallOK, LockOK, LocksDp, LocksIp, LocksPut, Stands
  <2>2. \A i \in Inums : lock'[i] = (IF i = ip[p] THEN NoOne ELSE lock[i])
    BY <1>6 DEF DiskTypeOK
  <2>3. LocksOnly(p)
    BY <2>1, <2>2, <1>4 DEF LocksOnly
  <2>4. ~LocksDp(p)' /\ ~LocksIp(p)' /\ ~LocksPut(p)'
    BY <1>1 DEF LocksDp, LocksIp, LocksPut, StandsThen
  <2> QED
    BY <2>1, <2>2, <2>3, <2>4, <1>5 DEF LockOK
<1>8. AliveOK(p)'
  BY <1>1, <1>6, AliveNow, AliveThen, <1>3, <1>4, <1>5
<1>9. KindOK(p)'
  BY <1>1, <1>2, <1>6, <1>3, <1>4, <1>5 DEF CallOK, KindOK, Stands, StandsThen, ParentCalls, PathCalls
<1>11. PanicInv'
  BY <1>1, <1>3, <1>4, <1>5 DEF create_end, PanicInv
<1>12. Pending(p)' => Pending(p) /\ Points(p, "ip")' = Points(p, "ip")
  BY <1>1, <1>3, <1>4, <1>5 DEF Pending, Stands, StandsThen, ParentCalls, PathCalls
<1> QED
  BY <1>2, <1>6, <1>7, <1>8, <1>9, <1>11, <1>12, QuietStep DEF CallOK

\* create with no inode left: ialloc panics. The rest of FSInv is kept.
LEMMA CreatePanicsKeeps ==
  ASSUME FSInv, NEW p \in Procs, create_new(p), FreeInodes = {}
  PROVE  CallInv' /\ DotInv' /\ LinkInv' /\ PanicInv'
<1> USE DEF FSInv, CountInv, FSTypeOK
<1>1. /\ CountInv' /\ Moves(p)
      /\ Stands(p, pc[p], cwd[p], ofile[p], dp[p], NoInode, NoInode)
      /\ StandsThen(p, "panic", cwd[p], ofile[p], dp[p], NoInode, NoInode)
      /\ pc'[p] = "panic" /\ rest'[p] = rest[p] /\ name'[p] = name[p] /\ new'[p] = new[p]
  BY CreatePanicsCount
<1>2. Local(p) /\ CallOK(p)
  BY <1>1, MovesLocal DEF CallInv
<1>3. pc[p] \in {"create_dp", "mkdir_dp"}
  BY DEF create_new
<1>4. dp[p] \in Inums
  BY <1>1, FSTypes DEF WalkInv, WalkOK, create_new, HoldsDp, HoldsIp, HoldsPut, At, ParentCalls, PathCalls
<1>5. dinode' = dinode /\ lock' = lock
  BY <1>1, <1>3, <1>4 DEF create_new, loads, iget, iput, goto, done, diskVars, callVars, namex
<1>6. LockOK(p)' /\ LocksOnly(p)
  BY NullIsNone, <1>1, <1>2, <1>5, <1>3, <1>4 DEF CallOK, LockOK, LocksOnly, LocksDp, LocksIp, LocksPut, Stands, StandsThen, ParentCalls, PathCalls
<1>7. AliveOK(p)'
  BY <1>1, <1>5, AliveNow, AliveThen, <1>3, <1>4
<1>8. KindOK(p)'
  BY <1>1, <1>2, <1>5, <1>3, <1>4 DEF CallOK, KindOK, Stands, StandsThen, ParentCalls, PathCalls
<1>10. PanicInv'
  BY <1>1, <1>3, <1>4 DEF create_new, PanicInv
<1>11. Pending(p)' => Pending(p) /\ Points(p, "ip")' = Points(p, "ip")
  BY <1>1, <1>3, <1>4 DEF Pending, Stands, StandsThen, ParentCalls, PathCalls
<1> QED
  BY <1>2, <1>5, <1>6, <1>7, <1>8, <1>10, <1>11, QuietStep DEF CallOK

\* link to a name that is taken, with the parent locked. The rest of FSInv is kept.
LEMMA LinkExistsKeeps ==
  ASSUME FSInv, NEW p \in Procs, ~Strays(p), link_dp(p), Found(p) # NoInode
  PROVE  CallInv' /\ DotInv' /\ LinkInv' /\ PanicInv'
<1> USE DEF FSInv, CountInv, FSTypeOK
<1>1. /\ CountInv' /\ Moves(p)
      /\ Stands(p, "link_dp", cwd[p], ofile[p], dp[p], ip[p], NoInode)
      /\ StandsThen(p, "link_exists", cwd[p], ofile[p], dp[p], ip[p], Found(p))
      /\ pc'[p] = "iput" /\ rest'[p] = rest[p] /\ name'[p] = name[p] /\ new'[p] = new[p]
  BY LinkExistsCount
<1>2. Local(p) /\ CallOK(p)
  BY <1>1, MovesLocal DEF CallInv
<1>3. dp[p] \in Inums
  BY <1>1, FSTypes DEF WalkInv, WalkOK, link_dp, HoldsDp, HoldsIp, HoldsPut, At, ParentCalls, PathCalls
<1>4. ip[p] \in Inums
  BY <1>1, FSTypes DEF WalkInv, WalkOK, link_dp, HoldsDp, HoldsIp, HoldsPut, At, ParentCalls, PathCalls
<1>5. Found(p) \in Inums /\ dinode[Found(p)].type # "none"
  BY <1>1, <1>2, <1>3, FSTypes, LookupIsAlive DEF CallOK, KindOK, Stands, Asked, Found, ParentCalls, link_dp
<1>6. p # NoOne /\ NoOne \notin Procs
  BY FSAssumption DEF NoOne
<1>7. dinode' = dinode /\ lock' = [lock EXCEPT ![dp[p]] = p]
  BY <1>1, <1>3, <1>4, <1>5, <1>6 DEF link_dp, loads, iget, iput, goto, done, diskVars, callVars, namex, Found
<1>8. LockOK(p)' /\ LocksOnly(p)
  BY NullIsNone, <1>1, <1>2, <1>7, <1>3, <1>4, <1>6 DEF CallOK, LockOK, LocksOnly, LocksDp, LocksIp, LocksPut, Stands, StandsThen, ParentCalls, PathCalls, DiskTypeOK, Lockable, link_dp
<1>9. AliveOK(p)'
  BY <1>1, <1>7, AliveNow, AliveThen, <1>3, <1>4, <1>5, <1>6
<1>10. KindOK(p)'
  BY <1>1, <1>2, <1>7, <1>3, <1>4, <1>5, <1>6 DEF CallOK, KindOK, Stands, StandsThen, ParentCalls, PathCalls
<1>12. PanicInv'
  <2>1. Points(p, "dp") = dp[p]
    BY <1>1 DEF Stands
  <2>2. loads(dp[p])
    BY DEF link_dp
  <2> QED
    BY <2>1, <2>2, <1>3, <1>4, <1>5, <1>6, LoadsSafely
<1>13. Pending(p)' => Pending(p) /\ Points(p, "ip")' = Points(p, "ip")
  BY <1>1, <1>3, <1>4, <1>5, <1>6 DEF Pending, Stands, StandsThen, ParentCalls, PathCalls
<1> QED
  BY <1>2, <1>7, <1>8, <1>9, <1>10, <1>12, <1>13, QuietStep DEF CallOK

\* link to a name that is taken unlocks the parent and puts it back. The rest of FSInv is kept.
LEMMA LinkUnlocksKeeps ==
  ASSUME FSInv, NEW p \in Procs, link_exists(p)
  PROVE  CallInv' /\ DotInv' /\ LinkInv' /\ PanicInv'
<1> USE DEF FSInv, CountInv, FSTypeOK
<1>1. /\ CountInv' /\ Moves(p)
      /\ Stands(p, "link_exists", cwd[p], ofile[p], dp[p], ip[p], NoInode)
      /\ StandsThen(p, "link_bad", cwd[p], ofile[p], NoInode, ip[p], dp[p])
      /\ pc'[p] = "iput" /\ rest'[p] = rest[p] /\ name'[p] = name[p] /\ new'[p] = new[p]
  BY LinkUnlocksCount
<1>2. Local(p) /\ CallOK(p)
  BY <1>1, MovesLocal DEF CallInv
<1>3. dp[p] \in Inums
  BY <1>1, FSTypes DEF WalkInv, WalkOK, link_exists, HoldsDp, HoldsIp, HoldsPut, At, ParentCalls, PathCalls
<1>4. ip[p] \in Inums
  BY <1>1, FSTypes DEF WalkInv, WalkOK, link_exists, HoldsDp, HoldsIp, HoldsPut, At, ParentCalls, PathCalls
<1>5. p # NoOne /\ NoOne \notin Procs
  BY FSAssumption DEF NoOne
<1>6. dinode' = dinode /\ lock' = [lock EXCEPT ![dp[p]] = NoOne]
  BY <1>1, <1>3, <1>4, <1>5 DEF link_exists, loads, iget, iput, goto, done, diskVars, callVars, namex
<1>7. LockOK(p)' /\ LocksOnly(p)
  BY NullIsNone, <1>1, <1>2, <1>6, <1>3, <1>4, <1>5 DEF CallOK, LockOK, LocksOnly, LocksDp, LocksIp, LocksPut, Stands, StandsThen, ParentCalls, PathCalls, DiskTypeOK, Lockable, link_exists
<1>8. AliveOK(p)'
  BY <1>1, <1>6, AliveNow, AliveThen, <1>3, <1>4, <1>5
<1>9. KindOK(p)'
  BY <1>1, <1>2, <1>6, <1>3, <1>4, <1>5 DEF CallOK, KindOK, Stands, StandsThen, ParentCalls, PathCalls
<1>11. PanicInv'
  BY <1>1, <1>3, <1>4, <1>5 DEF link_exists, PanicInv
<1>12. Pending(p)' => Pending(p) /\ Points(p, "ip")' = Points(p, "ip")
  BY <1>1, <1>3, <1>4, <1>5 DEF Pending, Stands, StandsThen, ParentCalls, PathCalls
<1> QED
  BY <1>2, <1>6, <1>7, <1>8, <1>9, <1>11, <1>12, QuietStep DEF CallOK

\* unlink of . or .., or of a name that is not there. The rest of FSInv is kept.
LEMMA UnlinkFailsKeeps ==
  ASSUME FSInv, NEW p \in Procs, unlink_dp(p), name[p] \in {".", ".."} \/ Found(p) = NoInode
  PROVE  CallInv' /\ DotInv' /\ LinkInv' /\ PanicInv'
<1> USE DEF FSInv, CountInv, FSTypeOK
<1>1. /\ CountInv' /\ Moves(p)
      /\ Stands(p, "unlink_dp", cwd[p], ofile[p], dp[p], NoInode, NoInode)
      /\ StandsThen(p, "user", cwd[p], ofile[p], NoInode, NoInode, dp[p])
      /\ pc'[p] = "iput" /\ rest'[p] = rest[p] /\ name'[p] = name[p] /\ new'[p] = new[p]
  BY UnlinkFailsCount
<1>2. Local(p) /\ CallOK(p)
  BY <1>1, MovesLocal DEF CallInv
<1>3. dp[p] \in Inums
  BY <1>1, FSTypes DEF WalkInv, WalkOK, unlink_dp, HoldsDp, HoldsIp, HoldsPut, At, ParentCalls, PathCalls
<1>4. dinode' = dinode /\ lock' = lock
  BY <1>1, <1>3 DEF unlink_dp, loads, iget, iput, goto, done, diskVars, callVars, namex, Found
<1>5. LockOK(p)' /\ LocksOnly(p)
  BY NullIsNone, <1>1, <1>2, <1>4, <1>3 DEF CallOK, LockOK, LocksOnly, LocksDp, LocksIp, LocksPut, Stands, StandsThen, ParentCalls, PathCalls
<1>6. AliveOK(p)'
  BY <1>1, <1>4, AliveNow, AliveThen, <1>3
<1>7. KindOK(p)'
  BY <1>1, <1>2, <1>4, <1>3 DEF CallOK, KindOK, Stands, StandsThen, ParentCalls, PathCalls
<1>9. PanicInv'
  <2>1. Points(p, "dp") = dp[p]
    BY <1>1 DEF Stands
  <2>2. loads(dp[p])
    BY DEF unlink_dp
  <2> QED
    BY <2>1, <2>2, <1>3, LoadsSafely
<1>10. Pending(p)' => Pending(p) /\ Points(p, "ip")' = Points(p, "ip")
  BY <1>1, <1>3 DEF Pending, Stands, StandsThen, ParentCalls, PathCalls
<1> QED
  BY <1>2, <1>4, <1>5, <1>6, <1>7, <1>9, <1>10, QuietStep DEF CallOK

\* unlink finds the name and keeps the parent locked. The rest of FSInv is kept.
LEMMA UnlinkFoundKeeps ==
  ASSUME FSInv, NEW p \in Procs, unlink_dp(p), name[p] \notin {".", ".."}, Found(p) # NoInode
  PROVE  CallInv' /\ DotInv' /\ LinkInv' /\ PanicInv'
<1> USE DEF FSInv, CountInv, FSTypeOK
<1>1. /\ CountInv' /\ Moves(p)
      /\ Stands(p, "unlink_dp", cwd[p], ofile[p], dp[p], NoInode, NoInode)
      /\ StandsThen(p, "unlink_ip", cwd[p], ofile[p], dp[p], Found(p), NoInode)
      /\ pc'[p] = "unlink_ip" /\ rest'[p] = rest[p] /\ name'[p] = name[p] /\ new'[p] = new[p]
  BY UnlinkFoundCount
<1>2. Local(p) /\ CallOK(p)
  BY <1>1, MovesLocal DEF CallInv
<1>3. dp[p] \in Inums
  BY <1>1, FSTypes DEF WalkInv, WalkOK, unlink_dp, HoldsDp, HoldsIp, HoldsPut, At, ParentCalls, PathCalls
<1>4. Found(p) \in Inums /\ dinode[Found(p)].type # "none"
  <2>1. ~Strays(p) /\ name[p] # ".." /\ name[p] \in AllNames /\ Found(p) # NoInode
    BY FSTypes DEF Strays, Asked, Found, unlink_dp
  <2>2. dinode[dp[p]].type = "dir"
    BY <1>1, <1>2 DEF CallOK, KindOK, Stands, ParentCalls
  <2> QED
    BY <1>3, <2>1, <2>2, LookupIsAlive DEF Found
<1>5. p # NoOne /\ NoOne \notin Procs
  BY FSAssumption DEF NoOne
<1>6. name[p] \in Names
  BY FSTypes DEF AllNames
<1>7. dinode' = dinode /\ lock' = [lock EXCEPT ![dp[p]] = p]
  BY <1>1, <1>3, <1>4, <1>5, <1>6 DEF unlink_dp, loads, iget, iput, goto, done, diskVars, callVars, namex, Found
<1>8. LockOK(p)' /\ LocksOnly(p)
  BY NullIsNone, <1>1, <1>2, <1>7, <1>3, <1>4, <1>5 DEF CallOK, LockOK, LocksOnly, LocksDp, LocksIp, LocksPut, Stands, StandsThen, ParentCalls, PathCalls, DiskTypeOK, Lockable, unlink_dp
<1>9. AliveOK(p)'
  BY <1>1, <1>7, AliveNow, AliveThen, <1>3, <1>4, <1>5, <1>6
<1>10. KindOK(p)'
  BY <1>1, <1>2, <1>7, <1>3, <1>4, <1>5, <1>6 DEF CallOK, KindOK, Stands, StandsThen, ParentCalls, PathCalls, Found, Lookup
<1>12. PanicInv'
  <2>1. Points(p, "dp") = dp[p]
    BY <1>1 DEF Stands
  <2>2. loads(dp[p])
    BY DEF unlink_dp
  <2> QED
    BY <2>1, <2>2, <1>3, <1>4, <1>5, <1>6, LoadsSafely
<1>13. Pending(p)' => Pending(p) /\ Points(p, "ip")' = Points(p, "ip")
  BY <1>1, <1>3, <1>4, <1>5, <1>6 DEF Pending, Stands, StandsThen, ParentCalls, PathCalls
<1> QED
  BY <1>2, <1>7, <1>8, <1>9, <1>10, <1>12, <1>13, QuietStep DEF CallOK

\* unlink of a directory that is not empty puts the inode back. The rest of FSInv is kept.
LEMMA UnlinkFullKeeps ==
  ASSUME FSInv, NEW p \in Procs, unlink_ip(p), dinode[ip[p]].type = "dir" /\ ~Empty(ip[p])
  PROVE  CallInv' /\ DotInv' /\ LinkInv' /\ PanicInv'
<1> USE DEF FSInv, CountInv, FSTypeOK
<1>1. /\ CountInv' /\ Moves(p)
      /\ Stands(p, "unlink_ip", cwd[p], ofile[p], dp[p], ip[p], NoInode)
      /\ StandsThen(p, "unlink_bad", cwd[p], ofile[p], dp[p], NoInode, ip[p])
      /\ pc'[p] = "iput" /\ rest'[p] = rest[p] /\ name'[p] = name[p] /\ new'[p] = new[p]
  BY UnlinkFullCount
<1>2. Local(p) /\ CallOK(p)
  BY <1>1, MovesLocal DEF CallInv
<1>3. dp[p] \in Inums
  BY <1>1, FSTypes DEF WalkInv, WalkOK, unlink_ip, HoldsDp, HoldsIp, HoldsPut, At, ParentCalls, PathCalls
<1>4. ip[p] \in Inums
  BY <1>1, FSTypes DEF WalkInv, WalkOK, unlink_ip, HoldsDp, HoldsIp, HoldsPut, At, ParentCalls, PathCalls
<1>5. dinode[ip[p]].nlink >= 1
  BY <1>1, <1>2, <1>3, <1>4, NamedIsLinked, LinkedIsAlive DEF CallOK, KindOK, Stands
<1>6. dinode' = dinode /\ lock' = lock
  BY <1>1, <1>3, <1>4, <1>5 DEF unlink_ip, loads, iget, iput, goto, done, diskVars, callVars, namex
<1>7. LockOK(p)' /\ LocksOnly(p)
  BY NullIsNone, <1>1, <1>2, <1>6, <1>3, <1>4, <1>5 DEF CallOK, LockOK, LocksOnly, LocksDp, LocksIp, LocksPut, Stands, StandsThen, ParentCalls, PathCalls
<1>8. AliveOK(p)'
  BY <1>1, <1>6, AliveNow, AliveThen, <1>3, <1>4, <1>5
<1>9. KindOK(p)'
  BY <1>1, <1>2, <1>6, <1>3, <1>4, <1>5 DEF CallOK, KindOK, Stands, StandsThen, ParentCalls, PathCalls
<1>11. PanicInv'
  BY <1>4, <1>5, FSTypes, InodeFields DEF unlink_ip, PanicInv
<1>12. Pending(p)' => Pending(p) /\ Points(p, "ip")' = Points(p, "ip")
  BY <1>1, <1>3, <1>4, <1>5 DEF Pending, Stands, StandsThen, ParentCalls, PathCalls
<1> QED
  BY <1>2, <1>6, <1>7, <1>8, <1>9, <1>11, <1>12, QuietStep DEF CallOK

\* unlink that has failed unlocks the parent and puts it back. The rest of FSInv is kept.
LEMMA UnlinkBadKeeps ==
  ASSUME FSInv, NEW p \in Procs, unlink_bad(p)
  PROVE  CallInv' /\ DotInv' /\ LinkInv' /\ PanicInv'
<1> USE DEF FSInv, CountInv, FSTypeOK
<1>1. /\ CountInv' /\ Moves(p)
      /\ Stands(p, "unlink_bad", cwd[p], ofile[p], dp[p], NoInode, NoInode)
      /\ StandsThen(p, "user", cwd[p], ofile[p], NoInode, NoInode, dp[p])
      /\ pc'[p] = "iput" /\ rest'[p] = rest[p] /\ name'[p] = name[p] /\ new'[p] = new[p]
  BY UnlinkBadCount
<1>2. Local(p) /\ CallOK(p)
  BY <1>1, MovesLocal DEF CallInv
<1>3. dp[p] \in Inums
  BY <1>1, FSTypes DEF WalkInv, WalkOK, unlink_bad, HoldsDp, HoldsIp, HoldsPut, At, ParentCalls, PathCalls
<1>4. p # NoOne /\ NoOne \notin Procs
  BY FSAssumption DEF NoOne
<1>5. dinode' = dinode /\ lock' = [lock EXCEPT ![dp[p]] = NoOne]
  BY <1>1, <1>3, <1>4 DEF unlink_bad, loads, iget, iput, goto, done, diskVars, callVars, namex
<1>6. LockOK(p)' /\ LocksOnly(p)
  BY NullIsNone, <1>1, <1>2, <1>5, <1>3, <1>4 DEF CallOK, LockOK, LocksOnly, LocksDp, LocksIp, LocksPut, Stands, StandsThen, ParentCalls, PathCalls, DiskTypeOK, Lockable, unlink_bad
<1>7. AliveOK(p)'
  BY <1>1, <1>5, AliveNow, AliveThen, <1>3, <1>4
<1>8. KindOK(p)'
  BY <1>1, <1>2, <1>5, <1>3, <1>4 DEF CallOK, KindOK, Stands, StandsThen, ParentCalls, PathCalls
<1>10. PanicInv'
  BY <1>1, <1>3, <1>4 DEF unlink_bad, PanicInv
<1>11. Pending(p)' => Pending(p) /\ Points(p, "ip")' = Points(p, "ip")
  BY <1>1, <1>3, <1>4 DEF Pending, Stands, StandsThen, ParentCalls, PathCalls
<1> QED
  BY <1>2, <1>5, <1>6, <1>7, <1>8, <1>10, <1>11, QuietStep DEF CallOK

\* iput gives the reference up at the end of a call. The rest of FSInv is kept.
LEMMA IputDoneKeeps ==
  ASSUME FSInv, NEW p \in Procs, iput_ref(p), iret[p] = "user"
  PROVE  CallInv' /\ DotInv' /\ LinkInv' /\ PanicInv'
<1> USE DEF FSInv, CountInv, FSTypeOK
<1>1. /\ CountInv' /\ Moves(p)
      /\ Stands(p, "user", cwd[p], ofile[p], NoInode, NoInode, put[p])
      /\ StandsThen(p, "user", cwd[p], ofile[p], NoInode, NoInode, NoInode)
      /\ pc'[p] = "user" /\ rest'[p] = <<>> /\ name'[p] = "." /\ new'[p] = <<FALSE, <<>>>>
  BY IputDoneCount
<1>2. Local(p) /\ CallOK(p)
  BY <1>1, MovesLocal DEF CallInv
<1>3. dinode' = dinode /\ lock' = lock
  BY <1>1 DEF iput_ref, loads, iget, iput, goto, done, diskVars, callVars, namex
<1>4. LockOK(p)' /\ LocksOnly(p)
  <2>1. ~LocksPut(p) /\ ~LocksPut(p)'
    BY <1>1, FSTypes DEF LocksPut, iput_ref, Places, ParentCalls, PathCalls
  <2>2. (LocksDp(p)' <=> LocksDp(p)) /\ (LocksIp(p)' <=> LocksIp(p))
    BY <1>1 DEF LocksDp, LocksIp, Stands, StandsThen
  <2>3. LocksDp(p) => Points(p, "dp")' = Points(p, "dp")
    BY <1>1 DEF LocksDp, Stands, StandsThen
  <2>4. LocksIp(p) => Points(p, "ip")' = Points(p, "ip")
    BY <1>1 DEF LocksIp, Stands, StandsThen
  <2>5. LockOK(p)
    BY <1>2 DEF CallOK
  <2> QED
    BY <1>3, <2>1, <2>2, <2>3, <2>4, <2>5 DEF LockOK, LocksOnly
<1>5. AliveOK(p)'
  BY <1>1, <1>3, AliveNow, AliveThen
<1>6. KindOK(p)'
  BY <1>1, <1>2, <1>3 DEF CallOK, KindOK, Stands, StandsThen, ParentCalls, PathCalls
<1>8. PanicInv'
  BY <1>1 DEF iput_ref, PanicInv
<1>9. Pending(p)' => Pending(p) /\ Points(p, "ip")' = Points(p, "ip")
  BY <1>1 DEF Pending, Stands, StandsThen, ParentCalls, PathCalls
<1> QED
  BY <1>2, <1>3, <1>4, <1>5, <1>6, <1>8, <1>9, QuietStep DEF CallOK

\* iput gives the reference up in the middle of a call. The rest of FSInv is kept.
LEMMA IputBackKeeps ==
  ASSUME FSInv, NEW p \in Procs, iput_ref(p), iret[p] # "user"
  PROVE  CallInv' /\ DotInv' /\ LinkInv' /\ PanicInv'
<1> USE DEF FSInv, CountInv, FSTypeOK
<1>1. /\ CountInv' /\ Moves(p)
      /\ Stands(p, iret[p], cwd[p], ofile[p], IF HoldsDp(p) THEN dp[p] ELSE NoInode, IF HoldsIp(p) THEN ip[p] ELSE NoInode, put[p])
      /\ StandsThen(p, iret[p], cwd[p], ofile[p], IF HoldsDp(p) THEN dp[p] ELSE NoInode, IF HoldsIp(p) THEN ip[p] ELSE NoInode, NoInode)
      /\ pc'[p] = iret[p] /\ rest'[p] = rest[p] /\ name'[p] = name[p] /\ new'[p] = new[p]
  BY IputBackCount
<1>2. Local(p) /\ CallOK(p)
  BY <1>1, MovesLocal DEF CallInv
<1>3. dinode' = dinode /\ lock' = lock
  BY <1>1 DEF iput_ref, loads, iget, iput, goto, done, diskVars, callVars, namex
<1>4. LockOK(p)' /\ LocksOnly(p)
  <2>1. ~LocksPut(p) /\ ~LocksPut(p)'
    BY <1>1, FSTypes DEF LocksPut, iput_ref, Places, ParentCalls, PathCalls
  <2>2. (LocksDp(p)' <=> LocksDp(p)) /\ (LocksIp(p)' <=> LocksIp(p))
    BY <1>1 DEF LocksDp, LocksIp, Stands, StandsThen
  <2>3. LocksDp(p) => Points(p, "dp")' = Points(p, "dp")
    BY <1>1 DEF LocksDp, Stands, StandsThen
  <2>4. LocksIp(p) => Points(p, "ip")' = Points(p, "ip")
    BY <1>1 DEF LocksIp, Stands, StandsThen
  <2>5. LockOK(p)
    BY <1>2 DEF CallOK
  <2> QED
    BY <1>3, <2>1, <2>2, <2>3, <2>4, <2>5 DEF LockOK, LocksOnly
<1>5. AliveOK(p)'
  BY <1>1, <1>3, AliveNow, AliveThen
<1>6. KindOK(p)'
  BY <1>1, <1>2, <1>3 DEF CallOK, KindOK, Stands, StandsThen, ParentCalls, PathCalls, Lookup
<1>8. PanicInv'
  BY <1>1 DEF iput_ref, PanicInv
<1>9. Pending(p)' => Pending(p) /\ Points(p, "ip")' = Points(p, "ip")
  BY <1>1 DEF Pending, Stands, StandsThen, ParentCalls, PathCalls
<1> QED
  BY <1>2, <1>3, <1>4, <1>5, <1>6, <1>8, <1>9, QuietStep DEF CallOK

-----------------------------------------------------------------------------
(* Steps that write inodes *)

\* The links of j are counted after a step that adds none.
LEMMA NoMoreLinks ==
  ASSUME CountInv, LinkInv, FSTypeOK', NEW j \in Inums, Entries(j)' \subseteq Entries(j),
         Subdirs(j)' \subseteq Subdirs(j), CallsOn(j)' \subseteq CallsOn(j), dinode'[j].nlink >= dinode[j].nlink
  PROVE  dinode'[j].nlink >= Cardinality(Links(j)')
<1>1. Links(j)' \subseteq Links(j)
  BY DEF Links, Bundle
<1>2. dinode[j].nlink \in Int /\ dinode[j].nlink >= Cardinality(Links(j)) /\ dinode'[j].nlink \in Int
  BY InodeFields DEF CountInv, FSTypeOK, DiskTypeOK, LinkInv
<1> QED
  BY <1>1, <1>2, LinksFinite, Fewer

\* A step that changes types and entries of no inode.
LEMMA SameNames ==
  ASSUME CountInv, NEW p \in Procs,
         \A j \in Inums : dinode'[j].type = dinode[j].type /\ dinode'[j].ents = dinode[j].ents
  PROVE  /\ SparesOthers(p)
         /\ \A j \in Inums : Entries(j)' = Entries(j) /\ Subdirs(j)' = Subdirs(j)
<1>1. \A j \in Inums : \A n : Lookup(j, n)' = Lookup(j, n)
  BY DEF Lookup
<1>2. \A j \in Inums : Entries(j)' = Entries(j)
  BY <1>1 DEF Entries
<1>3. \A j \in Inums : Subdirs(j)' = Subdirs(j)
  <2> SUFFICES ASSUME NEW j \in Inums, NEW n \in Names
               PROVE  n \in Subdirs(j)' <=> n \in Subdirs(j)
    BY DEF Subdirs
  <2>1. Lookup(j, n) \in Inums \cup {NoInode}
    BY FSTypes DEF CountInv, AllNames
  <2> QED
    BY <1>1, <2>1 DEF Subdirs
<1>4. SparesOthers(p)
  <2>1. \A q \in Procs, k \in Slots : Points(q, k) \in Inums \cup {NoInode}
    BY PointsTyped DEF CountInv
  <2>2. \A q \in Procs : At(q) = "unlink_ip" => Points(q, "dp") \in Inums
    BY PointsThere DEF CountInv, HoldsDp
  <2> QED
    BY <2>1, <2>2 DEF SparesOthers
<1> QED
  BY <1>2, <1>3, <1>4

\* The link count of one inode changes.
LEMMA CountsLinks ==
  ASSUME CountInv, NEW x \in Inums, NEW m \in Int, dinode' = [dinode EXCEPT ![x].nlink = m]
  PROVE  /\ \A j \in Inums : dinode'[j].type = dinode[j].type /\ dinode'[j].ents = dinode[j].ents
         /\ \A j \in Inums \ {x} : dinode'[j] = dinode[j]
         /\ dinode'[x].nlink = m
<1>1. dinode \in [Inums -> Inodes] /\ dinode[x] \in Inodes
  BY DEF CountInv, FSTypeOK, DiskTypeOK
<1>2. dinode'[x] = [dinode[x] EXCEPT !.nlink = m] /\ \A j \in Inums \ {x} : dinode'[j] = dinode[j]
  BY <1>1
<1>3. dinode'[x].type = dinode[x].type /\ dinode'[x].ents = dinode[x].ents /\ dinode'[x].nlink = m
  BY <1>1, <1>2 DEF Inodes
<1> QED
  BY <1>2, <1>3

\* DotInv where the types and entries stay, and only the counts of allocated inodes change.
LEMMA SameDots ==
  ASSUME DotInv, \A j \in Inums : dinode'[j].type = dinode[j].type /\ dinode'[j].ents = dinode[j].ents,
         \A j \in Inums : dinode[j].type = "none" => dinode'[j] = dinode[j]
  PROVE  DotInv'
BY DEF DotInv, Lookup

\* link counts the new link, then looks up the parent of the new name. The rest of FSInv is kept.
LEMMA LinkKeeps ==
  ASSUME FSInv, NEW p \in Procs, link_ip(p), dinode[ip[p]].type # "dir"
  PROVE  CallInv' /\ DotInv' /\ LinkInv' /\ PanicInv'
<1> USE DEF FSInv, CountInv, FSTypeOK
<1>1. /\ CountInv' /\ Moves(p)
      /\ Stands(p, "link_ip", cwd[p], ofile[p], NoInode, ip[p], NoInode)
      /\ StandsThen(p, "namex", cwd[p], ofile[p], Start(p, new[p]), ip[p], NoInode)
      /\ pc'[p] = "namex" /\ rest'[p] = new[p][2] /\ name'[p] = name[p] /\ new'[p] = new[p]
  BY LinkCount
<1>2. Local(p) /\ CallOK(p)
  BY <1>1, MovesLocal DEF CallInv
<1>3. ip[p] \in Inums
  BY <1>1, FSTypes DEF WalkInv, WalkOK, link_ip, HoldsDp, HoldsIp, HoldsPut, At, ParentCalls, PathCalls
<1>4. Start(p, new[p]) \in Inums /\ dinode[Start(p, new[p])].type # "none"
  BY <1>1, FSTypes, NullIsNone, AliveNow DEF Start, LinkInv
<1>5. cwd[p] \in Inums /\ ofile[p] \in Inums \cup {NoInode}
  BY FSTypes
<1>6. lock' = lock
  BY <1>1, <1>3, <1>4, <1>5 DEF link_ip, loads, iget, iput, goto, done, diskVars, callVars, namex, Start
<1>7. /\ dinode[ip[p]].nlink \in Int /\ dinode[ip[p]].nlink + 1 \in Int
      /\ dinode' = [dinode EXCEPT ![ip[p]].nlink = dinode[ip[p]].nlink + 1]
  BY <1>3, FSTypes, InodeFields DEF link_ip
<1>8. /\ \A j \in Inums : dinode'[j].type = dinode[j].type /\ dinode'[j].ents = dinode[j].ents
      /\ \A j \in Inums \ {ip[p]} : dinode'[j] = dinode[j]
      /\ dinode'[ip[p]].nlink = dinode[ip[p]].nlink + 1
  BY <1>3, <1>7, CountsLinks
<1>9. LockOK(p)' /\ LocksOnly(p)
  BY NullIsNone, <1>1, <1>2, <1>6, <1>3, <1>4, <1>5 DEF CallOK, LockOK, LocksOnly, LocksDp, LocksIp, LocksPut, Stands, StandsThen, ParentCalls, PathCalls
<1>10. AliveOK(p)'
  BY <1>1, <1>8, NullIsNone, AliveNow, AliveThen, <1>3, <1>4, <1>5
<1>11. KindOK(p)'
  BY <1>1, <1>2, <1>8, NullIsNone, <1>3, <1>4, <1>5 DEF CallOK, KindOK, Stands, StandsThen, ParentCalls, PathCalls
<1>13. PanicInv'
  <2>1. Points(p, "ip") = ip[p]
    BY <1>1 DEF Stands
  <2>2. loads(ip[p])
    BY DEF link_ip
  <2> QED
    BY <2>1, <2>2, <1>3, <1>4, <1>5, LoadsSafely
<1>14. CallInv'
  <2>1. SparesOthers(p)
    BY <1>8, SameNames
  <2> QED
    BY <1>1, <1>2, <1>9, <1>10, <1>11, <2>1, CallStep DEF CallOK
<1>15. DotInv'
  BY <1>1, <1>3, <1>8, NullIsNone, AliveNow, SameDots
<1>16. ASSUME NEW j \in Inums PROVE dinode'[j].nlink >= Cardinality(Links(j)')
  <2>1. Entries(j)' = Entries(j) /\ Subdirs(j)' = Subdirs(j)
    BY <1>8, SameNames
  <2>2. CASE j # ip[p]
    <3>1. CallsOn(j)' \subseteq CallsOn(j)
      BY <1>1, <1>2, <1>3, <2>2, CallsOnStep, NullIsNone DEF Pending, Stands, StandsThen
    <3>2. dinode'[j].nlink >= dinode[j].nlink
      BY <1>8, <2>2, FSTypes, InodeFields
    <3> QED
      BY <1>1, <2>1, <3>1, <3>2, NoMoreLinks
  <2>3. CASE j = ip[p]
    <3>1. CallsOn(j)' \subseteq CallsOn(j) \cup {p}
      BY <1>2, CallsOnStep
    <3>2. Links(j)' \subseteq Links(j) \cup {<<"call", p>>}
      BY <2>1, <3>1 DEF Links, Bundle
    <3>3. dinode[j].nlink >= Cardinality(Links(j))
      BY DEF LinkInv
    <3> QED
      <4>1. dinode'[j].nlink >= dinode[j].nlink + 1 /\ dinode[j].nlink \in Int /\ dinode'[j].nlink \in Int
        BY <1>7, <1>8, <2>3
      <4>2. IsFiniteSet(Links(j))
        BY LinksFinite
      <4> QED
        BY <3>2, <3>3, <4>1, <4>2, OneMore
  <2> QED
    BY <2>2, <2>3
<1>17. dinode'[ROOTINO].type = "dir"
  BY <1>8, NullIsNone DEF LinkInv
<1> QED
  BY <1>13, <1>14, <1>15, <1>16, <1>17 DEF LinkInv

\* link that has failed takes back the link it has counted. The rest of FSInv is kept.
LEMMA LinkBadKeeps ==
  ASSUME FSInv, NEW p \in Procs, link_bad(p)
  PROVE  CallInv' /\ DotInv' /\ LinkInv' /\ PanicInv'
<1> USE DEF FSInv, CountInv, FSTypeOK
<1>1. /\ CountInv' /\ Moves(p)
      /\ Stands(p, "link_bad", cwd[p], ofile[p], NoInode, ip[p], NoInode)
      /\ StandsThen(p, "user", cwd[p], ofile[p], NoInode, NoInode, ip[p])
      /\ pc'[p] = "iput" /\ rest'[p] = rest[p] /\ name'[p] = name[p] /\ new'[p] = new[p]
  BY LinkBadCount
<1>2. Local(p) /\ CallOK(p)
  BY <1>1, MovesLocal DEF CallInv
<1>3. ip[p] \in Inums
  BY <1>1, FSTypes DEF WalkInv, WalkOK, link_bad, HoldsDp, HoldsIp, HoldsPut, At, ParentCalls, PathCalls
<1>4. cwd[p] \in Inums /\ ofile[p] \in Inums \cup {NoInode}
  BY FSTypes
<1>5. lock' = lock
  BY <1>1, <1>3, <1>4 DEF link_bad, loads, iget, iput, goto, done, diskVars, callVars, namex
<1>6. /\ dinode[ip[p]].nlink \in Int /\ dinode[ip[p]].nlink - 1 \in Int
      /\ dinode' = [dinode EXCEPT ![ip[p]].nlink = dinode[ip[p]].nlink - 1]
  BY <1>3, FSTypes, InodeFields DEF link_bad
<1>7. /\ \A j \in Inums : dinode'[j].type = dinode[j].type /\ dinode'[j].ents = dinode[j].ents
      /\ \A j \in Inums \ {ip[p]} : dinode'[j] = dinode[j]
      /\ dinode'[ip[p]].nlink = dinode[ip[p]].nlink - 1
  BY <1>3, <1>6, CountsLinks
<1>8. LockOK(p)' /\ LocksOnly(p)
  BY NullIsNone, <1>1, <1>2, <1>5, <1>3, <1>4 DEF CallOK, LockOK, LocksOnly, LocksDp, LocksIp, LocksPut, Stands, StandsThen, ParentCalls, PathCalls
<1>9. AliveOK(p)'
  BY <1>1, <1>7, NullIsNone, AliveNow, AliveThen, <1>3, <1>4
<1>10. KindOK(p)'
  BY <1>1, <1>2, <1>7, NullIsNone, <1>3, <1>4 DEF CallOK, KindOK, Stands, StandsThen, ParentCalls, PathCalls
<1>12. PanicInv'
  <2>1. Points(p, "ip") = ip[p]
    BY <1>1 DEF Stands
  <2>2. loads(ip[p])
    BY DEF link_bad
  <2> QED
    BY <2>1, <2>2, <1>3, <1>4, LoadsSafely
<1>13. CallInv'
  <2>1. SparesOthers(p)
    BY <1>7, SameNames
  <2> QED
    BY <1>1, <1>2, <1>8, <1>9, <1>10, <2>1, CallStep DEF CallOK
<1>14. DotInv'
  BY <1>1, <1>3, <1>7, NullIsNone, AliveNow, SameDots
<1>15. ASSUME NEW j \in Inums PROVE dinode'[j].nlink >= Cardinality(Links(j)')
  <2>1. Entries(j)' = Entries(j) /\ Subdirs(j)' = Subdirs(j)
    BY <1>7, SameNames
  <2>2. CASE j # ip[p]
    <3>1. CallsOn(j)' \subseteq CallsOn(j)
      BY <1>1, <1>2, <1>3, <2>2, CallsOnStep, NullIsNone DEF Pending, Stands, StandsThen
    <3>2. dinode'[j].nlink >= dinode[j].nlink
      BY <1>7, <2>2, FSTypes, InodeFields
    <3> QED
      BY <1>1, <2>1, <3>1, <3>2, NoMoreLinks
  <2>3. CASE j = ip[p]
    <3>1. p \in CallsOn(j) /\ p \notin CallsOn(j)'
      BY <1>1, <1>2, <1>3, <2>3, CallsOnStep, NullIsNone DEF Pending, Stands, StandsThen
    <3>2. CallsOn(j)' \subseteq CallsOn(j) \ {p}
      BY <1>2, <3>1, CallsOnStep
    <3>3. <<"call", p>> \in Links(j) /\ Links(j)' \subseteq Links(j) \ {<<"call", p>>}
      BY <2>1, <3>1, <3>2 DEF Links, Bundle
    <3>4. dinode[j].nlink >= Cardinality(Links(j))
      BY DEF LinkInv
    <3> QED
      BY <1>6, <1>7, <2>3, <3>3, <3>4, LinksFinite, OneLess
  <2> QED
    BY <2>2, <2>3
<1>16. dinode'[ROOTINO].type = "dir"
  BY <1>7, NullIsNone DEF LinkInv
<1> QED
  BY <1>12, <1>13, <1>14, <1>15, <1>16 DEF LinkInv

\* unlink takes the link whose name it has cleared, and puts the inode back.
\* The rest of FSInv is kept.
LEMMA UnlinkEndKeeps ==
  ASSUME FSInv, NEW p \in Procs, unlink_end(p)
  PROVE  CallInv' /\ DotInv' /\ LinkInv' /\ PanicInv'
<1> USE DEF FSInv, CountInv, FSTypeOK
<1>1. /\ CountInv' /\ Moves(p)
      /\ Stands(p, "unlink_end", cwd[p], ofile[p], NoInode, ip[p], NoInode)
      /\ StandsThen(p, "user", cwd[p], ofile[p], NoInode, NoInode, ip[p])
      /\ pc'[p] = "iput" /\ rest'[p] = rest[p] /\ name'[p] = name[p] /\ new'[p] = new[p]
  BY UnlinkEndCount
<1>2. Local(p) /\ CallOK(p)
  BY <1>1, MovesLocal DEF CallInv
<1>3. ip[p] \in Inums
  BY <1>1, FSTypes DEF WalkInv, WalkOK, unlink_end, HoldsDp, HoldsIp, HoldsPut, At, ParentCalls, PathCalls
<1>4. cwd[p] \in Inums /\ ofile[p] \in Inums \cup {NoInode}
  BY FSTypes
<1>5. p # NoOne /\ NoOne \notin Procs
  BY FSAssumption DEF NoOne
<1>6. lock' = [lock EXCEPT ![ip[p]] = NoOne]
  BY <1>1, <1>3, <1>4, <1>5 DEF unlink_end, loads, iget, iput, goto, done, diskVars, callVars, namex
<1>7. /\ dinode[ip[p]].nlink \in Int /\ dinode[ip[p]].nlink - 1 \in Int
      /\ dinode' = [dinode EXCEPT ![ip[p]].nlink = dinode[ip[p]].nlink - 1]
  BY <1>3, FSTypes, InodeFields DEF unlink_end
<1>8. /\ \A j \in Inums : dinode'[j].type = dinode[j].type /\ dinode'[j].ents = dinode[j].ents
      /\ \A j \in Inums \ {ip[p]} : dinode'[j] = dinode[j]
      /\ dinode'[ip[p]].nlink = dinode[ip[p]].nlink - 1
  BY <1>3, <1>7, CountsLinks
<1>9. LockOK(p)' /\ LocksOnly(p)
  <2>1. \A i \in Inums : lock[i] = p <=> ip[p] = i
    BY <1>1, <1>2, <1>3 DEF CallOK, LockOK, LocksDp, LocksIp, LocksPut, Stands, unlink_end
  <2>2. \A i \in Inums : lock'[i] = (IF i = ip[p] THEN NoOne ELSE lock[i])
    BY <1>6 DEF DiskTypeOK
  <2>3. LocksOnly(p)
    BY <2>1, <2>2, <1>3 DEF LocksOnly
  <2>4. ~LocksDp(p)' /\ ~LocksIp(p)' /\ ~LocksPut(p)'
    BY <1>1 DEF LocksDp, LocksIp, LocksPut, StandsThen
  <2> QED
    BY <2>1, <2>2, <2>3, <2>4, <1>5 DEF LockOK
<1>10. AliveOK(p)'
  BY <1>1, <1>8, NullIsNone, AliveNow, AliveThen, <1>3, <1>4, <1>5
<1>11. KindOK(p)'
  BY <1>1, <1>2, <1>8, NullIsNone, <1>3, <1>4, <1>5 DEF CallOK, KindOK, Stands, StandsThen, ParentCalls, PathCalls
<1>13. PanicInv'
  BY <1>1, <1>3, <1>4, <1>5 DEF unlink_end, PanicInv
<1>14. CallInv'
  <2>1. SparesOthers(p)
    BY <1>8, SameNames
  <2> QED
    BY <1>1, <1>2, <1>9, <1>10, <1>11, <2>1, CallStep DEF CallOK
<1>15. DotInv'
  BY <1>1, <1>3, <1>8, NullIsNone, AliveNow, SameDots
<1>16. ASSUME NEW j \in Inums PROVE dinode'[j].nlink >= Cardinality(Links(j)')
  <2>1. Entries(j)' = Entries(j) /\ Subdirs(j)' = Subdirs(j)
    BY <1>8, SameNames
  <2>2. CASE j # ip[p]
    <3>1. CallsOn(j)' \subseteq CallsOn(j)
      BY <1>1, <1>2, <1>3, <2>2, CallsOnStep, NullIsNone DEF Pending, Stands, StandsThen
    <3>2. dinode'[j].nlink >= dinode[j].nlink
      BY <1>8, <2>2, FSTypes, InodeFields
    <3> QED
      BY <1>1, <2>1, <3>1, <3>2, NoMoreLinks
  <2>3. CASE j = ip[p]
    <3>1. p \in CallsOn(j) /\ p \notin CallsOn(j)'
      BY <1>1, <1>2, <1>3, <2>3, CallsOnStep, NullIsNone DEF Pending, Stands, StandsThen
    <3>2. CallsOn(j)' \subseteq CallsOn(j) \ {p}
      BY <1>2, <3>1, CallsOnStep
    <3>3. <<"call", p>> \in Links(j) /\ Links(j)' \subseteq Links(j) \ {<<"call", p>>}
      BY <2>1, <3>1, <3>2 DEF Links, Bundle
    <3>4. dinode[j].nlink >= Cardinality(Links(j))
      BY DEF LinkInv
    <3> QED
      BY <1>7, <1>8, <2>3, <3>3, <3>4, LinksFinite, OneLess
  <2> QED
    BY <2>2, <2>3
<1>17. dinode'[ROOTINO].type = "dir"
  BY <1>8, NullIsNone DEF LinkInv
<1> QED
  BY <1>13, <1>14, <1>15, <1>16, <1>17 DEF LinkInv

\* One entry of a directory and its link count change.
Rewrite(x, n, i, m) == [x EXCEPT !.ents[n] = i, !.nlink = m]

\* Writing a name and a number of links at once changes nothing else.
LEMMA EntryAndCount ==
  ASSUME NEW x \in Inodes, NEW n \in AllNames, NEW i \in Inums \cup {NoInode}, NEW m \in Int
  PROVE  Rewrite(x, n, i, m) = [type |-> x.type, nlink |-> m, ents |-> [x.ents EXCEPT ![n] = i]]
<1> DEFINE y == [x EXCEPT !.ents[n] = i]
<1>1. y = [type |-> x.type, nlink |-> x.nlink, ents |-> [x.ents EXCEPT ![n] = i]]
  BY EntryUpdate
<1>2. Rewrite(x, n, i, m) = [y EXCEPT !.nlink = m]
  BY InodeFields DEF Rewrite
<1> HIDE DEF y
<1> QED
  BY <1>1, <1>2

\* A directory that p writes is not one in which another process unlinks.
LEMMA OwnDirectory ==
  ASSUME CountInv, CallInv, NEW p \in Procs, NEW d \in Inums, lock[d] \in {p, NoOne},
         NEW q \in Procs \ {p}, At(q) = "unlink_ip"
  PROVE  Points(q, "dp") \in Inums /\ Points(q, "dp") # d
<1>1. Points(q, "dp") \in Inums
  BY PointsThere DEF CountInv, HoldsDp
<1>2. lock[Points(q, "dp")] = q
  BY <1>1 DEF CallInv, CallOK, LockOK, LocksDp
<1>3. q # NoOne
  BY FSAssumption DEF NoOne
<1> QED
  BY <1>1, <1>2, <1>3

\* Writing entries of one's own directory spares the others.
LEMMA OneDirectory ==
  ASSUME CountInv, CallInv, NEW p \in Procs, NEW d \in Inums, lock[d] \in {p, NoOne},
         \A j \in Inums : dinode'[j].type = dinode[j].type,
         \A j \in Inums \ {d} : dinode'[j].ents = dinode[j].ents
  PROVE  SparesOthers(p)
<1>1. \A q \in Procs, k \in Slots : Points(q, k) \in Inums \cup {NoInode}
  BY PointsTyped DEF CountInv
<1>2. \A q \in Procs \ {p} : At(q) = "unlink_ip" => Points(q, "dp") \in Inums \ {d}
  BY OwnDirectory
<1> QED
  BY <1>1, <1>2 DEF SparesOthers

\* A free inode is not linked.
LEMMA FreeIsUnlinked ==
  ASSUME FSTypeOK, LinkInv, NEW i \in Inums, dinode[i].nlink = 0
  PROVE  /\ Links(i) = {} /\ Entries(i) = {} /\ Subdirs(i) = {} /\ CallsOn(i) = {} /\ i # ROOTINO
<1>1. IsFiniteSet(Links(i)) /\ Cardinality(Links(i)) \in Nat
  BY LinksFinite
<1>2. Cardinality(Links(i)) = 0
  BY <1>1 DEF LinkInv
<1>3. Links(i) = {}
  BY <1>1, <1>2, FS_EmptySet
<1>4. /\ {"name"} \X Entries(i) = {} /\ {"dir"} \X Subdirs(i) = {} /\ {"call"} \X CallsOn(i) = {}
      /\ {"root"} \X ({ROOTINO} \cap {i}) = {}
  BY <1>3 DEF Links, Bundle
<1>5. \A S, t : {t} \X S = {} => S = {}
  <2> SUFFICES ASSUME NEW S, NEW t, {t} \X S = {}, NEW x \in S PROVE FALSE
    OBVIOUS
  <2>1. <<t, x>> \in {t} \X S
    OBVIOUS
  <2> QED
    BY <2>1
<1>6. {ROOTINO} \cap {i} = {}
  BY <1>4, <1>5
<1>7. i # ROOTINO
  BY <1>6
<1> QED
  BY <1>3, <1>4, <1>5, <1>7

\* link writes the name that it has counted. The rest of FSInv is kept.
LEMMA LinkNameKeeps ==
  ASSUME FSInv, NEW p \in Procs, link_dp(p), Found(p) = NoInode
  PROVE  CallInv' /\ DotInv' /\ LinkInv' /\ PanicInv'
<1> USE DEF FSInv, CountInv, FSTypeOK
<1>1. /\ CountInv' /\ Moves(p)
      /\ Stands(p, "link_dp", cwd[p], ofile[p], dp[p], ip[p], NoInode)
      /\ StandsThen(p, "link_end", cwd[p], ofile[p], NoInode, ip[p], dp[p])
      /\ pc'[p] = "iput" /\ rest'[p] = rest[p] /\ name'[p] = name[p] /\ new'[p] = new[p]
  BY LinkNameCount
<1>2. Local(p) /\ CallOK(p)
  BY <1>1, MovesLocal DEF CallInv
<1>3. dp[p] \in Inums
  BY <1>1, FSTypes DEF WalkInv, WalkOK, link_dp, HoldsDp, HoldsIp, HoldsPut, At, ParentCalls, PathCalls
<1>4. ip[p] \in Inums
  BY <1>1, FSTypes DEF WalkInv, WalkOK, link_dp, HoldsDp, HoldsIp, HoldsPut, At, ParentCalls, PathCalls
<1>5. cwd[p] \in Inums /\ ofile[p] \in Inums \cup {NoInode}
  BY FSTypes
<1>6. name[p] \in Names /\ name[p] \in AllNames /\ Lookup(dp[p], name[p]) = NoInode /\ lock[dp[p]] = NoOne /\ dp[p] # NoInode
  <2>1. dinode[dp[p]].type = "dir"
    BY <1>1, <1>2 DEF CallOK, KindOK, Stands, ParentCalls
  <2>2. Lookup(dp[p], ".") = dp[p] /\ dp[p] # NoInode /\ Lookup(dp[p], "..") # NoInode
    BY <1>3, <2>1, NullIsNone DEF DotInv
  <2> QED
    BY FSTypes, <2>2 DEF AllNames, Found, link_dp, Lockable
<1>7. dinode[ip[p]].type # "dir" /\ ip[p] # NoInode
  BY <1>1, <1>2, <1>4, NullIsNone DEF CallOK, KindOK, Stands
<1>8. lock' = lock
  BY <1>1, <1>3, <1>4, <1>5, <1>6, <1>7 DEF link_dp, loads, iget, iput, goto, done, diskVars, callVars, namex, Found
<1>9. /\ dinode[dp[p]].nlink \in Int
      /\ dinode'[dp[p]] = [type |-> dinode[dp[p]].type, nlink |-> dinode[dp[p]].nlink,
                            ents |-> [dinode[dp[p]].ents EXCEPT ![name[p]] = ip[p]]]
      /\ \A j \in Inums \ {dp[p]} : dinode'[j] = dinode[j]
  <2>1. dinode' = [dinode EXCEPT ![dp[p]].ents[name[p]] = ip[p]] /\ dinode \in [Inums -> Inodes]
    BY <1>6 DEF link_dp, DiskTypeOK
  <2>2. dinode'[dp[p]] = [dinode[dp[p]] EXCEPT !.ents[name[p]] = ip[p]] /\ dinode[dp[p]] \in Inodes
    BY <1>3, <2>1
  <2> QED
    BY <1>3, <1>4, <1>6, <2>1, <2>2, EntryUpdate, InodeFields
<1>10. /\ dinode'[dp[p]].type = dinode[dp[p]].type /\ dinode'[dp[p]].nlink = dinode[dp[p]].nlink
       /\ \A k \in AllNames : dinode'[dp[p]].ents[k] = IF k = name[p] THEN ip[p] ELSE Lookup(dp[p], k)
  <2>1. dinode[dp[p]].ents \in [AllNames -> Inums \cup {NoInode}]
    BY <1>3, FSTypes, InodeFields
  <2> QED
    BY <1>6, <1>9, <2>1 DEF Lookup
<1>11. \A j \in Inums : dinode'[j].type = dinode[j].type /\ dinode'[j].nlink = dinode[j].nlink
  BY <1>9, <1>10
<1>12. \A j \in Inums, k \in AllNames : Lookup(j, k)' = IF j = dp[p] /\ k = name[p] THEN ip[p] ELSE Lookup(j, k)
  BY <1>9, <1>10 DEF Lookup
<1>13. LockOK(p)' /\ LocksOnly(p)
  BY NullIsNone, <1>1, <1>2, <1>8, <1>3, <1>4, <1>5, <1>6, <1>7 DEF CallOK, LockOK, LocksOnly, LocksDp, LocksIp, LocksPut, Stands, StandsThen, ParentCalls, PathCalls
<1>14. AliveOK(p)'
  BY <1>1, <1>11, NullIsNone, AliveNow, AliveThen, <1>3, <1>4, <1>5, <1>6, <1>7
<1>15. KindOK(p)'
  BY <1>1, <1>2, <1>11, NullIsNone, <1>3, <1>4, <1>5, <1>6, <1>7 DEF CallOK, KindOK, Stands, StandsThen, ParentCalls, PathCalls
<1>17. PanicInv'
  <2>1. Points(p, "dp") = dp[p]
    BY <1>1 DEF Stands
  <2>2. loads(dp[p])
    BY DEF link_dp
  <2> QED
    BY <2>1, <2>2, <1>3, <1>4, <1>5, <1>6, <1>7, LoadsSafely
<1>18. CallInv'
  <2>1. SparesOthers(p)
    BY <1>3, <1>6, <1>9, <1>11, OneDirectory
  <2> QED
    BY <1>1, <1>2, <1>13, <1>14, <1>15, <2>1, CallStep DEF CallOK
<1>19. DotInv'
  <2>1. dinode[dp[p]].type # "none"
    BY <1>1, <1>3, NullIsNone, AliveNow
  <2>2. "." \in AllNames /\ "." # name[p] /\ ".." \in AllNames /\ ".." # name[p]
    BY <1>6, FSAssumption DEF AllNames
  <2> QED
    BY <1>9, <1>11, <1>12, <2>1, <2>2 DEF DotInv
<1>20. ASSUME NEW j \in Inums PROVE dinode'[j].nlink >= Cardinality(Links(j)')
  <2>1. \A k \in Names : k \in AllNames
    BY DEF AllNames
  <2>2. Subdirs(j)' \subseteq Subdirs(j)
    <3> SUFFICES ASSUME NEW k \in Names, k \in Subdirs(j)' PROVE k \in Subdirs(j)
      BY DEF Subdirs
    <3>1. Lookup(j, k)' \in Inums /\ dinode'[Lookup(j, k)'].type = "dir"
      BY <2>1, <1>1, <1>4, <1>12, FSTypes DEF Subdirs
    <3>2. Lookup(j, k)' = Lookup(j, k)
      BY <1>4, <1>7, <1>11, <1>12, <2>1, <3>1
    <3> QED
      BY <1>11, <3>1, <3>2, NullIsNone DEF Subdirs
  <2>3. CASE j # ip[p]
    <3>1. Entries(j)' \subseteq Entries(j)
      BY <1>12, <2>1, <2>3 DEF Entries
    <3>2. CallsOn(j)' \subseteq CallsOn(j)
      BY <1>1, <1>2, <1>4, <2>3, CallsOnStep DEF Pending, Stands, StandsThen
    <3>3. dinode'[j].nlink >= dinode[j].nlink
      BY <1>11, FSTypes, InodeFields
    <3> QED
      BY <1>1, <2>2, <3>1, <3>2, <3>3, NoMoreLinks
  <2>4. CASE j = ip[p]
    <3>1. Entries(j)' \subseteq Entries(j) \cup {<<dp[p], name[p]>>}
      BY <1>12, <2>1 DEF Entries
    <3>2. p \in CallsOn(j) /\ p \notin CallsOn(j)'
      BY <1>1, <1>2, <1>7, <2>4, CallsOnStep DEF Pending, Stands, StandsThen
    <3>3. CallsOn(j)' \subseteq CallsOn(j) \ {p}
      BY <1>2, <3>2, CallsOnStep
    <3>4. /\ <<"call", p>> \in Links(j)
          /\ Links(j)' \subseteq (Links(j) \ {<<"call", p>>}) \cup {<<"name", <<dp[p], name[p]>>>>}
      BY <2>2, <3>1, <3>2, <3>3 DEF Links, Bundle
    <3>5. /\ dinode[j].nlink >= Cardinality(Links(j)) /\ dinode[j].nlink \in Int
          /\ dinode'[j].nlink \in Int /\ dinode'[j].nlink >= dinode[j].nlink /\ IsFiniteSet(Links(j))
      BY <1>11, FSTypes, InodeFields, LinksFinite DEF LinkInv
    <3> QED
      BY SMTT(30), <3>4, <3>5, OneForAnother
  <2> QED
    BY <2>3, <2>4
<1>21. dinode'[ROOTINO].type = "dir"
  BY <1>11, NullIsNone DEF LinkInv
<1> QED
  BY <1>17, <1>18, <1>19, <1>20, <1>21 DEF LinkInv

\* unlink clears the name, and takes one link from the parent of a directory.
\* The rest of FSInv is kept.
LEMMA UnlinkNameKeeps ==
  ASSUME FSInv, NEW p \in Procs, unlink_ip(p), ~(dinode[ip[p]].type = "dir" /\ ~Empty(ip[p]))
  PROVE  CallInv' /\ DotInv' /\ LinkInv' /\ PanicInv'
<1> USE DEF FSInv, CountInv, FSTypeOK
<1>1. /\ CountInv' /\ Moves(p)
      /\ Stands(p, "unlink_ip", cwd[p], ofile[p], dp[p], ip[p], NoInode)
      /\ StandsThen(p, "unlink_end", cwd[p], ofile[p], NoInode, ip[p], dp[p])
      /\ pc'[p] = "iput" /\ rest'[p] = rest[p] /\ name'[p] = name[p] /\ new'[p] = new[p]
  BY UnlinkNameCount
<1>2. Local(p) /\ CallOK(p)
  BY <1>1, MovesLocal DEF CallInv
<1>3. dp[p] \in Inums
  BY <1>1, FSTypes DEF WalkInv, WalkOK, unlink_ip, HoldsDp, HoldsIp, HoldsPut, At, ParentCalls, PathCalls
<1>4. ip[p] \in Inums
  BY <1>1, FSTypes DEF WalkInv, WalkOK, unlink_ip, HoldsDp, HoldsIp, HoldsPut, At, ParentCalls, PathCalls
<1>5. cwd[p] \in Inums /\ ofile[p] \in Inums \cup {NoInode}
  BY FSTypes
<1>6. p # NoOne /\ NoOne \notin Procs
  BY FSAssumption DEF NoOne
<1>7. name[p] \in Names /\ name[p] \in AllNames /\ Lookup(dp[p], name[p]) = ip[p] /\ lock[dp[p]] = p /\ ip[p] # dp[p]
  <2>1. name[p] \in Names /\ Lookup(dp[p], name[p]) = ip[p]
    BY <1>1, <1>2 DEF CallOK, KindOK, Stands
  <2>2. lock[dp[p]] = p /\ lock[ip[p]] = NoOne
    BY <1>1, <1>2, <1>3 DEF CallOK, LockOK, LocksDp, Stands, unlink_ip, Lockable
  <2> QED
    BY <1>6, <2>1, <2>2 DEF AllNames
<1>8. dinode[ip[p]].nlink >= 1 /\ ip[p] # NoInode
  BY <1>3, <1>4, <1>7, NamedIsLinked, LinkedIsAlive, NullIsNone
<1>9. dinode[dp[p]].nlink \in Int /\ dinode[ip[p]].nlink \in Int /\ dinode[dp[p]] \in Inodes
  BY <1>3, <1>4, FSTypes, InodeFields
<1>10. lock' = [lock EXCEPT ![ip[p]] = p, ![dp[p]] = NoOne]
  BY <1>1, <1>3, <1>4, <1>5, <1>6, <1>7, <1>8, <1>9 DEF unlink_ip, loads, iget, iput, goto, done, diskVars, callVars, namex
<1> DEFINE isdir == dinode[ip[p]].type = "dir"
           less == IF isdir THEN dinode[dp[p]].nlink - 1 ELSE dinode[dp[p]].nlink
<1>11. /\ less \in Int
       /\ dinode'[dp[p]] = [type |-> dinode[dp[p]].type, nlink |-> less,
                             ents |-> [dinode[dp[p]].ents EXCEPT ![name[p]] = NoInode]]
       /\ \A j \in Inums \ {dp[p]} : dinode'[j] = dinode[j]
  <2>1. [dinode[dp[p]] EXCEPT !.ents[name[p]] = NoInode].nlink = dinode[dp[p]].nlink
    BY <1>7, <1>9, EntryUpdate
  <2>2. dinode' = [dinode EXCEPT ![dp[p]].ents[name[p]] = NoInode, ![dp[p]].nlink = less]
    <3>1. dinode' = [dinode EXCEPT ![dp[p]].ents[name[p]] = NoInode, ![dp[p]].nlink = IF isdir THEN @ - 1 ELSE @]
      BY DEF unlink_ip
    <3> QED
      BY <1>3, <1>9, <2>1, <3>1 DEF DiskTypeOK
  <2>3. less \in Int
    BY <1>9
  <2> HIDE DEF less
  <2>4. /\ dinode'[dp[p]] = Rewrite(dinode[dp[p]], name[p], NoInode, less)
        /\ \A j \in Inums \ {dp[p]} : dinode'[j] = dinode[j]
    BY <1>3, <2>2 DEF DiskTypeOK, Rewrite
  <2>5. dinode[dp[p]] \in Inodes /\ name[p] \in AllNames /\ NoInode \in Inums \cup {NoInode}
    BY <1>7, <1>9
  <2>6. Rewrite(dinode[dp[p]], name[p], NoInode, less)
          = [type |-> dinode[dp[p]].type, nlink |-> less, ents |-> [dinode[dp[p]].ents EXCEPT ![name[p]] = NoInode]]
    BY <2>3, <2>5, EntryAndCount
  <2> QED
    BY <2>3, <2>4, <2>6
<1> HIDE DEF isdir, less
<1>12. /\ dinode'[dp[p]].type = dinode[dp[p]].type /\ dinode'[dp[p]].nlink = less
       /\ \A k \in AllNames : dinode'[dp[p]].ents[k] = IF k = name[p] THEN NoInode ELSE Lookup(dp[p], k)
  <2>1. dinode[dp[p]].ents \in [AllNames -> Inums \cup {NoInode}]
    BY <1>3, FSTypes, InodeFields
  <2> QED
    BY <1>7, <1>11, <2>1 DEF Lookup
<1>13. \A j \in Inums : dinode'[j].type = dinode[j].type
  BY <1>11, <1>12
<1>14. \A j \in Inums, k \in AllNames : Lookup(j, k)' = IF j = dp[p] /\ k = name[p] THEN NoInode ELSE Lookup(j, k)
  BY <1>11, <1>12 DEF Lookup
<1>15. LockOK(p)' /\ LocksOnly(p)
  <2>1. \A i \in Inums : lock[i] = p <=> dp[p] = i
    BY <1>1, <1>2 DEF CallOK, LockOK, LocksDp, LocksIp, LocksPut, Stands, unlink_ip
  <2>2. \A i \in Inums : lock'[i] = (IF i = dp[p] THEN NoOne ELSE IF i = ip[p] THEN p ELSE lock[i])
    BY <1>10, <1>3, <1>4 DEF DiskTypeOK
  <2>3. lock[ip[p]] = NoOne
    BY DEF unlink_ip, Lockable
  <2>4. LocksOnly(p)
    BY <2>1, <2>2, <2>3 DEF LocksOnly
  <2>5. ~LocksDp(p)' /\ LocksIp(p)' /\ ~LocksPut(p)' /\ Points(p, "ip")' = ip[p]
    BY <1>1 DEF LocksDp, LocksIp, LocksPut, StandsThen
  <2>6. \A i \in Inums : lock'[i] = p <=> ip[p] = i
    BY <2>1, <2>2, <1>6, <1>7
  <2> QED
    BY <2>4, <2>5, <2>6 DEF LockOK
<1>16. AliveOK(p)'
  BY <1>1, <1>13, NullIsNone, AliveNow, AliveThen, <1>3, <1>4, <1>5, <1>6, <1>7, <1>8, <1>9
<1>17. KindOK(p)'
  BY <1>1, <1>2, <1>13, NullIsNone, <1>3, <1>4, <1>5, <1>6, <1>7, <1>8, <1>9 DEF CallOK, KindOK, Stands, StandsThen, ParentCalls, PathCalls
<1>19. PanicInv'
  BY <1>8, <1>9 DEF unlink_ip, PanicInv
<1>20. CallInv'
  <2>1. SparesOthers(p)
    BY <1>3, <1>7, <1>11, <1>13, OneDirectory
  <2> QED
    BY <1>1, <1>2, <1>15, <1>16, <1>17, <2>1, CallStep DEF CallOK
<1>21. DotInv'
  <2>1. dinode[dp[p]].type # "none"
    BY <1>1, <1>3, NullIsNone, AliveNow
  <2>2. "." \in AllNames /\ "." # name[p] /\ ".." \in AllNames /\ ".." # name[p]
    BY <1>7, FSAssumption DEF AllNames
  <2> QED
    BY <1>11, <1>13, <1>14, <2>1, <2>2 DEF DotInv
<1>22. ASSUME NEW j \in Inums PROVE dinode'[j].nlink >= Cardinality(Links(j)')
  <2>1. \A k \in Names : k \in AllNames
    BY DEF AllNames
  <2>2. Entries(j)' \subseteq Entries(j) \ {<<dp[p], name[p]>>}
    BY <1>14, <2>1, NullIsNone DEF Entries
  <2>3. Subdirs(j)' \subseteq Subdirs(j) /\ (j = dp[p] => name[p] \notin Subdirs(j)')
    <3>1. ASSUME NEW k \in Names, k \in Subdirs(j)' PROVE k \in Subdirs(j) /\ ~(j = dp[p] /\ k = name[p])
      <4>1. Lookup(j, k)' # NoInode /\ dinode'[Lookup(j, k)'].type = "dir"
        BY <3>1 DEF Subdirs
      <4>2. Lookup(j, k)' = Lookup(j, k) /\ Lookup(j, k) \in Inums /\ ~(j = dp[p] /\ k = name[p])
        BY <1>14, <2>1, <4>1, FSTypes
      <4> QED
        BY <1>13, <4>1, <4>2 DEF Subdirs
    <3> QED
      BY <1>7, <3>1 DEF Subdirs
  <2>4. j # ip[p] => CallsOn(j)' \subseteq CallsOn(j)
    BY <1>1, <1>2, <1>4, CallsOnStep DEF Pending, Stands, StandsThen
  <2>5. dinode[j].nlink >= Cardinality(Links(j)) /\ dinode[j].nlink \in Int /\ IsFiniteSet(Links(j))
    BY FSTypes, InodeFields, LinksFinite DEF LinkInv
  <2>6. CASE j = ip[p]
    <3>1. <<dp[p], name[p]>> \in Entries(j)
      BY <1>3, <1>7, <2>6 DEF Entries
    <3>2. CallsOn(j)' \subseteq CallsOn(j) \cup {p}
      BY <1>2, CallsOnStep
    <3>3. /\ <<"name", <<dp[p], name[p]>>>> \in Links(j)
          /\ Links(j)' \subseteq (Links(j) \ {<<"name", <<dp[p], name[p]>>>>}) \cup {<<"call", p>>}
      BY <2>2, <2>3, <3>1, <3>2 DEF Links, Bundle
    <3>4. dinode'[j].nlink \in Int /\ dinode'[j].nlink >= dinode[j].nlink
      BY <1>11, <1>4, <1>7, <2>5, <2>6
    <3> QED
      BY <2>5, <3>3, <3>4, OneForAnother
  <2>7. CASE j = dp[p] /\ isdir
    <3>1. name[p] \in Subdirs(j)
      BY <1>7, <1>8, <2>7 DEF Subdirs, isdir
    <3>2. /\ <<"dir", name[p]>> \in Links(j)
          /\ Links(j)' \subseteq Links(j) \ {<<"dir", name[p]>>}
      BY <1>7, <2>2, <2>3, <2>4, <2>7, <3>1 DEF Links, Bundle
    <3>3. dinode'[j].nlink \in Int /\ dinode'[j].nlink >= dinode[j].nlink - 1
      BY <1>12, <1>11, <2>5, <2>7 DEF less
    <3> QED
      BY <2>5, <3>2, <3>3, OneLess
  <2>8. CASE j # ip[p] /\ ~(j = dp[p] /\ isdir)
    <3>1. dinode'[j].nlink = dinode[j].nlink
      BY <1>12, <1>11, <2>8 DEF less
    <3>2. dinode'[j].nlink >= dinode[j].nlink
      BY <2>5, <3>1
    <3>3. Entries(j)' \subseteq Entries(j) /\ Subdirs(j)' \subseteq Subdirs(j) /\ CallsOn(j)' \subseteq CallsOn(j)
      BY <2>2, <2>3, <2>4, <2>8
    <3> QED
      BY <1>1, <3>2, <3>3, NoMoreLinks
  <2> QED
    BY <2>6, <2>7, <2>8
<1>23. dinode'[ROOTINO].type = "dir"
  BY <1>13, NullIsNone DEF LinkInv
<1> QED
  BY <1>19, <1>20, <1>21, <1>22, <1>23 DEF LinkInv

\* create of a new name: ialloc, the names . and .. of a directory, the name in the parent.
\* The rest of FSInv is kept.
LEMMA CreateNewKeeps ==
  ASSUME FSInv, NEW p \in Procs, create_new(p), FreeInodes # {}
  PROVE  CallInv' /\ DotInv' /\ LinkInv' /\ PanicInv'
<1> USE DEF FSInv, CountInv, FSTypeOK
<1>1. /\ CountInv' /\ Moves(p)
      /\ Stands(p, pc[p], cwd[p], ofile[p], dp[p], NoInode, NoInode)
      /\ StandsThen(p, AfterNew(p), cwd[p], ofile[p], NoInode, FirstFree, dp[p])
      /\ pc'[p] = "iput" /\ rest'[p] = rest[p] /\ name'[p] = name[p] /\ new'[p] = new[p]
  BY CreateNewCount
<1>2. Local(p) /\ CallOK(p)
  BY <1>1, MovesLocal DEF CallInv
<1>3. pc[p] \in {"create_dp", "mkdir_dp"}
  BY DEF create_new
<1>4. dp[p] \in Inums
  BY <1>1, FSTypes DEF WalkInv, WalkOK, create_new, HoldsDp, HoldsIp, HoldsPut, At, ParentCalls, PathCalls
<1>5. cwd[p] \in Inums /\ ofile[p] \in Inums \cup {NoInode}
  BY FSTypes
<1>6. p # NoOne /\ NoOne \notin Procs
  BY FSAssumption DEF NoOne
<1>7. FirstFree \in Inums /\ dinode[FirstFree].type = "none" /\ lock[FirstFree] = NoOne
  <2>1. FirstFree \in FreeInodes
    BY FirstInode DEF FreeInodes, FirstFree
  <2> QED
    BY <2>1 DEF FreeInodes, create_new, Lockable, FirstFree
<1>8. dinode[dp[p]].type = "dir" /\ dp[p] # FirstFree /\ dp[p] # NoInode /\ FirstFree # NoInode
  <2>1. dinode[dp[p]].type = "dir"
    BY <1>1, <1>2, <1>3 DEF CallOK, KindOK, Stands, ParentCalls
  <2> QED
    BY <1>4, <1>7, <2>1, NullIsNone
<1>9. name[p] \in Names /\ name[p] \in AllNames /\ Lookup(dp[p], name[p]) = NoInode /\ lock[dp[p]] = NoOne
  <2>1. Lookup(dp[p], ".") = dp[p] /\ Lookup(dp[p], "..") # NoInode
    BY <1>4, <1>8 DEF DotInv
  <2> QED
    BY FSTypes, <1>8, <2>1 DEF AllNames, create_new, Lockable
<1>10. dinode[dp[p]].nlink \in Int /\ dinode[dp[p]] \in Inodes
  BY <1>4, FSTypes, InodeFields
<1>11. AfterNew(p) \in {"create_end", "mkdir_end"}
  BY DEF AfterNew
<1>12. /\ Entries(FirstFree) = {} /\ CallsOn(FirstFree) = {} /\ FirstFree # ROOTINO
     /\ dinode[FirstFree].nlink = 0
  <2>1. dinode[FirstFree].nlink = 0
    BY <1>7 DEF DotInv, Free
  <2> QED
    BY <1>7, <2>1, FreeIsUnlinked
<1>13. lock' = [lock EXCEPT ![FirstFree] = p]
  BY <1>1, <1>3, <1>4, <1>5, <1>6, <1>7, <1>8, <1>9, <1>10, <1>11, <1>12 DEF create_new, loads, iget, iput, goto, done, diskVars, callVars, namex, FirstFree, AfterNew
<1> DEFINE isdir == pc[p] = "mkdir_dp"
           more == IF isdir THEN dinode[dp[p]].nlink + 1 ELSE dinode[dp[p]].nlink
           dots == [NoEntries EXCEPT !["."] = FirstFree, ![".."] = dp[p]]
           inode == [type |-> IF isdir THEN "dir" ELSE "file", nlink |-> 1,
                     ents |-> IF isdir THEN dots ELSE NoEntries]
<1>14. /\ inode.nlink = 1 /\ inode.type # "none" /\ (inode.type = "dir" <=> isdir)
       /\ \A k \in Names : inode.ents[k] = NoInode
       /\ isdir => inode.ents["."] = FirstFree /\ inode.ents[".."] = dp[p]
  <2>1. \A k \in Names : dots[k] = NoInode /\ NoEntries[k] = NoInode
    BY FSAssumption DEF NoEntries, AllNames
  <2>2. dots["."] = FirstFree /\ dots[".."] = dp[p]
    BY DEF NoEntries, AllNames
  <2> QED
    BY <2>1, <2>2
<1>15. dinode' = [dinode EXCEPT ![FirstFree] = inode, ![dp[p]].ents[name[p]] = FirstFree,
                                ![dp[p]].nlink = IF isdir THEN @ + 1 ELSE @]
  BY DEF create_new, FirstFree
<1> HIDE DEF inode, dots
<1>16. /\ more \in Int
       /\ dinode'[dp[p]] = [type |-> dinode[dp[p]].type, nlink |-> more,
                             ents |-> [dinode[dp[p]].ents EXCEPT ![name[p]] = FirstFree]]
       /\ dinode'[FirstFree] = inode
       /\ \A j \in Inums \ {dp[p], FirstFree} : dinode'[j] = dinode[j]
  <2>1. [dinode[dp[p]] EXCEPT !.ents[name[p]] = FirstFree].nlink = dinode[dp[p]].nlink
    BY <1>7, <1>9, <1>10, EntryUpdate
  <2>2. dinode' = [dinode EXCEPT ![FirstFree] = inode, ![dp[p]].ents[name[p]] = FirstFree, ![dp[p]].nlink = more]
    BY <1>4, <1>7, <1>8, <1>10, <1>15, <2>1 DEF DiskTypeOK
  <2>3. more \in Int
    BY <1>10
  <2> HIDE DEF more
  <2>4. /\ dinode'[dp[p]] = Rewrite(dinode[dp[p]], name[p], FirstFree, more)
        /\ dinode'[FirstFree] = inode
        /\ \A j \in Inums \ {dp[p], FirstFree} : dinode'[j] = dinode[j]
    BY <1>4, <1>7, <1>8, <2>2 DEF DiskTypeOK, Rewrite
  <2> QED
    BY <1>7, <1>9, <1>10, <2>3, <2>4, EntryAndCount
<1> HIDE DEF isdir, more
<1>17. /\ dinode'[dp[p]].type = dinode[dp[p]].type /\ dinode'[dp[p]].nlink = more
       /\ \A k \in AllNames : dinode'[dp[p]].ents[k] = IF k = name[p] THEN FirstFree ELSE Lookup(dp[p], k)
  <2>1. dinode[dp[p]].ents \in [AllNames -> Inums \cup {NoInode}]
    BY <1>4, FSTypes, InodeFields
  <2> QED
    BY <1>9, <1>16, <2>1 DEF Lookup
<1>18. /\ \A j \in Inums \ {FirstFree} : dinode'[j].type = dinode[j].type
       /\ \A j \in Inums : dinode[j].type # "none" => dinode'[j].type = dinode[j].type
       /\ dinode'[FirstFree].type # "none"
  BY <1>16, <1>14, <1>17, <1>7
<1>19. /\ \A j \in Inums \ {FirstFree}, k \in AllNames : Lookup(j, k)' = IF j = dp[p] /\ k = name[p] THEN FirstFree ELSE Lookup(j, k)
       /\ \A j \in Inums, k \in Names : j = FirstFree => Lookup(j, k)' = NoInode
  <2>1. ASSUME NEW j \in Inums \ {FirstFree}, NEW k \in AllNames
        PROVE  Lookup(j, k)' = IF j = dp[p] /\ k = name[p] THEN FirstFree ELSE Lookup(j, k)
    <3>1. Lookup(j, k)' = dinode'[j].ents[k] /\ Lookup(j, k) = dinode[j].ents[k]
      BY DEF Lookup
    <3>2. CASE j = dp[p]
      BY <1>17, <3>1, <3>2
    <3>3. CASE j # dp[p]
      <4>1. dinode'[j] = dinode[j]
        BY <1>16, <3>3
      <4> QED
        BY <3>1, <3>3, <4>1
    <3> QED
      BY <3>2, <3>3
  <2>2. ASSUME NEW j \in Inums, NEW k \in Names, j = FirstFree PROVE Lookup(j, k)' = NoInode
    <3>1. Lookup(j, k)' = dinode'[j].ents[k]
      BY DEF Lookup
    <3>2. dinode'[j] = inode
      BY <1>16, <2>2
    <3>3. inode.ents[k] = NoInode
      BY <1>14
    <3>4. dinode'[j].ents[k] = inode.ents[k]
      BY <3>2
    <3> QED
      BY <3>1, <3>3, <3>4
  <2> QED
    BY <2>1, <2>2
<1>20. LockOK(p)' /\ LocksOnly(p)
  <2>1. \A i \in Inums : lock[i] # p
    BY <1>1, <1>2, <1>3 DEF CallOK, LockOK, LocksDp, LocksIp, LocksPut, Stands
  <2>2. \A i \in Inums : lock'[i] = (IF i = FirstFree THEN p ELSE lock[i])
    BY <1>13, <1>7 DEF DiskTypeOK
  <2>3. LocksOnly(p)
    BY <2>1, <2>2, <1>7 DEF LocksOnly
  <2>4. ~LocksDp(p)' /\ LocksIp(p)' /\ ~LocksPut(p)' /\ Points(p, "ip")' = FirstFree
    BY <1>1, <1>11 DEF LocksDp, LocksIp, LocksPut, StandsThen
  <2>5. \A i \in Inums : lock'[i] = p <=> FirstFree = i
    BY <2>1, <2>2
  <2> QED
    BY <2>3, <2>4, <2>5 DEF LockOK
<1>21. AliveOK(p)'
  BY <1>1, <1>18, NullIsNone, AliveNow, AliveThen, <1>3, <1>4, <1>5, <1>6, <1>7, <1>8, <1>9, <1>10, <1>11, <1>12
<1>22. KindOK(p)'
  BY <1>1, <1>2, <1>18, NullIsNone, <1>3, <1>4, <1>5, <1>6, <1>7, <1>8, <1>9, <1>10, <1>11, <1>12 DEF CallOK, KindOK, Stands, StandsThen, ParentCalls, PathCalls
<1>24. PanicInv'
  BY <1>1, <1>3, <1>4, <1>5, <1>6, <1>7, <1>8, <1>9, <1>10, <1>11, <1>12 DEF create_new, PanicInv
<1>25. CallInv'
  <2>1. SparesOthers(p)
    <3>1. \A q \in Procs, k \in Slots : Points(q, k) \in Inums \cup {NoInode}
      BY PointsTyped
    <3>2. ASSUME NEW q \in Procs \ {p}, NEW k \in Slots, Points(q, k) # NoInode, ~Freed(q, k)
          PROVE  dinode'[Points(q, k)].type = dinode[Points(q, k)].type
      <4>1. dinode[Points(q, k)].type # "none"
        BY <3>2 DEF CallInv, CallOK, AliveOK
      <4> QED
        BY <1>18, <3>1, <3>2, <4>1
    <3>3. ASSUME NEW q \in Procs \ {p}, At(q) = "unlink_ip"
          PROVE  dinode'[Points(q, "dp")].ents = dinode[Points(q, "dp")].ents
      <4>1. Points(q, "dp") \in Inums /\ Points(q, "dp") # dp[p]
        BY <1>4, <1>9, <3>3, OwnDirectory
      <4>2. dinode[Points(q, "dp")].type = "dir"
        BY <3>3 DEF CallInv, CallOK, KindOK
      <4> QED
        BY <1>16, <1>7, <4>1, <4>2
    <3> QED
      BY <3>2, <3>3 DEF SparesOthers
  <2> QED
    BY <1>1, <1>2, <1>20, <1>21, <1>22, <2>1, CallStep DEF CallOK
<1>26. DotInv'
  <2> SUFFICES ASSUME NEW j \in Inums
               PROVE  /\ dinode'[j].type = "none" => dinode'[j] = Free
                      /\ dinode'[j].type = "dir" => Lookup(j, ".")' = j /\ Lookup(j, "..")' # NoInode
    BY DEF DotInv
  <2>1. "." \in AllNames /\ "." # name[p] /\ ".." \in AllNames /\ ".." # name[p]
    BY <1>9, FSAssumption DEF AllNames
  <2>2. CASE j = FirstFree
    <3>1. Lookup(j, ".")' = dinode'[j].ents["."] /\ Lookup(j, "..")' = dinode'[j].ents[".."]
      BY DEF Lookup
    <3>2. dinode'[j] = inode
      BY <1>16, <2>2
    <3>3. /\ dinode'[j].ents["."] = inode.ents["."] /\ dinode'[j].type = inode.type
          /\ dinode'[j].ents[".."] = inode.ents[".."]
      BY <3>2
    <3>4. inode.type # "none" /\ (inode.type = "dir" => inode.ents["."] = FirstFree /\ inode.ents[".."] = dp[p])
      BY <1>14
    <3> QED
      BY <1>8, <2>2, <3>1, <3>3, <3>4
  <2>3. CASE j = dp[p]
    BY <1>8, <1>19, <1>18, <1>17, <2>1, <2>3 DEF DotInv
  <2>4. CASE j \notin {dp[p], FirstFree}
    BY <1>16, <2>4 DEF DotInv, Lookup
  <2> QED
    BY <2>2, <2>3, <2>4
<1>27. ASSUME NEW j \in Inums PROVE dinode'[j].nlink >= Cardinality(Links(j)')
  <2>1. \A k \in Names : k \in AllNames
    BY DEF AllNames
  <2>2. Entries(j)' \subseteq Entries(j) \cup {<<dp[p], name[p]>>} /\ (j # FirstFree => Entries(j)' \subseteq Entries(j))
    <3>1. ASSUME NEW e \in Inums \X Names, e \in Entries(j)' PROVE e \in Entries(j) \/ (j = FirstFree /\ e = <<dp[p], name[p]>>)
      <4>1. e[1] \in Inums /\ e[2] \in Names /\ e = <<e[1], e[2]>> /\ Lookup(e[1], e[2])' = j
        BY <3>1 DEF Entries
      <4>2. e[1] # FirstFree
        BY <1>19, <4>1, NullIsNone
      <4>3. j = IF e[1] = dp[p] /\ e[2] = name[p] THEN FirstFree ELSE Lookup(e[1], e[2])
        BY <1>19, <2>1, <4>1, <4>2
      <4> QED
        BY <4>1, <4>3 DEF Entries
    <3> QED
      BY <3>1 DEF Entries
  <2>3. ASSUME NEW k \in Subdirs(j)' PROVE k \in Subdirs(j) \/ (j = dp[p] /\ k = name[p] /\ isdir)
    <3>1. k \in Names /\ Lookup(j, k)' # NoInode /\ dinode'[Lookup(j, k)'].type = "dir"
      BY <2>3 DEF Subdirs
    <3>2. j # FirstFree
      BY <1>19, <3>1
    <3>3. CASE j = dp[p] /\ k = name[p]
      <4>1. Lookup(j, k)' = FirstFree
        BY <1>19, <2>1, <3>1, <3>2, <3>3
      <4> QED
        BY <1>16, <1>14, <3>1, <3>3, <4>1
    <3>4. CASE ~(j = dp[p] /\ k = name[p])
      <4>1. Lookup(j, k)' = Lookup(j, k) /\ Lookup(j, k) \in Inums
        BY <1>19, <2>1, <3>1, <3>2, <3>4, FSTypes
      <4>2. Lookup(j, k) # FirstFree
        <5>1. <<j, k>> \in Entries(Lookup(j, k))
          BY <3>1 DEF Entries
        <5> QED
          BY <1>12, <5>1
      <4> QED
        BY <1>18, <3>1, <4>1, <4>2 DEF Subdirs
    <3> QED
      BY <3>3, <3>4
  <2>4. CallsOn(j)' \subseteq CallsOn(j)
    BY <1>1, <1>2, <1>11, CallsOnStep DEF Pending, Stands, StandsThen
  <2>5. dinode[j].nlink >= Cardinality(Links(j)) /\ dinode[j].nlink \in Int /\ IsFiniteSet(Links(j))
    BY FSTypes, InodeFields, LinksFinite DEF LinkInv
  <2>6. CASE j = FirstFree
    <3>1. Subdirs(j)' \subseteq Subdirs(j)
      BY <1>8, <2>3, <2>6
    <3>2. Links(j)' \subseteq Links(j) \cup {<<"name", <<dp[p], name[p]>>>>}
      BY <2>2, <2>4, <3>1 DEF Links, Bundle
    <3>3. dinode'[j].nlink \in Int /\ dinode'[j].nlink >= dinode[j].nlink + 1
      BY <1>16, <1>14, <1>12, <2>6
    <3> QED
      BY <2>5, <3>2, <3>3, OneMore
  <2>7. CASE j = dp[p] /\ isdir
    <3>1. Subdirs(j)' \subseteq Subdirs(j) \cup {name[p]}
      BY <2>3
    <3>2. Links(j)' \subseteq Links(j) \cup {<<"dir", name[p]>>}
      BY <1>8, <2>2, <2>4, <2>7, <3>1 DEF Links, Bundle
    <3>3. dinode'[j].nlink \in Int /\ dinode'[j].nlink >= dinode[j].nlink + 1
      BY <1>17, <1>16, <2>5, <2>7 DEF more
    <3> QED
      BY <2>5, <3>2, <3>3, OneMore
  <2>8. CASE j # FirstFree /\ ~(j = dp[p] /\ isdir)
    <3>1. dinode'[j].nlink = dinode[j].nlink
      BY <1>17, <1>16, <2>8 DEF more
    <3>2. dinode'[j].nlink >= dinode[j].nlink
      BY <2>5, <3>1
    <3>3. Entries(j)' \subseteq Entries(j) /\ Subdirs(j)' \subseteq Subdirs(j)
      BY <2>2, <2>3, <2>8
    <3> QED
      BY <1>1, <2>4, <3>2, <3>3, NoMoreLinks
  <2> QED
    BY <2>6, <2>7, <2>8
<1>28. dinode'[ROOTINO].type = "dir"
  BY <1>18, NullIsNone DEF LinkInv
<1> QED
  BY <1>24, <1>25, <1>26, <1>27, <1>28 DEF LinkInv

\* iput frees nothing while it looks at the links and references of the inode; it keeps
\* the lock of an inode in its last use. The rest of FSInv is kept.
LEMMA IputLastKeeps ==
  ASSUME FSInv, NEW p \in Procs, iput_last(p)
  PROVE  CallInv' /\ DotInv' /\ LinkInv' /\ PanicInv'
<1> USE DEF FSInv, CountInv, FSTypeOK
<1>1. /\ CountInv' /\ Moves(p)
      /\ Stands(p, iret[p], cwd[p], ofile[p], IF HoldsDp(p) THEN dp[p] ELSE NoInode, IF HoldsIp(p) THEN ip[p] ELSE NoInode, put[p])
      /\ StandsThen(p, iret[p], cwd[p], ofile[p], IF HoldsDp(p) THEN dp[p] ELSE NoInode, IF HoldsIp(p) THEN ip[p] ELSE NoInode, put[p])
      /\ pc'[p] = AfterLook(p) /\ rest'[p] = rest[p] /\ name'[p] = name[p] /\ new'[p] = new[p]
  BY IputLastCount
<1>2. Local(p) /\ CallOK(p)
  BY <1>1, MovesLocal DEF CallInv
<1>3. put[p] \in Inums /\ lock[put[p]] = NoOne /\ pc[p] = "iput"
  BY FSTypes DEF WalkInv, WalkOK, iput_last, HoldsPut, Lockable
<1>4. dinode' = dinode /\ panicked' = panicked
  BY <1>1 DEF iput_last, diskVars
<1>5. p # NoOne
  BY FSAssumption DEF NoOne
<1>6. \A i \in Inums : lock'[i] = IF i = put[p] /\ LocksPut(p)' THEN p ELSE lock[i]
  BY <1>1, <1>3 DEF iput_last, LocksPut, AfterLook, DiskTypeOK
<1>7. LockOK(p)' /\ LocksOnly(p)
  <2>1. LocksOnly(p)
    BY <1>3, <1>6 DEF LocksOnly
  <2>2. /\ (LocksDp(p)' <=> LocksDp(p)) /\ (LocksIp(p)' <=> LocksIp(p)) /\ ~LocksPut(p)
        /\ Points(p, "dp")' = Points(p, "dp") /\ Points(p, "ip")' = Points(p, "ip") /\ Points(p, "put")' = put[p]
    BY <1>1, <1>3 DEF LocksDp, LocksIp, LocksPut, Stands, StandsThen
  <2>3. \A i \in Inums : lock[i] = p <=> (LocksDp(p) /\ Points(p, "dp") = i) \/ (LocksIp(p) /\ Points(p, "ip") = i)
    BY <1>2, <2>2 DEF CallOK, LockOK
  <2>4. \A i \in Inums : lock'[i] = p <=> lock[i] = p \/ (i = put[p] /\ LocksPut(p)')
    BY <1>6
  <2> QED
    BY <2>1, <2>2, <2>3, <2>4 DEF LockOK
<1>8. AliveOK(p)'
  BY <1>1, <1>3, <1>4, AliveNow, AliveThen
<1>9. KindOK(p)'
  BY <1>1, <1>2, <1>4 DEF CallOK, KindOK, Stands, StandsThen, ParentCalls, PathCalls, Lookup
<1>10. PanicInv'
  BY <1>4 DEF PanicInv
<1>11. Pending(p)' => Pending(p) /\ Points(p, "ip")' = Points(p, "ip")
  BY <1>1 DEF Pending, Stands, StandsThen, ParentCalls, PathCalls
<1> QED
  BY <1>2, <1>4, <1>7, <1>8, <1>9, <1>10, <1>11, QuietStep DEF CallOK

\* iput of the last reference to an inode without links frees it. The rest of FSInv is kept.
LEMMA IputFreeKeeps ==
  ASSUME FSInv, LastInv, NEW p \in Procs, iput_free(p)
  PROVE  CallInv' /\ DotInv' /\ LinkInv' /\ PanicInv'
<1> USE DEF FSInv, CountInv, FSTypeOK
<1>1. /\ CountInv' /\ Moves(p)
      /\ Stands(p, iret[p], cwd[p], ofile[p], IF HoldsDp(p) THEN dp[p] ELSE NoInode, IF HoldsIp(p) THEN ip[p] ELSE NoInode, put[p])
      /\ StandsThen(p, iret[p], cwd[p], ofile[p], IF HoldsDp(p) THEN dp[p] ELSE NoInode, IF HoldsIp(p) THEN ip[p] ELSE NoInode, put[p])
      /\ pc'[p] = "iput_ref" /\ rest'[p] = rest[p] /\ name'[p] = name[p] /\ new'[p] = new[p]
  BY IputFreeCount
<1>2. Local(p) /\ CallOK(p)
  BY <1>1, MovesLocal DEF CallInv
<1>3. put[p] \in Inums /\ HoldsPut(p)
  BY FSTypes DEF WalkInv, WalkOK, iput_free, HoldsPut
<1>4. cwd[p] \in Inums /\ ofile[p] \in Inums \cup {NoInode}
  BY FSTypes
<1>5. dinode[put[p]].nlink = 0 /\ ref[put[p]] = 1
  BY DEF LastInv, iput_free
<1>6. Links(put[p]) = {} /\ Entries(put[p]) = {} /\ put[p] # ROOTINO
  BY <1>3, <1>5, FreeIsUnlinked
<1>7. \A q \in Procs, k \in Slots : Points(q, k) = put[p] => q = p /\ k = "put"
  <2>1. Cardinality(Users(put[p])) = 1
    BY <1>3, <1>5 DEF RefInv
  <2>2. IsFiniteSet(Users(put[p]))
    BY UsersFinite
  <2>3. PICK u : Users(put[p]) = {u}
    BY <2>1, <2>2, FS_Singleton
  <2>4. <<p, "put">> \in Users(put[p])
    BY <1>3 DEF Users, Points, Slots
  <2>5. ASSUME NEW q \in Procs, NEW k \in Slots, Points(q, k) = put[p] PROVE q = p /\ k = "put"
    <3>1. <<q, k>> \in Users(put[p])
      BY <2>5 DEF Users
    <3> QED
      BY <2>3, <2>4, <3>1
  <2> QED
    BY <2>5
<1>8. \A k \in Slots : Points(p, k) = put[p] => k = "put"
  BY <1>7
<1>9. \A i \in Inums : lock'[i] = IF i = put[p] THEN NoOne ELSE lock[i]
  BY <1>3 DEF iput_free, DiskTypeOK
<1>10. dinode'[put[p]] = Free /\ \A j \in Inums \ {put[p]} : dinode'[j] = dinode[j]
  BY <1>3 DEF iput_free, DiskTypeOK
<1>11. /\ \A j \in Inums \ {put[p]}, k \in AllNames : Lookup(j, k)' = Lookup(j, k)
       /\ \A j \in Inums, k \in AllNames : j = put[p] => Lookup(j, k)' = NoInode
  BY <1>10 DEF Lookup, Free, NoEntries
<1>12. \A q \in Procs, k \in Slots : Points(q, k) # NoInode /\ ~(q = p /\ k = "put") => dinode'[Points(q, k)] = dinode[Points(q, k)]
  BY <1>10, <1>7, PointsTyped
<1>13. /\ Points(p, "cwd")' = Points(p, "cwd") /\ Points(p, "dp")' = Points(p, "dp")
       /\ Points(p, "ip")' = Points(p, "ip") /\ Points(p, "ofile")' = Points(p, "ofile")
       /\ At(p)' = At(p) /\ pc'[p] = "iput_ref" /\ name'[p] = name[p]
  BY <1>1 DEF Stands, StandsThen
<1>14. LockOK(p)' /\ LocksOnly(p)
  <2>1. p # NoOne
    BY FSAssumption DEF NoOne
  <2>2. \A i \in Inums : lock[i] = p <=> \/ LocksDp(p) /\ Points(p, "dp") = i
                                         \/ LocksIp(p) /\ Points(p, "ip") = i
                                         \/ i = put[p]
    BY <1>1, <1>2 DEF CallOK, LockOK, LocksPut, iput_free, Stands
  <2>3. Points(p, "dp") # put[p] /\ Points(p, "ip") # put[p]
    BY <1>8 DEF Slots
  <2>4. (LocksDp(p)' <=> LocksDp(p)) /\ (LocksIp(p)' <=> LocksIp(p)) /\ ~LocksPut(p)'
    BY <1>13 DEF LocksDp, LocksIp, LocksPut
  <2>5. LockOK(p)'
    BY <1>9, <1>13, <2>1, <2>2, <2>3, <2>4 DEF LockOK
  <2>6. LocksOnly(p)
    BY <1>3, <1>9, <2>2 DEF LocksOnly
  <2> QED
    BY <2>5, <2>6
<1>15. AliveOK(p)'
  <2> SUFFICES ASSUME NEW k \in Slots, Points(p, k)' # NoInode, ~Freed(p, k)'
               PROVE  dinode'[Points(p, k)'].type # "none"
    BY DEF AliveOK
  <2>1. k # "put" /\ ~Freed(p, k) /\ Points(p, k)' = Points(p, k)
    BY <1>13 DEF Freed, Slots
  <2>2. dinode[Points(p, k)].type # "none"
    BY <1>2, <2>1 DEF CallOK, AliveOK
  <2> QED
    BY <1>12, <2>1, <2>2
<1>16. KindOK(p)'
  <2>1. /\ Points(p, "cwd") \in Inums
        /\ At(p) \in ParentCalls \cup {"link_exists", "unlink_ip", "unlink_bad"} => Points(p, "dp") \in Inums
    BY PointsThere DEF HoldsDp
  <2>2. /\ dinode'[Points(p, "cwd")] = dinode[Points(p, "cwd")]
        /\ At(p) \in ParentCalls \cup {"link_exists", "unlink_ip", "unlink_bad"} =>
             dinode'[Points(p, "dp")] = dinode[Points(p, "dp")]
        /\ Points(p, "ip") # NoInode => dinode'[Points(p, "ip")] = dinode[Points(p, "ip")]
    BY <1>12, <2>1, NullIsNone DEF Slots
  <2>3. KindOK(p)
    BY <1>2 DEF CallOK
  <2> QED
    BY <1>13, <2>2, <2>3 DEF KindOK, Lookup
<1>18. PanicInv'
  BY DEF iput_free, PanicInv
<1>19. CallInv'
  <2>1. SparesOthers(p)
    <3>1. \A q \in Procs : At(q) = "unlink_ip" => Points(q, "dp") \in Inums
      BY PointsThere DEF HoldsDp
    <3> QED
      BY <1>12, <3>1, NullIsNone DEF SparesOthers, Slots
  <2> QED
    BY <1>1, <1>2, <1>14, <1>15, <1>16, <2>1, CallStep DEF CallOK
<1>20. DotInv'
  <2> SUFFICES ASSUME NEW j \in Inums
               PROVE  /\ dinode'[j].type = "none" => dinode'[j] = Free
                      /\ dinode'[j].type = "dir" => Lookup(j, ".")' = j /\ Lookup(j, "..")' # NoInode
    BY DEF DotInv
  <2>1. CASE j = put[p]
    BY <1>10, <2>1 DEF Free
  <2>2. CASE j # put[p]
    BY <1>10, <2>2 DEF DotInv, Lookup
  <2> QED
    BY <2>1, <2>2
<1>21. ASSUME NEW j \in Inums PROVE dinode'[j].nlink >= Cardinality(Links(j)')
  <2>1. \A k \in Names : k \in AllNames
    BY DEF AllNames
  <2>2. Entries(j)' \subseteq Entries(j)
    BY <1>11, <2>1, NullIsNone DEF Entries
  <2>3. Subdirs(j)' \subseteq Subdirs(j)
    <3> SUFFICES ASSUME NEW k \in Names, k \in Subdirs(j)' PROVE k \in Subdirs(j)
      BY DEF Subdirs
    <3>1. Lookup(j, k)' # NoInode /\ dinode'[Lookup(j, k)'].type = "dir"
      BY DEF Subdirs
    <3>2. Lookup(j, k)' = Lookup(j, k) /\ Lookup(j, k) \in Inums
      BY <1>11, <2>1, <3>1, FSTypes
    <3>3. Lookup(j, k) # put[p]
      BY <1>10, <3>1, <3>2 DEF Free
    <3> QED
      BY <1>10, <3>1, <3>2, <3>3 DEF Subdirs
  <2>4. CallsOn(j)' \subseteq CallsOn(j)
    BY <1>2, <1>13, CallsOnStep DEF Pending
  <2>5. dinode'[j].nlink >= dinode[j].nlink
    BY <1>10, <1>5, FSTypes, InodeFields DEF Free
  <2> QED
    BY <1>1, <2>2, <2>3, <2>4, <2>5, NoMoreLinks
<1>22. dinode'[ROOTINO].type = "dir"
  BY <1>10, <1>6, NullIsNone DEF LinkInv
<1> QED
  BY <1>18, <1>19, <1>20, <1>21, <1>22 DEF LinkInv

-----------------------------------------------------------------------------
(* An inode in its last use *)

\* What iput is about to free has no other pointer, no name and no subdirectory.
LEMMA LastIsAlone ==
  ASSUME FSInv, LastInv, NEW q \in Procs, pc[q] = "iput_free"
  PROVE  /\ put[q] \in Inums /\ put[q] # ROOTINO /\ put[q] \notin FreeInodes
         /\ Entries(put[q]) = {} /\ Subdirs(put[q]) = {}
         /\ \A p \in Procs \ {q}, k \in Slots : Points(p, k) # put[q]
<1> USE DEF FSInv, CountInv, FSTypeOK
<1>1. put[q] \in Inums /\ Points(q, "put") = put[q]
  BY FSTypes DEF WalkInv, WalkOK, HoldsPut, Points
<1>2. dinode[put[q]].nlink = 0 /\ ref[put[q]] = 1
  BY DEF LastInv
<1>3. Entries(put[q]) = {} /\ Subdirs(put[q]) = {} /\ put[q] # ROOTINO
  BY <1>1, <1>2, FreeIsUnlinked
<1>4. put[q] \notin FreeInodes
  BY <1>1, NullIsNone DEF FreeInodes, CallInv, CallOK, AliveOK, Slots, Freed
<1>5. PICK u : Users(put[q]) = {u}
  <2>1. Cardinality(Users(put[q])) = 1 /\ IsFiniteSet(Users(put[q]))
    BY <1>1, <1>2, UsersFinite DEF RefInv
  <2> QED
    BY <2>1, FS_Singleton
<1>6. <<q, "put">> \in Users(put[q])
  BY <1>1 DEF Users, Slots
<1>7. ASSUME NEW p \in Procs \ {q}, NEW k \in Slots PROVE Points(p, k) # put[q]
  <2>1. <<p, k>> # <<q, "put">>
    OBVIOUS
  <2>2. <<p, k>> \notin Users(put[q])
    BY <1>5, <1>6, <2>1
  <2> QED
    BY <2>2 DEF Users
<1> QED
  BY <1>1, <1>3, <1>4, <1>7

\* A name never leads to it, but for the .. of a directory that was removed.
LEMMA LookupIsApart ==
  ASSUME FSTypeOK, DotInv, NEW p \in Procs, ~Strays(p), NEW n \in AllNames,
         n = ".." => Asked(p) = "..", dp[p] \in Inums, dinode[dp[p]].type = "dir",
         NEW i \in Inums, Entries(i) = {}, Subdirs(i) = {}, dp[p] # i
  PROVE  Lookup(dp[p], n) # i
<1>1. \A d \in Inums, m \in Names : Lookup(d, m) # i
  <2> SUFFICES ASSUME NEW d \in Inums, NEW m \in Names, Lookup(d, m) = i PROVE FALSE
    OBVIOUS
  <2>1. <<d, m>> \in Entries(i)
    BY DEF Entries
  <2> QED
    BY <2>1
<1>2. \A m \in Names : Lookup(i, m) # dp[p]
  <2> SUFFICES ASSUME NEW m \in Names, Lookup(i, m) = dp[p] PROVE FALSE
    OBVIOUS
  <2>1. m \in Subdirs(i)
    BY NullIsNone DEF Subdirs
  <2> QED
    BY <2>1
<1>3. CASE n = ".."
  <2>1. Lookup(dp[p], n) \in {dp[p], NoInode} \/ \E m \in Names : Lookup(Lookup(dp[p], n), m) = dp[p]
    BY <1>3 DEF Strays
  <2> QED
    BY <1>2, <2>1, NullIsNone
<1>4. CASE n = "."
  BY <1>4 DEF DotInv
<1> QED
  BY <1>1, <1>3, <1>4 DEF AllNames

\* A step of another process neither refers to it nor writes to it.
LEMMA StepStaysAway ==
  ASSUME FSInv, NEW p \in Procs, ~Strays(p), Step(p),
         NEW i \in Inums, i # ROOTINO, i \notin FreeInodes, Entries(i) = {}, Subdirs(i) = {},
         \A k \in Slots : Points(p, k) # i
  PROVE  ref'[i] = ref[i] /\ dinode'[i] = dinode[i]
<1> USE DEF FSInv, CountInv, FSTypeOK
<1> DEFINE Away == ref'[i] = ref[i] /\ dinode'[i] = dinode[i]
<1>1. /\ cwd[p] # i /\ ofile[p] # i
      /\ HoldsDp(p) => dp[p] # i /\ dp[p] \in Inums
      /\ HoldsIp(p) => ip[p] # i /\ ip[p] \in Inums
      /\ HoldsPut(p) => put[p] # i /\ put[p] \in Inums
  BY FSTypes DEF Points, Slots, WalkInv, WalkOK
<1>2. ref \in [Inums -> Int] /\ dinode \in [Inums -> Inodes] /\ cwd[p] \in Inums
  BY FSTypes DEF DiskTypeOK
<1>3. ASSUME NEW call \in Calls, NEW path \in Paths, NEW path2 \in Paths, begin(p, call, path, path2)
      PROVE  Away
  BY <1>1, <1>2, <1>3 DEF begin, namex, iget, diskVars
<1>4. ASSUME close(p) PROVE Away
  BY <1>4 DEF close, diskVars
<1>5. ASSUME namex_end(p) \/ namex_miss(p) \/ namex_parent(p) PROVE Away
  BY <1>5 DEF namex_end, namex_miss, namex_parent, diskVars
<1>6. ASSUME namex_next(p) PROVE Away
  <2>1. dp[p] \in Inums /\ dp[p] # i /\ dinode[dp[p]].type = "dir"
    BY <1>1, <1>6 DEF namex_next, HoldsDp, At
  <2>2. /\ rest[p] \in Seq(AllNames) /\ rest[p] # <<>> /\ Head(rest[p]) \in AllNames
        /\ Len(rest[p]) > (IF parent[p] THEN 1 ELSE 0)
    <3>1. rest[p] \in Seq(AllNames) /\ rest[p] # <<>> /\ parent[p] \in BOOLEAN
      BY <1>6, FSTypes DEF namex_next
    <3>2. Len(rest[p]) > (IF parent[p] THEN 1 ELSE 0)
      BY <1>6, <3>1, MoreNames DEF namex_next
    <3> QED
      BY <3>1, <3>2, FirstName
  <2>3. Asked(p) = Head(rest[p])
    BY <1>6, <2>2 DEF Asked, namex_next
  <2>4. Lookup(dp[p], Head(rest[p])) # i
    BY <2>1, <2>2, <2>3, LookupIsApart
  <2> QED
    BY <1>2, <1>6, <2>4 DEF namex_next, iget
<1>7. ASSUME iput_last(p) PROVE Away
  BY <1>7 DEF iput_last, diskVars
<1>8. ASSUME iput_free(p) \/ iput_ref(p) PROVE Away
  <2>1. put[p] # i
    BY <1>1, <1>8 DEF iput_free, iput_ref, HoldsPut
  <2> QED
    BY <1>2, <1>8, <2>1 DEF iput_free, iput_ref
<1>9. ASSUME link_ip(p) \/ link_bad(p) PROVE Away
  <2>1. ip[p] # i
    BY <1>1, <1>9 DEF link_ip, link_bad, HoldsIp, At, PathCalls
  <2> QED
    BY <1>1, <1>2, <1>9, <2>1 DEF link_ip, link_bad, namex, iget
<1>10. ASSUME link_dp(p) PROVE Away
  <2>1. dp[p] \in Inums /\ dp[p] # i /\ At(p) = "link_dp" /\ pc[p] = "link_dp"
    BY <1>1, <1>10 DEF link_dp, HoldsDp, At, ParentCalls
  <2>2. dinode[dp[p]].type = "dir"
    <3>1. Points(p, "dp") = dp[p]
      BY <2>1 DEF Points, HoldsDp, ParentCalls
    <3> QED
      BY <2>1, <3>1 DEF CallInv, CallOK, KindOK, ParentCalls
  <2>3. Asked(p) = name[p] /\ name[p] \in AllNames
    BY <2>1, FSTypes DEF Asked
  <2>4. Lookup(dp[p], name[p]) # i
    BY <2>1, <2>2, <2>3, LookupIsApart
  <2> QED
    BY <1>2, <1>10, <2>1, <2>4 DEF link_dp, iget
<1>11. ASSUME link_exists(p) \/ link_end(p) \/ unlink_bad(p) PROVE Away
  BY <1>11 DEF link_exists, link_end, unlink_bad, diskVars
<1>12. ASSUME unlink_dp(p) PROVE Away
  <2>1. dp[p] \in Inums
    BY <1>1, <1>12 DEF unlink_dp, HoldsDp, At, ParentCalls
  <2>2. CASE name[p] \in {".", ".."} \/ Lookup(dp[p], name[p]) = NoInode
    BY <1>12, <2>2 DEF unlink_dp
  <2>3. CASE ~(name[p] \in {".", ".."} \/ Lookup(dp[p], name[p]) = NoInode)
    <3>1. name[p] \in Names
      BY <2>3, FSTypes DEF AllNames
    <3>2. <<dp[p], name[p]>> \in Entries(Lookup(dp[p], name[p]))
      BY <2>1, <3>1 DEF Entries
    <3>3. Lookup(dp[p], name[p]) # i
      BY <3>2
    <3> QED
      BY <1>2, <1>12, <2>3, <3>3 DEF unlink_dp, iget
  <2> QED
    BY <2>2, <2>3
<1>13. ASSUME unlink_ip(p) \/ unlink_end(p) PROVE Away
  <2>1. unlink_ip(p) => dp[p] # i
    BY <1>1 DEF unlink_ip, HoldsDp, At
  <2>2. unlink_end(p) => ip[p] # i
    BY <1>1 DEF unlink_end, HoldsIp, At
  <2> QED
    BY <1>2, <1>13, <2>1, <2>2 DEF unlink_ip, unlink_end
<1>14. ASSUME open_ip(p) \/ chdir_ip(p) \/ create_ip(p) \/ create_end(p) PROVE Away
  BY <1>14 DEF open_ip, chdir_ip, create_ip, create_end, diskVars
<1>15. ASSUME create_found(p) PROVE Away
  <2>1. dp[p] \in Inums /\ dp[p] # i /\ At(p) = pc[p] /\ pc[p] \in {"create_dp", "mkdir_dp"}
    BY <1>1, <1>15 DEF create_found, HoldsDp, At, ParentCalls
  <2>2. dinode[dp[p]].type = "dir"
    <3>1. Points(p, "dp") = dp[p]
      BY <2>1 DEF Points, HoldsDp, ParentCalls
    <3> QED
      BY <2>1, <3>1 DEF CallInv, CallOK, KindOK, ParentCalls
  <2>3. Asked(p) = name[p] /\ name[p] \in AllNames
    BY <2>1, FSTypes DEF Asked
  <2>4. Lookup(dp[p], name[p]) # i
    BY <2>1, <2>2, <2>3, LookupIsApart
  <2> QED
    BY <1>2, <1>15, <2>4 DEF create_found, iget
<1>16. ASSUME create_new(p) PROVE Away
  <2>1. dp[p] # i
    BY <1>1, <1>16 DEF create_new, HoldsDp, At, ParentCalls
  <2>2. CASE FreeInodes = {}
    BY <1>16, <2>2 DEF create_new, diskVars
  <2>3. CASE FreeInodes # {}
    <3>1. FirstFree # i
      BY <2>3, FirstInode DEF FreeInodes, FirstFree
    <3> QED
      BY <1>2, <1>16, <2>1, <2>3, <3>1 DEF create_new, iget, FirstFree
  <2> QED
    BY <2>2, <2>3
<1> HIDE DEF Away
<1>17. Away
  BY <1>3, <1>4, <1>5, <1>6, <1>7, <1>8, <1>9, <1>10, <1>11, <1>12, <1>13, <1>14, <1>15, <1>16
     DEF Step, Walk, Cache, Linking, Opening
<1> QED
  BY <1>17 DEF Away

\* So what iput has found stays so until the inode is freed.
LEMMA LastStep ==
  ASSUME FSInv, LastInv, NEW p \in Procs, ~Strays(p), Step(p)
  PROVE  LastInv'
<1>1. Moves(p) /\ Local(p) /\ (pc'[p] = "iput_free" => iput_last(p))
  BY StepCounts, MovesLocal DEF FSInv, CountInv, FSTypeOK
<1>2. SUFFICES ASSUME NEW q \in Procs, pc'[q] = "iput_free"
               PROVE  ref'[put'[q]] = 1 /\ dinode'[put'[q]].nlink = 0
  BY DEF LastInv
<1>3. CASE q = p
  <2>1. iput_last(p)
    BY <1>1, <1>2, <1>3
  <2>2. LastUse(put[p])
    BY <1>2, <1>3, <2>1, IputLastCount DEF AfterLook, FSInv
  <2>3. put' = put /\ ref' = ref /\ dinode' = dinode
    BY <2>1 DEF iput_last, callVars, diskVars
  <2> QED
    BY <1>3, <2>2, <2>3 DEF LastUse
<1>4. CASE q # p
  <2>1. pc[q] = "iput_free" /\ put'[q] = put[q]
    BY <1>1, <1>2, <1>4 DEF Local
  <2>2. /\ put[q] \in Inums /\ put[q] # ROOTINO /\ put[q] \notin FreeInodes
        /\ Entries(put[q]) = {} /\ Subdirs(put[q]) = {}
        /\ \A k \in Slots : Points(p, k) # put[q]
    BY <1>4, <2>1, LastIsAlone
  <2>3. ref'[put[q]] = ref[put[q]] /\ dinode'[put[q]] = dinode[put[q]]
    BY <2>2, StepStaysAway
  <2> QED
    BY <2>1, <2>3 DEF LastInv
<1> QED
  BY <1>3, <1>4

-----------------------------------------------------------------------------
(* No use after free, and links cover names *)

\* What the links of an inode stand for, when no call is pending, is counted part by part.
LEMMA BundleSize ==
  ASSUME NEW E, E \subseteq Inums \X Names, NEW D, D \subseteq Names, NEW i,
         NEW n \in Int, n >= Cardinality(E) + Cardinality(D) + (IF i = ROOTINO THEN 1 ELSE 0)
  PROVE  n >= Cardinality(Bundle(E, D, {}, i))
<1> DEFINE R == {ROOTINO} \cap {i}
           A == {"name"} \X E
           B == {"dir"} \X D
           C == {"root"} \X R
<1>1. IsFiniteSet(E) /\ IsFiniteSet(D)
  <2>1. IsFiniteSet(Inums)
    BY InumsFinite
  <2>2. IsFiniteSet(Inums \X Names)
    BY <2>1, FSAssumption, FS_Product
  <2> QED
    BY <2>2, FSAssumption, FS_Subset
<1>2. IsFiniteSet(R) /\ Cardinality(R) = IF i = ROOTINO THEN 1 ELSE 0
  <2>1. CASE i = ROOTINO
    <3>1. R = {ROOTINO}
      BY <2>1
    <3> QED
      BY <2>1, <3>1, FS_Singleton
  <2>2. CASE i # ROOTINO
    <3>1. R = {}
      BY <2>2
    <3> QED
      BY <2>2, <3>1, FS_EmptySet
  <2> QED
    BY <2>1, <2>2
<1> HIDE DEF R
<1>3. \A t : IsFiniteSet({t}) /\ Cardinality({t}) = 1
  BY FS_Singleton
<1>4. ASSUME NEW t, NEW S, IsFiniteSet(S)
      PROVE  IsFiniteSet({t} \X S) /\ Cardinality({t} \X S) = Cardinality(S) /\ Cardinality(S) \in Nat
  <2>1. Cardinality(S) \in Nat
    BY <1>4, FS_CardinalityType
  <2>2. IsFiniteSet({t} \X S) /\ Cardinality({t} \X S) = Cardinality({t}) * Cardinality(S)
    BY <1>3, <1>4, FS_Product
  <2>3. \A m \in Nat : 1 * m = m
    OBVIOUS
  <2> QED
    BY <1>3, <2>1, <2>2, <2>3
<1>5. /\ IsFiniteSet(A) /\ Cardinality(A) = Cardinality(E) /\ Cardinality(E) \in Nat
      /\ IsFiniteSet(B) /\ Cardinality(B) = Cardinality(D) /\ Cardinality(D) \in Nat
      /\ IsFiniteSet(C) /\ Cardinality(C) = Cardinality(R) /\ Cardinality(R) \in Nat
  BY <1>1, <1>2, <1>4
<1>6. Bundle(E, D, {}, i) = (A \cup B) \cup C
  BY DEF Bundle, R
<1> HIDE DEF A, B, C
<1>7. \A S, T : IsFiniteSet(S) /\ IsFiniteSet(T) => /\ IsFiniteSet(S \cup T) /\ Cardinality(S \cup T) \in Nat
                                                   /\ Cardinality(S \cup T) <= Cardinality(S) + Cardinality(T)
  <2> SUFFICES ASSUME NEW S, NEW T, IsFiniteSet(S), IsFiniteSet(T)
               PROVE  /\ IsFiniteSet(S \cup T) /\ Cardinality(S \cup T) \in Nat
                      /\ Cardinality(S \cup T) <= Cardinality(S) + Cardinality(T)
    OBVIOUS
  <2>1. /\ IsFiniteSet(S \cup T)
        /\ Cardinality(S \cup T) = Cardinality(S) + Cardinality(T) - Cardinality(S \cap T)
    BY FS_Union
  <2>2. IsFiniteSet(S \cap T)
    BY FS_Intersection
  <2>3. Cardinality(S \cup T) \in Nat /\ Cardinality(S \cap T) \in Nat /\ Cardinality(S) \in Nat /\ Cardinality(T) \in Nat
    BY <2>1, <2>2, FS_CardinalityType
  <2> QED
    BY <2>1, <2>3
<1>8. /\ IsFiniteSet(A \cup B) /\ Cardinality(A \cup B) \in Nat
      /\ Cardinality(A \cup B) <= Cardinality(A) + Cardinality(B)
  BY <1>5, <1>7
<1>9. /\ Cardinality((A \cup B) \cup C) \in Nat
      /\ Cardinality((A \cup B) \cup C) <= Cardinality(A \cup B) + Cardinality(C)
  BY <1>5, <1>7, <1>8
<1> QED
  BY <1>2, <1>5, <1>6, <1>8, <1>9

\* The invariant holds in every consistent file system.
LEMMA FSInvInit == FSInit => FSAll
<1> SUFFICES ASSUME FSInit PROVE FSAll
  OBVIOUS
<1>1. CountInv
  BY CountInit
<1>2. ASSUME NEW p \in Procs PROVE Stands(p, "user", ROOTINO, NoInode, NoInode, NoInode, NoInode)
  BY DEF FSInit, Stands, Points, HoldsDp, HoldsIp, HoldsPut, At, Linking2, ParentCalls, PathCalls
<1>3. Consistent(dinode)
  BY ImagesAssumption DEF FSInit
<1>4. ROOTINO \in Inums /\ dinode[ROOTINO].type = "dir" /\ ROOTINO # NoInode
  BY <1>3, NullIsNone DEF Consistent
<1>5. CallInv
  <2> SUFFICES ASSUME NEW p \in Procs PROVE CallOK(p)
    BY DEF CallInv
  <2>1. LockOK(p)
    <3>1. p # NoOne
      BY FSAssumption DEF NoOne
    <3> QED
      BY <1>2, <3>1 DEF LockOK, LocksDp, LocksIp, LocksPut, Stands, FSInit
  <2>2. AliveOK(p)
    BY <1>2, <1>4 DEF AliveOK, Stands, Slots
  <2>3. KindOK(p)
    BY <1>2, <1>4 DEF KindOK, Stands, ParentCalls
  <2> QED
    BY <2>1, <2>2, <2>3 DEF CallOK
<1>6. DotInv
  BY <1>3 DEF Consistent, DotInv, Lookup
<1>7. LinkInv
  <2> SUFFICES ASSUME NEW j \in Inums PROVE dinode[j].nlink >= Cardinality(Links(j))
    BY <1>4 DEF LinkInv
  <2>1. CallsOn(j) = {}
    BY <1>2 DEF CallsOn, Pending, Stands
  <2>2. Entries(j) = Names2(dinode, j) /\ Subdirs(j) = Dirs2(dinode, j)
    BY DEF Entries, Subdirs, Names2, Dirs2, Lookup
  <2>3. Entries(j) \subseteq Inums \X Names /\ Subdirs(j) \subseteq Names
    BY DEF Entries, Subdirs
  <2>4. dinode[j].nlink \in Int
    BY <1>1, FSTypes, InodeFields DEF CountInv, FSTypeOK, DiskTypeOK
  <2>5. dinode[j].nlink >= Cardinality(Entries(j)) + Cardinality(Subdirs(j)) + (IF j = ROOTINO THEN 1 ELSE 0)
    BY <1>3, <2>2 DEF Consistent
  <2> QED
    BY <2>1, <2>3, <2>4, <2>5, BundleSize DEF Links
<1>8. PanicInv /\ LastInv
  BY DEF FSInit, PanicInv, LastInv
<1> QED
  BY <1>1, <1>5, <1>6, <1>7, <1>8 DEF FSInv, FSAll

\* A step that changes nothing keeps the invariant.
LEMMA FSInvStutters ==
  ASSUME FSInv, UNCHANGED fsVars
  PROVE  CallInv' /\ DotInv' /\ LinkInv' /\ PanicInv' /\ (LastInv => LastInv')
<1>1. \A p \in Procs : /\ At(p)' = At(p) /\ (HoldsDp(p)' <=> HoldsDp(p))
                       /\ (HoldsIp(p)' <=> HoldsIp(p)) /\ (HoldsPut(p)' <=> HoldsPut(p))
  BY DEF fsVars, callVars, HoldsDp, HoldsIp, HoldsPut, At, Linking2
<1>2. \A p \in Procs : \A k \in Slots : Points(p, k)' = Points(p, k)
  BY <1>1 DEF fsVars, callVars, Points, Slots
<1>3. dinode' = dinode /\ lock' = lock /\ panicked' = panicked /\ pc' = pc
      /\ rest' = rest /\ name' = name /\ new' = new
  BY DEF fsVars, diskVars, callVars
<1>4. ASSUME NEW p \in Procs PROVE CallOK(p)'
  <2>1. CallOK(p)
    BY DEF FSInv, CallInv
  <2>2. /\ At(p)' = At(p) /\ Points(p, "cwd")' = Points(p, "cwd") /\ Points(p, "dp")' = Points(p, "dp")
        /\ Points(p, "ip")' = Points(p, "ip") /\ Points(p, "put")' = Points(p, "put")
    BY <1>1, <1>2 DEF Slots
  <2>3. LockOK(p)'
    BY <1>3, <2>1, <2>2 DEF CallOK, LockOK, LocksDp, LocksIp, LocksPut
  <2>4. AliveOK(p)'
    BY <1>2, <1>3, <2>1 DEF CallOK, AliveOK, Freed
  <2>5. KindOK(p)'
    BY <1>3, <2>1, <2>2 DEF CallOK, KindOK, Lookup
  <2> QED
    BY <2>3, <2>4, <2>5 DEF CallOK
<1>5. DotInv' /\ PanicInv'
  BY <1>3 DEF FSInv, DotInv, Lookup, PanicInv
<1>6. \A j \in Inums : Links(j)' = Links(j)
  <2> SUFFICES ASSUME NEW j \in Inums PROVE Links(j)' = Links(j)
    OBVIOUS
  <2>1. Entries(j)' = Entries(j) /\ Subdirs(j)' = Subdirs(j)
    BY <1>3 DEF Entries, Subdirs, Lookup
  <2>2. \A p \in Procs : (Pending(p)' <=> Pending(p)) /\ Points(p, "ip")' = Points(p, "ip")
    BY <1>1, <1>2 DEF Pending, Slots
  <2>3. CallsOn(j)' = CallsOn(j)
    BY <2>2 DEF CallsOn
  <2> QED
    BY <2>1, <2>3 DEF Links
<1>7. LinkInv'
  BY <1>3, <1>6 DEF FSInv, LinkInv
<1>8. LastInv => LastInv'
  BY DEF LastInv, fsVars, callVars, diskVars
<1> QED
  BY <1>4, <1>5, <1>7, <1>8 DEF CallInv

\* Every step of a call that does not stray keeps the invariant.
LEMMA StepKeeps ==
  ASSUME FSInv, LastInv, NEW p \in Procs, ~Strays(p), Step(p)
  PROVE  FSAll'
<1> DEFINE Good == CallInv' /\ DotInv' /\ LinkInv' /\ PanicInv'
<1>1. ASSUME NEW call \in Calls, NEW path \in Paths, NEW path2 \in Paths, begin(p, call, path, path2)
      PROVE  Good
  BY <1>1, BeginKeeps
<1>2. ASSUME close(p) PROVE Good
  BY <1>2, CloseKeeps
<1>3. ASSUME Walk(p) PROVE Good
  <2>1. CASE namex_end(p)
    BY <2>1, NamexEndParentKeeps, NamexEndFoundKeeps
  <2>2. CASE namex_miss(p)
    BY <2>2, NamexMissKeeps
  <2>3. CASE namex_parent(p)
    BY <2>3, NamexParentKeeps
  <2>4. CASE namex_next(p)
    BY <2>4, NamexNextKeeps
  <2> QED
    BY <1>3, <2>1, <2>2, <2>3, <2>4 DEF Walk
<1>4. ASSUME Cache(p) PROVE Good
  BY <1>4, IputLastKeeps, IputFreeKeeps, IputDoneKeeps, IputBackKeeps DEF Cache
<1>5. ASSUME Linking(p) PROVE Good
  <2>1. CASE link_ip(p)
    BY <2>1, LinkDirKeeps, LinkKeeps
  <2>2. CASE link_dp(p)
    BY <2>2, LinkExistsKeeps, LinkNameKeeps
  <2>3. CASE link_exists(p) \/ link_end(p) \/ link_bad(p)
    BY <2>3, LinkUnlocksKeeps, LinkEndKeeps, LinkBadKeeps
  <2>4. CASE unlink_dp(p)
    BY <2>4, UnlinkFailsKeeps, UnlinkFoundKeeps
  <2>5. CASE unlink_ip(p)
    BY <2>5, UnlinkFullKeeps, UnlinkNameKeeps
  <2>6. CASE unlink_bad(p) \/ unlink_end(p)
    BY <2>6, UnlinkBadKeeps, UnlinkEndKeeps
  <2> QED
    BY <1>5, <2>1, <2>2, <2>3, <2>4, <2>5, <2>6 DEF Linking
<1>6. ASSUME Opening(p) PROVE Good
  <2>1. CASE open_ip(p)
    BY <2>1, OpenGetsFileKeeps, OpenGivesKeeps
  <2>2. CASE chdir_ip(p)
    BY <2>2, ChdirFailsKeeps, ChdirKeeps
  <2>3. CASE create_found(p)
    BY <2>3, CreateFoundKeeps
  <2>4. CASE create_ip(p)
    BY <2>4, CreateOpensKeeps, CreateGivesKeeps
  <2>5. CASE create_new(p)
    BY <2>5, CreatePanicsKeeps, CreateNewKeeps
  <2>6. CASE create_end(p)
    BY <2>6, CreateEndOpensKeeps, CreateEndGivesKeeps
  <2> QED
    BY <1>6, <2>1, <2>2, <2>3, <2>4, <2>5, <2>6 DEF Opening
<1> HIDE DEF Good
<1>7. Good
  BY <1>1, <1>2, <1>3, <1>4, <1>5, <1>6 DEF Step
<1>8. CountInv' /\ LastInv'
  BY StepCounts, LastStep DEF FSInv
<1> QED
  BY <1>7, <1>8 DEF Good, FSInv, FSAll

\* The invariant holds until somebody strays.
UntilStrayed == strayed \/ FSAll

LEMMA FSInvNext == UntilStrayed /\ [FSNext]_fsVars => UntilStrayed'
<1> SUFFICES ASSUME UntilStrayed, [FSNext]_fsVars PROVE UntilStrayed'
  OBVIOUS
<1>1. CASE strayed
  <2>1. strayed'
    BY <1>1 DEF FSNext, fsVars
  <2> QED
    BY <2>1 DEF UntilStrayed
<1>2. CASE FSAll /\ UNCHANGED fsVars
  <2>1. CountInv' /\ CallInv' /\ DotInv' /\ LinkInv' /\ PanicInv' /\ LastInv'
    BY <1>2, FSInvStutters, CountStutters DEF FSAll, FSInv
  <2> QED
    BY <2>1 DEF FSAll, FSInv, UntilStrayed
<1>3. ASSUME FSAll, NEW p \in Procs, Step(p), strayed' = (strayed \/ Strays(p))
      PROVE  UntilStrayed'
  <2>1. CASE Strays(p)
    BY <1>3, <2>1 DEF UntilStrayed
  <2>2. CASE ~Strays(p)
    BY <1>3, <2>2, StepKeeps DEF FSAll, UntilStrayed
  <2> QED
    BY <2>1, <2>2
<1> QED
  BY <1>1, <1>2, <1>3 DEF UntilStrayed, FSNext

\* What the invariant says of the inodes that names and processes refer to.
LEMMA FSInvSafe == UntilStrayed => NoUseAfterFree
<1> SUFFICES ASSUME UntilStrayed, ~strayed PROVE NoUseAfterFree
  BY DEF NoUseAfterFree
<1> FSInv
  BY DEF UntilStrayed, FSAll
<1>1. panicked \in {"no", "no_inodes"}
  BY DEF FSInv, PanicInv
<1>2. ASSUME NEW p \in Procs
      PROVE  dinode[cwd[p]].type = "dir" /\ (ofile[p] # NoInode => dinode[ofile[p]].type # "none")
  <2>1. AliveOK(p) /\ KindOK(p)
    BY DEF FSInv, CallInv, CallOK
  <2>2. Points(p, "cwd") = cwd[p] /\ Points(p, "ofile") = ofile[p]
    BY DEF Points
  <2> QED
    BY <2>1, <2>2 DEF AliveOK, KindOK, Slots, Freed
<1>3. ASSUME NEW d \in Inums, NEW n \in Names, Lookup(d, n) # NoInode
      PROVE  dinode[Lookup(d, n)].type # "none"
  <2>1. FSTypeOK /\ DotInv /\ LinkInv
    BY DEF FSInv, CountInv
  <2>2. Lookup(d, n) \in Inums
    <3>1. dinode[d].ents \in [AllNames -> Inums \cup {NoInode}] /\ n \in AllNames
      BY <2>1, InodeFields DEF FSTypeOK, DiskTypeOK, AllNames
    <3> QED
      BY <1>3, <3>1 DEF Lookup
  <2>3. Links(Lookup(d, n)) # {}
    BY NamedIsLinked
  <2> QED
    BY <2>1, <2>2, <2>3, LinkedIsAlive
<1> QED
  BY <1>1, <1>2, <1>3 DEF NoUseAfterFree

\* Links cover the names and the subdirectories among them.
LEMMA FSInvCovers == FSInv => LinksCoverNames
<1> SUFFICES ASSUME FSInv, NEW i \in Inums
             PROVE  dinode[i].nlink >= Count(Entries(i)) + Count(Subdirs(i))
  BY DEF LinksCoverNames
<1> DEFINE E == Entries(i)
           D == Subdirs(i)
<1>1. IsFiniteSet(Links(i)) /\ Cardinality(Links(i)) \in Nat
  BY LinksFinite
<1>2. dinode[i].nlink \in Int /\ dinode[i].nlink >= Cardinality(Links(i))
  BY InodeFields DEF FSInv, CountInv, FSTypeOK, DiskTypeOK, LinkInv
<1>3. IsFiniteSet(E) /\ IsFiniteSet(D)
  <2>1. IsFiniteSet(Inums)
    BY InumsFinite
  <2>2. IsFiniteSet(Inums \X Names)
    BY <2>1, FSAssumption, FS_Product
  <2>3. E \subseteq Inums \X Names /\ D \subseteq Names
    BY DEF Entries, Subdirs
  <2> QED
    BY <2>2, <2>3, FSAssumption, FS_Subset
<1>4. ({"name"} \X E) \cup ({"dir"} \X D) \subseteq Links(i)
  BY DEF Links, Bundle
<1>5. ({"name"} \X E) \cap ({"dir"} \X D) = {}
  OBVIOUS
<1> HIDE DEF E, D
<1>6. \A t : IsFiniteSet({t}) /\ Cardinality({t}) = 1
  BY FS_Singleton
<1>7. /\ Cardinality(E) \in Nat /\ Cardinality(D) \in Nat
  BY <1>3, FS_CardinalityType
<1>8. IsFiniteSet({"name"} \X E) /\ Cardinality({"name"} \X E) = Cardinality({"name"}) * Cardinality(E)
  BY <1>3, <1>6, FS_Product
<1>9. IsFiniteSet({"dir"} \X D) /\ Cardinality({"dir"} \X D) = Cardinality({"dir"}) * Cardinality(D)
  BY <1>3, <1>6, FS_Product
<1>10. Cardinality({"name"} \X E) = Cardinality(E) /\ Cardinality({"dir"} \X D) = Cardinality(D)
  <2>1. Cardinality({"name"}) = 1 /\ Cardinality({"dir"}) = 1
    BY <1>6
  <2>2. \A m \in Nat : 1 * m = m
    OBVIOUS
  <2> QED
    BY <1>7, <1>8, <1>9, <2>1, <2>2
<1>11. Cardinality(({"name"} \X E) \cup ({"dir"} \X D))
         = Cardinality({"name"} \X E) + Cardinality({"dir"} \X D) - Cardinality(({"name"} \X E) \cap ({"dir"} \X D))
  BY <1>8, <1>9, FS_Union
<1>12. Cardinality(({"name"} \X E) \cap ({"dir"} \X D)) = 0
  BY <1>5, FS_EmptySet
<1>13. Cardinality(({"name"} \X E) \cup ({"dir"} \X D)) <= Cardinality(Links(i))
  BY <1>1, <1>4, FS_Subset
<1>14. dinode[i].nlink >= Cardinality(E) + Cardinality(D)
  BY <1>1, <1>2, <1>7, <1>10, <1>11, <1>12, <1>13
<1> QED
  BY <1>14 DEF E, D, Count

\* Whatever happens between iput's look at a reference count and its free, the inodes of
\* names, open files and current directories stay allocated in every interleaving of the
\* calls, and neither ilock nor unlink panics, until a path leads through .. out of a
\* directory that was removed.
THEOREM NothingUsedAfterFree == FSSpec => []NoUseAfterFree
<1>1. FSInit => UntilStrayed
  BY FSInvInit DEF UntilStrayed
<1> QED
  BY <1>1, FSInvNext, FSInvSafe, PTL DEF FSSpec

\* Until then no inode has fewer links than names and subdirectories.
THEOREM LinksCoverAllNames == FSSpec => [](~strayed => LinksCoverNames)
<1>1. FSInit => UntilStrayed
  BY FSInvInit DEF UntilStrayed
<1>2. UntilStrayed => (~strayed => LinksCoverNames)
  BY FSInvCovers DEF UntilStrayed, FSAll
<1> QED
  BY <1>1, <1>2, FSInvNext, PTL DEF FSSpec
=============================================================================
