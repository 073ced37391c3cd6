----------------------------- MODULE FileSystem -----------------------------
(***************************************************************************)
(* Names and inodes of the xv6 file system: the inode cache with its          *)
(* reference counts and sleep locks and the path walk of fs.c, and the system *)
(* calls of sysfile.c that use them.  Every process runs one call at a time.  *)
(*                                                                         *)
(* A step ends where a process may have to wait for the lock of an inode, or  *)
(* where icache.lock lets another process see a reference count.  A           *)
(* directory is a function from names to inode numbers; begin_op and end_op   *)
(* are module Log's, the blocks of an inode are module File's.               *)
(***************************************************************************)
EXTENDS Integers, Sequences, FiniteSets

CONSTANTS
  Procs,
  NInodes,     \* sb.ninodes: inodes 1 .. NInodes
  NINODE,      \* entries of the inode cache
  Names,       \* names of files and directories, without . and ..
  Images,      \* the disks the system may start with
  Paths,       \* the paths programs use: <<absolute, sequence of names>>
  Calls,       \* the system calls they make
  MaxCalls     \* bound on the number of calls

ASSUME FSAssumption ==
  /\ NInodes \in Nat \ {0} /\ NINODE \in Nat /\ MaxCalls \in Nat
  /\ IsFiniteSet(Procs) /\ "nobody" \notin Procs
  /\ IsFiniteSet(Names) /\ "." \notin Names /\ ".." \notin Names
  /\ Paths \subseteq BOOLEAN \X Seq(Names \cup {".", ".."})
  /\ Calls \subseteq {"link", "unlink", "open", "create", "mkdir", "close", "chdir"}

VARIABLES
  dinode,    \* on disk: type, nlink and directory entries
  ref,       \* ip->ref; an entry of the cache is known by its inode number
  valid,     \* ip->valid
  lock,      \* the process that holds ip->lock, or NoOne
  cwd, ofile,    \* of each process; one open file
  pc,        \* where its system call is
  ret, iret,     \* where namex and iput return to
  ip, dp, put,   \* the inodes it works with, and the argument of iput
  rest, parent,  \* what namex has still to walk, and nameiparent
  name, new,     \* the last name, the second path of link
  calls,
  panicked,  \* the reason of a panic, or "no"
  strayed    \* history: somebody has followed .. out of a directory that was removed

diskVars == <<dinode, valid>>
callVars == <<ret, iret, ip, dp, put, rest, parent, name, new>>
fsVars == <<diskVars, ref, lock, cwd, ofile, pc, callVars, calls, panicked, strayed>>

Inums == 1 .. NInodes
ROOTINO == 1
NoInode == 0
NoOne == "nobody"
AllNames == Names \cup {".", ".."}
NoEntries == [n \in AllNames |-> NoInode]
Free == [type |-> "none", nlink |-> 0, ents |-> NoEntries]

\* A disk as mkfs or earlier runs leave it: directories have their dots, and every name
\* and subdirectory is counted as a link, as is the root itself.
Names2(d, i) == {e \in Inums \X Names : d[e[1]].ents[e[2]] = i}
Dirs2(d, i) == {n \in Names : d[i].ents[n] # NoInode /\ d[d[i].ents[n]].type = "dir"}
Consistent(d) ==
  /\ d \in [Inums -> [type : {"none", "file", "dir"}, nlink : Nat, ents : [AllNames -> Inums \cup {NoInode}]]]
  /\ d[ROOTINO].type = "dir"
  /\ \A i \in Inums :
       /\ d[i].type = "none" => d[i] = Free
       /\ d[i].type = "dir" => d[i].ents["."] = i /\ d[i].ents[".."] # NoInode
       /\ d[i].nlink >= Cardinality(Names2(d, i)) + Cardinality(Dirs2(d, i)) + (IF i = ROOTINO THEN 1 ELSE 0)

ASSUME ImagesAssumption == \A d \in Images : Consistent(d)

FSInit ==
  /\ dinode \in Images
  /\ ref = [i \in Inums |-> IF i = ROOTINO THEN Cardinality(Procs) ELSE 0]
  /\ valid = [i \in Inums |-> FALSE]
  /\ lock = [i \in Inums |-> NoOne]
  /\ cwd = [p \in Procs |-> ROOTINO]
  /\ ofile = [p \in Procs |-> NoInode]
  /\ pc = [p \in Procs |-> "user"]
  /\ ret = [p \in Procs |-> "user"] /\ iret = [p \in Procs |-> "user"]
  /\ ip = [p \in Procs |-> NoInode] /\ dp = [p \in Procs |-> NoInode]
  /\ put = [p \in Procs |-> NoInode]
  /\ rest = [p \in Procs |-> <<>>] /\ parent = [p \in Procs |-> FALSE]
  /\ name = [p \in Procs |-> "."] /\ new = [p \in Procs |-> <<FALSE, <<>>>>]
  /\ calls = 0 /\ panicked = "no" /\ strayed = FALSE

goto(p, where) == pc' = [pc EXCEPT ![p] = where]

\* The end of a call: nothing is remembered of it.
done(p) ==
  /\ goto(p, "user")
  /\ ret' = [ret EXCEPT ![p] = "user"] /\ iret' = [iret EXCEPT ![p] = "user"]
  /\ ip' = [ip EXCEPT ![p] = NoInode] /\ dp' = [dp EXCEPT ![p] = NoInode]
  /\ put' = [put EXCEPT ![p] = NoInode]
  /\ rest' = [rest EXCEPT ![p] = <<>>] /\ parent' = [parent EXCEPT ![p] = FALSE]
  /\ name' = [name EXCEPT ![p] = "."] /\ new' = [new EXCEPT ![p] = <<FALSE, <<>>>>]

-----------------------------------------------------------------------------
(* fs.c: the inode cache *)

\* iget and idup: one more pointer to an inode.  iget panics when it needs an entry of
\* the cache and finds none: a state with more of them in use is the last one.
iget(i) == ref' = [ref EXCEPT ![i] = @ + 1]
CacheOverrun == Cardinality({i \in Inums : ref[i] > 0}) > NINODE

\* ilock reads the inode from the disk the first time; an inode that nobody allocated,
\* or that has no reference, makes it panic.
Lockable(i) == lock[i] = NoOne
loads(i) ==
  /\ valid' = [valid EXCEPT ![i] = TRUE]
  /\ panicked' = IF ref[i] < 1 THEN "ilock"
                 ELSE IF ~valid[i] /\ dinode[i].type = "none" THEN "no_type" ELSE panicked

\* iput(i), to go on at next: it is a call of its own, for it waits for the lock.
iput(p, i, next) ==
  /\ put' = [put EXCEPT ![p] = i]
  /\ iret' = [iret EXCEPT ![p] = next]
  /\ goto(p, "iput")

\* Mutant of LastUse: other pointers to the inode are not counted.
LastUse_AnyRef(i) == valid[i] /\ dinode[i].nlink = 0

\* An inode that no name and no other pointer refers to.
LastUse(i) == valid[i] /\ dinode[i].nlink = 0 /\ ref[i] = 1

\* Under the lock of the inode and, for the moment of reading ref, icache.lock, iput
\* decides whether the inode is in its last use.
iput_last(p) ==
  /\ pc[p] = "iput" /\ Lockable(put[p])
  /\ IF LastUse(put[p]) THEN lock' = [lock EXCEPT ![put[p]] = p] /\ goto(p, "iput_free")
                         ELSE UNCHANGED lock /\ goto(p, "iput_ref")
  /\ UNCHANGED <<diskVars, ref, cwd, ofile, callVars, calls, panicked>>

\* It then frees it, while others may use the cache.
iput_free(p) ==
  /\ pc[p] = "iput_free"
  /\ dinode' = [dinode EXCEPT ![put[p]] = Free]
  /\ valid' = [valid EXCEPT ![put[p]] = FALSE]
  /\ lock' = [lock EXCEPT ![put[p]] = NoOne]
  /\ goto(p, "iput_ref")
  /\ UNCHANGED <<ref, cwd, ofile, callVars, calls, panicked>>

\* The reference goes after the lock was given back; iget reads an entry without
\* references from the disk again.
iput_ref(p) ==
  /\ pc[p] = "iput_ref"
  /\ ref' = [ref EXCEPT ![put[p]] = @ - 1]
  /\ valid' = [valid EXCEPT ![put[p]] = @ /\ ref[put[p]] > 1]
  /\ IF iret[p] = "user" THEN done(p) ELSE goto(p, iret[p]) /\ UNCHANGED callVars
  /\ UNCHANGED <<dinode, lock, cwd, ofile, calls, panicked>>

-----------------------------------------------------------------------------
(* fs.c: namex *)

\* The start of a walk: the root or the current directory.
namex(p, path, isparent, next) ==
  LET start == IF path[1] THEN ROOTINO ELSE cwd[p] IN
  /\ iget(start)
  /\ dp' = [dp EXCEPT ![p] = start]
  /\ rest' = [rest EXCEPT ![p] = path[2]]
  /\ parent' = [parent EXCEPT ![p] = isparent]
  /\ ret' = [ret EXCEPT ![p] = next]
  /\ goto(p, "namex")

\* Where a call goes on when its walk has failed.
Failed(p) == IF ret[p] = "link_dp" THEN "link_bad" ELSE "user"

\* The end of the path: a parent was wanted and there is none, or found.
namex_end(p) ==
  /\ pc[p] = "namex" /\ rest[p] = <<>>
  /\ IF parent[p]
       THEN iput(p, dp[p], Failed(p)) /\ UNCHANGED <<ip, ret, dp, rest, parent, name, new>>
       ELSE ip' = [ip EXCEPT ![p] = dp[p]] /\ goto(p, ret[p])
            /\ UNCHANGED <<ret, iret, put, dp, rest, parent, name, new>>
  /\ UNCHANGED <<diskVars, ref, lock, cwd, ofile, calls, panicked>>

Lookup(i, n) == dinode[i].ents[n]

\* Mutant of namex_miss: the directory is not put back.
namex_miss_NoPut(p) ==
  /\ pc[p] = "namex" /\ rest[p] # <<>> /\ Lockable(dp[p])
  /\ loads(dp[p])
  /\ \/ dinode[dp[p]].type # "dir"
     \/ ~(parent[p] /\ Len(rest[p]) = 1) /\ Lookup(dp[p], Head(rest[p])) = NoInode
  /\ IF Failed(p) = "user" THEN done(p) ELSE goto(p, Failed(p)) /\ UNCHANGED callVars
  /\ UNCHANGED <<dinode, ref, lock, cwd, ofile, calls>>

\* Not a directory, or no such name.
namex_miss(p) ==
  /\ pc[p] = "namex" /\ rest[p] # <<>> /\ Lockable(dp[p])
  /\ loads(dp[p])
  /\ \/ dinode[dp[p]].type # "dir"
     \/ ~(parent[p] /\ Len(rest[p]) = 1) /\ Lookup(dp[p], Head(rest[p])) = NoInode
  /\ iput(p, dp[p], Failed(p))
  /\ UNCHANGED <<dinode, ref, lock, cwd, ofile, ret, ip, dp, rest, parent, name, new, calls>>

\* nameiparent stops one level early.
namex_parent(p) ==
  /\ pc[p] = "namex" /\ Len(rest[p]) = 1 /\ parent[p] /\ Lockable(dp[p])
  /\ loads(dp[p])
  /\ dinode[dp[p]].type = "dir"
  /\ name' = [name EXCEPT ![p] = Head(rest[p])]
  /\ goto(p, ret[p])
  /\ UNCHANGED <<dinode, ref, lock, cwd, ofile, ret, iret, ip, dp, put, rest, parent, new, calls>>

\* The next directory is referenced before the lock of this one is given back.
namex_next(p) ==
  /\ pc[p] = "namex" /\ rest[p] # <<>> /\ Lockable(dp[p])
  /\ ~(parent[p] /\ Len(rest[p]) = 1)
  /\ loads(dp[p])
  /\ dinode[dp[p]].type = "dir"
  /\ LET next == Lookup(dp[p], Head(rest[p])) IN
       /\ next # NoInode
       /\ iget(next)
       /\ dp' = [dp EXCEPT ![p] = next]
  /\ rest' = [rest EXCEPT ![p] = Tail(@)]
  /\ iput(p, dp[p], "namex")
  /\ UNCHANGED <<dinode, lock, cwd, ofile, ret, ip, parent, name, new, calls>>

-----------------------------------------------------------------------------
(* sysfile.c *)

\* A program makes a call; open, chdir and link look up the whole path, the
\* others its parent.
begin(p, call, path, path2) ==
  /\ pc[p] = "user" /\ call # "close" /\ calls < MaxCalls
  /\ calls' = calls + 1
  /\ namex(p, path, call \in {"unlink", "create", "mkdir"},
           CASE call = "link" -> "link_ip" [] call = "unlink" -> "unlink_dp"
             [] call = "open" -> "open_ip" [] call = "chdir" -> "chdir_ip"
             [] call = "create" -> "create_dp" [] call = "mkdir" -> "mkdir_dp")
  /\ new' = [new EXCEPT ![p] = IF call = "link" THEN path2 ELSE <<FALSE, <<>>>>]
  /\ UNCHANGED <<diskVars, lock, cwd, ofile, iret, ip, put, name, panicked>>

\* sys_close: the last reference to the open file gives up its inode.
close(p) ==
  /\ pc[p] = "user" /\ ofile[p] # NoInode /\ "close" \in Calls /\ calls < MaxCalls
  /\ calls' = calls + 1
  /\ ofile' = [ofile EXCEPT ![p] = NoInode]
  /\ iput(p, ofile[p], "user")
  /\ UNCHANGED <<diskVars, ref, lock, cwd, ret, ip, dp, rest, parent, name, new, panicked>>

\* open without O_CREATE; a process without a free descriptor gives up, as does
\* one that wants to write to a directory.
open_ip(p) ==
  /\ pc[p] = "open_ip" /\ Lockable(ip[p])
  /\ loads(ip[p])
  /\ \/ /\ ofile[p] = NoInode
        /\ ofile' = [ofile EXCEPT ![p] = ip[p]]
        /\ done(p)
     \/ /\ ofile[p] # NoInode \/ dinode[ip[p]].type = "dir"
        /\ iput(p, ip[p], "user")
        /\ UNCHANGED <<ofile, ret, ip, dp, rest, parent, name, new>>
  /\ UNCHANGED <<dinode, ref, lock, cwd, calls>>

\* A new current directory, then the old one is given up.
chdir_ip(p) ==
  /\ pc[p] = "chdir_ip" /\ Lockable(ip[p])
  /\ loads(ip[p])
  /\ IF dinode[ip[p]].type # "dir"
       THEN iput(p, ip[p], "user") /\ UNCHANGED cwd
       ELSE iput(p, cwd[p], "user") /\ cwd' = [cwd EXCEPT ![p] = ip[p]]
  /\ UNCHANGED <<dinode, ref, lock, ofile, ret, ip, dp, rest, parent, name, new, calls>>

\* create: the name exists, and its inode is looked at after the directory was
\* given up.
create_found(p) ==
  /\ pc[p] \in {"create_dp", "mkdir_dp"} /\ Lockable(dp[p])
  /\ loads(dp[p])
  /\ LET i == Lookup(dp[p], name[p]) IN
       /\ i # NoInode
       /\ iget(i)
       /\ ip' = [ip EXCEPT ![p] = i]
  /\ iput(p, dp[p], IF pc[p] = "create_dp" THEN "create_ip" ELSE "mkdir_ip")
  /\ UNCHANGED <<dinode, lock, cwd, ofile, ret, dp, rest, parent, name, new, calls>>

\* An existing file is opened, anything else is an error.
create_ip(p) ==
  /\ pc[p] \in {"create_ip", "mkdir_ip"} /\ Lockable(ip[p])
  /\ loads(ip[p])
  /\ IF pc[p] = "create_ip" /\ dinode[ip[p]].type = "file" /\ ofile[p] = NoInode
       THEN ofile' = [ofile EXCEPT ![p] = ip[p]] /\ done(p)
       ELSE iput(p, ip[p], "user") /\ UNCHANGED <<ofile, ret, ip, dp, rest, parent, name, new>>
  /\ UNCHANGED <<dinode, ref, lock, cwd, calls>>

FreeInodes == {i \in Inums : dinode[i].type = "none"}

\* create: ialloc takes the first free inode, which stays locked while the
\* directory is given up; without one it panics.
create_new(p) ==
  /\ pc[p] \in {"create_dp", "mkdir_dp"} /\ Lockable(dp[p])
  /\ Lookup(dp[p], name[p]) = NoInode
  /\ IF FreeInodes = {}
       THEN /\ panicked' = "no_inodes" /\ goto(p, "panic")
            /\ UNCHANGED <<diskVars, ref, lock, callVars>>
       ELSE LET i == CHOOSE i \in FreeInodes : \A j \in FreeInodes : i <= j
                isdir == pc[p] = "mkdir_dp"
                dots == [NoEntries EXCEPT !["."] = i, ![".."] = dp[p]]
                inode == [type |-> IF isdir THEN "dir" ELSE "file", nlink |-> 1,
                          ents |-> IF isdir THEN dots ELSE NoEntries]
            IN  /\ Lockable(i)
                /\ dinode' = [dinode EXCEPT
                     ![i] = inode,
                     ![dp[p]].ents[name[p]] = i,
                     ![dp[p]].nlink = IF isdir THEN @ + 1 ELSE @]
                /\ iget(i)
                /\ valid' = [valid EXCEPT ![i] = TRUE, ![dp[p]] = TRUE]
                /\ lock' = [lock EXCEPT ![i] = p]
                /\ ip' = [ip EXCEPT ![p] = i]
                /\ iput(p, dp[p], IF isdir THEN "mkdir_end" ELSE "create_end")
                /\ UNCHANGED <<ret, dp, rest, parent, name, new, panicked>>
  /\ UNCHANGED <<cwd, ofile, calls>>

\* The new inode is unlocked; open keeps it if it has a descriptor.
create_end(p) ==
  /\ pc[p] \in {"create_end", "mkdir_end"}
  /\ lock' = [lock EXCEPT ![ip[p]] = NoOne]
  /\ IF pc[p] = "create_end" /\ ofile[p] = NoInode
       THEN ofile' = [ofile EXCEPT ![p] = ip[p]] /\ done(p)
       ELSE iput(p, ip[p], "user") /\ UNCHANGED <<ofile, ret, ip, dp, rest, parent, name, new>>
  /\ UNCHANGED <<diskVars, ref, cwd, calls, panicked>>

\* Mutant of link_ip: the link is not counted.
link_ip_NotCounted(p) ==
  /\ pc[p] = "link_ip" /\ Lockable(ip[p])
  /\ loads(ip[p])
  /\ dinode[ip[p]].type # "dir"
  /\ namex(p, new[p], TRUE, "link_dp")
  /\ UNCHANGED <<dinode, put, iret, lock, cwd, ofile, ip, name, new, calls>>

\* link: one link more, before there is a name for it.
link_ip(p) ==
  /\ pc[p] = "link_ip" /\ Lockable(ip[p])
  /\ loads(ip[p])
  /\ IF dinode[ip[p]].type = "dir"
       THEN /\ iput(p, ip[p], "user")
            /\ UNCHANGED <<dinode, ref, ret, dp, rest, parent>>
       ELSE /\ dinode' = [dinode EXCEPT ![ip[p]].nlink = @ + 1]
            /\ namex(p, new[p], TRUE, "link_dp")
            /\ UNCHANGED <<put, iret>>
  /\ UNCHANGED <<lock, cwd, ofile, ip, name, new, calls>>

\* The name, in the locked directory.  A name that exists is put back while the
\* directory is still locked.
link_dp(p) ==
  /\ pc[p] = "link_dp" /\ Lockable(dp[p])
  /\ loads(dp[p])
  /\ LET i == Lookup(dp[p], name[p]) IN
       IF i # NoInode
         THEN /\ iget(i)
              /\ lock' = [lock EXCEPT ![dp[p]] = p]
              /\ iput(p, i, "link_exists")
              /\ UNCHANGED dinode
         ELSE /\ dinode' = [dinode EXCEPT ![dp[p]].ents[name[p]] = ip[p]]
              /\ iput(p, dp[p], "link_end")
              /\ UNCHANGED <<ref, lock>>
  /\ UNCHANGED <<cwd, ofile, ret, ip, dp, rest, parent, name, new, calls>>

link_exists(p) ==
  /\ pc[p] = "link_exists"
  /\ lock' = [lock EXCEPT ![dp[p]] = NoOne]
  /\ iput(p, dp[p], "link_bad")
  /\ UNCHANGED <<diskVars, ref, cwd, ofile, ret, ip, dp, rest, parent, name, new, calls, panicked>>

link_end(p) ==
  /\ pc[p] = "link_end"
  /\ iput(p, ip[p], "user")
  /\ UNCHANGED <<diskVars, ref, lock, cwd, ofile, ret, ip, dp, rest, parent, name, new, calls, panicked>>

\* The link is taken back.
link_bad(p) ==
  /\ pc[p] = "link_bad" /\ Lockable(ip[p])
  /\ loads(ip[p])
  /\ dinode' = [dinode EXCEPT ![ip[p]].nlink = @ - 1]
  /\ iput(p, ip[p], "user")
  /\ UNCHANGED <<ref, lock, cwd, ofile, ret, ip, dp, rest, parent, name, new, calls>>

\* unlink: the name is looked up in the locked directory, which stays locked.
unlink_dp(p) ==
  /\ pc[p] = "unlink_dp" /\ Lockable(dp[p])
  /\ loads(dp[p])
  /\ LET i == Lookup(dp[p], name[p]) IN
       IF name[p] \in {".", ".."} \/ i = NoInode
         THEN iput(p, dp[p], "user") /\ UNCHANGED <<ref, lock, ip>>
         ELSE /\ iget(i)
              /\ lock' = [lock EXCEPT ![dp[p]] = p]
              /\ ip' = [ip EXCEPT ![p] = i]
              /\ goto(p, "unlink_ip")
              /\ UNCHANGED <<put, iret>>
  /\ UNCHANGED <<dinode, cwd, ofile, ret, dp, rest, parent, name, new, calls>>

Empty(i) == \A n \in Names : Lookup(i, n) = NoInode

\* The name is removed; the directory is given up while the inode is locked.
unlink_ip(p) ==
  /\ pc[p] = "unlink_ip" /\ Lockable(ip[p])
  /\ valid' = [valid EXCEPT ![ip[p]] = TRUE]
  /\ panicked' = IF dinode[ip[p]].nlink < 1 THEN "nlink" ELSE panicked
  /\ LET isdir == dinode[ip[p]].type = "dir" IN
       IF isdir /\ ~Empty(ip[p])
         THEN iput(p, ip[p], "unlink_bad") /\ UNCHANGED <<dinode, lock>>
         ELSE /\ dinode' = [dinode EXCEPT ![dp[p]].ents[name[p]] = NoInode,
                                          ![dp[p]].nlink = IF isdir THEN @ - 1 ELSE @]
              /\ lock' = [lock EXCEPT ![ip[p]] = p, ![dp[p]] = NoOne]
              /\ iput(p, dp[p], "unlink_end")
  /\ UNCHANGED <<ref, cwd, ofile, ret, ip, dp, rest, parent, name, new, calls>>

unlink_bad(p) ==
  /\ pc[p] = "unlink_bad"
  /\ lock' = [lock EXCEPT ![dp[p]] = NoOne]
  /\ iput(p, dp[p], "user")
  /\ UNCHANGED <<diskVars, ref, cwd, ofile, ret, ip, dp, rest, parent, name, new, calls, panicked>>

unlink_end(p) ==
  /\ pc[p] = "unlink_end"
  /\ dinode' = [dinode EXCEPT ![ip[p]].nlink = @ - 1]
  /\ lock' = [lock EXCEPT ![ip[p]] = NoOne]
  /\ iput(p, ip[p], "user")
  /\ UNCHANGED <<valid, ref, cwd, ofile, ret, ip, dp, rest, parent, name, new, calls, panicked>>

-----------------------------------------------------------------------------
Walk(p) == namex_end(p) \/ namex_miss(p) \/ namex_parent(p) \/ namex_next(p)

Cache(p) == iput_last(p) \/ iput_free(p) \/ iput_ref(p)

Linking(p) ==
  \/ link_ip(p) \/ link_dp(p) \/ link_exists(p) \/ link_end(p) \/ link_bad(p)
  \/ unlink_dp(p) \/ unlink_ip(p) \/ unlink_bad(p) \/ unlink_end(p)

Opening(p) ==
  \/ open_ip(p) \/ chdir_ip(p)
  \/ create_found(p) \/ create_ip(p) \/ create_new(p) \/ create_end(p)

\* The name that a step of p asks dirlookup for, to use the inode, and whether it is ..
\* in a directory that has no name in its parent any more.
Asked(p) ==
  IF pc[p] = "namex" /\ Len(rest[p]) > (IF parent[p] THEN 1 ELSE 0) THEN Head(rest[p])
  ELSE IF pc[p] \in {"create_dp", "mkdir_dp", "link_dp"} THEN name[p] ELSE "."
Strays(p) ==
  /\ Asked(p) = ".."
  /\ LET up == Lookup(dp[p], "..")
     IN  up \notin {dp[p], NoInode} /\ \A n \in Names : Lookup(up, n) # dp[p]

Step(p) ==
  \/ \E call \in Calls, path \in Paths, path2 \in Paths :
       (call # "link" => path2 = path) /\ begin(p, call, path, path2)
  \/ close(p)
  \/ Walk(p) \/ Cache(p) \/ Linking(p) \/ Opening(p)

FSNext ==
  /\ panicked = "no" /\ ~CacheOverrun
  /\ \E p \in Procs : Step(p) /\ strayed' = (strayed \/ Strays(p))

FSSpec == FSInit /\ [][FSNext]_fsVars

-----------------------------------------------------------------------------
(* Properties *)

Count(S) == Cardinality(S)

\* When no call is running, the reference count of an inode is the number of
\* open files and current directories that point to it: no path through namex,
\* link, unlink and create keeps a reference or gives one up twice.
RefsBalance ==
  (\A p \in Procs : pc[p] = "user") =>
    \A i \in Inums :
      ref[i] = Count({p \in Procs : cwd[p] = i}) + Count({p \in Procs : ofile[p] = i})

\* No use after free: the inode of an open file, of a current directory and of
\* every name is allocated, whoever unlinks it meanwhile, whatever happens between
\* iput's look at ref and its free, and the panics of ilock and unlink are not reached.
\* (A full disk does panic; and .. of a directory that was removed may lead to an inode
\* that is free, or another one: xv6 does not keep the parent.)
NoUseAfterFree ==
  ~strayed =>
    /\ panicked \in {"no", "no_inodes"}
    /\ \A p \in Procs : /\ dinode[cwd[p]].type = "dir"
                        /\ ofile[p] # NoInode => dinode[ofile[p]].type # "none"
    /\ \A d \in Inums, n \in Names : Lookup(d, n) # NoInode => dinode[Lookup(d, n)].type # "none"

Entries(i) == {e \in Inums \X Names : Lookup(e[1], e[2]) = i}
Subdirs(i) == {n \in Names : Lookup(i, n) # NoInode /\ dinode[Lookup(i, n)].type = "dir"}

\* Links are never fewer than names, and a directory also has a link for each
\* subdirectory that it names: unlinking one name of several, in whatever order with
\* link, cannot free what another name refers to, and the last rmdir cannot free a
\* directory with others in it.  (They may be more: a name made in a directory that was
\* removed meanwhile is lost.)
LinksCoverNames ==
  \A i \in Inums : dinode[i].nlink >= Count(Entries(i)) + Count(Subdirs(i))

\* The process that holds the inode lock that p waits for.
WaitsFor(p) ==
  CASE pc[p] = "iput" -> lock[put[p]]
    [] pc[p] \in {"namex", "create_dp", "mkdir_dp", "link_dp", "unlink_dp"} -> lock[dp[p]]
    [] pc[p] \in {"open_ip", "chdir_ip", "create_ip", "mkdir_ip", "link_ip", "link_bad", "unlink_ip"} -> lock[ip[p]]
    [] OTHER -> NoOne

\* No process waits for an inode lock that it holds itself, and no two wait for a
\* lock of each other: what the separation of iget and ilock is said to help with.
NoCircularWait ==
  \A p \in Procs : WaitsFor(p) # p /\ (WaitsFor(p) \in Procs => WaitsFor(WaitsFor(p)) # p)
=============================================================================
