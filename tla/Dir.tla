-------------------------------- MODULE Dir ---------------------------------
(***************************************************************************)
(* Directories and path names: namex, dirlookup and dirlink of kernel/fs.c *)
(* and the system calls of kernel/sysfile.c that walk a path: open, mkdir, *)
(* mknod, link, unlink and chdir.  A step is what runs while a sleep lock  *)
(* is taken and given up again, or until the next one is taken.  The inode *)
(* table is abstracted to the pointers that exist, which is what its       *)
(* counts come to (module Inode): iput frees what it finds to be the last  *)
(* pointer to an inode without links.                                      *)
(***************************************************************************)
EXTENDS Integers, Sequences, FiniteSets, FiniteSetsExt

CONSTANTS
    Procs,
    Names,     \* names of directory entries, other than "." and ".."
    NINODES,
    MaxLink,   \* bound: no link is added while an inode has that many
    Calls,     \* Calls[p]: the system calls p makes: [op, path] and for a link [new]
    None

Inums == 1..NINODES
ROOTINO == 1
Elems == Names \union {".", ".."}

VARIABLES
    inode,         \* the inodes: type, nlink, and for a directory its entries
    lock,          \* lock[i]: who holds the sleep lock
    pc, op, path,  \* of each process: where it is, its call, what is left of the path
    ip, dp,        \* the inodes it has in hand, or None
    cwd, fd,       \* its working directory and its open file
    astray,        \* history: an entry was made in a directory that was removed
    panicked

call == <<pc, op, path, ip, dp>>
vars == <<inode, lock, call, cwd, fd, astray, panicked>>

NoEntries == [n \in Elems |-> 0]
Free == [type |-> "free", nlink |-> 0, entry |-> NoEntries]

\* mkfs makes the root directory.
RootDir == [type |-> "dir", nlink |-> 1,
         entry |-> [NoEntries EXCEPT !["."] = ROOTINO, ![".."] = ROOTINO]]

Init ==
    /\ inode = [i \in Inums |-> IF i = ROOTINO THEN RootDir ELSE Free]
    /\ lock = [i \in Inums |-> None]
    /\ pc = [p \in Procs |-> "user"] /\ op = [p \in Procs |-> None]
    /\ path = [p \in Procs |-> <<>>]
    /\ ip = [p \in Procs |-> None] /\ dp = [p \in Procs |-> None]
    /\ cwd = [p \in Procs |-> ROOTINO] /\ fd = [p \in Procs |-> None]
    /\ astray = FALSE /\ panicked = FALSE
-----------------------------------------------------------------------------
At(p, l) == ~panicked /\ pc[p] = l
Goto(p, l) == pc' = [pc EXCEPT ![p] = l]

Return(p) ==
    /\ Goto(p, "user")
    /\ op' = [op EXCEPT ![p] = None] /\ path' = [path EXCEPT ![p] = <<>>]
    /\ ip' = [ip EXCEPT ![p] = None] /\ dp' = [dp EXCEPT ![p] = None]

\* The pointers to an inode: what its ref counts.
Ref(i) == Cardinality({p \in Procs : ip[p] = i}) + Cardinality({p \in Procs : dp[p] = i})
        + Cardinality({p \in Procs : cwd[p] = i}) + Cardinality({p \in Procs : fd[p] = i})

\* The inodes after an iput of i, the reference that is given up included in Ref.
iput(d, i) == IF Ref(i) = 1 /\ d[i].nlink = 0 THEN [d EXCEPT ![i] = Free] ELSE d

\* The calls that use nameiparent.
Parent == {"create", "mkdir", "mknod", "unlink", "linknew"}

\* ilock takes the lock of i.
CanLock(i) == lock[i] = None /\ inode[i].type # "free"

\* It panics, "ilock: no type", when i is free; all places but the last test of
\* nameiparent are about to lock ip.
ilockPanics(p) == LET i == ip[p] IN
    /\ ~panicked /\ pc[p] # "user" /\ ~(pc[p] = "walk" /\ path[p] = <<>> /\ op[p] \in Parent)
    /\ lock[i] = None /\ inode[i].type = "free"
    /\ panicked' = TRUE
    /\ UNCHANGED <<inode, lock, call, cwd, fd, astray>>

dirlink(d, i, n, k) == [d EXCEPT ![i].entry[n] = k]
isdirempty(i) == \A n \in Names : inode[i].entry[n] = 0
-----------------------------------------------------------------------------
\* Free inodes that no call has yet to take: the calls that might run out of
\* inodes, where ialloc panics, are not begun.
Spare == Cardinality({i \in Inums : inode[i].type = "free"})
         - Cardinality({p \in Procs : op[p] \in {"create", "mkdir", "mknod"}})

Begin(p, o, q) ==
    /\ op' = [op EXCEPT ![p] = o] /\ path' = [path EXCEPT ![p] = q.elems]
    /\ ip' = [ip EXCEPT ![p] = IF q.abs THEN ROOTINO ELSE cwd[p]]
    /\ Goto(p, "walk")

\* A system call enters namex.
Call(p, c) ==
    /\ At(p, "user")
    /\ c.op \in {"open", "create"} => fd[p] = None
    /\ c.op \in {"create", "mkdir", "mknod"} => Spare > 0
    /\ c.op \in {"mkdir", "link"} => \A i \in Inums : inode[i].nlink < MaxLink
    /\ Begin(p, c.op, c.path)
    /\ UNCHANGED <<inode, lock, dp, cwd, fd, astray, panicked>>

\* The call fails with the inode at hand: iunlockput and return -1.  A link
\* has its count to undo first.
Fail(p) ==
    /\ inode' = iput(inode, ip[p])
    /\ IF op[p] = "linknew"
       THEN /\ ip' = [ip EXCEPT ![p] = dp[p]] /\ dp' = [dp EXCEPT ![p] = None]
            /\ path' = [path EXCEPT ![p] = <<>>]
            /\ Goto(p, "undo")
            /\ UNCHANGED op
       ELSE Return(p)
    /\ UNCHANGED <<lock, cwd, fd, astray, panicked>>

\* One round of namex, from ilock to iunlockput.
namex(p) == LET i == ip[p]
                next == inode[i].entry[Head(path[p])] IN
    /\ At(p, "walk") /\ path[p] # <<>>
    /\ \/ CanLock(i) /\ inode[i].type # "dir" /\ Fail(p)
       \/ /\ CanLock(i) /\ inode[i].type = "dir"
          /\ op[p] \in Parent /\ Len(path[p]) = 1
          /\ Goto(p, "parent")
          /\ UNCHANGED <<inode, lock, op, path, ip, dp, cwd, fd, astray, panicked>>
       \/ /\ CanLock(i) /\ inode[i].type = "dir"
          /\ ~(op[p] \in Parent /\ Len(path[p]) = 1)
          /\ \/ next = 0 /\ Fail(p)
             \/ /\ next # 0
                /\ inode' = IF next = i THEN inode ELSE iput(inode, i)
                /\ ip' = [ip EXCEPT ![p] = next]
                /\ path' = [path EXCEPT ![p] = Tail(@)]
                /\ UNCHANGED <<lock, pc, op, dp, cwd, fd, astray, panicked>>

\* nameiparent of a path without a last element.
NoParent(p) ==
    /\ At(p, "walk") /\ path[p] = <<>> /\ op[p] \in Parent
    /\ Fail(p)
-----------------------------------------------------------------------------
\* sys_open of what namei found: a directory only for reading; filealloc fails.
Open(p) == LET i == ip[p] IN
    /\ At(p, "walk") /\ path[p] = <<>> /\ op[p] = "open"
    /\ \/ CanLock(i) /\ Fail(p)
       \/ /\ CanLock(i)
          /\ fd' = [fd EXCEPT ![p] = i]
          /\ Return(p)
          /\ UNCHANGED <<inode, lock, cwd, astray, panicked>>

fileclose(p) ==
    /\ At(p, "user") /\ fd[p] # None
    /\ inode' = iput(inode, fd[p])
    /\ fd' = [fd EXCEPT ![p] = None]
    /\ UNCHANGED <<lock, call, cwd, astray, panicked>>

sys_chdir(p) == LET i == ip[p] IN
    /\ At(p, "walk") /\ path[p] = <<>> /\ op[p] = "chdir"
    /\ \/ CanLock(i) /\ inode[i].type # "dir" /\ Fail(p)
       \/ /\ CanLock(i) /\ inode[i].type = "dir"
          /\ inode' = iput(inode, cwd[p])
          /\ cwd' = [cwd EXCEPT ![p] = i]
          /\ Return(p)
          /\ UNCHANGED <<lock, fd, astray, panicked>>
-----------------------------------------------------------------------------
\* create, with the parent locked: the name exists, or an inode is allocated
\* and the parent stays locked.
CreateLookup(p) == LET d == ip[p]
                       found == inode[d].entry[Head(path[p])]
                       new == Min({i \in Inums : inode[i].type = "free"}) IN
    /\ At(p, "parent") /\ op[p] \in {"create", "mkdir", "mknod"} /\ CanLock(d)
    /\ \/ /\ found # 0
          /\ inode' = IF found = d THEN inode ELSE iput(inode, d)
          /\ ip' = [ip EXCEPT ![p] = found]
          /\ Goto(p, "exists")
          /\ UNCHANGED <<lock, dp>>
       \/ /\ found = 0
          /\ inode' = [inode EXCEPT ![new].type =
                         CASE op[p] = "create" -> "file"
                           [] op[p] = "mkdir" -> "dir"
                           [] op[p] = "mknod" -> "dev"]
          /\ lock' = [lock EXCEPT ![d] = p]
          /\ dp' = [dp EXCEPT ![p] = d] /\ ip' = [ip EXCEPT ![p] = new]
          /\ Goto(p, "fill")
    /\ UNCHANGED <<op, path, cwd, fd, astray, panicked>>

\* open(O_CREATE) of an existing file or device; anything else fails.
CreateExists(p) == LET i == ip[p] IN
    /\ At(p, "exists")
    /\ \/ CanLock(i) /\ Fail(p)
       \/ /\ CanLock(i) /\ op[p] = "create" /\ inode[i].type \in {"file", "dev"}
          /\ fd' = [fd EXCEPT ![p] = i]
          /\ Return(p)
          /\ UNCHANGED <<inode, lock, cwd, astray, panicked>>

\* Mutated form: the parent's link for ".." is forgotten.
DotsUncounted(d, i, k) == [d EXCEPT ![k].entry["."] = k, ![k].entry[".."] = i]

\* "Create . and .. entries", and count ".." in the parent.
Dots(d, i, k) == [d EXCEPT ![i].nlink = @ + 1, ![k].entry["."] = k, ![k].entry[".."] = i]

CreateLink(p) == LET d == dp[p]
                     i == ip[p]
                     one == [inode EXCEPT ![i].nlink = 1]
                     dots == IF op[p] = "mkdir" THEN Dots(one, d, i) ELSE one
                 IN
    /\ At(p, "fill") /\ CanLock(i)
    /\ inode' = iput(dirlink(dots, d, Head(path[p]), i), d)
    /\ lock' = [lock EXCEPT ![d] = None]
    /\ astray' = (astray \/ inode[d].nlink = 0)
    /\ fd' \in {fd} \union (IF op[p] = "create" THEN {[fd EXCEPT ![p] = i]} ELSE {})
    /\ Return(p)
    /\ UNCHANGED <<cwd, panicked>>
-----------------------------------------------------------------------------
\* sys_link: count the link on the old inode, then walk the new path.
LinkOld(p, q) == LET i == ip[p] IN
    /\ At(p, "walk") /\ path[p] = <<>> /\ op[p] = "link"
    /\ \/ CanLock(i) /\ inode[i].type = "dir" /\ Fail(p)
       \/ /\ CanLock(i) /\ inode[i].type # "dir"
          /\ inode' = [inode EXCEPT ![i].nlink = @ + 1]
          /\ dp' = [dp EXCEPT ![p] = i]
          /\ Begin(p, "linknew", q)
          /\ UNCHANGED <<lock, cwd, fd, astray, panicked>>

LinkNew(p) == LET d == ip[p]
                  n == Head(path[p]) IN
    /\ At(p, "parent") /\ op[p] = "linknew" /\ CanLock(d)
    /\ \/ inode[d].entry[n] # 0 /\ Fail(p)
       \/ /\ inode[d].entry[n] = 0
          /\ inode' = iput(iput(dirlink(inode, d, n, dp[p]), d), dp[p])
          /\ astray' = (astray \/ inode[d].nlink = 0)
          /\ Return(p)
          /\ UNCHANGED <<lock, cwd, fd, panicked>>

\* bad: ip->nlink--; iunlockput(ip).
LinkUndo(p) == LET i == ip[p] IN
    /\ At(p, "undo") /\ lock[i] = None
    /\ inode' = iput([inode EXCEPT ![i].nlink = @ - 1], i)
    /\ Return(p)
    /\ UNCHANGED <<lock, cwd, fd, astray, panicked>>
-----------------------------------------------------------------------------
\* Mutated form: "." and ".." are not refused.
UnlinkableAny(n) == n \in Elems

\* "Cannot unlink . or ..".
Unlinkable(n) == n \in Names

\* sys_unlink, with the parent locked; it stays locked while ip is taken.
UnlinkLookup(p) == LET d == ip[p]
                       n == Head(path[p]) IN
    /\ At(p, "parent") /\ op[p] = "unlink" /\ CanLock(d)
    /\ \/ ~(Unlinkable(n) /\ inode[d].entry[n] # 0) /\ Fail(p)
       \/ /\ Unlinkable(n) /\ inode[d].entry[n] # 0
          /\ lock' = [lock EXCEPT ![d] = p]
          /\ dp' = [dp EXCEPT ![p] = d] /\ ip' = [ip EXCEPT ![p] = inode[d].entry[n]]
          /\ Goto(p, "remove")
          /\ UNCHANGED <<inode, op, path, cwd, fd, astray, panicked>>

\* Mutated form: the directory is not tested.
RemovableAlways(i) == TRUE
Removable(i) == inode[i].type = "dir" => isdirempty(i)

UnlinkEntry(p) == LET d == dp[p]
                      i == ip[p]
                      gone == dirlink(inode, d, Head(path[p]), 0)
                      dots == IF inode[i].type = "dir" THEN [gone EXCEPT ![d].nlink = @ - 1] ELSE gone
                  IN
    /\ At(p, "remove")
    /\ CanLock(i)
    /\ panicked' = (inode[i].nlink < 1)
    /\ inode' = IF Removable(i) THEN iput([iput(dots, d) EXCEPT ![i].nlink = @ - 1], i)
                ELSE iput(inode, d)
    /\ lock' = [lock EXCEPT ![d] = None]
    /\ Return(p)
    /\ UNCHANGED <<cwd, fd, astray>>

Steps(p) == ilockPanics(p) \/ namex(p) \/ NoParent(p) \/ Open(p) \/ sys_chdir(p)
    \/ CreateLookup(p) \/ CreateExists(p) \/ CreateLink(p)
    \/ (\E c \in Calls[p] : c.op = "link" /\ LinkOld(p, c.new)) \/ LinkNew(p) \/ LinkUndo(p)
    \/ UnlinkLookup(p) \/ UnlinkEntry(p)

\* panic() loops for ever.
Halted == panicked /\ UNCHANGED vars

Next == Halted \/ \E p \in Procs :
    \/ \E c \in Calls[p] : Call(p, c)
    \/ fileclose(p)
    \/ Steps(p)

Spec == Init /\ [][Next]_vars
-----------------------------------------------------------------------------
\* The places that name an inode.
NamesOf(i) == {e \in Inums \X Names : inode[e[1]].entry[e[2]] = i}
Subdirs(i) == {n \in Names : inode[i].entry[n] # 0 /\ inode[inode[i].entry[n]].type = "dir"}
Counted(i) == {p \in Procs : op[p] = "linknew" /\ (dp[p] = i \/ (pc[p] = "undo" /\ ip[p] = i))}

\* The directories named in the tree below the root.
Up[k \in 0..NINODES] == IF k = 0 THEN {ROOTINO}
                        ELSE {i \in Inums : \E e \in Up[k - 1] \X Names : inode[e[1]].entry[e[2]] = i}

\* "Number of links to inode in file system": names, a directory's children
\* counted by their "..", and the links that a call is about to name.  An
\* inode without links is held by a process.  It is so as long as no entry is
\* made in a directory that was removed.
LinksExact == astray \/ \A i \in Inums : inode[i].type # "free" =>
    /\ inode[i].nlink = Cardinality(NamesOf(i)) + Cardinality(Subdirs(i)) + Cardinality(Counted(i))
                        + (IF i = ROOTINO THEN 1 ELSE 0)
    /\ inode[i].nlink = 0 => Ref(i) > 0

\* The directories are a tree: every entry names an inode in use, a directory
\* that has a name has one, its ".." is where that name is, and it is reached
\* from the root.
TreeIntact == astray \/ \A d \in Inums, n \in Names :
    LET i == inode[d].entry[n] IN
    i # 0 => /\ inode[i].type # "free"
             /\ inode[i].type = "dir" =>
                  /\ NamesOf(i) = {<<d, n>>}
                  /\ inode[i].entry[".."] = d /\ inode[i].entry["."] = i
                  /\ \E k \in 0..NINODES : i \in Up[k]

\* ilock never finds a free inode, and unlink never one without links.
NoPanic == ~panicked

\* No set of processes waits for locks that its members hold: a directory is
\* locked before what is in it, ".." and "." are never locked after it, and
\* namex holds one lock at a time.
Waiting(p) == pc[p] # "user" /\ lock[ip[p]] # None
NoDeadlock == \A S \in SUBSET Procs \ {{}} :
    \E p \in S : Waiting(p) => lock[ip[p]] \notin S
=============================================================================
