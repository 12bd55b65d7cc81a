------------------------------- MODULE Inode --------------------------------
(***************************************************************************)
(* The inode layer of kernel/fs.c under the system calls that use it:      *)
(* open, create, link, unlink and close of plain files in one directory.   *)
(* A step is what runs under one acquisition of itable.lock or between two *)
(* acquisitions of sleep locks.  The directory is the root: it is always   *)
(* referenced and linked, so only its lock and its entries matter.         *)
(***************************************************************************)
EXTENDS Integers, FiniteSets, FiniteSetsExt

CONSTANTS
    Procs,
    Names,     \* names in the directory
    Inums,     \* inodes of the disk
    NINODE,    \* entries of itable
    None

Slots == 1..NINODE

ASSUME InodeAssumption ==
    /\ NINODE \in Nat \ {0} /\ Inums \subseteq Nat \ {0}
    /\ IsFiniteSet(Procs) /\ IsFiniteSet(Names) /\ None \notin Procs \union Slots

VARIABLES
    type, nlink,                   \* the dinodes: type[i] says whether i is allocated
    entry,                         \* entry[name]: an inum, or 0
    inum, ref, valid, mlink,       \* itable: mlink is the cached nlink
    lock, dlock,                   \* holders of the inodes' and the directory's sleep lock
    pc, ip, name,                  \* of each process: the inode at hand, the name it works on
    fd,                            \* the inode of its open file, or None
    panicked

disk == <<type, nlink, entry>>
itable == <<inum, ref, valid, mlink>>
vars == <<disk, itable, lock, dlock, pc, ip, name, fd, panicked>>

Init ==
    /\ type = [i \in Inums |-> FALSE] /\ nlink = [i \in Inums |-> 0]
    /\ entry = [f \in Names |-> 0]
    /\ inum = [s \in Slots |-> 0] /\ ref = [s \in Slots |-> 0]
    /\ valid = [s \in Slots |-> FALSE] /\ mlink = [s \in Slots |-> 0]
    /\ lock = [s \in Slots |-> None] /\ dlock = None
    /\ pc = [p \in Procs |-> "user"] /\ ip = [p \in Procs |-> None]
    /\ name = [p \in Procs |-> None]
    /\ fd = [p \in Procs |-> None]
    /\ panicked = FALSE
-----------------------------------------------------------------------------
At(p, l) == ~panicked /\ pc[p] = l
Goto(p, l) == pc' = [pc EXCEPT ![p] = l]

\* Mutated forms, one plausible slip in fs.c or sysfile.c each.
LastLinkGone(s) == valid[s] /\ mlink[s] = 0
LinkUndoForgotten(p) ==
    /\ At(p, "unlinking") /\ lock[ip[p]] = None
    /\ pc' = [pc EXCEPT ![p] = "iput"]
    /\ UNCHANGED <<disk, itable, lock, dlock, ip, name, fd, panicked>>
LinkEntryRetries(p, f) ==
    /\ At(p, "dirlink") /\ dlock = None
    /\ \/ /\ entry[f] = 0
          /\ entry' = [entry EXCEPT ![f] = inum[ip[p]]]
          /\ Goto(p, "iput")
       \/ entry[f] # 0 /\ UNCHANGED <<pc, entry>>
    /\ UNCHANGED <<type, nlink, itable, lock, dlock, ip, name, fd, panicked>>

\* iget: the entry that holds i, or the first free one, whose fields mean
\* nothing until ilock makes it valid (mlink is 0 until then).
Found(i) == {s \in Slots : ref[s] > 0 /\ inum[s] = i}
Empty == {s \in Slots : ref[s] = 0}

iget(p, i, l) ==
    \/ /\ Found(i) # {}
       /\ LET s == Min(Found(i)) IN
            /\ ref' = [ref EXCEPT ![s] = @ + 1]
            /\ ip' = [ip EXCEPT ![p] = s]
       /\ Goto(p, l)
       /\ UNCHANGED <<inum, valid, mlink, panicked>>
    \/ /\ Found(i) = {} /\ Empty # {}
       /\ LET s == Min(Empty) IN
            /\ inum' = [inum EXCEPT ![s] = i]
            /\ ref' = [ref EXCEPT ![s] = 1]
            /\ valid' = [valid EXCEPT ![s] = FALSE]
            /\ mlink' = [mlink EXCEPT ![s] = 0]
            /\ ip' = [ip EXCEPT ![p] = s]
       /\ Goto(p, l)
       /\ UNCHANGED panicked
    \/ /\ Found(i) = {} /\ Empty = {}
       /\ panicked' = TRUE
       /\ UNCHANGED <<itable, ip, pc>>

\* ilock reads the dinode into an entry that is not valid.
ilock(p, s, l) ==
    /\ lock[s] = None
    /\ lock' = [lock EXCEPT ![s] = p]
    /\ valid' = [valid EXCEPT ![s] = TRUE]
    /\ mlink' = [mlink EXCEPT ![s] = IF valid[s] THEN @ ELSE nlink[inum[s]]]
    /\ panicked' = (ref[s] < 1 \/ (~valid[s] /\ ~type[inum[s]]))
    /\ Goto(p, l)

\* ip->nlink = k; iupdate(ip).
SetLinks(s, k) ==
    /\ mlink' = [mlink EXCEPT ![s] = k]
    /\ nlink' = [nlink EXCEPT ![inum[s]] = k]
-----------------------------------------------------------------------------
\* namei: the entry is looked up and referenced under the directory's lock.
Lookup(p, f, l) ==
    /\ At(p, "user") /\ dlock = None /\ entry[f] # 0
    /\ iget(p, entry[f], l)
    /\ UNCHANGED <<disk, lock, dlock, name, fd>>

\* A path that does not exist: the call returns -1.
LookupFails(p, f) == At(p, "user") /\ dlock = None /\ entry[f] = 0 /\ UNCHANGED vars

\* open without O_CREATE, and create when the name exists.
OpenLookup(p, f) == fd[p] = None /\ Lookup(p, f, "opening")

OpenLock(p) ==
    /\ At(p, "opening")
    /\ ilock(p, ip[p], "opened")
    /\ UNCHANGED <<disk, inum, ref, dlock, ip, name, fd>>

\* sys_open has the inode locked: the file keeps the reference.
OpenFile(p) ==
    /\ At(p, "opened")
    /\ lock' = [lock EXCEPT ![ip[p]] = None]
    /\ fd' = [fd EXCEPT ![p] = ip[p]] /\ ip' = [ip EXCEPT ![p] = None]
    /\ Goto(p, "user")
    /\ UNCHANGED <<disk, itable, dlock, name, panicked>>

\* filealloc or fdalloc fails: iunlockput.
OpenNoFile(p) ==
    /\ At(p, "opened")
    /\ lock' = [lock EXCEPT ![ip[p]] = None]
    /\ Goto(p, "iput")
    /\ UNCHANGED <<disk, itable, dlock, ip, name, fd, panicked>>

\* create of a new name, with the directory locked; ialloc takes the first
\* free dinode.  A full disk, where ialloc panics, is outside the model.
Create(p, f) == LET free == {i \in Inums : ~type[i]} IN
    /\ At(p, "user") /\ fd[p] = None /\ dlock = None /\ entry[f] = 0 /\ free # {}
    /\ type' = [type EXCEPT ![Min(free)] = TRUE]
    /\ nlink' = [nlink EXCEPT ![Min(free)] = 0]
    /\ iget(p, Min(free), "creating")
    /\ dlock' = p
    /\ name' = [name EXCEPT ![p] = f]
    /\ UNCHANGED <<entry, lock, fd>>

CreateLock(p) ==
    /\ At(p, "creating")
    /\ ilock(p, ip[p], "created")
    /\ UNCHANGED <<disk, inum, ref, dlock, ip, name, fd>>

CreateLink(p) ==
    /\ At(p, "created")
    /\ SetLinks(ip[p], 1)
    /\ entry' = [entry EXCEPT ![name[p]] = inum[ip[p]]]
    /\ dlock' = None
    /\ name' = [name EXCEPT ![p] = None]
    /\ Goto(p, "opened")
    /\ UNCHANGED <<type, inum, ref, valid, lock, ip, fd, panicked>>
-----------------------------------------------------------------------------
\* sys_link(old, new).
LinkLookup(p, f) == Lookup(p, f, "linking")

LinkLock(p) ==
    /\ At(p, "linking")
    /\ ilock(p, ip[p], "linked")
    /\ UNCHANGED <<disk, inum, ref, dlock, ip, name, fd>>

LinkCount(p) ==
    /\ At(p, "linked")
    /\ SetLinks(ip[p], mlink[ip[p]] + 1)
    /\ lock' = [lock EXCEPT ![ip[p]] = None]
    /\ Goto(p, "dirlink")
    /\ UNCHANGED <<type, entry, inum, ref, valid, dlock, ip, name, fd, panicked>>

\* dirlink under the directory's lock: it fails if the new name exists.
\* The iget and iput of the inode it finds are left out: it has a name, so that
\* iput drops just the reference that iget took.
LinkEntry(p, f) ==
    /\ At(p, "dirlink") /\ dlock = None
    /\ \/ /\ entry[f] = 0
          /\ entry' = [entry EXCEPT ![f] = inum[ip[p]]]
          /\ Goto(p, "iput")
       \/ entry[f] # 0 /\ Goto(p, "unlinking") /\ UNCHANGED entry
    /\ UNCHANGED <<type, nlink, itable, lock, dlock, ip, name, fd, panicked>>

\* bad: ilock; ip->nlink--; iupdate; iunlock.
LinkUndo(p) == LET s == ip[p] IN
    /\ At(p, "unlinking") /\ lock[s] = None
    /\ SetLinks(s, mlink[s] - 1)
    /\ Goto(p, "iput")
    /\ UNCHANGED <<type, entry, inum, ref, valid, lock, dlock, ip, name, fd, panicked>>

\* sys_unlink: the inode is locked while the directory is.
Unlink(p, f) ==
    /\ At(p, "user") /\ dlock = None /\ entry[f] # 0
    /\ iget(p, entry[f], "removing")
    /\ dlock' = p
    /\ name' = [name EXCEPT ![p] = f]
    /\ UNCHANGED <<disk, lock, fd>>

UnlinkLock(p) ==
    /\ At(p, "removing")
    /\ ilock(p, ip[p], "removed")
    /\ UNCHANGED <<disk, inum, ref, dlock, ip, name, fd>>

UnlinkEntry(p) ==
    /\ At(p, "removed") /\ dlock = p
    /\ panicked' = (mlink[ip[p]] < 1)
    /\ entry' = [entry EXCEPT ![name[p]] = 0]
    /\ dlock' = None
    /\ name' = [name EXCEPT ![p] = None]
    /\ UNCHANGED <<type, nlink, itable, lock, pc, ip, fd>>

UnlinkCount(p) ==
    /\ At(p, "removed") /\ dlock # p
    /\ SetLinks(ip[p], mlink[ip[p]] - 1)
    /\ lock' = [lock EXCEPT ![ip[p]] = None]
    /\ Goto(p, "iput")
    /\ UNCHANGED <<type, entry, inum, ref, valid, dlock, ip, name, fd, panicked>>

\* fileclose of the last reference to the file, or exit.
Close(p) ==
    /\ At(p, "user") /\ fd[p] # None
    /\ ip' = [ip EXCEPT ![p] = fd[p]] /\ fd' = [fd EXCEPT ![p] = None]
    /\ Goto(p, "iput")
    /\ UNCHANGED <<disk, itable, lock, dlock, name, panicked>>
-----------------------------------------------------------------------------
\* The test of iput, under itable.lock.
LastReference(s) == ref[s] = 1 /\ valid[s] /\ mlink[s] = 0

Drop(p) ==
    /\ ref' = [ref EXCEPT ![ip[p]] = @ - 1]
    /\ ip' = [ip EXCEPT ![p] = None]
    /\ Goto(p, "user")
    /\ UNCHANGED <<disk, inum, valid, mlink, lock, dlock, name, fd, panicked>>

IputDrop(p) == At(p, "iput") /\ ~LastReference(ip[p]) /\ Drop(p)

IputLock(p) ==
    /\ At(p, "iput") /\ LastReference(ip[p]) /\ lock[ip[p]] = None
    /\ lock' = [lock EXCEPT ![ip[p]] = p]
    /\ Goto(p, "free")
    /\ UNCHANGED <<disk, itable, dlock, ip, name, fd, panicked>>

\* itrunc; ip->type = 0; iupdate; ip->valid = 0.
Freed(s) ==
    /\ type' = [type EXCEPT ![inum[s]] = FALSE]
    /\ valid' = [valid EXCEPT ![s] = FALSE]

IputFree(p) ==
    /\ At(p, "free")
    /\ Freed(ip[p])
    /\ lock' = [lock EXCEPT ![ip[p]] = None]
    /\ Goto(p, "iputend")
    /\ UNCHANGED <<nlink, entry, inum, ref, mlink, dlock, ip, name, fd, panicked>>

IputEnd(p) == At(p, "iputend") /\ Drop(p)

sys_open(p) == \/ \E f \in Names : LookupFails(p, f) \/ OpenLookup(p, f) \/ Create(p, f)
               \/ OpenLock(p) \/ CreateLock(p) \/ CreateLink(p) \/ OpenFile(p) \/ OpenNoFile(p)
sys_link(p) == \/ \E f \in Names : LinkLookup(p, f) \/ LinkEntry(p, f)
               \/ LinkLock(p) \/ LinkCount(p) \/ LinkUndo(p)
sys_unlink(p) == (\E f \in Names : Unlink(p, f)) \/ UnlinkLock(p) \/ UnlinkEntry(p) \/ UnlinkCount(p)
iput(p) == IputDrop(p) \/ IputLock(p) \/ IputFree(p) \/ IputEnd(p)

Next == \E p \in Procs : sys_open(p) \/ sys_link(p) \/ sys_unlink(p) \/ Close(p) \/ iput(p)

Spec == Init /\ [][Next]_vars
-----------------------------------------------------------------------------
Users(s) == {p \in Procs : ip[p] = s}
Files(s) == {p \in Procs : fd[p] = s}

\* ref is the number of pointers to the entry, and no inode has two entries.
RefExact ==
    /\ \A s \in Slots : ref[s] = Cardinality(Users(s)) + Cardinality(Files(s))
    /\ \A s, t \in Slots : ref[s] > 0 /\ ref[t] > 0 /\ inum[s] = inum[t] => s = t

\* A valid entry in use agrees with the disk.
CacheCoherent == \A s \in Slots :
    ref[s] > 0 /\ valid[s] => type[inum[s]] /\ mlink[s] = nlink[inum[s]]

\* The links on disk are the names, but for the calls that are changing them.
NamesOf(i) == {f \in Names : entry[f] = i}
AheadBy(p, i) == /\ ip[p] # None /\ inum[ip[p]] = i
                 /\ pc[p] \in {"dirlink", "unlinking"} \/ (pc[p] = "removed" /\ dlock # p)
Ahead(i) == {p \in Procs : AheadBy(p, i)}
LinksExact == \A i \in Inums :
    type[i] => nlink[i] = Cardinality(NamesOf(i)) + Cardinality(Ahead(i))

HeldBy(p, i) ==
    \/ fd[p] # None /\ inum[fd[p]] = i
    \/ ip[p] # None /\ inum[ip[p]] = i /\ pc[p] # "iputend"

\* No inode is freed while a name, an open file or a system call leads to it.
FreedIsUnused == \A i \in Inums :
    NamesOf(i) # {} \/ (\E p \in Procs : HeldBy(p, i)) => type[i]

\* Of the panics of iget, ilock and sys_unlink only "iget: no inodes" is reached,
\* with every entry of itable in use.
PanicsOnlyWhenFull == panicked => Empty = {}

\* The counts are exact: references in memory, links on disk, and the copy of the
\* one in the other.  So no inode is freed under a user.
CountsExact == PanicsOnlyWhenFull /\ RefExact /\ CacheCoherent /\ LinksExact /\ FreedIsUnused

\* "so this acquiresleep() won't block": nobody has the inode iput frees.
IputWontBlock == \A p \in Procs :
    pc[p] = "iput" /\ LastReference(ip[p]) => lock[ip[p]] = None

\* Every call makes progress; no sleep lock starves a process.
Steps(p) == OpenLock(p) \/ CreateLock(p) \/ CreateLink(p) \/ OpenFile(p) \/ OpenNoFile(p)
    \/ LinkLock(p) \/ LinkCount(p) \/ LinkUndo(p) \/ (\E f \in Names : LinkEntry(p, f))
    \/ UnlinkLock(p) \/ UnlinkEntry(p) \/ UnlinkCount(p) \/ iput(p)
FairSpec == Spec /\ \A p \in Procs : SF_vars(Steps(p))

\* Every system call returns, where itable has an entry for every inode (iget panics
\* otherwise): the order directory, inode rules out deadlock.
CallReturns == \A p \in Procs : pc[p] # "user" ~> pc[p] = "user"
=============================================================================
