-------------------------------- MODULE File --------------------------------
(***************************************************************************)
(* The open-file table and the descriptors of processes: kernel/file.c,    *)
(* the descriptor calls of kernel/sysfile.c, pipealloc and pipeclose, and  *)
(* what fork and exit do with descriptors.  A step is what a process does  *)
(* between two acquisitions of ftable.lock or of a pipe's lock.            *)
(***************************************************************************)
EXTENDS Naturals, Sequences, FiniteSets, FiniteSetsExt

CONSTANTS
    Procs, InitProc,
    NFILE, NOFILE,
    Pipes,         \* the pages kalloc has for pipes
    None

Files == 1..NFILE
Fds == 0..(NOFILE - 1)
NoFile == 0

VARIABLES
    ref, type, pipe, writable,   \* struct file
    ofile,                       \* ofile[p][fd]
    readopen, writeopen,         \* the pipes with that end open
    inodes,                      \* inode references held by files and calls
    alive,                       \* the processes that are not UNUSED
    pc,
    hand,                        \* the files a call has in its locals, to be closed if it fails
    ff,                          \* fileclose's copy of the struct file it closes
    at,                          \* the descriptor that fork or exit has reached
    child,                       \* fork's np
    panicked

file == <<ref, type, pipe, writable>>
pipes == <<readopen, writeopen>>
locals == <<pc, hand, ff, at, child>>
vars == <<file, ofile, pipes, inodes, alive, locals, panicked>>

NoCopy == [type |-> "none", pipe |-> None, writable |-> FALSE]

Init ==
    /\ ref = [f \in Files |-> 0] /\ type = [f \in Files |-> "none"]
    /\ pipe = [f \in Files |-> None] /\ writable = [f \in Files |-> FALSE]
    /\ ofile = [p \in Procs |-> [fd \in Fds |-> NoFile]]
    /\ readopen = {} /\ writeopen = {} /\ inodes = 0
    /\ alive = {InitProc} /\ panicked = FALSE
    /\ pc = [p \in Procs |-> "user"] /\ hand = [p \in Procs |-> <<>>]
    /\ ff = [p \in Procs |-> NoCopy] /\ at = [p \in Procs |-> 0]
    /\ child = [p \in Procs |-> p]
-----------------------------------------------------------------------------
\* Mutated form: the files stay open where there is no second one.
SecondFailsKeeping(p) == <<>>

Go(p, to) == pc' = [pc EXCEPT ![p] = to]
Running(p) == p \in alive /\ pc[p] = "user" /\ ~panicked
FreeFiles == {f \in Files : ref[f] = 0}
FreeFds(p) == {fd \in Fds : ofile[p][fd] = NoFile}

\* filealloc takes the first free struct; its other fields are as they were left.
filealloc(p) == LET f == Min(FreeFiles) IN
    /\ FreeFiles # {}
    /\ ref' = [ref EXCEPT ![f] = 1]
    /\ hand' = [hand EXCEPT ![p] = Append(@, f)]
    /\ UNCHANGED <<type, pipe, writable>>

\* filedup
Counted(f) == ref' = [ref EXCEPT ![f] = @ + 1]
filedup(f) ==
    /\ panicked' = (ref[f] < 1)
    /\ Counted(f)
    /\ UNCHANGED <<type, pipe, writable>>

\* fdalloc: the lowest free descriptor takes over f.
fdalloc(table, f) == [table EXCEPT ![Min({fd \in Fds : table[fd] = NoFile})] = f]

\* The call returns with its files in descriptors.
Return(p, table) ==
    /\ ofile' = [ofile EXCEPT ![p] = table]
    /\ hand' = [hand EXCEPT ![p] = <<>>]
    /\ Go(p, "user")
    /\ UNCHANGED <<ff, at, child>>
-----------------------------------------------------------------------------
\* open of an inode namei has found: filealloc, then fdalloc.
sys_open(p) ==
    /\ Running(p)
    /\ filealloc(p) /\ inodes' = inodes + 1
    /\ Go(p, "open")
    /\ UNCHANGED <<ofile, pipes, alive, ff, at, child, panicked>>

OpenFd(p) == LET f == hand[p][1] IN
    /\ pc[p] = "open" /\ ~panicked
    /\ \/ /\ FreeFds(p) # {}
          /\ \E w \in BOOLEAN : writable' = [writable EXCEPT ![f] = w]
          /\ type' = [type EXCEPT ![f] = "inode"]
          /\ Return(p, fdalloc(ofile[p], f))
       \/ /\ FreeFds(p) = {}
          /\ Go(p, "openfail")
          /\ UNCHANGED <<type, writable, ofile, hand, ff, at, child>>
    /\ UNCHANGED <<ref, pipe, pipes, inodes, alive, panicked>>

\* pipe: pipealloc's two files, then its page, two descriptors and two copyouts.
sys_pipe(p) ==
    /\ Running(p)
    /\ filealloc(p)
    /\ Go(p, "pipe1")
    /\ UNCHANGED <<ofile, pipes, inodes, alive, ff, at, child, panicked>>

\* What pipealloc closes when it has no second file.
SecondFails(p) == hand[p]

PipeSecond(p) ==
    /\ pc[p] = "pipe1" /\ ~panicked
    /\ \/ filealloc(p) /\ Go(p, "pipe2")
       \/ /\ FreeFiles = {} /\ Go(p, "close")
          /\ hand' = [hand EXCEPT ![p] = SecondFails(p)]
          /\ UNCHANGED file
    /\ UNCHANGED <<ofile, pipes, inodes, alive, ff, at, child, panicked>>

PipeNoPage(p) ==
    /\ pc[p] = "pipe2" /\ ~panicked
    /\ Go(p, "close")
    /\ UNCHANGED <<file, ofile, pipes, inodes, alive, hand, ff, at, child, panicked>>

PipePage(p) == LET f0 == hand[p][1]
                   f1 == hand[p][2] IN
    /\ pc[p] = "pipe2" /\ ~panicked
    /\ \E pi \in Pipes \ (readopen \union writeopen) :
         /\ pipe' = [pipe EXCEPT ![f0] = pi, ![f1] = pi]
         /\ type' = [type EXCEPT ![f0] = "pipe", ![f1] = "pipe"]
         /\ writable' = [writable EXCEPT ![f0] = FALSE, ![f1] = TRUE]
         /\ readopen' = readopen \union {pi} /\ writeopen' = writeopen \union {pi}
    /\ \/ /\ Cardinality(FreeFds(p)) > 1
          /\ Return(p, fdalloc(fdalloc(ofile[p], f0), f1))
       \* No two descriptors, or a copyout failed: those taken are given back.
       \/ Go(p, "close") /\ UNCHANGED <<ofile, hand, ff, at, child>>
    /\ UNCHANGED <<ref, inodes, alive, panicked>>

sys_dup(p, fd) == LET f == ofile[p][fd] IN
    /\ Running(p) /\ f # NoFile /\ FreeFds(p) # {}
    /\ filedup(f)
    /\ ofile' = [ofile EXCEPT ![p] = fdalloc(@, f)]
    /\ UNCHANGED <<pipes, inodes, alive, locals>>

sys_close(p, fd) == LET f == ofile[p][fd] IN
    /\ Running(p) /\ f # NoFile
    /\ ofile' = [ofile EXCEPT ![p][fd] = NoFile]
    /\ hand' = [hand EXCEPT ![p] = <<f>>]
    /\ Go(p, "close")
    /\ UNCHANGED <<file, pipes, inodes, alive, ff, at, child, panicked>>
-----------------------------------------------------------------------------
Closing(p) == pc[p] \in {"close", "openfail", "exitclose"} /\ ~panicked

\* fileclose under ftable.lock, for the next file in hand.
LastClosed(f) == ref[f] = 1
Cleared(f) == type' = [type EXCEPT ![f] = "none"]

fileclose(p) == LET f == Head(hand[p]) IN
    /\ Closing(p) /\ ff[p] = NoCopy /\ hand[p] # <<>>
    /\ panicked' = (ref[f] < 1)
    /\ hand' = [hand EXCEPT ![p] = Tail(@)]
    /\ IF LastClosed(f)
       THEN /\ ref' = [ref EXCEPT ![f] = 0]
            /\ Cleared(f)
            /\ ff' = [ff EXCEPT ![p] = IF type[f] = "none" THEN NoCopy
                        ELSE IF type[f] = "inode" THEN [NoCopy EXCEPT !.type = "inode"]
                        ELSE [type |-> "pipe", pipe |-> pipe[f], writable |-> writable[f]]]
       ELSE /\ ref' = [ref EXCEPT ![f] = IF @ < 1 THEN 0 ELSE @ - 1]
            /\ UNCHANGED <<type, ff>>
    /\ UNCHANGED <<pipe, writable, ofile, pipes, inodes, alive, pc, at, child>>

\* pipeclose on the copy e: the page is free when both ends are.
EndClosed(e) == IF e.writable THEN writeopen' = writeopen \ {e.pipe} /\ UNCHANGED readopen
                ELSE readopen' = readopen \ {e.pipe} /\ UNCHANGED writeopen

\* fileclose after the unlock.
CloseObject(p) == LET e == ff[p] IN
    /\ Closing(p) /\ e # NoCopy
    /\ ff' = [ff EXCEPT ![p] = NoCopy]
    /\ \/ e.type = "pipe" /\ EndClosed(e) /\ UNCHANGED inodes
       \/ e.type = "inode" /\ inodes' = inodes - 1 /\ UNCHANGED pipes
    /\ UNCHANGED <<file, ofile, alive, pc, hand, at, child, panicked>>

\* exit zeroes the descriptor after the close.
Zeroed(p) == ofile' = [ofile EXCEPT ![p][at[p]] = NoFile]

Closed(p) ==
    /\ Closing(p) /\ ff[p] = NoCopy /\ hand[p] = <<>>
    /\ \/ pc[p] = "close" /\ Go(p, "user") /\ UNCHANGED <<ofile, inodes, at>>
       \/ pc[p] = "openfail" /\ Go(p, "user") /\ inodes' = inodes - 1 /\ UNCHANGED <<ofile, at>>
       \/ /\ pc[p] = "exitclose" /\ Go(p, "exit")
          /\ Zeroed(p) /\ at' = [at EXCEPT ![p] = @ + 1] /\ UNCHANGED inodes
    /\ UNCHANGED <<file, pipes, alive, hand, ff, child, panicked>>
-----------------------------------------------------------------------------
\* fork: the child gets a duplicate of every descriptor, one lock at a time.
fork(p) ==
    /\ Running(p)
    /\ \E np \in Procs \ alive :
         /\ alive' = alive \union {np}
         /\ child' = [child EXCEPT ![p] = np]
         /\ pc' = [pc EXCEPT ![p] = "fork", ![np] = "used"]
    /\ UNCHANGED <<file, ofile, pipes, inodes, hand, ff, at, panicked>>

ForkDup(p) == LET f == ofile[p][at[p]] IN
    /\ pc[p] = "fork" /\ ~panicked /\ at[p] < NOFILE
    /\ at' = [at EXCEPT ![p] = @ + 1]
    /\ \/ f # NoFile /\ filedup(f) /\ ofile' = [ofile EXCEPT ![child[p]][at[p]] = f]
       \/ f = NoFile /\ UNCHANGED <<file, ofile, panicked>>
    /\ UNCHANGED <<pipes, inodes, alive, pc, hand, ff, child>>

ForkDone(p) ==
    /\ pc[p] = "fork" /\ ~panicked /\ at[p] = NOFILE
    /\ pc' = [pc EXCEPT ![p] = "user", ![child[p]] = "user"]
    /\ at' = [at EXCEPT ![p] = 0] /\ child' = [child EXCEPT ![p] = p]
    /\ UNCHANGED <<file, ofile, pipes, inodes, alive, hand, ff, panicked>>

exit(p) ==
    /\ Running(p) /\ p # InitProc
    /\ Go(p, "exit")
    /\ UNCHANGED <<file, ofile, pipes, inodes, alive, hand, ff, at, child, panicked>>

ExitClose(p) == LET f == ofile[p][at[p]] IN
    /\ pc[p] = "exit" /\ ~panicked /\ at[p] < NOFILE
    /\ \/ /\ f # NoFile /\ Go(p, "exitclose")
          /\ hand' = [hand EXCEPT ![p] = <<f>>] /\ UNCHANGED at
       \/ f = NoFile /\ at' = [at EXCEPT ![p] = @ + 1] /\ UNCHANGED <<pc, hand>>
    /\ UNCHANGED <<file, ofile, pipes, inodes, alive, ff, child, panicked>>

\* The zombie is reaped: freeproc leaves ofile as it is.
ExitDone(p) ==
    /\ pc[p] = "exit" /\ ~panicked /\ at[p] = NOFILE
    /\ alive' = alive \ {p}
    /\ Go(p, "user") /\ at' = [at EXCEPT ![p] = 0]
    /\ UNCHANGED <<file, ofile, pipes, inodes, hand, ff, child, panicked>>

Next == \E p \in Procs :
    \/ sys_open(p) \/ OpenFd(p)
    \/ sys_pipe(p) \/ PipeSecond(p) \/ PipeNoPage(p) \/ PipePage(p)
    \/ \E fd \in Fds : sys_dup(p, fd) \/ sys_close(p, fd)
    \/ fileclose(p) \/ CloseObject(p) \/ Closed(p)
    \/ fork(p) \/ ForkDup(p) \/ ForkDone(p)
    \/ exit(p) \/ ExitClose(p) \/ ExitDone(p)

Spec == Init /\ [][Next]_vars
-----------------------------------------------------------------------------
\* The references that process p has to file f: its descriptors, other than
\* the one exit is closing, and the files its call has yet to close or hand out.
RefsOf(p, f) ==
    Cardinality({fd \in Fds : ofile[p][fd] = f /\ ~(pc[p] = "exitclose" /\ fd = at[p])})
      + Cardinality({k \in DOMAIN hand[p] : hand[p][k] = f})

\* f->ref counts exactly the references there are, whatever calls fail and
\* wherever fork and exit are in their loops; neither filedup nor fileclose
\* panics, and a freed slot of the process table holds no descriptor.
RefExact ==
    /\ ~panicked
    /\ \A f \in Files : ref[f] = MapThenSumSet(LAMBDA p : RefsOf(p, f), Procs)
    /\ \A p \in Procs \ alive, fd \in Fds : ofile[p][fd] = NoFile

\* An end of a pipe is open exactly while one struct file, or one fileclose
\* past its unlock, stands for it: it is closed once, when its last reference
\* goes, and a pipe's page is not freed under an open end, nor leaked.
PipeEndsExact == \A pi \in Pipes, w \in BOOLEAN :
    Cardinality({f \in Files : type[f] = "pipe" /\ pipe[f] = pi /\ writable[f] = w})
      + Cardinality({p \in Procs : ff[p].type = "pipe" /\ ff[p].pipe = pi /\ ff[p].writable = w})
    = (IF pi \in (IF w THEN writeopen ELSE readopen) THEN 1 ELSE 0)

\* The inode references are those of struct files, of closes under way and of
\* opens under way: a failed open gives its reference back.
InodeRefsExact ==
    inodes = Cardinality({f \in Files : type[f] = "inode"})
             + Cardinality({p \in Procs : ff[p].type = "inode"})
             + Cardinality({p \in Procs : pc[p] \in {"open", "openfail"}})

\* The fileclose of a failed open, which runs inside the open's transaction,
\* never gets to a begin_op or to an object of the struct's former life.
FailedOpenClosesNothing == \A p \in Procs : pc[p] = "openfail" => ff[p] = NoCopy

\* The open-file table is sound: no struct file, end of a pipe or inode reference
\* is leaked or given up twice, and a failed open closes nothing.
TableExact == RefExact /\ PipeEndsExact /\ InodeRefsExact /\ FailedOpenClosesNothing
=============================================================================
