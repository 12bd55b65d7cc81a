-------------------------------- MODULE Pipe --------------------------------
(***************************************************************************)
(* A pipe of kernel/pipe.c after pipealloc: processes read and write it    *)
(* through the two files that refer to it, may be killed at any time, and  *)
(* close them.  One byte is one step; pi->lock is held across steps.       *)
(***************************************************************************)
EXTENDS Integers, FiniteSets

CONSTANTS
    Procs,
    Holds,      \* the ways the ends may be open in processes when the model starts
    Bytes,
    PIPESIZE,
    CtrMod,     \* the counters are uint: 2^32 in the code
    MaxN,       \* bound on the n of a read or write
    MayDie,     \* the processes kill may name
    None

ASSUME PipeAssumption ==
    /\ Holds \subseteq [Procs -> SUBSET {"read", "write"}]
    /\ \A h \in Holds, e \in {"read", "write"} : \E p \in Procs : e \in h[p]
    /\ None \notin Procs \union {"nread", "nwrite"} /\ Bytes # {}
    /\ PIPESIZE \in Nat \ {0} /\ CtrMod \in Nat /\ CtrMod > PIPESIZE
    /\ CtrMod % PIPESIZE = 0 /\ MaxN \in Nat /\ MayDie \subseteq Procs

VARIABLES
    data, nread, nwrite, readopen, writeopen,   \* struct pipe
    freed,       \* the page of the pipe was given to kfree
    lock,        \* the holder of pi->lock, or None
    holds,       \* the ends a process has open
    pc, chan,    \* chan[p]: what p sleeps on, or None
    i, n,        \* the locals of pipewrite and piperead
    killed,
    abandoned    \* a killed writer left bytes, and no reader was woken since (history)

pipe == <<data, nread, nwrite, readopen, writeopen, freed>>
locals == <<i, n>>
vars == <<pipe, lock, holds, pc, chan, locals, killed, abandoned>>

Init ==
    /\ data \in [0..(PIPESIZE - 1) -> {CHOOSE b \in Bytes : TRUE}]
    /\ nread = 0 /\ nwrite = 0
    /\ readopen = TRUE /\ writeopen = TRUE /\ freed = FALSE
    /\ lock = None
    /\ holds \in Holds
    /\ pc = [p \in Procs |-> "user"]
    /\ chan = [p \in Procs |-> None]
    /\ i = [p \in Procs |-> 0] /\ n = [p \in Procs |-> 0]
    /\ killed = [p \in Procs |-> FALSE]
    /\ abandoned = FALSE
-----------------------------------------------------------------------------
\* Mutated forms, one plausible slip in pipe.c each.
FullEarly == nwrite = nread + PIPESIZE
wakeupLost(c) == UNCHANGED chan
LastHolderAny(p, e) == TRUE

Full == nwrite = (nread + PIPESIZE) % CtrMod
MustSleep == nread = nwrite /\ writeopen

wakeup(c) == chan' = [q \in Procs |-> IF chan[q] = c THEN None ELSE chan[q]]

Copied(p, b) ==
    /\ data' = [data EXCEPT ![nwrite % PIPESIZE] = b]
    /\ nwrite' = (nwrite + 1) % CtrMod
    /\ UNCHANGED <<nread, readopen, writeopen, freed>>

At(p, l) == pc[p] = l /\ chan[p] = None
Goto(p, l) == pc' = [pc EXCEPT ![p] = l]

\* A system call on end e; usertrap lets no killed process make one.
Call(p, e) ==
    /\ At(p, "user") /\ ~killed[p] /\ e \in holds[p]
    /\ \E m \in 0..MaxN : n' = [n EXCEPT ![p] = m]
    /\ i' = [i EXCEPT ![p] = 0]
    /\ Goto(p, IF e = "write" THEN "pipewrite" ELSE "piperead")
    /\ UNCHANGED <<pipe, lock, holds, chan, killed, abandoned>>

\* acquire(&pi->lock), on entry or at the end of sleep.
Acquire(p) ==
    /\ lock = None
    /\ lock' = p
    /\ \/ At(p, "pipewrite") /\ Goto(p, "writing")
       \/ At(p, "piperead") /\ Goto(p, "testing")
    /\ UNCHANGED <<pipe, holds, chan, locals, killed, abandoned>>

\* sleep: lock is released and p put to sleep in one step.
Sleep(p) ==
    /\ \/ At(p, "wsleep") /\ chan' = [chan EXCEPT ![p] = "nwrite"] /\ Goto(p, "pipewrite")
       \/ At(p, "rsleep") /\ chan' = [chan EXCEPT ![p] = "nread"] /\ Goto(p, "piperead")
    /\ lock' = None
    /\ UNCHANGED <<pipe, holds, locals, killed, abandoned>>

Return(p) ==
    /\ lock' = None
    /\ Goto(p, "user")
    /\ i' = [i EXCEPT ![p] = 0] /\ n' = [n EXCEPT ![p] = 0]
-----------------------------------------------------------------------------
\* The return before the wakeup at the end.
WriteFails(p) ==
    /\ At(p, "writing") /\ i[p] < n[p] /\ (~readopen \/ killed[p])
    /\ abandoned' = (abandoned \/ (killed[p] /\ i[p] > 0))
    /\ Return(p)
    /\ UNCHANGED <<pipe, holds, chan, killed>>

WriteFull(p) ==
    /\ At(p, "writing") /\ i[p] < n[p] /\ readopen /\ ~killed[p] /\ Full
    /\ wakeup("nread") /\ abandoned' = FALSE
    /\ Goto(p, "wsleep")
    /\ UNCHANGED <<pipe, lock, holds, locals, killed>>

WriteByte(p) ==
    /\ At(p, "writing") /\ i[p] < n[p] /\ readopen /\ ~killed[p] /\ ~Full
    /\ \E b \in Bytes : Copied(p, b)
    /\ i' = [i EXCEPT ![p] = @ + 1]
    /\ UNCHANGED <<lock, holds, pc, chan, n, killed, abandoned>>

\* All is written, or copyin fails and the loop breaks.
WriteDone(p) ==
    /\ At(p, "writing")
    /\ i[p] = n[p] \/ (readopen /\ ~killed[p] /\ ~Full)
    /\ wakeup("nread") /\ abandoned' = FALSE
    /\ Return(p)
    /\ UNCHANGED <<pipe, holds, killed>>

ReadTest(p) ==
    /\ At(p, "testing")
    /\ \/ ~MustSleep /\ Goto(p, "reading") /\ UNCHANGED <<lock, locals>>
       \/ MustSleep /\ killed[p] /\ Return(p)
       \/ MustSleep /\ ~killed[p] /\ Goto(p, "rsleep") /\ UNCHANGED <<lock, locals>>
    /\ UNCHANGED <<pipe, holds, chan, killed, abandoned>>

\* The byte is consumed before copyout, which may fail.
ReadByte(p) ==
    /\ At(p, "reading") /\ i[p] < n[p] /\ nread # nwrite
    /\ nread' = (nread + 1) % CtrMod
    /\ \/ i' = [i EXCEPT ![p] = @ + 1] /\ UNCHANGED pc
       \/ Goto(p, "read") /\ UNCHANGED i
    /\ UNCHANGED <<data, nwrite, readopen, writeopen, freed, lock, holds, chan, n, killed, abandoned>>

ReadDone(p) ==
    /\ At(p, "read") \/ (At(p, "reading") /\ (i[p] = n[p] \/ nread = nwrite))
    /\ wakeup("nwrite")
    /\ Return(p)
    /\ UNCHANGED <<pipe, holds, killed, abandoned>>
-----------------------------------------------------------------------------
LastHolder(p, e) == \A q \in Procs \ {p} : e \notin holds[q]

\* fileclose, by sys_close or by exit: the last reference closes the end.
fileclose(p, e) ==
    /\ At(p, "user") /\ e \in holds[p]
    /\ holds' = [holds EXCEPT ![p] = @ \ {e}]
    /\ IF LastHolder(p, e) THEN Goto(p, IF e = "write" THEN "closew" ELSE "closer")
                           ELSE UNCHANGED pc
    /\ UNCHANGED <<pipe, lock, chan, locals, killed, abandoned>>

BothClosed(r, w) == ~r /\ ~w

pipeclose(p) ==
    /\ lock = None
    /\ \/ /\ At(p, "closew") /\ writeopen' = FALSE
          /\ wakeup("nread") /\ abandoned' = FALSE /\ UNCHANGED readopen
       \/ /\ At(p, "closer") /\ readopen' = FALSE
          /\ wakeup("nwrite") /\ UNCHANGED <<writeopen, abandoned>>
    /\ freed' = BothClosed(readopen', writeopen')
    /\ Goto(p, "user")
    /\ UNCHANGED <<data, nread, nwrite, lock, holds, locals, killed>>

kill(p) ==
    /\ p \in MayDie /\ ~killed[p]
    /\ killed' = [killed EXCEPT ![p] = TRUE]
    /\ chan' = [chan EXCEPT ![p] = None]
    /\ UNCHANGED <<pipe, lock, holds, pc, locals, abandoned>>

pipewrite(p) == WriteFails(p) \/ WriteFull(p) \/ WriteByte(p) \/ WriteDone(p)
piperead(p) == ReadTest(p) \/ ReadByte(p) \/ ReadDone(p)
Kernel(p) == Acquire(p) \/ Sleep(p) \/ pipewrite(p) \/ piperead(p) \/ pipeclose(p)

Next == \E p \in Procs :
    \/ \E e \in {"read", "write"} : Call(p, e) \/ fileclose(p, e)
    \/ Kernel(p)
    \/ kill(p)

Spec == Init /\ [][Next]_vars
\* The kernel runs every process, no spinlock starves one, and a killed
\* process reaches exit, which closes its files.
Exits(p) == killed[p] /\ \E e \in {"read", "write"} : fileclose(p, e)
Fairness == \A p \in Procs :
    WF_vars(Kernel(p) \/ Exits(p)) /\ SF_vars(Acquire(p) \/ pipeclose(p))
FairSpec == Spec /\ Fairness
-----------------------------------------------------------------------------
Used == (nwrite - nread) % CtrMod

\* The pipe is the bounded queue of ByteStream, also when the counters wrap.
Stream == INSTANCE ByteStream WITH
    queue <- [k \in 1..Used |-> data[(nread + k - 1) % PIPESIZE]],
    readable <- readopen, writable <- writeopen
StreamSpec == Stream!Spec

\* pipeclose frees the page only when no read, write or close is under way,
\* and the last close does free it.
FreedUnused ==
    /\ freed => \A p \in Procs : pc[p] = "user" /\ holds[p] = {}
    /\ (\A p \in Procs : pc[p] = "user" /\ holds[p] = {}) => freed

\* A read of a pipe that holds a byte or has no writer left returns, and so
\* does a write when there is room or the read end is closed.  One case excepted:
\* a writer killed between two bytes returns without the wakeup, and when the
\* write end is also with a process that is not on its way to exit, and does not
\* use it, the reader stays asleep on what was written.
Stays(q) == "write" \in holds[q] /\ (killed[q] => chan[q] # None)
CallReturns == \A p \in Procs :
    /\ pc[p] = "piperead" /\ ~MustSleep ~>
          pc[p] = "user" \/ MustSleep \/ (abandoned /\ \E q \in Procs : Stays(q))
    /\ pc[p] = "pipewrite" /\ ~(readopen /\ Full) ~> pc[p] = "user" \/ (readopen /\ Full)
=============================================================================
