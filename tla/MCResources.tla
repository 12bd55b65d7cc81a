---------------------------- MODULE MCResources -----------------------------
(***************************************************************************)
(* What a process owns, in two parts that share no state: its memory (Vm)  *)
(* and its open files (File).  A behaviour is one of the one or of the     *)
(* other.                                                                  *)
(***************************************************************************)
EXTENDS Vm

CONSTANTS InitProc, NFILE, NOFILE, Pipes, None

VARIABLES ref, type, pipe, writable, ofile, readopen, writeopen, inodes, alive,
          pc, hand, ff, at, child, filepanic, side

F == INSTANCE File WITH panicked <- filepanic

filevars == <<ref, type, pipe, writable, ofile, readopen, writeopen, inodes, alive,
              pc, hand, ff, at, child, filepanic>>

MCInit == Init /\ F!Init /\ side \in {"memory", "files"}

MCNext == \/ side = "memory" /\ Next /\ UNCHANGED <<filevars, side>>
          \/ side = "files" /\ F!Next /\ UNCHANGED side /\ UNCHANGED vars

MCSpec == MCInit /\ [][MCNext]_<<vars, filevars, side>>
-----------------------------------------------------------------------------

\* Segments in bytes, with pages of sixteen bytes: in order, out of order, and
\* with each defect exec looks for.
Seg(va, mem, file, read) == [va |-> va, mem |-> mem, file |-> file, read |-> read]
Programs == {<<Seg(0, 24, 20, TRUE)>>, <<Seg(16, 16, 16, TRUE), Seg(0, 8, 4, TRUE)>>,
             <<Seg(0, 16, 16, TRUE), Seg(24, 8, 4, TRUE)>>, <<Seg(0, 8, 12, TRUE)>>,
             <<Seg(0, 24, 24, FALSE)>>, <<Seg(ULongMod - 16, 24, 4, TRUE)>>}

\* None, two that fit, two that are too long, one too many.
MCArgvs == {<<>>, <<1, 3>>, <<1, 4>>, <<0, 0, 0>>}

\* A page and a half less than nothing wraps when a process is small.
StepDeltas == {-24, -8, 8}

\* Which physical page plays which role does not matter: states in which every
\* page has its owner are told apart by the shape of the address spaces only.
Shape == <<sz, used, panicked,
           [p \in Procs |-> DOMAIN pagetable[p].node],
           [p \in Procs |-> [va \in DOMAIN pagetable[p].leaf |-> pagetable[p].leaf[va].user]],
           IF PagesAccounted /\ SizeMapped THEN <<>> ELSE <<free, pagetable, trapframe, usyscall>> >>

\* The fields pipe and writable are read of files of type pipe only.
Table == <<ref, type, [f \in {g \in DOMAIN type : type[g] = "pipe"} |-> <<pipe[f], writable[f]>>],
           ofile, readopen, writeopen, inodes, alive, pc, hand, ff, at, child, filepanic>>

View == <<side, IF side = "memory" THEN Shape ELSE Table>>
-----------------------------------------------------------------------------
\* Every page has one owner, and a process maps what is below its size (Vm).
MemoryAccounted == side = "memory" => PagesAccounted /\ SizeMapped

\* copyin, copyout, copyinstr, fetchaddr and pgaccess reach the bytes and the
\* pages they are asked for, and no others (Vm).
AccessExact == side = "memory" => UserAccessExact

\* exec's arguments lie in the stack page, apart from each other (Vm).
ArgumentsExact == side = "memory" => StackExact

\* The open-file table counts exactly what there is, and a failed open closes
\* no object (File).
TableExact == side = "files" => F!TableExact
=============================================================================
