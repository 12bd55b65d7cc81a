-------------------------------- MODULE Log --------------------------------
(***************************************************************************)
(* kernel/log.c: the write-ahead log.  System calls bracket their block    *)
(* writes with begin_op/end_op; the last one out commits the whole group.  *)
(* The disk survives Crash, memory does not; the first process to run      *)
(* after a boot executes recover_from_log before any other process exists. *)
(* A block write (bwrite) is one atomic step.                              *)
(***************************************************************************)
EXTENDS Integers, Sequences, FiniteSets

CONSTANTS
    Procs,        \* processes that make file-system calls
    Blocks,       \* home locations outside the log
    Vals,         \* block contents
    NoBlock,      \* no buffer held
    MAXOPBLOCKS,  \* blocks begin_op reserves per operation
    LOGSIZE,      \* capacity of the in-memory header
    LogSize,      \* log.size: on-disk log blocks, the header included
    OpBlocks      \* distinct blocks an operation really writes at most

ASSUME LogAssumption ==
    /\ IsFiniteSet(Procs) /\ NoBlock \notin Blocks
    /\ MAXOPBLOCKS \in Nat \ {0} /\ LOGSIZE \in Nat /\ LogSize \in Nat
    /\ OpBlocks \in 0..MAXOPBLOCKS
    /\ MAXOPBLOCKS <= LOGSIZE

VARIABLES
    disk,         \* home blocks on disk
    logblk,       \* the blocks after the on-disk header, indexed tail+1
    head,         \* the on-disk header: block[0..n-1]
    cache,        \* what bread returns for each home block
    pins,         \* references bpin holds on each buffer
    lh,           \* log.lh: block[0..n-1]
    outstanding,  \* log.outstanding
    committing,   \* log.committing
    pc, tail,     \* each process's place, and its loop variable
    held,         \* the locked buffer a process has modified
    wrote,        \* the blocks its operation has logged
    panicked      \* some process called panic

diskvars == <<disk, logblk, head>>
logvars == <<lh, outstanding, committing>>
opvars == <<held, wrote>>
vars == <<diskvars, cache, pins, logvars, pc, tail, opvars, panicked>>

CommitPC == {"write_log", "write_head", "install", "clear", "end_commit"}
RecoverPC == {"read_head", "recover_install", "recover_clear"}
PC == {"idle", "begin", "sleep", "op"} \union CommitPC \union RecoverPC

LogBlocks == {lh[i] : i \in DOMAIN lh}

\* No process but the one in recover_from_log exists until it is done.
Booted == \A p \in Procs : pc[p] \notin RecoverPC

Init ==
    /\ disk \in [Blocks -> Vals]
    /\ cache = disk
    /\ \E v \in Vals : logblk = [i \in 1..LOGSIZE |-> v]  \* mkfs zeroes the log
    /\ head = <<>> /\ lh = <<>>
    /\ pins = [b \in Blocks |-> 0]
    /\ outstanding = 0 /\ committing = FALSE
    /\ pc = [p \in Procs |-> "idle"]
    /\ tail = [p \in Procs |-> 0]
    /\ held = [p \in Procs |-> NoBlock]
    /\ wrote = [p \in Procs |-> {}]
    /\ panicked = FALSE
-----------------------------------------------------------------------------
\* Mutated forms, one plausible slip in log.c each.
MustWaitNoCommitCheck == Len(lh) + (outstanding + 1) * MAXOPBLOCKS > LOGSIZE
wakeupLost(pcs) == pcs
AdvanceShort(p, after) ==
    \/ /\ tail[p] + 2 < Len(lh)
       /\ tail' = [tail EXCEPT ![p] = @ + 1] /\ UNCHANGED pc
    \/ /\ tail[p] + 2 >= Len(lh)
       /\ tail' = [tail EXCEPT ![p] = 0] /\ pc' = [pc EXCEPT ![p] = after]

\* begin_op's two reasons to sleep.
MustWait ==
    \/ committing
    \/ Len(lh) + (outstanding + 1) * MAXOPBLOCKS > LOGSIZE

\* wakeup(&log): every sleeper retries.
wakeup(pcs) == [q \in Procs |-> IF pcs[q] = "sleep" THEN "begin" ELSE pcs[q]]

\* sleep() releases log.lock and marks the process in one step.
begin_op(p) ==
    /\ pc[p] \in {"idle", "begin"} /\ Booted
    /\ \/ /\ MustWait
          /\ pc' = [pc EXCEPT ![p] = "sleep"]
          /\ UNCHANGED <<outstanding, wrote>>
       \/ /\ ~MustWait
          /\ outstanding' = outstanding + 1
          /\ pc' = [pc EXCEPT ![p] = "op"]
          /\ wrote' = [wrote EXCEPT ![p] = {}]
    /\ UNCHANGED <<diskvars, cache, pins, lh, committing, tail, held, panicked>>

\* The caller's bread and its change to b->data, under the buffer's lock.
\* An operation writes at most OpBlocks blocks.
Modify(p, b, v) ==
    /\ pc[p] = "op" /\ held[p] = NoBlock
    /\ \A q \in Procs : held[q] # b
    /\ Cardinality(wrote[p] \union {b}) <= OpBlocks
    /\ cache' = [cache EXCEPT ![b] = v]
    /\ held' = [held EXCEPT ![p] = b]
    /\ UNCHANGED <<diskvars, pins, logvars, pc, tail, wrote, panicked>>

bpin(b) == pins' = [pins EXCEPT ![b] = @ + 1]

\* log_write and the brelse that follows it in every caller.
log_write(p) ==
    /\ held[p] # NoBlock
    /\ \/ /\ Len(lh) >= LOGSIZE \/ Len(lh) >= LogSize - 1 \/ outstanding < 1
          /\ panicked' = TRUE
          /\ UNCHANGED <<lh, pins, opvars>>
       \/ /\ Len(lh) < LOGSIZE /\ Len(lh) < LogSize - 1 /\ outstanding >= 1
          /\ \/ held[p] \in LogBlocks /\ UNCHANGED <<lh, pins>>
             \/ held[p] \notin LogBlocks /\ lh' = Append(lh, held[p]) /\ bpin(held[p])
          /\ wrote' = [wrote EXCEPT ![p] = @ \union {held[p]}]
          /\ held' = [held EXCEPT ![p] = NoBlock]
          /\ UNCHANGED panicked
    /\ UNCHANGED <<diskvars, cache, outstanding, committing, pc, tail>>

\* The last operation out becomes the committer; commit() skips an empty log.
end_op(p) ==
    /\ pc[p] = "op" /\ held[p] = NoBlock
    /\ outstanding' = outstanding - 1
    /\ panicked' = committing
    /\ \/ /\ outstanding = 1
          /\ committing' = TRUE
          /\ pc' = [pc EXCEPT ![p] = IF lh = <<>> THEN "end_commit" ELSE "write_log"]
       \/ /\ outstanding # 1
          /\ pc' = wakeup([pc EXCEPT ![p] = "idle"])
          /\ UNCHANGED committing
    /\ tail' = [tail EXCEPT ![p] = 0]
    /\ UNCHANGED <<diskvars, cache, pins, lh, opvars>>

\* A loop over log.lh: the step at tail, then the next one or what follows.
Advance(p, after) ==
    \/ /\ tail[p] + 1 < Len(lh)
       /\ tail' = [tail EXCEPT ![p] = @ + 1] /\ UNCHANGED pc
    \/ /\ tail[p] + 1 >= Len(lh)
       /\ tail' = [tail EXCEPT ![p] = 0] /\ pc' = [pc EXCEPT ![p] = after]

write_log(p) ==
    /\ pc[p] = "write_log"
    /\ logblk' = [logblk EXCEPT ![tail[p] + 1] = cache[lh[tail[p] + 1]]]
    /\ Advance(p, "write_head")
    /\ UNCHANGED <<disk, head, cache, pins, logvars, opvars, panicked>>

\* The commit point.
write_head(p) ==
    /\ pc[p] = "write_head"
    /\ head' = lh
    /\ pc' = [pc EXCEPT ![p] = "install"]
    /\ UNCHANGED <<disk, logblk, cache, pins, logvars, tail, opvars, panicked>>

bunpin(b) == pins' = [pins EXCEPT ![b] = @ - 1]

\* One iteration of install_trans; only a commit has pinned the buffer.
install_trans(p, recovering) ==
    LET b == lh[tail[p] + 1] IN
    /\ disk' = [disk EXCEPT ![b] = logblk[tail[p] + 1]]
    /\ cache' = [cache EXCEPT ![b] = logblk[tail[p] + 1]]
    /\ IF recovering THEN UNCHANGED pins ELSE bunpin(b)
    /\ UNCHANGED <<logblk, head, logvars, opvars, panicked>>

install(p) ==
    /\ pc[p] = "install"
    /\ install_trans(p, FALSE)
    /\ Advance(p, "clear")

\* log.lh.n = 0; write_head()
clear(p) ==
    /\ pc[p] \in {"clear", "recover_clear"}
    /\ lh' = <<>> /\ head' = <<>>
    /\ pc' = [pc EXCEPT ![p] = IF @ = "clear" THEN "end_commit" ELSE "idle"]
    /\ UNCHANGED <<disk, logblk, cache, pins, outstanding, committing, tail, opvars, panicked>>

\* end_op after commit() returns.
end_commit(p) ==
    /\ pc[p] = "end_commit"
    /\ committing' = FALSE
    /\ pc' = wakeup([pc EXCEPT ![p] = "idle"])
    /\ UNCHANGED <<diskvars, cache, pins, lh, outstanding, tail, opvars, panicked>>

\* A buffer nobody references is recycled by bget; the block's next reader
\* gets it from the disk.
Recycle(b) ==
    /\ pins[b] = 0 /\ \A p \in Procs : held[p] # b
    /\ cache' = [cache EXCEPT ![b] = disk[b]]
    /\ UNCHANGED <<diskvars, pins, logvars, pc, tail, opvars, panicked>>

\* Power fails; p is the process that will boot the kernel.
Crash(p) ==
    /\ pc' = [q \in Procs |-> IF q = p THEN "read_head" ELSE "idle"]
    /\ cache' = disk
    /\ pins' = [b \in Blocks |-> 0]
    /\ lh' = <<>> /\ outstanding' = 0 /\ committing' = FALSE
    /\ tail' = [q \in Procs |-> 0]
    /\ held' = [q \in Procs |-> NoBlock] /\ wrote' = [q \in Procs |-> {}]
    /\ panicked' = FALSE
    /\ UNCHANGED diskvars

read_head(p) ==
    /\ pc[p] = "read_head"
    /\ lh' = head
    /\ pc' = [pc EXCEPT ![p] = IF head = <<>> THEN "recover_clear" ELSE "recover_install"]
    /\ UNCHANGED <<diskvars, cache, pins, outstanding, committing, tail, opvars, panicked>>

recover_install(p) ==
    /\ pc[p] = "recover_install"
    /\ install_trans(p, TRUE)
    /\ Advance(p, "recover_clear")

commit(p) == write_log(p) \/ write_head(p) \/ install(p) \/ clear(p) \/ end_commit(p)
recover_from_log(p) == read_head(p) \/ recover_install(p)

Next ==
    \/ /\ ~panicked
       /\ \/ \E p \in Procs : begin_op(p) \/ log_write(p) \/ end_op(p)
                              \/ commit(p) \/ recover_from_log(p)
          \/ \E p \in Procs, b \in Blocks, v \in Vals : Modify(p, b, v)
          \/ \E b \in Blocks : Recycle(b)
    \/ \E p \in Procs : Crash(p)

Spec == Init /\ [][Next]_vars
-----------------------------------------------------------------------------
TypeDisk ==
    /\ disk \in [Blocks -> Vals] /\ cache \in [Blocks -> Vals]
    /\ logblk \in [1..LOGSIZE -> Vals] /\ head \in Seq(Blocks)
TypeLog ==
    /\ pins \in [Blocks -> Int] /\ lh \in Seq(Blocks)
    /\ outstanding \in Nat
TypeFlags == committing \in BOOLEAN /\ panicked \in BOOLEAN
TypeProc ==
    /\ pc \in [Procs -> PC] /\ tail \in [Procs -> Nat]
    /\ held \in [Procs -> Blocks \union {NoBlock}] /\ wrote \in [Procs -> SUBSET Blocks]

\* Every variable has its type.
TypeOK == TypeDisk /\ TypeLog /\ TypeFlags /\ TypeProc

\* No panic of log.c fires: a transaction never outgrows the log that
\* begin_op reserved for it, and end_op never runs during a commit.
NoPanic == ~panicked

\* A disk d after the blocks that header h names are copied from log l.
Overlay(d, l, h) == [b \in Blocks |->
    IF \E i \in 1..Len(h) : h[i] = b
    THEN l[CHOOSE i \in 1..Len(h) : h[i] = b /\ \A j \in (i+1)..Len(h) : h[j] # b]
    ELSE d[b]]

\* What recovery would leave on the disk if the machine stopped now.
Durable == Overlay(disk, logblk, head)

\* The file system's view: before recovery is done it is what is durable.
Current == IF Booted THEN cache ELSE Durable

\* Crash atomicity: log.c implements AtomicDisk, group commits of whole
\* operations, with install and recovery (even a repeated one) invisible.
Atomic == INSTANCE AtomicDisk WITH
    stable <- Durable, current <- Current,
    active <- {p \in Procs : pc[p] = "op"}
AtomicSpec == Atomic!Spec

\* A cached block that differs from its home location cannot be recycled:
\* it is pinned by log_write or still locked by the process changing it.
DirtyIsPinned ==
    \A b \in Blocks : cache[b] # disk[b] => pins[b] > 0 \/ \E p \in Procs : held[p] = b

\* A begin_op that sleeps has someone left to wake it (no lost wakeup).
SleeperHasWaker ==
    (\E p \in Procs : pc[p] = "sleep") => committing \/ outstanding > 0

\* When the last operation's end_op has returned, everything is durable.
QuiescentDurable ==
    Booted /\ outstanding = 0 /\ ~committing => Durable = cache

\* The scheduler runs every runnable process, and no operation logs writes
\* forever without reaching its end_op (hence strong fairness of end_op).
Fairness == \A p \in Procs :
    /\ WF_vars(~panicked /\ (log_write(p) \/ commit(p) \/ recover_from_log(p)))
    /\ SF_vars(~panicked /\ end_op(p))
    /\ WF_vars(~panicked /\ pc[p] = "begin" /\ begin_op(p))
FairSpec == Spec /\ Fairness

\* Every process that sleeps in begin_op is woken.
SleeperWakes == \A p \in Procs : pc[p] = "sleep" ~> pc[p] # "sleep"
=============================================================================
