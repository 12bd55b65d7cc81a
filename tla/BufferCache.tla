---------------------------- MODULE BufferCache ----------------------------
(***************************************************************************)
(* kernel/bio.c and the sleep-lock of each buffer (kernel/sleeplock.c).    *)
(* A step is what happens under one acquisition of bcache.lock or of a     *)
(* sleep-lock's spinlock; a disk transfer is one step.  The callers are    *)
(* fs.c and log.c: they hold at most HoldMax buffers, nested as Nested     *)
(* says, and may release a changed buffer that was neither written nor     *)
(* pinned, as writei does when either_copyin fails.                        *)
(***************************************************************************)
EXTENDS Integers, Sequences, FiniteSets

CONSTANTS
    Procs,
    NBUF,         \* buffers
    BlockNos,     \* disk blocks
    Vals,         \* block contents
    Image,        \* what the disk has at boot
    ReadOnly,     \* the blocks nobody changes, such as the superblock
    Nested,       \* the pairs <<m, n>> such that n is taken while m is held
    NoProc, NoBlock,
    HoldMax,      \* buffers a process holds at a time
    PinMax        \* buffers the log pins at a time

Bufs == 1..NBUF

ASSUME BufferCacheAssumption ==
    /\ IsFiniteSet(Procs) /\ NoProc \notin Procs
    /\ NoBlock \notin BlockNos /\ Vals # {} /\ Image \in [BlockNos -> Vals]
    /\ \A n \in BlockNos : <<n, n>> \notin Nested
    /\ NBUF \in Nat \ {0} /\ HoldMax \in Nat \ {0} /\ PinMax \in Nat

VARIABLES
    disk,         \* the blocks on the disk
    lru,          \* bcache.head.next ... bcache.head.prev
    block,        \* b->blockno, NoBlock before the first use (dev 0)
    valid, refcnt, data,
    locked,       \* b->lock: the holder (locked and pid), or NoProc
    pinned,       \* the buffers with a bpin outstanding
    pc, cur,      \* each process's place in bio.c, and the buffer it works on
    held,         \* the buffers bread returned to it
    panicked

bufvars == <<block, valid, data>>
procvars == <<pc, cur, held>>
vars == <<disk, lru, bufvars, refcnt, locked, pinned, procvars, panicked>>

Init ==
    /\ disk = Image
    /\ lru = [i \in Bufs |-> NBUF + 1 - i]      \* binit inserts at the head
    /\ block = [b \in Bufs |-> NoBlock]
    /\ valid = [b \in Bufs |-> FALSE]
    /\ data = [b \in Bufs |-> CHOOSE v \in Vals : TRUE]     \* zeros
    /\ refcnt = [b \in Bufs |-> 0]
    /\ locked = [b \in Bufs |-> NoProc]
    /\ pinned = {}
    /\ pc = [p \in Procs |-> "run"]
    /\ cur = [p \in Procs |-> 0]
    /\ held = [p \in Procs |-> {}]
    /\ panicked = FALSE
-----------------------------------------------------------------------------
\* p is at place l, and no process has stopped the kernel by a panic.
At(p, l) == ~panicked /\ pc[p] = l

\* Mutated forms, one plausible slip in bio.c or sleeplock.c each.
CachedInUse(n) == \E b \in Bufs : block[b] = n /\ refcnt[b] > 0
bpinUncounted(p, b) ==
    /\ At(p, "run") /\ b \in held[p] \ pinned
    /\ Cardinality(pinned) < PinMax
    /\ pinned' = pinned \union {b}
    /\ UNCHANGED <<disk, lru, bufvars, refcnt, locked, procvars, panicked>>
wakeupLost(pcs, b) == pcs

Cached(n) == \E b \in Bufs : block[b] = n

\* The buffer the second loop of bget stops at: the unreferenced one nearest
\* to head.prev.
IsVictim(b) == \E i \in Bufs :
    /\ lru[i] = b /\ refcnt[b] = 0
    /\ \A j \in (i + 1)..NBUF : refcnt[lru[j]] # 0

\* A caller that has a buffer takes a second one only as write_log and
\* install_trans do, a block of the log and then its home, or as bmap and itrunc
\* do, the indirect block and then (in balloc, bfree) the bitmap.
MayGet(p, n) ==
    /\ Cardinality(held[p]) < HoldMax
    /\ \A b \in held[p] : <<block[b], n>> \in Nested

\* bget up to release(&bcache.lock).
bget(p, n) ==
    /\ At(p, "run") /\ MayGet(p, n)
    /\ \/ \E b \in Bufs :
             /\ \/ /\ block[b] = n
                   /\ refcnt' = [refcnt EXCEPT ![b] = @ + 1]
                   /\ UNCHANGED <<block, valid>>
                \/ /\ ~Cached(n) /\ IsVictim(b)
                   /\ block' = [block EXCEPT ![b] = n]
                   /\ valid' = [valid EXCEPT ![b] = FALSE]
                   /\ refcnt' = [refcnt EXCEPT ![b] = 1]
             /\ cur' = [cur EXCEPT ![p] = b]
             /\ pc' = [pc EXCEPT ![p] = "lock"]
             /\ UNCHANGED panicked
       \/ /\ ~Cached(n) /\ \A b \in Bufs : refcnt[b] # 0
          /\ panicked' = TRUE
          /\ UNCHANGED <<block, valid, refcnt, cur, pc>>
    /\ UNCHANGED <<disk, lru, data, locked, pinned, held>>

\* bio.c returns to p's caller.
Return(p) == pc' = [pc EXCEPT ![p] = "run"] /\ cur' = [cur EXCEPT ![p] = 0]

\* bget's acquiresleep, and bread's test of b->valid.
acquiresleep(p) == LET b == cur[p] IN
    /\ At(p, "lock")
    /\ \/ /\ locked[b] # NoProc
          /\ pc' = [pc EXCEPT ![p] = "sleep"]
          /\ UNCHANGED <<locked, cur, held>>
       \/ /\ locked[b] = NoProc
          /\ locked' = [locked EXCEPT ![b] = p]
          /\ held' = [held EXCEPT ![p] = @ \union {b}]
          /\ \/ valid[b] /\ Return(p)
             \/ ~valid[b] /\ pc' = [pc EXCEPT ![p] = "read"] /\ UNCHANGED cur
    /\ UNCHANGED <<disk, lru, bufvars, refcnt, pinned, panicked>>

\* bread: virtio_disk_rw(b, 0); b->valid = 1.
bread(p) == LET b == cur[p] IN
    /\ At(p, "read")
    /\ data' = [data EXCEPT ![b] = disk[block[b]]]
    /\ valid' = [valid EXCEPT ![b] = TRUE]
    /\ Return(p)
    /\ UNCHANGED <<disk, lru, block, refcnt, locked, pinned, held, panicked>>

\* A caller stores into b->data.
Modify(p, b, v) ==
    /\ At(p, "run") /\ b \in held[p] /\ block[b] \notin ReadOnly
    /\ data' = [data EXCEPT ![b] = v]
    /\ UNCHANGED <<disk, lru, block, valid, refcnt, locked, pinned, procvars, panicked>>

bwrite(p, b) ==
    /\ At(p, "run") /\ b \in held[p]
    /\ \/ locked[b] # p /\ panicked' = TRUE /\ UNCHANGED disk
       \/ locked[b] = p /\ disk' = [disk EXCEPT ![block[b]] = data[b]] /\ UNCHANGED panicked
    /\ UNCHANGED <<lru, bufvars, refcnt, locked, pinned, procvars>>

bpin(p, b) ==
    /\ At(p, "run") /\ b \in held[p] \ pinned
    /\ Cardinality(pinned) < PinMax
    /\ refcnt' = [refcnt EXCEPT ![b] = @ + 1]
    /\ pinned' = pinned \union {b}
    /\ UNCHANGED <<disk, lru, bufvars, locked, procvars, panicked>>

\* install_trans unpins a buffer it has just written.
bunpin(p, b) ==
    /\ At(p, "run") /\ b \in held[p] \intersect pinned
    /\ data[b] = disk[block[b]]
    /\ refcnt' = [refcnt EXCEPT ![b] = @ - 1]
    /\ pinned' = pinned \ {b}
    /\ UNCHANGED <<disk, lru, bufvars, locked, procvars, panicked>>

wakeup(pcs, b) == [q \in Procs |-> IF pcs[q] = "sleep" /\ cur[q] = b THEN "lock" ELSE pcs[q]]

\* The first half of brelse: holdingsleep and releasesleep.
releasesleep(p, b) ==
    /\ At(p, "run") /\ b \in held[p]
    /\ \/ locked[b] # p /\ panicked' = TRUE /\ UNCHANGED <<locked, procvars>>
       \/ /\ locked[b] = p
          /\ locked' = [locked EXCEPT ![b] = NoProc]
          /\ held' = [held EXCEPT ![p] = @ \ {b}]
          /\ cur' = [cur EXCEPT ![p] = b]
          /\ pc' = wakeup([pc EXCEPT ![p] = "drop"], b)
          /\ UNCHANGED panicked
    /\ UNCHANGED <<disk, lru, bufvars, refcnt, pinned>>

\* Unlink b and insert it at bcache.head.
MoveToHead(b) == lru' = <<b>> \o SelectSeq(lru, LAMBDA c : c # b)

\* The second half, under bcache.lock; the last reference moves the buffer
\* to the head of the list.
brelse(p) == LET b == cur[p] IN
    /\ At(p, "drop")
    /\ refcnt' = [refcnt EXCEPT ![b] = @ - 1]
    /\ \/ refcnt[b] = 1 /\ MoveToHead(b)
       \/ refcnt[b] # 1 /\ UNCHANGED lru
    /\ Return(p)
    /\ UNCHANGED <<disk, bufvars, locked, pinned, held, panicked>>

Step(p) ==
    \/ \E n \in BlockNos : bget(p, n)
    \/ acquiresleep(p) \/ bread(p) \/ brelse(p)
    \/ \E b \in Bufs : \/ bwrite(p, b) \/ bpin(p, b) \/ bunpin(p, b) \/ releasesleep(p, b)
                       \/ \E v \in Vals : Modify(p, b, v)

Next == \E p \in Procs : Step(p)

Spec == Init /\ [][Next]_vars
-----------------------------------------------------------------------------
\* The bio.c comment "only one process at a time can use a buffer" depends on
\* a block having one buffer, even when two processes miss on it together.
OneBufferPerBlock == \A b, c \in Bufs :
    block[b] = block[c] /\ block[b] # NoBlock => b = c

\* refcnt is exactly the number of processes between bget and the end of
\* brelse, plus the log's pin: nothing leaks and nothing is freed twice.
References(b) ==
    {p \in Procs : b \in held[p] \/ (cur[p] = b /\ pc[p] \in {"lock", "sleep", "drop"})}
RefcntExact == \A b \in Bufs :
    refcnt[b] = Cardinality(References(b)) + (IF b \in pinned THEN 1 ELSE 0)

\* bio.c panics only in bget, and only when every buffer is with a process or
\* pinned by the log: no buffer is lost, and brelse and bwrite have the lock.
PanicsOnlyWhenFull == panicked => \A b \in Bufs : References(b) # {} \/ b \in pinned

\* The buffers are all there, each counted right and none a second copy of a
\* block, whatever misses, recycling and pinning go on at once.
BuffersExact == OneBufferPerBlock /\ RefcntExact /\ PanicsOnlyWhenFull

\* One copy per block: bio.c implements BlockStore.  Every holder sees what the
\* last holder stored, and recycling a buffer loses nothing that was written
\* or pinned: only a change released without either may be undone, by the return
\* of the contents last written and while nobody has the block.
Content == [n \in BlockNos |->
    IF \E b \in Bufs : block[b] = n /\ valid[b]
    THEN data[CHOOSE b \in Bufs : block[b] = n /\ valid[b]] ELSE disk[n]]
Holder == [n \in BlockNos |->
    IF \E p \in Procs, b \in Bufs : b \in held[p] /\ block[b] = n
    THEN CHOOSE p \in Procs : \E b \in Bufs : b \in held[p] /\ block[b] = n ELSE NoProc]
Kept == {block[b] : b \in pinned}
Store == INSTANCE BlockStore WITH content <- Content, saved <- disk, kept <- Kept, holder <- Holder
StoreSpec == Store!Spec

\* Every process that has a buffer eventually releases it; every other step
\* is taken by a process the scheduler keeps running.
Fairness == \A p \in Procs :
    /\ WF_vars(acquiresleep(p) \/ bread(p) \/ brelse(p))
    /\ \A b \in Bufs : SF_vars(releasesleep(p, b))
FairSpec == Spec /\ Fairness

\* A process asleep in acquiresleep is woken, unless the kernel stops.
SleeperWakes == \A p \in Procs : pc[p] = "sleep" ~> pc[p] # "sleep" \/ panicked
=============================================================================
