----------------------------- MODULE VirtioDisk -----------------------------
(***************************************************************************)
(* kernel/virtio_disk.c and the device it drives.  A step of the driver is *)
(* what it does between acquiring and releasing (or sleeping on)           *)
(* disk.vdisk_lock; the interrupt handler is split at every look at the    *)
(* used ring, which the device extends without the lock.  Each process     *)
(* passes one buffer of its own (bio.c: the caller has it locked).         *)
(***************************************************************************)
EXTENDS Integers, FiniteSets, FiniteSetsExt

CONSTANTS
    Procs, Sectors, Vals, NoReq, NoProc, NoDesc,
    NUM,          \* descriptors
    RING,         \* entries of each ring: NUM in the code
    IdxMod        \* the rings' indices are uint16: 2^16 in the code

Desc == 0..(NUM - 1)
Ring == 0..(RING - 1)

ASSUME VirtioAssumption ==
    /\ {NUM, RING, IdxMod} \subseteq Nat \ {0} /\ IdxMod % RING = 0
    /\ NUM < 3 * (RING + 1)      \* a ring has room for every chain of three
    /\ IsFiniteSet(Procs) /\ NoProc \notin Procs /\ NoDesc \notin Desc
    /\ NoReq \notin [sector : Sectors, write : BOOLEAN]

VARIABLES
    media, buf,   \* the disk, and b->data of each process's buffer
    free,         \* the descriptors with disk.free[i] set
    next,         \* desc[i].next where VRING_DESC_F_NEXT is set, else NoDesc
    addr,         \* what desc[i].addr points to: the command header disk.ops[i],
                  \* a process's buffer, or the status byte of a chain
    info, status, \* disk.info[].b and .status
    availRing, availIdx,           \* written by the driver
    usedRing, usedIdx,             \* written by the device
    seen,         \* disk.used_idx
    taken,        \* the device's own count of avail entries
    active,       \* the chains the device is working on
    raised,       \* VIRTIO_MMIO_INTERRUPT_STATUS
    handling,     \* virtio_disk_intr holds the lock
    owned,        \* b->disk
    pc, req, head,                 \* each caller's place, arguments and idx[0]
    panicked

descvars == <<free, next, addr>>
devvars == <<media, taken, active, usedRing, usedIdx>>
availvars == <<availRing, availIdx>>
vars == <<buf, descvars, devvars, info, status, availvars, seen, raised, handling,
          owned, pc, req, head, panicked>>

Requests == [sector : Sectors, write : BOOLEAN]

Init ==
    /\ media \in [Sectors -> Vals]
    /\ \E v \in Vals : buf = [p \in Procs |-> v]
    /\ free = Desc
    /\ next = [d \in Desc |-> NoDesc] /\ addr = [d \in Desc |-> NoDesc]
    /\ info = [d \in Desc |-> NoProc] /\ status = [d \in Desc |-> 0]
    /\ availRing = [i \in Ring |-> 0] /\ availIdx = 0
    /\ usedRing = [i \in Ring |-> 0] /\ usedIdx = 0
    /\ seen = 0 /\ taken = 0 /\ active = {}
    /\ raised = FALSE /\ handling = FALSE
    /\ owned = [p \in Procs |-> FALSE]
    /\ pc = [p \in Procs |-> "idle"]
    /\ req = [p \in Procs |-> NoReq]
    /\ head = [p \in Procs |-> NoDesc]
    /\ panicked = FALSE
-----------------------------------------------------------------------------
\* Mutated forms, one plausible slip in virtio_disk.c each.
ChainTwo(d) == {d, next[d]}
MustWaitOnce(p) == FALSE
IntrReturnEarly ==
    /\ handling /\ ~panicked
    /\ handling' = FALSE
    /\ UNCHANGED <<buf, descvars, devvars, info, status, availvars, seen, raised, owned, pc, req,
                   head, panicked>>

Incr(i) == (i + 1) % IdxMod

\* wakeup(&disk.free[0]): everyone waiting for descriptors tries again.
wakeup(pcs) == [q \in Procs |-> IF pcs[q] = "sleep" THEN "alloc" ELSE pcs[q]]

\* The lock is free and the kernel is running.
Unlocked == ~handling /\ ~panicked

\* A caller enters with a buffer whose data it has prepared.
Call(p, r, v) ==
    /\ pc[p] = "idle" /\ Unlocked
    /\ req' = [req EXCEPT ![p] = r]
    /\ buf' = [buf EXCEPT ![p] = v]
    /\ pc' = [pc EXCEPT ![p] = "alloc"]
    /\ UNCHANGED <<descvars, devvars, info, status, availvars, seen, raised, handling,
                   owned, head, panicked>>

\* alloc3_desc runs out: it gives back what it took, and every free_desc
\* wakes the other sleepers; then the caller sleeps itself.
AllocFails(p) ==
    /\ pc[p] = "alloc" /\ Unlocked
    /\ Cardinality(free) < 3
    /\ pc' = [(IF free = {} THEN pc ELSE wakeup(pc)) EXCEPT ![p] = "sleep"]
    /\ UNCHANGED <<buf, descvars, devvars, info, status, availvars, seen, raised, handling,
                   owned, req, head, panicked>>

\* The lowest free descriptor.
alloc_desc(descs) == Min(descs)

\* Three descriptors, formatted as a chain and announced to the device; the
\* caller sleeps on b.
Submit(p) ==
    LET d0 == alloc_desc(free)
        d1 == alloc_desc(free \ {d0})
        d2 == alloc_desc(free \ {d0, d1}) IN
    /\ pc[p] = "alloc" /\ Unlocked
    /\ Cardinality(free) >= 3
    /\ free' = free \ {d0, d1, d2}
    /\ next' = [next EXCEPT ![d0] = d1, ![d1] = d2, ![d2] = NoDesc]
    /\ addr' = [addr EXCEPT ![d0] = <<"op", req[p]>>, ![d1] = <<"buf", p>>,
                         ![d2] = <<"status", d0>>]
    /\ status' = [status EXCEPT ![d0] = 255]
    /\ owned' = [owned EXCEPT ![p] = TRUE]
    /\ info' = [info EXCEPT ![d0] = p]
    /\ availRing' = [availRing EXCEPT ![availIdx % RING] = d0]
    /\ availIdx' = Incr(availIdx)
    /\ head' = [head EXCEPT ![p] = d0]
    /\ pc' = [pc EXCEPT ![p] = "wait"]
    /\ UNCHANGED <<buf, devvars, seen, raised, handling, req, panicked>>

\* The descriptors free_chain walks.
Chain(d) == IF next[d] = NoDesc THEN {d}
            ELSE IF next[next[d]] = NoDesc THEN {d, next[d]}
            ELSE {d, next[d], next[next[d]]}

\* while(b->disk == 1)
MustWait(p) == owned[p]

\* A woken caller looks at b->disk again.
Finish(p) == LET c == Chain(head[p]) IN
    /\ pc[p] = "check" /\ Unlocked
    /\ \/ /\ MustWait(p)
          /\ pc' = [pc EXCEPT ![p] = "wait"]
          /\ UNCHANGED <<info, free, next, addr, req, head, panicked>>
       \/ /\ ~MustWait(p)
          /\ info' = [info EXCEPT ![head[p]] = NoProc]
          /\ free' = free \union c
          /\ panicked' = (c \intersect free # {})
          /\ next' = [d \in Desc |-> IF d \in c THEN NoDesc ELSE next[d]]
          /\ addr' = [d \in Desc |-> IF d \in c THEN NoDesc ELSE addr[d]]
          /\ req' = [req EXCEPT ![p] = NoReq]
          /\ head' = [head EXCEPT ![p] = NoDesc]
          /\ pc' = [wakeup(pc) EXCEPT ![p] = "idle"]
    /\ UNCHANGED <<buf, devvars, status, availvars, seen, raised, handling, owned>>

\* kill() makes a sleeper runnable.
Kill(p) ==
    /\ pc[p] \in {"sleep", "wait"}
    /\ pc' = [pc EXCEPT ![p] = IF @ = "sleep" THEN "alloc" ELSE "check"]
    /\ UNCHANGED <<buf, descvars, devvars, info, status, availvars, seen, raised, handling,
                   owned, req, head, panicked>>

\* virtio_disk_intr: acknowledge first, then read the ring.
IntrAck ==
    /\ raised /\ Unlocked
    /\ raised' = FALSE
    /\ handling' = TRUE
    /\ UNCHANGED <<buf, descvars, devvars, info, status, availvars, seen, owned, pc, req, head,
                   panicked>>

\* The used entry the handler looks at, and wakeup(b).  An entry whose chain
\* has no buffer would make it dereference null, which counts as a panic.
NextUsed == usedRing[seen % RING]
wakeupBuf(p) == [pc EXCEPT ![p] = IF @ = "wait" THEN "check" ELSE @]

IntrUsed == LET id == NextUsed
                p == info[id] IN
    /\ handling /\ ~panicked /\ seen # usedIdx
    /\ \/ /\ status[id] # 0 \/ p = NoProc
          /\ panicked' = TRUE
          /\ UNCHANGED <<owned, pc, seen>>
       \/ /\ status[id] = 0 /\ p # NoProc
          /\ owned' = [owned EXCEPT ![p] = FALSE]
          /\ pc' = wakeupBuf(p)
          /\ seen' = Incr(seen)
          /\ UNCHANGED panicked
    /\ UNCHANGED <<buf, descvars, devvars, info, status, availvars, raised, handling, req, head>>

IntrReturn ==
    /\ handling /\ ~panicked /\ seen = usedIdx
    /\ handling' = FALSE
    /\ UNCHANGED <<buf, descvars, devvars, info, status, availvars, seen, raised, owned, pc, req,
                   head, panicked>>

\* The device takes the chains in order and finishes them in any order.
DeviceTake ==
    /\ taken # availIdx
    /\ active' = active \union {availRing[taken % RING]}
    /\ taken' = Incr(taken)
    /\ UNCHANGED <<media, buf, descvars, usedRing, usedIdx, info, status, availvars, seen, raised,
                   handling, owned, pc, req, head, panicked>>

DeviceComplete(h) ==
    LET r == addr[h][2]
        p == addr[next[h]][2] IN
    /\ h \in active
    /\ \/ /\ r.write
          /\ media' = [media EXCEPT ![r.sector] = buf[p]]
          /\ UNCHANGED buf
       \/ /\ ~r.write
          /\ buf' = [buf EXCEPT ![p] = media[r.sector]]
          /\ UNCHANGED media
    /\ status' = [status EXCEPT ![addr[next[next[h]]][2]] = 0]
    /\ usedRing' = [usedRing EXCEPT ![usedIdx % RING] = h]
    /\ usedIdx' = Incr(usedIdx)
    /\ active' = active \ {h}
    /\ raised' = TRUE
    /\ UNCHANGED <<descvars, info, taken, availvars, seen, handling, owned, pc, req, head, panicked>>

Device == DeviceTake \/ \E h \in Desc : DeviceComplete(h)
virtio_disk_intr == IntrAck \/ IntrUsed \/ IntrReturn

Next ==
    \/ \E p \in Procs, r \in Requests, v \in Vals : Call(p, r, v)
    \/ \E p \in Procs : AllocFails(p) \/ Submit(p) \/ Finish(p) \/ Kill(p)
    \/ virtio_disk_intr
    \/ Device

Spec == Init /\ [][Next]_vars
-----------------------------------------------------------------------------
\* No descriptor is lost or shared: each one is free or in the chain of
\* exactly one request between its submission and its free_chain.  free_desc
\* never meets a free one, and every used entry the handler reads names a
\* request that succeeded and is still waiting: none of the panics is reached.
Submitted == {p \in Procs : pc[p] \in {"wait", "check"}}
Used(p) == {head[p], next[head[p]], next[next[head[p]]]}
DescsAccounted ==
    /\ ~panicked
    /\ \A p \in Submitted : Cardinality(Used(p)) = 3 /\ Used(p) \subseteq Desc \ free
    /\ \A p, q \in Submitted : p # q => Used(p) \intersect Used(q) = {}
    /\ Cardinality(free) + 3 * Cardinality(Submitted) = NUM

\* Nobody waits for what has already happened: a completion the handler has
\* not consumed has an interrupt coming (acknowledging before reading the ring
\* loses none), a caller asleep on its buffer is owned by the device, and one
\* asleep for descriptors lacks them.
NoLostSignal ==
    /\ seen # usedIdx => raised \/ handling
    /\ \A p \in Procs : pc[p] = "wait" => owned[p]
    /\ \A p \in Procs : pc[p] = "sleep" => Cardinality(free) < 3

\* The driver carries out every request exactly once, on its own buffer,
\* between call and return, whatever order the device completes them in.
Done == [p \in Procs |-> p \in Submitted /\ status[head[p]] = 0]
Service == INSTANCE DiskService WITH done <- Done
ServiceSpec == Service!Spec
=============================================================================
