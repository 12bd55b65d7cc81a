----------------------------- MODULE LogProofs -----------------------------
(***************************************************************************)
(* The inductive invariant of Log, for every number of processes, blocks   *)
(* and values and every log geometry: first its control part (types, who   *)
(* may be where, the log's reservations), then its data part, the safety   *)
(* properties that follow, and crash atomicity: Log implements AtomicDisk. *)
(***************************************************************************)
EXTENDS Log, FiniteSetTheorems, TLAPS

Ops == {p \in Procs : pc[p] = "op"}

\* log.outstanding counts the processes inside an operation.
OpsCounted == outstanding = Cardinality(Ops)

\* Who may be where: the committer is alone, and so is the process in
\* recovery; a buffer is being changed by one operation at most; the log is
\* empty between groups.
Exclusive ==
    /\ \A p \in Procs : pc[p] \in CommitPC =>
          committing /\ outstanding = 0 /\ \A q \in Procs : pc[q] \in CommitPC => q = p
    /\ committing => \E p \in Procs : pc[p] \in CommitPC
    /\ \A p \in Procs : pc[p] \in RecoverPC =>
          ~committing /\ outstanding = 0 /\ \A q \in Procs : q # p => pc[q] = "idle"
    /\ \A p \in Procs : held[p] # NoBlock => pc[p] = "op"
    /\ \A p, q \in Procs : held[p] = held[q] /\ held[p] # NoBlock => p = q
    /\ Booted /\ ~committing /\ outstanding = 0 => lh = <<>>

Control == OpsCounted /\ Exclusive

\* The slots begin_op has reserved for the running operations and that they
\* have not used yet.
Unused == {s \in Ops \X (1..MAXOPBLOCKS) : s[2] > Cardinality(wrote[s[1]])}

\* The log and the unused reservations fit together.
Reserved ==
    /\ Len(lh) + Cardinality(Unused) <= LOGSIZE
    /\ Len(head) <= LOGSIZE
    /\ \A p \in Procs : IsFiniteSet(wrote[p]) /\ Cardinality(wrote[p]) <= OpBlocks
    /\ \A p \in Procs : held[p] # NoBlock => Cardinality(wrote[p] \union {held[p]}) <= OpBlocks
    /\ \A p \in Ops : wrote[p] \subseteq LogBlocks

Injective(s) == \A i, j \in 1..Len(s) : s[i] = s[j] => i = j

InstallPC == {"install", "clear"}

\* No block is logged twice.
Unique == Injective(lh) /\ Injective(head)

\* The header names a transaction only between the two header writes.
NotCommitted == Booted /\ (\A p \in Procs : pc[p] \notin InstallPC) => head = <<>>

\* The log and the in-memory header at every place of a commit or recovery.
LogPlaces ==
    /\ \A p \in Procs : pc[p] \in {"write_log", "install", "recover_install"} => tail[p] < Len(lh)
    /\ \A p \in Procs : pc[p] = "write_head" => 0 < Len(lh)
    /\ \A p \in Procs : pc[p] \in {"write_head", "read_head"} => tail[p] = 0
    /\ \A p \in Procs : pc[p] \in {"end_commit", "read_head"} => lh = <<>>
    /\ \A p \in Procs : pc[p] \in {"install", "clear", "recover_install", "recover_clear"} =>
          lh = head

\* How far the copies of the blocks have come at every place.
DataPlaces ==
    /\ \A p \in Procs : pc[p] = "write_log" =>
          \A i \in 1..tail[p] : logblk[i] = cache[lh[i]]
    /\ \A p \in Procs : pc[p] \in {"write_head", "install", "clear"} =>
          \A i \in 1..Len(lh) : logblk[i] = cache[lh[i]]
    /\ \A p \in Procs : pc[p] \in {"install", "recover_install"} =>
          \A i \in 1..tail[p] : disk[lh[i]] = logblk[i]
    /\ \A p \in Procs : pc[p] \in {"clear", "recover_clear"} =>
          \A i \in 1..Len(lh) : disk[lh[i]] = logblk[i]
    /\ \A p \in Procs : pc[p] \in RecoverPC => cache = disk

Data == Unique /\ NotCommitted /\ LogPlaces /\ DataPlaces

\* log_write's pins are on exactly the logged blocks not yet installed.
Pinned ==
    /\ \A b \in Blocks : b \notin LogBlocks => pins[b] = 0
    /\ (\A p \in Procs : pc[p] \notin InstallPC \union RecoverPC) =>
          \A b \in LogBlocks : pins[b] = 1
    /\ \A p \in Procs : pc[p] = "install" =>
          \A i \in 1..Len(lh) : pins[lh[i]] = IF i <= tail[p] THEN 0 ELSE 1
    /\ \A p \in Procs : pc[p] \in {"clear"} \union RecoverPC => \A b \in Blocks : pins[b] = 0

\* Only logged blocks, and a block being changed, differ from the disk.
Dirty ==
    \A b \in Blocks : cache[b] # disk[b] =>
        b \in LogBlocks \/ \E p \in Procs : held[p] = b

IInv == TypeOK /\ Control /\ Reserved /\ Data /\ Pinned /\ Dirty
-----------------------------------------------------------------------------
LEMMA Appended ==
  ASSUME NEW S, NEW seq \in Seq(S), NEW elt \in S
  PROVE  /\ Append(seq, elt) \in Seq(S) /\ Len(seq) \in Nat
         /\ Len(Append(seq, elt)) = Len(seq) + 1
         /\ \A i \in 1..Len(seq) : Append(seq, elt)[i] = seq[i]
         /\ Append(seq, elt)[Len(seq) + 1] = elt
  BY SMT

LEMMA InitInv == Init => IInv
  <1> SUFFICES ASSUME Init PROVE IInv
    OBVIOUS
  <1> USE LogAssumption DEF Init
  <1>1. TypeOK
    <2>1. TypeDisk
      BY DEF TypeDisk
    <2>2. TypeLog
      BY DEF TypeLog
    <2>3. TypeProc
      BY DEF TypeProc, PC
    <2>4. TypeFlags
      BY ZenonT(30) DEF TypeFlags
    <2> QED
      BY <2>1, <2>2, <2>3, <2>4 DEF TypeOK
  <1>2. Ops = {} /\ Unused = {} /\ LogBlocks = {}
    BY DEF Ops, Unused, LogBlocks
  <1>3. Cardinality({}) = 0 /\ IsFiniteSet({})
    BY FS_EmptySet
  <1>4. Control
    BY <1>2, <1>3 DEF Control, OpsCounted, Exclusive, CommitPC, RecoverPC
  <1>5. Reserved
    BY <1>2, <1>3 DEF Reserved
  <1>6. Data
    BY DEF Data, Unique, NotCommitted, LogPlaces, DataPlaces, Injective, InstallPC, RecoverPC
  <1>7. Pinned /\ Dirty
    BY <1>2 DEF Pinned, Dirty
  <1> QED
    BY <1>1, <1>4, <1>5, <1>6, <1>7 DEF IInv

LEMMA UnusedFinite ==
  /\ IsFiniteSet(Ops) /\ Cardinality(Ops) \in Nat
  /\ IsFiniteSet(Unused) /\ Cardinality(Unused) \in Nat
  /\ Cardinality(Unused) <= Cardinality(Ops) * MAXOPBLOCKS
  <1>1. IsFiniteSet(Ops) /\ Cardinality(Ops) \in Nat
    BY LogAssumption, FS_Subset, FS_CardinalityType DEF Ops
  <1>2. IsFiniteSet(1..MAXOPBLOCKS) /\ Cardinality(1..MAXOPBLOCKS) = MAXOPBLOCKS
    BY LogAssumption, FS_Interval
  <1>3. /\ IsFiniteSet(Ops \X (1..MAXOPBLOCKS))
        /\ Cardinality(Ops \X (1..MAXOPBLOCKS)) = Cardinality(Ops) * MAXOPBLOCKS
    BY <1>1, <1>2, FS_Product, ZenonT(30)
  <1>4. Unused \in SUBSET (Ops \X (1..MAXOPBLOCKS))
    BY DEF Unused
  <1> QED
    BY <1>1, <1>3, <1>4, FS_Subset, FS_CardinalityType

LEMMA OpCounted ==
  ASSUME TypeOK, Control, NEW p \in Procs, pc[p] = "op"
  PROVE  outstanding \in Nat \ {0}
  BY UnusedFinite, FS_EmptySet DEF Control, OpsCounted, Ops

\* The loop index of a commit or recovery names a logged block.
LEMMA LoopIndex ==
  ASSUME TypeOK, Data, Reserved, NEW p \in Procs,
         pc[p] \in {"write_log", "install", "recover_install"}
  PROVE  /\ tail[p] + 1 \in 1..Len(lh)
         /\ lh[tail[p] + 1] \in Blocks
         /\ Len(lh) <= LOGSIZE
         /\ logblk[tail[p] + 1] \in Vals
         /\ cache[lh[tail[p] + 1]] \in Vals
  <1>1. tail[p] \in Nat /\ Len(lh) \in Nat /\ tail[p] < Len(lh)
    BY DEF TypeOK, TypeDisk, TypeLog, TypeProc, Data, LogPlaces
  <1>2. tail[p] + 1 \in 1..Len(lh) /\ lh[tail[p] + 1] \in Blocks
    BY <1>1 DEF TypeOK, TypeDisk, TypeLog, TypeProc
  <1>4. Len(lh) <= LOGSIZE
    BY <1>1, UnusedFinite, LogAssumption DEF Reserved
  <1>5. logblk[tail[p] + 1] \in Vals
    BY <1>1, <1>4, LogAssumption DEF TypeOK, TypeDisk, TypeLog, TypeProc
  <1>6. cache[lh[tail[p] + 1]] \in Vals
    BY <1>2 DEF TypeOK, TypeDisk, TypeLog, TypeProc
  <1> QED
    BY <1>2, <1>4, <1>5, <1>6

LEMMA TypeStep ==
  ASSUME IInv, Next
  PROVE  TypeOK'
  <1> USE DEF IInv, TypeOK
  <1>1. ASSUME NEW p \in Procs, begin_op(p) PROVE TypeOK'
    <2>1. TypeDisk'
      BY <1>1 DEF begin_op, diskvars, TypeDisk, TypeLog
    <2>2. TypeLog'
      BY <1>1 DEF begin_op, diskvars, TypeDisk, TypeLog, TypeProc
    <2>3. TypeProc'
      BY <1>1 DEF begin_op, diskvars, PC, TypeProc
    <2>4. TypeFlags'
      BY <1>1 DEF begin_op, diskvars, PC, TypeFlags
    <2> QED
      BY <2>1, <2>2, <2>3, <2>4
  <1>2. ASSUME NEW p \in Procs, log_write(p) PROVE TypeOK'
    <2>1. TypeDisk'
      BY <1>2 DEF log_write, bpin, diskvars, opvars, TypeDisk, TypeLog
    <2>0. held[p] \in Blocks
      BY <1>2 DEF log_write, TypeProc
    <2>2. TypeLog'
      <3>1. (pins \in [Blocks -> Int])'
        BY <1>2, <2>0 DEF log_write, bpin, TypeLog
      <3>2. lh' = lh \/ lh' = Append(lh, held[p])
        BY <1>2 DEF log_write
      <3>3. (lh \in Seq(Blocks))'
        BY <2>0, <3>2, Appended, SMTT(60) DEF TypeLog
      <3> QED
        BY <1>2, <3>1, <3>3 DEF log_write, TypeLog
    <2>3. TypeProc'
      BY <1>2 DEF log_write, bpin, diskvars, opvars, TypeProc
    <2>4. TypeFlags'
      BY <1>2, ZenonT(30) DEF log_write, bpin, diskvars, opvars, TypeFlags
    <2> QED
      BY <2>1, <2>2, <2>3, <2>4
  <1>3. ASSUME NEW p \in Procs, end_op(p) PROVE TypeOK'
    <2>1. TypeDisk'
      BY <1>3 DEF end_op, wakeup, diskvars, opvars, TypeDisk, TypeLog
    <2>2. TypeLog'
      BY <1>3, OpCounted DEF end_op, TypeLog
    <2>3. TypeProc'
      BY <1>3 DEF end_op, wakeup, diskvars, opvars, PC, CommitPC, TypeProc
    <2>4. TypeFlags'
      BY <1>3, ZenonT(30) DEF end_op, wakeup, diskvars, opvars, PC, CommitPC, TypeFlags
    <2> QED
      BY <2>1, <2>2, <2>3, <2>4
  <1>4. ASSUME NEW p \in Procs, write_log(p) PROVE TypeOK'
    <2>1. TypeDisk'
      BY <1>4, LoopIndex, ZenonT(30) DEF write_log, Advance, logvars, opvars, TypeDisk
    <2>2. TypeLog'
      BY <1>4 DEF write_log, Advance, logvars, opvars, TypeDisk, TypeLog, TypeProc
    <2>3. TypeProc'
      BY <1>4, SMTT(60) DEF write_log, Advance, logvars, opvars, PC, CommitPC, TypeProc
    <2>4. TypeFlags'
      BY <1>4 DEF write_log, Advance, logvars, opvars, PC, CommitPC, TypeFlags
    <2> QED
      BY <2>1, <2>2, <2>3, <2>4
  <1>5. ASSUME NEW p \in Procs, write_head(p) PROVE TypeOK'
    <2>1. TypeDisk'
      BY <1>5 DEF write_head, logvars, opvars, TypeDisk, TypeLog
    <2>2. TypeLog'
      BY <1>5 DEF write_head, logvars, opvars, TypeDisk, TypeLog, TypeProc
    <2>3. TypeProc'
      BY <1>5 DEF write_head, logvars, opvars, PC, CommitPC, TypeProc
    <2>4. TypeFlags'
      BY <1>5 DEF write_head, logvars, opvars, PC, CommitPC, TypeFlags
    <2> QED
      BY <2>1, <2>2, <2>3, <2>4
  <1>6. ASSUME NEW p \in Procs, install(p) PROVE TypeOK'
    <2>1. TypeDisk'
      BY <1>6, LoopIndex DEF install, install_trans, bunpin, Advance, logvars, opvars, TypeDisk
    <2>2. TypeLog'
      BY <1>6 DEF install, install_trans, bunpin, Advance, logvars, opvars, TypeDisk, TypeLog, TypeProc
    <2>3. TypeProc'
      <3>1. Advance(p, "clear") /\ UNCHANGED <<held, wrote>>
        BY <1>6 DEF install, install_trans, opvars
      <3> QED
        BY <3>1, SMTT(30) DEF Advance, PC, CommitPC, TypeProc
    <2>4. TypeFlags'
      BY <1>6 DEF install, install_trans, bunpin, Advance, logvars, opvars, PC, CommitPC, TypeFlags
    <2> QED
      BY <2>1, <2>2, <2>3, <2>4
  <1>7. ASSUME NEW p \in Procs, clear(p) PROVE TypeOK'
    <2>1. TypeDisk'
      BY <1>7 DEF clear, opvars, TypeDisk, TypeLog
    <2>2. TypeLog'
      BY <1>7 DEF clear, opvars, TypeDisk, TypeLog, TypeProc
    <2>3. TypeProc'
      BY <1>7 DEF clear, opvars, PC, CommitPC, TypeProc
    <2>4. TypeFlags'
      BY <1>7 DEF clear, opvars, PC, CommitPC, TypeFlags
    <2> QED
      BY <2>1, <2>2, <2>3, <2>4
  <1>8. ASSUME NEW p \in Procs, end_commit(p) PROVE TypeOK'
    <2>1. TypeDisk'
      BY <1>8 DEF end_commit, wakeup, diskvars, opvars, TypeDisk, TypeLog
    <2>2. TypeLog'
      BY <1>8 DEF end_commit, wakeup, diskvars, opvars, TypeDisk, TypeLog, TypeProc
    <2>3. TypeProc'
      BY <1>8 DEF end_commit, wakeup, diskvars, opvars, PC, TypeProc
    <2>4. TypeFlags'
      BY <1>8, ZenonT(30) DEF end_commit, wakeup, diskvars, opvars, PC, TypeFlags
    <2> QED
      BY <2>1, <2>2, <2>3, <2>4
  <1>9. ASSUME NEW p \in Procs, read_head(p) PROVE TypeOK'
    <2>1. TypeDisk'
      BY <1>9 DEF read_head, diskvars, opvars, TypeDisk, TypeLog
    <2>2. TypeLog'
      BY <1>9 DEF read_head, diskvars, opvars, TypeDisk, TypeLog, TypeProc
    <2>3. TypeProc'
      BY <1>9 DEF read_head, diskvars, opvars, PC, RecoverPC, TypeProc
    <2>4. TypeFlags'
      BY <1>9, SMTT(30) DEF read_head, diskvars, opvars, PC, RecoverPC, TypeFlags
    <2> QED
      BY <2>1, <2>2, <2>3, <2>4
  <1>10. ASSUME NEW p \in Procs, recover_install(p) PROVE TypeOK'
    <2>1. TypeDisk'
      BY <1>10, LoopIndex DEF recover_install, install_trans, Advance, logvars, opvars, TypeDisk
    <2>2. TypeLog'
      BY <1>10 DEF recover_install, install_trans, Advance, logvars, opvars, TypeDisk, TypeLog, TypeProc
    <2>3. TypeProc'
      <3>1. Advance(p, "recover_clear") /\ UNCHANGED <<held, wrote>>
        BY <1>10 DEF recover_install, install_trans, opvars
      <3> QED
        BY <3>1 DEF Advance, PC, RecoverPC, TypeProc
    <2>4. TypeFlags'
      BY <1>10 DEF recover_install, install_trans, Advance, logvars, opvars, PC, RecoverPC, TypeFlags
    <2> QED
      BY <2>1, <2>2, <2>3, <2>4
  <1>11. ASSUME NEW p \in Procs, NEW b \in Blocks, NEW v \in Vals, Modify(p, b, v) PROVE TypeOK'
    <2>1. TypeDisk'
      BY <1>11 DEF Modify, diskvars, logvars, TypeDisk, TypeLog
    <2>2. TypeLog'
      BY <1>11 DEF Modify, diskvars, logvars, TypeDisk, TypeLog, TypeProc
    <2>3. TypeProc'
      BY <1>11 DEF Modify, diskvars, logvars, TypeProc
    <2>4. TypeFlags'
      BY <1>11 DEF Modify, diskvars, logvars, TypeFlags
    <2> QED
      BY <2>1, <2>2, <2>3, <2>4
  <1>12. ASSUME NEW b \in Blocks, Recycle(b) PROVE TypeOK'
    <2>1. TypeDisk'
      BY <1>12 DEF Recycle, diskvars, logvars, opvars, TypeDisk, TypeLog
    <2>2. TypeLog'
      BY <1>12 DEF Recycle, diskvars, logvars, opvars, TypeDisk, TypeLog, TypeProc
    <2>3. TypeProc'
      BY <1>12 DEF Recycle, diskvars, logvars, opvars, TypeProc
    <2>4. TypeFlags'
      BY <1>12 DEF Recycle, diskvars, logvars, opvars, TypeFlags
    <2> QED
      BY <2>1, <2>2, <2>3, <2>4
  <1>13. ASSUME NEW p \in Procs, Crash(p) PROVE TypeOK'
    <2>1. TypeDisk'
      BY <1>13 DEF Crash, diskvars, TypeDisk, TypeLog
    <2>2. TypeLog'
      BY <1>13 DEF Crash, diskvars, TypeDisk, TypeLog, TypeProc
    <2>3. TypeProc'
      BY <1>13 DEF Crash, diskvars, PC, RecoverPC, TypeProc
    <2>4. TypeFlags'
      BY <1>13, ZenonT(30) DEF Crash, diskvars, PC, RecoverPC, TypeFlags
    <2> QED
      BY <2>1, <2>2, <2>3, <2>4
  <1> QED
    BY <1>1, <1>2, <1>3, <1>4, <1>5, <1>6, <1>7, <1>8, <1>9, <1>10, <1>11, <1>12, <1>13
    DEF Next, commit, recover_from_log

LEMMA ControlStep ==
  ASSUME IInv, Next
  PROVE  Control'
  <1> USE DEF IInv, Control
  <1>0. /\ IsFiniteSet(Ops) /\ outstanding \in Nat
        /\ \A p \in Procs : pc[p] = "op" => outstanding > 0
        /\ pc \in [Procs -> PC] /\ held \in [Procs -> Blocks \union {NoBlock}]
    BY UnusedFinite, OpCounted DEF TypeOK, TypeLog, TypeProc
  <1>1. ASSUME NEW p \in Procs, begin_op(p) PROVE Control'
    <2>1. CASE MustWait
      <3>1. Ops' = Ops /\ outstanding' = outstanding
        BY <1>0, <1>1, <2>1 DEF begin_op, Ops
      <3> QED
        BY <1>0, <1>1, <2>1, <3>1
        DEF begin_op, OpsCounted, Exclusive, CommitPC, RecoverPC, Booted
    <2>2. CASE ~MustWait
      <3>1. Ops' = Ops \union {p} /\ p \notin Ops
        BY <1>0, <1>1, <2>2 DEF begin_op, Ops
      <3>2. OpsCounted'
        BY <1>0, <1>1, <2>2, <3>1, FS_AddElement, ZenonT(30) DEF begin_op, OpsCounted
      <3>3. Exclusive'
        BY <1>0, <1>1, <2>2
        DEF begin_op, Exclusive, MustWait, CommitPC, RecoverPC, Booted
      <3> QED
        BY <3>2, <3>3
    <2> QED
      BY <2>1, <2>2
  <1>2. ASSUME NEW p \in Procs, log_write(p) PROVE Control'
    <2>1. Ops' = Ops /\ outstanding' = outstanding /\ pc' = pc /\ committing' = committing
      BY <1>2 DEF log_write, Ops
    <2>2. \A q \in Procs : held'[q] = held[q] \/ held'[q] = NoBlock
      BY <1>0, <1>2 DEF log_write, opvars
    <2> QED
      BY <1>0, <1>2, <2>1, <2>2, SMTT(30) DEF log_write, OpsCounted, Exclusive, Booted
  <1>3. ASSUME NEW p \in Procs, end_op(p) PROVE Control'
    <2>1. pc[p] = "op" /\ ~committing /\ outstanding > 0 /\ Booted
      BY <1>0, <1>3 DEF end_op, Exclusive, CommitPC, RecoverPC, Booted
    <2>2. Ops' = Ops \ {p} /\ p \in Ops
      BY <1>0, <1>3 DEF end_op, wakeup, Ops
    <2>3. OpsCounted'
      BY <1>0, <1>3, <2>2, FS_RemoveElement, ZenonT(30) DEF end_op, OpsCounted
    <2>4. Exclusive'
      BY <1>0, <1>3, <2>1 DEF end_op, wakeup, opvars, Exclusive, CommitPC, RecoverPC, Booted
    <2> QED
      BY <2>3, <2>4
  <1>4. ASSUME NEW p \in Procs, write_log(p) \/ write_head(p) \/ install(p) \/ recover_install(p)
        PROVE  Control'
    <2>1. UNCHANGED <<lh, outstanding, committing, held>>
      BY <1>4 DEF write_log, write_head, install, recover_install, install_trans, logvars, opvars
    <2>2. \/ pc' = pc
          \/ pc[p] \in CommitPC /\ \E c \in CommitPC : pc' = [pc EXCEPT ![p] = c]
          \/ pc[p] \in RecoverPC /\ pc' = [pc EXCEPT ![p] = "recover_clear"]
      BY <1>4, ZenonT(30) DEF write_log, write_head, install, recover_install, Advance, CommitPC, RecoverPC
    <2>3. Ops' = Ops
      BY <1>0, <2>2 DEF Ops, CommitPC, RecoverPC
    <2> QED
      BY <1>0, <2>1, <2>2, <2>3 DEF OpsCounted, Exclusive, CommitPC, RecoverPC, Booted
  <1>5. ASSUME NEW p \in Procs, clear(p) PROVE Control'
    <2>1. Ops' = Ops
      BY <1>0, <1>5 DEF clear, Ops
    <2> QED
      BY <1>0, <1>5, <2>1 DEF clear, opvars, OpsCounted, Exclusive, CommitPC, RecoverPC, Booted
  <1>6. ASSUME NEW p \in Procs, end_commit(p) PROVE Control'
    <2>1. Ops' = Ops
      BY <1>0, <1>6, SMTT(30) DEF end_commit, wakeup, Ops
    <2>2. lh = <<>>
      BY <1>6 DEF Data, LogPlaces, end_commit
    <2> QED
      BY <1>0, <1>6, <2>1, <2>2
      DEF end_commit, wakeup, opvars, OpsCounted, Exclusive, CommitPC, RecoverPC, Booted
  <1>7. ASSUME NEW p \in Procs, read_head(p) PROVE Control'
    <2>1. Ops' = Ops
      BY <1>0, <1>7, SMTT(30) DEF read_head, Ops
    <2> QED
      BY <1>0, <1>7, <2>1 DEF read_head, opvars, OpsCounted, Exclusive, CommitPC, RecoverPC, Booted
  <1>8. ASSUME NEW p \in Procs, NEW b \in Blocks, NEW v \in Vals, Modify(p, b, v)
        PROVE  Control'
    <2>1. Ops' = Ops
      BY <1>8 DEF Modify, Ops
    <2> QED
      BY <1>0, <1>8, <2>1, LogAssumption, ZenonT(60) DEF Modify, logvars, OpsCounted, Exclusive, Booted
  <1>9. ASSUME NEW b \in Blocks, Recycle(b) PROVE Control'
    <2>1. Ops' = Ops
      BY <1>9, Zenon DEF Recycle, Ops
    <2> QED
      BY <1>9, <2>1, ZenonT(60) DEF Recycle, logvars, opvars, OpsCounted, Exclusive, Booted
  <1>10. ASSUME NEW p \in Procs, Crash(p) PROVE Control'
    <2>1. Ops' = {}
      BY <1>10 DEF Crash, Ops
    <2> QED
      BY <1>10, <2>1, FS_EmptySet, Zenon
      DEF Crash, OpsCounted, Exclusive, CommitPC, RecoverPC, Booted
  <1> QED
    BY <1>1, <1>2, <1>3, <1>4, <1>5, <1>6, <1>7, <1>8, <1>9, <1>10
    DEF Next, commit, recover_from_log

\* What log_write does to the header when it does not panic.
LEMMA LogWriteEffect ==
  ASSUME TypeOK, NEW p \in Procs, log_write(p), ~panicked'
  PROVE  /\ held[p] \in Blocks
         /\ wrote' = [wrote EXCEPT ![p] = @ \union {held[p]}]
         /\ held' = [held EXCEPT ![p] = NoBlock]
         /\ \/ held[p] \in LogBlocks /\ lh' = lh /\ pins' = pins
            \/ held[p] \notin LogBlocks /\ lh' = Append(lh, held[p]) /\ bpin(held[p])
         /\ LogBlocks' = LogBlocks \union {held[p]}
         /\ Len(lh) \in Nat /\ Len(lh') \in Nat
  <1>1. held[p] \in Blocks
    BY DEF log_write, TypeOK, TypeProc
  <1>2. /\ wrote' = [wrote EXCEPT ![p] = @ \union {held[p]}]
        /\ held' = [held EXCEPT ![p] = NoBlock]
        /\ \/ held[p] \in LogBlocks /\ lh' = lh /\ pins' = pins
           \/ held[p] \notin LogBlocks /\ lh' = Append(lh, held[p]) /\ bpin(held[p])
    BY DEF log_write
  <1>3. lh \in Seq(Blocks) /\ Len(lh) \in Nat /\ DOMAIN lh = 1..Len(lh)
    BY DEF TypeOK, TypeLog
  <1>4. LogBlocks' = LogBlocks \union {held[p]} /\ Len(lh') \in Nat
    <2>1. CASE lh' = lh /\ held[p] \in LogBlocks
      BY <1>3, <2>1 DEF LogBlocks
    <2>2. CASE lh' = Append(lh, held[p])
      <3>1. /\ DOMAIN lh' = 1..(Len(lh) + 1)
            /\ \A i \in 1..Len(lh) : lh'[i] = lh[i]
            /\ lh'[Len(lh) + 1] = held[p]
            /\ Len(lh') = Len(lh) + 1
        BY <1>1, <1>3, <2>2, Appended
      <3> QED
        BY <1>3, <3>1 DEF LogBlocks
    <2> QED
      BY <1>2, <2>1, <2>2
  <1> QED
    BY <1>1, <1>2, <1>3, <1>4

\* A panic changes nothing else.
LEMMA PanicEffect ==
  ASSUME NEW p \in Procs, log_write(p), ~panicked, panicked'
  PROVE  UNCHANGED <<diskvars, cache, pins, logvars, pc, tail, opvars>>
  BY ZenonT(30) DEF log_write, logvars, opvars, diskvars

LEMMA ReservedStep ==
  ASSUME IInv, Next
  PROVE  Reserved'
  <1> USE DEF IInv
  <1>0. /\ IsFiniteSet(Ops) /\ IsFiniteSet(Unused) /\ Cardinality(Unused) \in Nat
        /\ lh \in Seq(Blocks) /\ Len(lh) \in Nat /\ outstanding \in Nat
        /\ wrote \in [Procs -> SUBSET Blocks] /\ pc \in [Procs -> PC]
        /\ held \in [Procs -> Blocks \union {NoBlock}]
        /\ LOGSIZE \in Nat /\ MAXOPBLOCKS \in Nat /\ OpBlocks \in Nat /\ OpBlocks <= MAXOPBLOCKS
        /\ \A q \in Procs : Cardinality(wrote[q]) \in Nat
    BY UnusedFinite, LogAssumption, FS_CardinalityType DEF TypeOK, TypeLog, TypeProc, Reserved
  <1>1. ASSUME NEW p \in Procs, begin_op(p) PROVE Reserved'
    <2>1. CASE MustWait
      <3>1. Ops' = Ops /\ UNCHANGED <<lh, head, held, wrote>>
        BY <1>0, <1>1, <2>1 DEF begin_op, Ops, diskvars
      <3> QED
        BY <3>1 DEF Reserved, Unused, LogBlocks
    <2>2. CASE ~MustWait
      <3>1. /\ Ops' = Ops \union {p} /\ p \notin Ops /\ UNCHANGED <<lh, head, held>>
            /\ wrote' = [wrote EXCEPT ![p] = {}]
            /\ Len(lh) + (outstanding + 1) * MAXOPBLOCKS <= LOGSIZE
        BY <1>0, <1>1, <2>2 DEF begin_op, Ops, diskvars, MustWait
      <3>2. /\ IsFiniteSet(Ops') /\ Cardinality(Ops') = outstanding + 1
        BY <1>0, <3>1, FS_AddElement, ZenonT(30) DEF Control, OpsCounted
      <3>3. /\ IsFiniteSet(1..MAXOPBLOCKS) /\ Cardinality(1..MAXOPBLOCKS) = MAXOPBLOCKS
        BY LogAssumption, FS_Interval
      <3>4. /\ IsFiniteSet(Ops' \X (1..MAXOPBLOCKS))
            /\ Cardinality(Ops' \X (1..MAXOPBLOCKS)) = (outstanding + 1) * MAXOPBLOCKS
        BY <3>2, <3>3, FS_Product, ZenonT(60)
      <3>5. Unused' \in SUBSET (Ops' \X (1..MAXOPBLOCKS))
        BY DEF Unused
      <3>6. Cardinality(Unused') <= (outstanding + 1) * MAXOPBLOCKS /\ Cardinality(Unused') \in Nat
        BY <3>4, <3>5, FS_Subset, FS_CardinalityType
      <3>7. (outstanding + 1) * MAXOPBLOCKS \in Nat
        BY <1>0
      <3>8. Len(lh') + Cardinality(Unused') <= LOGSIZE
        BY <1>0, <3>1, <3>6, <3>7
      <3>9. IsFiniteSet({}) /\ Cardinality({}) = 0
        BY FS_EmptySet
      <3>10. held[p] = NoBlock
        BY <1>1 DEF begin_op, Control, Exclusive
      <3> QED
        BY <1>0, <3>1, <3>8, <3>9, <3>10, SMTT(60) DEF Reserved, LogBlocks
    <2> QED
      BY <2>1, <2>2, SMTT(30)
  <1>2. ASSUME NEW p \in Procs, log_write(p), ~panicked PROVE Reserved'
    <2>1. CASE panicked'
      BY <1>2, <2>1, PanicEffect, ZenonT(30)
      DEF Reserved, Unused, Ops, LogBlocks, diskvars, logvars, opvars
    <2>2. CASE ~panicked'
      <3>1. /\ held[p] \in Blocks /\ held[p] # NoBlock /\ pc[p] = "op" /\ p \in Ops
            /\ Ops' = Ops /\ head' = head
        BY <1>2 DEF log_write, Control, Exclusive, TypeOK, TypeProc, Ops, diskvars
      <3>2. /\ wrote' = [wrote EXCEPT ![p] = @ \union {held[p]}]
            /\ held' = [held EXCEPT ![p] = NoBlock]
            /\ LogBlocks' = LogBlocks \union {held[p]}
            /\ \/ held[p] \in LogBlocks /\ lh' = lh
               \/ held[p] \notin LogBlocks /\ lh' = Append(lh, held[p])
        BY <1>2, <2>2, LogWriteEffect
      <3>3. \A q \in Procs : IsFiniteSet(wrote'[q]) /\ Cardinality(wrote'[q]) <= OpBlocks
        BY <1>0, <3>1, <3>2, FS_AddElement, ZenonT(30) DEF Reserved
      <3>4. \A q \in Procs : held'[q] # NoBlock => Cardinality(wrote'[q] \union {held'[q]}) <= OpBlocks
        BY <1>0, <3>2 DEF Reserved
      <3>5. \A q \in Ops' : wrote'[q] \subseteq LogBlocks'
        BY <1>0, <3>1, <3>2 DEF Reserved, Ops
      <3>6. Len(lh') + Cardinality(Unused') <= LOGSIZE
        <4>1. CASE held[p] \in wrote[p]
          <5>1. lh' = lh /\ wrote' = wrote
            BY <1>0, <3>1, <3>2, <4>1 DEF Reserved
          <5> QED
            BY <3>1, <5>1 DEF Reserved, Unused
        <4>2. CASE held[p] \notin wrote[p]
          <5> DEFINE s == <<p, Cardinality(wrote[p]) + 1>>
          <5>1. Cardinality(wrote'[p]) = Cardinality(wrote[p]) + 1
            BY <1>0, <3>2, <4>2, FS_AddElement, ZenonT(30) DEF Reserved
          <5>2. Cardinality(wrote[p]) + 1 <= MAXOPBLOCKS
            BY <1>0, <3>3, <5>1
          <5>3. s \in Unused
            BY <1>0, <3>1, <5>2 DEF Unused
          <5>4. \A q \in Procs : q # p => wrote'[q] = wrote[q]
            BY <1>0, <3>2
          <5>5. Unused' = Unused \ {s}
            BY <1>0, <3>1, <5>1, <5>4 DEF Unused, Ops
          <5>6. Cardinality(Unused') = Cardinality(Unused) - 1
            <6> HIDE DEF s
            <6>1. Cardinality(Unused \ {s}) = Cardinality(Unused) - 1
              BY <1>0, <5>3, FS_RemoveElement, ZenonT(30)
            <6> QED
              BY <5>5, <6>1
          <5>7. Len(lh') <= Len(lh) + 1 /\ Len(lh') \in Nat
            BY <1>0, <3>1, <3>2, Appended
          <5> QED
            BY <1>0, <5>6, <5>7 DEF Reserved
        <4> QED
          BY <4>1, <4>2
      <3> QED
        BY <3>1, <3>3, <3>4, <3>5, <3>6, ZenonT(30) DEF Reserved
    <2> QED
      BY <2>1, <2>2
  <1>3. ASSUME NEW p \in Procs, end_op(p) PROVE Reserved'
    <2>1. UNCHANGED <<lh, head, held, wrote>>
      BY <1>3 DEF end_op, diskvars, opvars
    <2>2. Ops' \subseteq Ops
      BY <1>0, <1>3 DEF end_op, wakeup, Ops
    <2>3. Unused' \in SUBSET Unused
      BY <2>1, <2>2 DEF Unused
    <2>4. Cardinality(Unused') <= Cardinality(Unused) /\ Cardinality(Unused') \in Nat
      BY <1>0, <2>3, FS_Subset, FS_CardinalityType
    <2> QED
      BY <1>0, <2>1, <2>2, <2>4 DEF Reserved, LogBlocks
  <1>4. ASSUME NEW p \in Procs,
               write_log(p) \/ write_head(p) \/ install(p) \/ recover_install(p)
                 \/ clear(p) \/ end_commit(p) \/ read_head(p)
        PROVE  Reserved'
    <2>1. UNCHANGED <<held, wrote>>
      BY <1>4, ZenonT(30) DEF write_log, write_head, install, recover_install, install_trans,
                  clear, end_commit, read_head, opvars
    <2>2. Ops = {} /\ Ops' = {}
      <3>1. pc[p] \in CommitPC \union RecoverPC
        BY <1>4, ZenonT(30) DEF write_log, write_head, install, recover_install, clear, end_commit,
                    read_head, CommitPC, RecoverPC
      <3>2. outstanding = 0
        BY <3>1 DEF Control, Exclusive
      <3>3. Ops = {}
        BY <1>0, <3>2, FS_EmptySet, ZenonT(30) DEF Control, OpsCounted
      <3>4. Ops' \subseteq Ops
        BY <1>0, <1>4, ZenonT(30) DEF write_log, write_head, install, recover_install, clear, end_commit,
                          read_head, Advance, wakeup, Ops
      <3> QED
        BY <3>3, <3>4, SMTT(30)
    <2>3. Unused = {} /\ Unused' = {} /\ Cardinality({}) = 0
      BY <2>2, FS_EmptySet DEF Unused
    <2>4. Len(lh) <= LOGSIZE /\ Len(head) <= LOGSIZE
      BY <1>0, <2>3 DEF Reserved
    <2>5. lh' \in {lh, <<>>, head} /\ head' \in {head, lh, <<>>}
      BY <1>4, ZenonT(30) DEF write_log, write_head, install, recover_install, install_trans,
                  clear, end_commit, read_head, logvars, diskvars
    <2>6. Len(lh') <= LOGSIZE /\ Len(head') <= LOGSIZE /\ Len(lh') \in Nat
      BY <1>0, <2>4, <2>5 DEF TypeOK, TypeDisk
    <2> QED
      BY <1>0, <2>1, <2>2, <2>3, <2>6, SMTT(30) DEF Reserved
  <1>5. ASSUME NEW p \in Procs, NEW b \in Blocks, NEW v \in Vals, Modify(p, b, v)
        PROVE  Reserved'
    <2>1. UNCHANGED <<lh, head, wrote>> /\ Ops' = Ops /\ held' = [held EXCEPT ![p] = b]
      BY <1>5 DEF Modify, Ops, diskvars, logvars
    <2>2. \A q \in Procs : held'[q] # NoBlock => Cardinality(wrote'[q] \union {held'[q]}) <= OpBlocks
      BY <1>0, <1>5, <2>1, ZenonT(30) DEF Modify, Reserved
    <2> QED
      BY <2>1, <2>2, ZenonT(30) DEF Reserved, Unused, LogBlocks
  <1>6. ASSUME NEW b \in Blocks, Recycle(b) PROVE Reserved'
    BY <1>6, ZenonT(30) DEF Recycle, Reserved, Unused, Ops, LogBlocks, diskvars, logvars, opvars
  <1>7. ASSUME NEW p \in Procs, Crash(p) PROVE Reserved'
    <2>1. Ops' = {} /\ Unused' = {} /\ lh' = <<>> /\ head' = head
      BY <1>7 DEF Crash, Ops, Unused, diskvars
    <2>2. IsFiniteSet({}) /\ Cardinality({}) = 0
      BY FS_EmptySet
    <2> QED
      BY <1>0, <1>7, <2>1, <2>2 DEF Crash, Reserved
  <1> QED
    BY <1>1, <1>2, <1>3, <1>4, <1>5, <1>6, <1>7 DEF Next, commit, recover_from_log
-----------------------------------------------------------------------------
\* While an operation runs nobody commits or recovers.
LEMMA OpAlone ==
  ASSUME IInv, NEW p \in Procs, pc[p] = "op"
  PROVE  \A q \in Procs : pc[q] \notin CommitPC \union RecoverPC
  BY Zenon, OpCounted DEF IInv, Control, Exclusive, CommitPC, RecoverPC

\* A process that commits or recovers is the only one.
LEMMA WorkerAlone ==
  ASSUME IInv, NEW p \in Procs, pc[p] \in CommitPC \union RecoverPC
  PROVE  /\ \A q \in Procs : q # p => pc[q] \notin CommitPC \union RecoverPC
         /\ \A q \in Procs : held[q] = NoBlock
  <1>1. \A q \in Procs : q # p => pc[q] \notin CommitPC \union RecoverPC
    BY Zenon DEF IInv, Control, Exclusive, CommitPC, RecoverPC
  <1>2. \A q \in Procs : held[q] = NoBlock
    BY Zenon, OpAlone DEF IInv, Control, Exclusive
  <1> QED
    BY Zenon, <1>1, <1>2

\* Recycling a buffer never changes what its block's reader sees.
LEMMA RecycleHarmless ==
  ASSUME IInv, NEW b \in Blocks, Recycle(b)
  PROVE  cache' = cache
  <1> USE DEF IInv
  <1>1. cache \in [Blocks -> Vals] /\ pc \in [Procs -> PC] /\ lh \in Seq(Blocks)
    BY Zenon DEF TypeOK, TypeDisk, TypeProc, TypeLog
  <1>2. cache[b] = disk[b]
    <2>1. CASE b \notin LogBlocks
      BY Zenon, <2>1 DEF Dirty, Recycle
    <2>2. CASE b \in LogBlocks
      <3>1. PICK i \in 1..Len(lh) : lh[i] = b
        BY <1>1, <2>2 DEF LogBlocks
      <3>2. CASE \A p \in Procs : pc[p] \notin InstallPC \union RecoverPC
        <4>1. pins[b] = 1 /\ pins[b] = 0
          BY <2>2, <3>2, Zenon DEF Pinned, Recycle
        <4>2. 1 # 0
          BY ONLY SMT
        <4> QED
          BY <4>1, <4>2, Zenon
      <3>3. ASSUME NEW p \in Procs, pc[p] \in InstallPC \union RecoverPC
            PROVE  cache[b] = disk[b]
        BY <3>1, <3>3 DEF InstallPC, RecoverPC, Pinned, Recycle, Data, DataPlaces, TypeOK, TypeProc
      <3> QED
        BY Zenon, <3>2, <3>3
    <2> QED
      BY Zenon, <2>1, <2>2
  <1> QED
    BY Zenon, <1>1, <1>2 DEF Recycle

LEMMA DataStep ==
  ASSUME IInv, Next
  PROVE  Data'
  <1> USE DEF IInv, Data
  <1>0. /\ pc \in [Procs -> PC] /\ tail \in [Procs -> Nat]
        /\ lh \in Seq(Blocks) /\ head \in Seq(Blocks) /\ Len(lh) \in Nat /\ Len(head) \in Nat
        /\ cache \in [Blocks -> Vals] /\ disk \in [Blocks -> Vals] /\ logblk \in [1..LOGSIZE -> Vals]
        /\ held \in [Procs -> Blocks \union {NoBlock}]
    BY DEF TypeOK, TypeDisk, TypeLog, TypeProc
  <1> USE DEF PC, CommitPC, RecoverPC, InstallPC
  <1>1. ASSUME NEW p \in Procs, begin_op(p) PROVE Data'
    <2>1. /\ UNCHANGED <<disk, logblk, head, cache, lh, tail>> /\ Booted
          /\ \A q \in Procs : pc'[q] = pc[q] \/ pc'[q] \in {"sleep", "op"}
          /\ \A q \in Procs : pc[q] \in InstallPC => pc'[q] = pc[q]
      BY Zenon, <1>0, <1>1 DEF begin_op, diskvars
    <2> QED
      BY <2>1 DEF Unique, NotCommitted, LogPlaces, DataPlaces
  <1>2. ASSUME NEW p \in Procs, log_write(p), ~panicked PROVE Data'
    <2>1. pc[p] = "op" /\ UNCHANGED <<disk, logblk, head, cache, pc, tail>>
      BY Zenon, <1>2 DEF log_write, diskvars, Control, Exclusive
    <2>2. LogPlaces' /\ DataPlaces' /\ NotCommitted'
      BY Zenon, <2>1, OpAlone DEF LogPlaces, DataPlaces, NotCommitted, Booted
    <2>3. Unique'
      <3>1. CASE lh' = lh
        BY Zenon, <2>1, <3>1 DEF Unique
      <3>2. CASE lh' # lh
        <4>1. held[p] \in Blocks /\ held[p] \notin LogBlocks /\ lh' = Append(lh, held[p])
          BY Zenon, <1>0, <1>2, <3>2 DEF log_write
        <4>2. /\ Len(lh') = Len(lh) + 1
              /\ \A i \in 1..Len(lh) : lh'[i] = lh[i]
              /\ lh'[Len(lh) + 1] = held[p]
          <5>1. /\ Len(Append(lh, held[p])) = Len(lh) + 1
                /\ \A i \in 1..Len(lh) : Append(lh, held[p])[i] = lh[i]
                /\ Append(lh, held[p])[Len(lh) + 1] = held[p]
            <6>1. lh \in Seq(Blocks) /\ held[p] \in Blocks
              BY <1>0, <4>1, Zenon
            <6> QED
              BY ONLY <6>1, SMT
          <5> QED
            BY <4>1, <5>1, Zenon
        <4>3. \A i \in 1..Len(lh) : lh[i] # held[p]
          BY <1>0, <4>1 DEF LogBlocks
        <4>4. Injective(lh)'
          BY <1>0, <4>2, <4>3 DEF Injective, Unique
        <4> QED
          BY Zenon, <2>1, <4>4 DEF Unique
      <3> QED
        BY Zenon, <3>1, <3>2
    <2> QED
      BY Zenon, <2>2, <2>3
  <1>3. ASSUME NEW p \in Procs, end_op(p) PROVE Data'
    <2>1. \A q \in Procs : pc[q] \notin CommitPC \union RecoverPC
      BY Zenon, <1>3, OpAlone DEF end_op
    <2>2. lh # <<>> => Len(lh) > 0
      BY <1>0
    <2>3. UNCHANGED <<disk, logblk, head, cache, lh>> /\ tail' = [tail EXCEPT ![p] = 0]
      BY Zenon, <1>3 DEF end_op, diskvars
    <2>4. Booted /\ head = <<>>
      BY Zenon, <2>1 DEF Booted, NotCommitted
    <2>5. \A q \in Procs : \/ pc'[q] \notin CommitPC \union RecoverPC
                           \/ q = p /\ pc'[q] = "write_log" /\ lh # <<>>
                           \/ q = p /\ pc'[q] = "end_commit" /\ lh = <<>>
      BY ZenonT(60), <1>0, <1>3, <2>1 DEF end_op, wakeup
    <2> QED
      BY <1>0, <2>2, <2>3, <2>4, <2>5 DEF Unique, NotCommitted, LogPlaces, DataPlaces
  <1>4. ASSUME NEW p \in Procs, write_log(p) PROVE Data'
    <2>1. \A q \in Procs : q # p => pc[q] \notin CommitPC \union RecoverPC
      BY Zenon, <1>4, WorkerAlone DEF write_log
    <2>2. UNCHANGED <<disk, head, cache, lh>> /\ pc[p] = "write_log" /\ head = <<>>
      BY Zenon, <1>4, <2>1 DEF write_log, logvars, NotCommitted, Booted
    <2>3. tail[p] + 1 \in 1..Len(lh) /\ Len(lh) <= LOGSIZE
      BY Zenon, <2>2, LoopIndex
    <2>4. /\ logblk'[tail[p] + 1] = cache[lh[tail[p] + 1]]
          /\ \A i \in 1..tail[p] : logblk'[i] = logblk[i]
      <3>1. logblk' = [logblk EXCEPT ![tail[p] + 1] = cache[lh[tail[p] + 1]]]
        BY <1>4, Zenon DEF write_log
      <3>2. tail[p] \in Nat /\ Len(lh) \in Nat /\ LOGSIZE \in Nat
        BY <1>0, LogAssumption, Zenon
      <3>3. /\ tail[p] + 1 \in 1..LOGSIZE
            /\ \A i \in 1..tail[p] : i \in 1..LOGSIZE /\ i # tail[p] + 1
        BY <2>3, <3>2, SMT
      <3> QED
        BY <1>0, <3>1, <3>3, Zenon
    <2>5. \A i \in 1..(tail[p] + 1) : logblk'[i] = cache[lh[i]]
      BY <1>0, <2>2, <2>3, <2>4 DEF DataPlaces
    <2>6. CASE tail[p] + 1 < Len(lh) /\ tail' = [tail EXCEPT ![p] = @ + 1] /\ pc' = pc
      BY <1>0, <2>1, <2>2, <2>5, <2>6, SMTT(30) DEF Unique, NotCommitted, LogPlaces, DataPlaces
    <2>7. CASE /\ tail[p] + 1 = Len(lh) /\ pc' = [pc EXCEPT ![p] = "write_head"]
               /\ tail' = [tail EXCEPT ![p] = 0]
      BY <1>0, <2>1, <2>2, <2>5, <2>7 DEF Unique, NotCommitted, LogPlaces, DataPlaces
    <2> QED
      BY <1>0, <1>4, <2>3, <2>6, <2>7 DEF write_log, Advance
  <1>5. ASSUME NEW p \in Procs, write_head(p) PROVE Data'
    <2>1. \A q \in Procs : q # p => pc[q] \notin CommitPC \union RecoverPC
      BY Zenon, <1>5, WorkerAlone DEF write_head
    <2>2. 0 < Len(lh) /\ tail[p] = 0
      BY Zenon, <1>5 DEF write_head, LogPlaces
    <2>3. /\ UNCHANGED <<disk, logblk, cache, lh, tail>> /\ head' = lh
          /\ pc' = [pc EXCEPT ![p] = "install"] /\ pc[p] = "write_head"
      BY Zenon, <1>5 DEF write_head, logvars
    <2> QED
      BY <1>0, <2>1, <2>2, <2>3 DEF Unique, NotCommitted, LogPlaces, DataPlaces, Booted
  <1>6. ASSUME NEW p \in Procs, install(p) \/ recover_install(p) PROVE Data'
    <2> DEFINE t == tail[p] + 1
    <2>1. /\ \A q \in Procs : q # p => pc[q] \notin CommitPC \union RecoverPC
          /\ pc[p] \in {"install", "recover_install"}
      BY <1>6, WorkerAlone, ZenonT(30) DEF install, recover_install
    <2>2. UNCHANGED <<logblk, head, lh>> /\ lh = head
      BY Zenon, <1>6, <2>1 DEF install, recover_install, install_trans, logvars, LogPlaces
    <2>3. t \in 1..Len(lh) /\ lh[t] \in Blocks
      BY Zenon, <2>1, LoopIndex
    <2>4. /\ disk' = [disk EXCEPT ![lh[t]] = logblk[t]]
          /\ cache' = [cache EXCEPT ![lh[t]] = logblk[t]]
      BY Zenon, <1>6 DEF install, recover_install, install_trans
    <2>5. \A i \in 1..t : disk'[lh[i]] = logblk[i]
      BY <1>0, <2>1, <2>3, <2>4 DEF DataPlaces, Unique, Injective
    <2>6. pc[p] = "install" => \A i \in 1..Len(lh) : logblk[i] = cache'[lh[i]]
      BY <1>0, <2>1, <2>3, <2>4 DEF DataPlaces, Unique, Injective
    <2>7. pc[p] = "recover_install" => cache' = disk'
      BY <1>0, <2>1, <2>4, ZenonT(30) DEF DataPlaces
    <2>8. \/ t < Len(lh) /\ tail' = [tail EXCEPT ![p] = t] /\ pc' = pc
          \/ /\ t = Len(lh)
             /\ \/ pc[p] = "install" /\ pc' = [pc EXCEPT ![p] = "clear"]
                \/ pc[p] = "recover_install" /\ pc' = [pc EXCEPT ![p] = "recover_clear"]
      <3>1. \/ pc[p] = "install" /\ Advance(p, "clear")
            \/ pc[p] = "recover_install" /\ Advance(p, "recover_clear")
        BY <1>6, ZenonT(30) DEF install, recover_install
      <3> QED
        BY <1>0, <2>3, <3>1 DEF Advance
    <2> HIDE DEF t
    <2>9. Unique' /\ NotCommitted' /\ LogPlaces'
      BY ZenonT(60), <1>0, <2>1, <2>2, <2>3, <2>8 DEF Unique, NotCommitted, LogPlaces, Booted
    <2>10. DataPlaces'
      <3>1. CASE t < Len(lh) /\ tail' = [tail EXCEPT ![p] = t] /\ pc' = pc
        BY <1>0, <2>1, <2>2, <2>3, <2>5, <2>6, <2>7, <3>1, SMTT(30) DEF DataPlaces
      <3>2. CASE t = Len(lh) /\ pc[p] = "install" /\ pc' = [pc EXCEPT ![p] = "clear"]
        BY <1>0, <2>1, <2>2, <2>5, <2>6, <3>2, SMTT(30) DEF DataPlaces
      <3>3. CASE /\ t = Len(lh) /\ pc[p] = "recover_install"
                 /\ pc' = [pc EXCEPT ![p] = "recover_clear"]
        BY <1>0, <2>1, <2>2, <2>5, <2>7, <3>3, SMTT(30) DEF DataPlaces
      <3> QED
        BY <2>8, <3>1, <3>2, <3>3, SMTT(30)
    <2> QED
      BY Zenon, <2>9, <2>10
  <1>7. ASSUME NEW p \in Procs, clear(p) PROVE Data'
    <2>1. \A q \in Procs : q # p => pc[q] \notin CommitPC \union RecoverPC
      BY Zenon, <1>7, WorkerAlone DEF clear
    <2> QED
      BY <1>0, <1>7, <2>1 DEF clear, Unique, NotCommitted, LogPlaces, DataPlaces, Injective
  <1>8. ASSUME NEW p \in Procs, end_commit(p) PROVE Data'
    <2>1. \A q \in Procs : q # p => pc[q] \notin CommitPC \union RecoverPC
      BY Zenon, <1>8, WorkerAlone DEF end_commit
    <2> QED
      BY ZenonT(60), <1>0, <1>8, <2>1
      DEF end_commit, wakeup, diskvars, Unique, NotCommitted, LogPlaces, DataPlaces, Booted
  <1>9. ASSUME NEW p \in Procs, read_head(p) PROVE Data'
    <2>1. \A q \in Procs : q # p => pc[q] \notin CommitPC \union RecoverPC
      BY Zenon, <1>9, WorkerAlone DEF read_head
    <2>2. /\ UNCHANGED <<disk, logblk, head, cache, tail>> /\ lh' = head
          /\ pc[p] = "read_head" /\ tail[p] = 0 /\ cache = disk
          /\ \/ head # <<>> /\ pc' = [pc EXCEPT ![p] = "recover_install"]
             \/ head = <<>> /\ pc' = [pc EXCEPT ![p] = "recover_clear"]
      BY <1>9, ZenonT(30) DEF read_head, diskvars, LogPlaces, DataPlaces
    <2>3. head # <<>> => 0 < Len(head)
      BY <1>0
    <2>4. LogPlaces' /\ NotCommitted' /\ Unique'
      BY <1>0, <2>1, <2>2, <2>3, ZenonT(60) DEF Unique, NotCommitted, LogPlaces, Booted
    <2>5. DataPlaces'
      <3>1. CASE pc' = [pc EXCEPT ![p] = "recover_install"]
        BY <1>0, <2>1, <2>2, <3>1 DEF DataPlaces
      <3>2. CASE head = <<>> /\ pc' = [pc EXCEPT ![p] = "recover_clear"]
        <4>1. 1..Len(lh') = {}
          BY <2>2, <3>2, SMTT(30)
        <4> QED
          BY <1>0, <2>1, <2>2, <3>2, <4>1, SMTT(30) DEF DataPlaces
      <3> QED
        BY Zenon, <2>2, <3>1, <3>2
    <2> QED
      BY Zenon, <2>4, <2>5
  <1>10. ASSUME NEW p \in Procs, NEW b \in Blocks, NEW v \in Vals, Modify(p, b, v)
         PROVE  Data'
    <2>1. /\ UNCHANGED <<disk, logblk, head, lh, pc, tail>>
          /\ \A q \in Procs : pc[q] \notin CommitPC \union RecoverPC
      BY <1>10, OpAlone, Zenon DEF Modify, diskvars, logvars
    <2>2. Unique' /\ NotCommitted'
      <3>1. Unique'
        BY <2>1, SMT DEF Unique, Injective
      <3>2. NotCommitted'
        BY <2>1, Zenon DEF NotCommitted, Booted
      <3> QED
        BY <3>1, <3>2, Zenon
    <2>3. LogPlaces'
      BY <2>1, Zenon DEF LogPlaces
    <2>4. DataPlaces'
      BY <2>1, Zenon DEF DataPlaces
    <2> QED
      BY <2>2, <2>3, <2>4, Zenon
  <1>11. ASSUME NEW b \in Blocks, Recycle(b) PROVE Data'
    <2>1. UNCHANGED <<disk, logblk, head, cache, lh, pc, tail>>
      BY <1>11, RecycleHarmless, ZenonT(30) DEF Recycle, diskvars, logvars
    <2> QED
      BY Zenon, <2>1 DEF Unique, NotCommitted, LogPlaces, DataPlaces, Booted
  <1>12. ASSUME NEW p \in Procs, Crash(p) PROVE Data'
    <2>1. Unique'
      BY <1>12 DEF Crash, diskvars, Unique, Injective
    <2>2. NotCommitted' /\ LogPlaces' /\ DataPlaces'
      BY Zenon, <1>12 DEF Crash, diskvars, NotCommitted, LogPlaces, DataPlaces, Booted
    <2> QED
      BY Zenon, <2>1, <2>2
  <1> QED
    BY <1>1, <1>2, <1>3, <1>4, <1>5, <1>6, <1>7, <1>8, <1>9, <1>10, <1>11, <1>12, SMTT(30)
    DEF Next, commit, recover_from_log

LEMMA PinnedStep ==
  ASSUME IInv, Next
  PROVE  Pinned'
  <1> USE DEF IInv
  <1>0. /\ pc \in [Procs -> PC] /\ tail \in [Procs -> Nat] /\ pins \in [Blocks -> Int]
        /\ lh \in Seq(Blocks) /\ Len(lh) \in Nat /\ DOMAIN lh = 1..Len(lh)
    BY DEF TypeOK, TypeLog, TypeProc
  <1> USE DEF PC, CommitPC, RecoverPC, InstallPC
  <1>1. ASSUME NEW p \in Procs, begin_op(p) PROVE Pinned'
    <2>1. /\ UNCHANGED <<lh, tail, pins>>
          /\ \A q \in Procs : pc'[q] = pc[q] \/ pc'[q] \in {"sleep", "op"}
          /\ \A q \in Procs : pc[q] \in InstallPC \union RecoverPC => pc'[q] = pc[q]
      BY Zenon, <1>0, <1>1 DEF begin_op
    <2> QED
      BY <2>1 DEF Pinned, LogBlocks
  <1>2. ASSUME NEW p \in Procs, log_write(p), ~panicked PROVE Pinned'
    <2>1. CASE panicked'
      <3>1. UNCHANGED <<lh, pins, pc, tail>>
        BY Zenon, <1>2, <2>1, PanicEffect DEF logvars
      <3> QED
        BY Zenon, <3>1 DEF Pinned, LogBlocks
    <2>2. CASE ~panicked'
      <3>1. \A q \in Procs : pc'[q] = pc[q] /\ pc[q] \notin CommitPC \union RecoverPC
        BY Zenon, <1>2, OpAlone DEF log_write, Control, Exclusive
      <3>2. /\ LogBlocks' = LogBlocks \union {held[p]} /\ held[p] \in Blocks
            /\ \/ held[p] \in LogBlocks /\ pins' = pins
               \/ held[p] \notin LogBlocks /\ pins' = [pins EXCEPT ![held[p]] = @ + 1]
        BY Zenon, <1>2, <2>2, LogWriteEffect DEF bpin
      <3>3. LogBlocks \subseteq Blocks /\ \A b \in LogBlocks : pins[b] = 1
        BY <1>0, <3>1 DEF LogBlocks, Pinned
      <3>4. /\ \A b \in Blocks : b \notin LogBlocks' => pins'[b] = 0
            /\ \A b \in LogBlocks' : pins'[b] = 1
        BY <1>0, <3>2, <3>3 DEF Pinned
      <3> QED
        BY Zenon, <3>1, <3>4 DEF Pinned
    <2> QED
      BY <2>1, <2>2, SMTT(30)
  <1>3. ASSUME NEW p \in Procs, end_op(p) PROVE Pinned'
    <2>1. \A q \in Procs : pc[q] \notin CommitPC \union RecoverPC
      BY Zenon, <1>3, OpAlone DEF end_op
    <2>2. UNCHANGED <<lh, pins>> /\ \A q \in Procs : pc'[q] \notin InstallPC \union RecoverPC
      BY <1>0, <1>3, <2>1, SMTT(60) DEF end_op, wakeup
    <2> QED
      BY <2>1, <2>2 DEF Pinned, LogBlocks
  <1>4. ASSUME NEW p \in Procs, write_log(p) \/ write_head(p) PROVE Pinned'
    <2>1. /\ \A q \in Procs : q # p => pc[q] \notin CommitPC \union RecoverPC
          /\ pc[p] \in {"write_log", "write_head"}
      BY Zenon, <1>4, WorkerAlone DEF write_log, write_head
    <2>2. UNCHANGED <<lh, pins>>
      BY Zenon, <1>4 DEF write_log, write_head, logvars
    <2>3. \A b \in LogBlocks : pins[b] = 1
      BY Zenon, <2>1 DEF Pinned
    <2>4. \/ /\ \A q \in Procs : pc'[q] \notin InstallPC \union RecoverPC
          \/ /\ pc' = [pc EXCEPT ![p] = "install"] /\ tail'[p] = 0
      BY Zenon, <1>0, <1>4, <2>1 DEF write_log, write_head, Advance, Data, LogPlaces
    <2>5. LogBlocks' = LogBlocks /\ \A i \in 1..Len(lh) : lh[i] \in LogBlocks
      BY <1>0, <2>2, ZenonT(30) DEF LogBlocks
    <2>6. CASE \A q \in Procs : pc'[q] \notin InstallPC \union RecoverPC
      BY Zenon, <2>2, <2>3, <2>5, <2>6 DEF Pinned
    <2>7. CASE pc' = [pc EXCEPT ![p] = "install"] /\ tail'[p] = 0
      BY <1>0, <2>1, <2>2, <2>3, <2>5, <2>7 DEF Pinned
    <2> QED
      BY Zenon, <2>4, <2>6, <2>7
  <1>5. ASSUME NEW p \in Procs, install(p) PROVE Pinned'
    <2> DEFINE t == tail[p] + 1
    <2>1. /\ \A q \in Procs : q # p => pc[q] \notin CommitPC \union RecoverPC
          /\ pc[p] = "install"
      BY Zenon, <1>5, WorkerAlone DEF install
    <2>2. t \in 1..Len(lh) /\ lh[t] \in Blocks
      BY Zenon, <2>1, LoopIndex
    <2>3. /\ lh' = lh /\ pins' = [pins EXCEPT ![lh[t]] = @ - 1]
          /\ Advance(p, "clear")
      BY Zenon, <1>5 DEF install, install_trans, bunpin, logvars
    <2>4. \A i \in 1..Len(lh) : pins'[lh[i]] = IF i <= t THEN 0 ELSE 1
      BY <1>0, <2>1, <2>2, <2>3 DEF Pinned, Data, Unique, Injective
    <2>5. \A b \in Blocks : b \notin LogBlocks => pins'[b] = 0
      BY <1>0, <2>2, <2>3, SMTT(30) DEF Pinned, LogBlocks
    <2>6. CASE t < Len(lh) /\ tail' = [tail EXCEPT ![p] = t] /\ pc' = pc
      <3>1. \A b \in Blocks : b \notin LogBlocks' => pins'[b] = 0
        BY <2>3, <2>5, Zenon DEF LogBlocks
      <3>2. \A q \in Procs : pc'[q] \notin {"clear"} \union RecoverPC
        BY <2>1, <2>6, Zenon
      <3>3. \A q \in Procs : pc'[q] = "install" => q = p /\ tail'[q] = t
        BY <1>0, <2>1, <2>6, Zenon
      <3>4. pc'[p] \in InstallPC
        BY <2>1, <2>6, Zenon
      <3>5. \A q \in Procs : pc'[q] = "install" =>
                \A i \in 1..Len(lh)' : pins'[lh'[i]] = IF i <= tail'[q] THEN 0 ELSE 1
        BY <2>3, <2>4, <3>3, Zenon
      <3> QED
        BY <3>1, <3>2, <3>4, <3>5, Zenon DEF Pinned
    <2>7. CASE t = Len(lh) /\ pc' = [pc EXCEPT ![p] = "clear"]
      <3>1. \A b \in Blocks : pins'[b] = 0
        BY <1>0, <2>4, <2>5, <2>7 DEF LogBlocks
      <3> QED
        BY Zenon, <1>0, <2>1, <2>3, <2>7, <3>1 DEF Pinned
    <2> QED
      BY <1>0, <2>2, <2>3, <2>6, <2>7 DEF Advance
  <1>6. ASSUME NEW p \in Procs, recover_install(p) PROVE Pinned'
    <2>1. /\ \A q \in Procs : q # p => pc[q] \notin CommitPC \union RecoverPC
          /\ pc[p] = "recover_install" /\ UNCHANGED <<lh, pins>>
      BY Zenon, <1>6, WorkerAlone DEF recover_install, install_trans, logvars
    <2>2. pc' = pc \/ pc' = [pc EXCEPT ![p] = "recover_clear"]
      BY Zenon, <1>6 DEF recover_install, Advance
    <2> QED
      BY <1>0, <2>1, <2>2, SMTT(30) DEF Pinned, LogBlocks
  <1>7. ASSUME NEW p \in Procs, clear(p) PROVE Pinned'
    <2>1. /\ \A q \in Procs : q # p => pc[q] \notin CommitPC \union RecoverPC
          /\ pc[p] \in {"clear", "recover_clear"} /\ pins' = pins /\ lh' = <<>>
      BY Zenon, <1>7, WorkerAlone DEF clear
    <2>2. \A q \in Procs : pc'[q] \notin {"install", "clear"} \union RecoverPC
      BY Zenon, <1>0, <1>7, <2>1 DEF clear
    <2>3. LogBlocks' = {}
      BY <2>1 DEF LogBlocks
    <2> QED
      BY Zenon, <2>1, <2>2, <2>3 DEF Pinned
  <1>8. ASSUME NEW p \in Procs, end_commit(p) PROVE Pinned'
    <2>1. UNCHANGED <<lh, pins>>
      BY Zenon, <1>8 DEF end_commit
    <2>2. \A q \in Procs : pc[q] \notin InstallPC \union RecoverPC
      BY Zenon, <1>8, WorkerAlone DEF end_commit
    <2>3. \A q \in Procs : pc'[q] \notin InstallPC \union RecoverPC
      BY <1>0, <1>8, <2>2, SMTT(30) DEF end_commit, wakeup
    <2> QED
      BY <2>1, <2>2, <2>3 DEF Pinned, LogBlocks
  <1>9. ASSUME NEW p \in Procs, read_head(p) PROVE Pinned'
    <2>1. /\ \A q \in Procs : q # p => pc[q] \notin CommitPC \union RecoverPC
          /\ pc[p] = "read_head" /\ pins' = pins
      BY Zenon, <1>9, WorkerAlone DEF read_head
    <2>2. /\ \A q \in Procs : pc'[q] # "install"
          /\ pc'[p] \in RecoverPC
      BY <1>0, <1>9, <2>1, SMTT(30) DEF read_head
    <2> QED
      BY Zenon, <2>1, <2>2 DEF Pinned
  <1>10. ASSUME NEW p \in Procs, NEW b \in Blocks, NEW v \in Vals, Modify(p, b, v)
         PROVE  Pinned'
    BY Zenon, <1>10 DEF Modify, logvars, Pinned, LogBlocks
  <1>11. ASSUME NEW b \in Blocks, Recycle(b) PROVE Pinned'
    BY Zenon, <1>11 DEF Recycle, logvars, Pinned, LogBlocks
  <1>12. ASSUME NEW p \in Procs, Crash(p) PROVE Pinned'
    BY Zenon, <1>12 DEF Crash, Pinned
  <1> QED
    BY <1>1, <1>2, <1>3, <1>4, <1>5, <1>6, <1>7, <1>8, <1>9, <1>10, <1>11, <1>12, SMTT(30)
    DEF Next, commit, recover_from_log

LEMMA DirtyStep ==
  ASSUME IInv, Next
  PROVE  Dirty'
  <1> USE DEF IInv
  <1>0. /\ pc \in [Procs -> PC] /\ held \in [Procs -> Blocks \union {NoBlock}]
        /\ lh \in Seq(Blocks) /\ DOMAIN lh = 1..Len(lh)
        /\ cache \in [Blocks -> Vals] /\ disk \in [Blocks -> Vals]
    BY SMTT(30) DEF TypeOK, TypeDisk, TypeLog, TypeProc
  <1>1. ASSUME NEW p \in Procs,
  begin_op(p) \/ end_op(p) \/ write_log(p) \/ write_head(p) \/ end_commit(p)
        PROVE  Dirty'
    BY ZenonT(60), <1>1 DEF begin_op, end_op, write_log, write_head, end_commit,
                diskvars, logvars, opvars, Dirty, LogBlocks
  <1>2. ASSUME NEW p \in Procs, log_write(p), ~panicked PROVE Dirty'
    <2>1. CASE panicked'
      BY ZenonT(60), <1>2, <2>1, PanicEffect DEF Dirty, LogBlocks, diskvars, logvars, opvars
    <2>2. CASE ~panicked'
      <3>1. UNCHANGED <<cache, disk>>
        BY Zenon, <1>2 DEF log_write, diskvars
      <3>2. LogBlocks' = LogBlocks \union {held[p]} /\ held' = [held EXCEPT ![p] = NoBlock]
        BY Zenon, <1>2, <2>2, LogWriteEffect
      <3> QED
        BY Zenon, <1>0, <3>1, <3>2 DEF Dirty
    <2> QED
      BY <2>1, <2>2, SMTT(30)
  <1>3. ASSUME NEW p \in Procs, install(p) \/ recover_install(p) PROVE Dirty'
    <2>1. UNCHANGED <<lh, held>>
      BY <1>3, ZenonT(30) DEF install, recover_install, install_trans, logvars, opvars
    <2>2. PICK c \in Blocks, v \in Vals :
            disk' = [disk EXCEPT ![c] = v] /\ cache' = [cache EXCEPT ![c] = v]
      BY Zenon, <1>3, LoopIndex DEF install, recover_install, install_trans
    <2> QED
      BY <1>0, <2>1, <2>2, SMTT(30) DEF Dirty, LogBlocks
  <1>4. ASSUME NEW p \in Procs, clear(p) PROVE Dirty'
    <2>1. \A q \in Procs : held[q] = NoBlock
      BY <1>4, WorkerAlone, SMTT(30) DEF clear, CommitPC, RecoverPC
    <2>2. \A b \in Blocks : cache[b] = disk[b]
      BY <1>0, <1>4, <2>1, LogAssumption DEF clear, Dirty, LogBlocks, Data, DataPlaces, RecoverPC
    <2> QED
      BY Zenon, <1>4, <2>2 DEF clear, Dirty
  <1>5. ASSUME NEW p \in Procs, read_head(p) PROVE Dirty'
    <2>1. cache = disk /\ UNCHANGED <<cache, disk>>
      BY <1>5, SMTT(30) DEF read_head, Data, DataPlaces, RecoverPC, diskvars
    <2> QED
      BY Zenon, <2>1 DEF Dirty
  <1>6. ASSUME NEW p \in Procs, NEW b \in Blocks, NEW v \in Vals, Modify(p, b, v)
        PROVE  Dirty'
    BY <1>0, <1>6, LogAssumption, SMTT(30) DEF Modify, diskvars, logvars, Dirty, LogBlocks
  <1>7. ASSUME NEW b \in Blocks, Recycle(b) PROVE Dirty'
    BY Zenon, <1>7, RecycleHarmless DEF Recycle, diskvars, logvars, opvars, Dirty, LogBlocks
  <1>8. ASSUME NEW p \in Procs, Crash(p) PROVE Dirty'
    BY Zenon, <1>8 DEF Crash, diskvars, Dirty
  <1> QED
    BY Zenon, <1>1, <1>2, <1>3, <1>4, <1>5, <1>6, <1>7, <1>8 DEF Next, commit, recover_from_log

LEMMA IInvStep == IInv /\ [Next]_vars => IInv'
  <1>1. ASSUME IInv, Next PROVE IInv'
    BY Zenon, <1>1, TypeStep, ControlStep, ReservedStep, DataStep, PinnedStep, DirtyStep DEF IInv
  <1>2. ASSUME IInv, UNCHANGED vars PROVE IInv'
    <2>1. /\ UNCHANGED <<disk, logblk, head, cache, pins, lh, outstanding, committing>>
          /\ UNCHANGED <<pc, tail, held, wrote, panicked>>
      BY Zenon, <1>2 DEF vars, diskvars, logvars, opvars
    <2>2. TypeOK'
      BY Zenon, <1>2, <2>1 DEF IInv, TypeOK, TypeDisk, TypeLog, TypeFlags, TypeProc
    <2>3. Control'
      BY Zenon, <1>2, <2>1 DEF IInv, Control, OpsCounted, Ops, Exclusive, Booted
    <2>4. Reserved'
      <3>1. Ops' = Ops /\ Unused' = Unused /\ LogBlocks' = LogBlocks
        BY <2>1, Zenon DEF Unused, Ops, LogBlocks
      <3> QED
        BY <1>2, <2>1, <3>1, Zenon DEF IInv, Reserved
    <2>5. Data'
      <3>0. Unique'
        BY <1>2, <2>1, SMT DEF IInv, Data, Unique, Injective
      <3>1. NotCommitted'
        BY <1>2, <2>1, Zenon DEF IInv, Data, NotCommitted, Booted
      <3>2. LogPlaces'
        BY <1>2, <2>1, Zenon DEF IInv, Data, LogPlaces
      <3>3. DataPlaces'
        BY <1>2, <2>1, Zenon DEF IInv, Data, DataPlaces
      <3> QED
        BY <3>0, <3>1, <3>2, <3>3, Zenon DEF Data
    <2>6. Pinned' /\ Dirty'
      BY <1>2, <2>1 DEF IInv, Pinned, Dirty, LogBlocks
    <2> QED
      BY Zenon, <2>2, <2>3, <2>4, <2>5, <2>6 DEF IInv
  <1> QED
    BY Zenon, <1>1, <1>2

\* The inductive invariant of log.c.
THEOREM Invariance == Spec => []IInv
  BY InitInv, IInvStep, PTL DEF Spec

\* Every variable of the log, the disk and the processes keeps its type.
THEOREM TypeCorrect == Spec => []TypeOK
  <1>1. IInv => TypeOK
    BY Zenon DEF IInv
  <1> QED
    BY <1>1, Invariance, PTL

\* A block whose cached copy differs from its home location is pinned or
\* locked: bget never recycles the only copy of a logged write.
THEOREM DirtyAlwaysPinned == Spec => []DirtyIsPinned
  <1>1. IInv => DirtyIsPinned
    <2> SUFFICES ASSUME IInv, NEW b \in Blocks, cache[b] # disk[b],
                        \A p \in Procs : held[p] # b
                 PROVE  pins[b] > 0
      BY Zenon DEF DirtyIsPinned
    <2> USE DEF IInv
    <2>1. PICK i \in 1..Len(lh) : lh[i] = b
      BY DEF Dirty, LogBlocks, TypeOK, TypeLog
    <2>2. b \in LogBlocks
      BY Zenon DEF Dirty
    <2>3. CASE \A p \in Procs : pc[p] \notin InstallPC \union RecoverPC
      BY <2>2, <2>3 DEF Pinned
    <2>4. ASSUME NEW p \in Procs, pc[p] \in InstallPC \union RecoverPC
          PROVE  pins[b] > 0
      BY <2>1, <2>4 DEF InstallPC, RecoverPC, Pinned, Data, DataPlaces, TypeOK, TypeProc
    <2> QED
      BY Zenon, <2>3, <2>4
  <1> QED
    BY <1>1, Invariance, PTL

\* A process asleep in begin_op always has a commit or an operation left
\* whose end will wake it.
THEOREM SleeperAlwaysHasWaker == Spec => []SleeperHasWaker
  <1>1. Init => SleeperHasWaker
    BY Zenon DEF Init, SleeperHasWaker
  <1>2. IInv /\ SleeperHasWaker /\ [Next]_vars => SleeperHasWaker'
    <2> SUFFICES ASSUME IInv, SleeperHasWaker, [Next]_vars PROVE SleeperHasWaker'
      OBVIOUS
    <2>0. pc \in [Procs -> PC] /\ outstanding \in Nat
      BY Zenon DEF IInv, TypeOK, TypeLog, TypeProc
    <2>1. ASSUME NEW p \in Procs, begin_op(p) PROVE SleeperHasWaker'
      <3>1. CASE ~MustWait
        BY <2>0, <2>1, <3>1 DEF begin_op, SleeperHasWaker
      <3>2. CASE MustWait
        <4>1. committing \/ outstanding > 0
          <5> SUFFICES ASSUME ~committing, outstanding = 0 PROVE FALSE
            BY <2>0
          <5>1. lh = <<>>
            BY Zenon, <2>1 DEF begin_op, IInv, Control, Exclusive
          <5> QED
            BY <3>2, <5>1, LogAssumption DEF MustWait
        <4> QED
          BY Zenon, <2>1, <3>2, <4>1 DEF begin_op, SleeperHasWaker
      <3> QED
        BY Zenon, <3>1, <3>2
    <2>2. ASSUME NEW p \in Procs, end_op(p) \/ end_commit(p) PROVE SleeperHasWaker'
      BY Zenon, <2>0, <2>2 DEF end_op, end_commit, wakeup, SleeperHasWaker
    <2>3. ASSUME NEW p \in Procs, log_write(p) \/ write_log(p) \/ write_head(p) \/ install(p)
                   \/ recover_install(p) \/ clear(p) \/ read_head(p)
          PROVE  SleeperHasWaker'
      <3>1. UNCHANGED <<committing, outstanding>>
        BY <2>3, ZenonT(30)
           DEF log_write, write_log, write_head, install, recover_install, install_trans,
                    clear, read_head, logvars
      <3>2. \A q \in Procs : pc'[q] = "sleep" => pc[q] = "sleep"
        BY <2>0, <2>3, ZenonT(30)
           DEF log_write, write_log, write_head, install, recover_install, Advance,
                          clear, read_head
      <3> QED
        BY <3>1, <3>2, SMTT(30) DEF SleeperHasWaker
    <2>4. ASSUME NEW p \in Procs, NEW b \in Blocks, NEW v \in Vals, Modify(p, b, v)
          PROVE  SleeperHasWaker'
      BY <2>4, ZenonT(30) DEF Modify, logvars, SleeperHasWaker
    <2>5. ASSUME NEW b \in Blocks, Recycle(b) PROVE SleeperHasWaker'
      BY <2>5, ZenonT(30) DEF Recycle, logvars, SleeperHasWaker
    <2>6. ASSUME NEW p \in Procs, Crash(p) PROVE SleeperHasWaker'
      BY Zenon, <2>6 DEF Crash, SleeperHasWaker
    <2>7. CASE UNCHANGED vars
      BY Zenon, <2>7 DEF vars, logvars, SleeperHasWaker
    <2> QED
      BY Zenon, <2>1, <2>2, <2>3, <2>4, <2>5, <2>6, <2>7 DEF Next, commit, recover_from_log
  <1> QED
    BY <1>1, <1>2, Invariance, PTL DEF Spec

\* What the geometry of the log must leave an operation: log_write panics
\* one slot before the on-disk log is full, and even for an absorbed write.
LogHasRoom == OpBlocks < MAXOPBLOCKS /\ OpBlocks + LOGSIZE + 1 < MAXOPBLOCKS + LogSize

\* If no operation writes more than LogHasRoom allows, begin_op's
\* reservation keeps every transaction inside the log and no panic fires.
THEOREM NeverPanics == ASSUME LogHasRoom PROVE Spec => []NoPanic
  <1>1. Init => NoPanic
    BY Zenon DEF Init, NoPanic
  <1>2. IInv /\ NoPanic /\ [Next]_vars => NoPanic'
    <2> SUFFICES ASSUME IInv, NoPanic, [Next]_vars PROVE NoPanic'
      OBVIOUS
    <2>1. ASSUME NEW p \in Procs, log_write(p) PROVE NoPanic'
      <3>1. pc[p] = "op" /\ held[p] # NoBlock /\ outstanding >= 1
        BY <2>1, OpCounted, SMTT(30) DEF log_write, IInv, Control, Exclusive
      <3> DEFINE c == Cardinality(wrote[p])
      <3>2. c \in Nat /\ c <= OpBlocks
        BY Zenon, FS_CardinalityType DEF IInv, Reserved
      <3>3. \A i \in (c + 1)..MAXOPBLOCKS : <<p, i>> \in Unused
        BY <3>1, <3>2, LogAssumption DEF Unused, Ops
      <3>4. {p} \X ((c + 1)..MAXOPBLOCKS) \in SUBSET Unused
        BY <3>3
      <3>5. /\ IsFiniteSet((c + 1)..MAXOPBLOCKS)
            /\ Cardinality((c + 1)..MAXOPBLOCKS) = MAXOPBLOCKS - c
        <4>1. c + 1 \in Int /\ MAXOPBLOCKS \in Int /\ c + 1 <= MAXOPBLOCKS
          BY <3>2, LogAssumption DEF LogHasRoom
        <4> QED
          BY <3>2, <4>1, FS_Interval
      <3>6. Cardinality({p} \X ((c + 1)..MAXOPBLOCKS)) = MAXOPBLOCKS - c
        <4>1. IsFiniteSet({p}) /\ Cardinality({p}) = 1
          BY FS_Singleton, ZenonT(30)
        <4>2. Cardinality({p} \X ((c + 1)..MAXOPBLOCKS)) = 1 * (MAXOPBLOCKS - c)
          <5> DEFINE S == (c + 1)..MAXOPBLOCKS
          <5>1. IsFiniteSet(S) /\ Cardinality(S) = MAXOPBLOCKS - c
            BY Zenon, <3>5
          <5> HIDE DEF S, c
          <5>2. Cardinality({p} \X S) = 1 * (MAXOPBLOCKS - c)
            BY ONLY <4>1, <5>1, FS_Product
          <5> QED
            BY Zenon, <5>2 DEF S
        <4> QED
          BY <3>2, <4>2, LogAssumption
      <3>7. Cardinality(Unused) >= MAXOPBLOCKS - c /\ Cardinality(Unused) \in Nat
        BY <3>2, <3>4, <3>6, UnusedFinite, FS_Subset, LogAssumption
      <3>8. Len(lh) + Cardinality(Unused) <= LOGSIZE /\ Len(lh) \in Nat
        BY DEF IInv, Reserved, TypeOK, TypeLog
      <3>9. Len(lh) < LOGSIZE /\ Len(lh) < LogSize - 1
        BY <3>2, <3>7, <3>8, LogAssumption DEF LogHasRoom
      <3> QED
        <4>1. ~(Len(lh) >= LOGSIZE \/ Len(lh) >= LogSize - 1 \/ outstanding < 1)
          BY <3>1, <3>8, <3>9, LogAssumption, SMTT(30) DEF IInv, TypeOK, TypeLog
        <4> QED
          BY Zenon, <2>1, <4>1 DEF log_write, NoPanic
    <2>2. ASSUME NEW p \in Procs, end_op(p) PROVE NoPanic'
      <3>1. ~committing
        BY <2>2, OpAlone, SMTT(30) DEF end_op, IInv, Control, Exclusive
      <3> QED
        BY <2>2, <3>1, SMTT(30) DEF end_op, NoPanic
    <2>3. ASSUME NEW p \in Procs, begin_op(p) \/ commit(p) \/ recover_from_log(p) PROVE NoPanic'
      BY <2>3, ZenonT(30)
         DEF begin_op, commit, recover_from_log, write_log, write_head, install, install_trans,
                  recover_install, clear, end_commit, read_head, NoPanic
    <2>4. ASSUME NEW p \in Procs, NEW b \in Blocks, NEW v \in Vals, Modify(p, b, v)
          PROVE  NoPanic'
      BY Zenon, <2>4 DEF Modify, NoPanic
    <2>5. ASSUME NEW b \in Blocks, Recycle(b) PROVE NoPanic'
      BY Zenon, <2>5 DEF Recycle, NoPanic
    <2>6. ASSUME NEW p \in Procs, Crash(p) PROVE NoPanic'
      BY Zenon, <2>6 DEF Crash, NoPanic
    <2>7. CASE UNCHANGED vars
      BY Zenon, <2>7 DEF vars, NoPanic
    <2> QED
      BY Zenon, <2>1, <2>2, <2>3, <2>4, <2>5, <2>6, <2>7 DEF Next
  <1> QED
    BY <1>1, <1>2, Invariance, PTL DEF Spec
-----------------------------------------------------------------------------
\* An empty header leaves the disk as it is.
LEMMA OverlayEmpty ==
  ASSUME NEW d \in [Blocks -> Vals], NEW l
  PROVE  Overlay(d, l, <<>>) = d
  <1>1. Len(<<>>) = 0
    OBVIOUS
  <1> QED
    BY <1>1 DEF Overlay

\* The blocks a header names come from the log, the others from the disk.
Merges(o, d, l, h) ==
    /\ \A i \in 1..Len(h) : o[h[i]] = l[i]
    /\ \A b \in Blocks : (\A i \in 1..Len(h) : h[i] # b) => o[b] = d[b]

LEMMA OverlayNamed ==
  ASSUME NEW d, NEW l, NEW h \in Seq(Blocks), Injective(h)
  PROVE  Merges(Overlay(d, l, h), d, l, h)
  <1>1. Len(h) \in Nat
    OBVIOUS
  <1>2. ASSUME NEW i \in 1..Len(h) PROVE Overlay(d, l, h)[h[i]] = l[i]
    <2> DEFINE P(k) == h[k] = h[i] /\ \A j \in (k+1)..Len(h) : h[j] # h[i]
    <2>1. P(i)
      BY <1>1 DEF Injective
    <2>2. \A k \in 1..Len(h) : P(k) => k = i
      BY Zenon DEF Injective
    <2>3. (CHOOSE k \in 1..Len(h) : P(k)) = i
      BY Zenon, <2>1, <2>2
    <2>4. h[i] \in Blocks
      BY <1>1
    <2> QED
      BY <2>3, <2>4, ZenonT(30) DEF Overlay
  <1>3. ASSUME NEW b \in Blocks, \A i \in 1..Len(h) : h[i] # b
        PROVE  Overlay(d, l, h)[b] = d[b]
    BY Zenon, <1>3 DEF Overlay
  <1> QED
    BY Zenon, <1>2, <1>3 DEF Merges

\* A disk that agrees with the log on the named blocks and with d elsewhere
\* is the overlay.
LEMMA OverlayIs ==
  ASSUME NEW d, NEW l, NEW h \in Seq(Blocks), Injective(h), NEW e \in [Blocks -> Vals],
         Merges(e, d, l, h)
  PROVE  Overlay(d, l, h) = e
  <1>1. \A b \in Blocks : Overlay(d, l, h)[b] = e[b]
    <2> TAKE b \in Blocks
    <2>1. Merges(Overlay(d, l, h), d, l, h)
      BY OverlayNamed, Zenon
    <2>2. CASE \A i \in 1..Len(h) : h[i] # b
      <3>1. Overlay(d, l, h)[b] = d[b]
        BY <2>1, <2>2, Zenon DEF Merges
      <3>2. e[b] = d[b]
        BY <2>2, Zenon DEF Merges
      <3> QED
        BY <3>1, <3>2, Zenon
    <2>3. CASE \E i \in 1..Len(h) : h[i] = b
      <3>0. PICK i \in 1..Len(h) : h[i] = b
        BY <2>3, Zenon
      <3>1. Overlay(d, l, h)[h[i]] = l[i]
        BY <2>1, Zenon DEF Merges
      <3>2. e[h[i]] = l[i]
        BY Zenon DEF Merges
      <3> QED
        BY <3>0, <3>1, <3>2, Zenon
    <2>4. (\A i \in 1..Len(h) : h[i] # b) \/ \E i \in 1..Len(h) : h[i] = b
      BY ONLY Zenon
    <2> QED
      BY <2>2, <2>3, <2>4, Zenon
  <1>2. Overlay(d, l, h) = [b \in Blocks |-> Overlay(d, l, h)[b]]
    BY ONLY SMT DEF Overlay
  <1> QED
    BY Zenon, <1>1, <1>2

\* Once the last end_op of a group has returned, what the file system sees
\* is what a crash would leave.
THEOREM QuiescentAlwaysDurable == Spec => []QuiescentDurable
  <1>1. IInv => QuiescentDurable
    <2> SUFFICES ASSUME IInv, Booted, outstanding = 0, ~committing PROVE Durable = cache
      BY Zenon DEF QuiescentDurable
    <2> USE DEF IInv
    <2>1. lh = <<>> /\ \A p \in Procs : pc[p] \notin CommitPC
      BY Zenon DEF Control, Exclusive
    <2>2. head = <<>>
      BY Zenon, <2>1 DEF Data, NotCommitted, InstallPC, CommitPC
    <2>3. \A p \in Procs : held[p] = NoBlock
      BY Zenon, OpCounted DEF Control, Exclusive
    <2>4. \A b \in Blocks : cache[b] = disk[b]
      BY <2>1, <2>3, LogAssumption DEF Dirty, LogBlocks
    <2> QED
      BY <2>2, <2>4, OverlayEmpty DEF Durable, TypeOK, TypeDisk
  <1> QED
    BY <1>1, Invariance, PTL

\* Every step of log.c is a step of AtomicDisk or leaves it unchanged.
LEMMA AtomicStep == IInv /\ [Next]_vars => [Atomic!Next]_(Atomic!vars)
  <1> SUFFICES ASSUME IInv, [Next]_vars PROVE Atomic!Next \/ UNCHANGED Atomic!vars
    OBVIOUS
  <1> DEFINE A == {p \in Procs : pc[p] = "op"}
  <1>0. /\ pc \in [Procs -> PC] /\ lh \in Seq(Blocks) /\ head \in Seq(Blocks) /\ Len(lh) \in Nat
        /\ cache \in [Blocks -> Vals] /\ disk \in [Blocks -> Vals]
        /\ Injective(lh) /\ Injective(head)
    BY DEF IInv, TypeOK, TypeDisk, TypeLog, TypeProc, Data, Unique
  <1> USE DEF PC, CommitPC, RecoverPC
  <1>1. ASSUME NEW p \in Procs, begin_op(p) PROVE Atomic!Next \/ UNCHANGED Atomic!vars
    <2>1. Durable' = Durable /\ Current' = Current
      BY Zenon, <1>0, <1>1 DEF begin_op, diskvars, Durable, Current, Booted
    <2>2. A' = A \/ A' = A \union {p}
      BY Zenon, <1>0, <1>1 DEF begin_op
    <2> QED
      BY Zenon, <2>1, <2>2 DEF Atomic!Next, Atomic!Begin, Atomic!vars
  <1>2. ASSUME NEW p \in Procs, log_write(p) PROVE Atomic!Next \/ UNCHANGED Atomic!vars
    BY Zenon, <1>2 DEF log_write, diskvars, Durable, Current, Booted, Atomic!vars
  <1>3. ASSUME NEW p \in Procs, end_op(p) PROVE Atomic!Next \/ UNCHANGED Atomic!vars
    <2>1. A' = A \ {p}
      BY Zenon, <1>0, <1>3 DEF end_op, wakeup
    <2>2. Booted /\ Booted'
      BY Zenon, <1>0, <1>3, OpAlone DEF end_op, wakeup, Booted
    <2>3. Durable' = Durable /\ Current' = Current
      BY Zenon, <1>3, <2>2 DEF end_op, diskvars, Durable, Current
    <2> QED
      BY Zenon, <2>1, <2>3 DEF Atomic!Next, Atomic!End
  <1>4. ASSUME NEW p \in Procs, write_log(p) PROVE Atomic!Next \/ UNCHANGED Atomic!vars
    <2>1. \A q \in Procs : q # p => pc[q] \notin CommitPC \union RecoverPC
      BY Zenon, <1>4, WorkerAlone DEF write_log
    <2>2. head = <<>> /\ Booted /\ Booted' /\ A' = A
      BY Zenon, <1>0, <1>4, <2>1
      DEF write_log, Advance, IInv, Data, NotCommitted, InstallPC, Booted
    <2>3. Durable' = Durable /\ Current' = Current
      BY Zenon, <1>0, <1>4, <2>2, OverlayEmpty DEF write_log, Durable, Current
    <2> QED
      BY Zenon, <2>2, <2>3 DEF Atomic!vars
  <1>5. ASSUME NEW p \in Procs, write_head(p) PROVE Atomic!Next \/ UNCHANGED Atomic!vars
    <2>1. \A q \in Procs : q # p => pc[q] \notin CommitPC \union RecoverPC
      BY Zenon, <1>5, WorkerAlone DEF write_head
    <2>2. Booted /\ Booted' /\ A = {} /\ A' = {}
      BY Zenon, <1>0, <1>5, <2>1, OpAlone DEF write_head, Booted
    <2>3. \A i \in 1..Len(lh) : cache[lh[i]] = logblk[i]
      BY Zenon, <1>5 DEF write_head, IInv, Data, DataPlaces
    <2>4. \A b \in Blocks : (\A i \in 1..Len(lh) : lh[i] # b) => cache[b] = disk[b]
      BY <1>0, <1>5, LogAssumption, WorkerAlone DEF write_head, IInv, Dirty, LogBlocks
    <2>5. Durable' = cache
      <3>1. Overlay(disk, logblk, lh) = cache
        <4>1. Merges(cache, disk, logblk, lh)
          BY <2>3, <2>4, Zenon DEF Merges
        <4> QED
          BY <1>0, <4>1, OverlayIs, Zenon
      <3> QED
        BY Zenon, <1>5, <3>1 DEF write_head, Durable
    <2>6. Current = cache /\ Current' = cache
      BY Zenon, <1>5, <2>2 DEF write_head, Current
    <2> QED
      BY Zenon, <2>2, <2>5, <2>6 DEF Atomic!Next, Atomic!Commit
  <1>6. ASSUME NEW p \in Procs, install(p) \/ recover_install(p)
        PROVE  Atomic!Next \/ UNCHANGED Atomic!vars
    <2> DEFINE t == tail[p] + 1
    <2>1. /\ \A q \in Procs : q # p => pc[q] \notin CommitPC \union RecoverPC
          /\ pc[p] \in {"install", "recover_install"}
      BY <1>6, WorkerAlone, ZenonT(30) DEF install, recover_install
    <2>2. t \in 1..Len(lh) /\ lh[t] \in Blocks /\ lh = head
      BY Zenon, <2>1, LoopIndex DEF IInv, Data, LogPlaces
    <2>3. /\ disk' = [disk EXCEPT ![lh[t]] = logblk[t]]
          /\ cache' = [cache EXCEPT ![lh[t]] = logblk[t]]
          /\ UNCHANGED <<logblk, head>>
      BY Zenon, <1>6 DEF install, recover_install, install_trans
    <2>4. A' = A /\ Booted' = Booted
      BY <1>0, <1>6, <2>1, ZenonT(30) DEF install, recover_install, Advance, Booted
    <2>5. Durable' = Durable
      <3>1. \A b \in Blocks : Durable'[b] = Durable[b]
        <4> SUFFICES ASSUME NEW b \in Blocks PROVE Durable'[b] = Durable[b]
          OBVIOUS
        <4>1. CASE \E i \in 1..Len(head) : head[i] = b
          <5>1. PICK i \in 1..Len(head) : head[i] = b
            BY Zenon, <4>1
          <5>2. Durable[b] = logblk[i] /\ Durable'[b] = logblk[i]
            <6>1. /\ Overlay(disk, logblk, head)[head[i]] = logblk[i]
                  /\ Overlay(disk', logblk, head)[head[i]] = logblk[i]
              <7>1. /\ Merges(Overlay(disk, logblk, head), disk, logblk, head)
                    /\ Merges(Overlay(disk', logblk, head), disk', logblk, head)
                BY <1>0, OverlayNamed, Zenon
              <7> QED
                BY <7>1, Zenon DEF Merges
            <6> QED
              BY Zenon, <2>3, <5>1, <6>1 DEF Durable
          <5> QED
            BY Zenon, <5>2
        <4>2. CASE \A i \in 1..Len(head) : head[i] # b
          <5>1. disk'[b] = disk[b]
            BY Zenon, <1>0, <2>2, <2>3, <4>2
          <5>2. /\ Overlay(disk, logblk, head)[b] = disk[b]
                /\ Overlay(disk', logblk, head)[b] = disk'[b]
            <6>1. /\ Merges(Overlay(disk, logblk, head), disk, logblk, head)
                  /\ Merges(Overlay(disk', logblk, head), disk', logblk, head)
              BY <1>0, OverlayNamed, Zenon
            <6> QED
              BY <4>2, <6>1, Zenon DEF Merges
          <5> QED
            BY Zenon, <2>3, <5>1, <5>2 DEF Durable
        <4> QED
          BY Zenon, <4>1, <4>2
      <3> QED
        BY <2>3, <3>1, ZenonT(30) DEF Durable, Overlay
    <2>6. pc[p] = "install" => cache' = cache
      BY <1>0, <2>2, <2>3 DEF IInv, Data, DataPlaces
    <2>7. Current' = Current
      BY Zenon, <2>1, <2>4, <2>5, <2>6 DEF Current, Booted
    <2> QED
      BY Zenon, <2>4, <2>5, <2>7 DEF Atomic!vars
  <1>7. ASSUME NEW p \in Procs, clear(p) PROVE Atomic!Next \/ UNCHANGED Atomic!vars
    <2>1. /\ \A q \in Procs : q # p => pc[q] \notin CommitPC \union RecoverPC
          /\ \A q \in Procs : held[q] = NoBlock
          /\ pc[p] \in {"clear", "recover_clear"}
      BY Zenon, <1>7, WorkerAlone DEF clear
    <2>2. lh = head /\ \A i \in 1..Len(lh) : disk[lh[i]] = logblk[i]
      BY Zenon, <2>1 DEF IInv, Data, LogPlaces, DataPlaces
    <2>3. Durable = disk
      <3>1. Merges(disk, disk, logblk, head)
        BY <2>2, Zenon DEF Merges
      <3> QED
        BY <1>0, <3>1, OverlayIs, Zenon DEF Durable
    <2>4. Durable' = disk /\ cache' = cache
      BY Zenon, <1>0, <1>7, OverlayEmpty DEF clear, Durable
    <2>5. \A b \in Blocks : cache[b] = disk[b]
      BY <1>0, <2>1, <2>2, LogAssumption DEF IInv, Dirty, LogBlocks, Data, DataPlaces
    <2>6. cache = disk
      BY <1>0, <2>5
    <2>7. Current = disk /\ Current' = disk
      BY Zenon, <2>3, <2>4, <2>6 DEF Current
    <2>8. A' = A
      BY Zenon, <1>0, <1>7 DEF clear
    <2> QED
      BY Zenon, <2>3, <2>4, <2>7, <2>8 DEF Atomic!vars
  <1>8. ASSUME NEW p \in Procs, end_commit(p) \/ read_head(p)
        PROVE  Atomic!Next \/ UNCHANGED Atomic!vars
    <2>1. UNCHANGED <<disk, logblk, head, cache>>
      BY Zenon, <1>8 DEF end_commit, read_head, diskvars
    <2>2. A' = A /\ Booted' = Booted
      BY <1>0, <1>8, SMTT(60) DEF end_commit, wakeup, read_head, Booted
    <2> QED
      BY Zenon, <2>1, <2>2 DEF Durable, Current, Atomic!vars
  <1>9. ASSUME NEW p \in Procs, NEW b \in Blocks, NEW v \in Vals, Modify(p, b, v)
        PROVE  Atomic!Next \/ UNCHANGED Atomic!vars
    <2>1. Booted /\ Booted'
      BY Zenon, <1>9, OpAlone DEF Modify, Booted
    <2>2. /\ p \in A /\ A' = A /\ Durable' = Durable
          /\ Current = cache /\ Current' = [cache EXCEPT ![b] = v]
      BY Zenon, <1>9, <2>1 DEF Modify, diskvars, Durable, Current
    <2> QED
      BY <2>2, ZenonT(30) DEF Atomic!Next, Atomic!Write
  <1>10. ASSUME NEW b \in Blocks, Recycle(b) PROVE Atomic!Next \/ UNCHANGED Atomic!vars
    BY <1>10, RecycleHarmless, ZenonT(30)
       DEF Recycle, diskvars, Durable, Current, Booted, Atomic!vars
  <1>11. ASSUME NEW p \in Procs, Crash(p) PROVE Atomic!Next \/ UNCHANGED Atomic!vars
    <2>1. ~Booted' /\ A' = {} /\ Durable' = Durable
      BY Zenon, <1>11 DEF Crash, diskvars, Booted, Durable
    <2> QED
      BY Zenon, <2>1 DEF Current, Atomic!Next, Atomic!Crash
  <1>12. CASE UNCHANGED vars
    BY Zenon, <1>12 DEF vars, diskvars, Durable, Current, Booted, Atomic!vars
  <1> QED
    BY <1>1, <1>2, <1>3, <1>4, <1>5, <1>6, <1>7, <1>8, <1>9, <1>10, <1>11, <1>12, SMTT(30)
    DEF Next, commit, recover_from_log

\* Crash atomicity for every geometry of the log: log.c, with its
\* absorption, group commit, crashes and repeated recoveries, implements
\* the disk whose groups of operations are atomic.
THEOREM CrashAtomicity == Spec => AtomicSpec
  <1>1. Init => Atomic!Init
    <2> SUFFICES ASSUME Init PROVE Atomic!Init
      OBVIOUS
    <2>1. Durable = disk /\ Current = disk
      BY Zenon, OverlayEmpty DEF Init, Durable, Current, Booted, RecoverPC
    <2> QED
      BY Zenon, <2>1 DEF Init, Atomic!Init
  <1> QED
    BY <1>1, AtomicStep, Invariance, PTL DEF Spec, AtomicSpec, Atomic!Spec
=============================================================================
