----------------------------- MODULE PipeProofs -----------------------------
(***************************************************************************)
(* The inductive invariant of Pipe, and the proofs that for any number of  *)
(* processes and any PIPESIZE the page is freed exactly when nobody can    *)
(* use it any more, and that the ring buffer is the queue of ByteStream,   *)
(* also when the unsigned counters wrap.                                   *)
(***************************************************************************)
EXTENDS Pipe, SequenceTheorems, TLAPS

\* The places of pipewrite and piperead that have pi->lock, and that have not.
WriteLocked == {"writing", "wsleep"}
ReadLocked == {"testing", "rsleep", "reading", "read"}
Closing == {"closew", "closer"}
Places == {"user", "pipewrite", "piperead"} \union WriteLocked \union ReadLocked \union Closing

TypeOK ==
    /\ readopen \in BOOLEAN /\ writeopen \in BOOLEAN /\ freed \in BOOLEAN
    /\ lock \in Procs \union {None}
    /\ holds \in [Procs -> SUBSET {"read", "write"}]
    /\ pc \in [Procs -> Places]
    /\ chan \in [Procs -> {None, "nread", "nwrite"}]

\* A process is inside with the lock, asleep without it, and has the end it
\* uses open: its file cannot be closed under it.
ProcOK(p) ==
    /\ lock = p <=> pc[p] \in WriteLocked \union ReadLocked
    /\ chan[p] # None => pc[p] \in {"pipewrite", "piperead"}
    /\ pc[p] \in {"pipewrite"} \union WriteLocked => "write" \in holds[p]
    /\ pc[p] \in {"piperead"} \union ReadLocked => "read" \in holds[p]

\* An end is open while a process has it or the last one is about to tell
\* pipeclose, which happens once.
ReadEndOK ==
    /\ readopen <=> \E p \in Procs : "read" \in holds[p] \/ pc[p] = "closer"
    /\ \A p, q \in Procs :
          pc[p] = "closer" => "read" \notin holds[q] /\ (pc[q] = "closer" => p = q)
WriteEndOK ==
    /\ writeopen <=> \E p \in Procs : "write" \in holds[p] \/ pc[p] = "closew"
    /\ \A p, q \in Procs :
          pc[p] = "closew" => "write" \notin holds[q] /\ (pc[q] = "closew" => p = q)

\* The ring buffer has at most PIPESIZE bytes.
RingOK ==
    /\ data \in [0..(PIPESIZE - 1) -> Bytes]
    /\ nread \in 0..(CtrMod - 1) /\ nwrite \in 0..(CtrMod - 1)
    /\ Used <= PIPESIZE

IInv ==
    /\ TypeOK /\ RingOK
    /\ \A p \in Procs : ProcOK(p)
    /\ ReadEndOK /\ WriteEndOK /\ (freed <=> ~readopen /\ ~writeopen)
-----------------------------------------------------------------------------
\* Arithmetic of the counters: pi->nread and pi->nwrite run modulo CtrMod, the
\* index of a byte modulo PIPESIZE.
LEMMA ModRange ==
  ASSUME NEW a \in Int, NEW M \in Nat \ {0}
  PROVE  a % M \in 0..(M - 1)
  BY SMT

LEMMA DivMod ==
  ASSUME NEW a \in Int, NEW M \in Nat \ {0}
  PROVE  \E q \in Int : a = M * q + (a % M)
  <1>1. a \div M \in Int /\ a = M * (a \div M) + (a % M)
    BY SMT
  <1> QED
    BY <1>1, Zenon

LEMMA ModNear ==
  ASSUME NEW a \in Int, NEW M \in Nat \ {0}, -M <= a, a < M + M
  PROVE  /\ a < 0 => a % M = a + M
         /\ 0 <= a /\ a < M => a % M = a
         /\ M <= a => a % M = a - M
  BY SMT

LEMMA NoMultipleBetween ==
  ASSUME NEW M \in Nat \ {0}, NEW q \in Int, 0 < M * q, M * q < M
  PROVE  FALSE
  BY SMT

LEMMA ModPeriod ==
  ASSUME NEW a \in Int, NEW M \in Nat \ {0}, NEW q \in Int
  PROVE  (a + M * q) % M = a % M
  <1>1. PICK b \in Int : b = a + M * q
    OBVIOUS
  <1>2. PICK s \in Int : a = M * s + (a % M)
    BY DivMod, Zenon
  <1>3. PICK t \in Int : b = M * t + (b % M)
    BY DivMod, Zenon
  <1>4. a % M \in 0..(M - 1) /\ b % M \in 0..(M - 1)
    BY ModRange
  <1>5. PICK d \in Int : d = s + q - t
    OBVIOUS
  <1>6. M * d = M * s + M * q - M * t /\ M * (-d) = M * t - M * s - M * q
    BY <1>5
  <1>7. M * d = (b % M) - (a % M) /\ M * (-d) = (a % M) - (b % M)
    BY <1>1, <1>2, <1>3, <1>4, <1>6
  <1>8. ~(0 < M * d) /\ ~(0 < M * (-d))
    BY <1>4, <1>7, NoMultipleBetween
  <1>9. b % M = a % M
    BY <1>4, <1>7, <1>8
  <1> QED
    BY <1>1, <1>9

\* Fewer than M successive numbers have different remainders.
LEMMA ModDistinct ==
  ASSUME NEW M \in Nat \ {0}, NEW a \in Int, NEW b \in Int, a < b, b - a < M
  PROVE  a % M # b % M
  <1>1. PICK q \in Int : a = M * q + (a % M)
    BY DivMod, Zenon
  <1>2. PICK r \in Int : b = M * r + (b % M)
    BY DivMod, Zenon
  <1>3. a % M \in Int /\ b % M \in Int
    BY ModRange
  <1>4. ASSUME a % M = b % M PROVE FALSE
    <2>1. b - a = M * r - M * q
      BY <1>1, <1>2, <1>3, <1>4
    <2>2. M * r - M * q = M * (r - q) /\ r - q \in Int
      BY SMT
    <2> QED
      BY <2>1, <2>2, NoMultipleBetween
  <1> QED
    BY <1>4

\* What the proofs use of the constants.
LEMMA Constants ==
  /\ PIPESIZE \in Nat \ {0} /\ CtrMod \in Nat \ {0} /\ PIPESIZE < CtrMod
  /\ \E q \in Int : CtrMod = PIPESIZE * q
  <1>1. PIPESIZE \in Nat \ {0} /\ CtrMod \in Nat \ {0} /\ PIPESIZE < CtrMod /\ CtrMod % PIPESIZE = 0
    BY PipeAssumption
  <1>5. CtrMod \in Int
    BY <1>1
  <1>2. PICK q \in Int : CtrMod = PIPESIZE * q + (CtrMod % PIPESIZE)
    BY <1>1, <1>5, DivMod, Zenon
  <1>3. PIPESIZE * q \in Int
    BY <1>1
  <1>4. CtrMod = PIPESIZE * q
    BY <1>1, <1>2, <1>3
  <1> QED
    BY <1>1, <1>4

\* The bytes in the buffer and the two tests on the counters, without the
\* remainders.
LEMMA UsedIs ==
  ASSUME RingOK
  PROVE  /\ Used \in 0..PIPESIZE
         /\ nread <= nwrite => Used = nwrite - nread
         /\ nwrite < nread => Used = nwrite - nread + CtrMod
         /\ Full <=> Used = PIPESIZE
         /\ nread = nwrite <=> Used = 0
  <1>1. /\ nread \in Int /\ nwrite \in Int /\ 0 <= nread /\ nread < CtrMod
        /\ 0 <= nwrite /\ nwrite < CtrMod /\ nwrite - nread \in Int
    BY Constants DEF RingOK
  <1>2. /\ nread <= nwrite => Used = nwrite - nread
        /\ nwrite < nread => Used = nwrite - nread + CtrMod
    <2>1. PICK d \in Int : d = nwrite - nread
      BY <1>1
    <2>2. -CtrMod <= d /\ d < CtrMod + CtrMod /\ CtrMod \in Nat \ {0}
      BY <1>1, <2>1, Constants
    <2>3. /\ d < 0 => d % CtrMod = d + CtrMod
          /\ 0 <= d /\ d < CtrMod => d % CtrMod = d
      BY <2>2, ModNear, Zenon
    <2> QED
      BY <1>1, <2>1, <2>3, Constants DEF Used
  <1>3. /\ nread + PIPESIZE < CtrMod => (nread + PIPESIZE) % CtrMod = nread + PIPESIZE
        /\ CtrMod <= nread + PIPESIZE => (nread + PIPESIZE) % CtrMod = (nread + PIPESIZE) - CtrMod
    <2>1. PICK d \in Int : d = nread + PIPESIZE
      BY <1>1, Constants
    <2>2. -CtrMod <= d /\ d < CtrMod + CtrMod /\ CtrMod \in Nat \ {0} /\ 0 <= d
      BY <1>1, <2>1, Constants
    <2>3. /\ 0 <= d /\ d < CtrMod => d % CtrMod = d
          /\ CtrMod <= d => d % CtrMod = d - CtrMod
      BY <2>2, ModNear, Zenon
    <2>4. /\ d < CtrMod => d % CtrMod = d
          /\ CtrMod <= d => d % CtrMod = d - CtrMod
      BY <2>2, <2>3
    <2> QED
      BY <2>1, <2>4, Zenon
  <1>4. Used <= PIPESIZE
    BY DEF RingOK
  <1> QED
    BY <1>1, <1>2, <1>3, <1>4, Constants DEF Full

\* pi->nwrite points behind the last byte, pi->nread at the first one.
LEMMA WriteIndex ==
  ASSUME RingOK
  PROVE  nwrite % PIPESIZE = (nread + Used) % PIPESIZE
  <1>1. nread \in Int /\ nwrite \in Int /\ Used \in Int
    BY Constants, UsedIs DEF RingOK
  <1>2. CASE nread <= nwrite
    <2>1. nread + Used = nwrite
      BY <1>1, <1>2, UsedIs
    <2> QED
      BY <2>1
  <1>3. CASE nwrite < nread
    <2>1. PICK q \in Int : CtrMod = PIPESIZE * q
      BY Constants
    <2>2. nread + Used = nwrite + PIPESIZE * q
      BY <1>1, <1>3, <2>1, UsedIs, Constants
    <2>3. (nwrite + PIPESIZE * q) % PIPESIZE = nwrite % PIPESIZE
      BY <1>1, Constants, ModPeriod, Zenon
    <2> QED
      BY <2>2, <2>3
  <1> QED
    BY <1>1, <1>2, <1>3

LEMMA Successor ==
  ASSUME NEW x \in 0..(CtrMod - 1)
  PROVE  (x + 1) % CtrMod = IF x + 1 < CtrMod THEN x + 1 ELSE 0
  <1>1. PICK d \in Int : d = x + 1
    BY Constants
  <1>2. -CtrMod <= d /\ d < CtrMod + CtrMod /\ CtrMod \in Nat \ {0} /\ 0 <= d /\ d <= CtrMod
    BY <1>1, Constants
  <1>3. /\ 0 <= d /\ d < CtrMod => d % CtrMod = d
        /\ CtrMod <= d => d % CtrMod = d - CtrMod
    BY <1>2, ModNear, Zenon
  <1>4. d % CtrMod = IF d < CtrMod THEN d ELSE 0
    BY <1>2, <1>3
  <1> QED
    BY <1>1, <1>4, Zenon

LEMMA NextIndex ==
  ASSUME NEW x \in 0..(CtrMod - 1), NEW k \in Nat
  PROVE  (((x + 1) % CtrMod) + k) % PIPESIZE = (x + 1 + k) % PIPESIZE
  <1>1. x \in Int /\ 0 <= x /\ x < CtrMod
    BY Constants
  <1>2. CASE x + 1 < CtrMod
    <2>1. (x + 1) % CtrMod = x + 1
      BY <1>2, Successor
    <2> QED
      BY <2>1
  <1>3. CASE ~(x + 1 < CtrMod)
    <2>1. PICK q \in Int : CtrMod = PIPESIZE * q
      BY Constants
    <2>2. ((x + 1) % CtrMod) + k = k /\ x + 1 + k = k + PIPESIZE * q /\ k \in Int
      BY <1>1, <1>3, <2>1, Successor, Constants
    <2>3. (k + PIPESIZE * q) % PIPESIZE = k % PIPESIZE
      BY <2>2, Constants, ModPeriod, Zenon
    <2> QED
      BY <2>2, <2>3
  <1> QED
    BY <1>2, <1>3

\* u bytes of the buffer d from index r on.
QueueOf(d, r, u) == [k \in 1..u |-> d[(r + k - 1) % PIPESIZE]]

LEMMA QueueIs ==
  ASSUME NEW d \in [0..(PIPESIZE - 1) -> Bytes], NEW r \in Int, NEW u \in Nat
  PROVE  /\ QueueOf(d, r, u) \in Seq(Bytes) /\ Len(QueueOf(d, r, u)) = u
         /\ \A k \in 1..u : QueueOf(d, r, u)[k] = d[(r + k - 1) % PIPESIZE]
  <1>1. ASSUME NEW k \in 1..u PROVE d[(r + k - 1) % PIPESIZE] \in Bytes
    <2>1. PICK x \in Int : x = r + k - 1
      OBVIOUS
    <2>2. x % PIPESIZE \in 0..(PIPESIZE - 1)
      BY Constants, ModRange
    <2> QED
      BY <2>1, <2>2
  <1>2. QueueOf(d, r, u) \in [1..u -> Bytes]
    BY <1>1, Zenon DEF QueueOf
  <1>3. QueueOf(d, r, u) \in Seq(Bytes) /\ Len(QueueOf(d, r, u)) = u
    BY <1>2
  <1>4. \A k \in 1..u : QueueOf(d, r, u)[k] = d[(r + k - 1) % PIPESIZE]
    BY DEF QueueOf
  <1> QED
    BY <1>3, <1>4

\* The bytes in the pipe, first in first out: the refinement mapping.
Queue == QueueOf(data, nread, Used)

\* pipewrite's byte is appended to the queue and overwrites none of it.
LEMMA PutStep ==
  ASSUME RingOK, ~Full, NEW b \in Bytes, nread' = nread, nwrite' = (nwrite + 1) % CtrMod,
         data' = [data EXCEPT ![nwrite % PIPESIZE] = b]
  PROVE  RingOK' /\ Len(Queue) < PIPESIZE /\ Queue' = Append(Queue, b)
  <1>1. /\ nread \in 0..(CtrMod - 1) /\ nwrite \in 0..(CtrMod - 1) /\ Used \in Nat
        /\ Used < PIPESIZE /\ PIPESIZE \in Nat \ {0} /\ PIPESIZE < CtrMod /\ CtrMod \in Nat \ {0}
    BY UsedIs, Constants DEF RingOK
  <1>2. nwrite' = IF nwrite + 1 < CtrMod THEN nwrite + 1 ELSE 0
    BY <1>1, Successor, Zenon
  <1>3. nwrite' \in 0..(CtrMod - 1)
    BY <1>1, <1>2
  <1>4. Used' = Used + 1
    <2>1. /\ nread <= nwrite => Used = nwrite - nread
          /\ nwrite < nread => Used = nwrite - nread + CtrMod
      BY UsedIs
    <2>6. nread' \in Int /\ nwrite' \in Int
      BY <1>1, <1>3
    <2>2. PICK d \in Int : d = nwrite' - nread'
      BY <2>6
    <2>3. -CtrMod <= d /\ d < CtrMod + CtrMod
      BY <1>1, <1>3, <2>2
    <2>4. /\ d < 0 => d % CtrMod = d + CtrMod
          /\ 0 <= d /\ d < CtrMod => d % CtrMod = d
      BY <1>1, <2>3, ModNear, Zenon
    <2>5. d % CtrMod = Used + 1
      BY <1>1, <1>2, <2>1, <2>2, <2>4
    <2> QED
      BY <2>2, <2>5 DEF Used
  <1>5. RingOK'
    <2>1. nwrite % PIPESIZE \in 0..(PIPESIZE - 1)
      BY <1>1, ModRange
    <2>2. data' \in [0..(PIPESIZE - 1) -> Bytes]
      BY <2>1 DEF RingOK
    <2> QED
      BY <1>1, <1>3, <1>4, <2>2 DEF RingOK
  <1>6. ASSUME NEW k \in 1..Used
        PROVE  data'[(nread + k - 1) % PIPESIZE] = data[(nread + k - 1) % PIPESIZE]
    <2>1. PICK x \in Int : x = nread + k - 1
      BY <1>1
    <2>2. PICK y \in Int : y = nread + Used
      BY <1>1
    <2>3. x < y /\ y - x < PIPESIZE
      BY <1>1, <2>1, <2>2
    <2>4. x % PIPESIZE # y % PIPESIZE
      BY <1>1, <2>3, ModDistinct, Zenon
    <2>5. x % PIPESIZE # nwrite % PIPESIZE
      BY <2>2, <2>4, WriteIndex, Zenon
    <2> QED
      BY <2>1, <2>5 DEF RingOK
  <1>7. data'[(nread + (Used + 1) - 1) % PIPESIZE] = b
    <2>1. nwrite % PIPESIZE \in 0..(PIPESIZE - 1)
      BY <1>1, ModRange
    <2>2. nread + (Used + 1) - 1 = nread + Used
      BY <1>1
    <2> QED
      BY <2>1, <2>2, WriteIndex DEF RingOK
  <1>8. Queue' = Append(Queue, b)
    <2>1. /\ Queue \in Seq(Bytes) /\ Len(Queue) = Used
          /\ \A k \in 1..Used : Queue[k] = data[(nread + k - 1) % PIPESIZE]
      BY <1>1, QueueIs DEF Queue, RingOK
    <2>2. /\ Queue' \in Seq(Bytes) /\ Len(Queue') = Used + 1
          /\ \A k \in 1..(Used + 1) : Queue'[k] = data'[(nread + k - 1) % PIPESIZE]
      <3>1. Used + 1 \in Nat /\ nread \in Int /\ data' \in [0..(PIPESIZE - 1) -> Bytes]
        BY <1>1, <1>5 DEF RingOK
      <3>2. PICK u \in Nat : u = Used + 1
        BY <3>1
      <3>3. Queue' = QueueOf(data', nread, u)
        BY <1>4, <3>2 DEF Queue
      <3>4. PICK d \in [0..(PIPESIZE - 1) -> Bytes] : d = data'
        BY <3>1, Zenon
      <3>5. /\ QueueOf(d, nread, u) \in Seq(Bytes) /\ Len(QueueOf(d, nread, u)) = u
            /\ \A k \in 1..u : QueueOf(d, nread, u)[k] = d[(nread + k - 1) % PIPESIZE]
        <4>1. nread \in Int
          BY <3>1
        <4> QED
          BY <4>1, QueueIs, Zenon
      <3> QED
        BY <3>2, <3>3, <3>4, <3>5, Zenon
    <2>3. /\ Append(Queue, b) \in Seq(Bytes) /\ Len(Append(Queue, b)) = Used + 1
          /\ Append(Queue, b)[Used + 1] = b
          /\ \A k \in 1..Used : Append(Queue, b)[k] = Queue[k]
      BY <2>1, AppendProperties
    <2>4. \A k \in 1..(Used + 1) : Queue'[k] = Append(Queue, b)[k]
      <3>1. ASSUME NEW k \in 1..Used PROVE Queue'[k] = Append(Queue, b)[k]
        <4>1. k \in 1..(Used + 1)
          BY <1>1
        <4> QED
          BY <1>6, <2>1, <2>2, <2>3, <4>1, Zenon
      <3>2. Queue'[Used + 1] = Append(Queue, b)[Used + 1]
        <4>1. Used + 1 \in 1..(Used + 1)
          BY <1>1
        <4> QED
          BY <1>7, <2>2, <2>3, <4>1, Zenon
      <3>3. \A k \in 1..(Used + 1) : k \in 1..Used \/ k = Used + 1
        BY <1>1
      <3> QED
        BY <3>1, <3>2, <3>3, Zenon
    <2> QED
      BY <2>2, <2>3, <2>4, SeqEqual
  <1> QED
    <2>1. Len(Queue) = Used
      BY <1>1, QueueIs DEF Queue, RingOK
    <2> QED
      BY <1>1, <1>5, <1>8, <2>1

\* piperead takes the first byte.
LEMMA GetStep ==
  ASSUME RingOK, nread # nwrite, nread' = (nread + 1) % CtrMod, UNCHANGED <<data, nwrite>>
  PROVE  RingOK' /\ Queue # <<>> /\ Queue' = Tail(Queue)
  <1>1. /\ nread \in 0..(CtrMod - 1) /\ nwrite \in 0..(CtrMod - 1) /\ Used \in Nat
        /\ 0 < Used /\ PIPESIZE \in Nat \ {0} /\ PIPESIZE < CtrMod /\ CtrMod \in Nat \ {0}
    BY UsedIs, Constants DEF RingOK
  <1>2. nread' = IF nread + 1 < CtrMod THEN nread + 1 ELSE 0
    BY <1>1, Successor, Zenon
  <1>3. nread' \in 0..(CtrMod - 1)
    BY <1>1, <1>2
  <1>4. Used' = Used - 1
    <2>1. /\ nread <= nwrite => Used = nwrite - nread
          /\ nwrite < nread => Used = nwrite - nread + CtrMod
      BY UsedIs
    <2>6. nread' \in Int /\ nwrite' \in Int
      BY <1>1, <1>3
    <2>2. PICK d \in Int : d = nwrite' - nread'
      BY <2>6
    <2>3. -CtrMod <= d /\ d < CtrMod + CtrMod
      BY <1>1, <1>3, <2>2
    <2>4. /\ d < 0 => d % CtrMod = d + CtrMod
          /\ 0 <= d /\ d < CtrMod => d % CtrMod = d
      BY <1>1, <2>3, ModNear, Zenon
    <2>5. d % CtrMod = Used - 1
      BY <1>1, <1>2, <2>1, <2>2, <2>4
    <2> QED
      BY <2>2, <2>5 DEF Used
  <1>5. RingOK'
    BY <1>1, <1>3, <1>4 DEF RingOK
  <1>6. ASSUME NEW k \in 1..(Used - 1)
        PROVE  data'[(nread' + k - 1) % PIPESIZE] = data[(nread + (k + 1) - 1) % PIPESIZE]
    <2>1. PICK j \in Nat : j = k - 1
      BY <1>1
    <2>2. (((nread + 1) % CtrMod) + j) % PIPESIZE = (nread + 1 + j) % PIPESIZE
      BY <1>1, NextIndex, Zenon
    <2>3. nread + 1 + j = nread + (k + 1) - 1
      BY <1>1, <2>1
    <2> QED
      BY <2>1, <2>2, <2>3
  <1>7. Queue \in Seq(Bytes) /\ Len(Queue) = Used /\ Queue # <<>>
        /\ \A k \in 1..Used : Queue[k] = data[(nread + k - 1) % PIPESIZE]
    BY <1>1, QueueIs, EmptySeq DEF Queue, RingOK
  <1>8. Queue' = Tail(Queue)
    <2>1. /\ Queue' \in Seq(Bytes) /\ Len(Queue') = Used - 1
          /\ \A k \in 1..(Used - 1) : Queue'[k] = data'[(nread' + k - 1) % PIPESIZE]
      <3>1. Used' \in Nat /\ nread' \in Int /\ data' \in [0..(PIPESIZE - 1) -> Bytes]
        BY <1>1, <1>4, <1>5 DEF RingOK
      <3> QED
        BY <1>4, <3>1, QueueIs, ZenonT(60) DEF Queue
    <2>2. /\ Tail(Queue) \in Seq(Bytes) /\ Len(Tail(Queue)) = Used - 1
          /\ \A k \in 1..(Used - 1) : Tail(Queue)[k] = Queue[k + 1]
      BY <1>7, HeadTailProperties
    <2>3. ASSUME NEW k \in 1..(Used - 1) PROVE Queue'[k] = Tail(Queue)[k]
      <3>1. k + 1 \in 1..Used
        BY <1>1
      <3> QED
        BY <1>6, <1>7, <2>1, <2>2, <3>1, ZenonT(60)
    <2> QED
      BY <2>1, <2>2, <2>3, SeqEqual
  <1> QED
    BY <1>5, <1>7, <1>8
-----------------------------------------------------------------------------
LEMMA InitInv == Init => IInv
  <1> SUFFICES ASSUME Init PROVE IInv
    OBVIOUS
  <1>1. Used = 0
    <2>1. nwrite - nread = 0
      BY DEF Init
    <2>2. 0 % CtrMod = 0
      BY Constants
    <2> QED
      BY <2>1, <2>2 DEF Used
  <1>2. RingOK
    BY <1>1, Constants, PipeAssumption DEF Init, RingOK
  <1>3. TypeOK
    BY PipeAssumption, Zenon DEF Init, TypeOK, Places
  <1>4. ASSUME NEW p \in Procs PROVE ProcOK(p)
    BY PipeAssumption DEF Init, ProcOK, WriteLocked, ReadLocked
  <1>5. ReadEndOK /\ WriteEndOK
    BY PipeAssumption DEF Init, ReadEndOK, WriteEndOK
  <1> QED
    BY <1>2, <1>3, <1>4, <1>5 DEF Init, IInv

LEMMA CallInv ==
  ASSUME IInv, NEW p \in Procs, NEW e \in {"read", "write"}, Call(p, e)
  PROVE  IInv'
  <1>1. RingOK'
    BY DEF IInv, Call, pipe, RingOK, Used
  <1>2. TypeOK'
    BY PipeAssumption
       DEF IInv, Call, At, Goto, pipe, TypeOK, Places, WriteLocked, ReadLocked, Closing
  <1>3. ASSUME NEW q \in Procs PROVE ProcOK(q)'
    BY PipeAssumption DEF IInv, Call, At, Goto, pipe, TypeOK, ProcOK, WriteLocked, ReadLocked
  <1>4. ReadEndOK' /\ WriteEndOK'
    BY DEF IInv, Call, At, Goto, pipe, TypeOK, ProcOK, ReadEndOK, WriteEndOK, WriteLocked,
       ReadLocked
  <1> QED
    BY <1>1, <1>2, <1>3, <1>4 DEF IInv, Call, At, Goto, pipe, TypeOK

LEMMA AcquireInv ==
  ASSUME IInv, NEW p \in Procs, Acquire(p)
  PROVE  IInv'
  <1>1. RingOK'
    BY DEF IInv, Acquire, pipe, RingOK, Used
  <1>2. TypeOK'
    BY PipeAssumption
       DEF IInv, Acquire, At, Goto, pipe, TypeOK, Places, WriteLocked, ReadLocked, Closing
  <1>3. ASSUME NEW q \in Procs PROVE ProcOK(q)'
    BY PipeAssumption DEF IInv, Acquire, At, Goto, pipe, TypeOK, ProcOK, WriteLocked, ReadLocked
  <1>4. ReadEndOK' /\ WriteEndOK'
    BY DEF IInv, Acquire, At, Goto, pipe, TypeOK, ProcOK, ReadEndOK, WriteEndOK, WriteLocked,
       ReadLocked
  <1> QED
    BY <1>1, <1>2, <1>3, <1>4 DEF IInv, Acquire, At, Goto, pipe, TypeOK

LEMMA SleepInv ==
  ASSUME IInv, NEW p \in Procs, Sleep(p)
  PROVE  IInv'
  <1>1. RingOK'
    BY DEF IInv, Sleep, pipe, RingOK, Used
  <1>2. TypeOK'
    BY PipeAssumption
       DEF IInv, Sleep, At, Goto, pipe, TypeOK, Places, WriteLocked, ReadLocked, Closing
  <1>3. ASSUME NEW q \in Procs PROVE ProcOK(q)'
    BY PipeAssumption DEF IInv, Sleep, At, Goto, pipe, TypeOK, ProcOK, WriteLocked, ReadLocked
  <1>4. ReadEndOK' /\ WriteEndOK'
    BY DEF IInv, Sleep, At, Goto, pipe, TypeOK, ProcOK, ReadEndOK, WriteEndOK, WriteLocked,
       ReadLocked
  <1> QED
    BY <1>1, <1>2, <1>3, <1>4 DEF IInv, Sleep, At, Goto, pipe, TypeOK

LEMMA WriteFailsInv ==
  ASSUME IInv, NEW p \in Procs, WriteFails(p)
  PROVE  IInv'
  <1>1. RingOK'
    BY DEF IInv, WriteFails, pipe, RingOK, Used
  <1>2. TypeOK'
    BY PipeAssumption
       DEF IInv, WriteFails, At, Goto, pipe, Return, TypeOK, Places, WriteLocked, ReadLocked,
           Closing
  <1>3. ASSUME NEW q \in Procs PROVE ProcOK(q)'
    BY PipeAssumption
       DEF IInv, WriteFails, At, Goto, pipe, Return, TypeOK, ProcOK, WriteLocked, ReadLocked
  <1>4. ReadEndOK' /\ WriteEndOK'
    BY DEF IInv, WriteFails, At, Goto, pipe, Return, TypeOK, ProcOK, ReadEndOK, WriteEndOK,
       WriteLocked, ReadLocked
  <1> QED
    BY <1>1, <1>2, <1>3, <1>4 DEF IInv, WriteFails, At, Goto, pipe, Return, TypeOK

LEMMA WriteFullInv ==
  ASSUME IInv, NEW p \in Procs, WriteFull(p)
  PROVE  IInv'
  <1>1. RingOK'
    BY DEF IInv, WriteFull, pipe, RingOK, Used
  <1>2. TypeOK'
    BY PipeAssumption
       DEF IInv, WriteFull, At, Goto, pipe, wakeup, TypeOK, Places, WriteLocked, ReadLocked, Closing
  <1>3. ASSUME NEW q \in Procs PROVE ProcOK(q)'
    BY PipeAssumption
       DEF IInv, WriteFull, At, Goto, pipe, wakeup, TypeOK, ProcOK, WriteLocked, ReadLocked
  <1>4. ReadEndOK' /\ WriteEndOK'
    BY DEF IInv, WriteFull, At, Goto, pipe, wakeup, TypeOK, ProcOK, ReadEndOK, WriteEndOK,
       WriteLocked, ReadLocked
  <1> QED
    BY <1>1, <1>2, <1>3, <1>4 DEF IInv, WriteFull, At, Goto, pipe, wakeup, TypeOK

LEMMA WriteByteInv ==
  ASSUME IInv, NEW p \in Procs, WriteByte(p)
  PROVE  IInv'
  <1>1. RingOK'
    BY PutStep, Zenon DEF IInv, WriteByte, Copied
  <1>2. TypeOK'
    BY PipeAssumption
       DEF IInv, WriteByte, At, Copied, TypeOK, Places, WriteLocked, ReadLocked, Closing
  <1>3. ASSUME NEW q \in Procs PROVE ProcOK(q)'
    BY PipeAssumption DEF IInv, WriteByte, At, Copied, TypeOK, ProcOK, WriteLocked, ReadLocked
  <1>4. ReadEndOK' /\ WriteEndOK'
    BY DEF IInv, WriteByte, At, Copied, TypeOK, ProcOK, ReadEndOK, WriteEndOK, WriteLocked,
       ReadLocked
  <1> QED
    BY <1>1, <1>2, <1>3, <1>4 DEF IInv, WriteByte, At, Copied, TypeOK

LEMMA WriteDoneInv ==
  ASSUME IInv, NEW p \in Procs, WriteDone(p)
  PROVE  IInv'
  <1>1. RingOK'
    BY DEF IInv, WriteDone, pipe, RingOK, Used
  <1>2. TypeOK'
    BY PipeAssumption
       DEF IInv, WriteDone, At, Goto, pipe, wakeup, Return, TypeOK, Places, WriteLocked,
           ReadLocked, Closing
  <1>3. ASSUME NEW q \in Procs PROVE ProcOK(q)'
    BY PipeAssumption
       DEF IInv, WriteDone, At, Goto, pipe, wakeup, Return, TypeOK, ProcOK, WriteLocked, ReadLocked
  <1>4. ReadEndOK' /\ WriteEndOK'
    BY DEF IInv, WriteDone, At, Goto, pipe, wakeup, Return, TypeOK, ProcOK, ReadEndOK, WriteEndOK,
       WriteLocked, ReadLocked
  <1> QED
    BY <1>1, <1>2, <1>3, <1>4 DEF IInv, WriteDone, At, Goto, pipe, wakeup, Return, TypeOK

LEMMA ReadTestInv ==
  ASSUME IInv, NEW p \in Procs, ReadTest(p)
  PROVE  IInv'
  <1>1. RingOK'
    BY DEF IInv, ReadTest, pipe, RingOK, Used
  <1>2. TypeOK'
    BY PipeAssumption
       DEF IInv, ReadTest, At, Goto, pipe, Return, TypeOK, Places, WriteLocked, ReadLocked, Closing
  <1>3. ASSUME NEW q \in Procs PROVE ProcOK(q)'
    BY PipeAssumption
       DEF IInv, ReadTest, At, Goto, pipe, Return, TypeOK, ProcOK, WriteLocked, ReadLocked
  <1>4. ReadEndOK' /\ WriteEndOK'
    BY DEF IInv, ReadTest, At, Goto, pipe, Return, TypeOK, ProcOK, ReadEndOK, WriteEndOK,
       WriteLocked, ReadLocked
  <1> QED
    BY <1>1, <1>2, <1>3, <1>4 DEF IInv, ReadTest, At, Goto, pipe, Return, TypeOK

LEMMA ReadByteInv ==
  ASSUME IInv, NEW p \in Procs, ReadByte(p)
  PROVE  IInv'
  <1>1. RingOK'
    BY GetStep DEF IInv, ReadByte
  <1>2. TypeOK'
    BY PipeAssumption DEF IInv, ReadByte, At, Goto, TypeOK, Places, WriteLocked, ReadLocked, Closing
  <1>3. ASSUME NEW q \in Procs PROVE ProcOK(q)'
    BY PipeAssumption DEF IInv, ReadByte, At, Goto, TypeOK, ProcOK, WriteLocked, ReadLocked
  <1>4. ReadEndOK' /\ WriteEndOK'
    BY DEF IInv, ReadByte, At, Goto, TypeOK, ProcOK, ReadEndOK, WriteEndOK, WriteLocked, ReadLocked
  <1> QED
    BY <1>1, <1>2, <1>3, <1>4 DEF IInv, ReadByte, At, Goto, TypeOK

LEMMA ReadDoneInv ==
  ASSUME IInv, NEW p \in Procs, ReadDone(p)
  PROVE  IInv'
  <1>1. RingOK'
    BY DEF IInv, ReadDone, pipe, RingOK, Used
  <1>2. TypeOK'
    BY PipeAssumption
       DEF IInv, ReadDone, At, Goto, pipe, wakeup, Return, TypeOK, Places, WriteLocked, ReadLocked,
           Closing
  <1>3. ASSUME NEW q \in Procs PROVE ProcOK(q)'
    BY PipeAssumption
       DEF IInv, ReadDone, At, Goto, pipe, wakeup, Return, TypeOK, ProcOK, WriteLocked, ReadLocked
  <1>4. ReadEndOK' /\ WriteEndOK'
    BY DEF IInv, ReadDone, At, Goto, pipe, wakeup, Return, TypeOK, ProcOK, ReadEndOK, WriteEndOK,
       WriteLocked, ReadLocked
  <1> QED
    BY <1>1, <1>2, <1>3, <1>4 DEF IInv, ReadDone, At, Goto, pipe, wakeup, Return, TypeOK

LEMMA filecloseInv ==
  ASSUME IInv, NEW p \in Procs, NEW e \in {"read", "write"}, fileclose(p, e)
  PROVE  IInv'
  <1>1. RingOK'
    BY DEF IInv, fileclose, pipe, RingOK, Used
  <1>2. TypeOK'
    BY PipeAssumption
       DEF IInv, fileclose, At, Goto, pipe, LastHolder, TypeOK, Places, WriteLocked, ReadLocked,
           Closing
  <1>3. ASSUME NEW q \in Procs PROVE ProcOK(q)'
    BY PipeAssumption
       DEF IInv, fileclose, At, Goto, pipe, LastHolder, TypeOK, ProcOK, WriteLocked, ReadLocked
  <1>4. ReadEndOK' /\ WriteEndOK'
    BY DEF IInv, fileclose, At, Goto, pipe, LastHolder, TypeOK, ProcOK, ReadEndOK, WriteEndOK,
       WriteLocked, ReadLocked
  <1> QED
    BY <1>1, <1>2, <1>3, <1>4 DEF IInv, fileclose, At, Goto, pipe, LastHolder, TypeOK

LEMMA pipecloseInv ==
  ASSUME IInv, NEW p \in Procs, pipeclose(p)
  PROVE  IInv'
  <1>1. RingOK'
    BY DEF IInv, pipeclose, RingOK, Used
  <1>2. TypeOK'
    BY PipeAssumption, ZenonT(60)
       DEF IInv, pipeclose, At, Goto, wakeup, BothClosed, TypeOK, Places, WriteLocked, ReadLocked,
           Closing
  <1>3. ASSUME NEW q \in Procs PROVE ProcOK(q)'
    BY PipeAssumption
       DEF IInv, pipeclose, At, Goto, wakeup, BothClosed, TypeOK, ProcOK, WriteLocked, ReadLocked
  <1>4. ReadEndOK' /\ WriteEndOK'
    BY DEF IInv, pipeclose, At, Goto, wakeup, BothClosed, TypeOK, ProcOK, ReadEndOK, WriteEndOK,
       WriteLocked, ReadLocked
  <1> QED
    BY <1>1, <1>2, <1>3, <1>4 DEF IInv, pipeclose, At, Goto, wakeup, BothClosed, TypeOK

LEMMA killInv ==
  ASSUME IInv, NEW p \in Procs, kill(p)
  PROVE  IInv'
  <1>1. RingOK'
    BY DEF IInv, kill, pipe, RingOK, Used
  <1>2. TypeOK'
    BY PipeAssumption DEF IInv, kill, pipe, TypeOK, Places, WriteLocked, ReadLocked, Closing
  <1>3. ASSUME NEW q \in Procs PROVE ProcOK(q)'
    BY PipeAssumption DEF IInv, kill, pipe, TypeOK, ProcOK, WriteLocked, ReadLocked
  <1>4. ReadEndOK' /\ WriteEndOK'
    BY DEF IInv, kill, pipe, TypeOK, ProcOK, ReadEndOK, WriteEndOK, WriteLocked, ReadLocked
  <1> QED
    BY <1>1, <1>2, <1>3, <1>4 DEF IInv, kill, pipe, TypeOK

LEMMA NextInv == IInv /\ [Next]_vars => IInv'
  <1> SUFFICES ASSUME IInv, [Next]_vars PROVE IInv'
    OBVIOUS
  <1>1. ASSUME NEW p \in Procs, Kernel(p) PROVE IInv'
    BY <1>1, AcquireInv, SleepInv, WriteFailsInv, WriteFullInv, WriteByteInv, WriteDoneInv,
       ReadTestInv, ReadByteInv, ReadDoneInv, pipecloseInv DEF Kernel, pipewrite, piperead
  <1>2. CASE UNCHANGED vars
    BY <1>2 DEF vars, pipe, locals, IInv, TypeOK, RingOK, Used, ProcOK, ReadEndOK, WriteEndOK
  <1> QED
    BY <1>1, <1>2, CallInv, filecloseInv, killInv DEF Next

\* Every state of every behaviour of pipewrite, piperead, pipeclose, fileclose
\* and kill satisfies the inductive invariant.
THEOREM Invariance == Spec => []IInv
  BY InitInv, NextInv, PTL DEF Spec

\* For any number of processes that share the two ends: pipeclose frees the page
\* only when no process can still reach it, and the last close does free it.
THEOREM AlwaysFreedUnused == Spec => []FreedUnused
  <1>1. ASSUME IInv PROVE FreedUnused
    <2>1. ASSUME freed, NEW p \in Procs PROVE pc[p] = "user" /\ holds[p] = {}
      <3>1. /\ "read" \notin holds[p] /\ "write" \notin holds[p]
            /\ pc[p] # "closer" /\ pc[p] # "closew"
        BY <1>1, <2>1 DEF IInv, ReadEndOK, WriteEndOK
      <3>2. pc[p] = "user"
        BY <1>1, <3>1 DEF IInv, TypeOK, ProcOK, Places, WriteLocked, ReadLocked, Closing
      <3> QED
        BY <1>1, <3>1, <3>2 DEF IInv, TypeOK
    <2>2. ASSUME \A p \in Procs : pc[p] = "user" /\ holds[p] = {} PROVE freed
      BY <1>1, <2>2 DEF IInv, ReadEndOK, WriteEndOK
    <2> QED
      BY <2>1, <2>2 DEF FreedUnused
  <1> QED
    BY <1>1, Invariance, PTL
-----------------------------------------------------------------------------
\* The refinement of ByteStream, step by step.
LEMMA StreamInit == Init => Stream!Init
  <1> SUFFICES ASSUME Init PROVE Stream!Init
    OBVIOUS
  <1>1. RingOK /\ nread = nwrite
    BY InitInv DEF IInv, Init
  <1>2. Used = 0
    BY <1>1, UsedIs
  <1>3. Queue = <<>>
    BY <1>1, <1>2, QueueIs, EmptySeq DEF Queue, RingOK
  <1> QED
    BY <1>3 DEF Stream!Init, Init, Queue, QueueOf

LEMMA StreamStep ==
  ASSUME IInv, [Next]_vars
  PROVE  [Stream!Next]_<<Queue, readopen, writeopen>>
  <1>1. ASSUME NEW p \in Procs, WriteByte(p) PROVE Stream!Next
    <2>1. PICK b \in Bytes : Copied(p, b)
      BY <1>1 DEF WriteByte
    <2>2. Len(Queue) < PIPESIZE /\ Queue' = Append(Queue, b)
      BY <1>1, <2>1, PutStep, Zenon DEF IInv, WriteByte, Copied
    <2>3. readopen /\ writeopen /\ UNCHANGED <<readopen, writeopen>>
      BY <1>1, <2>1 DEF IInv, WriteByte, At, Copied, ProcOK, WriteEndOK, WriteLocked
    <2> QED
      BY <2>2, <2>3, Zenon DEF Stream!Next, Stream!Put, Queue, QueueOf
  <1>2. ASSUME NEW p \in Procs, ReadByte(p) PROVE Stream!Next
    <2>1. Queue # <<>> /\ Queue' = Tail(Queue)
      BY <1>2, GetStep DEF IInv, ReadByte
    <2>2. readopen /\ UNCHANGED <<readopen, writeopen>>
      BY <1>2 DEF IInv, ReadByte, At, ProcOK, ReadEndOK, ReadLocked
    <2> QED
      BY <2>1, <2>2, ZenonT(60) DEF Stream!Next, Stream!Get, Queue, QueueOf
  <1>3. ASSUME NEW p \in Procs, pipeclose(p) PROVE Stream!Next
    <2>1. Queue' = Queue
      BY <1>3 DEF pipeclose, Queue, Used
    <2>2. \/ writeopen /\ writeopen' = FALSE /\ readopen' = readopen
          \/ readopen /\ readopen' = FALSE /\ writeopen' = writeopen
      BY <1>3 DEF IInv, pipeclose, At, ReadEndOK, WriteEndOK
    <2> QED
      BY <2>1, <2>2 DEF Stream!Next, Stream!CloseRead, Stream!CloseWrite, Queue, QueueOf
  <1>4. ASSUME UNCHANGED <<data, nread, nwrite, readopen, writeopen>>
        PROVE  UNCHANGED <<Queue, readopen, writeopen>>
    BY <1>4 DEF Queue, Used
  <1>5. ASSUME NEW p \in Procs, NEW e \in {"read", "write"}, Call(p, e) \/ fileclose(p, e)
        PROVE  UNCHANGED <<Queue, readopen, writeopen>>
    BY <1>4, <1>5 DEF Call, fileclose, pipe
  <1>6. ASSUME NEW p \in Procs, Kernel(p)
        PROVE  Stream!Next \/ UNCHANGED <<Queue, readopen, writeopen>>
    BY <1>1, <1>2, <1>3, <1>4, <1>6
       DEF Kernel, Acquire, Sleep, pipewrite, WriteFails, WriteFull, WriteDone, piperead, ReadTest,
           ReadDone, pipe
  <1>7. ASSUME NEW p \in Procs, kill(p)
        PROVE  UNCHANGED <<Queue, readopen, writeopen>>
    BY <1>4, <1>7 DEF kill, pipe
  <1>8. CASE UNCHANGED vars
    BY <1>4, <1>8 DEF vars, pipe
  <1> QED
    BY <1>5, <1>6, <1>7, <1>8 DEF Next

\* A pipe is a bounded queue of bytes for any PIPESIZE and any counter width
\* that PIPESIZE divides: bytes come out in the order they went in, none is
\* lost, repeated or overwritten when nread and nwrite wrap around.
THEOREM PipeImplementsByteStream == Spec => StreamSpec
  <1>1. IInv /\ [Next]_vars
           => [Stream!Next]_<<[k \in 1..Used |-> data[(nread + k - 1) % PIPESIZE]],
                              readopen, writeopen>>
    BY StreamStep DEF Queue, QueueOf
  <1> QED
    BY <1>1, StreamInit, Invariance, PTL DEF Spec, StreamSpec, Stream!Spec
=============================================================================
