------------------------- MODULE BufferCacheProofs -------------------------
(***************************************************************************)
(* The inductive invariant of BufferCache, and the proofs that for any     *)
(* number of buffers, blocks and processes a block has one buffer, every   *)
(* reference is counted, and bio.c implements BlockStore.                  *)
(***************************************************************************)
EXTENDS BufferCache, FiniteSetTheorems, TLAPS

\* The places of a process that has a reference and not yet, or no longer,
\* the sleep-lock.
Between == {"lock", "sleep", "drop"}

TypeOK ==
    /\ disk \in [BlockNos -> Vals]
    /\ block \in [Bufs -> BlockNos \union {NoBlock}]
    /\ valid \in [Bufs -> BOOLEAN] /\ data \in [Bufs -> Vals]
    /\ refcnt \in [Bufs -> Nat] /\ locked \in [Bufs -> Procs \union {NoProc}]
    /\ pinned \in SUBSET Bufs
    /\ pc \in [Procs -> {"run", "read"} \union Between]
    /\ cur \in [Procs -> Bufs \union {0}] /\ held \in [Procs -> SUBSET Bufs]
    /\ panicked \in BOOLEAN

\* A process works on one buffer at a time; the one it reads it has locked.
PlaceOK(p) ==
    /\ pc[p] = "run" <=> cur[p] = 0
    /\ pc[p] \in Between => cur[p] \notin held[p] /\ block[cur[p]] # NoBlock
    /\ pc[p] = "read" => cur[p] \in held[p] /\ ~valid[cur[p]]
    /\ \A b \in held[p] : locked[b] = p /\ block[b] # NoBlock /\ (valid[b] \/ cur[p] = b)

\* A locked buffer is its holder's, and a pinned one has a block in memory.
BufferOK(b) ==
    /\ locked[b] # NoProc => b \in held[locked[b]]
    /\ b \in pinned => valid[b] /\ block[b] # NoBlock
    /\ valid[b] => block[b] # NoBlock

IInv ==
    /\ TypeOK /\ OneBufferPerBlock /\ RefcntExact
    /\ \A p \in Procs : PlaceOK(p)
    /\ \A b \in Bufs : BufferOK(b)
    /\ panicked => \A b \in Bufs : refcnt[b] # 0
-----------------------------------------------------------------------------
\* Counting references.
LEMMA Counting ==
  ASSUME NEW S \in SUBSET Procs
  PROVE  /\ Cardinality(S) \in Nat
         /\ Cardinality(S) = 0 <=> S = {}
         /\ \A p \in Procs \ S : Cardinality(S \union {p}) = Cardinality(S) + 1
         /\ \A p \in S : Cardinality(S \ {p}) = Cardinality(S) - 1
  <1>1. IsFiniteSet(S)
    BY Zenon, BufferCacheAssumption, FS_Subset
  <1>2. Cardinality(S) \in Nat /\ (Cardinality(S) = 0 <=> S = {})
    BY Zenon, <1>1, FS_CardinalityType, FS_EmptySet
  <1>3. ASSUME NEW p \in Procs \ S PROVE Cardinality(S \union {p}) = Cardinality(S) + 1
    BY Zenon, <1>1, FS_AddElement
  <1>4. ASSUME NEW p \in S PROVE Cardinality(S \ {p}) = Cardinality(S) - 1
    BY Zenon, <1>1, FS_RemoveElement
  <1> QED
    BY Zenon, <1>2, <1>3, <1>4

LEMMA Constants == NoProc \notin Procs /\ NoBlock \notin BlockNos /\ 0 \notin Bufs
  BY BufferCacheAssumption DEF Bufs

\* A buffer without a count has no reference and no pin.
LEMMA Unreferenced ==
  ASSUME IInv, NEW b \in Bufs, refcnt[b] = 0
  PROVE  References(b) = {} /\ b \notin pinned
  <1>1. References(b) \in SUBSET Procs
    BY Zenon DEF References
  <1>2. refcnt[b] = Cardinality(References(b)) + (IF b \in pinned THEN 1 ELSE 0)
    BY Zenon DEF IInv, RefcntExact
  <1>3. Cardinality(References(b)) \in Nat /\ (Cardinality(References(b)) = 0 <=> References(b) = {})
    BY <1>1, Counting, Zenon
  <1> QED
    BY <1>2, <1>3

\* The count stays exact when the references and the pin of a buffer stay.
LEMMA SameCount ==
  ASSUME IInv, NEW b \in Bufs, References(b)' = References(b), refcnt'[b] = refcnt[b],
         b \in pinned' <=> b \in pinned
  PROVE  refcnt'[b] = Cardinality(References(b)') + (IF b \in pinned' THEN 1 ELSE 0)
  BY Zenon DEF IInv, RefcntExact

LEMMA InitInv == Init => IInv
  <1> SUFFICES ASSUME Init PROVE IInv
    OBVIOUS
  <1> USE Constants DEF Init
  <1>0. disk \in [BlockNos -> Vals] /\ data \in [Bufs -> Vals]
    BY Zenon, BufferCacheAssumption
  <1>1. TypeOK
    BY Zenon, <1>0 DEF TypeOK, Between
  <1>2. OneBufferPerBlock
    BY Zenon DEF OneBufferPerBlock
  <1>3. ASSUME NEW b \in Bufs PROVE refcnt[b] = Cardinality(References(b)) + (IF b \in pinned THEN 1 ELSE 0)
    <2>1. References(b) = {}
      BY Zenon DEF References
    <2> QED
      BY <2>1, FS_EmptySet
  <1>4. \A p \in Procs : PlaceOK(p)
    BY Zenon DEF PlaceOK, Between
  <1>5. \A b \in Bufs : BufferOK(b)
    BY Zenon DEF BufferOK
  <1> QED
    BY Zenon, <1>1, <1>2, <1>3, <1>4, <1>5 DEF IInv, RefcntExact

LEMMA acquiresleepInv ==
  ASSUME IInv, NEW p \in Procs, acquiresleep(p)
  PROVE  IInv'
  <1>0. PICK b \in Bufs : b = cur[p] /\ block[b] \in BlockNos
    BY Constants DEF IInv, acquiresleep, At, TypeOK, PlaceOK, Between
  <1>1. TypeOK'
    <2>1. held' \in [Procs -> SUBSET Bufs] /\ locked' \in [Bufs -> Procs \union {NoProc}]
      BY <1>0 DEF IInv, acquiresleep, TypeOK
    <2>2. cur' \in [Procs -> Bufs \union {0}] /\ pc' \in [Procs -> {"run", "read"} \union Between]
      BY Zenon, <1>0 DEF IInv, acquiresleep, Return, TypeOK, Between
    <2> QED
      BY Zenon, <2>1, <2>2 DEF IInv, acquiresleep, bufvars, TypeOK
  <1>2. OneBufferPerBlock'
    BY Zenon DEF IInv, acquiresleep, At, Return, bufvars, OneBufferPerBlock
  <1>3. ASSUME NEW c \in Bufs
        PROVE  refcnt'[c] = Cardinality(References(c)') + (IF c \in pinned' THEN 1 ELSE 0)
    <2>1. References(c)' = References(c)
      BY <1>0, Constants
         DEF IInv, acquiresleep, At, Return, bufvars, References, TypeOK, PlaceOK, Between
    <2> QED
      BY Zenon, <2>1, SameCount DEF acquiresleep, At, Return, bufvars
  <1>4. ASSUME NEW q \in Procs PROVE PlaceOK(q)'
    BY <1>0, Constants
       DEF IInv, acquiresleep, At, Return, bufvars, TypeOK, PlaceOK, BufferOK, Between
  <1>5. ASSUME NEW c \in Bufs PROVE BufferOK(c)'
    BY <1>0, Constants
       DEF IInv, acquiresleep, At, Return, bufvars, TypeOK, PlaceOK, BufferOK, OneBufferPerBlock,
           Between
  <1>6. ~panicked'
    BY Zenon, <1>0 DEF IInv, acquiresleep, At, Return, bufvars, PlaceOK
  <1> QED
    BY Zenon, <1>1, <1>2, <1>3, <1>4, <1>5, <1>6 DEF IInv, RefcntExact

LEMMA breadInv ==
  ASSUME IInv, NEW p \in Procs, bread(p)
  PROVE  IInv'
  <1>0. PICK b \in Bufs : b = cur[p] /\ block[b] \in BlockNos
    BY Constants DEF IInv, bread, At, TypeOK, PlaceOK, Between
  <1>1. TypeOK'
    BY Zenon, <1>0, Constants DEF IInv, bread, At, Return, TypeOK, PlaceOK, Between
  <1>2. OneBufferPerBlock'
    BY Zenon DEF IInv, bread, At, Return, OneBufferPerBlock
  <1>3. ASSUME NEW c \in Bufs
        PROVE  refcnt'[c] = Cardinality(References(c)') + (IF c \in pinned' THEN 1 ELSE 0)
    <2>1. References(c)' = References(c)
      BY Zenon, <1>0, Constants DEF IInv, bread, At, Return, References, TypeOK, PlaceOK, Between
    <2> QED
      BY Zenon, <2>1, SameCount DEF bread, At, Return
  <1>4. ASSUME NEW q \in Procs PROVE PlaceOK(q)'
    BY <1>0, Constants DEF IInv, bread, At, Return, TypeOK, PlaceOK, BufferOK, Between
  <1>5. ASSUME NEW c \in Bufs PROVE BufferOK(c)'
    BY <1>0, Constants
       DEF IInv, bread, At, Return, TypeOK, PlaceOK, BufferOK, OneBufferPerBlock, Between
  <1>6. ~panicked'
    BY Zenon, <1>0 DEF IInv, bread, At, Return, PlaceOK
  <1> QED
    BY Zenon, <1>1, <1>2, <1>3, <1>4, <1>5, <1>6 DEF IInv, RefcntExact

LEMMA ModifyInv ==
  ASSUME IInv, NEW p \in Procs, NEW b \in Bufs, NEW v \in Vals, Modify(p, b, v)
  PROVE  IInv'
  <1>0. /\ b \in held[p] /\ locked[b] = p /\ block[b] \in BlockNos /\ ~panicked /\ pc[p] = "run"
        /\ valid[b]
    BY Constants DEF IInv, Modify, At, TypeOK, PlaceOK
  <1>1. TypeOK'
    BY Zenon, <1>0, Constants DEF IInv, Modify, At, procvars, TypeOK, PlaceOK, Between
  <1>2. OneBufferPerBlock'
    BY Zenon DEF IInv, Modify, At, procvars, OneBufferPerBlock
  <1>3. ASSUME NEW c \in Bufs
        PROVE  refcnt'[c] = Cardinality(References(c)') + (IF c \in pinned' THEN 1 ELSE 0)
    <2>1. References(c)' = References(c)
      BY Zenon, <1>0, Constants DEF IInv, Modify, At, procvars, References, TypeOK, PlaceOK, Between
    <2> QED
      BY Zenon, <2>1, SameCount DEF Modify, At, procvars
  <1>4. ASSUME NEW q \in Procs PROVE PlaceOK(q)'
    BY <1>0, Constants DEF IInv, Modify, At, procvars, TypeOK, PlaceOK, BufferOK, Between
  <1>5. ASSUME NEW c \in Bufs PROVE BufferOK(c)'
    BY <1>0, Constants
       DEF IInv, Modify, At, procvars, TypeOK, PlaceOK, BufferOK, OneBufferPerBlock, Between
  <1>6. ~panicked'
    BY Zenon, <1>0 DEF IInv, Modify, At, procvars, PlaceOK
  <1> QED
    BY Zenon, <1>1, <1>2, <1>3, <1>4, <1>5, <1>6 DEF IInv, RefcntExact

LEMMA bwriteInv ==
  ASSUME IInv, NEW p \in Procs, NEW b \in Bufs, bwrite(p, b)
  PROVE  IInv'
  <1>0. /\ b \in held[p] /\ locked[b] = p /\ block[b] \in BlockNos /\ ~panicked /\ pc[p] = "run"
        /\ valid[b]
    BY Constants DEF IInv, bwrite, At, TypeOK, PlaceOK
  <1>1. TypeOK'
    BY <1>0, Constants DEF IInv, bwrite, At, procvars, bufvars, TypeOK, PlaceOK, Between
  <1>2. OneBufferPerBlock'
    BY Zenon DEF IInv, bwrite, At, procvars, bufvars, OneBufferPerBlock
  <1>3. ASSUME NEW c \in Bufs
        PROVE  refcnt'[c] = Cardinality(References(c)') + (IF c \in pinned' THEN 1 ELSE 0)
    <2>1. References(c)' = References(c)
      BY Zenon, <1>0, Constants
         DEF IInv, bwrite, At, procvars, bufvars, References, TypeOK, PlaceOK, Between
    <2> QED
      BY Zenon, <2>1, SameCount DEF bwrite, At, procvars, bufvars
  <1>4. ASSUME NEW q \in Procs PROVE PlaceOK(q)'
    BY <1>0, Constants DEF IInv, bwrite, At, procvars, bufvars, TypeOK, PlaceOK, BufferOK, Between
  <1>5. ASSUME NEW c \in Bufs PROVE BufferOK(c)'
    BY Zenon DEF IInv, bwrite, procvars, bufvars, BufferOK
  <1>6. ~panicked'
    BY Zenon, <1>0 DEF IInv, bwrite, At, procvars, bufvars, PlaceOK
  <1> QED
    BY Zenon, <1>1, <1>2, <1>3, <1>4, <1>5, <1>6 DEF IInv, RefcntExact

LEMMA bpinInv ==
  ASSUME IInv, NEW p \in Procs, NEW b \in Bufs, bpin(p, b)
  PROVE  IInv'
  <1>0. /\ b \in held[p] /\ locked[b] = p /\ block[b] \in BlockNos /\ ~panicked /\ pc[p] = "run"
        /\ valid[b]
    BY Constants DEF IInv, bpin, At, TypeOK, PlaceOK
  <1>1. TypeOK'
    BY <1>0, Constants DEF IInv, bpin, At, procvars, bufvars, TypeOK, PlaceOK, Between
  <1>2. OneBufferPerBlock'
    BY Zenon DEF IInv, bpin, At, procvars, bufvars, OneBufferPerBlock
  <1>3. ASSUME NEW c \in Bufs
        PROVE  refcnt'[c] = Cardinality(References(c)') + (IF c \in pinned' THEN 1 ELSE 0)
    <2>1. References(c)' = References(c) /\ References(c) \in SUBSET Procs
      BY Zenon DEF bpin, At, procvars, bufvars, References
    <2>2. Cardinality(References(c)) \in Nat
      BY <2>1, Counting, Zenon
    <2>3. refcnt[c] = Cardinality(References(c)) + (IF c \in pinned THEN 1 ELSE 0)
      BY Zenon DEF IInv, RefcntExact
    <2> QED
      BY <2>1, <2>2, <2>3 DEF IInv, TypeOK, bpin, At, procvars, bufvars
  <1>4. ASSUME NEW q \in Procs PROVE PlaceOK(q)'
    BY <1>0, Constants DEF IInv, bpin, At, procvars, bufvars, TypeOK, PlaceOK, BufferOK, Between
  <1>5. ASSUME NEW c \in Bufs PROVE BufferOK(c)'
    BY <1>0, Constants
       DEF IInv, bpin, At, procvars, bufvars, TypeOK, PlaceOK, BufferOK, OneBufferPerBlock, Between
  <1>6. ~panicked'
    BY Zenon, <1>0 DEF IInv, bpin, At, procvars, bufvars, PlaceOK
  <1> QED
    BY Zenon, <1>1, <1>2, <1>3, <1>4, <1>5, <1>6 DEF IInv, RefcntExact

LEMMA bunpinInv ==
  ASSUME IInv, NEW p \in Procs, NEW b \in Bufs, bunpin(p, b)
  PROVE  IInv'
  <1>0. /\ b \in held[p] /\ locked[b] = p /\ block[b] \in BlockNos /\ ~panicked /\ pc[p] = "run"
        /\ valid[b]
    BY Constants DEF IInv, bunpin, At, TypeOK, PlaceOK
  <1>7. refcnt[b] - 1 \in Nat
    <2>1. b \in pinned /\ References(b) \in SUBSET Procs
      BY Zenon, <1>0 DEF bunpin, References
    <2>2. Cardinality(References(b)) \in Nat /\ (Cardinality(References(b)) = 0 <=> References(b) = {})
      BY <2>1, Counting, Zenon
    <2>3. refcnt[b] = Cardinality(References(b)) + (IF b \in pinned THEN 1 ELSE 0)
      BY Zenon DEF IInv, RefcntExact
    <2> QED
      BY <2>1, <2>2, <2>3
  <1>1. TypeOK'
    BY Zenon, <1>0, <1>7, Constants
       DEF IInv, bunpin, At, procvars, bufvars, TypeOK, PlaceOK, Between
  <1>2. OneBufferPerBlock'
    BY Zenon DEF IInv, bunpin, At, procvars, bufvars, OneBufferPerBlock
  <1>3. ASSUME NEW c \in Bufs
        PROVE  refcnt'[c] = Cardinality(References(c)') + (IF c \in pinned' THEN 1 ELSE 0)
    <2>1. References(c)' = References(c) /\ References(c) \in SUBSET Procs
      BY Zenon DEF bunpin, At, procvars, bufvars, References
    <2>2. Cardinality(References(c)) \in Nat
      BY <2>1, Counting, Zenon
    <2>3. refcnt[c] = Cardinality(References(c)) + (IF c \in pinned THEN 1 ELSE 0)
      BY Zenon DEF IInv, RefcntExact
    <2> QED
      BY <2>1, <2>2, <2>3 DEF IInv, TypeOK, bunpin, At, procvars, bufvars
  <1>4. ASSUME NEW q \in Procs PROVE PlaceOK(q)'
    BY <1>0, Constants DEF IInv, bunpin, At, procvars, bufvars, TypeOK, PlaceOK, BufferOK, Between
  <1>5. ASSUME NEW c \in Bufs PROVE BufferOK(c)'
    BY Zenon, <1>0, Constants
       DEF IInv, bunpin, At, procvars, bufvars, TypeOK, PlaceOK, BufferOK, OneBufferPerBlock,
           Between
  <1>6. ~panicked'
    BY Zenon, <1>0 DEF IInv, bunpin, At, procvars, bufvars, PlaceOK
  <1> QED
    BY Zenon, <1>1, <1>2, <1>3, <1>4, <1>5, <1>6 DEF IInv, RefcntExact

LEMMA releasesleepInv ==
  ASSUME IInv, NEW p \in Procs, NEW b \in Bufs, releasesleep(p, b)
  PROVE  IInv'
  <1>0. /\ b \in held[p] /\ locked[b] = p /\ block[b] \in BlockNos /\ ~panicked /\ pc[p] = "run"
        /\ valid[b]
    BY Constants DEF IInv, releasesleep, At, TypeOK, PlaceOK
  <1>7. /\ locked' = [locked EXCEPT ![b] = NoProc] /\ held' = [held EXCEPT ![p] = @ \ {b}]
        /\ cur' = [cur EXCEPT ![p] = b] /\ pc'[p] = "drop"
        /\ \A q \in Procs \ {p} : pc'[q] = IF pc[q] = "sleep" /\ cur[q] = b THEN "lock" ELSE pc[q]
        /\ pc' = [q \in Procs |-> pc'[q]]
        /\ UNCHANGED <<disk, block, valid, data, refcnt, pinned, panicked>>
    <2>1. pc' = wakeup([pc EXCEPT ![p] = "drop"], b)
      BY Zenon, <1>0 DEF releasesleep
    <2>2. /\ pc'[p] = "drop" /\ pc' = [q \in Procs |-> pc'[q]]
          /\ \A q \in Procs \ {p} :
                pc'[q] = IF pc[q] = "sleep" /\ cur[q] = b THEN "lock" ELSE pc[q]
      BY Zenon, <2>1 DEF IInv, TypeOK, wakeup
    <2> QED
      BY Zenon, <1>0, <2>2 DEF releasesleep, bufvars
  <1>1. TypeOK'
    <2>1. \A q \in Procs : pc'[q] \in {"run", "read"} \union Between
      BY Zenon, <1>7 DEF IInv, TypeOK, Between
    <2> QED
      BY Zenon, <1>7, <2>1, Constants DEF IInv, TypeOK
  <1>2. OneBufferPerBlock'
    BY Zenon, <1>7 DEF IInv, OneBufferPerBlock
  <1>3. ASSUME NEW c \in Bufs
        PROVE  refcnt'[c] = Cardinality(References(c)') + (IF c \in pinned' THEN 1 ELSE 0)
    <2>1. References(c)' = References(c)
      BY <1>0, <1>7, Constants DEF IInv, References, TypeOK, PlaceOK, Between
    <2> QED
      BY Zenon, <2>1, <1>7, SameCount
  <1>4. ASSUME NEW q \in Procs PROVE PlaceOK(q)'
    BY <1>0, <1>7, Constants DEF IInv, TypeOK, PlaceOK, BufferOK, Between
  <1>5. ASSUME NEW c \in Bufs PROVE BufferOK(c)'
    BY <1>0, <1>7, Constants DEF IInv, TypeOK, PlaceOK, BufferOK, OneBufferPerBlock, Between
  <1>6. ~panicked'
    BY Zenon, <1>0, <1>7 DEF IInv, PlaceOK
  <1> QED
    BY Zenon, <1>1, <1>2, <1>3, <1>4, <1>5, <1>6 DEF IInv, RefcntExact

LEMMA brelseInv ==
  ASSUME IInv, NEW p \in Procs, brelse(p)
  PROVE  IInv'
  <1>0. PICK b \in Bufs : b = cur[p] /\ block[b] \in BlockNos
    BY Constants DEF IInv, brelse, At, TypeOK, PlaceOK, Between
  <1>7. refcnt[b] - 1 \in Nat
    <2>1. p \in References(b) /\ References(b) \in SUBSET Procs
      BY Zenon, <1>0 DEF brelse, At, References
    <2>2. Cardinality(References(b)) \in Nat /\ (Cardinality(References(b)) = 0 <=> References(b) = {})
      BY <2>1, Counting, Zenon
    <2>3. refcnt[b] = Cardinality(References(b)) + (IF b \in pinned THEN 1 ELSE 0)
      BY Zenon DEF IInv, RefcntExact
    <2> QED
      BY <2>1, <2>2, <2>3
  <1>1. TypeOK'
    BY Zenon, <1>0, <1>7, Constants DEF IInv, brelse, At, Return, bufvars, TypeOK, PlaceOK, Between
  <1>2. OneBufferPerBlock'
    BY Zenon DEF IInv, brelse, At, Return, bufvars, OneBufferPerBlock
  <1>3. ASSUME NEW c \in Bufs
        PROVE  refcnt'[c] = Cardinality(References(c)') + (IF c \in pinned' THEN 1 ELSE 0)
    <2>1. CASE c # b
      <3>1. References(c)' = References(c)
        BY <1>0, <2>1, Constants
           DEF IInv, brelse, At, Return, bufvars, References, TypeOK, PlaceOK, Between
      <3> QED
        BY Zenon, <1>0, <2>1, <3>1, SameCount DEF IInv, TypeOK, brelse, At, Return, bufvars
    <2>2. CASE c = b
      <3>1. p \in References(b) /\ References(b) \in SUBSET Procs
        BY Zenon, <1>0 DEF brelse, At, Return, bufvars, References
      <3>2. References(b)' = References(b) \ {p}
        BY Zenon, <1>0, Constants
           DEF IInv, brelse, At, Return, bufvars, References, TypeOK, PlaceOK, Between
      <3>3. /\ Cardinality(References(b)') = Cardinality(References(b)) - 1
            /\ Cardinality(References(b)) \in Nat
        BY Zenon, <3>1, <3>2, Counting
      <3>4. refcnt[b] = Cardinality(References(b)) + (IF b \in pinned THEN 1 ELSE 0)
        BY Zenon DEF IInv, RefcntExact
      <3> QED
        BY <1>0, <2>2, <3>3, <3>4 DEF IInv, TypeOK, brelse, At, Return, bufvars
    <2> QED
      BY Zenon, <2>1, <2>2
  <1>4. ASSUME NEW q \in Procs PROVE PlaceOK(q)'
    BY <1>0, Constants DEF IInv, brelse, At, Return, bufvars, TypeOK, PlaceOK, BufferOK, Between
  <1>5. ASSUME NEW c \in Bufs PROVE BufferOK(c)'
    BY Zenon, <1>0, Constants
       DEF IInv, brelse, At, Return, bufvars, TypeOK, PlaceOK, BufferOK, OneBufferPerBlock, Between
  <1>6. ~panicked'
    BY Zenon, <1>0 DEF IInv, brelse, At, Return, bufvars, PlaceOK
  <1> QED
    BY Zenon, <1>1, <1>2, <1>3, <1>4, <1>5, <1>6 DEF IInv, RefcntExact

\* bget takes a reference to a buffer b that p has not, and whose content it
\* has not changed under anyone.
LEMMA bgetTakes ==
  ASSUME IInv, NEW p \in Procs, NEW n \in BlockNos, NEW b \in Bufs, pc[p] = "run", ~panicked,
         p \notin References(b), block'[b] = n, refcnt'[b] = refcnt[b] + 1,
         \A c \in Bufs \ {b} : /\ block'[c] = block[c] /\ block[c] # n
                              /\ valid'[c] = valid[c] /\ refcnt'[c] = refcnt[c],
         \/ block[b] = n /\ valid'[b] = valid[b]
         \/ valid'[b] = FALSE /\ References(b) = {} /\ b \notin pinned,
         block' = [c \in Bufs |-> block'[c]], valid' = [c \in Bufs |-> valid'[c]],
         refcnt' = [c \in Bufs |-> refcnt'[c]],
         cur' = [cur EXCEPT ![p] = b], pc' = [pc EXCEPT ![p] = "lock"],
         UNCHANGED <<panicked, disk, data, locked, pinned, held>>
  PROVE  IInv'
  <1>1. TypeOK'
    <2>1. \A c \in Bufs : block'[c] \in BlockNos \union {NoBlock}
      BY Zenon DEF IInv, TypeOK
    <2>2. \A c \in Bufs : valid'[c] \in BOOLEAN
      BY Zenon DEF IInv, TypeOK
    <2>3. \A c \in Bufs : refcnt'[c] \in Nat
      BY DEF IInv, TypeOK
    <2> QED
      BY Zenon, <2>1, <2>2, <2>3 DEF IInv, TypeOK, Between
  <1>2. OneBufferPerBlock'
    BY ZenonT(60) DEF IInv, OneBufferPerBlock
  <1>3. ASSUME NEW c \in Bufs
        PROVE  refcnt'[c] = Cardinality(References(c)') + (IF c \in pinned' THEN 1 ELSE 0)
    <2>1. CASE c # b
      <3>1. References(c)' = References(c)
        BY Zenon, <2>1, Constants DEF IInv, References, TypeOK, PlaceOK, Between
      <3> QED
        BY Zenon, <2>1, <3>1, SameCount
    <2>2. CASE c = b
      <3>1. References(b)' = References(b) \union {p} /\ References(b) \in SUBSET Procs
        BY Constants DEF IInv, References, TypeOK, PlaceOK, Between
      <3>2. /\ Cardinality(References(b)') = Cardinality(References(b)) + 1
            /\ Cardinality(References(b)) \in Nat
        BY <3>1, Counting
      <3>3. refcnt[b] = Cardinality(References(b)) + (IF b \in pinned THEN 1 ELSE 0)
        BY Zenon DEF IInv, RefcntExact
      <3> QED
        BY <2>2, <3>2, <3>3
    <2> QED
      BY Zenon, <2>1, <2>2
  <1>7. block[b] # n => \A q \in Procs : b \notin held[q] /\ (cur[q] = b => pc[q] \notin Between)
    BY Zenon DEF References, Between
  <1>4. ASSUME NEW q \in Procs PROVE PlaceOK(q)'
    BY <1>7, Constants DEF IInv, TypeOK, PlaceOK, References, Between
  <1>5. ASSUME NEW c \in Bufs PROVE BufferOK(c)'
    BY <1>7, Constants DEF IInv, TypeOK, BufferOK
  <1> QED
    BY Zenon, <1>1, <1>2, <1>3, <1>4, <1>5 DEF IInv, RefcntExact

LEMMA bgetInv ==
  ASSUME IInv, NEW p \in Procs, NEW n \in BlockNos, bget(p, n)
  PROVE  IInv'
  <1>1. /\ ~panicked /\ pc[p] = "run" /\ cur[p] = 0 /\ \A c \in held[p] : block[c] # n
    <2>1. \A c \in held[p] : <<block[c], n>> \in Nested
      BY Zenon DEF bget, MayGet
    <2>2. \A c \in held[p] : block[c] # n
      BY Zenon, <2>1, BufferCacheAssumption
    <2> QED
      BY Zenon, <2>2 DEF IInv, PlaceOK, bget, At
  <1>2. ASSUME NEW b \in Bufs, block[b] = n, refcnt' = [refcnt EXCEPT ![b] = @ + 1],
               cur' = [cur EXCEPT ![p] = b], pc' = [pc EXCEPT ![p] = "lock"],
               UNCHANGED <<block, valid, panicked, disk, data, locked, pinned, held>>
        PROVE  IInv'
    <2>1. p \notin References(b)
      BY Zenon, <1>1, <1>2 DEF References
    <2>2. \A c \in Bufs \ {b} : block[c] # n
      BY Zenon, <1>2, Constants DEF IInv, OneBufferPerBlock
    <2>3. refcnt'[b] = refcnt[b] + 1 /\ \A c \in Bufs \ {b} : refcnt'[c] = refcnt[c]
      BY Zenon, <1>2 DEF IInv, TypeOK
    <2>4. /\ block' = [c \in Bufs |-> block'[c]] /\ valid' = [c \in Bufs |-> valid'[c]]
          /\ refcnt' = [c \in Bufs |-> refcnt'[c]]
      BY Zenon, <1>2 DEF IInv, TypeOK
    <2> QED
      BY Zenon, <1>1, <1>2, <2>1, <2>2, <2>3, <2>4, bgetTakes
  <1>3. ASSUME NEW b \in Bufs, ~Cached(n), refcnt[b] = 0, block' = [block EXCEPT ![b] = n],
               valid' = [valid EXCEPT ![b] = FALSE], refcnt' = [refcnt EXCEPT ![b] = 1],
               cur' = [cur EXCEPT ![p] = b], pc' = [pc EXCEPT ![p] = "lock"],
               UNCHANGED <<panicked, disk, data, locked, pinned, held>>
        PROVE  IInv'
    <2>1. References(b) = {} /\ b \notin pinned
      BY Zenon, <1>3, Unreferenced
    <2>2. \A c \in Bufs : block[c] # n
      BY Zenon, <1>3 DEF Cached
    <2>3. /\ block'[b] = n /\ valid'[b] = FALSE /\ refcnt'[b] = refcnt[b] + 1
          /\ \A c \in Bufs \ {b} : /\ block'[c] = block[c] /\ valid'[c] = valid[c]
                                   /\ refcnt'[c] = refcnt[c]
      BY <1>3 DEF IInv, TypeOK
    <2>4. /\ block' = [c \in Bufs |-> block'[c]] /\ valid' = [c \in Bufs |-> valid'[c]]
          /\ refcnt' = [c \in Bufs |-> refcnt'[c]]
      BY Zenon, <1>3 DEF IInv, TypeOK
    <2> QED
      BY Zenon, <1>1, <1>3, <2>1, <2>2, <2>3, <2>4, bgetTakes
  <1>4. ASSUME \A b \in Bufs : refcnt[b] # 0, panicked' = TRUE,
               UNCHANGED <<block, valid, refcnt, cur, pc, disk, data, locked, pinned, held>>
        PROVE  IInv'
    <2>1. TypeOK' /\ OneBufferPerBlock'
      BY Zenon, <1>4 DEF IInv, TypeOK, OneBufferPerBlock
    <2>2. ASSUME NEW b \in Bufs
          PROVE  refcnt'[b] = Cardinality(References(b)') + (IF b \in pinned' THEN 1 ELSE 0)
      <3>1. References(b)' = References(b)
        BY Zenon, <1>4 DEF References
      <3> QED
        BY Zenon, <1>4, <3>1, SameCount
    <2>3. \A q \in Procs : PlaceOK(q)'
      BY <1>4 DEF IInv, PlaceOK
    <2>4. \A b \in Bufs : BufferOK(b)'
      BY Zenon, <1>4 DEF IInv, BufferOK
    <2> QED
      BY Zenon, <1>4, <2>1, <2>2, <2>3, <2>4 DEF IInv, RefcntExact
  <1> QED
    BY Zenon, <1>2, <1>3, <1>4 DEF bget, IsVictim

LEMMA NextInv == IInv /\ [Next]_vars => IInv'
  <1> SUFFICES ASSUME IInv, [Next]_vars PROVE IInv'
    OBVIOUS
  <1>1. ASSUME NEW p \in Procs, Step(p) PROVE IInv'
    BY Zenon, <1>1, bgetInv, acquiresleepInv, breadInv, brelseInv, bwriteInv, bpinInv, bunpinInv,
       releasesleepInv, ModifyInv DEF Step
  <1>2. CASE UNCHANGED vars
    <2>1. ASSUME NEW b \in Bufs
          PROVE  refcnt'[b] = Cardinality(References(b)') + (IF b \in pinned' THEN 1 ELSE 0)
      <3>1. References(b)' = References(b)
        BY Zenon, <1>2 DEF References, vars, procvars
      <3> QED
        BY Zenon, <1>2, <3>1, SameCount DEF vars
    <2>2. /\ TypeOK' /\ OneBufferPerBlock' /\ (\A p \in Procs : PlaceOK(p)')
          /\ (\A b \in Bufs : BufferOK(b)')
      BY <1>2 DEF vars, bufvars, procvars, IInv, TypeOK, OneBufferPerBlock, PlaceOK, BufferOK
    <2> QED
      BY Zenon, <1>2, <2>1, <2>2 DEF vars, IInv, RefcntExact
  <1> QED
    BY Zenon, <1>1, <1>2 DEF Next

\* Every state of every behaviour of bio.c satisfies the inductive invariant.
THEOREM Invariance == Spec => []IInv
  BY InitInv, NextInv, PTL DEF Spec

\* For any number of buffers, blocks and processes: a block has one buffer, a
\* buffer's refcnt is exactly the processes between bget and brelse plus the
\* pin of the log, and bget's panic comes only when every buffer is in use.
THEOREM BuffersAlwaysExact == Spec => []BuffersExact
  <1>1. ASSUME IInv PROVE BuffersExact
    <2>1. ASSUME panicked, NEW b \in Bufs PROVE References(b) # {} \/ b \in pinned
      <3>1. refcnt[b] # 0 /\ refcnt[b] = Cardinality(References(b)) + (IF b \in pinned THEN 1 ELSE 0)
        BY Zenon, <1>1, <2>1 DEF IInv, RefcntExact
      <3> QED
        BY <3>1, FS_EmptySet
    <2> QED
      BY Zenon, <1>1, <2>1 DEF IInv, BuffersExact, PanicsOnlyWhenFull
  <1> QED
    BY <1>1, Invariance, PTL
-----------------------------------------------------------------------------
\* What the refinement mapping amounts to: a valid buffer is the content of
\* its block and the disk that of every other block; the holder of a buffer
\* is the holder of its block.
ContentOK ==
    /\ Content \in [BlockNos -> Vals]
    /\ \A b \in Bufs : valid[b] => Content[block[b]] = data[b]
    /\ \A n \in BlockNos : (\A b \in Bufs : ~(block[b] = n /\ valid[b])) => Content[n] = disk[n]
HolderOK ==
    /\ Holder \in [BlockNos -> Procs \union {NoProc}]
    /\ \A p \in Procs : \A b \in held[p] : Holder[block[b]] = p
    /\ \A n \in BlockNos :
          (\A p \in Procs : \A b \in held[p] : block[b] # n) => Holder[n] = NoProc

LEMMA MappingOK == IInv => ContentOK /\ HolderOK
  <1> SUFFICES ASSUME IInv PROVE ContentOK /\ HolderOK
    OBVIOUS
  <1>1. ASSUME NEW b \in Bufs, valid[b]
        PROVE  block[b] \in BlockNos /\ Content[block[b]] = data[b]
    <2>1. block[b] \in BlockNos /\ \A c \in Bufs : block[c] = block[b] /\ valid[c] <=> c = b
      BY Zenon, <1>1 DEF IInv, TypeOK, BufferOK, OneBufferPerBlock
    <2>2. (CHOOSE c \in Bufs : block[c] = block[b] /\ valid[c]) = b
      BY Zenon, <2>1
    <2> QED
      BY Zenon, <1>1, <2>1, <2>2 DEF Content
  <1>2. ASSUME NEW n \in BlockNos, \A b \in Bufs : ~(block[b] = n /\ valid[b])
        PROVE  Content[n] = disk[n]
    BY Zenon, <1>2 DEF Content
  <1>3. ASSUME NEW n \in BlockNos PROVE Content[n] \in Vals
    <2>1. CASE \E b \in Bufs : block[b] = n /\ valid[b]
      BY <1>1, <2>1 DEF IInv, TypeOK
    <2>2. CASE \A b \in Bufs : ~(block[b] = n /\ valid[b])
      BY Zenon, <1>2, <2>2 DEF IInv, TypeOK
    <2> QED
      BY Zenon, <2>1, <2>2
  <1>4. Content \in [BlockNos -> Vals]
    <2>1. Content = [n \in BlockNos |-> Content[n]]
      BY Zenon DEF Content
    <2> QED
      BY Zenon, <1>3, <2>1
  <1>5. ASSUME NEW p \in Procs, NEW b \in held[p]
        PROVE  block[b] \in BlockNos /\ Holder[block[b]] = p
    <2>1. b \in Bufs /\ block[b] \in BlockNos
      BY DEF IInv, TypeOK, PlaceOK
    <2>2. \A q \in Procs : (\E c \in Bufs : c \in held[q] /\ block[c] = block[b]) <=> q = p
      BY <2>1, Constants DEF IInv, TypeOK, PlaceOK, OneBufferPerBlock
    <2>3. (CHOOSE q \in Procs : \E c \in Bufs : c \in held[q] /\ block[c] = block[b]) = p
      BY Zenon, <2>2
    <2> QED
      BY Zenon, <2>1, <2>3 DEF Holder
  <1>6. ASSUME NEW n \in BlockNos, \A p \in Procs : \A b \in held[p] : block[b] # n
        PROVE  Holder[n] = NoProc
    BY Zenon, <1>6 DEF Holder
  <1>7. ASSUME NEW n \in BlockNos PROVE Holder[n] \in Procs \union {NoProc}
    BY <1>5, <1>6
  <1>8. Holder \in [BlockNos -> Procs \union {NoProc}]
    <2>1. Holder = [n \in BlockNos |-> Holder[n]]
      BY Zenon DEF Holder
    <2> QED
      BY Zenon, <1>7, <2>1
  <1> QED
    BY Zenon, <1>1, <1>2, <1>4, <1>5, <1>6, <1>8 DEF ContentOK, HolderOK

LEMMA MappingOKNext == IInv' => ContentOK' /\ HolderOK'
  BY MappingOK, PTL

\* Content is extensional, and a step that moves no held buffer and leaves the
\* holders alone leaves Holder alone.
LEMMA SameContent ==
  ASSUME ContentOK, ContentOK', \A n \in BlockNos : Content'[n] = Content[n]
  PROVE  Content' = Content
  BY DEF ContentOK

LEMMA SameCopies ==
  ASSUME ContentOK, ContentOK', UNCHANGED <<block, valid, data, disk>>
  PROVE  Content' = Content
  <1>1. \A n \in BlockNos : Content'[n] = Content[n]
    BY DEF ContentOK
  <1> QED
    BY Zenon, <1>1, SameContent

LEMMA SameHolder ==
  ASSUME IInv, HolderOK, HolderOK', held' = held,
         \A p \in Procs : \A b \in held[p] : block'[b] = block[b]
  PROVE  Holder' = Holder
  <1>1. \A n \in BlockNos : Holder'[n] = Holder[n]
    BY DEF HolderOK
  <1> QED
    BY <1>1 DEF HolderOK

\* A process holds the blocks of its buffers.
LEMMA HolderOf ==
  ASSUME HolderOK, NEW p \in Procs, NEW b \in held[p]
  PROVE  Holder[block[b]] = p /\ p # NoProc
  BY Zenon, Constants DEF HolderOK

\* The kept blocks are those of the pinned buffers.
LEMMA SameKept ==
  ASSUME pinned' = pinned, \A b \in pinned : block'[b] = block[b]
  PROVE  Kept' = Kept
  BY Zenon DEF Kept

\* Recycling a buffer is forgetting its block, which nobody has and the log has
\* not pinned.
LEMMA bgetStep ==
  ASSUME IInv, IInv', ContentOK, ContentOK', HolderOK, HolderOK', NEW p \in Procs, 
         NEW n \in BlockNos, bget(p, n)
  PROVE  \/ Content' = Content /\ Holder' = Holder /\ disk' = disk /\ Kept' = Kept
         \/ \E m \in BlockNos : Store!Forget(m)
  <1>1. disk' = disk /\ data' = data /\ held' = held /\ pinned' = pinned
    BY Zenon DEF bget
  <1>2. CASE UNCHANGED <<block, valid>>
    BY Zenon, <1>1, <1>2, SameCopies, SameHolder, SameKept
  <1>3. ASSUME NEW b \in Bufs, ~Cached(n), refcnt[b] = 0, block' = [block EXCEPT ![b] = n],
               valid' = [valid EXCEPT ![b] = FALSE]
        PROVE  \/ Content' = Content /\ Holder' = Holder /\ disk' = disk /\ Kept' = Kept
               \/ \E m \in BlockNos : Store!Forget(m)
    <2>1. (\A q \in Procs : b \notin held[q]) /\ b \notin pinned
      BY Zenon, <1>3, Unreferenced DEF References
    <2>2. valid[b] => block[b] \in BlockNos
      BY <2>1 DEF IInv, TypeOK, BufferOK
    <2>3. ~valid'[b] /\ \A c \in Bufs \ {b} : block'[c] = block[c] /\ valid'[c] = valid[c]
      BY Zenon, <1>3 DEF IInv, TypeOK
    <2>4. ASSUME NEW m \in BlockNos, ~(valid[b] /\ block[b] = m) PROVE Content'[m] = Content[m]
      <3>1. CASE \E c \in Bufs \ {b} : block[c] = m /\ valid[c]
        BY <1>1, <2>3, <3>1 DEF ContentOK
      <3>2. CASE \A c \in Bufs \ {b} : ~(block[c] = m /\ valid[c])
        <4>1. Content'[m] = disk[m]
          BY Zenon, <1>1, <2>3, <3>2 DEF ContentOK
        <4>2. Content[m] = disk[m]
          BY Zenon, <2>4, <3>2 DEF ContentOK
        <4> QED
          BY Zenon, <4>1, <4>2
      <3> QED
        BY Zenon, <3>1, <3>2
    <2>5. Holder' = Holder
      <3>1. \A q \in Procs : \A c \in held[q] : block'[c] = block[c]
        BY ZenonT(60), <2>1, <2>3 DEF IInv, TypeOK
      <3> QED
        BY Zenon, <1>1, <3>1, SameHolder
    <2>6. Kept' = Kept
      <3>1. \A c \in pinned : block'[c] = block[c]
        BY Zenon, <2>1, <2>3 DEF IInv, TypeOK
      <3> QED
        BY Zenon, <1>1, <3>1, SameKept
    <2>7. CASE ~valid[b]
      BY Zenon, <1>1, <2>4, <2>5, <2>6, <2>7, SameContent
    <2>8. CASE valid[b]
      <3>1. PICK m \in BlockNos : m = block[b]
        BY Zenon, <2>2, <2>8
      <3>2. \A c \in Bufs \ {b} : block[c] # m
        BY Zenon, <3>1, Constants DEF IInv, OneBufferPerBlock
      <3>3. Holder[m] = NoProc
        <4>1. \A q \in Procs : \A c \in held[q] : c \in Bufs \ {b}
          BY Zenon, <2>1 DEF IInv, TypeOK
        <4> QED
          BY Zenon, <3>2, <4>1 DEF HolderOK
      <3>4. m \notin Kept
        BY Zenon, <2>1, <3>2 DEF Kept, IInv, TypeOK
      <3>5. Content'[m] = disk[m]
        <4>1. \A c \in Bufs : ~(block'[c] = m /\ valid'[c])
          BY Zenon, <2>3, <3>2
        <4> QED
          BY Zenon, <1>1, <4>1 DEF ContentOK
      <3>6. \A k \in BlockNos \ {m} : Content'[k] = Content[k]
        BY Zenon, <2>4, <3>1
      <3>7. Content' = [Content EXCEPT ![m] = disk[m]]
        BY Zenon, <3>5, <3>6 DEF ContentOK
      <3> QED
        BY Zenon, <1>1, <2>5, <2>6, <3>3, <3>4, <3>7 DEF Store!Forget
    <2> QED
      BY Zenon, <2>7, <2>8
  <1> QED
    BY Zenon, <1>2, <1>3 DEF bget, IsVictim

\* The sleep-lock of a buffer is the lock of its block.
LEMMA acquiresleepStep ==
  ASSUME IInv, IInv', ContentOK, ContentOK', HolderOK, HolderOK', NEW p \in Procs, 
         acquiresleep(p)
  PROVE  \/ Content' = Content /\ Holder' = Holder /\ disk' = disk /\ Kept' = Kept
         \/ \E n \in BlockNos : Store!Acquire(p, n)
  <1>1. Content' = Content /\ disk' = disk /\ Kept' = Kept
    BY Zenon, SameCopies, SameKept DEF acquiresleep, bufvars
  <1>2. CASE held' = held
    BY Zenon, <1>1, <1>2, SameHolder DEF acquiresleep, bufvars
  <1>3. CASE locked[cur[p]] = NoProc /\ held' = [held EXCEPT ![p] = @ \union {cur[p]}]
    <2>1. PICK b \in Bufs : b = cur[p] /\ block[b] # NoBlock
      BY Constants DEF IInv, TypeOK, PlaceOK, acquiresleep, At, Between
    <2>2. PICK n \in BlockNos : n = block[b]
      BY Zenon, <2>1 DEF IInv, TypeOK
    <2>3. \A q \in Procs : \A c \in held[q] : block[c] # n
      BY <1>3, <2>1, <2>2, Constants DEF IInv, TypeOK, PlaceOK, OneBufferPerBlock
    <2>4. Holder[n] = NoProc
      BY Zenon, <2>3 DEF HolderOK
    <2>5. /\ held'[p] = held[p] \union {b} /\ block' = block
          /\ \A q \in Procs \ {p} : held'[q] = held[q]
      BY Zenon, <1>3, <2>1 DEF IInv, TypeOK, acquiresleep, bufvars
    <2>6. Holder'[n] = p
      BY Zenon, <2>2, <2>5 DEF HolderOK
    <2>7. ASSUME NEW m \in BlockNos \ {n} PROVE Holder'[m] = Holder[m]
      <3>1. CASE \E q \in Procs : \E c \in held[q] : block[c] = m
        BY <2>5, <3>1 DEF HolderOK
      <3>2. CASE \A q \in Procs : \A c \in held[q] : block[c] # m
        BY ZenonT(60), <2>2, <2>5, <3>2 DEF HolderOK
      <3> QED
        BY Zenon, <3>1, <3>2
    <2>8. Holder' = [Holder EXCEPT ![n] = p]
      BY Zenon, <2>6, <2>7 DEF HolderOK
    <2> QED
      BY Zenon, <1>1, <2>4, <2>8 DEF Store!Acquire
  <1> QED
    BY Zenon, <1>1, <1>2, <1>3 DEF acquiresleep

\* A read fills in what the block holds already.
LEMMA breadStep ==
  ASSUME IInv, IInv', ContentOK, ContentOK', HolderOK, HolderOK', NEW p \in Procs, 
         bread(p)
  PROVE  Content' = Content /\ Holder' = Holder /\ disk' = disk /\ Kept' = Kept
  <1>1. PICK b \in Bufs : b = cur[p] /\ block[b] \in BlockNos /\ ~valid[b]
    BY Constants DEF IInv, TypeOK, PlaceOK, bread, At, Between
  <1>2. /\ valid'[b] /\ data'[b] = disk[block[b]] /\ block' = block /\ disk' = disk
        /\ \A c \in Bufs \ {b} : valid'[c] = valid[c] /\ data'[c] = data[c]
    BY ZenonT(60), <1>1 DEF IInv, TypeOK, bread
  <1>3. \A c \in Bufs \ {b} : block[c] # block[b]
    BY Zenon, <1>1, Constants DEF IInv, OneBufferPerBlock
  <1>4. ASSUME NEW m \in BlockNos PROVE Content'[m] = Content[m]
    <2>1. CASE m = block[b]
      BY <1>1, <1>2, <1>3, <2>1 DEF ContentOK
    <2>2. CASE m # block[b]
      <3>1. CASE \E c \in Bufs : block[c] = m /\ valid[c]
        BY <1>2, <2>2, <3>1 DEF ContentOK
      <3>2. CASE \A c \in Bufs : ~(block[c] = m /\ valid[c])
        BY Zenon, <1>2, <2>2, <3>2 DEF ContentOK
      <3> QED
        BY Zenon, <3>1, <3>2
    <2> QED
      BY Zenon, <2>1, <2>2
  <1>5. held' = held /\ block' = block /\ disk' = disk /\ pinned' = pinned
    BY Zenon DEF bread
  <1> QED
    BY Zenon, <1>4, <1>5, SameContent, SameHolder, SameKept

\* A holder has a valid buffer: bwrite saves what the block holds, and a store
\* into the buffer is a store into the block.
LEMMA bwriteStep ==
  ASSUME IInv, IInv', ContentOK, ContentOK', HolderOK, HolderOK', NEW p \in Procs, NEW b \in Bufs, 
         bwrite(p, b)
  PROVE  \E n \in BlockNos : Store!Save(n)
  <1>1. b \in held[p] /\ valid[b] /\ locked[b] = p /\ block[b] \in BlockNos
    BY Constants DEF IInv, TypeOK, PlaceOK, bwrite, At
  <1>2. /\ \A n \in BlockNos \ {block[b]} : disk'[n] = disk[n]
        /\ block' = block /\ valid' = valid /\ data' = data /\ held' = held
    BY Zenon, <1>1 DEF IInv, TypeOK, bwrite, bufvars, procvars
  <1>3. ASSUME NEW m \in BlockNos PROVE Content'[m] = Content[m]
    <2>1. CASE \E c \in Bufs : block[c] = m /\ valid[c]
      BY <1>2, <2>1 DEF ContentOK
    <2>2. CASE \A c \in Bufs : ~(block[c] = m /\ valid[c])
      BY Zenon, <1>1, <1>2, <2>2 DEF ContentOK
    <2> QED
      BY Zenon, <2>1, <2>2
  <1>4. Content[block[b]] = data[b] /\ Holder[block[b]] # NoProc
    BY Zenon, <1>1, HolderOf DEF ContentOK
  <1>5. disk' = [disk EXCEPT ![block[b]] = Content[block[b]]] /\ pinned' = pinned
    BY Zenon, <1>1, <1>4 DEF bwrite
  <1>6. Content' = Content /\ Holder' = Holder /\ Kept' = Kept
    BY Zenon, <1>2, <1>3, <1>5, SameContent, SameHolder, SameKept
  <1> QED
    BY Zenon, <1>1, <1>4, <1>5, <1>6 DEF Store!Save

\* The log's pin keeps a block, and is taken away once the block is written.
LEMMA bpinStep ==
  ASSUME IInv, IInv', ContentOK, ContentOK', HolderOK, HolderOK', NEW p \in Procs, NEW b \in Bufs,
         bpin(p, b)
  PROVE  \E n \in BlockNos : Store!Keep(n)
  <1>1. b \in held[p] /\ block[b] \in BlockNos
    BY Constants DEF IInv, TypeOK, PlaceOK, bpin, At
  <1>2. Content' = Content /\ Holder' = Holder /\ disk' = disk
    BY Zenon, SameCopies, SameHolder DEF bpin, bufvars, procvars
  <1>3. Holder[block[b]] # NoProc
    BY Zenon, <1>1, HolderOf
  <1>4. pinned' = pinned \union {b} /\ block' = block
    BY Zenon DEF bpin, bufvars
  <1>5. Kept' = Kept \union {block[b]}
    BY Zenon, <1>4 DEF Kept
  <1> QED
    BY Zenon, <1>1, <1>2, <1>3, <1>5 DEF Store!Keep

LEMMA bunpinStep ==
  ASSUME IInv, IInv', ContentOK, ContentOK', HolderOK, HolderOK', NEW p \in Procs, NEW b \in Bufs,
         bunpin(p, b)
  PROVE  \E n \in BlockNos : Store!Unkeep(n)
  <1>1. b \in held[p] /\ block[b] \in BlockNos /\ valid[b]
    BY Constants DEF IInv, TypeOK, PlaceOK, bunpin, At
  <1>2. Content' = Content /\ Holder' = Holder /\ disk' = disk
    BY Zenon, SameCopies, SameHolder DEF bunpin, bufvars, procvars
  <1>3. Holder[block[b]] # NoProc /\ Content[block[b]] = disk[block[b]]
    BY Zenon, <1>1, HolderOf DEF ContentOK, bunpin
  <1>4. pinned' = pinned \ {b} /\ block' = block
    BY Zenon DEF bunpin, bufvars
  <1>5. \A c \in pinned : c \in Bufs /\ (block[c] = block[b] => c = b)
    BY Zenon, <1>1, Constants DEF IInv, TypeOK, OneBufferPerBlock
  <1>6. Kept' = Kept \ {block[b]}
    BY Zenon, <1>4, <1>5 DEF Kept
  <1> QED
    BY Zenon, <1>1, <1>2, <1>3, <1>6 DEF Store!Unkeep

LEMMA ModifyStep ==
  ASSUME IInv, IInv', ContentOK, ContentOK', HolderOK, HolderOK', NEW p \in Procs, NEW b \in Bufs, 
         NEW v \in Vals, Modify(p, b, v)
  PROVE  \E n \in BlockNos : Store!Store(n, v)
  <1>1. b \in held[p] /\ valid[b] /\ block[b] # NoBlock
    BY Constants DEF IInv, TypeOK, PlaceOK, Modify, At
  <1>2. PICK n \in BlockNos : n = block[b]
    BY Zenon, <1>1 DEF IInv, TypeOK
  <1>3. /\ data'[b] = v /\ \A c \in Bufs \ {b} : data'[c] = data[c]
        /\ block' = block /\ valid' = valid /\ disk' = disk /\ held' = held
    BY Zenon DEF IInv, TypeOK, Modify, procvars
  <1>4. Content'[n] = v
    BY Zenon, <1>1, <1>2, <1>3 DEF ContentOK
  <1>5. ASSUME NEW m \in BlockNos \ {n} PROVE Content'[m] = Content[m]
    <2>1. CASE \E c \in Bufs : block[c] = m /\ valid[c]
      BY <1>2, <1>3, <2>1 DEF ContentOK
    <2>2. CASE \A c \in Bufs : ~(block[c] = m /\ valid[c])
      BY Zenon, <1>3, <2>2 DEF ContentOK
    <2> QED
      BY Zenon, <2>1, <2>2
  <1>6. Content' = [Content EXCEPT ![n] = v]
    BY Zenon, <1>4, <1>5 DEF ContentOK
  <1>7. Holder' = Holder /\ Kept' = Kept
    BY Zenon, <1>3, SameHolder, SameKept DEF Modify
  <1>8. Holder[n] # NoProc
    BY Zenon, <1>1, <1>2, HolderOf
  <1> QED
    BY Zenon, <1>3, <1>6, <1>7, <1>8 DEF Store!Store

LEMMA releasesleepStep ==
  ASSUME IInv, IInv', ContentOK, ContentOK', HolderOK, HolderOK', NEW p \in Procs, NEW b \in Bufs, 
         releasesleep(p, b)
  PROVE  \E n \in BlockNos : Store!Release(n)
  <1>1. b \in held[p] /\ locked[b] = p /\ block[b] # NoBlock
    BY DEF IInv, TypeOK, PlaceOK, releasesleep, At
  <1>2. PICK n \in BlockNos : n = block[b]
    BY Zenon, <1>1 DEF IInv, TypeOK
  <1>3. Content' = Content /\ disk' = disk /\ Kept' = Kept
    BY Zenon, SameCopies, SameKept DEF releasesleep, bufvars
  <1>4. /\ held'[p] = held[p] \ {b} /\ block' = block
        /\ \A q \in Procs \ {p} : held'[q] = held[q]
    BY Zenon, <1>1 DEF IInv, TypeOK, releasesleep, bufvars
  <1>5. \A q \in Procs : \A c \in held'[q] : block[c] # n
    BY <1>1, <1>2, <1>4, Constants DEF IInv, TypeOK, PlaceOK, OneBufferPerBlock
  <1>6. Holder'[n] = NoProc
    BY Zenon, <1>4, <1>5 DEF HolderOK
  <1>7. ASSUME NEW m \in BlockNos \ {n} PROVE Holder'[m] = Holder[m]
    <2>1. CASE \E q \in Procs : \E c \in held[q] : block[c] = m
      BY <1>2, <1>4, <2>1 DEF HolderOK
    <2>2. CASE \A q \in Procs : \A c \in held[q] : block[c] # m
      BY ZenonT(60), <1>4, <2>2 DEF HolderOK
    <2> QED
      BY Zenon, <2>1, <2>2
  <1>8. Holder' = [Holder EXCEPT ![n] = NoProc]
    BY Zenon, <1>6, <1>7 DEF HolderOK
  <1>9. Holder[n] # NoProc
    BY Zenon, <1>1, <1>2, HolderOf
  <1> QED
    BY Zenon, <1>3, <1>8, <1>9 DEF Store!Release

\* The other steps touch neither the contents nor the holders.
LEMMA OtherStep ==
  ASSUME IInv, ContentOK, ContentOK', HolderOK, HolderOK',
         UNCHANGED <<block, valid, data, disk, held, pinned>>
  PROVE  Content' = Content /\ Holder' = Holder /\ disk' = disk /\ Kept' = Kept
  BY Zenon, SameCopies, SameHolder, SameKept

LEMMA StoreInit == Init => Store!Init
  <1> SUFFICES ASSUME Init PROVE Store!Init
    OBVIOUS
  <1>1. ContentOK /\ HolderOK
    BY Zenon, InitInv, MappingOK
  <1>2. Holder = [n \in BlockNos |-> NoProc]
    <2>1. \A n \in BlockNos : Holder[n] = NoProc
      BY Zenon, <1>1 DEF Init, HolderOK
    <2> QED
      BY Zenon, <1>1, <2>1 DEF HolderOK
  <1>3. Content = disk
    <2>1. \A n \in BlockNos : Content[n] = disk[n]
      BY Zenon, <1>1 DEF Init, ContentOK
    <2>2. disk \in [BlockNos -> Vals]
      BY Zenon, InitInv DEF IInv, TypeOK
    <2> QED
      BY <1>1, <2>1, <2>2 DEF ContentOK
  <1>4. Kept = {}
    BY Zenon DEF Init, Kept
  <1> QED
    BY Zenon, <1>1, <1>2, <1>3, <1>4 DEF ContentOK, Store!Init

LEMMA StoreStep == IInv /\ IInv' /\ [Next]_vars => [Store!Next]_Store!vars
  <1> SUFFICES ASSUME IInv, IInv', [Next]_vars PROVE Store!Next \/ UNCHANGED Store!vars
    OBVIOUS
  <1>1. ContentOK /\ HolderOK /\ ContentOK' /\ HolderOK'
    BY Zenon, MappingOK, MappingOKNext
  <1>2. SUFFICES \/ Content' = Content /\ Holder' = Holder /\ disk' = disk /\ Kept' = Kept
                 \/ \E n \in BlockNos :
                       \/ Store!Forget(n) \/ Store!Release(n) \/ Store!Save(n)
                       \/ Store!Keep(n) \/ Store!Unkeep(n)
                       \/ \E v \in Vals : Store!Store(n, v)
                       \/ \E p \in Procs : Store!Acquire(p, n)
    BY Zenon DEF Store!Next, Store!vars
  <1>3. CASE UNCHANGED vars
    BY Zenon, <1>1, <1>3, OtherStep DEF vars, bufvars, procvars
  <1>4. ASSUME NEW p \in Procs, NEW n \in BlockNos, bget(p, n)
        PROVE  \/ Content' = Content /\ Holder' = Holder /\ disk' = disk /\ Kept' = Kept
               \/ \E m \in BlockNos : Store!Forget(m)
    BY Zenon, <1>1, <1>4, bgetStep
  <1>5. ASSUME NEW p \in Procs, acquiresleep(p)
        PROVE  \/ Content' = Content /\ Holder' = Holder /\ disk' = disk /\ Kept' = Kept
               \/ \E n \in BlockNos : Store!Acquire(p, n)
    BY Zenon, <1>1, <1>5, acquiresleepStep
  <1>6. ASSUME NEW p \in Procs, bread(p) \/ brelse(p)
        PROVE  Content' = Content /\ Holder' = Holder /\ disk' = disk /\ Kept' = Kept
    <2>1. CASE bread(p)
      BY Zenon, <1>1, <2>1, breadStep
    <2>2. CASE brelse(p)
      BY Zenon, <1>1, <2>2, OtherStep DEF brelse, bufvars
    <2> QED
      BY Zenon, <1>6, <2>1, <2>2
  <1>7. ASSUME NEW p \in Procs, NEW b \in Bufs,
               bwrite(p, b) \/ bpin(p, b) \/ bunpin(p, b) \/ releasesleep(p, b)
        PROVE  \E n \in BlockNos :
                  Store!Save(n) \/ Store!Keep(n) \/ Store!Unkeep(n) \/ Store!Release(n)
    BY Zenon, <1>1, <1>7, bwriteStep, bpinStep, bunpinStep, releasesleepStep
  <1>8. ASSUME NEW p \in Procs, NEW b \in Bufs, NEW v \in Vals, Modify(p, b, v)
        PROVE  \E n \in BlockNos : Store!Store(n, v)
    BY Zenon, <1>1, <1>8, ModifyStep
  <1>9. CASE Next
    <2> PICK p \in Procs : Step(p)
      BY Zenon, <1>9 DEF Next
    <2> QED
      BY Zenon, <1>4, <1>5, <1>6, <1>7, <1>8 DEF Step
  <1> QED
    BY Zenon, <1>3, <1>9

\* For any number of buffers, blocks and processes bio.c implements
\* BlockStore: whatever is recycled, read again, pinned or written back, a
\* holder of a block sees what the last holder stored, and only a change that
\* was released neither written nor pinned can be forgotten.
THEOREM BcacheImplementsBlockStore == Spec => StoreSpec
  <1>1. IInv /\ IInv' /\ [Next]_vars => [Store!Next]_Store!vars
    BY Zenon, StoreStep
  <1> QED
    BY StoreInit, <1>1, Invariance, PTL DEF Spec, StoreSpec, Store!Spec
=============================================================================
