--------------------------- MODULE ConsoleProofs ----------------------------
(***************************************************************************)
(* The inductive invariant of Console, and the proofs that for any number  *)
(* of readers and any size of the buffer committed input is kept until it  *)
(* is read, no reader sleeps on it, and an end-of-file is seen as such.    *)
(***************************************************************************)
EXTENDS Console, SequenceTheorems, NaturalsInduction, WellFoundedInduction, TLAPS

Indices == 0..(CtrMod - 1)
Holding == {"read", "sleep", "done"}

TypeOK ==
    /\ buf \in [0..(INPUT_BUF - 1) -> Stored]
    /\ r \in Indices /\ w \in Indices /\ e \in Indices
    /\ lock \in Procs \union {None}
    /\ pc \in [Procs -> {"user", "acquire"} \union Holding]
    /\ got \in [Procs -> Seq(Stored)] /\ n \in [Procs -> Int]

\* In the circle of indices w is between r and e, which are at most INPUT_BUF
\* apart; a full buffer is committed.
Ring(r0, w0, e0) ==
    /\ Add(w0, -r0) <= Add(e0, -r0) /\ Add(e0, -r0) <= INPUT_BUF
    /\ Add(e0, -r0) = INPUT_BUF => w0 = e0

\* A reader with cons.lock decides to sleep on what it sees; one that may go
\* on reading has not met a newline.
PlaceOK(p) ==
    /\ lock = p <=> pc[p] \in Holding
    /\ pc[p] = "user" => got[p] = <<>>
    /\ pc[p] = "sleep" => r = w
    /\ pc[p] # "done" => \A k \in 1..Len(got[p]) : got[p][k] # "\n"
    /\ \A k \in 1..(Len(got[p]) - 1) : got[p][k] # "\n"

IInv ==
    /\ TypeOK /\ Ring(r, w, e)
    /\ asleep # {} => r = w
    /\ \A p \in Procs : PlaceOK(p)
-----------------------------------------------------------------------------
\* Arithmetic of the indices, which run modulo CtrMod, and of the places in the
\* buffer, modulo INPUT_BUF.
LEMMA ModRange ==
  ASSUME NEW a \in Int, NEW M \in Nat \ {0}
  PROVE  a % M \in 0..(M - 1)
  BY SMT

LEMMA DivMod ==
  ASSUME NEW a \in Int, NEW M \in Nat \ {0}
  PROVE  \E q \in Int : a = M * q + (a % M)
  <1>1. a \div M \in Int /\ a = M * (a \div M) + (a % M)
    BY SMT
  <1> QED
    BY <1>1, Zenon

LEMMA ModNear ==
  ASSUME NEW a \in Int, NEW M \in Nat \ {0}, -M <= a, a < M + M
  PROVE  /\ a < 0 => a % M = a + M
         /\ 0 <= a /\ a < M => a % M = a
         /\ M <= a => a % M = a - M
  BY SMT

LEMMA NoMultipleBetween ==
  ASSUME NEW M \in Nat \ {0}, NEW q \in Int, 0 < M * q, M * q < M
  PROVE  FALSE
  BY SMT

LEMMA ModPeriod ==
  ASSUME NEW a \in Int, NEW M \in Nat \ {0}, NEW q \in Int
  PROVE  (a + M * q) % M = a % M
  <1>1. PICK b \in Int : b = a + M * q
    OBVIOUS
  <1>2. PICK s \in Int : a = M * s + (a % M)
    BY DivMod, Zenon
  <1>3. PICK t \in Int : b = M * t + (b % M)
    BY DivMod, Zenon
  <1>4. a % M \in 0..(M - 1) /\ b % M \in 0..(M - 1)
    BY ModRange
  <1>5. PICK d \in Int : d = s + q - t
    OBVIOUS
  <1>6. M * d = M * s + M * q - M * t /\ M * (-d) = M * t - M * s - M * q
    BY <1>5
  <1>7. M * d = (b % M) - (a % M) /\ M * (-d) = (a % M) - (b % M)
    BY <1>1, <1>2, <1>3, <1>4, <1>6
  <1>8. ~(0 < M * d) /\ ~(0 < M * (-d))
    BY <1>4, <1>7, NoMultipleBetween
  <1>9. b % M = a % M
    BY <1>4, <1>7, <1>8
  <1> QED
    BY <1>1, <1>9

\* Fewer than M successive numbers have different remainders.
LEMMA ModDistinct ==
  ASSUME NEW M \in Nat \ {0}, NEW a \in Int, NEW b \in Int, a < b, b - a < M
  PROVE  a % M # b % M
  <1>1. PICK q \in Int : a = M * q + (a % M)
    BY DivMod, Zenon
  <1>2. PICK t \in Int : b = M * t + (b % M)
    BY DivMod, Zenon
  <1>3. a % M \in Int /\ b % M \in Int
    BY ModRange
  <1>4. ASSUME a % M = b % M PROVE FALSE
    <2>1. b - a = M * t - M * q
      BY <1>1, <1>2, <1>3, <1>4
    <2>2. M * t - M * q = M * (t - q) /\ t - q \in Int
      BY SMT
    <2> QED
      BY <2>1, <2>2, NoMultipleBetween
  <1> QED
    BY <1>4

\* What the proofs use of the constants.
LEMMA Constants ==
  INPUT_BUF \in Nat \ {0} /\ CtrMod \in Nat \ {0} /\ INPUT_BUF < CtrMod
  BY ConsoleAssumption, SMT

LEMMA Multiple ==
  \E q \in Int : CtrMod = INPUT_BUF * q
  <1>1. INPUT_BUF \in Nat \ {0} /\ CtrMod % INPUT_BUF = 0 /\ CtrMod \in Int
    BY ConsoleAssumption, Constants, SMT
  <1>2. PICK q \in Int : CtrMod = INPUT_BUF * q + (CtrMod % INPUT_BUF)
    BY <1>1, DivMod, Zenon
  <1>3. INPUT_BUF * q \in Int
    BY <1>1, SMT
  <1>4. CtrMod = INPUT_BUF * q
    BY <1>1, <1>2, <1>3, SMT
  <1> QED
    BY <1>4, Zenon

\* Adding and subtracting in the circle, without the remainders.
LEMMA Difference ==
  ASSUME NEW a \in Indices, NEW b \in Indices
  PROVE  /\ Add(a, -b) \in Indices
         /\ b <= a => Add(a, -b) = a - b
         /\ a < b => Add(a, -b) = (a - b) + CtrMod
  <1>1. CtrMod \in Nat \ {0} /\ a \in Int /\ b \in Int /\ 0 <= a /\ a < CtrMod /\ 0 <= b /\ b < CtrMod
    BY Constants, SMT DEF Indices
  <1>2. PICK d \in Int : d = a + (-b)
    BY <1>1, SMT
  <1>3. -CtrMod <= d /\ d < CtrMod + CtrMod
    BY <1>1, <1>2, SMT
  <1>4. /\ d < 0 => d % CtrMod = d + CtrMod
        /\ 0 <= d /\ d < CtrMod => d % CtrMod = d
    BY <1>1, <1>3, ModNear, Zenon
  <1>5. Add(a, -b) = d % CtrMod
    BY <1>2, Zenon DEF Add
  <1> QED
    BY <1>1, <1>2, <1>4, <1>5, SMT DEF Indices

LEMMA Increase ==
  ASSUME NEW a \in Indices, NEW b \in Indices
  PROVE  /\ Add(a, b) \in Indices
         /\ a + b < CtrMod => Add(a, b) = a + b
         /\ CtrMod <= a + b => Add(a, b) = (a + b) - CtrMod
  <1>1. CtrMod \in Nat \ {0} /\ a \in Int /\ b \in Int /\ 0 <= a /\ a < CtrMod /\ 0 <= b /\ b < CtrMod
    BY Constants, SMT DEF Indices
  <1>2. PICK d \in Int : d = a + b
    BY <1>1, SMT
  <1>3. -CtrMod <= d /\ d < CtrMod + CtrMod /\ 0 <= d
    BY <1>1, <1>2, SMT
  <1>4. /\ 0 <= d /\ d < CtrMod => d % CtrMod = d
        /\ CtrMod <= d => d % CtrMod = d - CtrMod
    BY <1>1, <1>3, ModNear, Zenon
  <1>5. Add(a, b) = d % CtrMod
    BY <1>2, Zenon DEF Add
  <1> QED
    BY <1>1, <1>2, <1>3, <1>4, <1>5, SMT DEF Indices

LEMMA SmallIndices ==
  0 \in Indices /\ 1 \in Indices /\ INPUT_BUF \in Indices
  BY Constants, SMT DEF Indices
-----------------------------------------------------------------------------
\* The three ways in which the indices move: ^H and ^U, a character, a read.
LEMMA RingBack ==
  ASSUME NEW r0 \in Indices, NEW w0 \in Indices, NEW e0 \in Indices,
         Ring(r0, w0, e0), NEW d \in Indices, d <= Add(e0, -w0)
  PROVE  Add(e0, -d) \in Indices /\ Ring(r0, w0, Add(e0, -d))
  <1>1. PICK e1 \in Indices : e1 = Add(e0, -d)
    BY Difference, Zenon
  <1>2. /\ d <= e0 => e1 = e0 - d
        /\ e0 < d => e1 = (e0 - d) + CtrMod
    BY <1>1, Difference, Zenon
  <1>3. /\ w0 <= e0 => Add(e0, -w0) = e0 - w0
        /\ e0 < w0 => Add(e0, -w0) = (e0 - w0) + CtrMod
        /\ r0 <= e0 => Add(e0, -r0) = e0 - r0
        /\ e0 < r0 => Add(e0, -r0) = (e0 - r0) + CtrMod
        /\ r0 <= w0 => Add(w0, -r0) = w0 - r0
        /\ w0 < r0 => Add(w0, -r0) = (w0 - r0) + CtrMod
        /\ r0 <= e1 => Add(e1, -r0) = e1 - r0
        /\ e1 < r0 => Add(e1, -r0) = (e1 - r0) + CtrMod
    BY Difference, Zenon
  <1>4. Ring(r0, w0, e1)
    BY <1>2, <1>3, Constants, SMT DEF Ring, Indices
  <1> QED
    BY <1>1, <1>4, Zenon

LEMMA RingStore ==
  ASSUME NEW r0 \in Indices, NEW w0 \in Indices, NEW e0 \in Indices,
         Ring(r0, w0, e0), Add(e0, -r0) < INPUT_BUF
  PROVE  /\ Add(e0, 1) \in Indices /\ Ring(r0, Add(e0, 1), Add(e0, 1))
         /\ Add(Add(e0, 1), -r0) = Add(e0, -r0) + 1
         /\ Add(e0, 1) # Add(r0, INPUT_BUF) => Ring(r0, w0, Add(e0, 1))
  <1>1. PICK e1 \in Indices : e1 = Add(e0, 1)
    BY Increase, SmallIndices, Zenon
  <1>2. PICK full \in Indices : full = Add(r0, INPUT_BUF)
    BY Increase, SmallIndices, Zenon
  <1>3. /\ e0 + 1 < CtrMod => e1 = e0 + 1
        /\ CtrMod <= e0 + 1 => e1 = (e0 + 1) - CtrMod
        /\ r0 + INPUT_BUF < CtrMod => full = r0 + INPUT_BUF
        /\ CtrMod <= r0 + INPUT_BUF => full = (r0 + INPUT_BUF) - CtrMod
    BY <1>1, <1>2, Increase, SmallIndices, Zenon
  <1>4. /\ r0 <= e0 => Add(e0, -r0) = e0 - r0
        /\ e0 < r0 => Add(e0, -r0) = (e0 - r0) + CtrMod
        /\ r0 <= w0 => Add(w0, -r0) = w0 - r0
        /\ w0 < r0 => Add(w0, -r0) = (w0 - r0) + CtrMod
        /\ r0 <= e1 => Add(e1, -r0) = e1 - r0
        /\ e1 < r0 => Add(e1, -r0) = (e1 - r0) + CtrMod
    BY Difference, Zenon
  <1>5. Add(e1, -r0) = Add(e0, -r0) + 1
    BY <1>3, <1>4, Constants, SMT DEF Indices
  <1>6. Ring(r0, e1, e1)
    BY <1>3, <1>4, <1>5, Constants, SMT DEF Ring, Indices
  <1>7. e1 # full => Ring(r0, w0, e1)
    BY <1>3, <1>4, <1>5, Constants, SMT DEF Ring, Indices
  <1> QED
    BY <1>1, <1>2, <1>5, <1>6, <1>7, Zenon

LEMMA RingTake ==
  ASSUME NEW r0 \in Indices, NEW w0 \in Indices, NEW e0 \in Indices,
         Ring(r0, w0, e0), r0 # w0
  PROVE  /\ Add(r0, 1) \in Indices /\ Ring(Add(r0, 1), w0, e0)
         /\ Add(w0, -Add(r0, 1)) = Add(w0, -r0) - 1 /\ Add(w0, -r0) > 0
  <1>1. PICK r1 \in Indices : r1 = Add(r0, 1)
    BY Increase, SmallIndices, Zenon
  <1>2. /\ r0 + 1 < CtrMod => r1 = r0 + 1
        /\ CtrMod <= r0 + 1 => r1 = (r0 + 1) - CtrMod
    BY <1>1, Increase, SmallIndices, Zenon
  <1>3. /\ r0 <= e0 => Add(e0, -r0) = e0 - r0
        /\ e0 < r0 => Add(e0, -r0) = (e0 - r0) + CtrMod
        /\ r0 <= w0 => Add(w0, -r0) = w0 - r0
        /\ w0 < r0 => Add(w0, -r0) = (w0 - r0) + CtrMod
        /\ r1 <= e0 => Add(e0, -r1) = e0 - r1
        /\ e0 < r1 => Add(e0, -r1) = (e0 - r1) + CtrMod
        /\ r1 <= w0 => Add(w0, -r1) = w0 - r1
        /\ w0 < r1 => Add(w0, -r1) = (w0 - r1) + CtrMod
    BY Difference, Zenon
  <1>4. Add(w0, -r1) = Add(w0, -r0) - 1 /\ Add(w0, -r0) > 0
    BY <1>2, <1>3, Constants, SMT DEF Indices
  <1>5. Ring(r1, w0, e0)
    BY <1>2, <1>3, <1>4, Constants, SMT DEF Ring, Indices
  <1> QED
    BY <1>1, <1>4, <1>5, Zenon

LEMMA BackAndForth ==
  ASSUME NEW a \in Indices, NEW d \in Indices
  PROVE  Add(a, -Add(a, -d)) = d
  <1>1. PICK b \in Indices : b = Add(a, -d)
    BY Difference, Zenon
  <1>2. /\ d <= a => b = a - d
        /\ a < d => b = (a - d) + CtrMod
        /\ b <= a => Add(a, -b) = a - b
        /\ a < b => Add(a, -b) = (a - b) + CtrMod
    BY <1>1, Difference, Zenon
  <1>3. Add(a, -b) = d
    BY <1>2, Constants, SMT DEF Indices
  <1> QED
    BY <1>1, <1>3, Zenon

LEMMA OneMoreBack ==
  ASSUME NEW a \in Indices, NEW d \in Indices, d > 0
  PROVE  d - 1 \in Indices /\ Add(Add(a, -(d - 1)), -1) = Add(a, -d)
  <1>1. PICK c \in Indices : c = d - 1
    BY Constants, SMT DEF Indices
  <1>2. PICK b \in Indices : b = Add(a, -c)
    BY Difference, Zenon
  <1>3. /\ c <= a => b = a - c
        /\ a < c => b = (a - c) + CtrMod
        /\ d <= a => Add(a, -d) = a - d
        /\ a < d => Add(a, -d) = (a - d) + CtrMod
        /\ 1 <= b => Add(b, -1) = b - 1
        /\ b < 1 => Add(b, -1) = (b - 1) + CtrMod
    BY <1>2, Difference, SmallIndices, Zenon
  <1>4. Add(b, -1) = Add(a, -d)
    BY <1>1, <1>3, Constants, SMT DEF Indices
  <1> QED
    BY <1>1, <1>2, <1>4, Zenon

LEMMA Least ==
  ASSUME NEW S \in SUBSET Nat, S # {}
  PROVE  \E x \in S : \A y \in S : x <= y
  <1> DEFINE R == {ss \in Nat \X Nat : ss[1] < ss[2]}
  <1>1. IsWellFoundedOn(R, Nat)
    BY Zenon, NatLessThanWellFounded DEF OpToRel
  <1>2. PICK x \in S : \A y \in S : ~(<<y, x>> \in R)
    <2> HIDE DEF R
    <2> QED
      BY <1>1, WFMin, Zenon
  <1>3. ASSUME NEW y \in S PROVE x <= y
    <2>1. x \in Nat /\ y \in Nat
      BY Zenon
    <2>2. ~(<<y, x>> \in R)
      BY <1>2, Zenon
    <2> QED
      BY <2>1, <2>2, SMT
  <1> QED
    BY <1>3, Zenon

\* ^U stops at the last newline, and in any case at what is committed.
LEMMA LineStartIs ==
  ASSUME TypeOK, Ring(r, w, e)
  PROVE  \E d \in Indices : d <= Add(e, -w) /\ LineStart(e) = Add(e, -d)
  <1>1. r \in Indices /\ w \in Indices /\ e \in Indices
    BY Zenon DEF TypeOK
  <1>2. PICK u \in Indices : u = Add(e, -w)
    BY <1>1, Difference, Zenon
  <1>3. u <= INPUT_BUF
    <2>1. /\ w <= e => Add(e, -w) = e - w
          /\ e < w => Add(e, -w) = (e - w) + CtrMod
          /\ r <= e => Add(e, -r) = e - r
          /\ e < r => Add(e, -r) = (e - r) + CtrMod
          /\ r <= w => Add(w, -r) = w - r
          /\ w < r => Add(w, -r) = (w - r) + CtrMod
      BY <1>1, Difference, Zenon
    <2> QED
      BY <1>1, <1>2, <2>1, Constants, SMT DEF Ring, Indices
  <1> DEFINE Stop(k) == k = w \/ At(Add(k, -1)) = "\n"
             S == {d \in 0..u : Stop(Add(e, -d))}
  <1>4. S \in SUBSET Nat /\ u \in S
    <2>1. u \in 0..u /\ 0..u \subseteq Nat
      BY <1>2, SMT DEF Indices
    <2>2. Add(e, -u) = w
      BY <1>1, <1>2, BackAndForth, Zenon
    <2> QED
      BY <2>1, <2>2, Zenon
  <1>5. PICK m \in S : \A y \in S : m <= y
    <2> HIDE DEF S
    <2>1. S # {}
      BY <1>4, Zenon
    <2> QED
      BY <1>4, <2>1, Least, Zenon
  <1>6. m \in 0..u /\ Stop(Add(e, -m))
    BY <1>5, Zenon
  <1> HIDE DEF Stop
  <1>7. m \in Indices /\ m <= u /\ m \in 0..INPUT_BUF
    <2>1. m \in 0..u
      BY <1>6, Zenon
    <2> QED
      BY <1>2, <1>3, <2>1, Constants, SMT DEF Indices
  <1>8. ASSUME NEW j \in 1..m PROVE At(Add(e, -j)) # "\n"
    <2>1. j \in Indices /\ j > 0 /\ j - 1 \in 0..u /\ ~(m <= j - 1)
      <3> HIDE DEF S
      <3> QED
        BY <1>2, <1>7, Constants, SMT DEF Indices
    <2>2. ~Stop(Add(e, -(j - 1)))
      BY <1>5, <2>1, Zenon
    <2>3. Add(Add(e, -(j - 1)), -1) = Add(e, -j)
      BY <1>1, <2>1, OneMoreBack, Zenon
    <2> QED
      BY <2>2, <2>3, Zenon DEF Stop
  <1> DEFINE From == {Add(e, -d) : d \in 0..INPUT_BUF}
             IsStart(k) == LET d == Add(e, -k) IN
                /\ d <= Add(e, -w)
                /\ \A j \in 1..d : At(Add(e, -j)) # "\n"
                /\ k = w \/ At(Add(k, -1)) = "\n"
  <1>9. Add(e, -m) \in From /\ IsStart(Add(e, -m))
    <2>1. Add(e, -Add(e, -m)) = m
      BY <1>1, <1>7, BackAndForth, Zenon
    <2> QED
      BY <1>2, <1>6, <1>7, <1>8, <2>1, Zenon DEF Stop
  <1>10. LineStart(e) = CHOOSE k \in From : IsStart(k)
    BY Zenon DEF LineStart
  <1> HIDE DEF IsStart
  <1>11. LineStart(e) \in From /\ IsStart(LineStart(e))
    BY <1>9, <1>10, Zenon
  <1>12. PICK d \in 0..INPUT_BUF : LineStart(e) = Add(e, -d)
    BY <1>11, Zenon
  <1>13. d \in Indices
    BY <1>12, Constants, SMT DEF Indices
  <1>14. Add(e, -LineStart(e)) = d
    BY <1>1, <1>12, <1>13, BackAndForth, Zenon
  <1>15. d <= Add(e, -w)
    BY <1>11, <1>14, Zenon DEF IsStart
  <1> QED
    BY <1>12, <1>13, <1>15, Zenon
-----------------------------------------------------------------------------
LEMMA InitInv == Init => IInv
  <1> SUFFICES ASSUME Init PROVE IInv
    OBVIOUS
  <1>1. 0 \in Indices /\ "x" \in Stored /\ Add(0, -0) = 0
    <2>1. 0 \in Indices
      BY SmallIndices, Zenon
    <2>2. Add(0, -0) = 0 - 0
      BY <2>1, Difference, SMT
    <2> QED
      BY <2>1, <2>2, SMT DEF Stored
  <1>2. TypeOK
    BY <1>1, SMT DEF Init, TypeOK, Holding
  <1>3. Ring(r, w, e)
    BY <1>1, Constants, SMT DEF Init, Ring
  <1>4. asleep = {}
    BY Zenon DEF Init
  <1>5. ASSUME NEW p \in Procs PROVE PlaceOK(p)
    BY ConsoleAssumption, SMT DEF Init, PlaceOK, Holding
  <1> QED
    BY <1>2, <1>3, <1>4, <1>5, Zenon DEF IInv

\* A typed character does not touch the readers.
LEMMA IntrPlaces ==
  ASSUME IInv, r' = r, UNCHANGED <<lock, pc, n, got>>, NEW p \in Procs
  PROVE  pc[p] # "sleep" => PlaceOK(p)'
  BY Zenon DEF IInv, PlaceOK

\* With cons.lock free nobody is between the test and the sleep.
LEMMA FreeLock ==
  ASSUME IInv, lock = None, NEW p \in Procs
  PROVE  pc[p] \notin Holding
  BY ConsoleAssumption, Zenon DEF IInv, PlaceOK

LEMMA EditInv ==
  ASSUME IInv, lock = None, UNCHANGED <<buf, w, asleep>>,
         UNCHANGED <<r, lock, pc, n, got, killed>>,
         NEW d \in Indices, d <= Add(e, -w), e' = Add(e, -d)
  PROVE  IInv'
  <1>1. e' \in Indices /\ Ring(r, w, e')
    BY RingBack, Zenon DEF IInv, TypeOK
  <1>2. TypeOK'
    BY <1>1, Zenon DEF IInv, TypeOK, Indices
  <1>3. Ring(r, w, e)'
    BY <1>1, Zenon DEF Ring, Add
  <1>4. ASSUME NEW p \in Procs PROVE PlaceOK(p)'
    BY IntrPlaces, FreeLock, Zenon DEF Holding
  <1>5. (asleep # {} => r = w)'
    BY Zenon DEF IInv
  <1> QED
    BY <1>2, <1>3, <1>4, <1>5, Zenon DEF IInv

\* What consoleintr stores.
LEMMA TranslateStored ==
  ASSUME NEW c \in Typed, c \notin {"^P", "^U", "^H", "nul"}
  PROVE  Translate(c) \in Stored
  BY SMT DEF Typed, Translate, Stored

LEMMA StoreInv ==
  ASSUME IInv, lock = None, UNCHANGED <<r, lock, pc, n, got, killed>>,
         NEW c \in Stored, Room, buf' = [buf EXCEPT ![e % INPUT_BUF] = c], e' = Add(e, 1),
         IF Commits(c, Add(e, 1)) THEN w' = Add(e, 1) /\ wakeup ELSE UNCHANGED <<w, asleep>>
  PROVE  IInv'
  <1>1. /\ Add(e, 1) \in Indices /\ Ring(r, Add(e, 1), Add(e, 1))
        /\ Add(e, 1) # Add(r, INPUT_BUF) => Ring(r, w, Add(e, 1))
    BY RingStore, Zenon DEF IInv, TypeOK, Room
  <1>2. w' \in Indices /\ Ring(r, w', e')
    BY <1>1, Zenon DEF IInv, TypeOK, Commits
  <1>3. TypeOK'
    <2>1. buf' \in [0..(INPUT_BUF - 1) -> Stored]
      BY Zenon DEF IInv, TypeOK
    <2> QED
      BY <1>1, <1>2, <2>1, Zenon DEF IInv, TypeOK, Indices
  <1>4. Ring(r, w, e)'
    BY <1>2, Zenon DEF Ring, Add
  <1>5. ASSUME NEW p \in Procs PROVE PlaceOK(p)'
    BY IntrPlaces, FreeLock, Zenon DEF Holding
  <1>6. (asleep # {} => r = w)'
    BY Zenon DEF IInv, wakeup
  <1> QED
    BY <1>3, <1>4, <1>5, <1>6, Zenon DEF IInv

LEMMA consoleintrInv ==
  ASSUME IInv, NEW c \in Typed, consoleintr(c)
  PROVE  IInv'
  <1>1. lock = None /\ UNCHANGED <<r, lock, pc, n, got, killed>>
    BY Zenon DEF consoleintr
  <1>2. r \in Indices /\ w \in Indices /\ e \in Indices
    BY Zenon DEF IInv, TypeOK
  <1>3. Add(e, -0) = e /\ 0 \in Indices /\ 1 \in Indices /\ 0 <= Add(e, -w)
    <2>1. 0 \in Indices /\ 1 \in Indices /\ Add(e, -w) \in Indices
      BY <1>2, SmallIndices, Difference, Zenon
    <2>2. 0 <= e => Add(e, -0) = e - 0
      BY <1>2, <2>1, Difference, Zenon
    <2> QED
      BY <1>2, <2>1, <2>2, Constants, SMT DEF Indices
  <1>4. CASE UNCHANGED <<buf, w, e, asleep>>
    <2>1. e' = Add(e, -0) /\ UNCHANGED <<buf, w, asleep>>
      BY <1>3, <1>4, Zenon
    <2> QED
      BY <1>1, <1>3, <2>1, EditInv, Zenon
  <1>5. CASE c = "^U" /\ e' = LineStart(e) /\ UNCHANGED <<buf, w, asleep>>
    <2>1. PICK d \in Indices : d <= Add(e, -w) /\ e' = Add(e, -d)
      BY <1>5, LineStartIs, Zenon DEF IInv
    <2> QED
      BY <1>1, <1>5, <2>1, EditInv, Zenon
  <1>6. CASE c = "^H" /\ Erase /\ UNCHANGED <<buf, w, asleep>>
    <2>1. CASE e = w
      BY <1>4, <1>6, <2>1, Zenon DEF Erase
    <2>2. CASE e # w
      <3>1. /\ w <= e => Add(e, -w) = e - w
            /\ e < w => Add(e, -w) = (e - w) + CtrMod
        BY <1>2, Difference, Zenon
      <3>2. 1 <= Add(e, -w)
        BY <1>2, <2>2, <3>1, Constants, SMT DEF Indices
      <3>3. e' = Add(e, -1)
        BY <1>6, <2>2, Zenon DEF Erase
      <3> QED
        BY <1>1, <1>3, <1>6, <3>2, <3>3, EditInv, Zenon
    <2> QED
      BY <2>1, <2>2, Zenon
  <1>7. CASE c \notin {"^P", "^U", "^H"} /\ Store(c)
    <2>1. CASE c # "nul" /\ Room
      <3>1. Translate(c) \in Stored
        BY <1>7, <2>1, TranslateStored, Zenon
      <3>2. /\ buf' = [buf EXCEPT ![e % INPUT_BUF] = Translate(c)]
            /\ e' = Add(e, 1)
            /\ IF Commits(Translate(c), Add(e, 1)) THEN w' = Add(e, 1) /\ wakeup
                                                   ELSE UNCHANGED <<w, asleep>>
        BY <1>7, <2>1, Zenon DEF Store
      <3> QED
        BY <1>1, <2>1, <3>1, <3>2, StoreInv, Zenon
    <2>2. CASE ~(c # "nul" /\ Room)
      BY <1>4, <1>7, <2>2, Zenon DEF Store
    <2> QED
      BY <2>1, <2>2, Zenon
  <1> QED
    BY <1>4, <1>5, <1>6, <1>7, SMT DEF consoleintr
-----------------------------------------------------------------------------
\* A reader's step leaves the other readers where they are.
LEMMA OthersKeep ==
  ASSUME IInv, NEW p \in Procs, NEW q \in Procs, p # q,
         pc'[q] = pc[q], got'[q] = got[q],
         \/ lock' = lock /\ r' = r /\ w' = w
         \/ lock \in {None, p} /\ lock' \in {None, p}
  PROVE  PlaceOK(q)'
  <1>1. PlaceOK(q) /\ None # q
    BY ConsoleAssumption, Zenon DEF IInv
  <1>2. CASE lock' = lock /\ r' = r /\ w' = w
    BY <1>1, <1>2, Zenon DEF PlaceOK
  <1>3. CASE lock \in {None, p} /\ lock' \in {None, p}
    <2>1. lock # q /\ lock' # q
      BY <1>1, <1>3, Zenon
    <2>2. pc[q] \notin Holding /\ pc[q] # "sleep"
      BY <1>1, <2>1, Zenon DEF PlaceOK, Holding
    <2> QED
      BY <1>1, <2>1, <2>2, Zenon DEF PlaceOK
  <1> QED
    BY <1>2, <1>3, Zenon

\* Where nothing was read, only the readers' own state has moved.
LEMMA ReaderInv ==
  ASSUME IInv, NEW p \in Procs, UNCHANGED cons,
         lock' \in Procs \union {None},
         \/ lock' = lock
         \/ lock \in {None, p} /\ lock' \in {None, p},
         NEW l \in {"user", "acquire"} \union Holding, pc' = [pc EXCEPT ![p] = l],
         n' \in [Procs -> Int],
         NEW g \in Seq(Stored), got' = [got EXCEPT ![p] = g],
         asleep' # {} => r = w, PlaceOK(p)'
  PROVE  IInv'
  <1>1. r' = r /\ w' = w /\ e' = e /\ buf' = buf
    BY Zenon DEF cons
  <1>2. TypeOK'
    BY <1>1, Zenon DEF IInv, TypeOK, Indices
  <1>3. Ring(r, w, e)' /\ (asleep # {} => r = w)'
    BY <1>1, Zenon DEF IInv, Ring, Add
  <1>4. ASSUME NEW q \in Procs, q # p PROVE PlaceOK(q)'
    <2>1. pc'[q] = pc[q] /\ got'[q] = got[q]
      BY <1>4, Zenon DEF IInv, TypeOK
    <2> QED
      BY <1>1, <1>4, <2>1, OthersKeep, Zenon
  <1> QED
    BY <1>2, <1>3, <1>4, Zenon DEF IInv

\* What holds of a reader, and what its next step finds.
LEMMA Reader ==
  ASSUME IInv, NEW p \in Procs
  PROVE  /\ PlaceOK(p) /\ got[p] \in Seq(Stored) /\ got = [got EXCEPT ![p] = got[p]]
         /\ n \in [Procs -> Int] /\ n[p] \in Int
         /\ lock \in Procs \union {None}
         /\ \A l : [pc EXCEPT ![p] = l][p] = l
         /\ \A g : [got EXCEPT ![p] = g][p] = g
  BY Zenon DEF IInv, TypeOK

LEMMA CallInv ==
  ASSUME IInv, NEW p \in Procs, Call(p)
  PROVE  IInv'
  <1>1. /\ pc[p] = "user" /\ pc' = [pc EXCEPT ![p] = "acquire"]
        /\ UNCHANGED <<cons, lock, asleep, got, killed>>
    BY Zenon DEF Call, Goto
  <1>2. n' \in [Procs -> Int]
    <2>1. PICK m \in 0..MaxN : n' = [n EXCEPT ![p] = m]
      BY Zenon DEF Call
    <2>2. m \in Int
      BY ConsoleAssumption, <2>1, SMT
    <2> QED
      BY <2>1, <2>2, Reader, Zenon
  <1>3. pc'[p] = "acquire" /\ got'[p] = got[p] /\ got[p] = <<>>
    BY <1>1, Reader, Zenon DEF PlaceOK
  <1>4. PlaceOK(p)'
    <2>1. lock # p /\ lock' # p
      BY <1>1, Reader, SMT DEF PlaceOK, Holding
    <2>2. Len(got'[p]) = 0
      BY <1>3, SMT
    <2> QED
      BY <1>3, <2>1, <2>2, SMT DEF PlaceOK, Holding
  <1>5. asleep' # {} => r = w
    BY <1>1, Zenon DEF IInv
  <1>6. "acquire" \in {"user", "acquire"} \union Holding
    BY Zenon
  <1> QED
    BY <1>1, <1>2, <1>4, <1>5, <1>6, Reader, ReaderInv, ZenonT(30)

LEMMA AcquireInv ==
  ASSUME IInv, NEW p \in Procs, Acquire(p)
  PROVE  IInv'
  <1>1. /\ pc[p] = "acquire" /\ pc' = [pc EXCEPT ![p] = "read"] /\ lock = None /\ lock' = p
        /\ UNCHANGED <<cons, asleep, n, got, killed>>
    BY Zenon DEF Acquire, Goto
  <1>2. pc'[p] = "read" /\ got'[p] = got[p] /\ "read" \in Holding
    BY <1>1, Reader, Zenon DEF Holding
  <1>3. \A k \in 1..Len(got[p]) : got[p][k] # "\n"
    BY <1>1, Reader, SMT DEF PlaceOK
  <1>4. \A k \in 1..(Len(got[p]) - 1) : got[p][k] # "\n"
    BY Reader, Zenon DEF PlaceOK
  <1>5. PlaceOK(p)'
    BY <1>1, <1>2, <1>3, <1>4, Zenon DEF PlaceOK
  <1>6. asleep' # {} => r = w
    BY <1>1, Zenon DEF IInv
  <1>7. n' \in [Procs -> Int] /\ got' = [got EXCEPT ![p] = got[p]] /\ got[p] \in Seq(Stored)
    BY <1>1, Reader, Zenon
  <1> QED
    BY <1>1, <1>2, <1>5, <1>6, <1>7, ReaderInv, ZenonT(30)

\* consoleread returns from a place where it has the lock.
LEMMA ReturnInv ==
  ASSUME IInv, NEW p \in Procs, pc[p] \in Holding, UNCHANGED cons, Return(p)
  PROVE  IInv'
  <1>1. /\ pc' = [pc EXCEPT ![p] = "user"] /\ lock' = None /\ n' = [n EXCEPT ![p] = 0]
        /\ got' = [got EXCEPT ![p] = <<>>] /\ asleep' = asleep
    BY Zenon DEF Return, Goto
  <1>2. lock = p
    BY Reader, Zenon DEF PlaceOK
  <1>3. pc'[p] = "user" /\ got'[p] = <<>> /\ None # p
    BY ConsoleAssumption, <1>1, Reader, Zenon
  <1>4. PlaceOK(p)'
    <2>1. Len(got'[p]) = 0
      BY <1>3, SMT
    <2> QED
      BY <1>1, <1>3, <2>1, SMT DEF PlaceOK, Holding
  <1>5. asleep' # {} => r = w
    BY <1>1, Zenon DEF IInv
  <1>6. n' \in [Procs -> Int]
    BY <1>1, Reader, SMT
  <1>7. <<>> \in Seq(Stored)
    BY SMT
  <1> QED
    BY <1>1, <1>2, <1>4, <1>5, <1>6, <1>7, ReaderInv, ZenonT(30)

LEMMA WaitInv ==
  ASSUME IInv, NEW p \in Procs, Wait(p)
  PROVE  IInv'
  <1>1. pc[p] = "read" /\ r = w /\ UNCHANGED cons /\ pc[p] \in Holding
    BY Zenon DEF Wait, Holding
  <1>2. CASE Return(p)
    BY <1>1, <1>2, ReturnInv, Zenon
  <1>3. CASE Goto(p, "sleep") /\ UNCHANGED <<lock, asleep, n, got, killed>>
    <2>1. pc' = [pc EXCEPT ![p] = "sleep"] /\ lock = p /\ lock' = p
      BY <1>1, <1>3, Reader, Zenon DEF Goto, PlaceOK
    <2>2. pc'[p] = "sleep" /\ got'[p] = got[p] /\ "sleep" \in Holding /\ r' = w'
      BY <1>1, <1>3, <2>1, Reader, Zenon DEF Holding, cons
    <2>3. \A k \in 1..Len(got[p]) : got[p][k] # "\n"
      BY <1>1, Reader, SMT DEF PlaceOK
    <2>4. \A k \in 1..(Len(got[p]) - 1) : got[p][k] # "\n"
      BY Reader, Zenon DEF PlaceOK
    <2>5. PlaceOK(p)'
      BY <2>1, <2>2, <2>3, <2>4, Zenon DEF PlaceOK
    <2>6. n' \in [Procs -> Int] /\ got' = [got EXCEPT ![p] = got[p]] /\ got[p] \in Seq(Stored)
      BY <1>3, Reader, Zenon
    <2> QED
      BY <1>1, <2>1, <2>2, <2>5, <2>6, ReaderInv, ZenonT(30)
  <1> QED
    BY <1>2, <1>3, Zenon DEF Wait

LEMMA SleepInv ==
  ASSUME IInv, NEW p \in Procs, Sleep(p)
  PROVE  IInv'
  <1>1. /\ pc[p] = "sleep" /\ pc' = [pc EXCEPT ![p] = "acquire"] /\ lock' = None
        /\ UNCHANGED <<cons, n, got, killed>>
    BY Zenon DEF Sleep, Goto
  <1>2. lock = p /\ r = w /\ None # p
    BY ConsoleAssumption, <1>1, Reader, Zenon DEF PlaceOK, Holding
  <1>3. pc'[p] = "acquire" /\ got'[p] = got[p] /\ "acquire" \notin Holding
    <2>1. "acquire" \notin Holding
      BY SMT DEF Holding
    <2> QED
      BY <1>1, <2>1, Reader, Zenon
  <1>4. \A k \in 1..Len(got[p]) : got[p][k] # "\n"
    BY <1>1, Reader, SMT DEF PlaceOK
  <1>5. \A k \in 1..(Len(got[p]) - 1) : got[p][k] # "\n"
    BY Reader, Zenon DEF PlaceOK
  <1>6. PlaceOK(p)'
    BY <1>1, <1>2, <1>3, <1>4, <1>5, Zenon DEF PlaceOK
  <1>7. n' \in [Procs -> Int] /\ got' = [got EXCEPT ![p] = got[p]] /\ got[p] \in Seq(Stored)
    BY <1>1, Reader, Zenon
  <1> QED
    BY <1>1, <1>2, <1>6, <1>7, ReaderInv, ZenonT(30)

LEMMA DoneInv ==
  ASSUME IInv, NEW p \in Procs, Done(p)
  PROVE  IInv'
  BY ReturnInv, Zenon DEF Done, Holding

LEMMA killInv ==
  ASSUME IInv, NEW p \in Procs, kill(p)
  PROVE  IInv'
  <1>1. /\ r' = r /\ w' = w /\ e' = e /\ buf' = buf /\ UNCHANGED <<lock, pc, n, got>>
        /\ asleep' \subseteq asleep
    BY Zenon DEF kill, cons
  <1>2. TypeOK'
    BY <1>1, Zenon DEF IInv, TypeOK, Indices
  <1>3. Ring(r, w, e)' /\ (asleep # {} => r = w)'
    BY <1>1, Zenon DEF IInv, Ring, Add
  <1>4. ASSUME NEW q \in Procs PROVE PlaceOK(q)'
    BY <1>1, Zenon DEF IInv, PlaceOK
  <1> QED
    BY <1>2, <1>3, <1>4, Zenon DEF IInv

\* A character or an end-of-file is taken: nobody can be asleep.
LEMMA TakeInv ==
  ASSUME IInv, NEW p \in Procs, pc[p] = "read", r # w, r' = Add(r, 1),
         UNCHANGED <<buf, w, e, lock, asleep>>,
         NEW l \in {"read", "done"}, pc' = [pc EXCEPT ![p] = l], n' \in [Procs -> Int],
         NEW g \in Seq(Stored), got' = [got EXCEPT ![p] = g],
         l # "done" => \A k \in 1..Len(g) : g[k] # "\n",
         \A k \in 1..(Len(g) - 1) : g[k] # "\n"
  PROVE  IInv'
  <1>1. r \in Indices /\ w \in Indices /\ e \in Indices /\ Ring(r, w, e)
    BY Zenon DEF IInv, TypeOK
  <1>2. r' \in Indices /\ Ring(r', w, e)
    BY <1>1, RingTake, Zenon
  <1>3. Ring(r, w, e)'
    BY <1>2, Zenon DEF Ring, Add
  <1>4. lock = p /\ lock' = p /\ asleep' = {} /\ l \in Holding
    BY Reader, Zenon DEF PlaceOK, Holding, IInv
  <1>5. TypeOK'
    <2>1. pc' \in [Procs -> {"user", "acquire"} \union Holding]
      BY <1>4, Zenon DEF IInv, TypeOK
    <2> QED
      BY <1>2, <2>1, Zenon DEF IInv, TypeOK, Indices
  <1>6. pc'[p] = l /\ got'[p] = g /\ l # "user" /\ l # "sleep"
    <2>1. l # "user" /\ l # "sleep"
      BY SMT
    <2> QED
      BY <2>1, Reader, Zenon
  <1>7. PlaceOK(p)'
    BY <1>4, <1>6, Zenon DEF PlaceOK
  <1>8. ASSUME NEW q \in Procs, q # p PROVE PlaceOK(q)'
    <2>1. pc'[q] = pc[q] /\ got'[q] = got[q]
      BY <1>8, Zenon DEF IInv, TypeOK
    <2> QED
      BY <1>4, <1>8, <2>1, OthersKeep, Zenon
  <1> QED
    BY <1>3, <1>4, <1>5, <1>7, <1>8, Zenon DEF IInv

LEMMA ReadEofInv ==
  ASSUME IInv, NEW p \in Procs, ReadEof(p)
  PROVE  IInv'
  <1>1. /\ pc[p] = "read" /\ r # w /\ r' = AfterEof(p) /\ pc' = [pc EXCEPT ![p] = "done"]
        /\ UNCHANGED <<buf, w, e, lock, asleep, n, got, killed>>
    BY Zenon DEF ReadEof, Goto
  <1>2. lock = p /\ "done" \in Holding /\ pc'[p] = "done" /\ got'[p] = got[p]
    BY <1>1, Reader, Zenon DEF PlaceOK, Holding
  <1>3. \A k \in 1..(Len(got[p]) - 1) : got[p][k] # "\n"
    BY Reader, Zenon DEF PlaceOK
  <1>4. n' \in [Procs -> Int] /\ got' = [got EXCEPT ![p] = got[p]] /\ got[p] \in Seq(Stored)
    BY <1>1, Reader, Zenon
  <1>5. CASE got[p] # <<>>
    <2>1. UNCHANGED cons
      BY <1>1, <1>5, Zenon DEF cons, AfterEof
    <2>2. PlaceOK(p)'
      <3>1. "done" # "user" /\ "done" # "sleep"
        BY SMT
      <3> QED
        BY <1>1, <1>2, <1>3, <3>1, Zenon DEF PlaceOK
    <2>3. asleep' # {} => r = w
      BY <1>1, Zenon DEF IInv
    <2> QED
      BY <1>1, <1>2, <1>4, <2>1, <2>2, <2>3, ReaderInv, ZenonT(30)
  <1>6. CASE got[p] = <<>>
    <2>1. r' = Add(r, 1)
      BY <1>1, <1>6, Zenon DEF AfterEof
    <2> QED
      BY <1>1, <1>3, <1>4, <2>1, TakeInv, ZenonT(30)
  <1> QED
    BY <1>5, <1>6, Zenon

\* The characters of the buffer.
LEMMA AtStored ==
  ASSUME IInv, NEW k \in Int
  PROVE  At(k) \in Stored
  <1>1. k % INPUT_BUF \in 0..(INPUT_BUF - 1)
    BY Constants, ModRange, Zenon
  <1> QED
    BY <1>1, Zenon DEF IInv, TypeOK, At

LEMMA ReadCharInv ==
  ASSUME IInv, NEW p \in Procs, ReadChar(p)
  PROVE  IInv'
  <1>1. /\ pc[p] = "read" /\ r # w /\ r' = Add(r, 1)
        /\ UNCHANGED <<buf, w, e, lock, asleep, killed>>
    BY Zenon DEF ReadChar
  <1>2. /\ \A k \in 1..Len(got[p]) : got[p][k] # "\n"
        /\ \A k \in 1..(Len(got[p]) - 1) : got[p][k] # "\n"
    BY <1>1, Reader, SMT DEF PlaceOK
  <1>3. CASE /\ got' = [got EXCEPT ![p] = Append(@, At(r))]
             /\ n' = [n EXCEPT ![p] = @ - 1]
             /\ IF EndsLine(At(r)) THEN Goto(p, "done") ELSE UNCHANGED pc
    <2>1. PICK c \in Stored : c = At(r)
      <3>1. r \in Int
        BY SMT DEF IInv, TypeOK, Indices
      <3> QED
        BY <3>1, AtStored, Zenon
    <2>2. PICK g \in Seq(Stored) : g = Append(got[p], c)
      BY Reader, AppendProperties, Zenon
    <2>3. got' = [got EXCEPT ![p] = g]
      BY <1>3, <2>1, <2>2, Zenon
    <2>4. /\ \A k \in 1..(Len(g) - 1) : g[k] # "\n"
          /\ c # "\n" => \A k \in 1..Len(g) : g[k] # "\n"
      <3>1. got[p] \in Seq(Stored)
        BY Reader, Zenon
      <3>2. /\ Len(g) = Len(got[p]) + 1 /\ Len(got[p]) \in Nat
            /\ \A k \in 1..Len(got[p]) : g[k] = got[p][k]
            /\ g[Len(got[p]) + 1] = c
        BY <2>2, <3>1, SMT
      <3>3. ASSUME NEW k \in 1..(Len(g) - 1) PROVE g[k] # "\n"
        <4>1. k \in 1..Len(got[p])
          BY <3>2, SMT
        <4> QED
          BY <1>2, <3>2, <4>1, Zenon
      <3>4. ASSUME c # "\n", NEW k \in 1..Len(g) PROVE g[k] # "\n"
        <4>1. k \in 1..Len(got[p]) \/ k = Len(got[p]) + 1
          BY <3>2, SMT
        <4> QED
          BY <1>2, <3>2, <3>4, <4>1, Zenon
      <3> QED
        BY <3>3, <3>4, Zenon
    <2>5. PICK l \in {"read", "done"} : pc' = [pc EXCEPT ![p] = l] /\ (l # "done" => c # "\n")
      <3>1. CASE EndsLine(c)
        BY <1>3, <2>1, <3>1, Zenon DEF Goto
      <3>2. CASE ~EndsLine(c)
        <4>1. pc' = [pc EXCEPT ![p] = "read"]
          BY <1>1, <1>3, <2>1, <3>2, Zenon DEF IInv, TypeOK
        <4> QED
          BY <3>2, <4>1, Zenon DEF EndsLine
      <3> QED
        BY <3>1, <3>2, Zenon
    <2>6. n' \in [Procs -> Int]
      BY <1>3, Reader, SMT
    <2>7. l # "done" => \A k \in 1..Len(g) : g[k] # "\n"
      BY <2>4, <2>5, Zenon
    <2> QED
      BY <1>1, <2>3, <2>4, <2>5, <2>6, <2>7, TakeInv, ZenonT(30)
  <1>4. CASE Goto(p, "done") /\ UNCHANGED <<got, n>>
    <2>1. pc' = [pc EXCEPT ![p] = "done"]
      BY <1>4, Zenon DEF Goto
    <2>2. n' \in [Procs -> Int] /\ got' = [got EXCEPT ![p] = got[p]] /\ got[p] \in Seq(Stored)
      BY <1>4, Reader, Zenon
    <2> QED
      BY <1>1, <1>2, <2>1, <2>2, TakeInv, ZenonT(30)
  <1> QED
    BY <1>3, <1>4, Zenon DEF ReadChar

LEMMA NextInv == IInv /\ [Next]_vars => IInv'
  <1> SUFFICES ASSUME IInv, [Next]_vars PROVE IInv'
    OBVIOUS
  <1>1. ASSUME NEW p \in Procs, consoleread(p) PROVE IInv'
    BY <1>1, AcquireInv, WaitInv, SleepInv, ReadEofInv, ReadCharInv, DoneInv, Zenon DEF consoleread
  <1>2. CASE UNCHANGED vars
    <2>1. /\ r' = r /\ w' = w /\ e' = e /\ buf' = buf /\ UNCHANGED <<lock, pc, n, got>>
          /\ asleep' = asleep
      BY <1>2, Zenon DEF vars, cons
    <2>2. TypeOK'
      BY <2>1, Zenon DEF IInv, TypeOK, Indices
    <2>3. Ring(r, w, e)' /\ (asleep # {} => r = w)'
      BY <2>1, Zenon DEF IInv, Ring, Add
    <2>4. ASSUME NEW q \in Procs PROVE PlaceOK(q)'
      BY <2>1, Zenon DEF IInv, PlaceOK
    <2> QED
      BY <2>2, <2>3, <2>4, Zenon DEF IInv
  <1> QED
    BY <1>1, <1>2, consoleintrInv, CallInv, killInv, Zenon DEF Next

\* Every state of every behaviour of consoleintr and consoleread satisfies the
\* inductive invariant.
THEOREM Invariance == Spec => []IInv
  <1>1. Init => IInv
    BY InitInv, Zenon
  <1>2. IInv /\ [Next]_vars => IInv'
    BY NextInv, Zenon
  <1> QED
    BY <1>1, <1>2, PTL DEF Spec

\* For any number of readers and any size of the buffer: no reader sleeps on
\* committed input, a full buffer is committed, and a newline ends a read.
THEOREM AlwaysDelivered == Spec => []InputDelivered
  <1>1. IInv => InputDelivered
    BY Zenon DEF IInv, Ring, PlaceOK, InputDelivered
  <1> QED
    BY <1>1, Invariance, PTL
-----------------------------------------------------------------------------
\* The committed input as a sequence.
CommittedOf(b0, r0, w0) == [k \in 1..Add(w0, -r0) |-> b0[(r0 + k - 1) % INPUT_BUF]]

Lists(s, b0, r0, m) ==
    /\ s \in Seq(Stored) /\ Len(s) = m
    /\ \A k \in 1..m : s[k] = b0[(r0 + k - 1) % INPUT_BUF]

LEMMA CommittedIs ==
  ASSUME NEW b0 \in [0..(INPUT_BUF - 1) -> Stored],
         NEW r0 \in Indices, NEW w0 \in Indices
  PROVE  Lists(CommittedOf(b0, r0, w0), b0, r0, Add(w0, -r0))
  <1>1. PICK u \in Nat : u = Add(w0, -r0)
    <2>1. Add(w0, -r0) \in Indices
      BY Difference, Zenon
    <2> QED
      BY <2>1, SMT DEF Indices
  <1>2. ASSUME NEW k \in 1..u PROVE b0[(r0 + k - 1) % INPUT_BUF] \in Stored
    <2>1. PICK x \in Int : x = r0 + k - 1
      BY Constants, SMT DEF Indices
    <2>2. x % INPUT_BUF \in 0..(INPUT_BUF - 1)
      BY Constants, ModRange, Zenon
    <2> QED
      BY <2>1, <2>2, Zenon
  <1>3. CommittedOf(b0, r0, w0) \in [1..u -> Stored]
    BY <1>1, <1>2, Zenon DEF CommittedOf
  <1>4. CommittedOf(b0, r0, w0) \in Seq(Stored) /\ Len(CommittedOf(b0, r0, w0)) = u
    BY <1>3, SMT
  <1>5. \A k \in 1..Add(w0, -r0) : CommittedOf(b0, r0, w0)[k] = b0[(r0 + k - 1) % INPUT_BUF]
    BY Zenon DEF CommittedOf
  <1> QED
    BY <1>1, <1>4, <1>5, Zenon DEF Lists

Extended(s, t) == Len(s) <= Len(t) /\ SubSeq(t, 1, Len(s)) = s

LEMMA PrefixIs ==
  ASSUME NEW s \in Seq(Stored), NEW t \in Seq(Stored), Len(s) <= Len(t),
         \A k \in 1..Len(s) : s[k] = t[k]
  PROVE  Extended(s, t)
  <1>1. Len(s) \in Nat /\ Len(s) \in Int /\ 1 \in Int /\ Len(t) \in Nat
    BY SMT
  <1>2. \A k \in 1..Len(s) : t[k] \in Stored
    BY SMT
  <1>3. /\ SubSeq(t, 1, Len(s)) \in Seq(Stored)
        /\ Len(SubSeq(t, 1, Len(s))) = IF 1 <= Len(s) THEN Len(s) - 1 + 1 ELSE 0
        /\ \A k \in 1..(Len(s) - 1 + 1) : SubSeq(t, 1, Len(s))[k] = t[1 + k - 1]
    BY <1>1, <1>2, SubSeqProperties, SMTT(30)
  <1>4. /\ Len(SubSeq(t, 1, Len(s))) = Len(s)
        /\ \A k \in 1..Len(s) : s[k] = SubSeq(t, 1, Len(s))[k]
    BY <1>1, <1>3, SMT
  <1>5. s = SubSeq(t, 1, Len(s))
    BY <1>3, <1>4, SeqEqual, Zenon
  <1> QED
    BY <1>5, Zenon DEF Extended

\* The place a character is stored at is none of the committed ones.
LEMMA StoreKeeps ==
  ASSUME NEW b0 \in [0..(INPUT_BUF - 1) -> Stored], NEW c \in Stored,
         NEW r0 \in Indices, NEW w0 \in Indices, NEW e0 \in Indices,
         Ring(r0, w0, e0), Add(e0, -r0) < INPUT_BUF,
         NEW w1 \in Indices, w1 = w0 \/ w1 = Add(e0, 1)
  PROVE  Extended(CommittedOf(b0, r0, w0), CommittedOf([b0 EXCEPT ![e0 % INPUT_BUF] = c], r0, w1))
  <1>1. PICK b1 \in [0..(INPUT_BUF - 1) -> Stored] : b1 = [b0 EXCEPT ![e0 % INPUT_BUF] = c]
    BY Zenon
  <1>2. PICK u \in Indices : u = Add(e0, -r0)
    BY Difference, Zenon
  <1>3. PICK v \in Indices : v = Add(w0, -r0)
    BY Difference, Zenon
  <1>4. u \in Nat /\ v \in Nat /\ v <= u /\ u < INPUT_BUF /\ r0 \in Int /\ e0 \in Int
    BY <1>2, <1>3, Constants, SMT DEF Ring, Indices
  <1>5. (r0 + u) % INPUT_BUF = e0 % INPUT_BUF
    <2>1. /\ r0 <= e0 => u = e0 - r0
          /\ e0 < r0 => u = (e0 - r0) + CtrMod
      BY <1>2, Difference, Zenon
    <2>2. PICK q \in Int : CtrMod = INPUT_BUF * q
      BY Multiple, Zenon
    <2>3. (e0 + INPUT_BUF * q) % INPUT_BUF = e0 % INPUT_BUF
      BY <1>4, Constants, ModPeriod, Zenon
    <2>4. r0 + u = e0 \/ r0 + u = e0 + CtrMod
      BY <1>4, <2>1, Constants, SMT
    <2> QED
      BY <2>2, <2>3, <2>4, Zenon
  <1>6. ASSUME NEW k \in 1..v
        PROVE  b1[(r0 + k - 1) % INPUT_BUF] = b0[(r0 + k - 1) % INPUT_BUF]
    <2>1. PICK x \in Int : x = r0 + k - 1
      BY <1>4, SMT
    <2>2. PICK y \in Int : y = r0 + u
      BY <1>4, SMT
    <2>3. x < y /\ y - x < INPUT_BUF
      BY <1>4, <2>1, <2>2, Constants, SMT
    <2>4. x % INPUT_BUF # y % INPUT_BUF
      BY <2>3, Constants, ModDistinct, Zenon
    <2>5. x % INPUT_BUF # e0 % INPUT_BUF /\ x % INPUT_BUF \in 0..(INPUT_BUF - 1)
      BY <1>5, <2>2, <2>4, Constants, ModRange, Zenon
    <2>6. b1[x % INPUT_BUF] = b0[x % INPUT_BUF]
      BY <1>1, <2>5, Zenon
    <2> QED
      BY <2>1, <2>6, Zenon
  <1>7. PICK v1 \in Indices : v1 = Add(w1, -r0)
    BY Difference, Zenon
  <1>8. v <= v1 /\ 1..v \subseteq 1..v1
    <2>1. Add(Add(e0, 1), -r0) = u + 1
      BY <1>2, RingStore, Zenon
    <2>2. v1 = v \/ v1 = u + 1
      BY <1>3, <1>7, <2>1, Zenon
    <2> QED
      BY <1>4, <1>7, <2>2, SMT DEF Indices
  <1>9. Lists(CommittedOf(b0, r0, w0), b0, r0, v)
    BY <1>3, CommittedIs, Zenon
  <1>10. Lists(CommittedOf(b1, r0, w1), b1, r0, v1)
    BY <1>7, CommittedIs, Zenon
  <1>11. \A k \in 1..v : CommittedOf(b0, r0, w0)[k] = CommittedOf(b1, r0, w1)[k]
    BY <1>6, <1>8, <1>9, <1>10, Zenon DEF Lists
  <1>12. Extended(CommittedOf(b0, r0, w0), CommittedOf(b1, r0, w1))
    BY <1>8, <1>9, <1>10, <1>11, PrefixIs, Zenon DEF Lists
  <1> QED
    BY <1>1, <1>12, Zenon

\* Taking a character takes the first of the committed ones.
LEMMA TakeTail ==
  ASSUME NEW b0 \in [0..(INPUT_BUF - 1) -> Stored],
         NEW r0 \in Indices, NEW w0 \in Indices, NEW e0 \in Indices,
         Ring(r0, w0, e0), r0 # w0
  PROVE  /\ CommittedOf(b0, r0, w0) # <<>>
         /\ CommittedOf(b0, Add(r0, 1), w0) = Tail(CommittedOf(b0, r0, w0))
  <1>1. PICK r1 \in Indices : r1 = Add(r0, 1)
    BY RingTake, Zenon
  <1>2. PICK u \in Indices : u = Add(w0, -r0)
    BY Difference, Zenon
  <1>3. Add(w0, -r1) = u - 1 /\ u > 0
    BY <1>1, <1>2, RingTake, Zenon
  <1>4. u \in Nat /\ u - 1 \in Nat /\ r0 \in Int /\ r1 \in Int
    BY <1>3, SMT DEF Indices
  <1> DEFINE s == CommittedOf(b0, r0, w0)
             t == CommittedOf(b0, r1, w0)
  <1>5. /\ s \in Seq(Stored) /\ Len(s) = u
        /\ \A k \in 1..u : s[k] = b0[(r0 + k - 1) % INPUT_BUF]
    <2>1. Lists(s, b0, r0, u)
      BY <1>2, CommittedIs, Zenon
    <2> QED
      BY <2>1, Zenon DEF Lists
  <1>6. /\ t \in Seq(Stored) /\ Len(t) = u - 1
        /\ \A k \in 1..(u - 1) : t[k] = b0[(r1 + k - 1) % INPUT_BUF]
    <2>1. Lists(t, b0, r1, Add(w0, -r1))
      BY CommittedIs, Zenon
    <2>2. Lists(t, b0, r1, u - 1)
      BY <1>3, <2>1, Zenon
    <2> QED
      BY <2>2, Zenon DEF Lists
  <1> HIDE DEF s, t
  <1>7. s # <<>>
    BY <1>3, <1>5, SMT
  <1>8. /\ Tail(s) \in Seq(Stored) /\ Len(Tail(s)) = Len(s) - 1
        /\ \A k \in 1..Len(Tail(s)) : Tail(s)[k] = s[k + 1]
    BY <1>5, <1>7, HeadTailProperties, Zenon
  <1>9. ASSUME NEW k \in 1..(u - 1) PROVE t[k] = Tail(s)[k]
    <2>1. PICK x \in Int : x = r1 + k - 1
      BY <1>4, SMT
    <2>2. PICK y \in Int : y = r0 + (k + 1) - 1
      BY <1>4, SMT
    <2>3. x % INPUT_BUF = y % INPUT_BUF
      <3>1. /\ r0 + 1 < CtrMod => r1 = r0 + 1
            /\ CtrMod <= r0 + 1 => r1 = (r0 + 1) - CtrMod
        BY <1>1, Increase, SmallIndices, Zenon
      <3>2. PICK q \in Int : CtrMod = INPUT_BUF * q
        BY Multiple, Zenon
      <3>3. (x + INPUT_BUF * q) % INPUT_BUF = x % INPUT_BUF
        BY Constants, ModPeriod, Zenon
      <3>4. y = x \/ y = x + CtrMod
        BY <1>4, <2>1, <2>2, <3>1, Constants, SMT
      <3> QED
        BY <3>2, <3>3, <3>4, Zenon
    <2>4. k + 1 \in 1..u /\ k \in 1..Len(Tail(s))
      BY <1>4, <1>5, <1>8, SMT
    <2>5. t[k] = b0[x % INPUT_BUF] /\ s[k + 1] = b0[y % INPUT_BUF]
      BY <1>5, <1>6, <2>1, <2>2, <2>4, Zenon
    <2> QED
      BY <1>8, <2>3, <2>4, <2>5, Zenon
  <1>10. t = Tail(s)
    <2>1. Len(t) = Len(Tail(s)) /\ \A k \in 1..Len(t) : t[k] = Tail(s)[k]
      BY <1>5, <1>6, <1>8, <1>9, Zenon
    <2> QED
      BY <1>6, <1>8, <2>1, SeqEqual, Zenon
  <1> QED
    BY <1>1, <1>7, <1>10, Zenon DEF s, t

\* What each step does to the committed input.
LEMMA KeptStep ==
  ASSUME IInv, Next
  PROVE  \/ Extended(Committed, Committed')
         \/ Committed # <<>> /\ Committed' = Tail(Committed)
         \/ UNCHANGED cons
  <1>1. /\ buf \in [0..(INPUT_BUF - 1) -> Stored] /\ r \in Indices /\ w \in Indices
        /\ e \in Indices /\ Ring(r, w, e)
    BY Zenon DEF IInv, TypeOK
  <1>2. Committed = CommittedOf(buf, r, w) /\ Committed' = CommittedOf(buf', r', w')
    BY Zenon DEF Committed, CommittedOf, At, Add
  <1>3. ASSUME UNCHANGED <<buf, r, w>> PROVE Extended(Committed, Committed')
    <2>1. Committed' = Committed /\ Committed \in Seq(Stored)
      BY <1>1, <1>2, <1>3, CommittedIs, Zenon DEF Lists
    <2>2. Len(Committed) <= Len(Committed)
      BY <2>1, SMT
    <2>3. Extended(Committed, Committed)
      BY <2>1, <2>2, PrefixIs, Zenon
    <2> QED
      BY <2>1, <2>3, Zenon
  <1>4. ASSUME UNCHANGED <<buf, w>>, r # w, r' = Add(r, 1)
        PROVE  Committed # <<>> /\ Committed' = Tail(Committed)
    <2>1. /\ CommittedOf(buf, r, w) # <<>>
          /\ CommittedOf(buf, Add(r, 1), w) = Tail(CommittedOf(buf, r, w))
      BY <1>1, <1>4, TakeTail, Zenon
    <2> QED
      BY <1>2, <1>4, <2>1, Zenon
  <1>5. ASSUME NEW c \in Typed, consoleintr(c) PROVE Extended(Committed, Committed')
    <2>1. r' = r
      BY <1>5, Zenon DEF consoleintr
    <2>2. CASE UNCHANGED <<buf, w>>
      BY <1>3, <2>1, <2>2, Zenon
    <2>3. CASE c \notin {"^P", "^U", "^H", "nul"} /\ Room /\ Store(c)
      <3>1. Translate(c) \in Stored
        BY <2>3, TranslateStored, Zenon
      <3>2. /\ buf' = [buf EXCEPT ![e % INPUT_BUF] = Translate(c)]
            /\ w' = w \/ w' = Add(e, 1)
        BY <2>3, Zenon DEF Store
      <3>3. w' \in Indices /\ Add(e, -r) < INPUT_BUF
        BY <1>1, <2>3, <3>2, RingStore, Zenon DEF Room
      <3>4. Extended(CommittedOf(buf, r, w),
                     CommittedOf([buf EXCEPT ![e % INPUT_BUF] = Translate(c)], r, w'))
        BY <1>1, <3>1, <3>2, <3>3, StoreKeeps, Zenon
      <3> QED
        BY <1>2, <2>1, <3>2, <3>4, Zenon
    <2> QED
      BY <1>5, <2>2, <2>3, SMT DEF consoleintr, Store
  <1>6. ASSUME NEW p \in Procs, ReadEof(p) \/ ReadChar(p)
        PROVE  \/ Extended(Committed, Committed')
               \/ Committed # <<>> /\ Committed' = Tail(Committed)
    <2>1. UNCHANGED <<buf, w>> /\ r # w /\ (r' = Add(r, 1) \/ r' = r)
      BY <1>6, Zenon DEF ReadEof, ReadChar, AfterEof
    <2> QED
      BY <1>3, <1>4, <2>1, Zenon
  <1>7. ASSUME NEW p \in Procs, Call(p) \/ Acquire(p) \/ Wait(p) \/ Sleep(p) \/ Done(p) \/ kill(p)
        PROVE  UNCHANGED cons
    BY <1>7, Zenon DEF Call, Acquire, Wait, Sleep, Done, kill
  <1> QED
    BY <1>5, <1>6, <1>7, Zenon DEF Next, consoleread

\* For any size of the buffer: ^H and ^U reach only the line that is not
\* committed, and a read takes the first committed character, though the
\* indices wrap.
THEOREM CommittedAlwaysKept == Spec => CommittedKept
  <1>1. IInv /\ [Next]_vars => [\/ /\ Len(Committed) <= Len(Committed')
                                   /\ SubSeq(Committed', 1, Len(Committed)) = Committed
                                \/ Committed # <<>> /\ Committed' = Tail(Committed)]_cons
    <2>1. UNCHANGED vars => UNCHANGED cons
      BY Zenon DEF vars
    <2> QED
      BY <2>1, KeptStep, Zenon DEF Extended
  <1> QED
    BY <1>1, Invariance, PTL DEF Spec, CommittedKept

-----------------------------------------------------------------------------
\* What a call has consumed is what it has read, until it ends; it ends with an
\* end-of-file alone, with a character lost to a failed copyout, with a newline
\* or in front of an end-of-file.
NoEof(s) == \A k \in 1..Len(s) : s[k] # "^D"

EndsRight(p) ==
    \/ taken[p] = <<"^D">> /\ got[p] = <<>>
    \/ NoEof(taken[p]) /\ taken[p] # got[p]
    \/ /\ NoEof(taken[p]) /\ taken[p] = got[p] /\ got[p] # <<>>
       /\ got[p][Len(got[p])] = "\n" \/ (r # w /\ At(r) = "^D")

TakenOK(p) ==
    /\ pc[p] # "done" => taken[p] = got[p] /\ NoEof(got[p])
    /\ pc[p] = "done" => EndsRight(p)

EofInv == taken \in [Procs -> Seq(Stored)] /\ \A p \in Procs : TakenOK(p)

LEMMA EofInit == Init => EofInv
  <1> SUFFICES ASSUME Init PROVE EofInv
    OBVIOUS
  <1>1. <<>> \in Seq(Stored) /\ NoEof(<<>>)
    BY SMT DEF NoEof
  <1>2. taken \in [Procs -> Seq(Stored)]
    BY <1>1, Zenon DEF Init
  <1>3. ASSUME NEW p \in Procs PROVE TakenOK(p)
    <2>1. pc[p] = "user" /\ got[p] = <<>> /\ taken[p] = <<>>
      BY Zenon DEF Init
    <2>2. pc[p] # "done"
      BY <2>1, SMT
    <2> QED
      BY <1>1, <2>1, <2>2, Zenon DEF TakenOK
  <1> QED
    BY <1>2, <1>3, Zenon DEF EofInv

\* A call that has ended has cons.lock, so that what is next to be read stays.
LEMMA SameTaken ==
  ASSUME IInv, EofInv, NEW q \in Procs, pc'[q] = pc[q], got'[q] = got[q], taken'[q] = taken[q],
         UNCHANGED <<buf, r, w>> \/ lock # q
  PROVE  TakenOK(q)'
  <1>1. TakenOK(q) /\ PlaceOK(q)
    BY Zenon DEF EofInv, IInv
  <1>2. CASE pc[q] = "done"
    <2>1. lock = q
      BY <1>1, <1>2, Zenon DEF PlaceOK, Holding
    <2> QED
      BY <1>1, <2>1, Zenon DEF TakenOK, EndsRight, NoEof, At
  <1>3. CASE pc[q] # "done"
    BY <1>1, <1>3, Zenon DEF TakenOK, NoEof
  <1> QED
    BY <1>2, <1>3, Zenon

\* A step of p changes what p has consumed to t.
LEMMA TakenStep ==
  ASSUME IInv, EofInv, NEW p \in Procs, NEW t \in Seq(Stored), taken' = [taken EXCEPT ![p] = t],
         NEW l, pc' = [pc EXCEPT ![p] = l], NEW g, got' = [got EXCEPT ![p] = g],
         UNCHANGED <<buf, r, w>> \/ lock \in {None, p}, TakenOK(p)'
  PROVE  EofInv'
  <1>1. taken' \in [Procs -> Seq(Stored)]
    BY Zenon DEF EofInv
  <1>2. ASSUME NEW q \in Procs, q # p PROVE TakenOK(q)'
    <2>1. pc'[q] = pc[q] /\ got'[q] = got[q] /\ taken'[q] = taken[q]
      BY <1>2, Zenon DEF IInv, TypeOK, EofInv
    <2>2. UNCHANGED <<buf, r, w>> \/ lock # q
      BY <1>2, ConsoleAssumption, Zenon
    <2> QED
      BY <2>1, <2>2, SameTaken, Zenon
  <1> QED
    BY <1>1, <1>2, Zenon DEF EofInv

\* The call goes on, or is over.
LEMMA EofGoesOn ==
  ASSUME IInv, EofInv, NEW p \in Procs, NEW l, l # "done", pc' = [pc EXCEPT ![p] = l],
         UNCHANGED cons, UNCHANGED <<got, taken>>, pc[p] # "done"
  PROVE  EofInv'
  <1>1. /\ taken[p] \in Seq(Stored) /\ taken' = [taken EXCEPT ![p] = taken[p]]
        /\ got' = [got EXCEPT ![p] = got[p]] /\ pc'[p] = l
    BY Zenon DEF EofInv, IInv, TypeOK
  <1>2. TakenOK(p)'
    BY <1>1, Zenon DEF EofInv, TakenOK, NoEof
  <1> QED
    BY <1>1, <1>2, TakenStep, Zenon DEF cons

LEMMA EofReturn ==
  ASSUME IInv, EofInv, NEW p \in Procs, Return(p), UNCHANGED cons
  PROVE  EofInv'
  <1>1. /\ pc' = [pc EXCEPT ![p] = "user"] /\ got' = [got EXCEPT ![p] = <<>>]
        /\ taken' = [taken EXCEPT ![p] = <<>>]
    BY Zenon DEF Return, Goto
  <1>2. <<>> \in Seq(Stored) /\ NoEof(<<>>) /\ "user" # "done"
    BY SMT DEF NoEof
  <1>3. pc'[p] = "user" /\ got'[p] = <<>> /\ taken'[p] = <<>>
    BY <1>1, Zenon DEF EofInv, IInv, TypeOK
  <1>4. TakenOK(p)'
    BY <1>2, <1>3, Zenon DEF TakenOK, NoEof
  <1> QED
    BY <1>1, <1>2, <1>4, TakenStep, Zenon DEF cons

LEMMA EofReadEof ==
  ASSUME IInv, EofInv, NEW p \in Procs, ReadEof(p)
  PROVE  EofInv'
  <1>1. /\ pc[p] = "read" /\ r # w /\ r' = AfterEof(p) /\ pc' = [pc EXCEPT ![p] = "done"]
        /\ At(r) = "^D" /\ UNCHANGED <<buf, w, got>>
        /\ taken' = IF r' = r THEN taken ELSE [taken EXCEPT ![p] = Append(@, At(r))]
    BY Zenon DEF ReadEof, Goto
  <1>2. lock = p /\ pc[p] # "done"
    <2>1. lock = p
      BY <1>1, Reader, Zenon DEF PlaceOK, Holding
    <2> QED
      BY <1>1, <2>1, SMT
  <1>3. /\ taken[p] = got[p] /\ NoEof(got[p]) /\ taken[p] \in Seq(Stored)
        /\ got' = [got EXCEPT ![p] = got[p]] /\ pc'[p] = "done" /\ got'[p] = got[p]
        /\ taken = [taken EXCEPT ![p] = taken[p]]
    BY <1>1, <1>2, Zenon DEF EofInv, TakenOK, IInv, TypeOK
  <1>4. CASE got[p] # <<>>
    <2>1. r' = r /\ taken' = taken
      BY <1>1, <1>4, Zenon DEF AfterEof
    <2>2. TakenOK(p)'
      <3>1. (r # w)' /\ At(r)' = "^D" /\ taken'[p] = got'[p] /\ got'[p] # <<>>
        BY <1>1, <1>3, <1>4, <2>1, Zenon DEF At
      <3>2. NoEof(taken[p])'
        BY <1>3, <2>1, Zenon DEF NoEof
      <3> QED
        BY <1>3, <3>1, <3>2, Zenon DEF TakenOK, EndsRight
    <2> QED
      BY <1>1, <1>2, <1>3, <2>1, <2>2, TakenStep, Zenon
  <1>5. CASE got[p] = <<>>
    <2>1. r' # r
      <3>1. r \in Indices /\ r \in Int /\ r + 1 \in Int /\ CtrMod \in Nat \ {0} /\ 1 < CtrMod
        BY ConsoleAssumption, SMT DEF IInv, TypeOK, Indices
      <3>5. PICK b \in Int : b = r + 1 /\ r < b /\ b - r < CtrMod
        BY <3>1, SMT
      <3>2. r % CtrMod # (r + 1) % CtrMod
        BY <3>1, <3>5, ModDistinct, Zenon
      <3>3. r % CtrMod = r
        BY <3>1, ModNear, SMT DEF Indices
      <3> QED
        BY <1>1, <1>5, <3>2, <3>3, Zenon DEF AfterEof, Add
    <2>2. taken' = [taken EXCEPT ![p] = <<"^D">>]
      <3>1. Append(taken[p], "^D") = <<"^D">>
        BY <1>3, <1>5, SMT
      <3> QED
        BY <1>1, <2>1, <3>1, Zenon
    <2>3. <<"^D">> \in Seq(Stored)
      BY SMT DEF Stored
    <2>4. taken'[p] = <<"^D">>
      BY <2>2, Zenon DEF EofInv
    <2>5. TakenOK(p)'
      BY <1>3, <1>5, <2>4, Zenon DEF TakenOK, EndsRight
    <2> QED
      BY <1>1, <1>2, <1>3, <2>2, <2>3, <2>5, TakenStep, Zenon
  <1> QED
    BY <1>4, <1>5, Zenon

LEMMA EofReadChar ==
  ASSUME IInv, EofInv, NEW p \in Procs, ReadChar(p)
  PROVE  EofInv'
  <1>1. PICK c \in Stored : c = At(r) /\ c # "^D"
    <2>1. r \in Int
      BY SMT DEF IInv, TypeOK, Indices
    <2> QED
      BY <2>1, AtStored, Zenon DEF ReadChar
  <1>2. pc[p] = "read" /\ taken' = [taken EXCEPT ![p] = Append(taken[p], c)]
    BY <1>1, Zenon DEF ReadChar
  <1>3. lock = p /\ pc[p] # "done"
    <2>1. lock = p
      BY <1>2, Reader, Zenon DEF PlaceOK, Holding
    <2> QED
      BY <1>2, <2>1, SMT
  <1>4. taken[p] = got[p] /\ NoEof(got[p]) /\ got[p] \in Seq(Stored)
    BY <1>3, Reader, Zenon DEF EofInv, TakenOK
  <1>5. PICK t \in Seq(Stored) : t = Append(got[p], c)
    BY <1>4, AppendProperties, Zenon
  <1>6. /\ Len(t) = Len(got[p]) + 1 /\ Len(got[p]) \in Nat
        /\ \A k \in 1..Len(got[p]) : t[k] = got[p][k]
        /\ t[Len(got[p]) + 1] = c
    BY <1>4, <1>5, SMT
  <1>7. NoEof(t) /\ t # got[p] /\ t # <<>> /\ t[Len(t)] = c
    <2>1. ASSUME NEW k \in 1..Len(t) PROVE t[k] # "^D"
      <3>1. k \in 1..Len(got[p]) \/ k = Len(got[p]) + 1
        BY <1>6, SMT
      <3> QED
        BY <1>1, <1>4, <1>6, <3>1, Zenon DEF NoEof
    <2>2. Len(t) # Len(got[p]) /\ Len(t) # 0 /\ t[Len(t)] = c
      BY <1>6, SMT
    <2>3. t # got[p] /\ t # <<>>
      BY <2>2, SMT
    <2> QED
      BY <2>1, <2>2, <2>3, Zenon DEF NoEof
  <1>8. taken' = [taken EXCEPT ![p] = t] /\ taken'[p] = t
    BY <1>2, <1>4, <1>5, Zenon DEF EofInv
  <1>9. CASE /\ got' = [got EXCEPT ![p] = Append(@, At(r))]
             /\ IF EndsLine(At(r)) THEN Goto(p, "done") ELSE UNCHANGED pc
    <2>1. got' = [got EXCEPT ![p] = t] /\ got'[p] = t
      BY <1>1, <1>5, <1>9, Zenon DEF IInv, TypeOK
    <2>2. CASE EndsLine(c)
      <3>1. pc' = [pc EXCEPT ![p] = "done"] /\ pc'[p] = "done" /\ c = "\n"
        BY <1>1, <1>9, <2>2, Zenon DEF Goto, EndsLine, IInv, TypeOK
      <3>2. TakenOK(p)'
        BY <1>7, <1>8, <2>1, <3>1, Zenon DEF TakenOK, EndsRight, NoEof
      <3> QED
        BY <1>3, <1>8, <2>1, <3>1, <3>2, TakenStep, Zenon
    <2>3. CASE ~EndsLine(c)
      <3>1. pc' = [pc EXCEPT ![p] = pc[p]] /\ pc'[p] = pc[p]
        BY <1>1, <1>9, <2>3, Zenon DEF IInv, TypeOK
      <3>2. TakenOK(p)'
        BY <1>3, <1>7, <1>8, <2>1, <3>1, Zenon DEF TakenOK, NoEof
      <3> QED
        BY <1>3, <1>8, <2>1, <3>1, <3>2, TakenStep, Zenon
    <2> QED
      BY <2>2, <2>3, Zenon
  <1>10. CASE Goto(p, "done") /\ UNCHANGED <<got, n>>
    <2>1. /\ pc' = [pc EXCEPT ![p] = "done"] /\ pc'[p] = "done"
          /\ got' = [got EXCEPT ![p] = got[p]] /\ got'[p] = got[p]
      BY <1>10, Zenon DEF Goto, IInv, TypeOK
    <2>2. TakenOK(p)'
      BY <1>7, <1>8, <2>1, Zenon DEF TakenOK, EndsRight, NoEof
    <2> QED
      BY <1>3, <1>8, <2>1, <2>2, TakenStep, Zenon
  <1> QED
    BY <1>9, <1>10, Zenon DEF ReadChar

LEMMA EofNext == IInv /\ EofInv /\ [Next]_vars => EofInv'
  <1> SUFFICES ASSUME IInv, EofInv, [Next]_vars PROVE EofInv'
    OBVIOUS
  <1>1. "user" # "done" /\ "acquire" # "done" /\ "read" # "done" /\ "sleep" # "done"
    BY SMT
  <1>2. ASSUME UNCHANGED <<pc, got, taken>>, UNCHANGED <<buf, r, w>> \/ lock = None PROVE EofInv'
    <2>1. ASSUME NEW q \in Procs PROVE TakenOK(q)'
      <3>1. UNCHANGED <<buf, r, w>> \/ lock # q
        BY <1>2, ConsoleAssumption, Zenon
      <3> QED
        BY <1>2, <3>1, SameTaken, Zenon
    <2> QED
      BY <1>2, <2>1, Zenon DEF EofInv
  <1>3. ASSUME NEW c \in Typed, consoleintr(c) PROVE EofInv'
    BY <1>2, <1>3, Zenon DEF consoleintr
  <1>4. ASSUME NEW p \in Procs, kill(p) PROVE EofInv'
    BY <1>2, <1>4, Zenon DEF kill, cons
  <1>5. CASE UNCHANGED vars
    BY <1>2, <1>5, Zenon DEF vars, cons
  <1>6. ASSUME NEW p \in Procs, Call(p) PROVE EofInv'
    BY <1>1, <1>6, EofGoesOn, Zenon DEF Call, Goto
  <1>7. ASSUME NEW p \in Procs, Acquire(p) PROVE EofInv'
    BY <1>1, <1>7, EofGoesOn, Zenon DEF Acquire, Goto
  <1>8. ASSUME NEW p \in Procs, Sleep(p) PROVE EofInv'
    BY <1>1, <1>8, EofGoesOn, Zenon DEF Sleep, Goto
  <1>9. ASSUME NEW p \in Procs, Wait(p) PROVE EofInv'
    BY <1>1, <1>9, EofGoesOn, EofReturn, Zenon DEF Wait, Goto
  <1>10. ASSUME NEW p \in Procs, Done(p) PROVE EofInv'
    BY <1>10, EofReturn, Zenon DEF Done
  <1> QED
    BY <1>3, <1>4, <1>5, <1>6, <1>7, <1>8, <1>9, <1>10, EofReadEof, EofReadChar, Zenon
       DEF Next, consoleread

\* For any number of readers: an end-of-file gives the call that consumes it a
\* result of 0 bytes, no other read looks like one, and a read cut short by an
\* end-of-file leaves it for whoever reads next.
THEOREM EofAlwaysReturnsZero == Spec => EofReturnsZero
  <1>1. IInv /\ EofInv /\ [Next]_vars =>
        [\A p \in Procs : Returns(p) =>
            /\ (\E k \in 1..Len(taken[p]) : taken[p][k] = "^D") => taken[p] = <<"^D">> /\ got[p] = <<>>
            /\ got[p] = taken[p] /\ n[p] > 0 =>
                  /\ got[p] # <<>>
                  /\ got[p][Len(got[p])] = "\n" \/ (r # w /\ At(r) = "^D")]_vars
    <2> SUFFICES ASSUME EofInv, NEW p \in Procs, Returns(p)
                 PROVE  /\ (\E k \in 1..Len(taken[p]) : taken[p][k] = "^D")
                           => taken[p] = <<"^D">> /\ got[p] = <<>>
                        /\ got[p] = taken[p] /\ n[p] > 0 =>
                              /\ got[p] # <<>>
                              /\ got[p][Len(got[p])] = "\n" \/ (r # w /\ At(r) = "^D")
      BY Zenon
    <2>1. TakenOK(p)
      BY Zenon DEF EofInv
    <2>2. <<"^D">> # <<>>
      BY SMT
    <2>3. CASE pc[p] = "done"
      <3>1. CASE taken[p] = <<"^D">> /\ got[p] = <<>>
        BY <2>2, <3>1, Zenon
      <3>2. CASE NoEof(taken[p]) /\ taken[p] # got[p]
        BY <3>2, Zenon DEF NoEof
      <3>3. CASE /\ NoEof(taken[p]) /\ taken[p] = got[p] /\ got[p] # <<>>
                 /\ got[p][Len(got[p])] = "\n" \/ (r # w /\ At(r) = "^D")
        BY <3>3, Zenon DEF NoEof
      <3> QED
        BY <2>1, <2>3, <3>1, <3>2, <3>3, Zenon DEF TakenOK, EndsRight
    <2>4. CASE pc[p] = "read" /\ n[p] = 0
      <3>1. pc[p] # "done" /\ ~(n[p] > 0)
        BY <2>4, SMT
      <3> QED
        BY <2>1, <3>1, Zenon DEF TakenOK, NoEof
    <2> QED
      BY <2>3, <2>4, Zenon DEF Returns
  <1> QED
    BY <1>1, EofInit, EofNext, Invariance, PTL DEF Spec, EofReturnsZero
=============================================================================
