-------------------------- MODULE VirtioDiskProofs --------------------------
(***************************************************************************)
(* The inductive invariant of VirtioDisk, and the proofs that for any      *)
(* number of processes, descriptors and ring entries no descriptor is lost *)
(* or shared, no signal is lost, and the driver implements DiskService.    *)
(***************************************************************************)
EXTENDS VirtioDisk, FiniteSetTheorems, NaturalsInduction, TLAPS

TypeOK ==
    /\ media \in [Sectors -> Vals] /\ buf \in [Procs -> Vals]
    /\ free \in SUBSET Desc /\ active \in SUBSET Desc
    /\ next \in [Desc -> Desc \union {NoDesc}] /\ addr = [d \in Desc |-> addr[d]]
    /\ info \in [Desc -> Procs \union {NoProc}] /\ status \in [Desc -> {0, 255}]
    /\ availRing \in [Ring -> Desc] /\ usedRing \in [Ring -> Desc]
    /\ pc \in [Procs -> {"idle", "alloc", "sleep", "wait", "check"}]
    /\ req \in [Procs -> Requests \union {NoReq}]
    /\ head \in [Procs -> Desc \union {NoDesc}] /\ owned \in [Procs -> BOOLEAN]

\* The chain of a submitted request: three descriptors in use, with the
\* command, the buffer and the status byte of this request.  The handler has
\* let go of the buffer only after the device wrote the status.
ChainOK(p) == LET d0 == head[p]
                  d1 == next[d0]
                  d2 == next[d1] IN
    /\ {d0, d1, d2} \subseteq Desc \ free /\ d0 # d1 /\ d0 # d2 /\ d1 # d2
    /\ addr[d0] = <<"op", req[p]>> /\ addr[d1] = <<"buf", p>> /\ addr[d2] = <<"status", d0>>
    /\ info[d0] = p
    /\ owned[p] \/ status[d0] = 0

PlaceOK(p) ==
    /\ pc[p] = "idle" <=> req[p] = NoReq
    /\ p \in Submitted => ChainOK(p)
    /\ p \notin Submitted => head[p] = NoDesc /\ ~owned[p]
    /\ pc[p] = "wait" => owned[p]
    /\ pc[p] = "sleep" => Cardinality(free) < 3

Apart(p, q) == Used(p) \intersect Used(q) = {}

\* The chains the driver has announced and the device has not taken, and the
\* ones the device has finished and the handler has not seen.
Announced == {d \in Desc \ active : status[d] = 255 /\ \E p \in Submitted : head[p] = d}
Finished == {d \in Desc : status[d] = 0 /\ \E p \in Submitted : head[p] = d /\ owned[p]}

\* The entries of a ring from index lo up to index hi are the members of S,
\* each once.  The numbers a and b are the indices before they wrap.
Window(ring, lo, hi, S) == \E a, b \in Nat :
    /\ a <= b /\ lo = a % IdxMod /\ hi = b % IdxMod
    /\ \A k \in a..(b - 1) : ring[k % RING] \in S
    /\ \A d \in S : \E k \in a..(b - 1) : ring[k % RING] = d
    /\ \A j, k \in a..(b - 1) : ring[j % RING] = ring[k % RING] => j = k

IInv ==
    /\ TypeOK /\ ~panicked
    /\ \A p \in Procs : PlaceOK(p)
    /\ \A p, q \in Submitted : p # q => Apart(p, q)
    /\ Cardinality(free) + 3 * Cardinality(Submitted) = NUM
    /\ \A d \in active : status[d] = 255 /\ \E p \in Submitted : head[p] = d
    /\ Window(availRing, taken, availIdx, Announced)
    /\ Window(usedRing, seen, usedIdx, Finished)
    /\ seen # usedIdx => raised \/ handling
-----------------------------------------------------------------------------
\* Arithmetic of the indices, which run modulo IdxMod, and of the entries of a
\* ring, modulo RING.
LEMMA ModRange ==
  ASSUME NEW a \in Int, NEW M \in Nat \ {0}
  PROVE  a % M \in 0..(M - 1)
  BY SMT

LEMMA DivMod ==
  ASSUME NEW a \in Int, NEW M \in Nat \ {0}
  PROVE  \E q \in Int : a = M * q + (a % M)
  <1>1. a \div M \in Int /\ a = M * (a \div M) + (a % M)
    BY SMT
  <1> QED
    BY Zenon, <1>1

LEMMA NoMultipleBetween ==
  ASSUME NEW M \in Nat \ {0}, NEW q \in Int, 0 < M * q, M * q < M
  PROVE  FALSE
  BY SMT

LEMMA ModPeriod ==
  ASSUME NEW a \in Int, NEW M \in Nat \ {0}, NEW q \in Int
  PROVE  (a + M * q) % M = a % M
  <1>1. PICK b \in Int : b = a + M * q
    OBVIOUS
  <1>2. PICK s \in Int : a = M * s + (a % M)
    BY Zenon, DivMod
  <1>3. PICK t \in Int : b = M * t + (b % M)
    BY Zenon, DivMod
  <1>4. a % M \in 0..(M - 1) /\ b % M \in 0..(M - 1)
    BY Zenon, ModRange
  <1>5. PICK d \in Int : d = s + q - t
    OBVIOUS
  <1>6. M * d = M * s + M * q - M * t /\ M * (-d) = M * t - M * s - M * q
    BY <1>5
  <1>7. M * d = (b % M) - (a % M) /\ M * (-d) = (a % M) - (b % M)
    BY <1>1, <1>2, <1>3, <1>4, <1>6
  <1>8. ~(0 < M * d) /\ ~(0 < M * (-d))
    BY <1>4, <1>7, NoMultipleBetween
  <1>9. b % M = a % M
    BY <1>4, <1>7, <1>8
  <1> QED
    BY Zenon, <1>1, <1>9

\* Fewer than M successive numbers have different remainders.
LEMMA ModDistinct ==
  ASSUME NEW M \in Nat \ {0}, NEW a \in Int, NEW b \in Int, a < b, b - a < M
  PROVE  a % M # b % M
  <1>1. PICK q \in Int : a = M * q + (a % M)
    BY Zenon, DivMod
  <1>2. PICK r \in Int : b = M * r + (b % M)
    BY Zenon, DivMod
  <1>3. a % M \in Int /\ b % M \in Int
    BY ModRange
  <1>4. ASSUME a % M = b % M PROVE FALSE
    <2>1. b - a = M * r - M * q
      BY <1>1, <1>2, <1>3, <1>4
    <2>2. M * r - M * q = M * (r - q) /\ r - q \in Int
      BY SMT
    <2> QED
      BY <2>1, <2>2, NoMultipleBetween
  <1> QED
    BY Zenon, <1>4

LEMMA Constants ==
  /\ NUM \in Nat \ {0} /\ RING \in Nat \ {0} /\ IdxMod \in Nat \ {0} /\ NUM < 3 * (RING + 1)
  /\ NoProc \notin Procs /\ NoDesc \notin Desc /\ NoReq \notin Requests
  BY Zenon, VirtioAssumption DEF Requests

\* Counting on modulo IdxMod, and from an index to its entry.
LEMMA Index ==
  ASSUME NEW a \in Nat
  PROVE  /\ Incr(a % IdxMod) = (a + 1) % IdxMod
         /\ (a % IdxMod) % RING = a % RING
         /\ a % RING \in Ring
  <1>0. IdxMod \in Nat \ {0} /\ RING \in Nat \ {0} /\ a \in Int /\ IdxMod \in Int
    BY Constants
  <1>1. PICK q \in Int : a = IdxMod * q + (a % IdxMod)
    BY <1>0, DivMod, Zenon
  <1>2. PICK k \in Int : IdxMod = RING * k + (IdxMod % RING)
    BY <1>0, DivMod, Zenon
  <1>3. IdxMod = RING * k
    BY <1>0, <1>2, VirtioAssumption
  <1>4. PICK r \in Int : r = a % IdxMod
    BY <1>0, ModRange
  <1>5. (r + 1 + IdxMod * q) % IdxMod = (r + 1) % IdxMod
    <2>1. PICK t \in Int : t = r + 1
      OBVIOUS
    <2> QED
      BY <1>0, <2>1, ModPeriod, Zenon
  <1>6. a + 1 = r + 1 + IdxMod * q
    BY <1>0, <1>1, <1>4
  <1>7. (r + RING * (k * q)) % RING = r % RING
    <2>1. PICK t \in Int : t = k * q
      OBVIOUS
    <2> QED
      BY <1>0, <2>1, ModPeriod, Zenon
  <1>8. a = r + RING * (k * q)
    BY <1>0, <1>1, <1>3, <1>4
  <1>9. a % RING \in Ring
    BY Zenon, <1>0, ModRange DEF Ring
  <1> QED
    BY <1>4, <1>5, <1>6, <1>7, <1>8, <1>9, Zenon DEF Incr

\* A window is as long as its set is large.
LEMMA WindowCount ==
  ASSUME NEW ring, NEW S, NEW a \in Nat, NEW b \in Nat, a <= b,
         \A k \in a..(b - 1) : ring[k % RING] \in S,
         \A d \in S : \E k \in a..(b - 1) : ring[k % RING] = d,
         \A j, k \in a..(b - 1) : ring[j % RING] = ring[k % RING] => j = k
  PROVE  Cardinality(S) = b - a
  <1> DEFINE f == [i \in 1..(b - a) |-> ring[(a + i - 1) % RING]]
  <1>1. \A i \in 1..(b - a) : a + i - 1 \in a..(b - 1)
    OBVIOUS
  <1>2. f \in [1..(b - a) -> S]
    BY Zenon, <1>1
  <1>3. \A i, j \in 1..(b - a) : f[i] = f[j] => i = j
    <2> TAKE i, j \in 1..(b - a)
    <2> HAVE f[i] = f[j]
    <2>1. a + i - 1 = a + j - 1
      BY Zenon, <1>1
    <2> QED
      BY <2>1
  <1>4. ASSUME NEW d \in S PROVE \E i \in 1..(b - a) : f[i] = d
    <2>1. PICK k \in a..(b - 1) : ring[k % RING] = d
      OBVIOUS
    <2>2. k - a + 1 \in 1..(b - a) /\ a + (k - a + 1) - 1 = k
      OBVIOUS
    <2> QED
      BY Zenon, <2>1, <2>2
  <1>5. ExistsBijection(1..(b - a), S)
    BY ZenonT(60), <1>2, <1>3, <1>4 DEF ExistsBijection, Bijection, Injection, Surjection, IsInjective
  <1>6. b - a \in Nat
    OBVIOUS
  <1> QED
    BY <1>5, <1>6, FS_CountingElements, Zenon

LEMMA WindowPush ==
  ASSUME NEW ring \in [Ring -> Desc], NEW lo, NEW hi, NEW S, NEW d \in Desc \ S,
         Window(ring, lo, hi, S), Cardinality(S) < RING
  PROVE  Window([ring EXCEPT ![hi % RING] = d], lo, Incr(hi), S \union {d})
  <1>1. PICK a, b \in Nat :
           /\ a <= b /\ lo = a % IdxMod /\ hi = b % IdxMod
           /\ \A k \in a..(b - 1) : ring[k % RING] \in S
           /\ \A e \in S : \E k \in a..(b - 1) : ring[k % RING] = e
           /\ \A j, k \in a..(b - 1) : ring[j % RING] = ring[k % RING] => j = k
    BY Zenon DEF Window
  <1>2. b - a < RING
    <2>1. Cardinality(S) = b - a
      BY Zenon, <1>1, WindowCount
    <2> QED
      BY Zenon, <2>1
  <1>3. hi % RING = b % RING /\ Incr(hi) = (b + 1) % IdxMod /\ b % RING \in Ring
    BY Zenon, <1>1, Index
  <1>4. PICK new : new = [ring EXCEPT ![b % RING] = d]
    BY Zenon
  <1>5. new[b % RING] = d
    BY Zenon, <1>3, <1>4
  <1>6. ASSUME NEW k \in a..(b - 1) PROVE new[k % RING] = ring[k % RING]
    <2>1. k % RING # b % RING
      <3>1. k \in Int /\ b \in Int /\ k < b /\ b - k < RING /\ RING \in Nat \ {0}
        BY <1>2, Constants
      <3> QED
        BY <3>1, ModDistinct, Zenon
    <2>2. k % RING \in Ring
      BY Index
    <2> QED
      BY Zenon, <1>4, <2>1, <2>2
  <1>0. PICK c \in Nat : c = b + 1 /\ a <= c
    BY <1>1
  <1>7. \A k \in a..(c - 1) : k \in a..(b - 1) \/ k = b
    BY <1>0
  <1>8. \A k \in a..(c - 1) : new[k % RING] \in S \union {d}
    BY <1>1, <1>5, <1>6, <1>7, Zenon
  <1>9. \A e \in S \union {d} : \E k \in a..(c - 1) : new[k % RING] = e
    <2>1. b \in a..(c - 1) /\ \A k \in a..(b - 1) : k \in a..(c - 1)
      BY <1>0, <1>1
    <2> QED
      BY <1>1, <1>5, <1>6, <2>1, ZenonT(60)
  <1>10. \A j, k \in a..(c - 1) : new[j % RING] = new[k % RING] => j = k
    BY <1>1, <1>5, <1>6, <1>7, Zenon
  <1>11. Incr(hi) = c % IdxMod
    BY Zenon, <1>0, <1>3
  <1>12. Window(new, lo, Incr(hi), S \union {d})
    BY <1>0, <1>1, <1>8, <1>9, <1>10, <1>11 DEF Window
  <1> QED
    BY <1>3, <1>4, <1>12, Zenon

LEMMA WindowPop ==
  ASSUME NEW ring \in [Ring -> Desc], NEW lo, NEW hi, NEW S, Window(ring, lo, hi, S), lo # hi
  PROVE  /\ ring[lo % RING] \in S
         /\ Window(ring, Incr(lo), hi, S \ {ring[lo % RING]})
  <1>1. PICK a, b \in Nat :
           /\ a <= b /\ lo = a % IdxMod /\ hi = b % IdxMod
           /\ \A k \in a..(b - 1) : ring[k % RING] \in S
           /\ \A e \in S : \E k \in a..(b - 1) : ring[k % RING] = e
           /\ \A j, k \in a..(b - 1) : ring[j % RING] = ring[k % RING] => j = k
    BY Zenon DEF Window
  <1>2. lo % RING = a % RING /\ Incr(lo) = (a + 1) % IdxMod
    BY Zenon, <1>1, Index
  <1>3. a \in a..(b - 1)
    BY <1>1
  <1>0. PICK c \in Nat : c = a + 1 /\ c <= b
    BY <1>1
  <1>4. PICK d : d = ring[a % RING]
    OBVIOUS
  <1>5. \A k \in c..(b - 1) : k \in a..(b - 1) /\ k # a
    BY <1>0
  <1>6. \A k \in a..(b - 1) : k # a => k \in c..(b - 1)
    BY <1>0
  <1>7. \A k \in c..(b - 1) : ring[k % RING] \in S \ {d}
    BY <1>1, <1>3, <1>4, <1>5, Zenon
  <1>8. \A e \in S \ {d} : \E k \in c..(b - 1) : ring[k % RING] = e
    BY <1>1, <1>4, <1>6, Zenon
  <1>10. Incr(lo) = c % IdxMod
    BY Zenon, <1>0, <1>2
  <1>9. Window(ring, Incr(lo), hi, S \ {d})
    BY <1>0, <1>1, <1>5, <1>7, <1>8, <1>10 DEF Window
  <1> QED
    BY <1>1, <1>2, <1>3, <1>4, <1>9, Zenon

LEMMA MinMember ==
  ASSUME NEW S \in SUBSET Desc, S # {}
  PROVE  Min(S) \in S
  <1> DEFINE R == {ss \in Nat \X Nat : ss[1] < ss[2]}
  <1>1. S \subseteq Nat
    BY Constants DEF Desc
  <1>2. IsWellFoundedOn(R, Nat)
    BY Zenon, NatLessThanWellFounded DEF OpToRel
  <1>3. \E x \in S : \A y \in S : ~(<<y, x>> \in R)
    <2> HIDE DEF R
    <2> QED
      BY <1>1, <1>2, WFMin, Zenon
  <1>4. PICK x \in S : \A y \in S : ~(<<y, x>> \in R)
    BY Zenon, <1>3
  <1>5. ASSUME NEW y \in S PROVE x <= y
    <2>1. x \in Nat /\ y \in Nat
      BY Zenon, <1>1
    <2>2. ~(<<y, x>> \in R)
      BY Zenon, <1>4
    <2> QED
      BY <2>1, <2>2
  <1> QED
    BY Zenon, <1>5 DEF Min

LEMMA RemoveThree ==
  ASSUME NEW S, IsFiniteSet(S), NEW x \in S, NEW y \in S \ {x}, NEW z \in S \ {x, y}
  PROVE  IsFiniteSet(S \ {x, y, z}) /\ Cardinality(S \ {x, y, z}) = Cardinality(S) - 3
  <1>1. IsFiniteSet(S \ {x}) /\ Cardinality(S \ {x}) = Cardinality(S) - 1
    BY Zenon, FS_RemoveElement
  <1>2. IsFiniteSet((S \ {x}) \ {y}) /\ Cardinality((S \ {x}) \ {y}) = Cardinality(S \ {x}) - 1
    BY Zenon, <1>1, FS_RemoveElement
  <1>3. (S \ {x}) \ {y} = S \ {x, y}
    OBVIOUS
  <1>4. /\ IsFiniteSet((S \ {x, y}) \ {z})
        /\ Cardinality((S \ {x, y}) \ {z}) = Cardinality(S \ {x, y}) - 1
    BY Zenon, <1>2, <1>3, FS_RemoveElement
  <1>5. (S \ {x, y}) \ {z} = S \ {x, y, z}
    OBVIOUS
  <1>6. Cardinality(S) \in Nat
    BY Zenon, FS_CardinalityType
  <1> QED
    BY <1>1, <1>2, <1>3, <1>4, <1>5, <1>6

LEMMA AddThree ==
  ASSUME NEW S, IsFiniteSet(S), NEW x, NEW y, NEW z,
         x \notin S, y \notin S, z \notin S, x # y, x # z, y # z
  PROVE  Cardinality(S \union {x, y, z}) = Cardinality(S) + 3
  <1>1. IsFiniteSet(S \union {x, y, z})
    <2>1. IsFiniteSet(((S \union {x}) \union {y}) \union {z})
      BY Zenon, FS_AddElement
    <2>2. ((S \union {x}) \union {y}) \union {z} = S \union {x, y, z}
      OBVIOUS
    <2> QED
      BY Zenon, <2>1, <2>2
  <1>2. (S \union {x, y, z}) \ {x, y, z} = S
    OBVIOUS
  <1>3. Cardinality(S) = Cardinality(S \union {x, y, z}) - 3
    BY <1>1, <1>2, RemoveThree
  <1>4. Cardinality(S) \in Nat /\ Cardinality(S \union {x, y, z}) \in Nat
    BY Zenon, <1>1, FS_CardinalityType
  <1> QED
    BY <1>3, <1>4

\* The three descriptors alloc3_desc takes.
LEMMA TakeThree ==
  ASSUME NEW S \in SUBSET Desc, IsFiniteSet(S), Cardinality(S) >= 3
  PROVE  \E x, y, z \in Desc : /\ x = alloc_desc(S) /\ y = alloc_desc(S \ {x})
                               /\ z = alloc_desc(S \ {x, y})
                               /\ x \in S /\ y \in S \ {x} /\ z \in S \ {x, y}
  <1>1. Cardinality({}) = 0 /\ Cardinality(S) \in Nat
    BY Zenon, FS_EmptySet, FS_CardinalityType
  <1>2. PICK x \in S : x = alloc_desc(S)
    BY <1>1, MinMember DEF alloc_desc
  <1>3. IsFiniteSet(S \ {x}) /\ Cardinality(S \ {x}) = Cardinality(S) - 1
    BY Zenon, FS_RemoveElement
  <1>4. PICK y \in S \ {x} : y = alloc_desc(S \ {x})
    BY <1>1, <1>3, MinMember DEF alloc_desc
  <1>5. Cardinality((S \ {x}) \ {y}) = Cardinality(S \ {x}) - 1
    BY Zenon, <1>3, FS_RemoveElement
  <1>6. (S \ {x}) \ {y} = S \ {x, y}
    OBVIOUS
  <1>7. PICK z \in S \ {x, y} : z = alloc_desc(S \ {x, y})
    BY <1>1, <1>3, <1>5, <1>6, MinMember DEF alloc_desc
  <1> QED
    BY Zenon, <1>2, <1>4, <1>7

LEMMA Finite ==
  ASSUME NEW F \in SUBSET Desc, NEW P \in SUBSET Procs
  PROVE  /\ IsFiniteSet(F) /\ Cardinality(F) \in Nat
         /\ IsFiniteSet(P) /\ Cardinality(P) \in Nat
  <1>1. IsFiniteSet(Desc)
    BY Constants, FS_Interval DEF Desc
  <1> QED
    BY Zenon, <1>1, VirtioAssumption, FS_Subset, FS_CardinalityType

\* The parts of the invariant by name.
LEMMA Types == IInv => TypeOK
  BY Zenon DEF IInv

LEMMA Places == IInv => \A p \in Procs : PlaceOK(p)
  BY Zenon DEF IInv

LEMMA Disjoint == IInv => \A p, q \in Submitted : p # q => Used(p) \intersect Used(q) = {}
  BY Zenon DEF IInv, Apart

LEMMA SameAnnounced ==
  ASSUME status' = status, active' = active, head' = head, Submitted' = Submitted
  PROVE  Announced' = Announced
  BY DEF Announced

LEMMA SameFinished ==
  ASSUME status' = status, owned' = owned, head' = head, Submitted' = Submitted
  PROVE  Finished' = Finished
  BY DEF Finished

LEMMA OneMore ==
  ASSUME NEW p \in Procs, pc[p] = "alloc", TypeOK, pc' = [pc EXCEPT ![p] = "wait"]
  PROVE  Submitted' = Submitted \union {p} /\ p \notin Submitted
  BY DEF TypeOK, Submitted

\* There are no more chains than requests, in any state of them.
LEMMA HeadsCount ==
  ASSUME IInv, NEW S, \A d \in S : \E p \in Submitted : head[p] = d
  PROVE  IsFiniteSet(S) /\ Cardinality(S) \in Nat /\ Cardinality(S) <= Cardinality(Submitted)
  <1> DEFINE P == {p \in Submitted : head[p] \in S}
             f == [p \in P |-> head[p]]
  <1>1. f \in Surjection(P, S)
    BY Zenon DEF Surjection
  <1>2. IsFiniteSet(P) /\ IsFiniteSet(Submitted) /\ Cardinality(P) <= Cardinality(Submitted)
    BY Zenon, Finite, FS_Subset DEF Submitted
  <1>3. IsFiniteSet(S) /\ Cardinality(S) <= Cardinality(P)
    <2> HIDE DEF P, f
    <2> QED
      BY <1>1, <1>2, FS_Surjection, Zenon
  <1> QED
    BY <1>2, <1>3, FS_CardinalityType
-----------------------------------------------------------------------------
LEMMA InitInv == Init => IInv
  <1> SUFFICES ASSUME Init PROVE IInv
    OBVIOUS
  <1>1. 0 \in Desc /\ 0 % IdxMod = 0
    BY Constants DEF Desc
  <1>2. TypeOK
    BY Zenon, <1>1, Constants DEF Init, TypeOK
  <1>3. Submitted = {}
    BY Zenon DEF Init, Submitted
  <1>4. \A p \in Procs : PlaceOK(p)
    BY Zenon, <1>3, Constants DEF Init, PlaceOK
  <1>5. Cardinality(free) + 3 * Cardinality(Submitted) = NUM
    <2>1. Cardinality(Desc) = NUM
      BY Constants, FS_Interval DEF Desc
    <2> QED
      BY <1>3, <2>1, FS_EmptySet, Constants DEF Init
  <1>6. Announced = {} /\ Finished = {}
    BY Zenon, <1>3 DEF Announced, Finished
  <1>7. \A ring : Window(ring, 0, 0, {})
    BY <1>1 DEF Window
  <1>8. ~panicked
    BY Zenon DEF Init
  <1> QED
    BY Zenon, <1>2, <1>3, <1>4, <1>5, <1>6, <1>7, <1>8 DEF Init, IInv

\* A step that moves no request from one place to another.
LEMMA SameWindows ==
  ASSUME IInv,
         UNCHANGED <<status, active, availRing, taken, availIdx, usedRing, seen, usedIdx>>,
         \A d \in Desc : status[d] = 255 =>
            ((\E p \in Submitted : head[p] = d) <=> (\E p \in Submitted' : head'[p] = d)),
         \A d \in Desc : (\E p \in Submitted : head[p] = d /\ owned[p])
                            <=> (\E p \in Submitted' : head'[p] = d /\ owned'[p])
  PROVE  /\ Window(availRing', taken', availIdx', Announced')
         /\ Window(usedRing', seen', usedIdx', Finished')
         /\ \A d \in active' : status'[d] = 255 /\ \E p \in Submitted' : head'[p] = d
  <1>1. Announced' = Announced
    BY ZenonT(60) DEF Announced
  <1>2. Finished' = Finished
    BY Zenon DEF Finished
  <1> QED
    BY <1>1, <1>2, ZenonT(60) DEF IInv, TypeOK

LEMMA KeepChain ==
  ASSUME NEW q \in Procs, ChainOK(q), head'[q] = head[q], req'[q] = req[q],
         \A d \in Used(q) : next'[d] = next[d] /\ addr'[d] = addr[d] /\ d \notin free',
         info'[head[q]] = info[head[q]], owned'[q] \/ status'[head[q]] = 0
  PROVE  ChainOK(q)' /\ Used(q)' = Used(q)
  <1>1. head[q] \in Used(q) /\ next[head[q]] \in Used(q) /\ next[next[head[q]]] \in Used(q)
    BY Zenon DEF Used
  <1>2. /\ next'[head'[q]] = next[head[q]]
        /\ next'[next'[head'[q]]] = next[next[head[q]]]
    BY ZenonT(60), <1>1
  <1>3. Used(q)' = Used(q)
    BY <1>2, Zenon DEF Used
  <1>4. ChainOK(q)'
    BY ZenonT(60), <1>1, <1>2 DEF ChainOK
  <1> QED
    BY Zenon, <1>3, <1>4

LEMMA KeepChains ==
  ASSUME IInv, UNCHANGED <<free, next, addr, info, head>>,
         \A q \in Submitted : req'[q] = req[q] /\ (owned'[q] \/ status'[head[q]] = 0)
  PROVE  \A q \in Submitted : ChainOK(q)' /\ Used(q)' = Used(q)
  <1> TAKE q \in Submitted
  <1>1. q \in Procs /\ ChainOK(q)
    BY Places, Zenon DEF PlaceOK, Submitted
  <1>2. \A d \in Used(q) : d \notin free
    BY <1>1, Zenon DEF ChainOK, Used
  <1>3. \A d \in Used(q) : next'[d] = next[d] /\ addr'[d] = addr[d] /\ d \notin free'
    BY <1>2, Zenon
  <1>4. /\ head'[q] = head[q] /\ req'[q] = req[q] /\ info'[head[q]] = info[head[q]]
        /\ owned'[q] \/ status'[head[q]] = 0
    BY Zenon
  <1> QED
    BY <1>1, <1>3, <1>4, KeepChain, Zenon

\* A step that touches neither descriptors nor rings.
LEMMA QuietStep ==
  ASSUME IInv, TypeOK', Submitted' = Submitted, \A q \in Submitted : req'[q] = req[q],
         UNCHANGED <<free, next, addr, info, status, active, availRing, taken, availIdx, usedRing,
                     seen, usedIdx, owned, head, panicked>>,
         \A q \in Procs : /\ pc'[q] = "idle" <=> req'[q] = NoReq
                          /\ pc'[q] = "wait" => owned[q]
                          /\ pc'[q] = "sleep" => Cardinality(free) < 3,
         seen # usedIdx => raised' \/ handling'
  PROVE  IInv'
  <1>1. \A q \in Submitted : ChainOK(q)' /\ Used(q)' = Used(q)
    <2>1. \A q \in Submitted : owned[q] \/ status[head[q]] = 0
      BY Places, Zenon DEF PlaceOK, Submitted, ChainOK
    <2> QED
      BY Zenon, <2>1, KeepChains
  <1>2. ASSUME NEW q \in Procs PROVE PlaceOK(q)'
    BY <1>1, Places, Zenon DEF PlaceOK
  <1>3. \A q, t \in Submitted' : q # t => Apart(q, t)'
    BY <1>1, Disjoint DEF Apart
  <1>4. Cardinality(free') + 3 * Cardinality(Submitted') = NUM
    BY Zenon DEF IInv
  <1>5. /\ Window(availRing', taken', availIdx', Announced')
        /\ Window(usedRing', seen', usedIdx', Finished')
        /\ \A d \in active' : status'[d] = 255 /\ \E t \in Submitted' : head'[t] = d
    BY SameWindows
  <1>6. ~panicked' /\ (seen' # usedIdx' => raised' \/ handling')
    BY Zenon DEF IInv
  <1> QED
    BY Zenon, <1>2, <1>3, <1>4, <1>5, <1>6 DEF IInv

LEMMA CallInv ==
  ASSUME IInv, NEW p \in Procs, NEW r \in Requests, NEW v \in Vals, Call(p, r, v)
  PROVE  IInv'
  <1>1. TypeOK'
    BY Types DEF TypeOK, Call, descvars, devvars, availvars
  <1>2. Submitted' = Submitted
    BY Types DEF TypeOK, Call, Submitted
  <1>3. \A q \in Submitted : req'[q] = req[q]
    BY Types DEF TypeOK, Call, Submitted
  <1>4. UNCHANGED <<free, next, addr, info, status, active, availRing, taken, availIdx, usedRing,
                    seen, usedIdx, owned, head, panicked>>
    BY Zenon DEF Call, descvars, devvars, availvars
  <1>5. \A q \in Procs : pc'[q] = "idle" <=> req'[q] = NoReq
    BY Constants, Types, Places DEF TypeOK, PlaceOK, Call, Submitted
  <1>6. \A q \in Procs : pc'[q] = "wait" => owned[q]
    BY Types, Places DEF TypeOK, PlaceOK, Call, Submitted
  <1>7. \A q \in Procs : pc'[q] = "sleep" => Cardinality(free) < 3
    BY Types, Places DEF TypeOK, PlaceOK, Call, Submitted
  <1>8. seen # usedIdx => raised' \/ handling'
    BY Zenon DEF IInv, Call, devvars
  <1> QED
    BY Zenon, <1>1, <1>2, <1>3, <1>4, <1>5, <1>6, <1>7, <1>8, QuietStep

LEMMA AllocFailsInv ==
  ASSUME IInv, NEW p \in Procs, AllocFails(p)
  PROVE  IInv'
  <1>1. TypeOK'
    BY Types DEF TypeOK, AllocFails, wakeup, descvars, devvars, availvars
  <1>2. Submitted' = Submitted
    BY Types DEF TypeOK, AllocFails, wakeup, Submitted
  <1>3. \A q \in Submitted : req'[q] = req[q]
    BY Types, Zenon DEF TypeOK, AllocFails, wakeup, Submitted
  <1>4. UNCHANGED <<free, next, addr, info, status, active, availRing, taken, availIdx, usedRing,
                    seen, usedIdx, owned, head, panicked>>
    BY Zenon DEF AllocFails, wakeup, descvars, devvars, availvars
  <1>5. \A q \in Procs : pc'[q] = "idle" <=> req'[q] = NoReq
    BY Constants, Types, Places DEF TypeOK, PlaceOK, AllocFails, wakeup, Submitted
  <1>6. \A q \in Procs : pc'[q] = "wait" => owned[q]
    BY Types, Places DEF TypeOK, PlaceOK, AllocFails, wakeup, Submitted
  <1>7. \A q \in Procs : pc'[q] = "sleep" => Cardinality(free) < 3
    BY Types, Places, Zenon DEF TypeOK, PlaceOK, AllocFails, wakeup, Submitted
  <1>8. seen # usedIdx => raised' \/ handling'
    BY Zenon DEF IInv, AllocFails, wakeup, devvars
  <1> QED
    BY Zenon, <1>1, <1>2, <1>3, <1>4, <1>5, <1>6, <1>7, <1>8, QuietStep

LEMMA KillInv ==
  ASSUME IInv, NEW p \in Procs, Kill(p)
  PROVE  IInv'
  <1>1. TypeOK'
    BY Types DEF TypeOK, Kill, descvars, devvars, availvars
  <1>2. Submitted' = Submitted
    BY Types DEF TypeOK, Kill, Submitted
  <1>3. \A q \in Submitted : req'[q] = req[q]
    BY Types, Zenon DEF TypeOK, Kill, Submitted
  <1>4. UNCHANGED <<free, next, addr, info, status, active, availRing, taken, availIdx, usedRing,
                    seen, usedIdx, owned, head, panicked>>
    BY Zenon DEF Kill, descvars, devvars, availvars
  <1>5. \A q \in Procs : pc'[q] = "idle" <=> req'[q] = NoReq
    BY Constants, Types, Places DEF TypeOK, PlaceOK, Kill, Submitted
  <1>6. \A q \in Procs : pc'[q] = "wait" => owned[q]
    BY Types, Places DEF TypeOK, PlaceOK, Kill, Submitted
  <1>7. \A q \in Procs : pc'[q] = "sleep" => Cardinality(free) < 3
    BY Types, Places DEF TypeOK, PlaceOK, Kill, Submitted
  <1>8. seen # usedIdx => raised' \/ handling'
    BY Zenon DEF IInv, Kill, devvars
  <1> QED
    BY Zenon, <1>1, <1>2, <1>3, <1>4, <1>5, <1>6, <1>7, <1>8, QuietStep

LEMMA IntrAckInv ==
  ASSUME IInv, IntrAck
  PROVE  IInv'
  <1>1. TypeOK'
    BY Types DEF TypeOK, IntrAck, descvars, devvars, availvars
  <1>2. Submitted' = Submitted
    BY Types, Zenon DEF TypeOK, IntrAck, Submitted
  <1>3. \A q \in Submitted : req'[q] = req[q]
    BY Types, Zenon DEF TypeOK, IntrAck, Submitted
  <1>4. UNCHANGED <<free, next, addr, info, status, active, availRing, taken, availIdx, usedRing,
                    seen, usedIdx, owned, head, panicked>>
    BY Zenon DEF IntrAck, descvars, devvars, availvars
  <1>5. \A q \in Procs : pc'[q] = "idle" <=> req'[q] = NoReq
    BY Constants, Types, Places, Zenon DEF TypeOK, PlaceOK, IntrAck, Submitted
  <1>6. \A q \in Procs : pc'[q] = "wait" => owned[q]
    BY Types, Places, Zenon DEF TypeOK, PlaceOK, IntrAck, Submitted
  <1>7. \A q \in Procs : pc'[q] = "sleep" => Cardinality(free) < 3
    BY Types, Places, Zenon DEF TypeOK, PlaceOK, IntrAck, Submitted
  <1>8. seen # usedIdx => raised' \/ handling'
    BY Zenon DEF IInv, IntrAck, devvars
  <1> QED
    BY Zenon, <1>1, <1>2, <1>3, <1>4, <1>5, <1>6, <1>7, <1>8, QuietStep

LEMMA IntrReturnInv ==
  ASSUME IInv, IntrReturn
  PROVE  IInv'
  <1>1. TypeOK'
    BY Types DEF TypeOK, IntrReturn, descvars, devvars, availvars
  <1>2. Submitted' = Submitted
    BY Types, Zenon DEF TypeOK, IntrReturn, Submitted
  <1>3. \A q \in Submitted : req'[q] = req[q]
    BY Types, Zenon DEF TypeOK, IntrReturn, Submitted
  <1>4. UNCHANGED <<free, next, addr, info, status, active, availRing, taken, availIdx, usedRing,
                    seen, usedIdx, owned, head, panicked>>
    BY Zenon DEF IntrReturn, descvars, devvars, availvars
  <1>5. \A q \in Procs : pc'[q] = "idle" <=> req'[q] = NoReq
    BY Constants, Types, Places, Zenon DEF TypeOK, PlaceOK, IntrReturn, Submitted
  <1>6. \A q \in Procs : pc'[q] = "wait" => owned[q]
    BY Types, Places, Zenon DEF TypeOK, PlaceOK, IntrReturn, Submitted
  <1>7. \A q \in Procs : pc'[q] = "sleep" => Cardinality(free) < 3
    BY Types, Places, Zenon DEF TypeOK, PlaceOK, IntrReturn, Submitted
  <1>8. seen # usedIdx => raised' \/ handling'
    BY Zenon DEF IInv, IntrReturn, devvars
  <1> QED
    BY Zenon, <1>1, <1>2, <1>3, <1>4, <1>5, <1>6, <1>7, <1>8, QuietStep

LEMMA FinishWaitInv ==
  ASSUME IInv, NEW p \in Procs, Finish(p), MustWait(p)
  PROVE  IInv'
  <1>1. TypeOK'
    BY Types DEF TypeOK, Finish, MustWait, descvars, devvars, availvars
  <1>2. Submitted' = Submitted
    BY Types, Zenon DEF TypeOK, Finish, MustWait, Submitted
  <1>3. \A q \in Submitted : req'[q] = req[q]
    BY Types, Zenon DEF TypeOK, Finish, MustWait, Submitted
  <1>4. UNCHANGED <<free, next, addr, info, status, active, availRing, taken, availIdx, usedRing,
                    seen, usedIdx, owned, head, panicked>>
    BY Zenon DEF Finish, MustWait, descvars, devvars, availvars
  <1>5. \A q \in Procs : pc'[q] = "idle" <=> req'[q] = NoReq
    BY Constants, Types, Places DEF TypeOK, PlaceOK, Finish, MustWait, Submitted
  <1>6. \A q \in Procs : pc'[q] = "wait" => owned[q]
    BY Types, Places DEF TypeOK, PlaceOK, Finish, MustWait, Submitted
  <1>7. \A q \in Procs : pc'[q] = "sleep" => Cardinality(free) < 3
    BY Types, Places DEF TypeOK, PlaceOK, Finish, MustWait, Submitted
  <1>8. seen # usedIdx => raised' \/ handling'
    BY Zenon DEF IInv, Finish, MustWait, devvars
  <1> QED
    BY Zenon, <1>1, <1>2, <1>3, <1>4, <1>5, <1>6, <1>7, <1>8, QuietStep

LEMMA DeviceTakeInv ==
  ASSUME IInv, DeviceTake
  PROVE  IInv'
  <1>0. UNCHANGED <<free, next, addr, info, head, req, owned, status, pc, usedRing, seen, usedIdx,
                    availRing, availIdx, raised, handling, panicked>>
    BY Zenon DEF DeviceTake, descvars, availvars
  <1>1. PICK h : h = availRing[taken % RING]
    OBVIOUS
  <1>2. h \in Announced /\ Window(availRing, Incr(taken), availIdx, Announced \ {h})
    <2>1. availRing \in [Ring -> Desc] /\ Window(availRing, taken, availIdx, Announced)
      BY Types, Zenon DEF IInv, TypeOK
    <2> QED
      BY <1>1, <2>1, WindowPop, Zenon DEF DeviceTake
  <1>3. active' = active \union {h} /\ taken' = Incr(taken)
    BY <1>1, Zenon DEF DeviceTake
  <1>4. TypeOK'
    BY <1>0, <1>2, <1>3 DEF IInv, TypeOK, Announced, DeviceTake
  <1>5. Submitted' = Submitted
    BY <1>0, Zenon DEF Submitted
  <1>6. \A q \in Submitted : ChainOK(q)' /\ Used(q)' = Used(q)
    <2>1. \A q \in Submitted : owned[q] \/ status[head[q]] = 0
      BY Places, Zenon DEF PlaceOK, Submitted, ChainOK
    <2> QED
      BY Zenon, <1>0, <2>1, KeepChains
  <1>7. ASSUME NEW q \in Procs PROVE PlaceOK(q)'
    BY <1>0, <1>5, <1>6, Places, Zenon DEF PlaceOK
  <1>8. \A q, t \in Submitted' : q # t => Apart(q, t)'
    BY <1>5, <1>6, Disjoint DEF Apart
  <1>9. Announced' = Announced \ {h} /\ Finished' = Finished
    <2>1. Announced' = Announced \ {h}
      BY ZenonT(60), <1>0, <1>3, <1>5 DEF Announced
    <2>2. Finished' = Finished
      BY Zenon, <1>0, <1>5 DEF Finished
    <2> QED
      BY Zenon, <2>1, <2>2
  <1>10. \A d \in active' : status'[d] = 255 /\ \E t \in Submitted' : head'[t] = d
    BY <1>0, <1>2, <1>3, <1>5 DEF IInv, Announced
  <1>11. Cardinality(free') + 3 * Cardinality(Submitted') = NUM
    BY <1>0, <1>5, Zenon DEF IInv
  <1>12. /\ Window(availRing', taken', availIdx', Announced')
         /\ Window(usedRing', seen', usedIdx', Finished')
    BY Zenon, <1>0, <1>2, <1>3, <1>9 DEF IInv
  <1> QED
    BY Zenon, <1>0, <1>4, <1>7, <1>8, <1>10, <1>11, <1>12 DEF IInv

\* The handler meets a request that succeeded and is still waiting.
LEMMA NextUsedIs ==
  ASSUME IInv, seen # usedIdx
  PROVE  /\ NextUsed \in Desc /\ status[NextUsed] = 0
         /\ info[NextUsed] \in Submitted /\ head[info[NextUsed]] = NextUsed /\ owned[info[NextUsed]]
         /\ Window(usedRing, Incr(seen), usedIdx, Finished \ {NextUsed})
  <1>1. usedRing \in [Ring -> Desc] /\ Window(usedRing, seen, usedIdx, Finished)
    BY Types, Zenon DEF IInv, TypeOK
  <1>2. NextUsed \in Finished /\ Window(usedRing, Incr(seen), usedIdx, Finished \ {NextUsed})
    BY <1>1, WindowPop, Zenon DEF NextUsed
  <1>3. PICK p \in Submitted : head[p] = NextUsed /\ owned[p]
    BY Zenon, <1>2 DEF Finished
  <1>4. info[NextUsed] = p
    BY <1>3, Places, Zenon DEF PlaceOK, Submitted, ChainOK
  <1> QED
    BY Zenon, <1>2, <1>3, <1>4 DEF Finished

LEMMA IntrUsedInv ==
  ASSUME IInv, IntrUsed
  PROVE  IInv'
  <1>0. /\ UNCHANGED <<free, next, addr, info, head, req, status, usedRing, usedIdx, active, taken,
                       availRing, availIdx, raised, handling, buf, media>>
        /\ seen # usedIdx /\ handling
    BY Zenon DEF IntrUsed, descvars, devvars, availvars
  <1>1. PICK id \in Desc : id = NextUsed
    BY Zenon, <1>0, NextUsedIs
  <1>2. PICK p \in Procs : p = info[id]
    BY Zenon, <1>0, <1>1, NextUsedIs DEF Submitted
  <1>3. /\ status[id] = 0 /\ p \in Submitted /\ head[p] = id /\ owned[p]
        /\ Window(usedRing, Incr(seen), usedIdx, Finished \ {id})
    BY Zenon, <1>0, <1>1, <1>2, NextUsedIs
  <1>4. /\ owned' = [owned EXCEPT ![p] = FALSE] /\ pc' = wakeupBuf(p)
        /\ seen' = Incr(seen) /\ panicked' = panicked
    BY <1>1, <1>2, <1>3, Constants, Zenon DEF IntrUsed
  <1>5. TypeOK'
    BY <1>0, <1>4, Types DEF TypeOK, wakeupBuf
  <1>6. Submitted' = Submitted
    BY <1>4, Types, Zenon DEF TypeOK, Submitted, wakeupBuf
  <1>7. ~owned'[p] /\ \A q \in Procs \ {p} : owned'[q] = owned[q]
    BY <1>4, Types DEF TypeOK
  <1>8. \A q \in Submitted : ChainOK(q)' /\ Used(q)' = Used(q)
    <2>1. \A q \in Submitted : owned[q] \/ status[head[q]] = 0
      BY Places, Zenon DEF PlaceOK, Submitted, ChainOK
    <2>2. \A q \in Submitted : owned'[q] \/ status'[head[q]] = 0
      BY Zenon, <1>0, <1>3, <1>7, <2>1 DEF Submitted
    <2> QED
      BY Zenon, <1>0, <2>2, KeepChains
  <1>9. ASSUME NEW q \in Procs PROVE PlaceOK(q)'
    <2>1. /\ pc'[q] = "idle" <=> req'[q] = NoReq
          /\ pc'[q] = "wait" => owned'[q]
          /\ pc'[q] = "sleep" => Cardinality(free') < 3
      BY <1>0, <1>4, <1>7, Types, Places DEF TypeOK, PlaceOK, wakeupBuf
    <2>2. q \notin Submitted' => head'[q] = NoDesc /\ ~owned'[q]
      BY <1>0, <1>3, <1>6, <1>7, Places DEF PlaceOK
    <2> QED
      BY <1>6, <1>8, <2>1, <2>2, Zenon DEF PlaceOK
  <1>10. \A q, t \in Submitted' : q # t => Apart(q, t)'
    BY <1>6, <1>8, Disjoint DEF Apart
  <1>11. Announced' = Announced
    BY Zenon, <1>0, <1>6, SameAnnounced
  <1>12. Finished' = Finished \ {id}
    <2>1. \A q \in Submitted : head[q] = id => q = p
      BY <1>2, Places DEF PlaceOK, ChainOK, Submitted
    <2> QED
      BY ZenonT(60), <1>0, <1>3, <1>6, <1>7, <2>1 DEF Finished, Submitted
  <1>13. \A d \in active' : status'[d] = 255 /\ \E t \in Submitted' : head'[t] = d
    <2>1. \A d \in active : status[d] = 255 /\ \E t \in Submitted : head[t] = d
      BY Zenon DEF IInv
    <2> QED
      BY <1>0, <1>6, <2>1, ZenonT(60)
  <1>14. Cardinality(free') + 3 * Cardinality(Submitted') = NUM
    BY <1>0, <1>6, Zenon DEF IInv
  <1>15. /\ Window(availRing', taken', availIdx', Announced')
         /\ Window(usedRing', seen', usedIdx', Finished')
    BY Zenon, <1>0, <1>3, <1>4, <1>11, <1>12 DEF IInv
  <1>16. ~panicked' /\ (seen' # usedIdx' => raised' \/ handling')
    BY <1>0, <1>4, Zenon DEF IInv
  <1> QED
    BY Zenon, <1>5, <1>9, <1>10, <1>13, <1>14, <1>15, <1>16 DEF IInv

\* The device works on the chain of a request that still waits for it.
LEMMA ActiveIs ==
  ASSUME IInv, NEW h \in active
  PROVE  \E p \in Submitted :
           /\ head[p] = h /\ status[h] = 255 /\ owned[p] /\ addr[h][2] = req[p]
           /\ addr[next[h]][2] = p /\ addr[next[next[h]]][2] = h /\ req[p] \in Requests
  <1>1. PICK p \in Submitted : head[p] = h /\ status[h] = 255
    BY DEF IInv
  <1>2. ChainOK(p) /\ req[p] \in Requests
    BY Types, Places DEF TypeOK, PlaceOK, Submitted
  <1>3. /\ addr[h] = <<"op", req[p]>> /\ addr[next[h]] = <<"buf", p>>
        /\ addr[next[next[h]]] = <<"status", h>>
    BY <1>1, <1>2, Zenon DEF ChainOK
  <1>4. owned[p]
    BY <1>1, <1>2 DEF ChainOK
  <1> QED
    BY <1>1, <1>2, <1>3, <1>4

LEMMA DeviceCompleteInv ==
  ASSUME IInv, NEW h \in Desc, DeviceComplete(h)
  PROVE  IInv'
  <1>0. /\ UNCHANGED <<free, next, addr, info, head, req, owned, pc, seen, taken,
                       availRing, availIdx, handling, panicked>>
        /\ h \in active /\ active' = active \ {h} /\ raised' = TRUE
        /\ usedIdx' = Incr(usedIdx) /\ usedRing' = [usedRing EXCEPT ![usedIdx % RING] = h]
    BY Zenon DEF DeviceComplete, descvars, availvars
  <1>1. PICK p \in Submitted :
           /\ head[p] = h /\ status[h] = 255 /\ owned[p] /\ addr[h][2] = req[p]
           /\ addr[next[h]][2] = p /\ addr[next[next[h]]][2] = h /\ req[p] \in Requests
    BY <1>0, ActiveIs
  <1>2. status'[h] = 0 /\ \A d \in Desc \ {h} : status'[d] = status[d]
    BY <1>1, Types, ZenonT(60) DEF TypeOK, DeviceComplete
  <1>3. TypeOK'
    <2>0. req[p].sector \in Sectors /\ p \in Procs
      BY Zenon, <1>1 DEF Requests, Submitted
    <2>4. \/ media' = [media EXCEPT ![req[p].sector] = buf[p]] /\ buf' = buf
          \/ buf' = [buf EXCEPT ![p] = media[req[p].sector]] /\ media' = media
      BY <1>1, Zenon DEF DeviceComplete
    <2>1. media' \in [Sectors -> Vals] /\ buf' \in [Procs -> Vals]
      BY <2>0, <2>4, Types DEF TypeOK
    <2>2. status' \in [Desc -> {0, 255}]
      BY <1>1, Types, Zenon DEF TypeOK, DeviceComplete
    <2>3. usedRing' \in [Ring -> Desc]
      BY <1>0, Types, Zenon DEF TypeOK
    <2> QED
      BY <1>0, <2>1, <2>2, <2>3, Types, Zenon DEF TypeOK
  <1>4. Submitted' = Submitted
    BY <1>0, Zenon DEF Submitted
  <1>5. \A q \in Submitted : head[q] \in Desc /\ (owned[q] \/ status[head[q]] = 0)
    BY Places, Zenon DEF PlaceOK, Submitted, ChainOK
  <1>6. \A q \in Submitted : ChainOK(q)' /\ Used(q)' = Used(q)
    <2>1. \A q \in Submitted : owned'[q] \/ status'[head[q]] = 0
      BY Zenon, <1>0, <1>2, <1>5
    <2> QED
      BY Zenon, <1>0, <2>1, KeepChains
  <1>7. ASSUME NEW q \in Procs PROVE PlaceOK(q)'
    BY <1>0, <1>4, <1>6, Places, Zenon DEF PlaceOK
  <1>8. \A q, t \in Submitted' : q # t => Apart(q, t)'
    BY <1>4, <1>6, Disjoint DEF Apart
  <1>9. Announced' = Announced
    BY <1>0, <1>1, <1>2, <1>4 DEF Announced
  <1>10. Finished' = Finished \union {h} /\ h \notin Finished
    BY <1>0, <1>1, <1>2, <1>4 DEF Finished
  <1>11. \A d \in active' : status'[d] = 255 /\ \E t \in Submitted' : head'[t] = d
    BY <1>0, <1>2, <1>4 DEF IInv, TypeOK
  <1>12. Cardinality(free') + 3 * Cardinality(Submitted') = NUM
    BY <1>0, <1>4, Zenon DEF IInv
  <1>13. Cardinality(Finished) < RING
    <2>1. \A d \in Finished \union {h} : \E q \in Submitted : head[q] = d
      BY Zenon, <1>1 DEF Finished
    <2>2. /\ Cardinality(Finished \union {h}) \in Nat
          /\ Cardinality(Finished \union {h}) <= Cardinality(Submitted)
      BY Zenon, <2>1, HeadsCount
    <2>3. IsFiniteSet(Finished) /\ Cardinality(Finished) \in Nat
      BY Zenon, <2>1, HeadsCount
    <2>4. Cardinality(Finished \union {h}) = Cardinality(Finished) + 1
      BY Zenon, <1>10, <2>3, FS_AddElement
    <2>5. Cardinality(free) \in Nat /\ Cardinality(Submitted) \in Nat
      BY Finite, Types, Zenon DEF TypeOK, Submitted
    <2>6. Cardinality(free) + 3 * Cardinality(Submitted) = NUM
      BY Zenon DEF IInv
    <2> QED
      BY <2>2, <2>3, <2>4, <2>5, <2>6, Constants
  <1>14. Window(usedRing', seen', usedIdx', Finished')
    <2>1. Window(usedRing, seen, usedIdx, Finished) /\ usedRing \in [Ring -> Desc]
      BY Types, Zenon DEF IInv, TypeOK
    <2>2. Window([usedRing EXCEPT ![usedIdx % RING] = h], seen, Incr(usedIdx), Finished \union {h})
      BY <1>10, <1>13, <2>1, WindowPush, Zenon
    <2> QED
      BY <1>0, <1>10, <2>2, Zenon
  <1>15. Window(availRing', taken', availIdx', Announced')
    BY Zenon, <1>0, <1>9 DEF IInv
  <1> QED
    BY Zenon, <1>0, <1>3, <1>7, <1>8, <1>11, <1>12, <1>14, <1>15 DEF IInv

LEMMA SubmitInv ==
  ASSUME IInv, NEW p \in Procs, Submit(p)
  PROVE  IInv'
  <1>0. /\ UNCHANGED <<media, buf, taken, active, usedRing, usedIdx, seen, raised, handling, req, panicked>>
        /\ pc[p] = "alloc" /\ Cardinality(free) >= 3
        /\ availIdx' = Incr(availIdx) /\ pc' = [pc EXCEPT ![p] = "wait"]
        /\ owned' = [owned EXCEPT ![p] = TRUE]
    BY Zenon DEF Submit, devvars
  <1>1. free \in SUBSET Desc /\ IsFiniteSet(free) /\ Cardinality(free) \in Nat
    BY Finite, Types, Zenon DEF TypeOK
  <1>2. PICK d0, d1, d2 \in Desc :
           /\ d0 = alloc_desc(free) /\ d1 = alloc_desc(free \ {d0}) /\ d2 = alloc_desc(free \ {d0, d1})
           /\ d0 \in free /\ d1 \in free \ {d0} /\ d2 \in free \ {d0, d1}
    BY <1>0, <1>1, TakeThree, Zenon
  <1>3. /\ free' = free \ {d0, d1, d2}
        /\ next' = [next EXCEPT ![d0] = d1, ![d1] = d2, ![d2] = NoDesc]
        /\ addr' = [addr EXCEPT ![d0] = <<"op", req[p]>>, ![d1] = <<"buf", p>>, ![d2] = <<"status", d0>>]
        /\ status' = [status EXCEPT ![d0] = 255]
        /\ info' = [info EXCEPT ![d0] = p]
        /\ availRing' = [availRing EXCEPT ![availIdx % RING] = d0]
        /\ head' = [head EXCEPT ![p] = d0]
    BY <1>2, Zenon DEF Submit
  <1>4. TypeOK'
    <2>1. availRing' \in [Ring -> Desc]
      BY <1>3, Types, Zenon DEF TypeOK
    <2>2. addr' = [d \in Desc |-> addr'[d]]
      BY <1>3, Types, Zenon DEF TypeOK
    <2>3. next' \in [Desc -> Desc \union {NoDesc}] /\ info' \in [Desc -> Procs \union {NoProc}]
      BY <1>3, Types, Zenon DEF TypeOK
    <2>4. status' \in [Desc -> {0, 255}] /\ free' \in SUBSET Desc
      BY <1>3, Types, Zenon DEF TypeOK
    <2>5. /\ pc' \in [Procs -> {"idle", "alloc", "sleep", "wait", "check"}]
          /\ owned' \in [Procs -> BOOLEAN]
      BY <1>0, Types, Zenon DEF TypeOK
    <2>6. head' \in [Procs -> Desc \union {NoDesc}]
      BY <1>3, Types, Zenon DEF TypeOK
    <2> QED
      BY <1>0, <2>1, <2>2, <2>3, <2>4, <2>5, <2>6, Types, Zenon DEF TypeOK
  <1>5. Submitted' = Submitted \union {p} /\ p \notin Submitted
    BY <1>0, Types, OneMore, Zenon
  <1>6. /\ head'[p] = d0 /\ \A q \in Procs \ {p} : head'[q] = head[q]
        /\ owned'[p] /\ \A q \in Procs \ {p} : owned'[q] = owned[q]
        /\ pc'[p] = "wait" /\ \A q \in Procs \ {p} : pc'[q] = pc[q]
    BY <1>0, <1>3, Types DEF TypeOK
  <1>7. /\ next'[d0] = d1 /\ next'[d1] = d2
        /\ \A d \in Desc \ {d0, d1, d2} : next'[d] = next[d]
    <2>1. d0 # d1 /\ d0 # d2 /\ d1 # d2 /\ DOMAIN next = Desc
      BY <1>2, Types, Zenon DEF TypeOK
    <2> QED
      BY Zenon, <1>3, <2>1
  <1>8. /\ addr'[d0] = <<"op", req[p]>> /\ addr'[d1] = <<"buf", p>> /\ addr'[d2] = <<"status", d0>>
        /\ \A d \in Desc \ {d0, d1, d2} : addr'[d] = addr[d]
    BY <1>2, <1>3, Types, Zenon DEF TypeOK
  <1>9. /\ status'[d0] = 255 /\ \A d \in Desc \ {d0} : status'[d] = status[d]
        /\ info'[d0] = p /\ \A d \in Desc \ {d0} : info'[d] = info[d]
    BY <1>2, <1>3, Types DEF TypeOK
  <1>10. ASSUME NEW q \in Submitted
         PROVE  /\ ChainOK(q)' /\ Used(q)' = Used(q)
                /\ Used(q) \subseteq Desc \ {d0, d1, d2} /\ head[q] \in Desc \ {d0}
    <2>1. q \in Procs \ {p} /\ ChainOK(q)
      BY <1>5, Places, Zenon DEF PlaceOK, Submitted
    <2>2. Used(q) \subseteq Desc \ free /\ head[q] \in Used(q)
      BY <2>1, Zenon DEF ChainOK, Used
    <2>3. Used(q) \subseteq Desc \ {d0, d1, d2} /\ head[q] \in Desc \ {d0}
      BY Zenon, <1>2, <2>2
    <2>4. owned[q] \/ status[head[q]] = 0
      BY <2>1, Zenon DEF ChainOK
    <2>5. \A d \in Used(q) : next'[d] = next[d] /\ addr'[d] = addr[d] /\ d \notin free'
      BY Zenon, <1>3, <1>7, <1>8, <2>2, <2>3
    <2>6. /\ head'[q] = head[q] /\ req'[q] = req[q] /\ info'[head[q]] = info[head[q]]
          /\ owned'[q] \/ status'[head[q]] = 0
      BY <1>0, <1>6, <1>9, <2>1, <2>3, <2>4
    <2> QED
      BY <2>1, <2>3, <2>5, <2>6, KeepChain, Zenon
  <1>11. ChainOK(p)' /\ Used(p)' = {d0, d1, d2}
    <2>1. {d0, d1, d2} \subseteq Desc \ free' /\ d0 # d1 /\ d0 # d2 /\ d1 # d2
      BY Zenon, <1>2, <1>3
    <2>2. ChainOK(p)'
      BY Zenon, <1>0, <1>6, <1>7, <1>8, <1>9, <2>1 DEF ChainOK
    <2> QED
      BY Zenon, <1>6, <1>7, <2>2 DEF Used
  <1>12. Cardinality(free') = Cardinality(free) - 3
    <2>1. IsFiniteSet(free) /\ d0 \in free /\ d1 \in free \ {d0} /\ d2 \in free \ {d0, d1}
      BY <1>1, <1>2, Zenon
    <2>2. Cardinality(free \ {d0, d1, d2}) = Cardinality(free) - 3
      BY ONLY <2>1, RemoveThree
    <2> QED
      BY <1>3, <2>2, Zenon
  <1>13. Cardinality(Submitted) \in Nat /\ Cardinality(Submitted') = Cardinality(Submitted) + 1
    <2>1. IsFiniteSet(Submitted) /\ Cardinality(Submitted) \in Nat
      BY Zenon, Finite DEF Submitted
    <2> QED
      BY Zenon, <1>5, <2>1, FS_AddElement
  <1>14. Cardinality(free) + 3 * Cardinality(Submitted) = NUM
    BY Zenon DEF IInv
  <1>15. Cardinality(free') + 3 * Cardinality(Submitted') = NUM
    BY <1>1, <1>12, <1>13, <1>14
  <1>16. ASSUME NEW q \in Procs PROVE PlaceOK(q)'
    <2>1. /\ pc'[q] = "idle" <=> req'[q] = NoReq
          /\ pc'[q] = "wait" => owned'[q]
      <3>1. req' = req /\ pc[p] = "alloc"
        BY <1>0, Zenon
      <3> QED
        BY <1>6, <3>1, Places DEF PlaceOK
    <2>2. pc'[q] = "sleep" => Cardinality(free') < 3
      <3>1. Cardinality(free) >= 3 /\ Cardinality(free) \in Nat
        BY <1>0, <1>1, Zenon
      <3>2. pc[q] # "sleep"
        BY <3>1, Places DEF PlaceOK
      <3> QED
        BY <1>6, <3>2
    <2>3. q \notin Submitted' => head'[q] = NoDesc /\ ~owned'[q]
      BY <1>5, <1>6, Places DEF PlaceOK
    <2> QED
      BY <1>5, <1>10, <1>11, <2>1, <2>2, <2>3, Zenon DEF PlaceOK
  <1>17. \A q, t \in Submitted' : q # t => Apart(q, t)'
    BY <1>5, <1>10, <1>11, Disjoint DEF Apart
  <1>18. Announced' = Announced \union {d0} /\ d0 \notin Announced
    <2>1. d0 \notin active /\ d0 \notin Announced
      BY <1>10 DEF IInv, Announced
    <2> QED
      BY <1>0, <1>5, <1>6, <1>9, <1>10, <2>1 DEF Announced, Submitted
  <1>19. Finished' = Finished
    BY <1>5, <1>6, <1>9, <1>10 DEF Finished, Submitted
  <1>20. Cardinality(Announced) < RING
    <2>1. \A d \in Announced : \E q \in Submitted : head[q] = d
      BY Zenon DEF Announced
    <2>2. Cardinality(Announced) \in Nat /\ Cardinality(Announced) <= Cardinality(Submitted)
      BY Zenon, <2>1, HeadsCount
    <2> QED
      BY <1>0, <1>1, <1>13, <1>14, <2>2, Constants
  <1>21. Window(availRing', taken', availIdx', Announced')
    <2>1. Window(availRing, taken, availIdx, Announced) /\ availRing \in [Ring -> Desc]
      BY Types, Zenon DEF IInv, TypeOK
    <2>2. Window([availRing EXCEPT ![availIdx % RING] = d0], taken, Incr(availIdx), Announced \union {d0})
      BY <1>18, <1>20, <2>1, WindowPush, Zenon
    <2> QED
      BY <1>0, <1>3, <1>18, <2>2, Zenon
  <1>22. Window(usedRing', seen', usedIdx', Finished')
    BY Zenon, <1>0, <1>19 DEF IInv
  <1>23. \A d \in active' : status'[d] = 255 /\ \E t \in Submitted' : head'[t] = d
    BY <1>0, <1>5, <1>6, <1>9, <1>10 DEF IInv, TypeOK, Submitted
  <1> QED
    BY Zenon, <1>0, <1>4, <1>15, <1>16, <1>17, <1>21, <1>22, <1>23 DEF IInv

\* free_chain gives back the three descriptors of the request.
LEMMA ChainIs ==
  ASSUME IInv, NEW p \in Submitted
  PROVE  /\ Chain(head[p]) = Used(p) /\ Used(p) \subseteq Desc \ free /\ head[p] \in Used(p)
         /\ Cardinality(free \union Used(p)) = Cardinality(free) + 3
  <1>1. ChainOK(p) /\ free \in SUBSET Desc
    BY Types, Places, Zenon DEF TypeOK, PlaceOK, Submitted
  <1>2. PICK d0, d1, d2 \in Desc \ free :
           /\ d0 = head[p] /\ d1 = next[d0] /\ d2 = next[d1] /\ d0 # d1 /\ d0 # d2 /\ d1 # d2
    BY <1>1, Zenon DEF ChainOK
  <1>3. d1 # NoDesc /\ d2 # NoDesc
    BY Zenon, <1>2, Constants
  <1>4. Used(p) = {d0, d1, d2}
    BY <1>2, Zenon DEF Used
  <1>5. Chain(head[p]) = {d0, d1, d2}
    BY <1>2, <1>3, Zenon DEF Chain
  <1>6. /\ IsFiniteSet(free) /\ d0 \notin free /\ d1 \notin free /\ d2 \notin free
        /\ d0 # d1 /\ d0 # d2 /\ d1 # d2
    BY Zenon, <1>1, <1>2, Finite
  <1>7. Cardinality(free \union {d0, d1, d2}) = Cardinality(free) + 3
    BY ONLY <1>6, AddThree
  <1> QED
    BY Zenon, <1>2, <1>4, <1>5, <1>7

LEMMA FinishInv ==
  ASSUME IInv, NEW p \in Procs, Finish(p), ~MustWait(p)
  PROVE  IInv'
  <1>0. PICK c : c = Used(p)
    OBVIOUS
  <1>1. /\ pc[p] = "check" /\ p \in Submitted /\ ~owned[p]
    BY Zenon DEF Finish, MustWait, Submitted
  <1>2. /\ Chain(head[p]) = c /\ c \subseteq Desc \ free /\ head[p] \in c
        /\ Cardinality(free \union c) = Cardinality(free) + 3
    BY Zenon, <1>0, <1>1, ChainIs
  <1>3. /\ UNCHANGED <<buf, media, taken, active, usedRing, usedIdx, status, availRing, availIdx, seen,
                       raised, handling, owned>>
        /\ info' = [info EXCEPT ![head[p]] = NoProc]
        /\ free' = free \union c /\ panicked' = (c \intersect free # {})
        /\ next' = [d \in Desc |-> IF d \in c THEN NoDesc ELSE next[d]]
        /\ addr' = [d \in Desc |-> IF d \in c THEN NoDesc ELSE addr[d]]
        /\ req' = [req EXCEPT ![p] = NoReq] /\ head' = [head EXCEPT ![p] = NoDesc]
        /\ pc' = [wakeup(pc) EXCEPT ![p] = "idle"]
    BY <1>2, ZenonT(60) DEF Finish, devvars, availvars
  <1>4. TypeOK'
    <2>1. pc' \in [Procs -> {"idle", "alloc", "sleep", "wait", "check"}]
      BY <1>3, Types DEF TypeOK, wakeup
    <2>2. next' \in [Desc -> Desc \union {NoDesc}] /\ addr' = [d \in Desc |-> addr'[d]]
      BY <1>3, Types DEF TypeOK
    <2>3. info' \in [Desc -> Procs \union {NoProc}] /\ free' \in SUBSET Desc
      BY <1>2, <1>3, Types, Zenon DEF TypeOK
    <2>4. req' \in [Procs -> Requests \union {NoReq}] /\ head' \in [Procs -> Desc \union {NoDesc}]
      BY <1>3, Types, Zenon DEF TypeOK
    <2> QED
      BY <1>3, <2>1, <2>2, <2>3, <2>4, Types, Zenon DEF TypeOK
  <1>5. /\ pc'[p] = "idle" /\ \A q \in Procs \ {p} : pc'[q] = IF pc[q] = "sleep" THEN "alloc" ELSE pc[q]
        /\ req'[p] = NoReq /\ \A q \in Procs \ {p} : req'[q] = req[q]
        /\ head'[p] = NoDesc /\ \A q \in Procs \ {p} : head'[q] = head[q]
    BY <1>3, Types DEF TypeOK, wakeup
  <1>6. Submitted' = Submitted \ {p}
    BY Zenon, <1>5 DEF Submitted
  <1>7. \A d \in Desc \ c : next'[d] = next[d] /\ addr'[d] = addr[d] /\ info'[d] = info[d]
    BY <1>2, <1>3, Types DEF TypeOK
  <1>8. ASSUME NEW q \in Submitted \ {p} PROVE ChainOK(q)' /\ Used(q)' = Used(q)
    <2>1. q \in Procs \ {p} /\ ChainOK(q)
      BY Places, Zenon DEF PlaceOK, Submitted
    <2>2. Used(q) \subseteq Desc \ free /\ head[q] \in Used(q)
      BY <2>1, Zenon DEF ChainOK, Used
    <2>3. Used(q) \intersect c = {}
      BY Zenon, <1>0, <1>1 DEF IInv, Apart
    <2>4. owned[q] \/ status[head[q]] = 0
      BY <2>1, Zenon DEF ChainOK
    <2>5. \A d \in Used(q) : next'[d] = next[d] /\ addr'[d] = addr[d] /\ info'[d] = info[d] /\ d \notin free'
      BY Zenon, <1>3, <1>7, <2>2, <2>3
    <2>6. /\ head'[q] = head[q] /\ req'[q] = req[q] /\ info'[head[q]] = info[head[q]]
          /\ owned'[q] \/ status'[head[q]] = 0
      BY Zenon, <1>3, <1>5, <2>1, <2>2, <2>4, <2>5
    <2> QED
      BY Zenon, <2>1, <2>5, <2>6, KeepChain
  <1>9. ASSUME NEW q \in Procs PROVE PlaceOK(q)'
    <2>1. /\ pc'[q] = "idle" <=> req'[q] = NoReq
          /\ pc'[q] = "wait" => owned'[q]
          /\ pc'[q] # "sleep"
      BY <1>3, <1>5, Types, Places DEF TypeOK, PlaceOK
    <2>2. q \notin Submitted' => head'[q] = NoDesc /\ ~owned'[q]
      BY <1>1, <1>3, <1>5, <1>6, Places DEF PlaceOK
    <2> QED
      BY <1>6, <1>8, <2>1, <2>2, Zenon DEF PlaceOK
  <1>10. \A q, t \in Submitted' : q # t => Apart(q, t)'
    BY <1>6, <1>8, Disjoint DEF Apart
  <1>11. Cardinality(free') + 3 * Cardinality(Submitted') = NUM
    <2>1. /\ IsFiniteSet(Submitted) /\ Cardinality(Submitted) \in Nat /\ Cardinality(free) \in Nat
      BY Finite, Types, Zenon DEF TypeOK, Submitted
    <2>2. Cardinality(Submitted') = Cardinality(Submitted) - 1
      BY Zenon, <1>1, <1>6, <2>1, FS_RemoveElement
    <2>3. Cardinality(free) + 3 * Cardinality(Submitted) = NUM
      BY Zenon DEF IInv
    <2> QED
      BY <1>2, <1>3, <2>1, <2>2, <2>3
  <1>12. status[head[p]] = 0
    BY <1>1, Places, Zenon DEF PlaceOK, ChainOK
  <1>13. /\ Window(availRing', taken', availIdx', Announced')
         /\ Window(usedRing', seen', usedIdx', Finished')
         /\ \A d \in active' : status'[d] = 255 /\ \E t \in Submitted' : head'[t] = d
    <2>1. \A d \in Desc : status[d] = 255 =>
            ((\E t \in Submitted : head[t] = d) <=> (\E t \in Submitted' : head'[t] = d))
      BY <1>5, <1>6, <1>12 DEF Submitted
    <2>2. \A d \in Desc : (\E t \in Submitted : head[t] = d /\ owned[t])
                            <=> (\E t \in Submitted' : head'[t] = d /\ owned'[t])
      BY Zenon, <1>1, <1>3, <1>5, <1>6 DEF Submitted
    <2> QED
      BY Zenon, <1>3, <2>1, <2>2, SameWindows
  <1>14. ~panicked'
    <2>1. c \intersect free = {}
      BY Zenon, <1>2
    <2> QED
      BY <1>3, <2>1, Zenon
  <1>15. seen' # usedIdx' => raised' \/ handling'
    BY <1>3, Zenon DEF IInv
  <1> QED
    BY <1>4, <1>9, <1>10, <1>11, <1>13, <1>14, <1>15, Zenon DEF IInv

LEMMA NextInv == IInv /\ [Next]_vars => IInv'
  <1> SUFFICES ASSUME IInv, [Next]_vars PROVE IInv'
    OBVIOUS
  <1>1. ASSUME NEW p \in Procs, Finish(p) PROVE IInv'
    BY Zenon, <1>1, FinishInv, FinishWaitInv
  <1>2. CASE UNCHANGED vars
    <2>1. TypeOK' /\ Submitted' = Submitted
      BY <1>2, Types, Zenon DEF vars, descvars, devvars, availvars, TypeOK, Submitted
    <2> QED
      BY Zenon, <1>2, <2>1, QuietStep DEF vars, descvars, devvars, availvars, IInv, PlaceOK
  <1>3. CASE Next
    BY Zenon, <1>1, <1>3, CallInv, AllocFailsInv, SubmitInv, KillInv, IntrAckInv, IntrUsedInv, IntrReturnInv,
       DeviceTakeInv, DeviceCompleteInv, Zenon DEF Next, virtio_disk_intr, Device
  <1> QED
    BY Zenon, <1>2, <1>3

\* Every state of every behaviour of the driver satisfies the inductive invariant.
THEOREM Invariance == Spec => []IInv
  BY InitInv, NextInv, PTL DEF Spec

\* For any number of processes and descriptors: every descriptor is free or in
\* the chain of one request, and no panic of virtio_disk.c is reached.
THEOREM DescsAlwaysAccounted == Spec => []DescsAccounted
  <1>1. ASSUME IInv PROVE DescsAccounted
    <2>1. ASSUME NEW p \in Submitted PROVE Cardinality(Used(p)) = 3 /\ Used(p) \subseteq Desc \ free
      <3>1. ChainOK(p)
        BY <1>1, Places, Zenon DEF PlaceOK, Submitted
      <3>2. PICK d0, d1, d2 \in Desc \ free :
               d0 = head[p] /\ d1 = next[d0] /\ d2 = next[d1] /\ d0 # d1 /\ d0 # d2 /\ d1 # d2
        BY <3>1, Zenon DEF ChainOK
      <3>3. Used(p) = {d0, d1, d2}
        BY <3>2, Zenon DEF Used
      <3>4. Cardinality({} \union {d0, d1, d2}) = Cardinality({}) + 3
        <4>1. /\ d0 # d1 /\ d0 # d2 /\ d1 # d2 /\ IsFiniteSet({})
              /\ d0 \notin {} /\ d1 \notin {} /\ d2 \notin {}
          BY Zenon, <3>2, FS_EmptySet
        <4> QED
          BY <4>1, AddThree, ZenonT(60)
      <3>5. Cardinality({}) = 0 /\ {} \union {d0, d1, d2} = {d0, d1, d2}
        BY Zenon, FS_EmptySet
      <3> QED
        BY <3>2, <3>3, <3>4, <3>5
    <2> QED
      BY <1>1, <2>1, Zenon DEF IInv, DescsAccounted, Apart
  <1> QED
    BY <1>1, Invariance, PTL

\* For any number of processes and ring entries: nobody waits for an interrupt
\* or a wakeup that has already been and gone.
THEOREM SignalsNeverLost == Spec => []NoLostSignal
  <1>1. ASSUME IInv PROVE NoLostSignal
    BY <1>1, ZenonT(60) DEF IInv, PlaceOK, NoLostSignal
  <1> QED
    BY <1>1, Invariance, PTL
-----------------------------------------------------------------------------
\* A step that carries out no request leaves the others' state alone.
LEMMA SameDone ==
  ASSUME \A q \in Procs : (q \in Submitted' /\ status'[head'[q]] = 0)
                            <=> (q \in Submitted /\ status[head[q]] = 0)
  PROVE  Done' = Done
  BY Zenon DEF Done

LEMMA ServiceInit == Init => Service!Init
  <1> SUFFICES ASSUME Init PROVE Service!Init
    OBVIOUS
  <1>1. Done = [p \in Procs |-> FALSE]
    BY Zenon DEF Init, Done, Submitted
  <1> QED
    BY Zenon, <1>1 DEF Init, Service!Init

LEMMA CallStep ==
  ASSUME IInv, NEW p \in Procs, NEW r \in Requests, NEW v \in Vals, Call(p, r, v)
  PROVE  Service!Call(p, r, v)
  <1>1. \A q \in Procs : q \in Submitted' <=> q \in Submitted
    BY Types DEF TypeOK, Call, Submitted
  <1>2. status' = status /\ head' = head /\ media' = media
    BY Zenon DEF Call, devvars
  <1>3. Done' = Done
    BY Zenon, <1>1, <1>2, SameDone
  <1>4. req[p] = NoReq
    BY Places, Zenon DEF PlaceOK, Call
  <1> QED
    BY Zenon, <1>2, <1>3, <1>4 DEF Call, Service!Call

LEMMA DeviceCompleteStep ==
  ASSUME IInv, NEW h \in Desc, DeviceComplete(h)
  PROVE  \E p \in Procs : Service!Perform(p)
  <1>1. PICK p \in Submitted :
           /\ head[p] = h /\ status[h] = 255 /\ owned[p] /\ addr[h][2] = req[p]
           /\ addr[next[h]][2] = p /\ addr[next[next[h]]][2] = h /\ req[p] \in Requests
    <2>1. h \in active
      BY Zenon DEF DeviceComplete
    <2> QED
      BY <2>1, ActiveIs
  <1>2. pc' = pc /\ head' = head /\ req' = req /\ status' = [status EXCEPT ![h] = 0]
    BY <1>1, Zenon DEF DeviceComplete
  <1>3. /\ \/ /\ req[p].write
              /\ media' = [media EXCEPT ![req[p].sector] = buf[p]]
              /\ buf' = buf
           \/ /\ ~req[p].write
              /\ buf' = [buf EXCEPT ![p] = media[req[p].sector]]
              /\ media' = media
    BY <1>1, ZenonT(60) DEF DeviceComplete
  <1>4. Submitted' = Submitted
    BY <1>2, Zenon DEF Submitted
  <1>5. status'[h] = 0 /\ \A d \in Desc \ {h} : status'[d] = status[d]
    <2>1. status \in [Desc -> {0, 255}]
      BY Types, Zenon DEF TypeOK
    <2> QED
      BY <1>2, <2>1, SMTT(60)
  <1>6. \A q \in Submitted \ {p} : head[q] \in Desc \ {h}
    BY <1>1, Places DEF PlaceOK, ChainOK, Submitted
  <1>7. p \in Procs /\ req[p] # NoReq
    BY Zenon, <1>1, Constants DEF Submitted
  <1>10. Done = [q \in Procs |-> q \in Submitted /\ status[head[q]] = 0]
    BY Zenon DEF Done
  <1>11. status[head[p]] # 0
    BY <1>1
  <1>8. ~Done[p]
    BY <1>7, <1>10, <1>11, Zenon
  <1>9. Done' = [Done EXCEPT ![p] = TRUE]
    <2>1. \A q \in Procs : (q \in Submitted' /\ status'[head'[q]] = 0)
                             <=> (IF q = p THEN TRUE ELSE (q \in Submitted /\ status[head[q]] = 0))
      BY <1>1, <1>2, <1>4, <1>5, <1>6
    <2>2. Done' = [q \in Procs |-> q \in Submitted' /\ status'[head'[q]] = 0]
      BY Zenon DEF Done
    <2> QED
      BY Zenon, <1>10, <2>1, <2>2
  <1> QED
    BY <1>2, <1>3, <1>7, <1>8, <1>9, Zenon DEF Service!Perform

LEMMA FinishStep ==
  ASSUME IInv, NEW p \in Procs, Finish(p), ~MustWait(p)
  PROVE  Service!Return(p)
  <1>1. /\ p \in Submitted /\ status[head[p]] = 0 /\ req[p] # NoReq
    BY Places, Zenon DEF PlaceOK, ChainOK, Finish, MustWait, Submitted
  <1>2. /\ status' = status /\ media' = media /\ buf' = buf /\ req' = [req EXCEPT ![p] = NoReq]
        /\ head' = [head EXCEPT ![p] = NoDesc] /\ pc' = [wakeup(pc) EXCEPT ![p] = "idle"]
    BY Zenon DEF Finish, devvars
  <1>3. Submitted' = Submitted \ {p}
    BY <1>2, Types, Zenon DEF TypeOK, Submitted, wakeup
  <1>4. \A q \in Procs \ {p} : head'[q] = head[q]
    BY <1>2, Types DEF TypeOK
  <1>5. Done = [q \in Procs |-> q \in Submitted /\ status[head[q]] = 0]
    BY Zenon DEF Done
  <1>6. Done' = [q \in Procs |-> q \in Submitted' /\ status'[head'[q]] = 0]
    BY Zenon DEF Done
  <1>7. \A q \in Procs : (q \in Submitted' /\ status'[head'[q]] = 0)
                           <=> (IF q = p THEN FALSE ELSE (q \in Submitted /\ status[head[q]] = 0))
    BY Zenon, <1>2, <1>3, <1>4
  <1>8. Done' = [Done EXCEPT ![p] = FALSE]
    BY Zenon, <1>5, <1>6, <1>7
  <1>9. Done[p]
    BY <1>1, <1>5, Zenon
  <1> QED
    BY <1>1, <1>2, <1>8, <1>9, Zenon DEF Service!Return

LEMMA SubmitStep ==
  ASSUME IInv, NEW p \in Procs, Submit(p)
  PROVE  UNCHANGED <<media, buf, req, Done>>
  <1>1. UNCHANGED <<media, buf, req>> /\ pc[p] = "alloc" /\ Cardinality(free) >= 3
        /\ pc' = [pc EXCEPT ![p] = "wait"]
    BY Zenon DEF Submit, devvars
  <1>2. PICK d0 \in free : d0 = alloc_desc(free)
    <2>1. free \in SUBSET Desc /\ IsFiniteSet(free)
      BY Finite, Types, Zenon DEF TypeOK
    <2> QED
      BY <1>1, <2>1, TakeThree, Zenon
  <1>3. status' = [status EXCEPT ![d0] = 255] /\ head' = [head EXCEPT ![p] = d0]
    BY <1>2, Zenon DEF Submit
  <1>4. /\ status'[d0] = 255 /\ \A d \in Desc \ {d0} : status'[d] = status[d]
        /\ head'[p] = d0 /\ \A q \in Procs \ {p} : head'[q] = head[q]
    BY <1>3, Types DEF TypeOK
  <1>5. Submitted' = Submitted \union {p} /\ p \notin Submitted
    BY <1>1, Types, OneMore, Zenon
  <1>6. \A q \in Submitted : head[q] \in Desc \ {d0}
    BY Places DEF PlaceOK, ChainOK, Submitted
  <1>7. Done' = Done
    <2>1. \A q \in Procs : (q \in Submitted' /\ status'[head'[q]] = 0)
                             <=> (q \in Submitted /\ status[head[q]] = 0)
      BY <1>4, <1>5, <1>6
    <2> QED
      BY Zenon, <2>1, SameDone
  <1> QED
    BY Zenon, <1>1, <1>7

\* The other steps are invisible to the callers.
LEMMA HiddenStep ==
  ASSUME IInv,
         \/ UNCHANGED vars \/ virtio_disk_intr \/ DeviceTake
         \/ \E p \in Procs : AllocFails(p) \/ Kill(p) \/ (Finish(p) /\ MustWait(p))
  PROVE  UNCHANGED <<media, buf, req, Done>>
  <1>1. UNCHANGED <<media, buf, req, status, head>>
    BY Zenon DEF vars, devvars, virtio_disk_intr, IntrAck, IntrUsed, IntrReturn, DeviceTake,
       AllocFails, Kill, Finish
  <1>2. ASSUME NEW q \in Procs PROVE q \in Submitted' <=> q \in Submitted
    <2>1. CASE pc' = pc
      BY Zenon, <2>1 DEF Submitted
    <2>2. CASE IntrUsed
      BY <2>2, NextUsedIs, Types DEF TypeOK, Submitted, IntrUsed, wakeupBuf
    <2>3. ASSUME NEW p \in Procs, AllocFails(p) \/ Kill(p) \/ (Finish(p) /\ MustWait(p))
          PROVE  q \in Submitted' <=> q \in Submitted
      <3>1. CASE AllocFails(p)
        BY <3>1, Types DEF TypeOK, Submitted, AllocFails, wakeup
      <3>2. CASE Kill(p)
        BY <3>2, Types DEF TypeOK, Submitted, Kill
      <3>3. CASE Finish(p) /\ MustWait(p)
        BY <3>3, Types DEF TypeOK, Submitted, Finish
      <3> QED
        BY Zenon, <2>3, <3>1, <3>2, <3>3
    <2> QED
      BY <2>1, <2>2, <2>3, Zenon DEF vars, virtio_disk_intr, IntrAck, IntrReturn, DeviceTake
  <1>3. Done' = Done
    BY Zenon, <1>1, <1>2, SameDone
  <1> QED
    BY <1>1, <1>3, Zenon

LEMMA ServiceStep == IInv /\ [Next]_vars => [Service!Next]_Service!vars
  <1> SUFFICES ASSUME IInv, [Next]_vars PROVE Service!Next \/ UNCHANGED <<media, buf, req, Done>>
    BY Zenon DEF Service!vars
  <1>1. ASSUME NEW p \in Procs, NEW r \in Requests, NEW v \in Vals, Call(p, r, v) PROVE Service!Next
    BY <1>1, CallStep, Zenon DEF Service!Next, Service!Requests, Requests
  <1>2. ASSUME NEW h \in Desc, DeviceComplete(h) PROVE Service!Next
    BY <1>2, DeviceCompleteStep, Zenon DEF Service!Next
  <1>3. ASSUME NEW p \in Procs, Finish(p), ~MustWait(p) PROVE Service!Next
    BY <1>3, FinishStep, Zenon DEF Service!Next
  <1> QED
    BY <1>1, <1>2, <1>3, SubmitStep, HiddenStep, Zenon DEF Next, Device

\* For any number of processes, descriptors and ring entries the driver and the
\* device carry out every request once, on its own buffer, between the call
\* and its return, in whatever order the device completes them.
THEOREM DriverImplementsDiskService == Spec => ServiceSpec
  BY ServiceInit, ServiceStep, Invariance, PTL DEF Spec, ServiceSpec, Service!Spec
=============================================================================
