---------------------------- MODULE InodeProofs -----------------------------
(***************************************************************************)
(* Proofs about Inode, for every number of processes, names, inodes and    *)
(* entries of itable: the counts in memory and on disk stay exact, and the *)
(* acquiresleep of iput never blocks.                                      *)
(***************************************************************************)
EXTENDS Inode, FiniteSetTheorems, NaturalsInduction, TLAPS

Pcs == {"user", "opening", "opened", "creating", "created", "linking", "linked", "dirlink",
        "unlinking", "removing", "removed", "iput", "free", "iputend"}

TypeOK ==
    /\ type \in [Inums -> BOOLEAN] /\ nlink \in [Inums -> Int]
    /\ entry \in [Names -> Inums \union {0}]
    /\ inum \in [Slots -> Inums \union {0}] /\ ref \in [Slots -> Nat]
    /\ valid \in [Slots -> BOOLEAN] /\ mlink \in [Slots -> Int]
    /\ lock \in [Slots -> Procs \union {None}] /\ dlock \in Procs \union {None}
    /\ pc \in [Procs -> Pcs]
    /\ ip \in [Procs -> Slots \union {None}] /\ fd \in [Procs -> Slots \union {None}]
    /\ name \in [Procs -> Names \union {None}]
    /\ panicked \in BOOLEAN

\* Where a process has the inode locked, and where it has read it.
Locked == {"opened", "created", "linked", "removed", "free"}
Loaded == Locked \union {"dirlink", "unlinking"}
\* Where it has the directory locked; at "removed", until the entry is gone.
InDir == {"creating", "created", "removing", "removed"}
Making == {"creating", "created"}

EntriesOK == \A s \in Slots : ref[s] > 0 => inum[s] \in Inums
LocksOK == \A s \in Slots : lock[s] # None => ip[lock[s]] = s /\ pc[lock[s]] \in Locked
DirOK == dlock # None => panicked \/ pc[dlock] \in InDir

\* What a process may rely on.  A new inode has no link and no other holder;
\* an inode about to be freed has no other reference, as iput's comment says.
PlaceOK(p) ==
    /\ pc[p] = "user" <=> ip[p] = None
    /\ pc[p] \in Making \union {"opening", "opened"} => fd[p] = None
    /\ pc[p] \in Locked => lock[ip[p]] = p
    /\ pc[p] \in Loaded => valid[ip[p]]
    /\ pc[p] \in InDir \ {"removed"} => dlock = p
    /\ pc[p] \in InDir /\ dlock = p => name[p] \in Names
    /\ pc[p] \in {"removing", "removed"} /\ dlock = p => entry[name[p]] = inum[ip[p]]
    /\ pc[p] \in Making =>
         /\ entry[name[p]] = 0 /\ nlink[inum[ip[p]]] = 0
         /\ \A q \in Procs : HeldBy(q, inum[ip[p]]) => q = p
    /\ pc[p] = "free" => ref[ip[p]] = 1 /\ mlink[ip[p]] = 0

\* The inductive invariant.
IInv ==
    /\ TypeOK
    /\ PanicsOnlyWhenFull /\ RefExact /\ CacheCoherent /\ LinksExact /\ FreedIsUnused
    /\ EntriesOK /\ LocksOK /\ DirOK
    /\ \A p \in Procs : PlaceOK(p)
-----------------------------------------------------------------------------
(* Constants and counting. *)

LEMMA Constants ==
  /\ NINODE \in Nat \ {0} /\ Slots = 1..NINODE /\ Inums \subseteq Nat \ {0}
  /\ IsFiniteSet(Procs) /\ IsFiniteSet(Names)
  /\ None \notin Procs /\ None \notin Slots
  BY InodeAssumption DEF Slots

LEMMA MinMember ==
  ASSUME NEW S \in SUBSET Nat, S # {}
  PROVE  Min(S) \in S
  <1> DEFINE R == {ss \in Nat \X Nat : ss[1] < ss[2]}
  <1>1. IsWellFoundedOn(R, Nat)
    BY Zenon, NatLessThanWellFounded DEF OpToRel
  <1>2. \E x \in S : \A y \in S : ~(<<y, x>> \in R)
    <2> HIDE DEF R
    <2> QED
      BY <1>1, WFMin, Zenon
  <1>3. PICK x \in S : \A y \in S : ~(<<y, x>> \in R)
    BY Zenon, <1>2
  <1>4. ASSUME NEW y \in S PROVE x <= y
    <2>1. x \in Nat /\ y \in Nat
      BY Zenon
    <2>2. ~(<<y, x>> \in R)
      BY <1>3, Zenon
    <2> QED
      BY <2>1, <2>2
  <1> QED
    BY Zenon, <1>4 DEF Min

\* A count moves by one when one element is added or removed.
LEMMA CountAdd ==
  ASSUME NEW S, NEW T, IsFiniteSet(S), NEW x, x \notin S, T = S \union {x}
  PROVE  /\ Cardinality(T) = Cardinality(S) + 1
         /\ Cardinality(S) \in Nat /\ Cardinality(T) \in Nat
  BY FS_AddElement, FS_CardinalityType

LEMMA CountRemove ==
  ASSUME NEW S, NEW T, IsFiniteSet(S), NEW x \in S, T = S \ {x}
  PROVE  /\ Cardinality(T) = Cardinality(S) - 1
         /\ Cardinality(S) \in Nat /\ Cardinality(T) \in Nat
  <1>1. IsFiniteSet(T) /\ x \notin T /\ S = T \union {x}
    BY FS_Subset
  <1> QED
    BY <1>1, CountAdd

LEMMA CountZero ==
  ASSUME NEW S, IsFiniteSet(S)
  PROVE  /\ Cardinality(S) \in Nat
         /\ Cardinality(S) = 0 <=> S = {}
  BY FS_EmptySet, FS_CardinalityType

LEMMA NoneCount == Cardinality({}) = 0
  BY FS_EmptySet

LEMMA CountOne ==
  ASSUME NEW S, IsFiniteSet(S), Cardinality(S) = 1, NEW x \in S, NEW y \in S
  PROVE  x = y
  <1>1. Cardinality(S \ {x}) = 0 /\ IsFiniteSet(S \ {x})
    BY CountRemove, FS_Subset
  <1> QED
    BY <1>1, CountZero
-----------------------------------------------------------------------------
(* What the invariant says of one process, one entry or one inode. *)

LEMMA Types == IInv => TypeOK
  BY Zenon DEF IInv

LEMMA Places == IInv => \A p \in Procs : PlaceOK(p)
  BY Zenon DEF IInv

LEMMA Finite ==
  /\ \A s : IsFiniteSet(Users(s)) /\ IsFiniteSet(Files(s))
  /\ \A i : IsFiniteSet(NamesOf(i)) /\ IsFiniteSet(Ahead(i))
  BY Constants, FS_Subset, Zenon DEF Users, Files, NamesOf, Ahead

\* An entry somebody points to is in use.
LEMMA InUse ==
  ASSUME IInv, NEW p \in Procs, NEW s \in Slots, ip[p] = s \/ fd[p] = s
  PROVE  ref[s] > 0 /\ inum[s] \in Inums
  <1>1. Users(s) # {} \/ Files(s) # {}
    BY DEF Users, Files
  <1>2. /\ Cardinality(Users(s)) \in Nat /\ (Cardinality(Users(s)) = 0 <=> Users(s) = {})
        /\ Cardinality(Files(s)) \in Nat /\ (Cardinality(Files(s)) = 0 <=> Files(s) = {})
    BY Finite, CountZero, Zenon
  <1>3. ref[s] = Cardinality(Users(s)) + Cardinality(Files(s))
    BY Zenon DEF IInv, RefExact
  <1>4. ref[s] > 0
    BY <1>1, <1>2, <1>3
  <1> QED
    BY <1>4, Zenon DEF IInv, EntriesOK

\* The entry of a process in a system call.
LEMMA Mine ==
  ASSUME IInv, NEW p \in Procs, pc[p] # "user"
  PROVE  ip[p] \in Slots /\ ref[ip[p]] > 0 /\ inum[ip[p]] \in Inums
  <1>1. ip[p] \in Slots
    BY Types, Places, Zenon DEF TypeOK, PlaceOK
  <1> QED
    BY <1>1, InUse, Zenon

\* With one reference to an entry there is one process that points to it.
LEMMA Single ==
  ASSUME IInv, NEW p \in Procs, NEW s \in Slots, ip[p] = s, ref[s] = 1
  PROVE  /\ \A q \in Procs : ip[q] = s => q = p
         /\ \A q \in Procs : fd[q] # s
  <1>1. ref[s] = Cardinality(Users(s)) + Cardinality(Files(s))
    BY Zenon DEF IInv, RefExact
  <1>2. p \in Users(s)
    BY Zenon DEF Users
  <1>3. /\ Cardinality(Users(s)) \in Nat /\ (Cardinality(Users(s)) = 0 <=> Users(s) = {})
        /\ Cardinality(Files(s)) \in Nat /\ (Cardinality(Files(s)) = 0 <=> Files(s) = {})
    BY Finite, CountZero, Zenon
  <1>4. Cardinality(Users(s)) = 1 /\ Files(s) = {}
    BY <1>1, <1>2, <1>3
  <1>5. \A q \in Users(s) : q = p
    BY <1>2, <1>4, Finite, CountOne
  <1> QED
    BY <1>4, <1>5, Zenon DEF Users, Files

\* Two entries in use hold two inodes.
LEMMA OneEntry ==
  ASSUME IInv, NEW s \in Slots, NEW t \in Slots, ref[s] > 0, ref[t] > 0, inum[s] = inum[t]
  PROVE  s = t
  BY Zenon DEF IInv, RefExact

\* Who makes an inode or is about to free one has it alone.
LEMMA Alone ==
  ASSUME IInv, NEW p \in Procs, NEW q \in Procs, p # q, pc[p] # "user",
         pc[q] = "free" \/ (pc[q] \in Making /\ pc[p] # "iputend")
  PROVE  ip[p] # ip[q] /\ inum[ip[p]] # inum[ip[q]]
  <1>1. /\ ip[p] \in Slots /\ ref[ip[p]] > 0
        /\ ip[q] \in Slots /\ ref[ip[q]] > 0
    BY Mine, Zenon DEF Making
  <1>2. CASE pc[q] = "free"
    <2>1. ref[ip[q]] = 1
      BY <1>2, Places, Zenon DEF PlaceOK
    <2>2. ip[p] # ip[q]
      BY <1>1, <2>1, Single, Zenon
    <2> QED
      BY <1>1, <2>2, OneEntry, Zenon
  <1>3. CASE pc[q] \in Making /\ pc[p] # "iputend"
    <2>1. ip[p] # None
      BY <1>1, Constants
    <2>2. ~HeldBy(p, inum[ip[q]])
      BY <1>3, Places, Zenon DEF PlaceOK
    <2>3. inum[ip[p]] # inum[ip[q]]
      BY <1>3, <2>1, <2>2, Zenon DEF HeldBy
    <2> QED
      BY <2>3
  <1> QED
    BY <1>2, <1>3

\* A name leads to an allocated inode with a link, which nobody makes or frees.
LEMMA NamedIs ==
  ASSUME IInv, NEW f \in Names, entry[f] # 0
  PROVE  /\ entry[f] \in Inums /\ type[entry[f]] /\ nlink[entry[f]] > 0
         /\ \A q \in Procs : pc[q] \in Making \union {"free"} => inum[ip[q]] # entry[f]
  <1>1. entry[f] \in Inums
    BY Types DEF TypeOK
  <1>2. f \in NamesOf(entry[f])
    BY Zenon DEF NamesOf
  <1>3. type[entry[f]]
    BY <1>1, <1>2, Zenon DEF IInv, FreedIsUnused
  <1>4. nlink[entry[f]] = Cardinality(NamesOf(entry[f])) + Cardinality(Ahead(entry[f]))
    BY <1>1, <1>3, Zenon DEF IInv, LinksExact
  <1>5. /\ Cardinality(NamesOf(entry[f])) \in Nat
        /\ Cardinality(NamesOf(entry[f])) # 0
        /\ Cardinality(Ahead(entry[f])) \in Nat
    BY <1>2, Finite, CountZero, Zenon
  <1>6. nlink[entry[f]] > 0
    BY <1>4, <1>5
  <1>7. ASSUME NEW q \in Procs, pc[q] \in Making \union {"free"}
        PROVE  nlink[inum[ip[q]]] = 0
    <2>1. CASE pc[q] \in Making
      BY <2>1, Places, Zenon DEF PlaceOK
    <2>2. CASE pc[q] = "free"
      <3>1. ip[q] \in Slots /\ ref[ip[q]] > 0
        BY <2>2, Mine, Zenon
      <3>2. valid[ip[q]] /\ mlink[ip[q]] = 0
        BY <2>2, Places, Zenon DEF PlaceOK, Loaded, Locked
      <3> QED
        BY <3>1, <3>2, Zenon DEF IInv, CacheCoherent
    <2> QED
      BY <1>7, <2>1, <2>2, Zenon
  <1>8. nlink[entry[f]] # 0
    BY <1>6
  <1> QED
    BY <1>1, <1>3, <1>6, <1>7, <1>8, Zenon

\* Nothing leads to an inode that is not allocated.
LEMMA FreeIs ==
  ASSUME IInv, NEW i \in Inums, ~type[i]
  PROVE  /\ NamesOf(i) = {} /\ Ahead(i) = {}
         /\ \A q \in Procs : ~HeldBy(q, i)
         /\ \A s \in Slots : ref[s] > 0 /\ inum[s] = i => ~valid[s]
  <1>1. NamesOf(i) = {} /\ \A q \in Procs : ~HeldBy(q, i)
    BY Zenon DEF IInv, FreedIsUnused
  <1>2. \A q \in Procs : AheadBy(q, i) => HeldBy(q, i)
    BY Zenon DEF AheadBy, HeldBy
  <1>3. Ahead(i) = {}
    BY <1>1, <1>2 DEF Ahead
  <1>4. \A s \in Slots : ref[s] > 0 /\ inum[s] = i => ~valid[s]
    BY Zenon DEF IInv, CacheCoherent
  <1> QED
    BY <1>1, <1>3, <1>4, Zenon
-----------------------------------------------------------------------------
(* Frames: a step of p leaves the other processes and the entries in use. *)

Others(p) == \A q \in Procs \ {p} :
    pc'[q] = pc[q] /\ ip'[q] = ip[q] /\ fd'[q] = fd[q] /\ name'[q] = name[q]
InumsKept == \A s \in Slots : ref[s] > 0 => inum'[s] = inum[s]
DirKept(p) == \A q \in Procs \ {p} : pc[q] \in InDir => (dlock' = q <=> dlock = q)

LEMMA OthersKept ==
  ASSUME IInv, NEW p \in Procs, Others(p), InumsKept, DirKept(p), NEW q \in Procs \ {p}, NEW i
  PROVE  /\ AheadBy(q, i)' <=> AheadBy(q, i)
         /\ HeldBy(q, i)' <=> HeldBy(q, i)
         /\ ip[q] # None => inum'[ip[q]] = inum[ip[q]]
  <1>1. pc'[q] = pc[q] /\ ip'[q] = ip[q] /\ fd'[q] = fd[q]
    BY Zenon DEF Others
  <1>2. ip[q] # None => inum'[ip[q]] = inum[ip[q]]
    BY InUse, Types, Zenon DEF TypeOK, InumsKept
  <1>3. fd[q] # None => inum'[fd[q]] = inum[fd[q]]
    BY InUse, Types, Zenon DEF TypeOK, InumsKept
  <1>4. pc[q] = "removed" => (dlock' = q <=> dlock = q)
    BY Zenon DEF DirKept, InDir
  <1>5. AheadBy(q, i)' <=> AheadBy(q, i)
    BY <1>1, <1>2, <1>4, Zenon DEF AheadBy
  <1>6. HeldBy(q, i)' <=> HeldBy(q, i)
    BY <1>1, <1>2, <1>3, Zenon DEF HeldBy
  <1> QED
    BY <1>2, <1>5, <1>6, Zenon

\* The clause of another process, from what the step does to what it relies on.
LEMMA OtherPlace ==
  ASSUME IInv, NEW p \in Procs, Others(p), InumsKept, NEW q \in Procs \ {p},
         DirKept(p),
         pc[q] \in Locked => lock'[ip[q]] = lock[ip[q]],
         pc[q] \in Loaded => valid'[ip[q]],
         pc[q] \in InDir /\ dlock = q => entry'[name[q]] = entry[name[q]],
         pc[q] \in Making => \A i \in Inums : i = inum[ip[q]] =>
             nlink'[i] = nlink[i] /\ (HeldBy(p, i)' => HeldBy(p, i)),
         pc[q] = "free" => ref'[ip[q]] = ref[ip[q]] /\ mlink'[ip[q]] = mlink[ip[q]]
  PROVE  PlaceOK(q)'
  <1>1. pc'[q] = pc[q] /\ ip'[q] = ip[q] /\ fd'[q] = fd[q] /\ name'[q] = name[q]
    BY Zenon DEF Others
  <1>2. PlaceOK(q)
    BY Places, Zenon
  <1>3. pc[q] \in InDir => (dlock' = q <=> dlock = q)
    BY Zenon DEF DirKept
  <1>4. pc[q] # "user" => inum'[ip[q]] = inum[ip[q]]
    BY Mine, Zenon DEF InumsKept
  <1>5. ASSUME pc[q] \in Making
        PROVE  /\ entry'[name[q]] = 0 /\ nlink'[inum[ip[q]]] = 0
               /\ \A t \in Procs : HeldBy(t, inum[ip[q]])' => t = q
    <2>0. inum[ip[q]] \in Inums
      BY <1>5, Mine, Zenon DEF Making
    <2>1. PICK i \in Inums : i = inum[ip[q]]
      BY <2>0, Zenon
    <2>2. /\ dlock = q /\ entry[name[q]] = 0 /\ nlink[i] = 0
          /\ \A t \in Procs : HeldBy(t, i) => t = q
      BY <1>2, <1>5, <2>1, Zenon DEF PlaceOK, InDir, Making
    <2>3. entry'[name[q]] = 0 /\ nlink'[i] = 0
      BY <1>5, <2>1, <2>2, Zenon DEF InDir, Making
    <2>4. ASSUME NEW t \in Procs, HeldBy(t, i)'
          PROVE  t = q
      <3>1. CASE t = p
        BY <1>5, <2>1, <2>2, <2>4, <3>1, Zenon
      <3>2. CASE t # p
        BY <2>2, <2>4, <3>2, OthersKept, Zenon
      <3> QED
        BY <3>1, <3>2, Zenon
    <2>5. inum'[ip'[q]] = i
      BY <1>1, <1>4, <1>5, <2>1, Zenon DEF Making
    <2>6. \A t \in Procs : HeldBy(t, inum[ip[q]])' => HeldBy(t, i)'
      BY <2>5, Zenon DEF HeldBy
    <2>7. \A t \in Procs : HeldBy(t, inum[ip[q]])' => t = q
      BY <2>4, <2>6, Zenon
    <2> QED
      BY <2>1, <2>3, <2>7, Zenon
  <1>6. pc[q] \in {"removing", "removed"} /\ dlock = q => entry'[name[q]] = inum[ip[q]]
    BY <1>2 DEF PlaceOK, InDir
  <1>7. /\ pc'[q] = "user" <=> ip'[q] = None
        /\ pc'[q] \in Making \union {"opening", "opened"} => fd'[q] = None
        /\ pc'[q] \in Locked => lock'[ip'[q]] = q
        /\ pc'[q] \in Loaded => valid'[ip'[q]]
    BY <1>1, <1>2, Zenon DEF PlaceOK
  <1>8. /\ pc'[q] \in InDir \ {"removed"} => dlock' = q
        /\ pc'[q] \in InDir /\ dlock' = q => name'[q] \in Names
    BY <1>1, <1>2, <1>3, Zenon DEF PlaceOK
  <1>9. pc'[q] \in {"removing", "removed"} /\ dlock' = q => entry'[name'[q]] = inum'[ip'[q]]
    BY <1>1, <1>3, <1>4, <1>6 DEF InDir
  <1>10. /\ pc'[q] \in Making => entry'[name'[q]] = 0 /\ nlink'[inum'[ip'[q]]] = 0
         /\ pc'[q] = "free" => ref'[ip'[q]] = 1 /\ mlink'[ip'[q]] = 0
    <2>1. pc[q] \in Making => inum'[ip[q]] = inum[ip[q]]
      BY <1>4, Zenon DEF Making
    <2>2. pc[q] \in Making => entry'[name[q]] = 0 /\ nlink'[inum'[ip[q]]] = 0
      BY <1>5, <2>1, Zenon
    <2>3. pc[q] = "free" => ref'[ip[q]] = 1 /\ mlink'[ip[q]] = 0
      BY <1>2, Zenon DEF PlaceOK
    <2> QED
      BY <1>1, <2>2, <2>3, Zenon
  <1>11. pc'[q] \in Making => \A t \in Procs : HeldBy(t, inum[ip[q]])' => t = q
    BY <1>1, <1>5, Zenon
  <1> QED
    BY <1>7, <1>8, <1>9, <1>10, <1>11, Zenon DEF PlaceOK

LEMMA NotInDir ==
  ASSUME IInv, ~panicked, NEW p \in Procs, pc[p] \notin InDir
  PROVE  dlock # p
  BY Constants, Zenon DEF IInv, DirOK
-----------------------------------------------------------------------------
(* How the counts move with one process. *)

LEMMA UsersCount ==
  ASSUME NEW p \in Procs, ip'[p] # ip[p],
         \A q \in Procs \ {p} : ip'[q] = ip[q], NEW s
  PROVE  /\ ip'[p] = s => Cardinality(Users(s)') = Cardinality(Users(s)) + 1
         /\ ip[p] = s => Cardinality(Users(s)') = Cardinality(Users(s)) - 1
         /\ ip'[p] # s /\ ip[p] # s => Users(s)' = Users(s)
         /\ Cardinality(Users(s)) \in Nat
  <1>1. IsFiniteSet(Users(s)) /\ Cardinality(Users(s)) \in Nat
    BY Finite, CountZero, Zenon
  <1>2. ASSUME ip'[p] = s
        PROVE  Cardinality(Users(s)') = Cardinality(Users(s)) + 1
    <2>1. Users(s)' = Users(s) \union {p} /\ p \notin Users(s)
      BY <1>2 DEF Users
    <2> QED
      BY <1>1, <2>1, CountAdd
  <1>3. ASSUME ip[p] = s
        PROVE  Cardinality(Users(s)') = Cardinality(Users(s)) - 1
    <2>1. Users(s)' = Users(s) \ {p} /\ p \in Users(s)
      BY <1>3 DEF Users
    <2> QED
      BY <1>1, <2>1, CountRemove
  <1>4. ASSUME ip'[p] # s, ip[p] # s
        PROVE  Users(s)' = Users(s)
    BY <1>4 DEF Users
  <1> QED
    BY <1>1, <1>2, <1>3, <1>4, Zenon

LEMMA FilesCount ==
  ASSUME NEW p \in Procs, fd'[p] # fd[p],
         \A q \in Procs \ {p} : fd'[q] = fd[q], NEW s
  PROVE  /\ fd'[p] = s => Cardinality(Files(s)') = Cardinality(Files(s)) + 1
         /\ fd[p] = s => Cardinality(Files(s)') = Cardinality(Files(s)) - 1
         /\ fd'[p] # s /\ fd[p] # s => Files(s)' = Files(s)
         /\ Cardinality(Files(s)) \in Nat
  <1>1. IsFiniteSet(Files(s)) /\ Cardinality(Files(s)) \in Nat
    BY Finite, CountZero, Zenon
  <1>2. ASSUME fd'[p] = s
        PROVE  Cardinality(Files(s)') = Cardinality(Files(s)) + 1
    <2>1. Files(s)' = Files(s) \union {p} /\ p \notin Files(s)
      BY <1>2 DEF Files
    <2> QED
      BY <1>1, <2>1, CountAdd
  <1>3. ASSUME fd[p] = s
        PROVE  Cardinality(Files(s)') = Cardinality(Files(s)) - 1
    <2>1. Files(s)' = Files(s) \ {p} /\ p \in Files(s)
      BY <1>3 DEF Files
    <2> QED
      BY <1>1, <2>1, CountRemove
  <1>4. ASSUME fd'[p] # s, fd[p] # s
        PROVE  Files(s)' = Files(s)
    BY <1>4 DEF Files
  <1> QED
    BY <1>1, <1>2, <1>3, <1>4, Zenon

LEMMA NamesCount ==
  ASSUME NEW f \in Names, entry'[f] # entry[f],
         \A q \in Names \ {f} : entry'[q] = entry[q], NEW i
  PROVE  /\ entry'[f] = i => Cardinality(NamesOf(i)') = Cardinality(NamesOf(i)) + 1
         /\ entry[f] = i => Cardinality(NamesOf(i)') = Cardinality(NamesOf(i)) - 1
         /\ entry'[f] # i /\ entry[f] # i => NamesOf(i)' = NamesOf(i)
         /\ Cardinality(NamesOf(i)) \in Nat
  <1>1. IsFiniteSet(NamesOf(i)) /\ Cardinality(NamesOf(i)) \in Nat
    BY Finite, CountZero, Zenon
  <1>2. ASSUME entry'[f] = i
        PROVE  Cardinality(NamesOf(i)') = Cardinality(NamesOf(i)) + 1
    <2>1. NamesOf(i)' = NamesOf(i) \union {f} /\ f \notin NamesOf(i)
      BY <1>2 DEF NamesOf
    <2> QED
      BY <1>1, <2>1, CountAdd
  <1>3. ASSUME entry[f] = i
        PROVE  Cardinality(NamesOf(i)') = Cardinality(NamesOf(i)) - 1
    <2>1. NamesOf(i)' = NamesOf(i) \ {f} /\ f \in NamesOf(i)
      BY <1>3 DEF NamesOf
    <2> QED
      BY <1>1, <2>1, CountRemove
  <1>4. ASSUME entry'[f] # i, entry[f] # i
        PROVE  NamesOf(i)' = NamesOf(i)
    BY <1>4 DEF NamesOf
  <1> QED
    BY <1>1, <1>2, <1>3, <1>4, Zenon

LEMMA AheadCount ==
  ASSUME NEW p \in Procs, NEW i,
         \A q \in Procs \ {p} : AheadBy(q, i)' <=> AheadBy(q, i)
  PROVE  /\ AheadBy(p, i)' /\ ~AheadBy(p, i) => Cardinality(Ahead(i)') = Cardinality(Ahead(i)) + 1
         /\ ~AheadBy(p, i)' /\ AheadBy(p, i) => Cardinality(Ahead(i)') = Cardinality(Ahead(i)) - 1
         /\ (AheadBy(p, i)' <=> AheadBy(p, i)) => Cardinality(Ahead(i)') = Cardinality(Ahead(i))
         /\ Cardinality(Ahead(i)) \in Nat
  <1>1. IsFiniteSet(Ahead(i)) /\ Cardinality(Ahead(i)) \in Nat
    BY Finite, CountZero, Zenon
  <1>2. ASSUME AheadBy(p, i)', ~AheadBy(p, i)
        PROVE  Cardinality(Ahead(i)') = Cardinality(Ahead(i)) + 1
    <2>1. Ahead(i)' = Ahead(i) \union {p} /\ p \notin Ahead(i)
      BY <1>2 DEF Ahead
    <2> QED
      BY <1>1, <2>1, CountAdd
  <1>3. ASSUME ~AheadBy(p, i)', AheadBy(p, i)
        PROVE  Cardinality(Ahead(i)') = Cardinality(Ahead(i)) - 1
    <2>1. Ahead(i)' = Ahead(i) \ {p} /\ p \in Ahead(i)
      BY <1>3 DEF Ahead
    <2> QED
      BY <1>1, <2>1, CountRemove
  <1>4. ASSUME AheadBy(p, i)' <=> AheadBy(p, i)
        PROVE  Cardinality(Ahead(i)') = Cardinality(Ahead(i))
    <2>1. Ahead(i)' = Ahead(i)
      BY <1>4 DEF Ahead
    <2> QED
      BY <2>1, Zenon
  <1> QED
    BY <1>1, <1>2, <1>3, <1>4, Zenon
-----------------------------------------------------------------------------
(* The clauses a step leaves alone. *)

LEMMA RefsKept ==
  ASSUME IInv, ip' = ip, fd' = fd, ref' = ref, inum' = inum
  PROVE  RefExact' /\ EntriesOK'
  <1>1. RefExact'
    BY Zenon DEF IInv, RefExact, Users, Files
  <1> QED
    BY <1>1, Zenon DEF IInv, EntriesOK

LEMMA LinksKept ==
  ASSUME IInv, NEW p \in Procs, type' = type, nlink' = nlink, entry' = entry,
         Others(p), InumsKept, DirKept(p), \A i : ~AheadBy(p, i), \A i : ~AheadBy(p, i)'
  PROVE  LinksExact'
  <1>1. ASSUME NEW i \in Inums
        PROVE  Ahead(i)' = Ahead(i)
    <2>1. \A q \in Procs : AheadBy(q, i)' <=> AheadBy(q, i)
      BY OthersKept, Zenon
    <2> QED
      BY <2>1 DEF Ahead
  <1>2. ASSUME NEW i \in Inums
        PROVE  NamesOf(i)' = NamesOf(i)
    BY Zenon DEF NamesOf
  <1> QED
    BY <1>1, <1>2, Zenon DEF IInv, LinksExact

LEMMA UnusedKept ==
  ASSUME IInv, NEW p \in Procs, type' = type, entry' = entry,
         Others(p), InumsKept, DirKept(p),
         \A i \in Inums : HeldBy(p, i)' => HeldBy(p, i)
  PROVE  FreedIsUnused'
  <1>1. ASSUME NEW i \in Inums, NEW q \in Procs, HeldBy(q, i)'
        PROVE  HeldBy(q, i)
    BY <1>1, OthersKept, Zenon
  <1>2. ASSUME NEW i \in Inums
        PROVE  NamesOf(i)' = NamesOf(i)
    BY Zenon DEF NamesOf
  <1> QED
    BY <1>1, <1>2, Zenon DEF IInv, FreedIsUnused

LEMMA LocksKept ==
  ASSUME IInv, NEW p \in Procs, lock' = lock, Others(p),
         pc[p] \in Locked => pc'[p] \in Locked /\ ip'[p] = ip[p]
  PROVE  LocksOK'
  <1>1. SUFFICES ASSUME NEW s \in Slots, lock[s] # None
                 PROVE  ip'[lock[s]] = s /\ pc'[lock[s]] \in Locked
    BY Zenon DEF LocksOK
  <1>2. lock[s] \in Procs /\ ip[lock[s]] = s /\ pc[lock[s]] \in Locked
    BY <1>1, Types, Zenon DEF IInv, LocksOK, TypeOK
  <1> QED
    BY <1>2, Zenon DEF Others

\* iunlock of the inode at hand.
LEMMA Unlocks ==
  ASSUME IInv, NEW p \in Procs, Others(p), pc[p] \in Locked,
         lock' = [lock EXCEPT ![ip[p]] = None]
  PROVE  /\ LocksOK'
         /\ \A q \in Procs \ {p} : pc[q] \in Locked => lock'[ip[q]] = lock[ip[q]]
  <1>1. ip[p] \in Slots /\ lock[ip[p]] = p
    BY Mine, Places, Zenon DEF PlaceOK, Locked
  <1>2. lock'[ip[p]] = None /\ \A s \in Slots \ {ip[p]} : lock'[s] = lock[s]
    BY <1>1, Types DEF TypeOK
  <1>3. ASSUME NEW s \in Slots, lock'[s] # None
        PROVE  ip'[lock'[s]] = s /\ pc'[lock'[s]] \in Locked
    <2>1. lock'[s] = lock[s] /\ s # ip[p]
      BY <1>2, <1>3, Zenon
    <2>2. lock[s] \in Procs /\ ip[lock[s]] = s /\ pc[lock[s]] \in Locked
      BY <1>3, <2>1, Types, Zenon DEF IInv, LocksOK, TypeOK
    <2>3. lock[s] # p
      BY <2>1, <2>2, Zenon
    <2> QED
      BY <2>1, <2>2, <2>3, ZenonT(60) DEF Others
  <1>4. ASSUME NEW q \in Procs \ {p}, pc[q] \in Locked
        PROVE  lock'[ip[q]] = lock[ip[q]]
    <2>1. ip[q] \in Slots /\ lock[ip[q]] = q
      BY <1>4, Mine, Places, Zenon DEF PlaceOK, Locked
    <2>2. ip[q] # ip[p]
      BY <1>1, <2>1, Zenon
    <2> QED
      BY <1>2, <2>1, <2>2, Zenon
  <1> QED
    BY <1>3, <1>4, Zenon DEF LocksOK

LEMMA DirOKKept ==
  ASSUME IInv, ~panicked, NEW p \in Procs, dlock' = dlock, Others(p),
         pc[p] \in InDir => pc'[p] \in InDir
  PROVE  DirOK' /\ DirKept(p)
  <1>1. dlock # None => dlock \in Procs /\ pc[dlock] \in InDir
    BY Types, Zenon DEF IInv, DirOK, TypeOK
  <1> QED
    BY <1>1, Zenon DEF DirOK, DirKept, Others
-----------------------------------------------------------------------------
LEMMA InitInv == Init => IInv
  <1> SUFFICES ASSUME Init PROVE IInv
    OBVIOUS
  <1>1. TypeOK
    <2>1. /\ type \in [Inums -> BOOLEAN] /\ nlink \in [Inums -> Int]
          /\ entry \in [Names -> Inums \union {0}]
      BY DEF Init
    <2>2. /\ inum \in [Slots -> Inums \union {0}] /\ ref \in [Slots -> Nat]
          /\ valid \in [Slots -> BOOLEAN] /\ mlink \in [Slots -> Int]
          /\ lock \in [Slots -> Procs \union {None}] /\ dlock \in Procs \union {None}
      BY DEF Init
    <2>3. /\ pc \in [Procs -> Pcs]
          /\ ip \in [Procs -> Slots \union {None}] /\ fd \in [Procs -> Slots \union {None}]
          /\ name \in [Procs -> Names \union {None}]
      BY DEF Init, Pcs
    <2>4. panicked \in BOOLEAN
      BY Zenon DEF Init
    <2> QED
      BY <2>1, <2>2, <2>3, <2>4, Zenon DEF TypeOK
  <1>2. ASSUME NEW s \in Slots
        PROVE  /\ Users(s) = {} /\ Files(s) = {} /\ ref[s] = 0
               /\ lock[s] = None
    BY Constants DEF Init, Users, Files
  <1>3. ASSUME NEW i \in Inums
        PROVE  ~type[i] /\ NamesOf(i) = {} /\ \A p \in Procs : ~HeldBy(p, i)
    BY Constants DEF Init, NamesOf, HeldBy
  <1>4. RefExact
    <2>1. Cardinality({}) = 0
      BY FS_EmptySet
    <2>2. \A s \in Slots : ref[s] = Cardinality(Users(s)) + Cardinality(Files(s))
      BY <1>2, <2>1
    <2>3. \A s \in Slots : ~(ref[s] > 0)
      BY <1>2
    <2> QED
      BY <2>2, <2>3, Zenon DEF RefExact
  <1>5. CacheCoherent /\ EntriesOK /\ LocksOK
    BY <1>2 DEF CacheCoherent, EntriesOK, LocksOK
  <1>6. LinksExact /\ FreedIsUnused
    BY <1>3, Zenon DEF LinksExact, FreedIsUnused
  <1>7. DirOK /\ PanicsOnlyWhenFull
    BY Zenon DEF Init, DirOK, PanicsOnlyWhenFull
  <1>8. ASSUME NEW p \in Procs
        PROVE  PlaceOK(p)
    BY DEF Init, PlaceOK, Locked, Loaded, InDir, Making
  <1> QED
    BY <1>1, <1>4, <1>5, <1>6, <1>7, <1>8, Zenon DEF IInv
-----------------------------------------------------------------------------
(* iget finds the entry or takes an empty one; the entries in use keep their *)
(* inodes, and none but the one found has the inode.                         *)

Got(p, i, s, l) ==
    /\ ip' = [ip EXCEPT ![p] = s] /\ pc' = [pc EXCEPT ![p] = l]
    /\ ref' = [ref EXCEPT ![s] = @ + 1]
    /\ inum' \in [Slots -> Inums \union {0}] /\ inum'[s] = i
    /\ valid' \in [Slots -> BOOLEAN] /\ mlink' \in [Slots -> Int]
    /\ \A t \in Slots : ref[t] > 0 =>
         inum'[t] = inum[t] /\ valid'[t] = valid[t] /\ mlink'[t] = mlink[t]
    /\ ref[s] = 0 => ~valid'[s]
    /\ \A t \in Slots : ref[t] > 0 /\ inum[t] = i => t = s
    /\ panicked' = panicked

TableFull ==
    /\ Empty = {} /\ panicked' = TRUE
    /\ inum' = inum /\ ref' = ref /\ valid' = valid /\ mlink' = mlink /\ ip' = ip /\ pc' = pc

LEMMA igetGets ==
  ASSUME IInv, NEW p \in Procs, NEW i \in Inums, NEW l, iget(p, i, l)
  PROVE  TableFull \/ \E s \in Slots : Got(p, i, s, l)
  <1>0. TypeOK /\ Slots \subseteq Nat
    BY Types, Constants
  <1>1. CASE /\ Found(i) # {}
             /\ ref' = [ref EXCEPT ![Min(Found(i))] = @ + 1]
             /\ ip' = [ip EXCEPT ![p] = Min(Found(i))]
             /\ Goto(p, l)
             /\ UNCHANGED <<inum, valid, mlink, panicked>>
    <2>1. Found(i) \in SUBSET Nat
      BY <1>0, Zenon DEF Found
    <2>2. PICK s \in Found(i) : s = Min(Found(i))
      BY <1>1, <2>1, MinMember, Zenon
    <2>3. s \in Slots /\ ref[s] > 0 /\ inum[s] = i
      BY <2>2, Zenon DEF Found
    <2>4. \A t \in Slots : ref[t] > 0 /\ inum[t] = i => t = s
      BY <2>3, OneEntry, Zenon
    <2>5. ref[s] # 0
      BY <2>3
    <2>6. Got(p, i, s, l)
      BY <1>0, <1>1, <2>2, <2>3, <2>4, <2>5, Zenon DEF Got, Goto, TypeOK
    <2> QED
      BY <2>3, <2>6, Zenon
  <1>2. CASE /\ Found(i) = {} /\ Empty # {}
             /\ inum' = [inum EXCEPT ![Min(Empty)] = i]
             /\ ref' = [ref EXCEPT ![Min(Empty)] = 1]
             /\ valid' = [valid EXCEPT ![Min(Empty)] = FALSE]
             /\ mlink' = [mlink EXCEPT ![Min(Empty)] = 0]
             /\ ip' = [ip EXCEPT ![p] = Min(Empty)]
             /\ Goto(p, l)
             /\ UNCHANGED panicked
    <2>1. Empty \in SUBSET Nat
      BY <1>0, Zenon DEF Empty
    <2>2. PICK s \in Empty : s = Min(Empty)
      BY <1>2, <2>1, MinMember, Zenon
    <2>3. s \in Slots /\ ref[s] = 0
      BY <2>2, Zenon DEF Empty
    <2>4. /\ inum' = [inum EXCEPT ![s] = i] /\ ref' = [ref EXCEPT ![s] = 1]
          /\ valid' = [valid EXCEPT ![s] = FALSE] /\ mlink' = [mlink EXCEPT ![s] = 0]
          /\ ip' = [ip EXCEPT ![p] = s] /\ pc' = [pc EXCEPT ![p] = l] /\ panicked' = panicked
      BY <1>2, <2>2, Zenon DEF Goto
    <2>5. ref' = [ref EXCEPT ![s] = @ + 1]
      BY <2>3, <2>4
    <2>6. /\ inum' \in [Slots -> Inums \union {0}] /\ inum'[s] = i
          /\ valid' \in [Slots -> BOOLEAN] /\ ~valid'[s] /\ mlink' \in [Slots -> Int]
      BY <1>0, <2>3, <2>4 DEF TypeOK
    <2>7. \A t \in Slots : ref[t] > 0 =>
            inum'[t] = inum[t] /\ valid'[t] = valid[t] /\ mlink'[t] = mlink[t]
      <3>1. \A t \in Slots : ref[t] > 0 => t # s
        BY <2>3
      <3>2. \A t \in Slots \ {s} :
              inum'[t] = inum[t] /\ valid'[t] = valid[t] /\ mlink'[t] = mlink[t]
        BY <1>0, <2>3, <2>4, Zenon DEF TypeOK
      <3> QED
        BY <3>1, <3>2, Zenon
    <2>8. \A t \in Slots : ~(ref[t] > 0 /\ inum[t] = i)
      BY <1>2 DEF Found
    <2> QED
      BY <2>3, <2>4, <2>5, <2>6, <2>7, <2>8, Zenon DEF Got
  <1>3. CASE /\ Found(i) = {} /\ Empty = {}
             /\ panicked' = TRUE
             /\ UNCHANGED <<itable, ip, pc>>
    BY <1>3, Zenon DEF TableFull, itable
  <1> QED
    BY <1>1, <1>2, <1>3, Zenon DEF iget
-----------------------------------------------------------------------------
(* The calls that take a reference: open, link and unlink of a name, with    *)
(* type[i], and create, where the inode is new.                              *)

\* What the callers have made sure of when iget returns.
GotFits(p, i, l) ==
    /\ ~panicked /\ pc[p] = "user" /\ dlock = None
    /\ lock' = lock /\ fd' = fd /\ entry' = entry /\ dlock' \in {None, p}
    /\ name' \in [Procs -> Names \union {None}] /\ \A q \in Procs \ {p} : name'[q] = name[q]
    /\ type' \in [Inums -> BOOLEAN] /\ nlink' \in [Inums -> Int]
    /\ type'[i] /\ \A j \in Inums \ {i} : type'[j] = type[j] /\ nlink'[j] = nlink[j]
    /\ type[i] => nlink'[i] = nlink[i]
    /\ ~type[i] => nlink'[i] = 0
    /\ \A q \in Procs : pc[q] \in Making \union {"free"} => inum[ip[q]] # i
    /\ l \in {"opening", "creating"} => fd[p] = None
    /\ dlock' = p <=> l \in {"removing", "creating"}
    /\ dlock' = p => name'[p] \in Names
    /\ l = "removing" => entry[name'[p]] = i
    /\ l = "creating" => entry[name'[p]] = 0 /\ ~type[i]

LEMMA GotInv ==
  ASSUME IInv, NEW p \in Procs, NEW i \in Inums, NEW s \in Slots,
         NEW l \in {"opening", "linking", "removing", "creating"},
         Got(p, i, s, l), GotFits(p, i, l)
  PROVE  IInv'
  <1> USE DEF GotFits
  <1>0. ip[p] = None /\ None \notin Slots /\ None \notin Procs
    BY Places, Constants, Zenon DEF PlaceOK
  <1>1. /\ pc'[p] = l /\ ip'[p] = s
        /\ \A q \in Procs \ {p} : pc'[q] = pc[q] /\ ip'[q] = ip[q]
    BY Types DEF Got, TypeOK
  <1>2. Others(p) /\ InumsKept
    BY <1>1, Zenon DEF Others, InumsKept, Got
  <1>3. DirKept(p)
    BY <1>0, Zenon DEF DirKept
  <1>4. TypeOK'
    <2>1. l \in Pcs
      BY DEF Pcs
    <2>2. pc' \in [Procs -> Pcs] /\ ip' \in [Procs -> Slots \union {None}] /\ ref' \in [Slots -> Nat]
      BY <2>1, Types DEF Got, TypeOK
    <2>3. dlock' \in Procs \union {None}
      OBVIOUS
    <2> QED
      BY <2>2, <2>3, Types, Zenon DEF Got, TypeOK
  <1>5. ref'[s] = ref[s] + 1 /\ ref[s] \in Nat /\ \A t \in Slots \ {s} : ref'[t] = ref[t]
    BY Types DEF Got, TypeOK
  <1>6. RefExact'
    <2>1. ASSUME NEW t \in Slots
          PROVE  ref'[t] = Cardinality(Users(t)') + Cardinality(Files(t)')
      <3>1. /\ t = s => Cardinality(Users(t)') = Cardinality(Users(t)) + 1
            /\ t # s => Cardinality(Users(t)') = Cardinality(Users(t))
            /\ Cardinality(Users(t)) \in Nat
        BY <1>0, <1>1, UsersCount, ZenonT(60)
      <3>2. Files(t)' = Files(t)
        BY Zenon DEF Files
      <3>3. ref[t] = Cardinality(Users(t)) + Cardinality(Files(t))
        BY Zenon DEF IInv, RefExact
      <3>4. Cardinality(Files(t)) \in Nat
        BY Finite, CountZero, Zenon
      <3>5. Cardinality(Files(t)') = Cardinality(Files(t))
        BY <3>2, Zenon
      <3> QED
        BY <1>5, <3>1, <3>3, <3>4, <3>5
    <2>2. ASSUME NEW t \in Slots, NEW u \in Slots, ref'[t] > 0, ref'[u] > 0, inum'[t] = inum'[u]
          PROVE  t = u
      <3>1. \A v \in Slots \ {s} : ref'[v] > 0 => ref[v] > 0 /\ inum'[v] = inum[v] /\ inum[v] # i
        BY <1>5, Zenon DEF Got
      <3>2. inum'[s] = i
        BY Zenon DEF Got
      <3>3. CASE t = s /\ u # s
        <4>1. inum'[u] # i /\ inum'[t] = i
          BY <2>2, <3>1, <3>2, <3>3
        <4> QED
          BY <2>2, <4>1, Zenon
      <3>4. CASE t # s /\ u = s
        <4>1. inum'[t] # i /\ inum'[u] = i
          BY <2>2, <3>1, <3>2, <3>4
        <4> QED
          BY <2>2, <4>1, Zenon
      <3>5. CASE t # s /\ u # s
        <4>1. ref[t] > 0 /\ ref[u] > 0 /\ inum[t] = inum[u]
          BY <2>2, <3>1, <3>5, Zenon
        <4> QED
          BY <4>1, OneEntry, Zenon
      <3> QED
        BY <3>3, <3>4, <3>5, Zenon
    <2> QED
      BY <2>1, <2>2, Zenon DEF RefExact
  <1>7. EntriesOK'
    <2>1. ASSUME NEW t \in Slots, ref'[t] > 0
          PROVE  inum'[t] \in Inums
      <3>1. CASE t = s
        BY <3>1, Zenon DEF Got
      <3>2. CASE t # s
        BY <1>5, <2>1, <3>2, Zenon DEF Got, IInv, EntriesOK
      <3> QED
        BY <3>1, <3>2
    <2> QED
      BY <2>1, Zenon DEF EntriesOK
  <1>8. CacheCoherent'
    <2>1. SUFFICES ASSUME NEW t \in Slots, ref'[t] > 0, valid'[t]
                   PROVE  type'[inum'[t]] /\ mlink'[t] = nlink'[inum'[t]]
      BY Zenon DEF CacheCoherent
    <2>2. ref[t] > 0
      <3>1. CASE t = s
        <4>1. ref[s] # 0
          BY <2>1, <3>1, Zenon DEF Got
        <4> QED
          BY <1>5, <3>1, <4>1
      <3>2. CASE t # s
        BY <1>5, <2>1, <3>2, Zenon
      <3> QED
        BY <3>1, <3>2
    <2>3. inum'[t] = inum[t] /\ valid[t] /\ mlink'[t] = mlink[t] /\ inum[t] \in Inums
      BY <2>1, <2>2, Zenon DEF Got, IInv, EntriesOK
    <2>4. type[inum[t]] /\ mlink[t] = nlink[inum[t]]
      BY <2>2, <2>3, Zenon DEF IInv, CacheCoherent
    <2>5. type'[inum[t]] /\ nlink'[inum[t]] = nlink[inum[t]]
      BY <2>3, <2>4, Zenon
    <2> QED
      BY <2>3, <2>4, <2>5, ZenonT(60)
  <1>9. \A j : ~AheadBy(p, j) /\ ~AheadBy(p, j)'
    BY <1>0, <1>1 DEF AheadBy
  <1>10. \A j \in Inums : HeldBy(p, j)' => j = i \/ HeldBy(p, j)
    <2>1. fd[p] # None => inum'[fd[p]] = inum[fd[p]]
      <3>1. fd[p] # None => fd[p] \in Slots
        BY Types DEF TypeOK
      <3> QED
        BY <1>2, <3>1, InUse, Zenon DEF InumsKept
    <2>2. inum'[s] = i
      BY Zenon DEF Got
    <2> QED
      BY <1>1, <2>1, <2>2, Zenon DEF HeldBy
  <1>11. ASSUME NEW j \in Inums
         PROVE  NamesOf(j)' = NamesOf(j) /\ Ahead(j)' = Ahead(j)
    <2>1. \A q \in Procs : AheadBy(q, j)' <=> AheadBy(q, j)
      BY <1>2, <1>3, <1>9, OthersKept, Zenon
    <2>2. Ahead(j)' = Ahead(j)
      BY <2>1 DEF Ahead
    <2> QED
      BY <2>2, Zenon DEF NamesOf
  <1>12. LinksExact'
    <2>1. SUFFICES ASSUME NEW j \in Inums, type'[j]
                   PROVE  nlink'[j] = Cardinality(NamesOf(j)') + Cardinality(Ahead(j)')
      BY Zenon DEF LinksExact
    <2>2. CASE type[j]
      <3>1. nlink'[j] = nlink[j]
        BY <2>2, Zenon
      <3>2. nlink[j] = Cardinality(NamesOf(j)) + Cardinality(Ahead(j))
        BY <2>2, Zenon DEF IInv, LinksExact
      <3> QED
        BY <1>11, <3>1, <3>2, Zenon
    <2>3. CASE ~type[j]
      <3>1. j = i /\ nlink'[j] = 0
        BY <2>1, <2>3, Zenon
      <3>2. NamesOf(j) = {} /\ Ahead(j) = {}
        BY <2>3, FreeIs, Zenon
      <3>3. Cardinality(NamesOf(j)') = 0 /\ Cardinality(Ahead(j)') = 0
        BY <1>11, <3>2, NoneCount, Zenon
      <3> QED
        BY <3>1, <3>3
    <2> QED
      BY <2>2, <2>3, Zenon
  <1>13. FreedIsUnused'
    <2>1. ASSUME NEW j \in Inums, NEW q \in Procs, HeldBy(q, j)'
          PROVE  j = i \/ HeldBy(q, j)
      BY <1>2, <1>3, <1>10, <2>1, OthersKept, Zenon
    <2>2. \A j \in Inums : type[j] => type'[j]
      BY Zenon
    <2>3. SUFFICES ASSUME NEW j \in Inums,
                          NamesOf(j)' # {} \/ \E q \in Procs : HeldBy(q, j)'
                   PROVE  type'[j]
      BY Zenon DEF FreedIsUnused
    <2>4. CASE j = i
      BY <2>4, Zenon
    <2>5. CASE j # i
      <3>1. NamesOf(j) # {} \/ \E q \in Procs : HeldBy(q, j)
        BY <1>11, <2>1, <2>3, <2>5, Zenon
      <3>2. type[j]
        BY <3>1, Zenon DEF IInv, FreedIsUnused
      <3> QED
        BY <2>2, <3>2, Zenon
    <2> QED
      BY <2>4, <2>5, Zenon
  <1>14. LocksOK'
    BY <1>2, LocksKept DEF Locked
  <1>15. DirOK'
    BY <1>1, Zenon DEF DirOK, InDir
  <1>16. PanicsOnlyWhenFull'
    BY Zenon DEF PanicsOnlyWhenFull, Got
  <1>17. PlaceOK(p)'
    <2>1. inum'[s] = i
      BY Zenon DEF Got
    <2>2. l = "creating" => nlink'[i] = 0 /\ \A q \in Procs : HeldBy(q, i)' => q = p
      BY <1>2, <1>3, FreeIs, OthersKept, Zenon
    <2> QED
      BY <1>0, <1>1, <2>1, <2>2 DEF PlaceOK, Locked, Loaded, InDir, Making
  <1>18. ASSUME NEW q \in Procs \ {p}
         PROVE  PlaceOK(q)'
    <2>1. pc[q] # "user" => ip[q] \in Slots /\ ref[ip[q]] > 0 /\ inum[ip[q]] \in Inums
      BY Mine, Zenon
    <2>2. pc[q] \in Loaded => valid'[ip[q]]
      BY <2>1, Places, ZenonT(60) DEF PlaceOK, Loaded, Locked, Got
    <2>3. pc[q] \in Making => inum[ip[q]] \in Inums \ {i}
      BY <2>1, Zenon DEF Making
    <2>4. pc[q] = "free" => ip[q] # s /\ ip[q] \in Slots /\ mlink'[ip[q]] = mlink[ip[q]]
      <3>1. SUFFICES ASSUME pc[q] = "free"
                     PROVE  ip[q] # s /\ ip[q] \in Slots /\ mlink'[ip[q]] = mlink[ip[q]]
        BY Zenon
      <3>2. ip[q] \in Slots /\ ref[ip[q]] > 0
        BY <2>1, <3>1, Zenon
      <3>3. inum'[ip[q]] = inum[ip[q]] /\ mlink'[ip[q]] = mlink[ip[q]] /\ inum'[s] = i
        BY <3>2, Zenon DEF Got
      <3>4. inum[ip[q]] # i
        BY <3>1
      <3> QED
        BY <3>2, <3>3, <3>4, Zenon
    <2>5. pc[q] = "free" => ref'[ip[q]] = ref[ip[q]]
      BY <1>5, <2>4, Zenon
    <2>6. pc[q] \in Making => \A j \in Inums : j = inum[ip[q]] =>
            nlink'[j] = nlink[j] /\ (HeldBy(p, j)' => HeldBy(p, j))
      BY <1>10, <2>3, Zenon
    <2>7. /\ pc[q] \in Locked => lock'[ip[q]] = lock[ip[q]]
          /\ pc[q] \in InDir /\ dlock = q => entry'[name[q]] = entry[name[q]]
          /\ pc[q] = "free" => ref'[ip[q]] = ref[ip[q]] /\ mlink'[ip[q]] = mlink[ip[q]]
      BY <2>4, <2>5, Zenon
    <2> QED
      BY <1>2, <1>3, <2>2, <2>6, <2>7, OtherPlace, Zenon
  <1> QED
    BY <1>4, <1>6, <1>7, <1>8, <1>12, <1>13, <1>14, <1>15, <1>16, <1>17, <1>18, Zenon DEF IInv

\* iget panics: the kernel stops with every entry of itable in use.
LEMMA FullInv ==
  ASSUME IInv, ~panicked, NEW p \in Procs, TableFull, pc[p] = "user", dlock = None,
         lock' = lock, fd' = fd, entry' = entry, dlock' \in {None, p},
         name' \in [Procs -> Names \union {None}], \A q \in Procs \ {p} : name'[q] = name[q],
         type' \in [Inums -> BOOLEAN], nlink' \in [Inums -> Int],
         \A j \in Inums : type[j] => type'[j] /\ nlink'[j] = nlink[j],
         \A j \in Inums : type'[j] => type[j] \/ nlink'[j] = 0
  PROVE  IInv'
  <1>0. ip[p] = None /\ None \notin Slots /\ None \notin Procs
    BY Places, Constants, Zenon DEF PlaceOK
  <1>1. pc' = pc /\ ip' = ip /\ inum' = inum /\ ref' = ref /\ valid' = valid /\ mlink' = mlink
    BY Zenon DEF TableFull
  <1>2. Others(p) /\ InumsKept
    BY <1>1, Zenon DEF Others, InumsKept
  <1>3. DirKept(p)
    BY <1>0, Zenon DEF DirKept
  <1>4. TypeOK'
    <2>1. dlock' \in Procs \union {None} /\ panicked' \in BOOLEAN
      BY DEF TableFull
    <2> QED
      BY <1>1, <2>1, Types, Zenon DEF TypeOK
  <1>5. RefExact' /\ EntriesOK'
    BY <1>1, RefsKept, Zenon
  <1>6. CacheCoherent'
    BY <1>1, ZenonT(60) DEF IInv, CacheCoherent, EntriesOK
  <1>7. ASSUME NEW j \in Inums, NEW q \in Procs
        PROVE  /\ AheadBy(q, j)' <=> AheadBy(q, j)
               /\ HeldBy(q, j)' <=> HeldBy(q, j)
    <2>1. CASE q = p
      BY <1>0, <1>1, <2>1, Zenon DEF AheadBy, HeldBy
    <2>2. CASE q # p
      BY <1>2, <1>3, <2>2, OthersKept, Zenon
    <2> QED
      BY <2>1, <2>2, Zenon
  <1>8. ASSUME NEW j \in Inums
        PROVE  NamesOf(j)' = NamesOf(j) /\ Ahead(j)' = Ahead(j)
    <2>1. Ahead(j)' = Ahead(j)
      BY <1>7 DEF Ahead
    <2> QED
      BY <2>1, Zenon DEF NamesOf
  <1>9. LinksExact'
    <2>1. SUFFICES ASSUME NEW j \in Inums, type'[j]
                   PROVE  nlink'[j] = Cardinality(NamesOf(j)') + Cardinality(Ahead(j)')
      BY Zenon DEF LinksExact
    <2>2. CASE type[j]
      <3>1. nlink[j] = Cardinality(NamesOf(j)) + Cardinality(Ahead(j))
        BY <2>2, Zenon DEF IInv, LinksExact
      <3> QED
        BY <1>8, <2>2, <3>1, Zenon
    <2>3. CASE ~type[j]
      <3>1. NamesOf(j) = {} /\ Ahead(j) = {} /\ nlink'[j] = 0
        BY <2>1, <2>3, FreeIs, Zenon
      <3>2. Cardinality(NamesOf(j)') = 0 /\ Cardinality(Ahead(j)') = 0
        BY <1>8, <3>1, NoneCount, Zenon
      <3> QED
        BY <3>1, <3>2
    <2> QED
      BY <2>2, <2>3, Zenon
  <1>10. FreedIsUnused'
    BY <1>7, <1>8, Zenon DEF IInv, FreedIsUnused
  <1>11. LocksOK'
    BY <1>1, Zenon DEF IInv, LocksOK
  <1>12. DirOK' /\ PanicsOnlyWhenFull'
    BY <1>1, ZenonT(60) DEF DirOK, PanicsOnlyWhenFull, TableFull, Empty
  <1>13. PlaceOK(p)'
    BY <1>0, <1>1 DEF PlaceOK, Locked, Loaded, InDir, Making
  <1>14. ASSUME NEW q \in Procs \ {p}
         PROVE  PlaceOK(q)'
    <2>1. pc[q] \in Loaded => valid'[ip[q]]
      BY <1>1, Places, Zenon DEF PlaceOK
    <2>2. pc[q] \in Making => type[inum[ip[q]]] /\ inum[ip[q]] \in Inums
      <3>1. SUFFICES ASSUME pc[q] \in Making
                     PROVE  type[inum[ip[q]]] /\ inum[ip[q]] \in Inums
        OBVIOUS
      <3>2. ip[q] \in Slots /\ inum[ip[q]] \in Inums
        BY <3>1, Mine, Zenon DEF Making
      <3>3. ip[q] # None /\ pc[q] # "iputend"
        BY <1>0, <3>1, <3>2 DEF Making
      <3>4. HeldBy(q, inum[ip[q]])
        BY <3>3, Zenon DEF HeldBy
      <3> QED
        BY <3>2, <3>4, Zenon DEF IInv, FreedIsUnused
    <2>3. pc[q] \in Making => \A j \in Inums : j = inum[ip[q]] =>
            nlink'[j] = nlink[j] /\ (HeldBy(p, j)' => HeldBy(p, j))
      BY <1>7, <2>2, Zenon
    <2>4. /\ pc[q] \in Locked => lock'[ip[q]] = lock[ip[q]]
          /\ pc[q] \in InDir /\ dlock = q => entry'[name[q]] = entry[name[q]]
          /\ pc[q] = "free" => ref'[ip[q]] = ref[ip[q]] /\ mlink'[ip[q]] = mlink[ip[q]]
      BY <1>1, Zenon
    <2> QED
      BY <1>2, <1>3, <2>1, <2>3, <2>4, OtherPlace, Zenon
  <1> QED
    BY <1>4, <1>5, <1>6, <1>9, <1>10, <1>11, <1>12, <1>13, <1>14, Zenon DEF IInv
-----------------------------------------------------------------------------
(* ilock of the inode at hand.  A call holds the inode, so it is allocated   *)
(* and the panics of ilock are out of reach.                                 *)

LEMMA HeldIs ==
  ASSUME IInv, NEW p \in Procs, pc[p] \notin {"user", "iputend"}, NEW s, s = ip[p]
  PROVE  /\ s \in Slots /\ ref[s] > 0 /\ inum[s] \in Inums /\ type[inum[s]]
         /\ valid[s] => mlink[s] = nlink[inum[s]]
  <1>1. s \in Slots /\ ref[s] > 0 /\ inum[s] \in Inums
    BY Mine
  <1>2. s # None
    BY <1>1, Constants, Zenon
  <1>3. PICK i \in Inums : i = inum[s]
    BY <1>1, Zenon
  <1>4. HeldBy(p, i)
    BY <1>2, <1>3 DEF HeldBy
  <1>5. type[i]
    BY <1>4, Zenon DEF IInv, FreedIsUnused
  <1> QED
    BY <1>1, <1>3, <1>5, Zenon DEF IInv, CacheCoherent

LEMMA LockInv ==
  ASSUME IInv, ~panicked, NEW p \in Procs, NEW l,
         <<pc[p], l>> \in {<<"opening", "opened">>, <<"creating", "created">>,
                           <<"linking", "linked">>, <<"removing", "removed">>},
         ilock(p, ip[p], l), UNCHANGED <<disk, inum, ref, dlock, ip, name, fd>>
  PROVE  IInv'
  <1>0. PICK s : s = ip[p]
    OBVIOUS
  <1>1. /\ pc[p] \in {"opening", "creating", "linking", "removing"}
        /\ l \in {"opened", "created", "linked", "removed"} /\ l \in Pcs
        /\ l = "opened" => pc[p] = "opening"
        /\ l = "created" => pc[p] = "creating"
        /\ l = "removed" => pc[p] = "removing"
    BY DEF Pcs
  <1>2. /\ s \in Slots /\ ref[s] > 0 /\ inum[s] \in Inums /\ type[inum[s]]
        /\ valid[s] => mlink[s] = nlink[inum[s]]
    BY <1>0, <1>1, HeldIs
  <1>3. /\ type' = type /\ nlink' = nlink /\ entry' = entry /\ inum' = inum /\ ref' = ref
        /\ dlock' = dlock /\ ip' = ip /\ name' = name /\ fd' = fd
        /\ lock[s] = None /\ lock' = [lock EXCEPT ![s] = p]
        /\ valid' = [valid EXCEPT ![s] = TRUE] /\ pc' = [pc EXCEPT ![p] = l]
        /\ mlink' = [mlink EXCEPT ![s] = IF valid[s] THEN @ ELSE nlink[inum[s]]]
        /\ panicked' = (ref[s] < 1 \/ (~valid[s] /\ ~type[inum[s]]))
    BY <1>0, Zenon DEF ilock, Goto, disk
  <1>4. ~panicked' /\ panicked' \in BOOLEAN
    <2>1. ~(ref[s] < 1)
      BY <1>2, Types DEF TypeOK
    <2> QED
      BY <1>2, <1>3, <2>1, Zenon
  <1>5. /\ pc'[p] = l /\ \A q \in Procs \ {p} : pc'[q] = pc[q]
        /\ lock'[s] = p /\ \A t \in Slots \ {s} : lock'[t] = lock[t]
    BY <1>2, <1>3, Types DEF TypeOK
  <1>6. valid'[s] /\ \A t \in Slots \ {s} : valid'[t] = valid[t]
    BY <1>2, <1>3, Types, Zenon DEF TypeOK
  <1>7. mlink'[s] = nlink[inum[s]] /\ \A t \in Slots \ {s} : mlink'[t] = mlink[t]
    BY <1>2, <1>3, Types DEF TypeOK
  <1>8. TypeOK'
    <2>1. nlink[inum[s]] \in Int /\ mlink[s] \in Int
      BY <1>2, Types DEF TypeOK
    <2>2. mlink' \in [Slots -> Int]
      BY <1>2, <1>3, <2>1, Types DEF TypeOK
    <2>3. lock' \in [Slots -> Procs \union {None}] /\ pc' \in [Procs -> Pcs]
      BY <1>1, <1>2, <1>3, Types DEF TypeOK
    <2>4. valid' \in [Slots -> BOOLEAN]
      BY <1>2, <1>3, Types, Zenon DEF TypeOK
    <2> QED
      BY <1>3, <1>4, <2>2, <2>3, <2>4, Types, Zenon DEF TypeOK
  <1>9. Others(p) /\ InumsKept
    BY <1>3, <1>5, Zenon DEF Others, InumsKept
  <1>10. RefExact' /\ EntriesOK'
    BY <1>3, RefsKept, Zenon
  <1>11. DirOK' /\ DirKept(p)
    <2>1. pc[p] \in InDir => pc'[p] \in InDir
      BY <1>1, <1>5 DEF InDir
    <2> QED
      BY <1>3, <1>9, <2>1, DirOKKept, Zenon
  <1>12. CacheCoherent'
    <2>1. SUFFICES ASSUME NEW t \in Slots, ref[t] > 0, valid'[t]
                   PROVE  type[inum[t]] /\ mlink'[t] = nlink[inum[t]]
      BY <1>3, Zenon DEF CacheCoherent
    <2>2. CASE t = s
      BY <1>2, <1>7, <2>2, Zenon
    <2>3. CASE t # s
      BY <1>6, <1>7, <2>1, <2>3, Zenon DEF IInv, CacheCoherent
    <2> QED
      BY <2>2, <2>3, Zenon
  <1>13. \A i : ~AheadBy(p, i) /\ ~AheadBy(p, i)'
    <2>1. pc[p] = "removing" => dlock = p
      BY Places DEF PlaceOK, InDir
    <2> QED
      BY <1>1, <1>3, <1>5, <2>1 DEF AheadBy
  <1>14. LinksExact'
    BY <1>3, <1>9, <1>11, <1>13, LinksKept, Zenon
  <1>15. \A i \in Inums : HeldBy(p, i)' <=> HeldBy(p, i)
    BY <1>1, <1>3, <1>5 DEF HeldBy
  <1>16. FreedIsUnused'
    BY <1>3, <1>9, <1>11, <1>15, UnusedKept, Zenon
  <1>17. LocksOK'
    <2>1. SUFFICES ASSUME NEW t \in Slots, lock'[t] # None
                   PROVE  ip'[lock'[t]] = t /\ pc'[lock'[t]] \in Locked
      BY Zenon DEF LocksOK
    <2>2. CASE t = s
      BY <1>0, <1>1, <1>3, <1>5, <2>2 DEF Locked
    <2>3. CASE t # s
      <3>1. lock'[t] = lock[t] /\ lock[t] \in Procs
        BY <1>5, <2>1, <2>3, Types, Zenon DEF TypeOK
      <3>2. ip[lock[t]] = t /\ pc[lock[t]] \in Locked
        BY <2>1, <3>1, Zenon DEF IInv, LocksOK
      <3>3. lock[t] # p
        BY <1>1, <3>2 DEF Locked
      <3> QED
        BY <1>3, <1>5, <3>1, <3>2, <3>3, Zenon
    <2> QED
      BY <2>2, <2>3, Zenon
  <1>18. PanicsOnlyWhenFull'
    BY <1>4, Zenon DEF PanicsOnlyWhenFull
  <1>19. PlaceOK(p)'
    <2>1. PlaceOK(p)
      BY Places, Zenon
    <2>2. l = "created" => \A q \in Procs : HeldBy(q, inum[ip[p]])' => q = p
      <3>1. SUFFICES ASSUME l = "created", NEW q \in Procs, HeldBy(q, inum[ip[p]])'
                     PROVE  q = p
        BY Zenon
      <3>2. PICK i \in Inums : i = inum[s]
        BY <1>2, Zenon
      <3>3. HeldBy(q, i)'
        BY <1>0, <1>3, <3>1, <3>2, Zenon DEF HeldBy
      <3>4. q # p => HeldBy(q, i)
        BY <1>9, <1>11, <3>3, OthersKept, Zenon
      <3>5. HeldBy(q, i) => q = p
        BY <1>0, <1>1, <2>1, <3>1, <3>2, Zenon DEF PlaceOK, Making
      <3> QED
        BY <3>4, <3>5, Zenon
    <2>3. l \in {"opened", "created"} => fd[p] = None
      BY <1>1, <2>1 DEF PlaceOK, Making
    <2>4. /\ l \in InDir => dlock = p /\ name[p] \in Names
          /\ l = "removed" => entry[name[p]] = inum[ip[p]]
          /\ l = "created" => entry[name[p]] = 0 /\ nlink[inum[ip[p]]] = 0
      BY <1>1, <2>1 DEF PlaceOK, InDir, Making
    <2>5. ip[p] # None /\ l # "user" /\ l # "free"
      BY <1>0, <1>1, <1>2, Constants
    <2>6. /\ l \in InDir /\ dlock = p => name[p] \in Names
          /\ l \in InDir \ {"removed"} => dlock = p
          /\ l \in {"removing", "removed"} /\ dlock = p => entry[name[p]] = inum[ip[p]]
          /\ l \in Making => l = "created"
          /\ l \in Making \union {"opening", "opened"} => fd[p] = None
      BY <1>1, <2>3, <2>4 DEF Making
    <2> QED
      BY <1>0, <1>3, <1>5, <1>6, <2>2, <2>4, <2>5, <2>6, Zenon DEF PlaceOK
  <1>20. ASSUME NEW q \in Procs \ {p}
         PROVE  PlaceOK(q)'
    <2>1. pc[q] # "user" => ip[q] \in Slots
      BY Mine, Zenon
    <2>2. pc[q] \in Locked => lock[ip[q]] = q /\ ip[q] \in Slots
      BY <2>1, Places DEF PlaceOK, Locked
    <2>3. pc[q] \in Locked => lock'[ip[q]] = lock[ip[q]]
      BY <1>3, <1>5, <2>2, Constants, Zenon
    <2>4. pc[q] \in Loaded => valid[ip[q]] /\ ip[q] \in Slots
      BY <2>1, Places DEF PlaceOK, Loaded, Locked
    <2>5. pc[q] \in Loaded => valid'[ip[q]]
      BY <1>6, <2>4, Zenon
    <2>6. pc[q] = "free" => ip[q] # s /\ ip[q] \in Slots
      BY <1>0, <1>1, <2>1, Alone
    <2>7. pc[q] = "free" => ref'[ip[q]] = ref[ip[q]] /\ mlink'[ip[q]] = mlink[ip[q]]
      BY <1>3, <1>7, <2>6, Zenon
    <2> QED
      BY <1>3, <1>9, <1>11, <1>15, <2>3, <2>5, <2>7, OtherPlace, Zenon
  <1> QED
    BY <1>8, <1>10, <1>11, <1>12, <1>14, <1>16, <1>17, <1>18, <1>19, <1>20, Zenon DEF IInv
-----------------------------------------------------------------------------
(* The clauses of the other processes, when p neither locks nor loads. *)

LEMMA OtherPlaces ==
  ASSUME IInv, NEW p \in Procs, Others(p), DirKept(p), inum' = inum,
         \A q \in Procs \ {p} : pc[q] \in Locked => lock'[ip[q]] = lock[ip[q]],
         \A q \in Procs \ {p} : pc[q] \in Loaded => valid'[ip[q]] = valid[ip[q]],
         \A q \in Procs \ {p} : dlock = q => entry' = entry,
         \A q \in Procs \ {p} : pc[q] = "free" =>
             ref'[ip[q]] = ref[ip[q]] /\ mlink'[ip[q]] = mlink[ip[q]],
         \A q \in Procs \ {p} : pc[q] \in Making =>
             \A i \in Inums : i = inum[ip[q]] => nlink'[i] = nlink[i],
         \A i \in Inums : HeldBy(p, i)' => HeldBy(p, i)
  PROVE  \A q \in Procs \ {p} : PlaceOK(q)'
  <1>1. SUFFICES ASSUME NEW q \in Procs \ {p}
                 PROVE  PlaceOK(q)'
    BY Zenon
  <1>2. InumsKept
    BY Zenon DEF InumsKept
  <1>3. pc[q] \in Loaded => valid'[ip[q]]
    BY Places, Zenon DEF PlaceOK
  <1>4. pc[q] \in InDir /\ dlock = q => entry'[name[q]] = entry[name[q]]
    BY Zenon
  <1>5. pc[q] \in Making => \A i \in Inums : i = inum[ip[q]] =>
            nlink'[i] = nlink[i] /\ (HeldBy(p, i)' => HeldBy(p, i))
    BY Zenon
  <1> QED
    BY <1>2, <1>3, <1>4, <1>5, OtherPlace, Zenon

(* A reference moves between the process and its open file. *)

LEMMA RefMoves ==
  ASSUME IInv, NEW p \in Procs, Others(p), ref' = ref, inum' = inum, NEW s \in Slots,
         \/ ip[p] = s /\ ip'[p] = None /\ fd[p] = None /\ fd'[p] = s
         \/ ip[p] = None /\ ip'[p] = s /\ fd[p] = s /\ fd'[p] = None
  PROVE  /\ RefExact' /\ EntriesOK'
         /\ \A i : pc[p] # "iputend" /\ pc'[p] # "iputend" => (HeldBy(p, i)' <=> HeldBy(p, i))
  <1>0. s # None
    BY Constants, Zenon
  <1>1. /\ \A q \in Procs \ {p} : ip'[q] = ip[q] /\ fd'[q] = fd[q]
        /\ ip'[p] # ip[p] /\ fd'[p] # fd[p]
    BY <1>0, Zenon DEF Others
  <1>2. ASSUME NEW t \in Slots
        PROVE  ref'[t] = Cardinality(Users(t)') + Cardinality(Files(t)')
    <2>0. t # None
      BY Constants, Zenon
    <2>1. ref[t] = Cardinality(Users(t)) + Cardinality(Files(t))
      BY Zenon DEF IInv, RefExact
    <2>2. /\ ip'[p] = t => Cardinality(Users(t)') = Cardinality(Users(t)) + 1
          /\ ip[p] = t => Cardinality(Users(t)') = Cardinality(Users(t)) - 1
          /\ ip'[p] # t /\ ip[p] # t => Users(t)' = Users(t)
          /\ Cardinality(Users(t)) \in Nat
      BY <1>1, UsersCount, Zenon
    <2>3. /\ fd'[p] = t => Cardinality(Files(t)') = Cardinality(Files(t)) + 1
          /\ fd[p] = t => Cardinality(Files(t)') = Cardinality(Files(t)) - 1
          /\ fd'[p] # t /\ fd[p] # t => Files(t)' = Files(t)
          /\ Cardinality(Files(t)) \in Nat
      BY <1>1, FilesCount, Zenon
    <2>4. CASE t = s
      BY <2>1, <2>2, <2>3, <2>4
    <2>5. CASE t # s
      BY <2>0, <2>1, <2>2, <2>3, <2>5, Zenon
    <2> QED
      BY <2>4, <2>5, Zenon
  <1>3. RefExact'
    BY <1>2, Zenon DEF IInv, RefExact
  <1>4. EntriesOK'
    BY Zenon DEF IInv, EntriesOK
  <1>5. \A i : pc[p] # "iputend" /\ pc'[p] # "iputend" => (HeldBy(p, i)' <=> HeldBy(p, i))
    BY <1>0, Zenon DEF HeldBy
  <1> QED
    BY <1>3, <1>4, <1>5, Zenon

LEMMA OpenFileInv ==
  ASSUME IInv, NEW p \in Procs, OpenFile(p)
  PROVE  IInv'
  <1>0. PICK s : s = ip[p]
    OBVIOUS
  <1>1. ~panicked /\ pc[p] = "opened"
    BY Zenon DEF OpenFile, At
  <1>2. s \in Slots /\ fd[p] = None /\ s # None
    BY <1>0, <1>1, Mine, Places, Constants DEF PlaceOK, Making
  <1>3. /\ type' = type /\ nlink' = nlink /\ entry' = entry /\ inum' = inum /\ ref' = ref
        /\ valid' = valid /\ mlink' = mlink
        /\ dlock' = dlock /\ name' = name /\ panicked' = panicked
        /\ lock' = [lock EXCEPT ![s] = None] /\ pc' = [pc EXCEPT ![p] = "user"]
        /\ fd' = [fd EXCEPT ![p] = s] /\ ip' = [ip EXCEPT ![p] = None]
    BY <1>0, Zenon DEF OpenFile, Goto, disk, itable
  <1>4. /\ pc'[p] = "user" /\ fd'[p] = s /\ ip'[p] = None
        /\ \A q \in Procs \ {p} : pc'[q] = pc[q] /\ fd'[q] = fd[q] /\ ip'[q] = ip[q]
    BY <1>3, Types DEF TypeOK
  <1>5. TypeOK'
    <2>1. "user" \in Pcs
      BY DEF Pcs
    <2>2. /\ lock' \in [Slots -> Procs \union {None}] /\ pc' \in [Procs -> Pcs]
          /\ ip' \in [Procs -> Slots \union {None}] /\ fd' \in [Procs -> Slots \union {None}]
      BY <1>2, <1>3, <2>1, Types DEF TypeOK
    <2> QED
      BY <1>3, <2>2, Types, Zenon DEF TypeOK
  <1>6. Others(p) /\ InumsKept
    BY <1>3, <1>4, Zenon DEF Others, InumsKept
  <1>7. /\ RefExact' /\ EntriesOK'
        /\ \A i : HeldBy(p, i)' <=> HeldBy(p, i)
    <2>1. pc[p] # "iputend" /\ pc'[p] # "iputend"
      BY <1>1, <1>4
    <2> QED
      BY <1>0, <1>2, <1>3, <1>4, <1>6, <2>1, RefMoves, Zenon
  <1>8. DirOK' /\ DirKept(p)
    <2>1. pc[p] \notin InDir
      BY <1>1 DEF InDir
    <2> QED
      BY <1>1, <1>3, <1>6, <2>1, DirOKKept, Zenon
  <1>9. LinksExact'
    <2>1. \A i : ~AheadBy(p, i) /\ ~AheadBy(p, i)'
      BY <1>1, <1>4 DEF AheadBy
    <2> QED
      BY <1>3, <1>6, <1>8, <2>1, LinksKept, Zenon
  <1>10. FreedIsUnused'
    BY <1>3, <1>6, <1>7, <1>8, UnusedKept, Zenon
  <1>11. /\ LocksOK'
         /\ \A q \in Procs \ {p} : pc[q] \in Locked => lock'[ip[q]] = lock[ip[q]]
    <2>1. pc[p] \in Locked
      BY <1>1 DEF Locked
    <2> QED
      BY <1>0, <1>3, <1>6, <2>1, Unlocks, Zenon
  <1>12. CacheCoherent' /\ PanicsOnlyWhenFull'
    BY <1>1, <1>3, Zenon DEF IInv, CacheCoherent, PanicsOnlyWhenFull
  <1>13. PlaceOK(p)'
    BY <1>4 DEF PlaceOK, Locked, Loaded, InDir, Making
  <1>14. \A q \in Procs \ {p} : PlaceOK(q)'
    BY <1>3, <1>6, <1>7, <1>8, <1>11, OtherPlaces, Zenon
  <1> QED
    BY <1>5, <1>7, <1>8, <1>9, <1>10, <1>11, <1>12, <1>13, <1>14, Zenon DEF IInv

LEMMA CloseInv ==
  ASSUME IInv, NEW p \in Procs, Close(p)
  PROVE  IInv'
  <1>0. PICK s : s = fd[p]
    OBVIOUS
  <1>1. ~panicked /\ pc[p] = "user" /\ s # None
    BY <1>0, Zenon DEF Close, At
  <1>2. s \in Slots /\ ip[p] = None
    BY <1>0, <1>1, Types, Places DEF PlaceOK, TypeOK
  <1>3. /\ type' = type /\ nlink' = nlink /\ entry' = entry /\ inum' = inum /\ ref' = ref
        /\ valid' = valid /\ mlink' = mlink /\ lock' = lock
        /\ dlock' = dlock /\ name' = name /\ panicked' = panicked
        /\ pc' = [pc EXCEPT ![p] = "iput"]
        /\ fd' = [fd EXCEPT ![p] = None] /\ ip' = [ip EXCEPT ![p] = s]
    BY <1>0, Zenon DEF Close, Goto, disk, itable
  <1>4. /\ pc'[p] = "iput" /\ fd'[p] = None /\ ip'[p] = s
        /\ \A q \in Procs \ {p} : pc'[q] = pc[q] /\ fd'[q] = fd[q] /\ ip'[q] = ip[q]
    BY <1>3, Types DEF TypeOK
  <1>5. TypeOK'
    <2>1. "iput" \in Pcs
      BY DEF Pcs
    <2>2. /\ pc' \in [Procs -> Pcs]
          /\ ip' \in [Procs -> Slots \union {None}] /\ fd' \in [Procs -> Slots \union {None}]
      BY <1>2, <1>3, <2>1, Types DEF TypeOK
    <2> QED
      BY <1>3, <2>2, Types, Zenon DEF TypeOK
  <1>6. Others(p) /\ InumsKept
    BY <1>3, <1>4, Zenon DEF Others, InumsKept
  <1>7. /\ RefExact' /\ EntriesOK'
        /\ \A i : HeldBy(p, i)' <=> HeldBy(p, i)
    <2>1. pc[p] # "iputend" /\ pc'[p] # "iputend"
      BY <1>1, <1>4
    <2> QED
      BY <1>0, <1>2, <1>3, <1>4, <1>6, <2>1, RefMoves, Zenon
  <1>8. DirOK' /\ DirKept(p) /\ LocksOK'
    <2>1. pc[p] \notin InDir /\ pc[p] \notin Locked
      BY <1>1 DEF InDir, Locked
    <2> QED
      BY <1>1, <1>3, <1>6, <2>1, DirOKKept, LocksKept, Zenon
  <1>9. LinksExact'
    <2>1. \A i : ~AheadBy(p, i) /\ ~AheadBy(p, i)'
      BY <1>1, <1>4 DEF AheadBy
    <2> QED
      BY <1>3, <1>6, <1>8, <2>1, LinksKept, Zenon
  <1>10. FreedIsUnused'
    BY <1>3, <1>6, <1>7, <1>8, UnusedKept, Zenon
  <1>11. CacheCoherent' /\ PanicsOnlyWhenFull'
    BY <1>1, <1>3, Zenon DEF IInv, CacheCoherent, PanicsOnlyWhenFull
  <1>12. PlaceOK(p)'
    BY <1>1, <1>4 DEF PlaceOK, Locked, Loaded, InDir, Making
  <1>13. \A q \in Procs \ {p} : PlaceOK(q)'
    BY <1>3, <1>6, <1>7, <1>8, OtherPlaces, Zenon
  <1> QED
    BY <1>5, <1>7, <1>8, <1>9, <1>10, <1>11, <1>12, <1>13, Zenon DEF IInv
-----------------------------------------------------------------------------
(* The calls that change links. *)

LEMMA LinksMoved ==
  ASSUME IInv, NEW p \in Procs, NEW i \in Inums, ip[p] # None, inum[ip[p]] = i,
         ip' = ip, inum' = inum, type' = type, Others(p), DirKept(p),
         \A j \in Inums \ {i} : nlink'[j] = nlink[j] /\ NamesOf(j)' = NamesOf(j),
         type[i] => nlink'[i] = Cardinality(NamesOf(i)') + Cardinality(Ahead(i)')
  PROVE  LinksExact'
  <1>1. SUFFICES ASSUME NEW j \in Inums, type[j]
                 PROVE  nlink'[j] = Cardinality(NamesOf(j)') + Cardinality(Ahead(j)')
    BY Zenon DEF LinksExact
  <1>2. CASE j = i
    BY <1>1, <1>2, Zenon
  <1>3. CASE j # i
    <2>1. InumsKept
      BY Zenon DEF InumsKept
    <2>2. ~AheadBy(p, j) /\ ~AheadBy(p, j)'
      BY <1>3, Zenon DEF AheadBy
    <2>3. \A q \in Procs : AheadBy(q, j)' <=> AheadBy(q, j)
      BY <2>1, <2>2, OthersKept, Zenon
    <2>4. Ahead(j)' = Ahead(j)
      BY <2>3 DEF Ahead
    <2>5. nlink[j] = Cardinality(NamesOf(j)) + Cardinality(Ahead(j))
      BY <1>1, Zenon DEF IInv, LinksExact
    <2>6. nlink'[j] = nlink[j] /\ NamesOf(j)' = NamesOf(j)
      BY <1>3, Zenon
    <2> QED
      BY <2>4, <2>5, <2>6, Zenon
  <1> QED
    BY <1>2, <1>3, Zenon

LEMMA UnusedMoved ==
  ASSUME IInv, NEW p \in Procs, type' = type, Others(p), InumsKept, DirKept(p),
         \A i \in Inums : NamesOf(i)' # {} => NamesOf(i) # {} \/ type[i],
         \A i \in Inums : HeldBy(p, i)' => HeldBy(p, i)
  PROVE  FreedIsUnused'
  <1>1. ASSUME NEW i \in Inums, NEW q \in Procs, HeldBy(q, i)'
        PROVE  HeldBy(q, i)
    <2>1. CASE q = p
      BY <1>1, <2>1, Zenon
    <2>2. CASE q # p
      BY <1>1, <2>2, OthersKept, Zenon
    <2> QED
      BY <2>1, <2>2, Zenon
  <1> QED
    BY <1>1, Zenon DEF IInv, FreedIsUnused

\* What SetLinks keeps: the copy in itable is the only one, and nobody makes or
\* frees the inode.
LEMMA SetLinksKeeps ==
  ASSUME IInv, NEW p \in Procs, pc[p] \notin {"user", "iputend"}, NEW s, s = ip[p],
         NEW i \in Inums, i = inum[s], NEW k \in Int, SetLinks(s, k),
         inum' = inum, ref' = ref, valid' = valid, type' = type
  PROVE  /\ nlink' \in [Inums -> Int] /\ mlink' \in [Slots -> Int]
         /\ nlink'[i] = k /\ \A j \in Inums \ {i} : nlink'[j] = nlink[j]
         /\ CacheCoherent'
         /\ \A q \in Procs \ {p} : pc[q] = "free" => mlink'[ip[q]] = mlink[ip[q]]
         /\ \A q \in Procs \ {p} : pc[q] \in Making =>
                \A j \in Inums : j = inum[ip[q]] => nlink'[j] = nlink[j]
  <1>1. s \in Slots /\ ref[s] > 0 /\ inum[s] \in Inums /\ type[inum[s]] /\ pc[p] # "user"
    BY HeldIs
  <1>2. i = inum[s]
    OBVIOUS
  <1>3. mlink' = [mlink EXCEPT ![s] = k] /\ nlink' = [nlink EXCEPT ![i] = k]
    BY <1>2, Zenon DEF SetLinks
  <1>4. nlink' \in [Inums -> Int] /\ mlink' \in [Slots -> Int]
    BY <1>1, <1>3, Types DEF TypeOK
  <1>5. /\ nlink'[i] = k /\ \A j \in Inums \ {i} : nlink'[j] = nlink[j]
        /\ mlink'[s] = k /\ \A t \in Slots \ {s} : mlink'[t] = mlink[t]
    BY <1>1, <1>3, Types DEF TypeOK
  <1>6. CacheCoherent'
    <2>1. SUFFICES ASSUME NEW t \in Slots, ref[t] > 0, valid[t]
                   PROVE  type[inum[t]] /\ mlink'[t] = nlink'[inum[t]]
      BY Zenon DEF CacheCoherent
    <2>2. CASE t = s
      BY <1>1, <1>2, <1>5, <2>2, Zenon
    <2>3. CASE t # s
      <3>1. inum[t] \in Inums \ {i}
        BY <1>1, <1>2, <2>1, <2>3, OneEntry, Zenon DEF IInv, EntriesOK
      <3>2. type[inum[t]] /\ mlink[t] = nlink[inum[t]]
        BY <2>1, Zenon DEF IInv, CacheCoherent
      <3> QED
        BY <1>5, <2>3, <3>1, <3>2, Zenon
    <2> QED
      BY <2>2, <2>3, Zenon
  <1>7. ASSUME NEW q \in Procs \ {p}, pc[q] = "free"
        PROVE  mlink'[ip[q]] = mlink[ip[q]]
    <2>1. ip[q] # s
      BY <1>1, <1>7, Alone, Zenon
    <2>2. ip[q] \in Slots
      BY <1>7, Mine
    <2> QED
      BY <1>5, <2>1, <2>2, Zenon
  <1>8. ASSUME NEW q \in Procs \ {p}, pc[q] \in Making, NEW j \in Inums, j = inum[ip[q]]
        PROVE  nlink'[j] = nlink[j]
    <2>1. pc[p] # "iputend"
      OBVIOUS
    <2>2. j # i
      BY <1>1, <1>2, <1>8, <2>1, Alone, Zenon
    <2> QED
      BY <1>5, <2>2, Zenon
  <1> QED
    BY <1>2, <1>4, <1>5, <1>6, <1>7, <1>8, Zenon

\* The parts of a step that sets the link count and leaves the entries.
LEMMA CountStep ==
  ASSUME IInv, ~panicked, NEW p \in Procs, pc[p] \in {"linked", "unlinking", "removed"},
         NEW s, s = ip[p], NEW k, SetLinks(s, k), NEW l,
         pc[p] = "linked" => l = "dirlink" /\ k = mlink[s] + 1,
         pc[p] # "linked" => l = "iput" /\ k = mlink[s] - 1,
         pc' = [pc EXCEPT ![p] = l], pc[p] = "removed" => dlock # p,
         type' = type, entry' = entry, inum' = inum, ref' = ref, valid' = valid,
         dlock' = dlock, ip' = ip, name' = name, fd' = fd, panicked' = panicked,
         \/ pc[p] \in Locked /\ lock' = [lock EXCEPT ![s] = None]
         \/ pc[p] \notin Locked /\ lock' = lock
  PROVE  IInv'
  <1>1. /\ s \in Slots /\ ref[s] > 0 /\ inum[s] \in Inums /\ s # None
        /\ pc[p] \notin {"user", "iputend"} /\ pc[p] \in Loaded /\ l \in {"dirlink", "iput"}
    BY Mine, Constants DEF Loaded, Locked
  <1>2. PICK i \in Inums : i = inum[s]
    BY <1>1, Zenon
  <1>. k \in Int
    BY <1>1, Types DEF TypeOK
  <1>3. /\ nlink' \in [Inums -> Int] /\ mlink' \in [Slots -> Int]
        /\ nlink'[i] = k /\ \A j \in Inums \ {i} : nlink'[j] = nlink[j]
        /\ CacheCoherent'
        /\ \A q \in Procs \ {p} : pc[q] = "free" => mlink'[ip[q]] = mlink[ip[q]]
        /\ \A q \in Procs \ {p} : pc[q] \in Making =>
                \A j \in Inums : j = inum[ip[q]] => nlink'[j] = nlink[j]
    BY <1>1, <1>2, SetLinksKeeps, SMTT(60)
  <1>4. pc'[p] = l /\ \A q \in Procs \ {p} : pc'[q] = pc[q]
    BY Types DEF TypeOK
  <1>5. TypeOK'
    <2>1. l \in Pcs
      BY ZenonT(60) DEF Pcs
    <2>2. pc' \in [Procs -> Pcs] /\ lock' \in [Slots -> Procs \union {None}]
      BY <2>1, Types DEF TypeOK
    <2> QED
      BY <1>3, <2>2, Types, Zenon DEF TypeOK
  <1>6. Others(p) /\ InumsKept
    BY <1>4, Zenon DEF Others, InumsKept
  <1>7. RefExact' /\ EntriesOK'
    BY RefsKept, Zenon
  <1>8. DirOK' /\ DirKept(p)
    <2>1. dlock # p
      BY NotInDir DEF InDir
    <2>2. dlock # None => dlock \in Procs \ {p} /\ pc[dlock] \in InDir
      BY <2>1, Types, Zenon DEF IInv, DirOK, TypeOK
    <2> QED
      BY <1>4, <2>2, Zenon DEF DirOK, DirKept
  <1>9. /\ LocksOK'
        /\ \A q \in Procs \ {p} : pc[q] \in Locked => lock'[ip[q]] = lock[ip[q]]
    BY <1>6, Unlocks, LocksKept, Zenon
  <1>10. \A j \in Inums : NamesOf(j)' = NamesOf(j)
    BY Zenon DEF NamesOf
  <1>11. LinksExact'
    <2>1. valid[s] /\ mlink[s] = nlink[i] /\ type[i]
      BY <1>1, <1>2, Places, HeldIs, Zenon DEF PlaceOK
    <2>2. nlink[i] = Cardinality(NamesOf(i)) + Cardinality(Ahead(i))
      BY <2>1, Zenon DEF IInv, LinksExact
    <2>3. \A q \in Procs \ {p} : AheadBy(q, i)' <=> AheadBy(q, i)
      BY <1>6, <1>8, OthersKept, Zenon
    <2>4. /\ pc[p] = "linked" => AheadBy(p, i)' /\ ~AheadBy(p, i)
          /\ pc[p] # "linked" => ~AheadBy(p, i)' /\ AheadBy(p, i)
      BY <1>1, <1>2, <1>4 DEF AheadBy
    <2>5. /\ pc[p] = "linked" => Cardinality(Ahead(i)') = Cardinality(Ahead(i)) + 1
          /\ pc[p] # "linked" => Cardinality(Ahead(i)') = Cardinality(Ahead(i)) - 1
          /\ Cardinality(Ahead(i)) \in Nat
      BY <2>3, <2>4, AheadCount, Zenon
    <2>6. Cardinality(NamesOf(i)) \in Nat /\ Cardinality(NamesOf(i)') = Cardinality(NamesOf(i))
      BY <1>10, Finite, CountZero, Zenon
    <2>7. nlink'[i] = Cardinality(NamesOf(i)') + Cardinality(Ahead(i)')
      BY <1>3, <2>1, <2>2, <2>5, <2>6
    <2> QED
      BY <1>1, <1>2, <1>3, <1>6, <1>8, <1>10, <2>7, LinksMoved, Zenon
  <1>12. \A j \in Inums : HeldBy(p, j)' => HeldBy(p, j)
    BY <1>1, Zenon DEF HeldBy
  <1>13. FreedIsUnused'
    BY <1>6, <1>8, <1>12, UnusedKept, Zenon
  <1>14. PanicsOnlyWhenFull'
    BY Zenon DEF PanicsOnlyWhenFull
  <1>15. PlaceOK(p)'
    <2>1. valid[s]
      BY <1>1, Places, Zenon DEF PlaceOK
    <2> QED
      BY <1>1, <1>4, <2>1 DEF PlaceOK, Locked, Loaded, InDir, Making
  <1>16. \A q \in Procs \ {p} : PlaceOK(q)'
    BY <1>3, <1>6, <1>8, <1>9, <1>12, OtherPlaces, Zenon
  <1> QED
    BY <1>3, <1>5, <1>7, <1>8, <1>9, <1>11, <1>13, <1>14, <1>15, <1>16, Zenon DEF IInv

LEMMA CountsInv ==
  ASSUME IInv, NEW p \in Procs, LinkCount(p) \/ LinkUndo(p) \/ UnlinkCount(p)
  PROVE  IInv'
  <1>0. PICK s : s = ip[p]
    OBVIOUS
  <1>1. CASE LinkCount(p)
    <2>1. PICK k : k = mlink[s] + 1
      OBVIOUS
    <2>2. /\ ~panicked /\ pc[p] = "linked" /\ SetLinks(s, k) /\ pc' = [pc EXCEPT ![p] = "dirlink"]
          /\ lock' = [lock EXCEPT ![s] = None]
          /\ type' = type /\ entry' = entry /\ inum' = inum /\ ref' = ref /\ valid' = valid
          /\ dlock' = dlock /\ ip' = ip /\ name' = name /\ fd' = fd /\ panicked' = panicked
      BY <1>0, <1>1, <2>1, Zenon DEF LinkCount, At, Goto, SetLinks
    <2>3. pc[p] \in Locked /\ pc[p] \in {"linked", "unlinking", "removed"} /\ pc[p] # "removed"
      BY <2>2 DEF Locked
    <2> QED
      BY <1>0, <2>1, <2>2, <2>3, CountStep, Zenon
  <1>2. CASE LinkUndo(p)
    <2>1. PICK k : k = mlink[s] - 1
      OBVIOUS
    <2>2. /\ ~panicked /\ pc[p] = "unlinking" /\ SetLinks(s, k) /\ pc' = [pc EXCEPT ![p] = "iput"]
          /\ lock' = lock
          /\ type' = type /\ entry' = entry /\ inum' = inum /\ ref' = ref /\ valid' = valid
          /\ dlock' = dlock /\ ip' = ip /\ name' = name /\ fd' = fd /\ panicked' = panicked
      BY <1>0, <1>2, <2>1, Zenon DEF LinkUndo, At, Goto, SetLinks
    <2>3. /\ pc[p] \notin Locked /\ pc[p] \in {"linked", "unlinking", "removed"}
          /\ pc[p] # "linked" /\ pc[p] # "removed"
      BY <2>2 DEF Locked
    <2> QED
      BY <1>0, <2>1, <2>2, <2>3, CountStep, Zenon
  <1>3. CASE UnlinkCount(p)
    <2>1. PICK k : k = mlink[s] - 1
      OBVIOUS
    <2>2. /\ ~panicked /\ pc[p] = "removed" /\ SetLinks(s, k) /\ pc' = [pc EXCEPT ![p] = "iput"]
          /\ lock' = [lock EXCEPT ![s] = None] /\ dlock # p
          /\ type' = type /\ entry' = entry /\ inum' = inum /\ ref' = ref /\ valid' = valid
          /\ dlock' = dlock /\ ip' = ip /\ name' = name /\ fd' = fd /\ panicked' = panicked
      BY <1>0, <1>3, <2>1, Zenon DEF UnlinkCount, At, Goto, SetLinks
    <2>3. /\ pc[p] \in Locked /\ pc[p] \in {"linked", "unlinking", "removed"}
          /\ pc[p] # "linked"
      BY <2>2 DEF Locked
    <2> QED
      BY <1>0, <2>1, <2>2, <2>3, CountStep, Zenon
  <1> QED
    BY <1>1, <1>2, <1>3, Zenon

\* create writes the link count and the entry of the new inode.
LEMMA CreateLinkInv ==
  ASSUME IInv, NEW p \in Procs, CreateLink(p)
  PROVE  IInv'
  <1>0. PICK s, f : s = ip[p] /\ f = name[p]
    OBVIOUS
  <1>1. /\ ~panicked /\ pc[p] = "created" /\ SetLinks(s, 1)
        /\ entry' = [entry EXCEPT ![f] = inum[s]] /\ dlock' = None
        /\ name' = [name EXCEPT ![p] = None] /\ pc' = [pc EXCEPT ![p] = "opened"]
        /\ type' = type /\ inum' = inum /\ ref' = ref /\ valid' = valid
        /\ lock' = lock /\ ip' = ip /\ fd' = fd /\ panicked' = panicked
    BY <1>0, Zenon DEF CreateLink, At, Goto
  <1>2. /\ s \in Slots /\ ref[s] > 0 /\ inum[s] \in Inums /\ type[inum[s]] /\ s # None
        /\ pc[p] \notin {"user", "iputend"}
    BY <1>0, <1>1, HeldIs, Constants
  <1>3. /\ dlock = p /\ f \in Names /\ entry[f] = 0 /\ nlink[inum[s]] = 0 /\ fd[p] = None
        /\ lock[s] = p /\ valid[s]
    BY <1>0, <1>1, Places DEF PlaceOK, InDir, Making, Locked, Loaded
  <1>4. PICK i \in Inums : i = inum[s]
    BY <1>2, Zenon
  <1>5. /\ nlink' \in [Inums -> Int] /\ mlink' \in [Slots -> Int]
        /\ nlink'[i] = 1 /\ \A j \in Inums \ {i} : nlink'[j] = nlink[j]
        /\ CacheCoherent'
        /\ \A q \in Procs \ {p} : pc[q] = "free" => mlink'[ip[q]] = mlink[ip[q]]
        /\ \A q \in Procs \ {p} : pc[q] \in Making =>
                \A j \in Inums : j = inum[ip[q]] => nlink'[j] = nlink[j]
    BY <1>0, <1>1, <1>2, <1>4, SetLinksKeeps, SMTT(60)
  <1>6. /\ pc'[p] = "opened" /\ \A q \in Procs \ {p} : pc'[q] = pc[q] /\ name'[q] = name[q]
        /\ entry'[f] = i /\ \A g \in Names \ {f} : entry'[g] = entry[g]
    BY <1>1, <1>3, <1>4, Types DEF TypeOK
  <1>7. TypeOK'
    <2>1. "opened" \in Pcs
      BY DEF Pcs
    <2>2. /\ pc' \in [Procs -> Pcs] /\ entry' \in [Names -> Inums \union {0}]
          /\ name' \in [Procs -> Names \union {None}] /\ dlock' \in Procs \union {None}
      BY <1>1, <1>2, <2>1, Types, Zenon DEF TypeOK
    <2> QED
      BY <1>1, <1>5, <2>2, Types, Zenon DEF TypeOK
  <1>8. Others(p) /\ InumsKept
    BY <1>1, <1>6, Zenon DEF Others, InumsKept
  <1>9. RefExact' /\ EntriesOK'
    BY <1>1, RefsKept, Zenon
  <1>10. DirOK' /\ DirKept(p)
    BY <1>1, <1>3, Constants, Zenon DEF DirOK, DirKept
  <1>11. LocksOK'
    <2>1. pc'[p] \in Locked /\ ip'[p] = ip[p]
      BY <1>1, <1>6 DEF Locked
    <2> QED
      BY <1>1, <1>8, <2>1, LocksKept, Zenon
  <1>12. entry'[f] # entry[f] /\ i # 0 /\ 0 \notin Inums
    BY <1>3, <1>6, Constants
  <1>13. /\ Cardinality(NamesOf(i)') = Cardinality(NamesOf(i)) + 1
         /\ \A j \in Inums \ {i} : NamesOf(j)' = NamesOf(j)
    BY <1>3, <1>6, <1>12, NamesCount, ZenonT(60)
  <1>14. LinksExact'
    <2>1. nlink[i] = Cardinality(NamesOf(i)) + Cardinality(Ahead(i)) /\ nlink[i] = 0
      BY <1>2, <1>3, <1>4, Zenon DEF IInv, LinksExact
    <2>2. Cardinality(NamesOf(i)) \in Nat /\ Cardinality(Ahead(i)) \in Nat
      BY Finite, CountZero, Zenon
    <2>3. \A q \in Procs \ {p} : AheadBy(q, i)' <=> AheadBy(q, i)
      BY <1>8, <1>10, OthersKept, Zenon
    <2>4. ~AheadBy(p, i)' /\ ~AheadBy(p, i)
      BY <1>1, <1>6 DEF AheadBy
    <2>5. Cardinality(Ahead(i)') = Cardinality(Ahead(i))
      BY <2>3, <2>4, AheadCount, Zenon
    <2>6. nlink'[i] = Cardinality(NamesOf(i)') + Cardinality(Ahead(i)')
      BY <1>5, <1>13, <2>1, <2>2, <2>5
    <2> QED
      BY <1>0, <1>1, <1>2, <1>4, <1>5, <1>8, <1>10, <1>13, <2>6, LinksMoved, Zenon
  <1>15. \A j \in Inums : HeldBy(p, j)' <=> HeldBy(p, j)
    BY <1>1, <1>6 DEF HeldBy
  <1>16. FreedIsUnused'
    BY <1>1, <1>2, <1>4, <1>8, <1>10, <1>13, <1>15, UnusedMoved, Zenon
  <1>17. PanicsOnlyWhenFull'
    BY <1>1, Zenon DEF PanicsOnlyWhenFull
  <1>18. PlaceOK(p)'
    BY <1>0, <1>1, <1>2, <1>3, <1>6 DEF PlaceOK, Locked, Loaded, InDir, Making
  <1>19. \A q \in Procs \ {p} : PlaceOK(q)'
    BY <1>1, <1>3, <1>5, <1>8, <1>10, <1>15, OtherPlaces, Zenon
  <1> QED
    BY <1>5, <1>7, <1>9, <1>10, <1>11, <1>14, <1>16, <1>17, <1>18, <1>19, Zenon DEF IInv

\* dirlink gives the inode of link its name, or finds the name taken.
LEMMA LinkEntryInv ==
  ASSUME IInv, NEW p \in Procs, NEW f \in Names, LinkEntry(p, f)
  PROVE  IInv'
  <1>0. PICK s : s = ip[p]
    OBVIOUS
  <1>1. /\ ~panicked /\ pc[p] = "dirlink" /\ dlock = None
        /\ type' = type /\ nlink' = nlink /\ inum' = inum /\ ref' = ref /\ valid' = valid
        /\ mlink' = mlink /\ lock' = lock /\ dlock' = dlock /\ ip' = ip /\ name' = name
        /\ fd' = fd /\ panicked' = panicked
    BY Zenon DEF LinkEntry, At, itable
  <1>2. /\ s \in Slots /\ ref[s] > 0 /\ inum[s] \in Inums /\ type[inum[s]] /\ s # None
        /\ pc[p] \notin {"user", "iputend"}
    BY <1>0, <1>1, HeldIs, Constants
  <1>3. PICK i \in Inums : i = inum[s]
    BY <1>2, Zenon
  <1>4. PICK l \in {"iput", "unlinking"} :
           /\ pc' = [pc EXCEPT ![p] = l]
           /\ l = "iput" => entry[f] = 0 /\ entry' = [entry EXCEPT ![f] = i]
           /\ l = "unlinking" => entry' = entry
    BY <1>0, <1>3 DEF LinkEntry, Goto
  <1>5. pc'[p] = l /\ \A q \in Procs \ {p} : pc'[q] = pc[q]
    BY <1>4, Types DEF TypeOK
  <1>6. l = "iput" => entry'[f] = i /\ \A g \in Names \ {f} : entry'[g] = entry[g]
    BY <1>4, Types DEF TypeOK
  <1>7. TypeOK'
    <2>1. l \in Pcs
      BY DEF Pcs
    <2>2. pc' \in [Procs -> Pcs] /\ entry' \in [Names -> Inums \union {0}]
      BY <1>3, <1>4, <2>1, Types DEF TypeOK
    <2> QED
      BY <1>1, <2>2, Types, Zenon DEF TypeOK
  <1>8. Others(p) /\ InumsKept
    BY <1>1, <1>5, Zenon DEF Others, InumsKept
  <1>9. RefExact' /\ EntriesOK'
    BY <1>1, RefsKept, Zenon
  <1>10. DirOK' /\ DirKept(p)
    BY <1>1, Zenon DEF DirOK, DirKept
  <1>11. LocksOK'
    <2>1. pc[p] \notin Locked
      BY <1>1 DEF Locked
    <2> QED
      BY <1>1, <1>8, <2>1, LocksKept, Zenon
  <1>12. i # 0
    BY Constants
  <1>13. l = "iput" => /\ Cardinality(NamesOf(i)') = Cardinality(NamesOf(i)) + 1
                       /\ \A j \in Inums \ {i} : NamesOf(j)' = NamesOf(j)
    <2>1. SUFFICES ASSUME l = "iput"
                   PROVE  /\ Cardinality(NamesOf(i)') = Cardinality(NamesOf(i)) + 1
                          /\ \A j \in Inums \ {i} : NamesOf(j)' = NamesOf(j)
      BY Zenon
    <2>2. entry'[f] # entry[f] /\ \A j \in Inums : entry[f] # j
      BY <1>4, <1>6, <1>12, <2>1, Constants
    <2> QED
      BY <1>6, <2>1, <2>2, NamesCount, Zenon
  <1>14. l = "unlinking" => \A j \in Inums : NamesOf(j)' = NamesOf(j)
    BY <1>4, Zenon DEF NamesOf
  <1>15. LinksExact'
    <2>1. nlink[i] = Cardinality(NamesOf(i)) + Cardinality(Ahead(i))
      BY <1>2, <1>3, Zenon DEF IInv, LinksExact
    <2>2. Cardinality(NamesOf(i)) \in Nat /\ Cardinality(Ahead(i)) \in Nat
      BY Finite, CountZero, Zenon
    <2>3. \A q \in Procs \ {p} : AheadBy(q, i)' <=> AheadBy(q, i)
      BY <1>8, <1>10, OthersKept, Zenon
    <2>4. AheadBy(p, i) /\ (l = "iput" => ~AheadBy(p, i)') /\ (l = "unlinking" => AheadBy(p, i)')
      BY <1>0, <1>1, <1>2, <1>3, <1>5 DEF AheadBy
    <2>5. /\ l = "iput" => Cardinality(Ahead(i)') = Cardinality(Ahead(i)) - 1
          /\ l = "unlinking" => Cardinality(Ahead(i)') = Cardinality(Ahead(i))
      BY <2>3, <2>4, AheadCount, Zenon
    <2>6. l = "unlinking" => Cardinality(NamesOf(i)') = Cardinality(NamesOf(i))
      BY <1>14, Zenon
    <2>7. nlink'[i] = Cardinality(NamesOf(i)') + Cardinality(Ahead(i)')
      BY <1>1, <1>13, <2>1, <2>2, <2>5, <2>6
    <2>8. \A j \in Inums \ {i} : nlink'[j] = nlink[j] /\ NamesOf(j)' = NamesOf(j)
      BY <1>1, <1>4, <1>13, <1>14
    <2> QED
      BY <1>0, <1>1, <1>2, <1>3, <1>8, <1>10, <2>7, <2>8, LinksMoved, Zenon
  <1>16. \A j \in Inums : HeldBy(p, j)' <=> HeldBy(p, j)
    BY <1>1, <1>5 DEF HeldBy
  <1>17. FreedIsUnused'
    <2>1. \A j \in Inums : NamesOf(j)' # {} => NamesOf(j) # {} \/ type[j]
      BY <1>2, <1>3, <1>13, <1>14
    <2> QED
      BY <1>1, <1>8, <1>10, <1>16, <2>1, UnusedMoved, Zenon
  <1>18. CacheCoherent' /\ PanicsOnlyWhenFull'
    BY <1>1, Zenon DEF IInv, CacheCoherent, PanicsOnlyWhenFull
  <1>19. PlaceOK(p)'
    <2>1. valid[s]
      BY <1>0, <1>1, Places DEF PlaceOK, Loaded, Locked
    <2> QED
      BY <1>0, <1>1, <1>2, <1>5, <2>1 DEF PlaceOK, Locked, Loaded, InDir, Making
  <1>20. \A q \in Procs \ {p} : PlaceOK(q)'
    <2>1. \A q \in Procs \ {p} : dlock # q
      BY <1>1, Constants, Zenon
    <2> QED
      BY <1>1, <1>8, <1>10, <1>16, <2>1, OtherPlaces, Zenon
  <1> QED
    BY <1>7, <1>9, <1>10, <1>11, <1>15, <1>17, <1>18, <1>19, <1>20, Zenon DEF IInv

\* unlink removes the entry, whose inode has a link: its panic is out of reach.
LEMMA UnlinkEntryInv ==
  ASSUME IInv, NEW p \in Procs, UnlinkEntry(p)
  PROVE  IInv'
  <1>0. PICK s, f : s = ip[p] /\ f = name[p]
    OBVIOUS
  <1>1. /\ ~panicked /\ pc[p] = "removed" /\ dlock = p /\ panicked' = (mlink[s] < 1)
        /\ entry' = [entry EXCEPT ![f] = 0] /\ dlock' = None
        /\ name' = [name EXCEPT ![p] = None]
        /\ type' = type /\ nlink' = nlink /\ inum' = inum /\ ref' = ref /\ valid' = valid
        /\ mlink' = mlink /\ lock' = lock /\ pc' = pc /\ ip' = ip /\ fd' = fd
    BY <1>0, Zenon DEF UnlinkEntry, At, itable
  <1>2. /\ s \in Slots /\ ref[s] > 0 /\ inum[s] \in Inums /\ type[inum[s]] /\ s # None
        /\ pc[p] \notin {"user", "iputend"} /\ (valid[s] => mlink[s] = nlink[inum[s]])
    BY <1>0, <1>1, HeldIs, Constants
  <1>3. f \in Names /\ entry[f] = inum[s] /\ lock[s] = p /\ valid[s]
    BY <1>0, <1>1, Places DEF PlaceOK, InDir, Locked, Loaded
  <1>4. PICK i \in Inums : i = inum[s]
    BY <1>2, Zenon
  <1>5. i # 0 /\ 0 \notin Inums
    BY Constants
  <1>6. ~panicked' /\ panicked' \in BOOLEAN
    <2>1. nlink[i] > 0
      BY <1>3, <1>4, <1>5, NamedIs, Zenon
    <2>2. ~(mlink[s] < 1)
      BY <1>2, <1>3, <1>4, <2>1, Types DEF TypeOK
    <2>3. panicked' = (mlink[s] < 1)
      BY <1>1, Zenon
    <2>4. ~panicked'
      BY <2>2, <2>3, Zenon
    <2>5. panicked' \in BOOLEAN
      BY <2>3, SMT
    <2> QED
      BY <2>4, <2>5, Zenon
  <1>7. /\ \A q \in Procs \ {p} : name'[q] = name[q]
        /\ entry'[f] = 0 /\ \A g \in Names \ {f} : entry'[g] = entry[g]
    BY <1>1, <1>3, Types DEF TypeOK
  <1>8. TypeOK'
    <2>1. /\ entry' \in [Names -> Inums \union {0}]
          /\ name' \in [Procs -> Names \union {None}] /\ dlock' \in Procs \union {None}
      BY <1>1, Types, ZenonT(60) DEF TypeOK
    <2> QED
      BY <1>1, <1>6, <2>1, Types, Zenon DEF TypeOK
  <1>9. Others(p) /\ InumsKept
    BY <1>1, <1>7, Zenon DEF Others, InumsKept
  <1>10. RefExact' /\ EntriesOK'
    BY <1>1, RefsKept, Zenon
  <1>11. DirOK' /\ DirKept(p)
    BY <1>1, Constants, Zenon DEF DirOK, DirKept
  <1>12. LocksOK'
    BY <1>1, <1>9, LocksKept, Zenon
  <1>13. /\ Cardinality(NamesOf(i)') = Cardinality(NamesOf(i)) - 1
         /\ \A j \in Inums \ {i} : NamesOf(j)' = NamesOf(j)
    <2>1. entry'[f] # entry[f] /\ entry[f] = i /\ \A j \in Inums : entry'[f] # j
      BY <1>3, <1>4, <1>5, <1>7
    <2> QED
      BY <1>3, <1>7, <2>1, NamesCount, Zenon
  <1>14. LinksExact'
    <2>1. nlink[i] = Cardinality(NamesOf(i)) + Cardinality(Ahead(i))
      BY <1>2, <1>4, Zenon DEF IInv, LinksExact
    <2>2. Cardinality(NamesOf(i)) \in Nat /\ Cardinality(Ahead(i)) \in Nat
      BY Finite, CountZero, Zenon
    <2>3. \A q \in Procs \ {p} : AheadBy(q, i)' <=> AheadBy(q, i)
      BY <1>9, <1>11, OthersKept, Zenon
    <2>4. AheadBy(p, i)' /\ ~AheadBy(p, i)
      BY <1>0, <1>1, <1>2, <1>4, Constants DEF AheadBy
    <2>5. Cardinality(Ahead(i)') = Cardinality(Ahead(i)) + 1
      BY <2>3, <2>4, AheadCount, Zenon
    <2>6. nlink'[i] = Cardinality(NamesOf(i)') + Cardinality(Ahead(i)')
      BY <1>1, <1>13, <2>1, <2>2, <2>5
    <2> QED
      BY <1>0, <1>1, <1>2, <1>4, <1>9, <1>11, <1>13, <2>6, LinksMoved, Zenon
  <1>15. \A j \in Inums : HeldBy(p, j)' <=> HeldBy(p, j)
    BY <1>1, Zenon DEF HeldBy
  <1>16. FreedIsUnused'
    BY <1>1, <1>2, <1>4, <1>9, <1>11, <1>13, <1>15, UnusedMoved, Zenon
  <1>17. CacheCoherent' /\ PanicsOnlyWhenFull'
    BY <1>1, <1>6, Zenon DEF IInv, CacheCoherent, PanicsOnlyWhenFull
  <1>18. PlaceOK(p)'
    <2>1. dlock' # p
      BY <1>1, Constants, Zenon
    <2> QED
      BY <1>0, <1>1, <1>2, <1>3, <2>1 DEF PlaceOK, Locked, Loaded, InDir, Making
  <1>19. \A q \in Procs \ {p} : PlaceOK(q)'
    BY <1>1, <1>9, <1>11, <1>15, OtherPlaces, Zenon
  <1> QED
    BY <1>8, <1>10, <1>11, <1>12, <1>14, <1>16, <1>17, <1>18, <1>19, Zenon DEF IInv
-----------------------------------------------------------------------------
(* iunlockput without a file, and iput. *)

LEMMA OpenNoFileInv ==
  ASSUME IInv, NEW p \in Procs, OpenNoFile(p)
  PROVE  IInv'
  <1>1. /\ ~panicked /\ pc[p] = "opened"
        /\ type' = type /\ nlink' = nlink /\ entry' = entry /\ inum' = inum /\ ref' = ref
        /\ valid' = valid /\ mlink' = mlink /\ dlock' = dlock /\ ip' = ip /\ name' = name
        /\ fd' = fd /\ panicked' = panicked
        /\ lock' = [lock EXCEPT ![ip[p]] = None] /\ pc' = [pc EXCEPT ![p] = "iput"]
    BY Zenon DEF OpenNoFile, At, Goto, disk, itable
  <1>2. pc'[p] = "iput" /\ \A q \in Procs \ {p} : pc'[q] = pc[q]
    BY <1>1, Types DEF TypeOK
  <1>3. TypeOK'
    <2>1. "iput" \in Pcs
      BY DEF Pcs
    <2>2. pc' \in [Procs -> Pcs] /\ lock' \in [Slots -> Procs \union {None}]
      BY <1>1, <2>1, Types, ZenonT(60) DEF TypeOK
    <2> QED
      BY <1>1, <2>2, Types, Zenon DEF TypeOK
  <1>4. Others(p) /\ InumsKept
    BY <1>1, <1>2, Zenon DEF Others, InumsKept
  <1>5. RefExact' /\ EntriesOK'
    BY <1>1, RefsKept, Zenon
  <1>6. DirOK' /\ DirKept(p)
    <2>1. pc[p] \notin InDir
      BY <1>1 DEF InDir
    <2> QED
      BY <1>1, <1>4, <2>1, DirOKKept, Zenon
  <1>7. /\ LocksOK'
        /\ \A q \in Procs \ {p} : pc[q] \in Locked => lock'[ip[q]] = lock[ip[q]]
    <2>1. pc[p] \in Locked
      BY <1>1 DEF Locked
    <2> QED
      BY <1>1, <1>4, <2>1, Unlocks, Zenon
  <1>8. LinksExact'
    <2>1. \A i : ~AheadBy(p, i) /\ ~AheadBy(p, i)'
      BY <1>1, <1>2 DEF AheadBy
    <2> QED
      BY <1>1, <1>4, <1>6, <2>1, LinksKept, Zenon
  <1>9. \A i \in Inums : HeldBy(p, i)' <=> HeldBy(p, i)
    BY <1>1, <1>2 DEF HeldBy
  <1>10. FreedIsUnused'
    BY <1>1, <1>4, <1>6, <1>9, UnusedKept, Zenon
  <1>11. CacheCoherent' /\ PanicsOnlyWhenFull'
    BY <1>1, Zenon DEF IInv, CacheCoherent, PanicsOnlyWhenFull
  <1>12. PlaceOK(p)'
    BY <1>1, <1>2, Places, ZenonT(60) DEF PlaceOK, Locked, Loaded, InDir, Making
  <1>13. \A q \in Procs \ {p} : PlaceOK(q)'
    BY <1>1, <1>4, <1>6, <1>7, <1>9, OtherPlaces, Zenon
  <1> QED
    BY <1>3, <1>5, <1>6, <1>7, <1>8, <1>10, <1>11, <1>12, <1>13, Zenon DEF IInv

LEMMA DropInv ==
  ASSUME IInv, ~panicked, NEW p \in Procs, pc[p] \in {"iput", "iputend"}, Drop(p)
  PROVE  IInv'
  <1>0. PICK s : s = ip[p]
    OBVIOUS
  <1>1. s \in Slots /\ ref[s] > 0 /\ s # None /\ pc[p] # "user"
    BY <1>0, Mine, Constants
  <1>2. /\ type' = type /\ nlink' = nlink /\ entry' = entry /\ inum' = inum
        /\ valid' = valid /\ mlink' = mlink /\ dlock' = dlock /\ lock' = lock /\ name' = name
        /\ fd' = fd /\ panicked' = panicked
        /\ ref' = [ref EXCEPT ![s] = @ - 1]
        /\ ip' = [ip EXCEPT ![p] = None] /\ pc' = [pc EXCEPT ![p] = "user"]
    BY <1>0, Zenon DEF Drop, Goto, disk
  <1>3. /\ pc'[p] = "user" /\ ip'[p] = None
        /\ \A q \in Procs \ {p} : pc'[q] = pc[q] /\ ip'[q] = ip[q]
        /\ ref'[s] = ref[s] - 1 /\ \A t \in Slots \ {s} : ref'[t] = ref[t]
    BY <1>1, <1>2, Types DEF TypeOK
  <1>4. TypeOK'
    <2>1. "user" \in Pcs
      BY DEF Pcs
    <2>2. ref[s] - 1 \in Nat
      BY <1>1, Types DEF TypeOK
    <2>3. /\ pc' \in [Procs -> Pcs] /\ ip' \in [Procs -> Slots \union {None}]
          /\ ref' \in [Slots -> Nat]
      BY <1>1, <1>2, <2>1, <2>2, Types DEF TypeOK
    <2> QED
      BY <1>2, <2>3, Types, Zenon DEF TypeOK
  <1>5. Others(p) /\ InumsKept
    BY <1>2, <1>3, Zenon DEF Others, InumsKept
  <1>6. \A t \in Slots : ref'[t] > 0 => ref[t] > 0
    BY <1>1, <1>3, Types DEF TypeOK
  <1>7. RefExact'
    <2>1. ASSUME NEW t \in Slots
          PROVE  ref'[t] = Cardinality(Users(t)') + Cardinality(Files(t)')
      <3>1. /\ t = s => Cardinality(Users(t)') = Cardinality(Users(t)) - 1
            /\ t # s => Cardinality(Users(t)') = Cardinality(Users(t))
            /\ Cardinality(Users(t)) \in Nat
        <4>1. ip'[p] # ip[p] /\ t # None
          BY <1>0, <1>1, <1>3, Constants, Zenon
        <4> QED
          BY <1>0, <1>3, <4>1, UsersCount, Zenon
      <3>2. Files(t)' = Files(t)
        BY <1>2, Zenon DEF Files
      <3>3. ref[t] = Cardinality(Users(t)) + Cardinality(Files(t))
        BY Zenon DEF IInv, RefExact
      <3>4. Cardinality(Files(t)) \in Nat /\ Cardinality(Files(t)') = Cardinality(Files(t))
        BY <3>2, Finite, CountZero, Zenon
      <3> QED
        BY <1>3, <3>1, <3>3, <3>4
    <2> QED
      BY <1>2, <1>6, <2>1, OneEntry, Zenon DEF RefExact
  <1>8. EntriesOK' /\ CacheCoherent'
    BY <1>2, <1>6, Zenon DEF IInv, EntriesOK, CacheCoherent
  <1>9. DirOK' /\ DirKept(p) /\ LocksOK'
    <2>1. pc[p] \notin InDir /\ pc[p] \notin Locked
      BY DEF InDir, Locked
    <2> QED
      BY <1>2, <1>5, <2>1, DirOKKept, LocksKept, Zenon
  <1>10. LinksExact'
    <2>1. \A i : ~AheadBy(p, i) /\ ~AheadBy(p, i)'
      BY <1>3 DEF AheadBy
    <2> QED
      BY <1>2, <1>5, <1>9, <2>1, LinksKept, Zenon
  <1>11. \A i \in Inums : HeldBy(p, i)' => HeldBy(p, i)
    BY <1>2, <1>3, Zenon DEF HeldBy
  <1>12. FreedIsUnused'
    BY <1>2, <1>5, <1>9, <1>11, UnusedKept, Zenon
  <1>13. PanicsOnlyWhenFull'
    BY <1>2, Zenon DEF PanicsOnlyWhenFull
  <1>14. PlaceOK(p)'
    BY <1>3 DEF PlaceOK, Locked, Loaded, InDir, Making
  <1>15. \A q \in Procs \ {p} : PlaceOK(q)'
    <2>1. ASSUME NEW q \in Procs \ {p}, pc[q] = "free"
          PROVE  ref'[ip[q]] = ref[ip[q]]
      <3>1. ip[q] # s
        BY <1>0, <1>1, <2>1, Alone, Zenon
      <3>2. ip[q] \in Slots
        BY <2>1, Mine
      <3> QED
        BY <1>3, <3>1, <3>2, Zenon
    <2> QED
      BY <1>2, <1>5, <1>9, <1>11, <2>1, OtherPlaces, Zenon
  <1> QED
    BY <1>4, <1>7, <1>8, <1>9, <1>10, <1>12, <1>13, <1>14, <1>15, Zenon DEF IInv

\* iput locks the inode of the last reference; the lock is free.
LEMMA IputLockInv ==
  ASSUME IInv, NEW p \in Procs, IputLock(p)
  PROVE  IInv'
  <1>0. PICK s : s = ip[p]
    OBVIOUS
  <1>1. /\ ~panicked /\ pc[p] = "iput" /\ ref[s] = 1 /\ valid[s] /\ mlink[s] = 0 /\ lock[s] = None
        /\ type' = type /\ nlink' = nlink /\ entry' = entry /\ inum' = inum /\ ref' = ref
        /\ valid' = valid /\ mlink' = mlink /\ dlock' = dlock /\ ip' = ip /\ name' = name
        /\ fd' = fd /\ panicked' = panicked
        /\ lock' = [lock EXCEPT ![s] = p] /\ pc' = [pc EXCEPT ![p] = "free"]
    BY <1>0, Zenon DEF IputLock, LastReference, At, Goto, disk, itable
  <1>2. s \in Slots /\ s # None
    BY <1>0, <1>1, Mine, Constants
  <1>3. /\ pc'[p] = "free" /\ \A q \in Procs \ {p} : pc'[q] = pc[q]
        /\ lock'[s] = p /\ \A t \in Slots \ {s} : lock'[t] = lock[t]
    BY <1>1, <1>2, Types DEF TypeOK
  <1>4. TypeOK'
    <2>1. "free" \in Pcs
      BY DEF Pcs
    <2>2. pc' \in [Procs -> Pcs] /\ lock' \in [Slots -> Procs \union {None}]
      BY <1>1, <2>1, Types, ZenonT(60) DEF TypeOK
    <2> QED
      BY <1>1, <2>2, Types, Zenon DEF TypeOK
  <1>5. Others(p) /\ InumsKept
    BY <1>1, <1>3, Zenon DEF Others, InumsKept
  <1>6. RefExact' /\ EntriesOK'
    BY <1>1, RefsKept, Zenon
  <1>7. DirOK' /\ DirKept(p)
    <2>1. pc[p] \notin InDir
      BY <1>1 DEF InDir
    <2> QED
      BY <1>1, <1>5, <2>1, DirOKKept, Zenon
  <1>8. LocksOK'
    <2>1. SUFFICES ASSUME NEW t \in Slots, lock'[t] # None
                   PROVE  ip'[lock'[t]] = t /\ pc'[lock'[t]] \in Locked
      BY Zenon DEF LocksOK
    <2>2. CASE t = s
      BY <1>0, <1>1, <1>3, <2>2 DEF Locked
    <2>3. CASE t # s
      <3>1. lock'[t] = lock[t] /\ lock[t] \in Procs
        BY <1>3, <2>1, <2>3, Types, Zenon DEF TypeOK
      <3>2. ip[lock[t]] = t /\ pc[lock[t]] \in Locked
        BY <2>1, <3>1, Zenon DEF IInv, LocksOK
      <3>3. lock[t] # p
        BY <1>1, <3>2 DEF Locked
      <3>4. ip' = ip /\ pc'[lock[t]] = pc[lock[t]]
        BY <1>1, <1>3, <3>1, <3>3, Zenon
      <3> QED
        BY <3>1, <3>2, <3>4, Zenon
    <2> QED
      BY <2>2, <2>3, Zenon
  <1>9. LinksExact'
    <2>1. \A i : ~AheadBy(p, i) /\ ~AheadBy(p, i)'
      BY <1>1, <1>3 DEF AheadBy
    <2> QED
      BY <1>1, <1>5, <1>7, <2>1, LinksKept, Zenon
  <1>10. \A i \in Inums : HeldBy(p, i)' <=> HeldBy(p, i)
    BY <1>1, <1>3 DEF HeldBy
  <1>11. FreedIsUnused'
    BY <1>1, <1>5, <1>7, <1>10, UnusedKept, Zenon
  <1>12. CacheCoherent' /\ PanicsOnlyWhenFull'
    BY <1>1, Zenon DEF IInv, CacheCoherent, PanicsOnlyWhenFull
  <1>13. PlaceOK(p)'
    BY <1>0, <1>1, <1>2, <1>3 DEF PlaceOK, Locked, Loaded, InDir, Making
  <1>14. \A q \in Procs \ {p} : PlaceOK(q)'
    <2>1. ASSUME NEW q \in Procs \ {p}, pc[q] \in Locked
          PROVE  lock'[ip[q]] = lock[ip[q]]
      <3>1. ip[q] \in Slots /\ lock[ip[q]] = q
        BY <2>1, Mine, Places, Zenon DEF PlaceOK, Locked
      <3> QED
        BY <1>1, <1>3, <3>1, Constants, ZenonT(60)
    <2> QED
      BY <1>1, <1>5, <1>7, <1>10, <2>1, OtherPlaces, Zenon
  <1> QED
    BY <1>4, <1>6, <1>7, <1>8, <1>9, <1>11, <1>12, <1>13, <1>14, Zenon DEF IInv

\* iput frees the inode: by the counts no name, file or call leads to it.
LEMMA IputFreeInv ==
  ASSUME IInv, NEW p \in Procs, IputFree(p)
  PROVE  IInv'
  <1>0. PICK s : s = ip[p]
    OBVIOUS
  <1>1. /\ ~panicked /\ pc[p] = "free"
        /\ type' = [type EXCEPT ![inum[s]] = FALSE] /\ valid' = [valid EXCEPT ![s] = FALSE]
        /\ nlink' = nlink /\ entry' = entry /\ inum' = inum /\ ref' = ref
        /\ mlink' = mlink /\ dlock' = dlock /\ ip' = ip /\ name' = name
        /\ fd' = fd /\ panicked' = panicked
        /\ lock' = [lock EXCEPT ![s] = None] /\ pc' = [pc EXCEPT ![p] = "iputend"]
    BY <1>0, Zenon DEF IputFree, Freed, At, Goto
  <1>2. /\ s \in Slots /\ ref[s] > 0 /\ inum[s] \in Inums /\ type[inum[s]] /\ s # None
        /\ valid[s] => mlink[s] = nlink[inum[s]]
    BY <1>0, <1>1, HeldIs, Constants
  <1>3. ref[s] = 1 /\ mlink[s] = 0 /\ valid[s]
    BY <1>0, <1>1, Places DEF PlaceOK, Loaded, Locked
  <1>4. PICK i \in Inums : i = inum[s]
    BY <1>2, Zenon
  <1>5. /\ \A q \in Procs : ip[q] = s => q = p
        /\ \A q \in Procs : fd[q] # s
    BY <1>0, <1>2, <1>3, Single, Zenon
  <1>6. NamesOf(i) = {}
    <2>1. nlink[i] = Cardinality(NamesOf(i)) + Cardinality(Ahead(i)) /\ nlink[i] = 0
      BY <1>2, <1>3, <1>4, Zenon DEF IInv, LinksExact
    <2>2. /\ Cardinality(NamesOf(i)) \in Nat /\ Cardinality(Ahead(i)) \in Nat
          /\ Cardinality(NamesOf(i)) = 0 <=> NamesOf(i) = {}
      BY Finite, CountZero, Zenon
    <2>3. Cardinality(NamesOf(i)) = 0
      BY <2>1, <2>2
    <2> QED
      BY <2>2, <2>3, Zenon
  <1>7. \A t \in Slots \ {s} : ref[t] > 0 => inum[t] # i
    BY <1>2, <1>4, OneEntry, Zenon
  <1>8. /\ pc'[p] = "iputend" /\ \A q \in Procs \ {p} : pc'[q] = pc[q]
    BY <1>1, Types DEF TypeOK
  <1>9. /\ ~type'[i] /\ \A j \in Inums \ {i} : type'[j] = type[j]
        /\ ~valid'[s] /\ \A t \in Slots \ {s} : valid'[t] = valid[t]
    BY <1>1, <1>2, <1>4, Types, Zenon DEF TypeOK
  <1>10. TypeOK'
    <2>1. "iputend" \in Pcs
      BY DEF Pcs
    <2>2. pc' \in [Procs -> Pcs] /\ lock' \in [Slots -> Procs \union {None}]
      BY <1>1, <2>1, Types, ZenonT(60) DEF TypeOK
    <2>3. type' \in [Inums -> BOOLEAN] /\ valid' \in [Slots -> BOOLEAN]
      BY <1>1, Types, Zenon DEF TypeOK
    <2> QED
      BY <1>1, <2>2, <2>3, Types, Zenon DEF TypeOK
  <1>11. Others(p) /\ InumsKept
    BY <1>1, <1>8, Zenon DEF Others, InumsKept
  <1>12. RefExact' /\ EntriesOK'
    BY <1>1, RefsKept, Zenon
  <1>13. DirOK' /\ DirKept(p)
    <2>1. pc[p] \notin InDir
      BY <1>1 DEF InDir
    <2> QED
      BY <1>1, <1>11, <2>1, DirOKKept, Zenon
  <1>14. /\ LocksOK'
         /\ \A q \in Procs \ {p} : pc[q] \in Locked => lock'[ip[q]] = lock[ip[q]]
    <2>1. pc[p] \in Locked
      BY <1>1 DEF Locked
    <2> QED
      BY <1>0, <1>1, <1>11, <2>1, Unlocks, Zenon
  <1>15. CacheCoherent'
    <2>1. SUFFICES ASSUME NEW t \in Slots, ref[t] > 0, valid'[t]
                   PROVE  type'[inum[t]] /\ mlink[t] = nlink[inum[t]]
      BY <1>1, Zenon DEF CacheCoherent
    <2>2. t # s /\ valid[t]
      BY <1>9, <2>1, Zenon
    <2>3. inum[t] \in Inums \ {i}
      BY <1>7, <2>1, <2>2, Zenon DEF IInv, EntriesOK
    <2>4. type[inum[t]] /\ mlink[t] = nlink[inum[t]]
      BY <2>1, <2>2, Zenon DEF IInv, CacheCoherent
    <2> QED
      BY <1>9, <2>3, <2>4, Zenon
  <1>16. \A j \in Inums : NamesOf(j)' = NamesOf(j)
    BY <1>1, Zenon DEF NamesOf
  <1>17. LinksExact'
    <2>1. \A j : ~AheadBy(p, j) /\ ~AheadBy(p, j)'
      BY <1>1, <1>8 DEF AheadBy
    <2>2. SUFFICES ASSUME NEW j \in Inums, type'[j]
                   PROVE  nlink[j] = Cardinality(NamesOf(j)') + Cardinality(Ahead(j)')
      BY <1>1, Zenon DEF LinksExact
    <2>3. type[j]
      BY <1>9, <2>2, Zenon
    <2>4. \A q \in Procs : AheadBy(q, j)' <=> AheadBy(q, j)
      BY <1>11, <1>13, <2>1, OthersKept, Zenon
    <2>5. Ahead(j)' = Ahead(j)
      BY <2>4 DEF Ahead
    <2>6. nlink[j] = Cardinality(NamesOf(j)) + Cardinality(Ahead(j))
      BY <2>3, Zenon DEF IInv, LinksExact
    <2> QED
      BY <1>16, <2>5, <2>6, Zenon
  <1>18. \A j \in Inums : HeldBy(p, j)' => HeldBy(p, j)
    BY <1>1, <1>8 DEF HeldBy
  <1>19. \A q \in Procs : ~HeldBy(q, i)'
    <2>1. SUFFICES ASSUME NEW q \in Procs, HeldBy(q, i)'
                   PROVE  FALSE
      BY Zenon
    <2>2. \/ fd[q] # None /\ inum[fd[q]] = i
          \/ ip[q] # None /\ inum[ip[q]] = i /\ pc'[q] # "iputend"
      BY <1>1, <2>1, Zenon DEF HeldBy
    <2>3. /\ fd[q] # None => fd[q] \in Slots /\ ref[fd[q]] > 0
          /\ ip[q] # None => ip[q] \in Slots /\ ref[ip[q]] > 0
      <3>1. fd[q] \in Slots \union {None} /\ ip[q] \in Slots \union {None}
        BY Types DEF TypeOK
      <3> QED
        BY <3>1, InUse, Zenon
    <2>4. CASE fd[q] # None /\ inum[fd[q]] = i
      BY <1>5, <1>7, <2>3, <2>4, Zenon
    <2>5. CASE ip[q] # None /\ inum[ip[q]] = i /\ pc'[q] # "iputend"
      BY <1>5, <1>7, <1>8, <2>3, <2>5, Zenon
    <2> QED
      BY <2>2, <2>4, <2>5, Zenon
  <1>20. FreedIsUnused'
    <2>1. SUFFICES ASSUME NEW j \in Inums,
                          NamesOf(j)' # {} \/ \E q \in Procs : HeldBy(q, j)'
                   PROVE  type'[j]
      BY Zenon DEF FreedIsUnused
    <2>2. j # i
      BY <1>6, <1>16, <1>19, <2>1, Zenon
    <2>3. \A q \in Procs : HeldBy(q, j)' => HeldBy(q, j)
      BY <1>11, <1>13, <1>18, OthersKept, Zenon
    <2>4. type[j]
      BY <1>16, <2>1, <2>3, Zenon DEF IInv, FreedIsUnused
    <2> QED
      BY <1>9, <2>2, <2>4, Zenon
  <1>21. PanicsOnlyWhenFull'
    BY <1>1, Zenon DEF PanicsOnlyWhenFull
  <1>22. PlaceOK(p)'
    BY <1>0, <1>1, <1>2, <1>8, ZenonT(60) DEF PlaceOK, Locked, Loaded, InDir, Making
  <1>23. \A q \in Procs \ {p} : PlaceOK(q)'
    <2>1. ASSUME NEW q \in Procs \ {p}, pc[q] \in Loaded
          PROVE  valid'[ip[q]] = valid[ip[q]]
      <3>1. ip[q] \in Slots
        BY <2>1, Mine, ZenonT(60) DEF Loaded, Locked
      <3> QED
        BY <1>5, <1>9, <3>1, Zenon
    <2> QED
      BY <1>1, <1>11, <1>13, <1>14, <1>18, <2>1, OtherPlaces, Zenon
  <1> QED
    BY <1>10, <1>12, <1>13, <1>14, <1>15, <1>17, <1>20, <1>21, <1>22, <1>23, Zenon DEF IInv
-----------------------------------------------------------------------------
(* The calls that look a name up, and create. *)

LEMMA LookupInv ==
  ASSUME IInv, NEW p \in Procs, NEW f \in Names,
         OpenLookup(p, f) \/ LinkLookup(p, f) \/ Unlink(p, f)
  PROVE  IInv'
  <1>1. /\ ~panicked /\ pc[p] = "user" /\ dlock = None /\ entry[f] # 0
        /\ type' = type /\ nlink' = nlink /\ entry' = entry /\ lock' = lock /\ fd' = fd
    BY Zenon DEF OpenLookup, LinkLookup, Lookup, Unlink, At, disk
  <1>2. PICK i \in Inums : /\ i = entry[f] /\ type[i]
                           /\ \A q \in Procs : pc[q] \in Making \union {"free"} => inum[ip[q]] # i
    BY <1>1, NamedIs, Zenon
  <1>3. PICK l \in {"opening", "linking", "removing"} :
           /\ iget(p, i, l)
           /\ l = "opening" => fd[p] = None
           /\ l # "removing" => dlock' = dlock /\ name' = name
           /\ l = "removing" => dlock' = p /\ name' = [name EXCEPT ![p] = f]
    BY <1>2 DEF OpenLookup, LinkLookup, Lookup, Unlink
  <1>4. /\ name' \in [Procs -> Names \union {None}]
        /\ \A q \in Procs \ {p} : name'[q] = name[q]
        /\ l = "removing" => name'[p] = f
    BY <1>3, Types DEF TypeOK
  <1>5. type' \in [Inums -> BOOLEAN] /\ nlink' \in [Inums -> Int]
    BY <1>1, Types, Zenon DEF TypeOK
  <1>6. dlock' \in {None, p} /\ (dlock' = p <=> l = "removing") /\ l # "creating"
    BY <1>1, <1>3, Constants
  <1>7. CASE TableFull
    BY <1>1, <1>4, <1>5, <1>6, <1>7, FullInv, Zenon
  <1>8. CASE \E s \in Slots : Got(p, i, s, l)
    <2>1. PICK s \in Slots : Got(p, i, s, l)
      BY <1>8, Zenon
    <2>2. l \in {"opening", "linking", "removing", "creating"}
      OBVIOUS
    <2>3. /\ dlock' = p <=> l \in {"removing", "creating"}
          /\ dlock' = p => name'[p] \in Names
          /\ l \in {"opening", "creating"} => fd[p] = None
          /\ l = "removing" => entry[name'[p]] = i
      BY <1>2, <1>3, <1>4, <1>6
    <2>4. /\ type'[i] /\ \A j \in Inums \ {i} : type'[j] = type[j] /\ nlink'[j] = nlink[j]
          /\ type[i] => nlink'[i] = nlink[i]
          /\ ~type[i] => nlink'[i] = 0
          /\ l = "creating" => entry[name'[p]] = 0 /\ ~type[i]
      BY <1>1, <1>2, <1>6, Zenon
    <2>5. /\ ~panicked /\ pc[p] = "user" /\ dlock = None /\ lock' = lock /\ fd' = fd
          /\ entry' = entry /\ dlock' \in {None, p}
          /\ name' \in [Procs -> Names \union {None}]
          /\ \A q \in Procs \ {p} : name'[q] = name[q]
          /\ type' \in [Inums -> BOOLEAN] /\ nlink' \in [Inums -> Int]
          /\ \A q \in Procs : pc[q] \in Making \union {"free"} => inum[ip[q]] # i
      BY <1>1, <1>2, <1>4, <1>5, <1>6, Zenon
    <2>6. GotFits(p, i, l)
      BY <2>3, <2>4, <2>5, Zenon DEF GotFits
    <2> QED
      BY <2>1, <2>2, <2>6, GotInv, Zenon
  <1> QED
    BY <1>3, <1>7, <1>8, igetGets, Zenon

LEMMA CreateInv ==
  ASSUME IInv, NEW p \in Procs, NEW f \in Names, Create(p, f)
  PROVE  IInv'
  <1>1. {i \in Inums : ~type[i]} \in SUBSET Nat /\ {i \in Inums : ~type[i]} # {}
    BY Constants, ZenonT(60) DEF Create
  <1>2. PICK i \in {i \in Inums : ~type[i]} : i = Min({j \in Inums : ~type[j]})
    BY <1>1, MinMember, Zenon
  <1>3. /\ ~panicked /\ pc[p] = "user" /\ fd[p] = None /\ dlock = None /\ entry[f] = 0
        /\ type' = [type EXCEPT ![i] = TRUE] /\ nlink' = [nlink EXCEPT ![i] = 0]
        /\ iget(p, i, "creating") /\ dlock' = p /\ name' = [name EXCEPT ![p] = f]
        /\ entry' = entry /\ lock' = lock /\ fd' = fd
    BY <1>2, Zenon DEF Create, At
  <1>4. i \in Inums /\ ~type[i]
    BY <1>2, Zenon
  <1>5. /\ name' \in [Procs -> Names \union {None}] /\ name'[p] = f
        /\ \A q \in Procs \ {p} : name'[q] = name[q]
    BY <1>3, Types DEF TypeOK
  <1>6. /\ nlink' \in [Inums -> Int] /\ nlink'[i] = 0
        /\ \A j \in Inums \ {i} : nlink'[j] = nlink[j]
    BY <1>3, <1>4, Types DEF TypeOK
  <1>7. /\ type' \in [Inums -> BOOLEAN] /\ type'[i]
        /\ \A j \in Inums \ {i} : type'[j] = type[j]
    BY <1>3, <1>4, Types, Zenon DEF TypeOK
  <1>8. ASSUME NEW q \in Procs, pc[q] \in Making \union {"free"}
        PROVE  inum[ip[q]] # i
    <2>1. pc[q] \notin {"user", "iputend"}
      BY <1>8 DEF Making
    <2>2. type[inum[ip[q]]]
      BY <2>1, HeldIs, Zenon
    <2> QED
      BY <1>4, <2>2, Zenon
  <1>9. CASE TableFull
    <2>1. \A j \in Inums : type[j] => type'[j] /\ nlink'[j] = nlink[j]
      BY <1>4, <1>6, <1>7, Zenon
    <2>2. \A j \in Inums : type'[j] => type[j] \/ nlink'[j] = 0
      BY <1>6, <1>7, Zenon
    <2>3. dlock' \in {None, p}
      BY <1>3
    <2> QED
      BY <1>3, <1>5, <1>6, <1>7, <1>9, <2>1, <2>2, <2>3, FullInv, Zenon
  <1>10. CASE \E s \in Slots : Got(p, i, s, "creating")
    <2>1. PICK s \in Slots : Got(p, i, s, "creating")
      BY <1>10, Zenon
    <2>2. PICK l \in {"opening", "linking", "removing", "creating"} : l = "creating"
      OBVIOUS
    <2>3. /\ dlock' = p <=> l \in {"removing", "creating"}
          /\ dlock' \in {None, p} /\ l # "removing"
      BY <1>3, <2>2
    <2>4. GotFits(p, i, l)
      BY <1>3, <1>4, <1>5, <1>6, <1>7, <1>8, <2>2, <2>3, Zenon DEF GotFits
    <2> QED
      BY <1>4, <2>1, <2>2, <2>4, GotInv, Zenon
  <1> QED
    BY <1>3, <1>4, <1>9, <1>10, igetGets, Zenon
-----------------------------------------------------------------------------
LEMMA StutterInv == IInv /\ UNCHANGED vars => IInv'
  <1> SUFFICES ASSUME IInv, UNCHANGED vars PROVE IInv'
    OBVIOUS
  <1>1. /\ type' = type /\ nlink' = nlink /\ entry' = entry /\ inum' = inum /\ ref' = ref
        /\ valid' = valid /\ mlink' = mlink /\ lock' = lock /\ dlock' = dlock /\ pc' = pc
        /\ ip' = ip /\ name' = name /\ fd' = fd /\ panicked' = panicked
    BY Zenon DEF vars, disk, itable
  <1>2. RefExact' /\ EntriesOK'
    BY <1>1, RefsKept, Zenon
  <1>3. TypeOK'
    BY <1>1, Types, Zenon DEF TypeOK
  <1>4. \A p, i : (HeldBy(p, i)' <=> HeldBy(p, i)) /\ (AheadBy(p, i)' <=> AheadBy(p, i))
    BY <1>1, Zenon DEF HeldBy, AheadBy
  <1>5. \A i : NamesOf(i)' = NamesOf(i) /\ Ahead(i)' = Ahead(i)
    BY <1>1, <1>4 DEF NamesOf, Ahead
  <1>6. LinksExact' /\ FreedIsUnused'
    BY <1>1, <1>4, <1>5, Zenon DEF IInv, LinksExact, FreedIsUnused
  <1>7. CacheCoherent' /\ LocksOK' /\ DirOK'
    BY <1>1, Zenon DEF IInv, CacheCoherent, LocksOK, DirOK
  <1>8. PanicsOnlyWhenFull'
    BY <1>1, Zenon DEF IInv, PanicsOnlyWhenFull, Empty
  <1>9. ASSUME NEW p \in Procs PROVE PlaceOK(p)'
    BY <1>1, Places, ZenonT(60) DEF PlaceOK, HeldBy
  <1> QED
    BY <1>2, <1>3, <1>6, <1>7, <1>8, <1>9, Zenon DEF IInv

LEMMA NextInv == IInv /\ [Next]_vars => IInv'
  <1> SUFFICES ASSUME IInv, [Next]_vars PROVE IInv'
    OBVIOUS
  <1>1. ASSUME NEW p \in Procs, sys_open(p) PROVE IInv'
    <2>1. ASSUME NEW f \in Names, LookupFails(p, f) PROVE IInv'
      BY <2>1, StutterInv, Zenon DEF LookupFails
    <2>2. CASE OpenLock(p)
      BY <2>2, LockInv DEF OpenLock, At
    <2>3. CASE CreateLock(p)
      BY <2>3, LockInv DEF CreateLock, At
    <2> QED
      BY <1>1, <2>1, <2>2, <2>3, LookupInv, CreateInv, CreateLinkInv, OpenFileInv,
         OpenNoFileInv, Zenon DEF sys_open
  <1>2. ASSUME NEW p \in Procs, sys_link(p) PROVE IInv'
    <2>1. CASE LinkLock(p)
      BY <2>1, LockInv DEF LinkLock, At
    <2> QED
      BY <1>2, <2>1, LookupInv, LinkEntryInv, CountsInv, Zenon DEF sys_link
  <1>3. ASSUME NEW p \in Procs, sys_unlink(p) PROVE IInv'
    <2>1. CASE UnlinkLock(p)
      BY <2>1, LockInv DEF UnlinkLock, At
    <2> QED
      BY <1>3, <2>1, LookupInv, UnlinkEntryInv, CountsInv, Zenon DEF sys_unlink
  <1>4. ASSUME NEW p \in Procs, iput(p) PROVE IInv'
    <2>1. CASE IputDrop(p)
      BY <2>1, DropInv DEF IputDrop, At
    <2>2. CASE IputEnd(p)
      BY <2>2, DropInv DEF IputEnd, At
    <2> QED
      BY <1>4, <2>1, <2>2, IputLockInv, IputFreeInv, Zenon DEF iput
  <1> QED
    BY <1>1, <1>2, <1>3, <1>4, CloseInv, StutterInv, Zenon DEF Next

\* The inductive invariant holds in every reachable state.
THEOREM Invariance == Spec => []IInv
  BY InitInv, NextInv, PTL DEF Spec

\* The reference counts of itable, the link counts on disk and their cached copies
\* are exact after every step of open, link, unlink and close, so iput never frees an
\* inode a name, an open file or a call still leads to, and of the panics on the way
\* only iget's "no inodes" can be met, with the table full.
THEOREM CountsAlwaysExact == Spec => []CountsExact
  <1>1. IInv => CountsExact
    BY Zenon DEF IInv, CountsExact
  <1> QED
    BY <1>1, Invariance, PTL

\* "so this acquiresleep() won't block": when iput finds the last reference to an
\* inode without links, the inode's sleep lock is free.
THEOREM IputNeverBlocks == Spec => []IputWontBlock
  <1>1. IInv => IputWontBlock
    <2>1. SUFFICES ASSUME IInv, NEW p \in Procs, pc[p] = "iput", LastReference(ip[p])
                   PROVE  lock[ip[p]] = None
      BY Zenon DEF IputWontBlock
    <2>2. PICK s \in Slots : s = ip[p]
      BY <2>1, Mine
    <2>3. ref[s] = 1
      BY <2>1, <2>2, Zenon DEF LastReference
    <2>4. \A q \in Procs : ip[q] = s => q = p
      BY <2>1, <2>2, <2>3, Single, Zenon
    <2>5. lock[s] # None => lock[s] \in Procs /\ ip[lock[s]] = s /\ pc[lock[s]] \in Locked
      BY <2>1, Types, Zenon DEF IInv, LocksOK, TypeOK
    <2>6. pc[p] \notin Locked
      BY <2>1 DEF Locked
    <2> QED
      BY <2>2, <2>4, <2>5, <2>6, Zenon
  <1> QED
    BY <1>1, Invariance, PTL
=============================================================================
