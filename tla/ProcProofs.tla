----------------------------- MODULE ProcProofs -----------------------------
(***************************************************************************)
(* The inductive invariant of Proc, and the proofs that for any number of  *)
(* slots a slot is never reused while its former process is still on its   *)
(* kernel stack, and that no process is orphaned or sleeps past a child's  *)
(* exit.                                                                   *)
(***************************************************************************)
EXTENDS Proc, NaturalsInduction, WellFoundedInduction, TLAPS

TypeOK ==
    /\ state \in [Slots -> {"UNUSED", "USED", "RUNNABLE", "SLEEPING", "ZOMBIE"}]
    /\ pid \in [Slots -> Nat] /\ parent \in [Slots -> Slots \union {None}]
    /\ killed \in [Slots -> BOOLEAN] /\ nextpid \in Nat \ {0}
    /\ wait_lock \in Slots \union {None}
    /\ pc \in [Slots -> {"none", "user", "forked", "parented", "exit", "panic", "sched", "wait"}]
    /\ child \in [Slots -> Slots \union {None}]

\* The place of the slot's thread in each p->state.
PlaceOK(p) ==
    /\ state[p] = "UNUSED" => pid[p] = 0 /\ parent[p] = None
    /\ state[p] \in {"UNUSED", "USED"} => pc[p] = "none"
    /\ state[p] = "RUNNABLE" => pc[p] \in {"user", "forked", "parented", "exit", "panic", "wait"}
    /\ state[p] = "SLEEPING" => pc[p] = "wait"
    /\ state[p] = "ZOMBIE" => pc[p] \in {"sched", "none"}

\* allocpid never hands out a pid twice, and a kill mark has a kill behind it:
\* one of the pid the slot has, or one of pid 0 while the slot was unused.
PidOK(p) ==
    /\ pid[p] < nextpid
    /\ \A q \in Slots : p # q /\ pid[p] = pid[q] => pid[p] = 0
    /\ killed[p] => pid[p] \in named \/ 0 \in named

\* Between its critical sections fork owns the USED slot np alone.
ForkOK(p) ==
    /\ pc[p] \in {"forked", "parented"} => child[p] \in Slots /\ state[child[p]] = "USED"
    /\ pc[p] = "forked" => parent[child[p]] = None
    /\ pc[p] = "parented" => parent[child[p]] = p
    /\ \A q \in Slots : p # q /\ pc[p] \in {"forked", "parented"}
                              /\ pc[q] \in {"forked", "parented"} => child[p] # child[q]

\* A parent is alive, and everyone but init that has run has one.
ParentOK(p) ==
    /\ parent[p] # None => state[parent[p]] \in {"RUNNABLE", "SLEEPING"}
    /\ state[p] \in {"RUNNABLE", "SLEEPING", "ZOMBIE"} /\ p # initproc => parent[p] # None

\* A process that sleeps in wait, or is about to with wait_lock in its hands,
\* has a child to wait for and none that it should have seen.
WaitOK(p) ==
    /\ wait_lock = p => state[p] = "RUNNABLE" /\ pc[p] = "wait"
    /\ wait_lock = p \/ state[p] = "SLEEPING" =>
          /\ \E s \in Slots : parent[s] = p
          /\ \A s \in Slots : parent[s] = p => state[s] # "ZOMBIE"

IInv ==
    /\ TypeOK /\ state[initproc] \in {"RUNNABLE", "SLEEPING"} /\ pc[initproc] # "exit"
    /\ \A p \in Slots : PlaceOK(p) /\ PidOK(p) /\ ForkOK(p) /\ ParentOK(p) /\ WaitOK(p)
-----------------------------------------------------------------------------
\* What the proofs use of the constants.
LEMMA Constants == initproc \in Slots /\ None \notin Slots
  BY ProcAssumption DEF Slots, initproc

LEMMA MinMember ==
  ASSUME NEW S \in SUBSET Slots, S # {}
  PROVE  Min(S) \in S
  <1> DEFINE R == {ss \in Nat \X Nat : ss[1] < ss[2]}
  <1>1. S \subseteq Nat
    BY ProcAssumption DEF Slots
  <1>2. IsWellFoundedOn(R, Nat)
    BY NatLessThanWellFounded DEF OpToRel
  <1>3. \E x \in S : \A y \in S : ~(<<y, x>> \in R)
    <2> HIDE DEF R
    <2> QED
      BY <1>1, <1>2, WFMin, Zenon
  <1>4. PICK x \in S : \A y \in S : ~(<<y, x>> \in R)
    BY <1>3
  <1>5. ASSUME NEW y \in S PROVE x <= y
    <2>1. x \in Nat /\ y \in Nat
      BY <1>1
    <2>2. ~(<<y, x>> \in R)
      BY <1>4
    <2> QED
      BY <2>1, <2>2
  <1> QED
    BY <1>5 DEF Min

LEMMA InitInv == Init => IInv
  <1> SUFFICES ASSUME Init PROVE IInv
    OBVIOUS
  <1> USE ProcAssumption, Constants DEF Init
  <1>1. TypeOK
    BY DEF TypeOK, Slots
  <1>2. ASSUME NEW p \in Slots PROVE PlaceOK(p) /\ PidOK(p) /\ ForkOK(p) /\ ParentOK(p) /\ WaitOK(p)
    BY DEF PlaceOK, PidOK, ForkOK, ParentOK, WaitOK, initproc
  <1> QED
    BY <1>1, <1>2 DEF IInv

LEMMA ForkAllocInv ==
  ASSUME IInv, NEW p \in Slots, ForkAlloc(p)
  PROVE  IInv'
  <1>0. PICK np \in Slots : np = Min(Unused) /\ state[np] = "UNUSED"
    BY MinMember, Zenon DEF ForkAlloc, Unused
  <1>1. TypeOK'
    BY <1>0, Constants DEF IInv, ForkAlloc, MayCall, At, Unused, allocpid, Goto, TypeOK
  <1>2. state'[initproc] \in {"RUNNABLE", "SLEEPING"} /\ pc'[initproc] # "exit"
    BY <1>0, Constants DEF IInv, ForkAlloc, MayCall, At, Unused, allocpid, Goto, TypeOK
  <1>3. ASSUME NEW q \in Slots PROVE PlaceOK(q)'
    BY <1>0, Constants DEF IInv, ForkAlloc, MayCall, At, Unused, allocpid, Goto, TypeOK, PlaceOK
  <1>4. ASSUME NEW q \in Slots PROVE PidOK(q)'
    BY <1>0, Constants
       DEF IInv, ForkAlloc, MayCall, At, Unused, allocpid, Goto, TypeOK, PidOK, PlaceOK
  <1>5. ASSUME NEW q \in Slots PROVE ForkOK(q)'
    BY <1>0, Constants
       DEF IInv, ForkAlloc, MayCall, At, Unused, allocpid, Goto, TypeOK, ForkOK, PlaceOK
  <1>6. ASSUME NEW q \in Slots PROVE ParentOK(q)'
    BY <1>0, Constants
       DEF IInv, ForkAlloc, MayCall, At, Unused, allocpid, Goto, TypeOK, ParentOK, PlaceOK
  <1>7. ASSUME NEW q \in Slots PROVE WaitOK(q)'
    BY <1>0, Constants
       DEF IInv, ForkAlloc, MayCall, At, Unused, allocpid, Goto, TypeOK, WaitOK, PlaceOK
  <1> QED
    BY <1>1, <1>2, <1>3, <1>4, <1>5, <1>6, <1>7 DEF IInv

LEMMA ForkNoMemoryInv ==
  ASSUME IInv, NEW p \in Slots, ForkNoMemory(p)
  PROVE  IInv'
  <1>0. PICK np \in Slots : np = Min(Unused) /\ state[np] = "UNUSED"
    BY MinMember DEF ForkNoMemory, Unused
  <1>1. TypeOK'
    BY <1>0, Constants
       DEF IInv, ForkNoMemory, MayCall, At, Unused, allocpid, freeproc, lockvars, TypeOK
  <1>2. state'[initproc] \in {"RUNNABLE", "SLEEPING"} /\ pc'[initproc] # "exit"
    BY <1>0, Constants
       DEF IInv, ForkNoMemory, MayCall, At, Unused, allocpid, freeproc, lockvars, TypeOK
  <1>3. ASSUME NEW q \in Slots PROVE PlaceOK(q)'
    BY <1>0, Constants
       DEF IInv, ForkNoMemory, MayCall, At, Unused, allocpid, freeproc, lockvars, TypeOK, PlaceOK
  <1>4. ASSUME NEW q \in Slots PROVE PidOK(q)'
    BY <1>0, Constants
       DEF IInv, ForkNoMemory, MayCall, At, Unused, allocpid, freeproc, lockvars, TypeOK, PidOK
  <1>5. ASSUME NEW q \in Slots PROVE ForkOK(q)'
    BY <1>0, Constants
       DEF IInv, ForkNoMemory, MayCall, At, Unused, allocpid, freeproc, lockvars, TypeOK, ForkOK,
           PlaceOK
  <1>6. ASSUME NEW q \in Slots PROVE ParentOK(q)'
    BY <1>0, Constants
       DEF IInv, ForkNoMemory, MayCall, At, Unused, allocpid, freeproc, lockvars, TypeOK, ParentOK,
           PlaceOK
  <1>7. ASSUME NEW q \in Slots PROVE WaitOK(q)'
    <2>1. parent' = parent
      BY <1>0, Constants
         DEF IInv, ForkNoMemory, MayCall, At, Unused, allocpid, freeproc, lockvars, TypeOK, PlaceOK
    <2>2. \A s \in Slots : state'[s] = state[s]
      BY <1>0, Constants
         DEF IInv, ForkNoMemory, MayCall, At, Unused, allocpid, freeproc, lockvars, TypeOK
    <2>3. UNCHANGED <<wait_lock, pc>>
      BY DEF ForkNoMemory, lockvars
    <2> QED
      BY <2>1, <2>2, <2>3 DEF IInv, WaitOK
  <1> QED
    BY <1>1, <1>2, <1>3, <1>4, <1>5, <1>6, <1>7 DEF IInv

LEMMA ForkParentInv ==
  ASSUME IInv, NEW p \in Slots, ForkParent(p)
  PROVE  IInv'
  <1>1. TypeOK'
    BY Constants, Zenon DEF IInv, ForkParent, At, Goto, lockvars, TypeOK
  <1>2. state'[initproc] \in {"RUNNABLE", "SLEEPING"} /\ pc'[initproc] # "exit"
    BY Constants DEF IInv, ForkParent, At, Goto, lockvars, TypeOK
  <1>3. ASSUME NEW q \in Slots PROVE PlaceOK(q)'
    BY Constants DEF IInv, ForkParent, At, Goto, lockvars, TypeOK, PlaceOK, ForkOK
  <1>4. ASSUME NEW q \in Slots PROVE PidOK(q)'
    BY Constants DEF IInv, ForkParent, At, Goto, lockvars, TypeOK, PidOK
  <1>5. ASSUME NEW q \in Slots PROVE ForkOK(q)'
    BY Constants DEF IInv, ForkParent, At, Goto, lockvars, TypeOK, ForkOK, PlaceOK
  <1>6. ASSUME NEW q \in Slots PROVE ParentOK(q)'
    BY Constants DEF IInv, ForkParent, At, Goto, lockvars, TypeOK, ParentOK, PlaceOK
  <1>7. ASSUME NEW q \in Slots PROVE WaitOK(q)'
    BY Constants DEF IInv, ForkParent, At, Goto, lockvars, TypeOK, WaitOK, PlaceOK, ForkOK
  <1> QED
    BY <1>1, <1>2, <1>3, <1>4, <1>5, <1>6, <1>7 DEF IInv

LEMMA ForkRunnableInv ==
  ASSUME IInv, NEW p \in Slots, ForkRunnable(p)
  PROVE  IInv'
  <1>1. TypeOK'
    BY Constants, Zenon DEF IInv, ForkRunnable, At, TypeOK
  <1>2. state'[initproc] \in {"RUNNABLE", "SLEEPING"} /\ pc'[initproc] # "exit"
    BY Constants DEF IInv, ForkRunnable, At, TypeOK
  <1>3. ASSUME NEW q \in Slots PROVE PlaceOK(q)'
    BY Constants DEF IInv, ForkRunnable, At, TypeOK, PlaceOK
  <1>4. ASSUME NEW q \in Slots PROVE PidOK(q)'
    BY Constants DEF IInv, ForkRunnable, At, TypeOK, PidOK
  <1>5. ASSUME NEW q \in Slots PROVE ForkOK(q)'
    BY Constants DEF IInv, ForkRunnable, At, TypeOK, ForkOK, PlaceOK
  <1>6. ASSUME NEW q \in Slots PROVE ParentOK(q)'
    BY Constants DEF IInv, ForkRunnable, At, TypeOK, ParentOK, PlaceOK, ForkOK
  <1>7. ASSUME NEW q \in Slots PROVE WaitOK(q)'
    BY Constants DEF IInv, ForkRunnable, At, TypeOK, WaitOK, PlaceOK, ForkOK
  <1> QED
    BY <1>1, <1>2, <1>3, <1>4, <1>5, <1>6, <1>7 DEF IInv

LEMMA ExitEnterInv ==
  ASSUME IInv, NEW p \in Slots, ExitEnter(p)
  PROVE  IInv'
  <1>1. TypeOK'
    BY Constants DEF IInv, ExitEnter, At, Goto, lockvars, TypeOK
  <1>2. state'[initproc] \in {"RUNNABLE", "SLEEPING"} /\ pc'[initproc] # "exit"
    BY Constants DEF IInv, ExitEnter, At, Goto, lockvars, TypeOK
  <1>3. ASSUME NEW q \in Slots PROVE PlaceOK(q)'
    BY Constants DEF IInv, ExitEnter, At, Goto, lockvars, TypeOK, PlaceOK
  <1>4. ASSUME NEW q \in Slots PROVE PidOK(q)'
    BY Constants DEF IInv, ExitEnter, At, Goto, lockvars, TypeOK, PidOK
  <1>5. ASSUME NEW q \in Slots PROVE ForkOK(q)'
    BY Constants DEF IInv, ExitEnter, At, Goto, lockvars, TypeOK, ForkOK, PlaceOK
  <1>6. ASSUME NEW q \in Slots PROVE ParentOK(q)'
    BY Constants DEF IInv, ExitEnter, At, Goto, lockvars, TypeOK, ParentOK, PlaceOK
  <1>7. ASSUME NEW q \in Slots PROVE WaitOK(q)'
    BY Constants DEF IInv, ExitEnter, At, Goto, lockvars, TypeOK, WaitOK, PlaceOK
  <1> QED
    BY <1>1, <1>2, <1>3, <1>4, <1>5, <1>6, <1>7 DEF IInv

LEMMA ExitZombieInv ==
  ASSUME IInv, NEW p \in Slots, ExitZombie(p)
  PROVE  IInv'
  <1>0. p # initproc /\ state[p] = "RUNNABLE" /\ wait_lock = None /\ state'[p] = "ZOMBIE"
    BY DEF IInv, TypeOK, ExitZombie, At, wakeup
  <1>8. ASSUME NEW s \in Slots \ {p}
        PROVE  /\ state'[s] = state[s] \/ (state[s] = "SLEEPING" /\ state'[s] = "RUNNABLE")
               /\ state'[s] = "SLEEPING" => s # parent[p] /\ (s = initproc => Children(p) = {})
    <2>1. CASE Children(p) = {}
      BY <2>1 DEF IInv, TypeOK, ExitZombie, wakeup
    <2>2. CASE Children(p) # {}
      BY <2>2 DEF IInv, TypeOK, ExitZombie, wakeup
    <2> QED
      BY <2>1, <2>2
  <1>9. ASSUME NEW s \in Slots
        PROVE  parent'[s] = IF parent[s] = p THEN initproc ELSE parent[s]
    BY DEF ExitZombie, reparent
  <1>1. TypeOK'
    <2>1. state' = [s \in Slots |-> state'[s]] /\ parent' = [s \in Slots |-> parent'[s]]
      BY ZenonT(60) DEF ExitZombie, wakeup, reparent
    <2>2. state' \in [Slots -> {"UNUSED", "USED", "RUNNABLE", "SLEEPING", "ZOMBIE"}]
      BY <1>0, <1>8, <2>1 DEF IInv, TypeOK
    <2>3. parent' \in [Slots -> Slots \union {None}]
      BY <1>9, <2>1, Constants DEF IInv, TypeOK
    <2> QED
      BY <2>2, <2>3, Zenon DEF IInv, ExitZombie, Goto, lockvars, TypeOK
  <1>2. state'[initproc] \in {"RUNNABLE", "SLEEPING"} /\ pc'[initproc] # "exit"
    BY <1>0, <1>8, <1>9, Constants DEF IInv, ExitZombie, At, Goto, lockvars, TypeOK
  <1>3. ASSUME NEW q \in Slots PROVE PlaceOK(q)'
    BY <1>0, <1>8, <1>9, Constants DEF IInv, ExitZombie, At, Goto, lockvars, TypeOK, PlaceOK
  <1>4. ASSUME NEW q \in Slots PROVE PidOK(q)'
    BY <1>0, <1>8, <1>9, Constants DEF IInv, ExitZombie, At, Goto, lockvars, TypeOK, PidOK
  <1>5. ASSUME NEW q \in Slots PROVE ForkOK(q)'
    BY <1>0, <1>8, <1>9, Constants DEF IInv, ExitZombie, At, Goto, lockvars, TypeOK, ForkOK, PlaceOK
  <1>6. ASSUME NEW q \in Slots PROVE ParentOK(q)'
    BY <1>0, <1>8, <1>9, Constants
       DEF IInv, ExitZombie, At, Goto, lockvars, TypeOK, ParentOK, PlaceOK
  <1>7. ASSUME NEW q \in Slots PROVE WaitOK(q)'
    <2>1. wait_lock' = None
      BY <1>0 DEF ExitZombie, lockvars
    <2>2. ASSUME state'[q] = "SLEEPING"
          PROVE  /\ \E s \in Slots : parent'[s] = q
                 /\ \A s \in Slots : parent'[s] = q => state'[s] # "ZOMBIE"
      <3>1. q # p /\ q # parent[p] /\ (q = initproc => Children(p) = {}) /\ state[q] = "SLEEPING"
        BY <1>0, <1>8, <2>2
      <3>2. \A s \in Slots : parent'[s] = q <=> parent[s] = q
        BY <1>9, <3>1 DEF Children
      <3>3. /\ \E s \in Slots : parent[s] = q
            /\ \A s \in Slots : parent[s] = q => state[s] # "ZOMBIE"
        BY <3>1 DEF IInv, WaitOK
      <3> QED
        BY <1>8, <3>1, <3>2, <3>3
    <2> QED
      BY <2>1, <2>2, Constants DEF WaitOK
  <1> QED
    BY <1>1, <1>2, <1>3, <1>4, <1>5, <1>6, <1>7 DEF IInv

LEMMA ExitSwitchedInv ==
  ASSUME IInv, NEW p \in Slots, ExitSwitched(p)
  PROVE  IInv'
  <1>1. TypeOK'
    BY Constants DEF IInv, ExitSwitched, Goto, lockvars, TypeOK
  <1>2. state'[initproc] \in {"RUNNABLE", "SLEEPING"} /\ pc'[initproc] # "exit"
    BY Constants DEF IInv, ExitSwitched, Goto, lockvars, TypeOK
  <1>3. ASSUME NEW q \in Slots PROVE PlaceOK(q)'
    BY Constants DEF IInv, ExitSwitched, Goto, lockvars, TypeOK, PlaceOK
  <1>4. ASSUME NEW q \in Slots PROVE PidOK(q)'
    BY Constants DEF IInv, ExitSwitched, Goto, lockvars, TypeOK, PidOK
  <1>5. ASSUME NEW q \in Slots PROVE ForkOK(q)'
    BY Constants DEF IInv, ExitSwitched, Goto, lockvars, TypeOK, ForkOK, PlaceOK
  <1>6. ASSUME NEW q \in Slots PROVE ParentOK(q)'
    BY Constants DEF IInv, ExitSwitched, Goto, lockvars, TypeOK, ParentOK, PlaceOK
  <1>7. ASSUME NEW q \in Slots PROVE WaitOK(q)'
    BY Constants DEF IInv, ExitSwitched, Goto, lockvars, TypeOK, WaitOK, PlaceOK
  <1> QED
    BY <1>1, <1>2, <1>3, <1>4, <1>5, <1>6, <1>7 DEF IInv

LEMMA WaitReapInv ==
  ASSUME IInv, NEW p \in Slots, WaitReap(p)
  PROVE  IInv'
  <1>0. PICK np \in Slots : np = Min(Zombies(p)) /\ state[np] = "ZOMBIE" /\ parent[np] = p
    BY MinMember DEF WaitReap, Zombies, Children
  <1>1. TypeOK'
    BY <1>0, Constants
       DEF IInv, WaitReap, Waiting, MayCall, At, Zombies, Children, Exited, freeproc, Goto,
           lockvars, TypeOK
  <1>2. state'[initproc] \in {"RUNNABLE", "SLEEPING"} /\ pc'[initproc] # "exit"
    BY <1>0, Constants
       DEF IInv, WaitReap, Waiting, MayCall, At, Zombies, Children, Exited, freeproc, Goto,
           lockvars, TypeOK
  <1>3. ASSUME NEW q \in Slots PROVE PlaceOK(q)'
    BY <1>0, Constants
       DEF IInv, WaitReap, Waiting, MayCall, At, Zombies, Children, Exited, freeproc, Goto,
           lockvars, TypeOK, PlaceOK
  <1>4. ASSUME NEW q \in Slots PROVE PidOK(q)'
    BY <1>0, Constants
       DEF IInv, WaitReap, Waiting, MayCall, At, Zombies, Children, Exited, freeproc, Goto,
           lockvars, TypeOK, PidOK
  <1>5. ASSUME NEW q \in Slots PROVE ForkOK(q)'
    BY <1>0, Constants
       DEF IInv, WaitReap, Waiting, MayCall, At, Zombies, Children, Exited, freeproc, Goto,
           lockvars, TypeOK, ForkOK, PlaceOK
  <1>6. ASSUME NEW q \in Slots PROVE ParentOK(q)'
    BY <1>0, Constants
       DEF IInv, WaitReap, Waiting, MayCall, At, Zombies, Children, Exited, freeproc, Goto,
           lockvars, TypeOK, ParentOK, PlaceOK
  <1>7. ASSUME NEW q \in Slots PROVE WaitOK(q)'
    BY <1>0, Constants
       DEF IInv, WaitReap, Waiting, MayCall, At, Zombies, Children, Exited, freeproc, Goto,
           lockvars, TypeOK, WaitOK, PlaceOK
  <1> QED
    BY <1>1, <1>2, <1>3, <1>4, <1>5, <1>6, <1>7 DEF IInv

LEMMA WaitFailsInv ==
  ASSUME IInv, NEW p \in Slots, WaitFails(p)
  PROVE  IInv'
  <1>1. TypeOK'
    BY Constants DEF IInv, WaitFails, Waiting, MayCall, At, Goto, lockvars, TypeOK
  <1>2. state'[initproc] \in {"RUNNABLE", "SLEEPING"} /\ pc'[initproc] # "exit"
    BY Constants DEF IInv, WaitFails, Waiting, MayCall, At, Goto, lockvars, TypeOK
  <1>3. ASSUME NEW q \in Slots PROVE PlaceOK(q)'
    BY Constants DEF IInv, WaitFails, Waiting, MayCall, At, Goto, lockvars, TypeOK, PlaceOK
  <1>4. ASSUME NEW q \in Slots PROVE PidOK(q)'
    BY Constants DEF IInv, WaitFails, Waiting, MayCall, At, Goto, lockvars, TypeOK, PidOK
  <1>5. ASSUME NEW q \in Slots PROVE ForkOK(q)'
    BY Constants DEF IInv, WaitFails, Waiting, MayCall, At, Goto, lockvars, TypeOK, ForkOK, PlaceOK
  <1>6. ASSUME NEW q \in Slots PROVE ParentOK(q)'
    BY Constants
       DEF IInv, WaitFails, Waiting, MayCall, At, Goto, lockvars, TypeOK, ParentOK, PlaceOK
  <1>7. ASSUME NEW q \in Slots PROVE WaitOK(q)'
    BY Constants DEF IInv, WaitFails, Waiting, MayCall, At, Goto, lockvars, TypeOK, WaitOK, PlaceOK
  <1> QED
    BY <1>1, <1>2, <1>3, <1>4, <1>5, <1>6, <1>7 DEF IInv

LEMMA WaitDecidesInv ==
  ASSUME IInv, NEW p \in Slots, WaitDecides(p)
  PROVE  IInv'
  <1>1. TypeOK'
    BY Constants DEF IInv, WaitDecides, Waiting, MayCall, At, Goto, Zombies, Children, TypeOK
  <1>2. state'[initproc] \in {"RUNNABLE", "SLEEPING"} /\ pc'[initproc] # "exit"
    BY Constants DEF IInv, WaitDecides, Waiting, MayCall, At, Goto, Zombies, Children, TypeOK
  <1>3. ASSUME NEW q \in Slots PROVE PlaceOK(q)'
    BY Constants
       DEF IInv, WaitDecides, Waiting, MayCall, At, Goto, Zombies, Children, TypeOK, PlaceOK
  <1>4. ASSUME NEW q \in Slots PROVE PidOK(q)'
    BY Constants DEF IInv, WaitDecides, Waiting, MayCall, At, Goto, Zombies, Children, TypeOK, PidOK
  <1>5. ASSUME NEW q \in Slots PROVE ForkOK(q)'
    BY Constants
       DEF IInv, WaitDecides, Waiting, MayCall, At, Goto, Zombies, Children, TypeOK, ForkOK, PlaceOK
  <1>6. ASSUME NEW q \in Slots PROVE ParentOK(q)'
    BY Constants
       DEF IInv, WaitDecides, Waiting, MayCall, At, Goto, Zombies, Children, TypeOK, ParentOK,
           PlaceOK
  <1>7. ASSUME NEW q \in Slots PROVE WaitOK(q)'
    BY Constants
       DEF IInv, WaitDecides, Waiting, MayCall, At, Goto, Zombies, Children, TypeOK, WaitOK, PlaceOK
  <1> QED
    BY <1>1, <1>2, <1>3, <1>4, <1>5, <1>6, <1>7 DEF IInv

LEMMA WaitSleepsInv ==
  ASSUME IInv, NEW p \in Slots, WaitSleeps(p)
  PROVE  IInv'
  <1>1. TypeOK'
    BY Constants DEF IInv, WaitSleeps, TypeOK
  <1>2. state'[initproc] \in {"RUNNABLE", "SLEEPING"} /\ pc'[initproc] # "exit"
    BY Constants DEF IInv, WaitSleeps, TypeOK
  <1>3. ASSUME NEW q \in Slots PROVE PlaceOK(q)'
    BY Constants DEF IInv, WaitSleeps, TypeOK, PlaceOK, WaitOK
  <1>4. ASSUME NEW q \in Slots PROVE PidOK(q)'
    BY Constants DEF IInv, WaitSleeps, TypeOK, PidOK
  <1>5. ASSUME NEW q \in Slots PROVE ForkOK(q)'
    BY Constants DEF IInv, WaitSleeps, TypeOK, PlaceOK, WaitOK, ForkOK
  <1>6. ASSUME NEW q \in Slots PROVE ParentOK(q)'
    BY Constants DEF IInv, WaitSleeps, TypeOK, PlaceOK, WaitOK, ParentOK
  <1>7. ASSUME NEW q \in Slots PROVE WaitOK(q)'
    BY Constants DEF IInv, WaitSleeps, TypeOK, WaitOK, PlaceOK
  <1> QED
    BY <1>1, <1>2, <1>3, <1>4, <1>5, <1>6, <1>7 DEF IInv

LEMMA killInv ==
  ASSUME IInv, NEW p \in Slots, NEW n \in KillPids, kill(p, n)
  PROVE  IInv'
  <1> DEFINE named_n == {s \in Slots : pid[s] = n}
  <1>0. /\ \/ \E s \in Slots :
                 /\ pid[s] = n /\ killed' = [killed EXCEPT ![s] = TRUE]
                 /\ state' = [state EXCEPT ![s] = IF @ = "SLEEPING" THEN "RUNNABLE" ELSE @]
           \/ UNCHANGED <<killed, state>>
        /\ named' = named \union {n}
    <2>1. CASE named_n = {}
      BY <2>1 DEF kill
    <2>2. CASE named_n # {}
      <3>1. Min(named_n) \in named_n
        BY <2>2, MinMember
      <3> QED
        BY <2>2, <3>1 DEF kill
    <2> QED
      BY <2>1, <2>2
  <1>1. TypeOK'
    BY <1>0, Constants, ZenonT(60) DEF IInv, kill, MayCall, At, Exited, lockvars, TypeOK
  <1>2. state'[initproc] \in {"RUNNABLE", "SLEEPING"} /\ pc'[initproc] # "exit"
    BY <1>0, Constants DEF IInv, kill, MayCall, At, Exited, lockvars, TypeOK
  <1>3. ASSUME NEW q \in Slots PROVE PlaceOK(q)'
    BY <1>0, Constants DEF IInv, kill, MayCall, At, Exited, lockvars, TypeOK, PlaceOK
  <1>4. ASSUME NEW q \in Slots PROVE PidOK(q)'
    BY <1>0, Constants DEF IInv, kill, MayCall, At, Exited, lockvars, TypeOK, PidOK
  <1>5. ASSUME NEW q \in Slots PROVE ForkOK(q)'
    BY <1>0, Constants DEF IInv, kill, MayCall, At, Exited, lockvars, TypeOK, ForkOK, PlaceOK
  <1>6. ASSUME NEW q \in Slots PROVE ParentOK(q)'
    BY <1>0, Constants DEF IInv, kill, MayCall, At, Exited, lockvars, TypeOK, ParentOK, PlaceOK
  <1>7. ASSUME NEW q \in Slots PROVE WaitOK(q)'
    BY <1>0, Constants DEF IInv, kill, MayCall, At, Exited, lockvars, TypeOK, WaitOK, PlaceOK
  <1> QED
    BY <1>1, <1>2, <1>3, <1>4, <1>5, <1>6, <1>7 DEF IInv

LEMMA NextInv == IInv /\ [Next]_vars => IInv'
  <1> SUFFICES ASSUME IInv, [Next]_vars PROVE IInv'
    OBVIOUS
  <1>1. ASSUME NEW p \in Slots, fork(p) PROVE IInv'
    BY <1>1, ForkAllocInv, ForkNoMemoryInv, ForkParentInv, ForkRunnableInv DEF fork
  <1>2. ASSUME NEW p \in Slots, exit(p) PROVE IInv'
    <2>1. CASE panic(p)
      BY <2>1 DEF panic, vars, lockvars, IInv, TypeOK, PlaceOK, PidOK, ForkOK, ParentOK, WaitOK
    <2> QED
      BY <1>2, <2>1, ExitEnterInv, ExitZombieInv, ExitSwitchedInv DEF exit
  <1>3. ASSUME NEW p \in Slots, wait(p) PROVE IInv'
    BY <1>3, WaitReapInv, WaitFailsInv, WaitDecidesInv, WaitSleepsInv DEF wait
  <1>4. CASE UNCHANGED vars
    BY <1>4 DEF vars, lockvars, IInv, TypeOK, PlaceOK, PidOK, ForkOK, ParentOK, WaitOK
  <1> QED
    BY <1>1, <1>2, <1>3, <1>4, killInv DEF Next

\* Every state of every behaviour of fork, exit, wait and kill satisfies the
\* inductive invariant.
THEOREM Invariance == Spec => []IInv
  BY InitInv, NextInv, PTL DEF Spec

\* For any number of slots: wait frees no slot whose thread is still on its
\* kernel stack, pids of processes are distinct, and only a process named to
\* kill (or one created in a slot that a kill(0) marked) is killed.
THEOREM SlotsAlwaysReusable == Spec => []SlotReuse
  <1>1. IInv => SlotReuse
    BY Zenon DEF IInv, PlaceOK, PidOK, SlotReuse, Live
  <1> QED
    BY <1>1, Invariance, PTL

\* Whatever forks and exits overlap, every process but init has a live parent,
\* and one that sleeps in wait has a child and none that has already exited.
THEOREM FamilyAlwaysSound == Spec => []FamilySound
  <1>1. ASSUME IInv PROVE FamilySound
    <2>1. ASSUME NEW p \in Slots, state[p] \in {"RUNNABLE", "SLEEPING", "ZOMBIE"}, p # initproc
          PROVE  parent[p] \in Live
      BY <1>1, <2>1 DEF IInv, TypeOK, ParentOK, Live
    <2>2. ASSUME NEW p \in Slots, state[p] = "SLEEPING"
          PROVE  Children(p) # {} /\ Zombies(p) = {}
      BY <1>1, <2>2 DEF IInv, WaitOK, Children, Zombies
    <2> QED
      BY <2>1, <2>2, ZenonT(60) DEF FamilySound, Live
  <1> QED
    BY <1>1, Invariance, PTL
=============================================================================
