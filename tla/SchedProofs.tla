---------------------------- MODULE SchedProofs ----------------------------
(***************************************************************************)
(* The inductive invariant of Sched, and the proofs that for any number of *)
(* CPUs and processes no two CPUs are on one kernel stack, no wakeup is    *)
(* lost and the interrupt enable bit survives every context switch.        *)
(***************************************************************************)
EXTENDS Sched, NaturalsInduction, WellFoundedInduction, TLAPS

\* The places of a thread with tickslock, with its own p->lock, with neither.
TicksPC == {"test", "unlock", "sleep", "locked"}
SlotPC == {"forkret", "locked", "asleep", "woken"}
BarePC == {"usertrapret", "kernel", "relock"}
SlotTrap == {"switch", "resumed"}

TypeOK ==
    /\ lock \in [Locks -> CPUs \union {None}]
    /\ sie \in [CPUs -> BOOLEAN] /\ noff \in [CPUs -> Nat] /\ intena \in [CPUs -> BOOLEAN]
    /\ on \in [CPUs -> Procs \union {None}]
    /\ spc \in [CPUs -> {"scan", "look", "unlock"}] /\ spos \in [CPUs -> Procs]
    /\ hpc \in [CPUs -> {"none", "clockintr", "wakeup", "yield"}]
    /\ towake \in [CPUs -> SUBSET Procs]
    /\ state \in [Procs -> {"RUNNABLE", "RUNNING", "SLEEPING"}]
    /\ chan \in [Procs -> BOOLEAN]
    /\ pc \in [Procs -> TicksPC \union SlotPC \union BarePC]
    /\ trap \in [Procs -> {"none", "yield", "sret"} \union SlotTrap]
    /\ saved \in [Procs -> BOOLEAN]
    /\ ticks \in Int /\ ticks0 \in [Procs -> Int]

\* What a CPU is executing says which locks it has: tickslock, ...
HoldsTicks(c) ==
    \/ hpc[c] = "wakeup"
    \/ on[c] # None /\ trap[on[c]] = "none" /\ pc[on[c]] \in TicksPC

\* ... and the p->lock of its slot, taken by the scheduler and dropped by the
\* process it runs, or taken by a process and dropped by the scheduler.
ThreadHolds(p) == (trap[p] = "none" /\ pc[p] \in SlotPC) \/ trap[p] \in SlotTrap
HoldsSlot(c) == IF on[c] = None THEN spc[c] # "scan" ELSE ThreadHolds(on[c])

\* c->noff is the number of locks the CPU has.
LocksHeld(c) ==
    /\ lock[TicksLock] = c <=> HoldsTicks(c)
    /\ lock[spos[c]] = c <=> HoldsSlot(c)
    /\ \A p \in Procs : lock[p] = c => p = spos[c]
    /\ HoldsTicks(c) /\ HoldsSlot(c) => noff[c] = 2
    /\ (HoldsTicks(c) /\ ~HoldsSlot(c)) \/ (HoldsSlot(c) /\ ~HoldsTicks(c)) => noff[c] = 1
    /\ ~HoldsTicks(c) /\ ~HoldsSlot(c) => noff[c] = 0

\* A handler has interrupted code without locks, and the scheduler waits
\* where it switched to the process.
Nesting(c) ==
    /\ on[c] # None => spc[c] = "unlock" /\ spos[c] = on[c]
    /\ on[c] = None /\ hpc[c] # "none" => spc[c] = "scan"
    /\ on[c] # None /\ hpc[c] # "none" => trap[on[c]] = "none" /\ pc[on[c]] \in BarePC

\* Interrupts are off with a lock held, in a handler and in a trap, and on
\* elsewhere; c->intena is what release will restore.
Interrupts(c) ==
    /\ sie[c] => hpc[c] = "none" /\ noff[c] = 0 /\ (on[c] # None => trap[on[c]] = "none")
    /\ hpc[c] = "wakeup" => ~intena[c]
    /\ on[c] # None /\ hpc[c] = "none" /\ trap[on[c]] = "none" =>
          /\ pc[on[c]] \in {"kernel", "relock"} => sie[c]
          /\ pc[on[c]] \in TicksPC \union {"asleep"} => intena[c]
    /\ on[c] # None /\ trap[on[c]] = "switch" => ~intena[c]

CpuOK(c) == LocksHeld(c) /\ Nesting(c) /\ Interrupts(c)

OnCPU(p) == \E c \in CPUs : on[c] = p

\* Where a process is, on a CPU or off, for each p->state; across a context
\* switch sched()'s local has what release is to restore.
ThreadOK(p) ==
    /\ OnCPU(p) => state[p] = IF trap[p] = "switch" THEN "RUNNABLE" ELSE "RUNNING"
    /\ ~OnCPU(p) =>
          /\ state[p] # "RUNNING"
          /\ (trap[p] = "none" /\ pc[p] \in {"forkret", "woken"}) \/ trap[p] = "resumed"
    /\ state[p] = "SLEEPING" => chan[p] /\ trap[p] = "none" /\ pc[p] = "woken"
    /\ trap[p] # "none" => pc[p] \in BarePC
    /\ trap[p] = "none" /\ pc[p] = "woken" => saved[p]
    /\ trap[p] = "resumed" => ~saved[p]

\* The tick that p sleeps for has come, and the wakeup it started has not
\* visited p yet.
Due(p) == (ticks - ticks0[p]) % TicksMod >= 1
Coming(p) == \E c \in CPUs : hpc[c] = "wakeup" /\ p \in towake[c]

\* p has tested for the tick under tickslock; one that comes later finds p's
\* lock taken or p asleep.
WakeOK(p) ==
    /\ trap[p] = "none" /\ pc[p] \in {"sleep", "locked"} => ~Due(p)
    /\ (pc[p] = "asleep" \/ state[p] = "SLEEPING") /\ Due(p) => Coming(p)

OneStack == \A c, d \in CPUs : c # d /\ on[c] # None => on[c] # on[d]

IInv ==
    /\ TypeOK /\ ~panicked /\ OneStack
    /\ \A c \in CPUs : CpuOK(c)
    /\ \A p \in Procs : ThreadOK(p) /\ WakeOK(p)
-----------------------------------------------------------------------------
\* What the proofs use of the constants.
LEMMA Constants ==
  /\ None \notin CPUs /\ None \notin Procs /\ TicksLock \notin Procs
  /\ \A p \in Procs : NextSlot(p) \in Procs
  BY SchedAssumption DEF Procs, TicksLock, NextSlot

LEMMA MinMember ==
  ASSUME NEW S \in SUBSET Procs, S # {}
  PROVE  Min(S) \in S
  <1> DEFINE R == {ss \in Nat \X Nat : ss[1] < ss[2]}
  <1>1. S \subseteq Nat
    BY SchedAssumption DEF Procs
  <1>2. IsWellFoundedOn(R, Nat)
    BY Zenon, NatLessThanWellFounded DEF OpToRel
  <1>3. \E x \in S : \A y \in S : ~(<<y, x>> \in R)
    <2> HIDE DEF R
    <2> QED
      BY <1>1, <1>2, WFMin, Zenon
  <1>4. PICK x \in S : \A y \in S : ~(<<y, x>> \in R)
    BY Zenon, <1>3
  <1>5. ASSUME NEW y \in S PROVE x <= y
    <2>1. x \in Nat /\ y \in Nat
      BY Zenon, <1>1
    <2>2. ~(<<y, x>> \in R)
      BY Zenon, <1>4
    <2> QED
      BY <2>1, <2>2
  <1> QED
    BY Zenon, <1>5 DEF Min

LEMMA InitInv == Init => IInv
  <1> SUFFICES ASSUME Init PROVE IInv
    OBVIOUS
  <1> USE SchedAssumption, Constants DEF Init
  <1>1. TypeOK
    BY DEF TypeOK, Procs, Locks, SlotPC
  <1>2. ASSUME NEW c \in CPUs PROVE CpuOK(c)
    BY Zenon, <1>1 DEF TypeOK, CpuOK, LocksHeld, HoldsTicks, HoldsSlot, Nesting, Interrupts, Locks
  <1>3. ASSUME NEW p \in Procs PROVE ThreadOK(p) /\ WakeOK(p)
    BY Zenon DEF ThreadOK, OnCPU, WakeOK
  <1> QED
    BY Zenon, <1>1, <1>2, <1>3 DEF IInv, OneStack

\* A CPU whose own state, locks and thread do not change stays as it is.
SameCpu(d) ==
    /\ sie'[d] = sie[d] /\ noff'[d] = noff[d] /\ intena'[d] = intena[d]
    /\ on'[d] = on[d] /\ spc'[d] = spc[d] /\ spos'[d] = spos[d] /\ hpc'[d] = hpc[d]
    /\ on[d] # None => trap'[on[d]] = trap[on[d]] /\ pc'[on[d]] = pc[on[d]]
    /\ \A l \in Locks : lock'[l] = d <=> lock[l] = d

LEMMA CpuFrame ==
  ASSUME TypeOK, NEW d \in CPUs, CpuOK(d), SameCpu(d)
  PROVE  CpuOK(d)'
  <1>1. /\ spos[d] \in Procs /\ spos[d] \in Locks /\ TicksLock \in Locks
        /\ \A q \in Procs : q \in Locks
    BY Zenon DEF TypeOK, Locks
  <1>2. HoldsTicks(d)' <=> HoldsTicks(d)
    BY Zenon DEF SameCpu, HoldsTicks
  <1>3. HoldsSlot(d)' <=> HoldsSlot(d)
    BY Zenon DEF SameCpu, HoldsSlot, ThreadHolds
  <1>4. LocksHeld(d)'
    BY Zenon, <1>1, <1>2, <1>3 DEF CpuOK, SameCpu, LocksHeld
  <1>5. Nesting(d)' /\ Interrupts(d)'
    BY Zenon DEF CpuOK, SameCpu, Nesting, Interrupts
  <1> QED
    BY Zenon, <1>4, <1>5 DEF CpuOK

\* A thread that does not change and is not switched stays as it is.
SameThread(q) ==
    /\ state'[q] = state[q] /\ chan'[q] = chan[q] /\ pc'[q] = pc[q]
    /\ trap'[q] = trap[q] /\ saved'[q] = saved[q]
    /\ OnCPU(q)' <=> OnCPU(q)

\* What it waits for is not lost either.
SameWait(q) ==
    /\ state'[q] = state[q] /\ pc'[q] = pc[q] /\ trap'[q] = trap[q]
    /\ Due(q)' <=> Due(q)
    /\ Coming(q) => Coming(q)'

\* A step of CPU c keeps the invariant if it keeps it for what it changes.
LEMMA LocalStep ==
  ASSUME IInv, NEW c \in CPUs, TypeOK', ~panicked', OneStack', CpuOK(c)',
         \A d \in CPUs \ {c} : SameCpu(d),
         \A q \in Procs : SameThread(q) \/ ThreadOK(q)',
         \A q \in Procs : SameWait(q) \/ WakeOK(q)'
  PROVE  IInv'
  <1>1. ASSUME NEW d \in CPUs PROVE CpuOK(d)'
    BY Zenon, CpuFrame DEF IInv
  <1>2. ASSUME NEW q \in Procs PROVE ThreadOK(q)'
    <2>1. ThreadOK(q)
      BY Zenon DEF IInv
    <2>2. CASE SameThread(q)
      BY Zenon, <2>1, <2>2 DEF SameThread, ThreadOK
    <2> QED
      BY Zenon, <2>2
  <1>3. ASSUME NEW q \in Procs PROVE WakeOK(q)'
    <2>1. WakeOK(q)
      BY Zenon DEF IInv
    <2>2. CASE SameWait(q)
      BY Zenon, <2>1, <2>2 DEF SameWait, WakeOK
    <2> QED
      BY Zenon, <2>2
  <1> QED
    BY Zenon, <1>1, <1>2, <1>3 DEF IInv

\* The locks of a CPU that runs a thread outside a handler.
LEMMA InThread ==
  ASSUME NEW c \in CPUs, NEW p \in Procs, CpuOK(c), on[c] = p, hpc[c] = "none"
  PROVE  /\ spos[c] = p /\ spc[c] = "unlock"
         /\ lock[TicksLock] = c <=> trap[p] = "none" /\ pc[p] \in TicksPC
         /\ lock[p] = c <=> ThreadHolds(p)
         /\ \A q \in Procs : lock[q] = c => q = p
         /\ trap[p] = "none" /\ pc[p] \in TicksPC /\ ThreadHolds(p) => noff[c] = 2
         /\ trap[p] = "none" /\ pc[p] \in TicksPC /\ ~ThreadHolds(p) => noff[c] = 1
         /\ ~(trap[p] = "none" /\ pc[p] \in TicksPC) /\ ThreadHolds(p) => noff[c] = 1
         /\ ~(trap[p] = "none" /\ pc[p] \in TicksPC) /\ ~ThreadHolds(p) => noff[c] = 0
         /\ sie[c] => trap[p] = "none" /\ noff[c] = 0
         /\ trap[p] = "none" /\ pc[p] \in {"kernel", "relock"} => sie[c]
         /\ trap[p] = "none" /\ pc[p] \in TicksPC \union {"asleep"} => intena[c]
         /\ trap[p] = "switch" => ~intena[c]
  BY Zenon, Constants DEF CpuOK, LocksHeld, Nesting, Interrupts, HoldsTicks, HoldsSlot

\* A CPU runs thread p with these locks and this interrupt state.
Runs(c, p) ==
    /\ on[c] = p /\ hpc[c] = "none" /\ spos[c] = p /\ spc[c] = "unlock"
    /\ \A q \in Procs : lock[q] = c => q = p

\* A step of CPU c that runs p and touches only itself, p and free locks.
Own(c, p) ==
    /\ UNCHANGED <<schedvars, intrvars, ticks>>
    /\ \A d \in CPUs \ {c} :
          sie'[d] = sie[d] /\ noff'[d] = noff[d] /\ intena'[d] = intena[d]
    /\ \A l \in Locks : lock'[l] = lock[l] \/ {lock[l], lock'[l]} \subseteq {None, c}
    /\ \A q \in Procs \ {p} :
          /\ state'[q] = state[q] /\ chan'[q] = chan[q] /\ pc'[q] = pc[q]
          /\ trap'[q] = trap[q] /\ saved'[q] = saved[q] /\ ticks0'[q] = ticks0[q]

LEMMA OwnStep ==
  ASSUME IInv, NEW c \in CPUs, NEW p \in Procs, on[c] = p, Own(c, p),
         TypeOK', ~panicked', CpuOK(c)', ThreadOK(p)', WakeOK(p)'
  PROVE  IInv'
  <1>1. OneStack'
    BY Zenon DEF IInv, OneStack, Own, schedvars
  <1>2. ASSUME NEW d \in CPUs \ {c} PROVE SameCpu(d)
    <2>1. on[d] # p
      BY Zenon, Constants DEF IInv, OneStack
    <2> QED
      BY <2>1, Constants DEF IInv, TypeOK, SameCpu, Own, schedvars, intrvars
  <1>3. ASSUME NEW q \in Procs \ {p} PROVE SameThread(q) /\ SameWait(q)
    <2>1. (OnCPU(q)' <=> OnCPU(q)) /\ (Coming(q) => Coming(q)')
      BY Zenon DEF Own, OnCPU, Coming, schedvars, intrvars
    <2>2. Due(q)' <=> Due(q)
      BY Zenon DEF Own, Due
    <2> QED
      BY Zenon, <2>1, <2>2 DEF Own, SameThread, SameWait
  <1> QED
    BY Zenon, <1>1, <1>2, <1>3, LocalStep

-----------------------------------------------------------------------------
\* Every step of a CPU keeps the invariant.
LEMMA ForkretReleaseInv ==
  ASSUME IInv, NEW c \in CPUs, NEW p \in Procs, forkret(c, p), pc[p] = "forkret"
  PROVE  IInv'
  <1>1. /\ TypeOK /\ ~panicked /\ CpuOK(c) /\ ThreadOK(p) /\ WakeOK(p) /\ OnCPU(p)
        /\ on[c] = p /\ hpc[c] = "none" /\ trap[p] = "none" /\ pc[p] = "forkret"
    BY Zenon DEF IInv, forkret, InProc, OnCPU
  <1>2. /\ spos[c] = p /\ spc[c] = "unlock" /\ lock[TicksLock] # c /\ lock[p] = c
        /\ (\A q \in Procs : lock[q] = c => q = p) /\ noff[c] = 1 /\ ~sie[c]
    BY <1>1, InThread DEF ThreadHolds, ThreadOK, TicksPC, SlotPC, BarePC, SlotTrap
  <1>0. /\ release(c, p) /\ Goto(p, "usertrapret")
        /\ UNCHANGED <<schedvars, intrvars, state, chan, trap, saved, tickvars>>
    BY Zenon, <1>1 DEF forkret, InProc
  <1>3. /\ trap'[p] = "none" /\ pc'[p] = "usertrapret" /\ lock'[TicksLock] # c
        /\ lock'[p] # c /\ (\A q \in Procs : lock'[q] = c => q = p) /\ noff'[c] = 0
    BY <1>0, <1>1, <1>2, Constants
       DEF release, pop_off, Goto, TypeOK, Locks, cpuvars, schedvars, intrvars, procvars, tickvars
  <1>4. TypeOK' /\ ~panicked'
    <2>1. TypeOK'
      BY <1>0, <1>1, <1>2
         DEF release, pop_off, Goto, TypeOK, TicksPC, SlotPC, BarePC, SlotTrap, Locks, cpuvars,
             schedvars, intrvars, procvars, tickvars
    <2>2. ~panicked'
      <3>1. ~(lock[p] # c \/ sie[c] \/ noff[c] < 1)
        BY <1>2
      <3> QED
        BY Zenon, <1>0, <1>1, <3>1 DEF release, pop_off, Goto
    <2> QED
      BY Zenon, <2>1, <2>2
  <1>5. Own(c, p)
    BY Zenon, <1>0, <1>1, <1>2
       DEF release, pop_off, Goto, Own, TypeOK, cpuvars, schedvars, intrvars, procvars, tickvars
  <1>6. CpuOK(c)'
    <2>1. Runs(c, p)'
      BY Zenon, <1>1, <1>2, <1>3, <1>5 DEF Runs, Own, schedvars, intrvars
    <2>2. (HoldsTicks(c)' <=> FALSE) /\ (HoldsSlot(c)' <=> FALSE)
      BY Zenon, <1>1, <1>3, <2>1, Constants
         DEF HoldsTicks, HoldsSlot, ThreadHolds, Runs, TicksPC, SlotPC, BarePC, SlotTrap
    <2>3. LocksHeld(c)' /\ Nesting(c)'
      BY Zenon, <1>3, <2>1, <2>2, Constants DEF LocksHeld, Nesting, Runs
    <2>4. Interrupts(c)'
      BY Zenon, <1>1, <1>3, <2>1 DEF Interrupts, Runs, TicksPC, SlotPC, BarePC, SlotTrap
    <2> QED
      BY Zenon, <2>3, <2>4 DEF CpuOK
  <1>7. ThreadOK(p)'
    <2>1. OnCPU(p)'
      BY Zenon, <1>1, <1>5 DEF OnCPU, Own, schedvars
    <2> QED
      BY Zenon, <1>0, <1>1, <1>3, <2>1 DEF ThreadOK, TypeOK, BarePC, procvars
  <1>8. WakeOK(p)'
    BY Zenon, <1>0, <1>1, <1>3, <1>5
       DEF ThreadOK, WakeOK, Due, Own, Coming, TypeOK, TicksPC, SlotPC, BarePC, SlotTrap, cpuvars,
           schedvars, intrvars, procvars, tickvars
  <1> QED
    BY Zenon, <1>1, <1>4, <1>5, <1>6, <1>7, <1>8, OwnStep

LEMMA ForkretReturnInv ==
  ASSUME IInv, NEW c \in CPUs, NEW p \in Procs, forkret(c, p), pc[p] = "usertrapret"
  PROVE  IInv'
  <1>1. /\ TypeOK /\ ~panicked /\ CpuOK(c) /\ ThreadOK(p) /\ WakeOK(p) /\ OnCPU(p)
        /\ on[c] = p /\ hpc[c] = "none" /\ trap[p] = "none" /\ pc[p] = "usertrapret"
    BY Zenon DEF IInv, forkret, InProc, OnCPU
  <1>2. /\ spos[c] = p /\ spc[c] = "unlock" /\ lock[TicksLock] # c /\ lock[p] # c
        /\ (\A q \in Procs : lock[q] = c => q = p) /\ noff[c] = 0
    BY ZenonT(60), <1>1, InThread DEF ThreadHolds, ThreadOK, TicksPC, SlotPC, BarePC, SlotTrap
  <1>0. /\ sie' = [sie EXCEPT ![c] = TRUE] /\ Goto(p, "kernel")
        /\ UNCHANGED <<lock, noff, intena, schedvars, intrvars, state, chan, trap, saved, tickvars,
                       panicked>>
    BY Zenon, <1>1 DEF forkret, InProc
  <1>3. /\ trap'[p] = "none" /\ pc'[p] = "kernel" /\ lock'[TicksLock] # c
        /\ lock'[p] # c /\ (\A q \in Procs : lock'[q] = c => q = p) /\ noff'[c] = 0
        /\ sie'[c]
    BY Zenon, <1>0, <1>1, <1>2, Constants
       DEF Goto, TypeOK, Locks, cpuvars, schedvars, intrvars, procvars, tickvars
  <1>4. TypeOK' /\ ~panicked'
    <2>1. TypeOK'
      BY Zenon, <1>0, <1>1, <1>2
         DEF Goto, TypeOK, TicksPC, SlotPC, BarePC, SlotTrap, Locks, cpuvars, schedvars, intrvars,
             procvars, tickvars
    <2>2. ~panicked'
      BY Zenon, <1>0, <1>1, <1>2 DEF Goto
    <2> QED
      BY Zenon, <2>1, <2>2
  <1>5. Own(c, p)
    BY Zenon, <1>0, <1>1, <1>2
       DEF Goto, Own, TypeOK, cpuvars, schedvars, intrvars, procvars, tickvars
  <1>6. CpuOK(c)'
    <2>1. Runs(c, p)'
      BY Zenon, <1>1, <1>2, <1>3, <1>5 DEF Runs, Own, schedvars, intrvars
    <2>2. (HoldsTicks(c)' <=> FALSE) /\ (HoldsSlot(c)' <=> FALSE)
      BY Zenon, <1>1, <1>3, <2>1, Constants
         DEF HoldsTicks, HoldsSlot, ThreadHolds, Runs, TicksPC, SlotPC, BarePC, SlotTrap
    <2>3. LocksHeld(c)' /\ Nesting(c)'
      BY Zenon, <1>3, <2>1, <2>2, Constants DEF LocksHeld, Nesting, Runs
    <2>4. Interrupts(c)'
      BY Zenon, <1>1, <1>3, <2>1 DEF Interrupts, Runs, TicksPC, SlotPC, BarePC, SlotTrap
    <2> QED
      BY Zenon, <2>3, <2>4 DEF CpuOK
  <1>7. ThreadOK(p)'
    <2>1. OnCPU(p)'
      BY Zenon, <1>1, <1>5 DEF OnCPU, Own, schedvars
    <2> QED
      BY Zenon, <1>0, <1>1, <1>3, <2>1 DEF ThreadOK, TypeOK, BarePC, procvars
  <1>8. WakeOK(p)'
    BY Zenon, <1>0, <1>1, <1>3, <1>5
       DEF ThreadOK, WakeOK, Due, Own, Coming, TypeOK, TicksPC, SlotPC, BarePC, SlotTrap, cpuvars,
           schedvars, intrvars, procvars, tickvars
  <1> QED
    BY Zenon, <1>1, <1>4, <1>5, <1>6, <1>7, <1>8, OwnStep

LEMMA SysSleepEnterInv ==
  ASSUME IInv, NEW c \in CPUs, NEW p \in Procs, SysSleepEnter(c, p)
  PROVE  IInv'
  <1>1. /\ TypeOK /\ ~panicked /\ CpuOK(c) /\ ThreadOK(p) /\ WakeOK(p) /\ OnCPU(p)
        /\ on[c] = p /\ hpc[c] = "none" /\ trap[p] = "none" /\ pc[p] = "kernel"
    BY Zenon DEF IInv, SysSleepEnter, InProc, OnCPU
  <1>2. /\ spos[c] = p /\ spc[c] = "unlock" /\ lock[TicksLock] # c /\ lock[p] # c
        /\ (\A q \in Procs : lock[q] = c => q = p) /\ noff[c] = 0 /\ sie[c]
    BY <1>1, InThread DEF ThreadHolds, ThreadOK, TicksPC, SlotPC, BarePC, SlotTrap
  <1>3. /\ trap'[p] = "none" /\ pc'[p] = "test" /\ lock'[TicksLock] = c
        /\ lock'[p] # c /\ (\A q \in Procs : lock'[q] = c => q = p) /\ noff'[c] = 1
        /\ ~sie'[c] /\ intena'[c]
    BY <1>1, <1>2, Constants
       DEF SysSleepEnter, acquire, push_off, Goto, TypeOK, Locks, cpuvars, schedvars, intrvars,
           procvars, tickvars
  <1>4. TypeOK' /\ ~panicked'
    <2>1. TypeOK'
      BY <1>1, <1>2
         DEF SysSleepEnter, acquire, push_off, Goto, TypeOK, TicksPC, SlotPC, BarePC, SlotTrap,
             Locks, cpuvars, schedvars, intrvars, procvars, tickvars
    <2>2. ~panicked'
      BY Zenon, <1>1, <1>2 DEF SysSleepEnter, acquire, push_off, Goto
    <2> QED
      BY Zenon, <2>1, <2>2
  <1>5. Own(c, p)
    BY Zenon, <1>1, <1>2
       DEF SysSleepEnter, acquire, push_off, Goto, Own, TypeOK, cpuvars, schedvars, intrvars,
           procvars, tickvars
  <1>6. CpuOK(c)'
    <2>1. Runs(c, p)'
      BY Zenon, <1>1, <1>2, <1>3, <1>5 DEF Runs, Own, schedvars, intrvars
    <2>2. (HoldsTicks(c)' <=> TRUE) /\ (HoldsSlot(c)' <=> FALSE)
      BY Zenon, <1>1, <1>3, <2>1, Constants
         DEF HoldsTicks, HoldsSlot, ThreadHolds, Runs, TicksPC, SlotPC, BarePC, SlotTrap
    <2>3. LocksHeld(c)' /\ Nesting(c)'
      BY Zenon, <1>3, <2>1, <2>2, Constants DEF LocksHeld, Nesting, Runs
    <2>4. Interrupts(c)'
      BY Zenon, <1>1, <1>3, <2>1 DEF Interrupts, Runs, TicksPC, SlotPC, BarePC, SlotTrap
    <2> QED
      BY Zenon, <2>3, <2>4 DEF CpuOK
  <1>7. ThreadOK(p)'
    <2>1. OnCPU(p)'
      BY Zenon, <1>1, <1>5 DEF OnCPU, Own, schedvars
    <2> QED
      BY Zenon, <1>1, <1>3, <2>1 DEF SysSleepEnter, ThreadOK, TypeOK, BarePC, procvars
  <1>8. WakeOK(p)'
    BY Zenon, <1>1, <1>3, <1>5
       DEF SysSleepEnter, ThreadOK, WakeOK, Due, Own, Coming, TypeOK, TicksPC, SlotPC, BarePC,
           SlotTrap, cpuvars, schedvars, intrvars, procvars, tickvars
  <1> QED
    BY Zenon, <1>1, <1>4, <1>5, <1>6, <1>7, <1>8, OwnStep

LEMMA SysSleepTestInv ==
  ASSUME IInv, NEW c \in CPUs, NEW p \in Procs, SysSleepTest(c, p)
  PROVE  IInv'
  <1>1. /\ TypeOK /\ ~panicked /\ CpuOK(c) /\ ThreadOK(p) /\ WakeOK(p) /\ OnCPU(p)
        /\ on[c] = p /\ hpc[c] = "none" /\ trap[p] = "none" /\ pc[p] = "test"
    BY Zenon DEF IInv, SysSleepTest, InProc, OnCPU
  <1>2. /\ spos[c] = p /\ spc[c] = "unlock" /\ lock[TicksLock] = c /\ lock[p] # c
        /\ (\A q \in Procs : lock[q] = c => q = p) /\ noff[c] = 1 /\ ~sie[c]
        /\ intena[c]
    BY <1>1, InThread DEF ThreadHolds, ThreadOK, TicksPC, SlotPC, BarePC, SlotTrap
  <1>3. /\ trap'[p] = "none" /\ pc'[p] \in {"sleep", "unlock"}
        /\ lock'[TicksLock] = c /\ lock'[p] # c
        /\ (\A q \in Procs : lock'[q] = c => q = p) /\ noff'[c] = 1 /\ ~sie'[c]
        /\ intena'[c]
    BY Zenon, <1>1, <1>2, Constants
       DEF SysSleepTest, Goto, TypeOK, Locks, cpuvars, schedvars, intrvars, procvars, tickvars
  <1>4. TypeOK' /\ ~panicked'
    <2>1. TypeOK'
      BY Zenon, <1>1, <1>2
         DEF SysSleepTest, Goto, TypeOK, TicksPC, SlotPC, BarePC, SlotTrap, Locks, cpuvars,
             schedvars, intrvars, procvars, tickvars
    <2>2. ~panicked'
      BY Zenon, <1>1, <1>2 DEF SysSleepTest, Goto
    <2> QED
      BY Zenon, <2>1, <2>2
  <1>5. Own(c, p)
    BY Zenon, <1>1, <1>2
       DEF SysSleepTest, Goto, Own, TypeOK, cpuvars, schedvars, intrvars, procvars, tickvars
  <1>6. CpuOK(c)'
    <2>1. Runs(c, p)'
      BY Zenon, <1>1, <1>2, <1>3, <1>5 DEF Runs, Own, schedvars, intrvars
    <2>2. (HoldsTicks(c)' <=> TRUE) /\ (HoldsSlot(c)' <=> FALSE)
      BY Zenon, <1>1, <1>3, <2>1, Constants
         DEF HoldsTicks, HoldsSlot, ThreadHolds, Runs, TicksPC, SlotPC, BarePC, SlotTrap
    <2>3. LocksHeld(c)' /\ Nesting(c)'
      BY Zenon, <1>3, <2>1, <2>2, Constants DEF LocksHeld, Nesting, Runs
    <2>4. Interrupts(c)'
      BY Zenon, <1>1, <1>3, <2>1 DEF Interrupts, Runs, TicksPC, SlotPC, BarePC, SlotTrap
    <2> QED
      BY Zenon, <2>3, <2>4 DEF CpuOK
  <1>7. ThreadOK(p)'
    <2>1. OnCPU(p)'
      BY Zenon, <1>1, <1>5 DEF OnCPU, Own, schedvars
    <2> QED
      BY Zenon, <1>1, <1>3, <2>1 DEF SysSleepTest, ThreadOK, TypeOK, BarePC, procvars
  <1>8. WakeOK(p)'
    <2>1. pc'[p] = "sleep" => ~Due(p)
      <3>1. (ticks - ticks0[p]) % TicksMod \in Int
        BY <1>1, SchedAssumption DEF TypeOK
      <3>2. pc'[p] = "sleep" => (ticks - ticks0[p]) % TicksMod < 1
        BY Zenon, <1>1 DEF SysSleepTest, Goto, TypeOK
      <3> QED
        BY <3>1, <3>2 DEF Due
    <2>2. Due(p)' <=> Due(p)
      BY Zenon DEF Due, SysSleepTest, tickvars
    <2> QED
      BY Zenon, <1>1, <1>3, <2>1, <2>2 DEF SysSleepTest, ThreadOK, WakeOK
  <1> QED
    BY Zenon, <1>1, <1>4, <1>5, <1>6, <1>7, <1>8, OwnStep

LEMMA SysSleepReturnInv ==
  ASSUME IInv, NEW c \in CPUs, NEW p \in Procs, SysSleepReturn(c, p)
  PROVE  IInv'
  <1>1. /\ TypeOK /\ ~panicked /\ CpuOK(c) /\ ThreadOK(p) /\ WakeOK(p) /\ OnCPU(p)
        /\ on[c] = p /\ hpc[c] = "none" /\ trap[p] = "none" /\ pc[p] = "unlock"
    BY Zenon DEF IInv, SysSleepReturn, InProc, OnCPU
  <1>2. /\ spos[c] = p /\ spc[c] = "unlock" /\ lock[TicksLock] = c /\ lock[p] # c
        /\ (\A q \in Procs : lock[q] = c => q = p) /\ noff[c] = 1 /\ ~sie[c]
        /\ intena[c]
    BY <1>1, InThread DEF ThreadHolds, ThreadOK, TicksPC, SlotPC, BarePC, SlotTrap
  <1>3. /\ trap'[p] = "none" /\ pc'[p] = "kernel" /\ lock'[TicksLock] # c
        /\ lock'[p] # c /\ (\A q \in Procs : lock'[q] = c => q = p) /\ noff'[c] = 0
        /\ sie'[c]
    BY <1>1, <1>2, Constants
       DEF SysSleepReturn, release, pop_off, Goto, TypeOK, Locks, cpuvars, schedvars, intrvars,
           procvars, tickvars
  <1>4. TypeOK' /\ ~panicked'
    <2>1. TypeOK'
      BY <1>1, <1>2
         DEF SysSleepReturn, release, pop_off, Goto, TypeOK, TicksPC, SlotPC, BarePC, SlotTrap,
             Locks, cpuvars, schedvars, intrvars, procvars, tickvars
    <2>2. ~panicked'
      <3>1. ~(lock[TicksLock] # c \/ sie[c] \/ noff[c] < 1)
        BY <1>2
      <3> QED
        BY Zenon, <1>1, <3>1 DEF SysSleepReturn, release, pop_off, Goto
    <2> QED
      BY Zenon, <2>1, <2>2
  <1>5. Own(c, p)
    BY Zenon, <1>1, <1>2
       DEF SysSleepReturn, release, pop_off, Goto, Own, TypeOK, cpuvars, schedvars, intrvars,
           procvars, tickvars
  <1>6. CpuOK(c)'
    <2>1. Runs(c, p)'
      BY Zenon, <1>1, <1>2, <1>3, <1>5 DEF Runs, Own, schedvars, intrvars
    <2>2. (HoldsTicks(c)' <=> FALSE) /\ (HoldsSlot(c)' <=> FALSE)
      BY Zenon, <1>1, <1>3, <2>1, Constants
         DEF HoldsTicks, HoldsSlot, ThreadHolds, Runs, TicksPC, SlotPC, BarePC, SlotTrap
    <2>3. LocksHeld(c)' /\ Nesting(c)'
      BY Zenon, <1>3, <2>1, <2>2, Constants DEF LocksHeld, Nesting, Runs
    <2>4. Interrupts(c)'
      BY Zenon, <1>1, <1>3, <2>1 DEF Interrupts, Runs, TicksPC, SlotPC, BarePC, SlotTrap
    <2> QED
      BY Zenon, <2>3, <2>4 DEF CpuOK
  <1>7. ThreadOK(p)'
    <2>1. OnCPU(p)'
      BY Zenon, <1>1, <1>5 DEF OnCPU, Own, schedvars
    <2> QED
      BY Zenon, <1>1, <1>3, <2>1 DEF SysSleepReturn, ThreadOK, TypeOK, BarePC, procvars
  <1>8. WakeOK(p)'
    BY Zenon, <1>1, <1>3, <1>5
       DEF SysSleepReturn, ThreadOK, WakeOK, Due, Own, Coming, TypeOK, TicksPC, SlotPC, BarePC,
           SlotTrap, cpuvars, schedvars, intrvars, procvars, tickvars
  <1> QED
    BY Zenon, <1>1, <1>4, <1>5, <1>6, <1>7, <1>8, OwnStep

LEMMA SleepLockInv ==
  ASSUME IInv, NEW c \in CPUs, NEW p \in Procs, SleepLock(c, p)
  PROVE  IInv'
  <1>1. /\ TypeOK /\ ~panicked /\ CpuOK(c) /\ ThreadOK(p) /\ WakeOK(p) /\ OnCPU(p)
        /\ on[c] = p /\ hpc[c] = "none" /\ trap[p] = "none" /\ pc[p] = "sleep"
    BY Zenon DEF IInv, SleepLock, InProc, OnCPU
  <1>2. /\ spos[c] = p /\ spc[c] = "unlock" /\ lock[TicksLock] = c /\ lock[p] # c
        /\ (\A q \in Procs : lock[q] = c => q = p) /\ noff[c] = 1 /\ ~sie[c]
        /\ intena[c]
    BY <1>1, InThread DEF ThreadHolds, ThreadOK, TicksPC, SlotPC, BarePC, SlotTrap
  <1>3. /\ trap'[p] = "none" /\ pc'[p] = "locked" /\ lock'[TicksLock] = c
        /\ lock'[p] = c /\ (\A q \in Procs : lock'[q] = c => q = p) /\ noff'[c] = 2
        /\ ~sie'[c] /\ intena'[c]
    BY <1>1, <1>2, Constants
       DEF SleepLock, acquire, push_off, Goto, TypeOK, Locks, cpuvars, schedvars, intrvars,
           procvars, tickvars
  <1>4. TypeOK' /\ ~panicked'
    <2>1. TypeOK'
      BY <1>1, <1>2
         DEF SleepLock, acquire, push_off, Goto, TypeOK, TicksPC, SlotPC, BarePC, SlotTrap, Locks,
             cpuvars, schedvars, intrvars, procvars, tickvars
    <2>2. ~panicked'
      BY Zenon, <1>1, <1>2 DEF SleepLock, acquire, push_off, Goto
    <2> QED
      BY Zenon, <2>1, <2>2
  <1>5. Own(c, p)
    BY ZenonT(60), <1>1, <1>2
       DEF SleepLock, acquire, push_off, Goto, Own, TypeOK, cpuvars, schedvars, intrvars, procvars,
           tickvars
  <1>6. CpuOK(c)'
    <2>1. Runs(c, p)'
      BY Zenon, <1>1, <1>2, <1>3, <1>5 DEF Runs, Own, schedvars, intrvars
    <2>2. (HoldsTicks(c)' <=> TRUE) /\ (HoldsSlot(c)' <=> TRUE)
      BY Zenon, <1>1, <1>3, <2>1, Constants
         DEF HoldsTicks, HoldsSlot, ThreadHolds, Runs, TicksPC, SlotPC, BarePC, SlotTrap
    <2>3. LocksHeld(c)' /\ Nesting(c)'
      BY Zenon, <1>3, <2>1, <2>2, Constants DEF LocksHeld, Nesting, Runs
    <2>4. Interrupts(c)'
      BY Zenon, <1>1, <1>3, <2>1 DEF Interrupts, Runs, TicksPC, SlotPC, BarePC, SlotTrap
    <2> QED
      BY Zenon, <2>3, <2>4 DEF CpuOK
  <1>7. ThreadOK(p)'
    <2>1. OnCPU(p)'
      BY Zenon, <1>1, <1>5 DEF OnCPU, Own, schedvars
    <2> QED
      BY Zenon, <1>1, <1>3, <2>1 DEF SleepLock, ThreadOK, TypeOK, BarePC, procvars
  <1>8. WakeOK(p)'
    BY Zenon, <1>1, <1>3, <1>5
       DEF SleepLock, ThreadOK, WakeOK, Due, Own, Coming, TypeOK, TicksPC, SlotPC, BarePC,
           SlotTrap, cpuvars, schedvars, intrvars, procvars, tickvars
  <1> QED
    BY Zenon, <1>1, <1>4, <1>5, <1>6, <1>7, <1>8, OwnStep

LEMMA SleepUnlockInv ==
  ASSUME IInv, NEW c \in CPUs, NEW p \in Procs, SleepUnlock(c, p)
  PROVE  IInv'
  <1>1. /\ TypeOK /\ ~panicked /\ CpuOK(c) /\ ThreadOK(p) /\ WakeOK(p) /\ OnCPU(p)
        /\ on[c] = p /\ hpc[c] = "none" /\ trap[p] = "none" /\ pc[p] = "locked"
    BY Zenon DEF IInv, SleepUnlock, InProc, OnCPU
  <1>2. /\ spos[c] = p /\ spc[c] = "unlock" /\ lock[TicksLock] = c /\ lock[p] = c
        /\ (\A q \in Procs : lock[q] = c => q = p) /\ noff[c] = 2 /\ ~sie[c]
        /\ intena[c]
    BY <1>1, InThread DEF ThreadHolds, ThreadOK, TicksPC, SlotPC, BarePC, SlotTrap
  <1>3. /\ trap'[p] = "none" /\ pc'[p] = "asleep" /\ lock'[TicksLock] # c
        /\ lock'[p] = c /\ (\A q \in Procs : lock'[q] = c => q = p) /\ noff'[c] = 1
        /\ ~sie'[c] /\ intena'[c]
    BY <1>1, <1>2, Constants
       DEF SleepUnlock, release, pop_off, Goto, TypeOK, Locks, cpuvars, schedvars, intrvars,
           procvars, tickvars
  <1>4. TypeOK' /\ ~panicked'
    <2>1. TypeOK'
      BY <1>1, <1>2
         DEF SleepUnlock, release, pop_off, Goto, TypeOK, TicksPC, SlotPC, BarePC, SlotTrap, Locks,
             cpuvars, schedvars, intrvars, procvars, tickvars
    <2>2. ~panicked'
      <3>1. ~(lock[TicksLock] # c \/ sie[c] \/ noff[c] < 1)
        BY <1>2
      <3> QED
        BY Zenon, <1>1, <3>1 DEF SleepUnlock, release, pop_off, Goto
    <2> QED
      BY Zenon, <2>1, <2>2
  <1>5. Own(c, p)
    BY ZenonT(60), <1>1, <1>2
       DEF SleepUnlock, release, pop_off, Goto, Own, TypeOK, cpuvars, schedvars, intrvars,
           procvars, tickvars
  <1>6. CpuOK(c)'
    <2>1. Runs(c, p)'
      BY Zenon, <1>1, <1>2, <1>3, <1>5 DEF Runs, Own, schedvars, intrvars
    <2>2. (HoldsTicks(c)' <=> FALSE) /\ (HoldsSlot(c)' <=> TRUE)
      BY Zenon, <1>1, <1>3, <2>1, Constants
         DEF HoldsTicks, HoldsSlot, ThreadHolds, Runs, TicksPC, SlotPC, BarePC, SlotTrap
    <2>3. LocksHeld(c)' /\ Nesting(c)'
      BY Zenon, <1>3, <2>1, <2>2, Constants DEF LocksHeld, Nesting, Runs
    <2>4. Interrupts(c)'
      BY Zenon, <1>1, <1>3, <2>1 DEF Interrupts, Runs, TicksPC, SlotPC, BarePC, SlotTrap
    <2> QED
      BY Zenon, <2>3, <2>4 DEF CpuOK
  <1>7. ThreadOK(p)'
    <2>1. OnCPU(p)'
      BY Zenon, <1>1, <1>5 DEF OnCPU, Own, schedvars
    <2> QED
      BY Zenon, <1>1, <1>3, <2>1 DEF SleepUnlock, ThreadOK, TypeOK, BarePC, procvars
  <1>8. WakeOK(p)'
    BY Zenon, <1>1, <1>3, <1>5
       DEF SleepUnlock, ThreadOK, WakeOK, Due, Own, Coming, TypeOK, TicksPC, SlotPC, BarePC,
           SlotTrap, cpuvars, schedvars, intrvars, procvars, tickvars
  <1> QED
    BY Zenon, <1>1, <1>4, <1>5, <1>6, <1>7, <1>8, OwnStep

LEMMA SleepWokenInv ==
  ASSUME IInv, NEW c \in CPUs, NEW p \in Procs, SleepWoken(c, p)
  PROVE  IInv'
  <1>1. /\ TypeOK /\ ~panicked /\ CpuOK(c) /\ ThreadOK(p) /\ WakeOK(p) /\ OnCPU(p)
        /\ on[c] = p /\ hpc[c] = "none" /\ trap[p] = "none" /\ pc[p] = "woken"
    BY Zenon DEF IInv, SleepWoken, InProc, OnCPU
  <1>2. /\ spos[c] = p /\ spc[c] = "unlock" /\ lock[TicksLock] # c /\ lock[p] = c
        /\ (\A q \in Procs : lock[q] = c => q = p) /\ noff[c] = 1 /\ ~sie[c]
        /\ saved[p]
    BY <1>1, InThread DEF ThreadHolds, ThreadOK, TicksPC, SlotPC, BarePC, SlotTrap
  <1>3. /\ trap'[p] = "none" /\ pc'[p] = "relock" /\ lock'[TicksLock] # c
        /\ lock'[p] # c /\ (\A q \in Procs : lock'[q] = c => q = p) /\ noff'[c] = 0
        /\ sie'[c]
    BY <1>1, <1>2, Constants
       DEF SleepWoken, SchedReturn, pop_off, Goto, TypeOK, Locks, cpuvars, schedvars, intrvars,
           procvars, tickvars
  <1>4. TypeOK' /\ ~panicked'
    <2>1. TypeOK'
      BY <1>1, <1>2
         DEF SleepWoken, SchedReturn, pop_off, Goto, TypeOK, TicksPC, SlotPC, BarePC, SlotTrap,
             Locks, cpuvars, schedvars, intrvars, procvars, tickvars
    <2>2. ~panicked'
      <3>1. ~(lock[p] # c \/ sie[c] \/ noff[c] < 1)
        BY SMT, <1>2
      <3> QED
        BY Zenon, <1>1, <3>1 DEF SleepWoken, SchedReturn, pop_off, Goto
    <2> QED
      BY Zenon, <2>1, <2>2
  <1>5. Own(c, p)
    BY ZenonT(60), <1>1, <1>2
       DEF SleepWoken, SchedReturn, pop_off, Goto, Own, TypeOK, cpuvars, schedvars, intrvars,
           procvars, tickvars
  <1>6. CpuOK(c)'
    <2>1. Runs(c, p)'
      BY Zenon, <1>1, <1>2, <1>3, <1>5 DEF Runs, Own, schedvars, intrvars
    <2>2. (HoldsTicks(c)' <=> FALSE) /\ (HoldsSlot(c)' <=> FALSE)
      BY Zenon, <1>1, <1>3, <2>1, Constants
         DEF HoldsTicks, HoldsSlot, ThreadHolds, Runs, TicksPC, SlotPC, BarePC, SlotTrap
    <2>3. LocksHeld(c)' /\ Nesting(c)'
      BY Zenon, <1>3, <2>1, <2>2, Constants DEF LocksHeld, Nesting, Runs
    <2>4. Interrupts(c)'
      BY Zenon, <1>1, <1>3, <2>1 DEF Interrupts, Runs, TicksPC, SlotPC, BarePC, SlotTrap
    <2> QED
      BY Zenon, <2>3, <2>4 DEF CpuOK
  <1>7. ThreadOK(p)'
    <2>1. OnCPU(p)'
      BY Zenon, <1>1, <1>5 DEF OnCPU, Own, schedvars
    <2> QED
      BY Zenon, <1>1, <1>3, <2>1 DEF SleepWoken, ThreadOK, TypeOK, BarePC, procvars
  <1>8. WakeOK(p)'
    BY Zenon, <1>1, <1>3, <1>5
       DEF SleepWoken, ThreadOK, WakeOK, Due, Own, Coming, TypeOK, TicksPC, SlotPC, BarePC,
           SlotTrap, cpuvars, schedvars, intrvars, procvars, tickvars
  <1> QED
    BY Zenon, <1>1, <1>4, <1>5, <1>6, <1>7, <1>8, OwnStep

LEMMA SleepRelockInv ==
  ASSUME IInv, NEW c \in CPUs, NEW p \in Procs, SleepRelock(c, p)
  PROVE  IInv'
  <1>1. /\ TypeOK /\ ~panicked /\ CpuOK(c) /\ ThreadOK(p) /\ WakeOK(p) /\ OnCPU(p)
        /\ on[c] = p /\ hpc[c] = "none" /\ trap[p] = "none" /\ pc[p] = "relock"
    BY Zenon DEF IInv, SleepRelock, InProc, OnCPU
  <1>2. /\ spos[c] = p /\ spc[c] = "unlock" /\ lock[TicksLock] # c /\ lock[p] # c
        /\ (\A q \in Procs : lock[q] = c => q = p) /\ noff[c] = 0 /\ sie[c]
    BY <1>1, InThread DEF ThreadHolds, ThreadOK, TicksPC, SlotPC, BarePC, SlotTrap
  <1>3. /\ trap'[p] = "none" /\ pc'[p] = "test" /\ lock'[TicksLock] = c
        /\ lock'[p] # c /\ (\A q \in Procs : lock'[q] = c => q = p) /\ noff'[c] = 1
        /\ ~sie'[c] /\ intena'[c]
    BY <1>1, <1>2, Constants
       DEF SleepRelock, acquire, push_off, Goto, TypeOK, Locks, cpuvars, schedvars, intrvars,
           procvars, tickvars
  <1>4. TypeOK' /\ ~panicked'
    <2>1. TypeOK'
      BY <1>1, <1>2
         DEF SleepRelock, acquire, push_off, Goto, TypeOK, TicksPC, SlotPC, BarePC, SlotTrap,
             Locks, cpuvars, schedvars, intrvars, procvars, tickvars
    <2>2. ~panicked'
      BY Zenon, <1>1, <1>2 DEF SleepRelock, acquire, push_off, Goto
    <2> QED
      BY Zenon, <2>1, <2>2
  <1>5. Own(c, p)
    BY Zenon, <1>1, <1>2
       DEF SleepRelock, acquire, push_off, Goto, Own, TypeOK, cpuvars, schedvars, intrvars,
           procvars, tickvars
  <1>6. CpuOK(c)'
    <2>1. Runs(c, p)'
      BY Zenon, <1>1, <1>2, <1>3, <1>5 DEF Runs, Own, schedvars, intrvars
    <2>2. (HoldsTicks(c)' <=> TRUE) /\ (HoldsSlot(c)' <=> FALSE)
      BY Zenon, <1>1, <1>3, <2>1, Constants
         DEF HoldsTicks, HoldsSlot, ThreadHolds, Runs, TicksPC, SlotPC, BarePC, SlotTrap
    <2>3. LocksHeld(c)' /\ Nesting(c)'
      BY Zenon, <1>3, <2>1, <2>2, Constants DEF LocksHeld, Nesting, Runs
    <2>4. Interrupts(c)'
      BY Zenon, <1>1, <1>3, <2>1 DEF Interrupts, Runs, TicksPC, SlotPC, BarePC, SlotTrap
    <2> QED
      BY Zenon, <2>3, <2>4 DEF CpuOK
  <1>7. ThreadOK(p)'
    <2>1. OnCPU(p)'
      BY Zenon, <1>1, <1>5 DEF OnCPU, Own, schedvars
    <2> QED
      BY Zenon, <1>1, <1>3, <2>1 DEF SleepRelock, ThreadOK, TypeOK, BarePC, procvars
  <1>8. WakeOK(p)'
    BY Zenon, <1>1, <1>3, <1>5
       DEF SleepRelock, ThreadOK, WakeOK, Due, Own, Coming, TypeOK, TicksPC, SlotPC, BarePC,
           SlotTrap, cpuvars, schedvars, intrvars, procvars, tickvars
  <1> QED
    BY Zenon, <1>1, <1>4, <1>5, <1>6, <1>7, <1>8, OwnStep

LEMMA YieldLockInv ==
  ASSUME IInv, NEW c \in CPUs, NEW p \in Procs, YieldLock(c, p)
  PROVE  IInv'
  <1>1. /\ TypeOK /\ ~panicked /\ CpuOK(c) /\ ThreadOK(p) /\ WakeOK(p) /\ OnCPU(p)
        /\ on[c] = p /\ hpc[c] = "none" /\ trap[p] = "yield" /\ pc[p] \in BarePC
    BY Zenon DEF IInv, YieldLock, InTrap, ThreadOK, OnCPU
  <1>2. /\ spos[c] = p /\ spc[c] = "unlock" /\ lock[TicksLock] # c /\ lock[p] # c
        /\ (\A q \in Procs : lock[q] = c => q = p) /\ noff[c] = 0 /\ ~sie[c]
    BY ZenonT(60), <1>1, InThread DEF ThreadHolds, ThreadOK, TicksPC, SlotPC, BarePC, SlotTrap
  <1>3. /\ trap'[p] = "switch" /\ pc'[p] = pc[p] /\ lock'[TicksLock] # c
        /\ lock'[p] = c /\ (\A q \in Procs : lock'[q] = c => q = p) /\ noff'[c] = 1
        /\ ~sie'[c] /\ ~intena'[c]
    BY <1>1, <1>2, Constants
       DEF YieldLock, acquire, push_off, TypeOK, Locks, cpuvars, schedvars, intrvars, procvars,
           tickvars
  <1>4. TypeOK' /\ ~panicked'
    <2>1. TypeOK'
      BY <1>1, <1>2
         DEF YieldLock, acquire, push_off, TypeOK, TicksPC, SlotPC, BarePC, SlotTrap, Locks,
             cpuvars, schedvars, intrvars, procvars, tickvars
    <2>2. ~panicked'
      BY Zenon, <1>1, <1>2 DEF YieldLock, acquire, push_off
    <2> QED
      BY Zenon, <2>1, <2>2
  <1>5. Own(c, p)
    BY Zenon, <1>1, <1>2
       DEF YieldLock, acquire, push_off, Own, TypeOK, cpuvars, schedvars, intrvars, procvars,
           tickvars
  <1>6. CpuOK(c)'
    <2>1. Runs(c, p)'
      BY Zenon, <1>1, <1>2, <1>3, <1>5 DEF Runs, Own, schedvars, intrvars
    <2>2. (HoldsTicks(c)' <=> FALSE) /\ (HoldsSlot(c)' <=> TRUE)
      BY Zenon, <1>1, <1>3, <2>1, Constants
         DEF HoldsTicks, HoldsSlot, ThreadHolds, Runs, TicksPC, SlotPC, BarePC, SlotTrap
    <2>3. LocksHeld(c)' /\ Nesting(c)'
      BY Zenon, <1>3, <2>1, <2>2, Constants DEF LocksHeld, Nesting, Runs
    <2>4. Interrupts(c)'
      BY Zenon, <1>1, <1>3, <2>1 DEF Interrupts, Runs, TicksPC, SlotPC, BarePC, SlotTrap
    <2> QED
      BY Zenon, <2>3, <2>4 DEF CpuOK
  <1>7. ThreadOK(p)'
    <2>1. OnCPU(p)'
      BY Zenon, <1>1, <1>5 DEF OnCPU, Own, schedvars
    <2> QED
      BY Zenon, <1>1, <1>3, <2>1 DEF YieldLock, ThreadOK, TypeOK, BarePC, procvars
  <1>8. WakeOK(p)'
    BY Zenon, <1>1, <1>3, <1>5
       DEF YieldLock, ThreadOK, WakeOK, Due, Own, Coming, TypeOK, TicksPC, SlotPC, BarePC,
           SlotTrap, cpuvars, schedvars, intrvars, procvars, tickvars
  <1> QED
    BY Zenon, <1>1, <1>4, <1>5, <1>6, <1>7, <1>8, OwnStep

LEMMA YieldUnlockInv ==
  ASSUME IInv, NEW c \in CPUs, NEW p \in Procs, YieldUnlock(c, p)
  PROVE  IInv'
  <1>1. /\ TypeOK /\ ~panicked /\ CpuOK(c) /\ ThreadOK(p) /\ WakeOK(p) /\ OnCPU(p)
        /\ on[c] = p /\ hpc[c] = "none" /\ trap[p] = "resumed" /\ pc[p] \in BarePC
    BY Zenon DEF IInv, YieldUnlock, InTrap, ThreadOK, OnCPU
  <1>2. /\ spos[c] = p /\ spc[c] = "unlock" /\ lock[TicksLock] # c /\ lock[p] = c
        /\ (\A q \in Procs : lock[q] = c => q = p) /\ noff[c] = 1 /\ ~sie[c]
        /\ ~saved[p]
    BY <1>1, InThread DEF ThreadHolds, ThreadOK, TicksPC, SlotPC, BarePC, SlotTrap
  <1>3. /\ trap'[p] = "sret" /\ pc'[p] = pc[p] /\ lock'[TicksLock] # c
        /\ lock'[p] # c /\ (\A q \in Procs : lock'[q] = c => q = p) /\ noff'[c] = 0
        /\ ~sie'[c]
    BY <1>1, <1>2, Constants
       DEF YieldUnlock, SchedReturn, pop_off, TypeOK, Locks, cpuvars, schedvars, intrvars,
           procvars, tickvars
  <1>4. TypeOK' /\ ~panicked'
    <2>1. TypeOK'
      BY <1>1, <1>2
         DEF YieldUnlock, SchedReturn, pop_off, TypeOK, TicksPC, SlotPC, BarePC, SlotTrap, Locks,
             cpuvars, schedvars, intrvars, procvars, tickvars
    <2>2. ~panicked'
      <3>1. ~(lock[p] # c \/ sie[c] \/ noff[c] < 1)
        BY SMT, <1>2
      <3> QED
        BY Zenon, <1>1, <3>1 DEF YieldUnlock, SchedReturn, pop_off
    <2> QED
      BY Zenon, <2>1, <2>2
  <1>5. Own(c, p)
    BY Zenon, <1>1, <1>2
       DEF YieldUnlock, SchedReturn, pop_off, Own, TypeOK, cpuvars, schedvars, intrvars, procvars,
           tickvars
  <1>6. CpuOK(c)'
    <2>1. Runs(c, p)'
      BY Zenon, <1>1, <1>2, <1>3, <1>5 DEF Runs, Own, schedvars, intrvars
    <2>2. (HoldsTicks(c)' <=> FALSE) /\ (HoldsSlot(c)' <=> FALSE)
      BY Zenon, <1>1, <1>3, <2>1, Constants
         DEF HoldsTicks, HoldsSlot, ThreadHolds, Runs, TicksPC, SlotPC, BarePC, SlotTrap
    <2>3. LocksHeld(c)' /\ Nesting(c)'
      BY Zenon, <1>3, <2>1, <2>2, Constants DEF LocksHeld, Nesting, Runs
    <2>4. Interrupts(c)'
      BY Zenon, <1>1, <1>3, <2>1 DEF Interrupts, Runs, TicksPC, SlotPC, BarePC, SlotTrap
    <2> QED
      BY Zenon, <2>3, <2>4 DEF CpuOK
  <1>7. ThreadOK(p)'
    <2>1. OnCPU(p)'
      BY Zenon, <1>1, <1>5 DEF OnCPU, Own, schedvars
    <2> QED
      BY Zenon, <1>1, <1>3, <2>1 DEF YieldUnlock, ThreadOK, TypeOK, BarePC, procvars
  <1>8. WakeOK(p)'
    BY Zenon, <1>1, <1>3, <1>5
       DEF YieldUnlock, ThreadOK, WakeOK, Due, Own, Coming, TypeOK, TicksPC, SlotPC, BarePC,
           SlotTrap, cpuvars, schedvars, intrvars, procvars, tickvars
  <1> QED
    BY Zenon, <1>1, <1>4, <1>5, <1>6, <1>7, <1>8, OwnStep

LEMMA TrapReturnInv ==
  ASSUME IInv, NEW c \in CPUs, NEW p \in Procs, TrapReturn(c, p)
  PROVE  IInv'
  <1>1. /\ TypeOK /\ ~panicked /\ CpuOK(c) /\ ThreadOK(p) /\ WakeOK(p) /\ OnCPU(p)
        /\ on[c] = p /\ hpc[c] = "none" /\ trap[p] = "sret" /\ pc[p] \in BarePC
    BY ZenonT(60) DEF IInv, TrapReturn, InTrap, ThreadOK, OnCPU
  <1>2. /\ spos[c] = p /\ spc[c] = "unlock" /\ lock[TicksLock] # c /\ lock[p] # c
        /\ (\A q \in Procs : lock[q] = c => q = p) /\ noff[c] = 0 /\ ~sie[c]
    BY ZenonT(60), <1>1, InThread DEF ThreadHolds, ThreadOK, TicksPC, SlotPC, BarePC, SlotTrap
  <1>3. /\ trap'[p] = "none" /\ pc'[p] = pc[p] /\ lock'[TicksLock] # c
        /\ lock'[p] # c /\ (\A q \in Procs : lock'[q] = c => q = p) /\ noff'[c] = 0
        /\ sie'[c]
    BY Zenon, <1>1, <1>2, Constants
       DEF TrapReturn, TypeOK, Locks, cpuvars, schedvars, intrvars, procvars, tickvars
  <1>4. TypeOK' /\ ~panicked'
    <2>1. TypeOK'
      BY Zenon, <1>1, <1>2
         DEF TrapReturn, TypeOK, TicksPC, SlotPC, BarePC, SlotTrap, Locks, cpuvars, schedvars,
             intrvars, procvars, tickvars
    <2>2. ~panicked'
      BY Zenon, <1>1, <1>2 DEF TrapReturn
    <2> QED
      BY Zenon, <2>1, <2>2
  <1>5. Own(c, p)
    BY Zenon, <1>1, <1>2
       DEF TrapReturn, Own, TypeOK, cpuvars, schedvars, intrvars, procvars, tickvars
  <1>6. CpuOK(c)'
    <2>1. Runs(c, p)'
      BY Zenon, <1>1, <1>2, <1>3, <1>5 DEF Runs, Own, schedvars, intrvars
    <2>2. (HoldsTicks(c)' <=> FALSE) /\ (HoldsSlot(c)' <=> FALSE)
      BY Zenon, <1>1, <1>3, <2>1, Constants
         DEF HoldsTicks, HoldsSlot, ThreadHolds, Runs, TicksPC, SlotPC, BarePC, SlotTrap
    <2>3. LocksHeld(c)' /\ Nesting(c)'
      BY Zenon, <1>3, <2>1, <2>2, Constants DEF LocksHeld, Nesting, Runs
    <2>4. Interrupts(c)'
      BY Zenon, <1>1, <1>3, <2>1 DEF Interrupts, Runs, TicksPC, SlotPC, BarePC, SlotTrap
    <2> QED
      BY Zenon, <2>3, <2>4 DEF CpuOK
  <1>7. ThreadOK(p)'
    <2>1. OnCPU(p)'
      BY Zenon, <1>1, <1>5 DEF OnCPU, Own, schedvars
    <2> QED
      BY Zenon, <1>1, <1>3, <2>1 DEF TrapReturn, ThreadOK, TypeOK, BarePC, procvars
  <1>8. WakeOK(p)'
    BY Zenon, <1>1, <1>3, <1>5
       DEF TrapReturn, ThreadOK, WakeOK, Due, Own, Coming, TypeOK, TicksPC, SlotPC, BarePC,
           SlotTrap, cpuvars, schedvars, intrvars, procvars, tickvars
  <1> QED
    BY Zenon, <1>1, <1>4, <1>5, <1>6, <1>7, <1>8, OwnStep

-----------------------------------------------------------------------------
\* A step of CPU c in the scheduler or in a handler that touches only itself
\* and free locks.
Alone(c) ==
    /\ UNCHANGED <<on, procvars, tickvars>>
    /\ \A d \in CPUs \ {c} :
          /\ sie'[d] = sie[d] /\ noff'[d] = noff[d] /\ intena'[d] = intena[d]
          /\ spc'[d] = spc[d] /\ spos'[d] = spos[d] /\ hpc'[d] = hpc[d]
    /\ \A l \in Locks : lock'[l] = lock[l] \/ {lock[l], lock'[l]} \subseteq {None, c}

LEMMA AloneStep ==
  ASSUME IInv, NEW c \in CPUs, Alone(c), TypeOK', ~panicked', CpuOK(c)',
         \A q \in Procs : Coming(q) => Coming(q)'
  PROVE  IInv'
  <1>1. OneStack'
    BY Zenon DEF IInv, OneStack, Alone
  <1>2. ASSUME NEW d \in CPUs \ {c} PROVE SameCpu(d)
    BY Constants DEF IInv, TypeOK, SameCpu, Alone, procvars
  <1>3. ASSUME NEW q \in Procs PROVE SameThread(q) /\ SameWait(q)
    BY Zenon DEF Alone, OnCPU, Due, SameThread, SameWait, procvars, tickvars
  <1> QED
    BY Zenon, <1>1, <1>2, <1>3, LocalStep

LEMMA SchedLockInv ==
  ASSUME IInv, NEW c \in CPUs, SchedLock(c)
  PROVE  IInv'
  <1>1. /\ TypeOK /\ ~panicked /\ CpuOK(c)
        /\ on[c] = None /\ hpc[c] = "none" /\ spc[c] = "scan" /\ spos[c] \in Procs
    BY Zenon DEF IInv, TypeOK, SchedLock, InScheduler
  <1>2. /\ lock[TicksLock] # c /\ noff[c] = 0 /\ \A q \in Procs : lock[q] # c
    BY Zenon, <1>1 DEF CpuOK, LocksHeld, HoldsTicks, HoldsSlot
  <1>3. /\ lock'[TicksLock] # c /\ lock'[spos[c]] = c /\ noff'[c] = 1 /\ ~sie'[c]
        /\ \A q \in Procs : lock'[q] = c => q = spos[c]
    BY <1>1, <1>2, Constants DEF SchedLock, acquire, push_off, TypeOK, Locks
  <1>4. TypeOK'
    BY <1>1, <1>2 DEF SchedLock, acquire, push_off, TypeOK, Locks, intrvars, procvars, tickvars
  <1>5. ~panicked'
    BY Zenon, <1>1, <1>2 DEF SchedLock, acquire
  <1>6. CpuOK(c)'
    <2>1. on'[c] = None /\ hpc'[c] = "none" /\ spc'[c] = "look" /\ spos'[c] = spos[c]
      BY Zenon, <1>1 DEF SchedLock, TypeOK, intrvars
    <2> QED
      BY Zenon, <1>3, <2>1 DEF CpuOK, LocksHeld, HoldsTicks, HoldsSlot, Nesting, Interrupts
  <1>7. Alone(c)
    BY Zenon, <1>1 DEF SchedLock, acquire, push_off, Alone, TypeOK, intrvars
  <1>8. ASSUME NEW q \in Procs PROVE Coming(q) => Coming(q)'
    BY Zenon DEF SchedLock, Coming, intrvars
  <1> QED
    BY Zenon, <1>4, <1>5, <1>6, <1>7, <1>8, AloneStep

LEMMA SchedUnlockInv ==
  ASSUME IInv, NEW c \in CPUs, SchedUnlock(c)
  PROVE  IInv'
  <1>1. /\ TypeOK /\ ~panicked /\ CpuOK(c)
        /\ on[c] = None /\ hpc[c] = "none" /\ spc[c] = "unlock" /\ spos[c] \in Procs
    BY Zenon DEF IInv, TypeOK, SchedUnlock, InScheduler
  <1>2. /\ lock[TicksLock] # c /\ lock[spos[c]] = c /\ noff[c] = 1 /\ ~sie[c]
        /\ \A q \in Procs : lock[q] = c => q = spos[c]
    BY <1>1 DEF CpuOK, LocksHeld, HoldsTicks, HoldsSlot, Interrupts
  <1>3. /\ lock'[TicksLock] # c /\ noff'[c] = 0 /\ \A q \in Procs : lock'[q] # c
    BY <1>1, <1>2, Constants DEF SchedUnlock, TypeOK, Locks
  <1>4. TypeOK'
    BY <1>1, <1>2, Constants DEF SchedUnlock, TypeOK, Locks, intrvars, procvars, tickvars
  <1>5. ~panicked'
    <2>1. ~(lock[spos[c]] # c \/ sie[c] \/ noff[c] # 1)
      BY Zenon, <1>2
    <2> QED
      BY Zenon, <2>1 DEF SchedUnlock
  <1>6. CpuOK(c)'
    <2>1. on'[c] = None /\ hpc'[c] = "none"
      BY Zenon, <1>1 DEF SchedUnlock, intrvars
    <2>2. spc'[c] = "scan"
      BY <1>1 DEF SchedUnlock, TypeOK
    <2>3. spos'[c] \in Procs
      BY Zenon, <1>4 DEF TypeOK
    <2> QED
      BY Zenon, <1>3, <2>1, <2>2, <2>3
         DEF CpuOK, LocksHeld, HoldsTicks, HoldsSlot, Nesting, Interrupts
  <1>7. Alone(c)
    BY Zenon, <1>1, <1>2 DEF SchedUnlock, Alone, TypeOK, intrvars
  <1>8. ASSUME NEW q \in Procs PROVE Coming(q) => Coming(q)'
    BY Zenon DEF SchedUnlock, Coming, intrvars
  <1> QED
    BY Zenon, <1>4, <1>5, <1>6, <1>7, <1>8, AloneStep

LEMMA InterruptInv ==
  ASSUME IInv, NEW c \in CPUs, Interrupt(c)
  PROVE  IInv'
  <1>1. TypeOK /\ ~panicked /\ CpuOK(c) /\ sie[c] /\ hpc[c] = "none"
    BY Zenon DEF IInv, Interrupt
  <1>2. /\ lock[TicksLock] # c /\ noff[c] = 0 /\ ~HoldsTicks(c) /\ ~HoldsSlot(c)
        /\ on[c] # None => trap[on[c]] = "none"
    BY <1>1 DEF CpuOK, LocksHeld, Interrupts
  <1>3. TypeOK'
    BY Zenon, <1>1 DEF Interrupt, TypeOK, schedvars, procvars, tickvars
  <1>4. ~panicked'
    BY Zenon, <1>1 DEF Interrupt
  <1>5. CpuOK(c)'
    <2>1. ~sie'[c] /\ hpc'[c] \in {"clockintr", "yield"}
      BY Zenon, <1>1 DEF Interrupt, TypeOK
    <2>2. ~HoldsTicks(c)' /\ ~HoldsSlot(c)'
      BY Zenon, <1>2, <2>1 DEF Interrupt, HoldsTicks, HoldsSlot, ThreadHolds, schedvars, procvars
    <2>3. LocksHeld(c)'
      BY Zenon, <1>1, <1>2, <2>2 DEF CpuOK, Interrupt, LocksHeld, schedvars
    <2>4. on[c] = None => spc[c] = "scan"
      BY Zenon, <1>2 DEF HoldsSlot
    <2>5. on[c] # None => on[c] \in Procs /\ pc[on[c]] \in BarePC
      BY Zenon, <1>1, <1>2 DEF TypeOK, HoldsTicks, HoldsSlot, ThreadHolds
    <2>6. Nesting(c)'
      BY Zenon, <1>1, <1>2, <2>4, <2>5 DEF CpuOK, Interrupt, Nesting, schedvars, procvars
    <2>7. Interrupts(c)'
      BY Zenon, <1>2, <2>1 DEF Interrupt, Interrupts, schedvars, procvars
    <2> QED
      BY Zenon, <2>3, <2>6, <2>7 DEF CpuOK
  <1>6. Alone(c)
    BY Zenon, <1>1 DEF Interrupt, Alone, TypeOK, schedvars
  <1>7. ASSUME NEW q \in Procs PROVE Coming(q) => Coming(q)'
    BY Zenon, <1>1 DEF Interrupt, Coming, TypeOK
  <1> QED
    BY Zenon, <1>3, <1>4, <1>5, <1>6, <1>7, AloneStep

\* The CPU is in a handler: it has no lock but, in wakeup, tickslock.
LEMMA InHandlerContext ==
  ASSUME NEW c \in CPUs, TypeOK, CpuOK(c), hpc[c] # "none"
  PROVE  /\ ~HoldsSlot(c) /\ ~sie[c] /\ \A q \in Procs : lock[q] # c
         /\ lock[TicksLock] = c <=> hpc[c] = "wakeup"
         /\ hpc[c] = "wakeup" => noff[c] = 1
         /\ hpc[c] # "wakeup" => noff[c] = 0
         /\ on[c] # None => trap[on[c]] = "none" /\ pc[on[c]] \in BarePC
         /\ on[c] = None => spc[c] = "scan"
  <1>1. /\ on[c] # None => trap[on[c]] = "none" /\ pc[on[c]] \in BarePC
        /\ on[c] = None => spc[c] = "scan"
        /\ ~sie[c]
    BY Zenon DEF CpuOK, Nesting, Interrupts
  <1>2. ~HoldsSlot(c) /\ (HoldsTicks(c) <=> hpc[c] = "wakeup")
    BY Zenon, <1>1 DEF HoldsSlot, HoldsTicks, ThreadHolds, TicksPC, SlotPC, BarePC, SlotTrap
  <1> QED
    BY Zenon, <1>1, <1>2 DEF CpuOK, LocksHeld, TypeOK

LEMMA ClockTickInv ==
  ASSUME IInv, NEW c \in CPUs, ClockTick(c)
  PROVE  IInv'
  <1>1. TypeOK /\ ~panicked /\ OneStack /\ CpuOK(c) /\ hpc[c] = "clockintr"
    BY Zenon DEF IInv, ClockTick, InHandler
  <1>2. /\ ~HoldsSlot(c) /\ ~sie[c] /\ lock[TicksLock] # c /\ noff[c] = 0
        /\ \A q \in Procs : lock[q] # c
        /\ on[c] # None => trap[on[c]] = "none" /\ pc[on[c]] \in BarePC
    BY Zenon, <1>1, InHandlerContext
  <1>3. /\ lock'[TicksLock] = c /\ noff'[c] = 1 /\ ~sie'[c] /\ ~intena'[c] /\ hpc'[c] = "wakeup"
        /\ towake'[c] = Procs \ {on[c]} /\ \A q \in Procs : lock'[q] = lock[q]
    BY <1>1, <1>2, Constants DEF ClockTick, ToWake, acquire, push_off, TypeOK, Locks
  <1>4. TypeOK'
    BY <1>1, <1>2, SchedAssumption
       DEF ClockTick, ToWake, acquire, push_off, TypeOK, Locks, schedvars, procvars
  <1>5. ~panicked'
    BY Zenon, <1>2 DEF ClockTick, acquire
  <1>6. CpuOK(c)'
    <2>1. HoldsTicks(c)' /\ ~HoldsSlot(c)'
      BY Zenon, <1>2, <1>3 DEF ClockTick, HoldsTicks, HoldsSlot, ThreadHolds, schedvars, procvars
    <2>2. LocksHeld(c)'
      BY <1>2, <1>3, <1>4, <2>1 DEF LocksHeld, TypeOK
    <2>3. Nesting(c)' /\ Interrupts(c)'
      BY Zenon, <1>1, <1>2, <1>3 DEF CpuOK, Nesting, Interrupts, ClockTick, schedvars, procvars
    <2> QED
      BY Zenon, <2>2, <2>3 DEF CpuOK
  <1>7. ASSUME NEW d \in CPUs \ {c} PROVE SameCpu(d)
    BY Zenon, <1>1, <1>2, Constants
       DEF SameCpu, TypeOK, ClockTick, acquire, push_off, schedvars, procvars, Locks
  <1>8. ASSUME NEW q \in Procs PROVE SameThread(q)
    BY Zenon DEF SameThread, OnCPU, ClockTick, schedvars, procvars
  \* A process that has tested for the tick still has tickslock; one past that
  \* is asleep, or about to be on another CPU, and is to be visited.
  <1>9. ASSUME NEW q \in Procs PROVE WakeOK(q)'
    <2>1. ThreadOK(q)
      BY Zenon DEF IInv
    <2>2. ~(trap[q] = "none" /\ pc[q] \in {"sleep", "locked"})
      <3>1. ASSUME NEW d \in CPUs, on[d] = q, trap[q] = "none", pc[q] \in {"sleep", "locked"}
            PROVE  FALSE
        <4>1. CpuOK(d) /\ HoldsTicks(d)
          BY Zenon, <3>1, Constants DEF IInv, HoldsTicks, TicksPC
        <4>2. lock[TicksLock] = d
          BY Zenon, <4>1 DEF CpuOK, LocksHeld
        <4> QED
          BY Zenon, <1>2, <4>2, Constants DEF ClockTick, acquire
      <3> QED
        BY Zenon, <2>1, <3>1 DEF ThreadOK, OnCPU
    <2>3. (pc[q] = "asleep" \/ state[q] = "SLEEPING") => on[c] # q
      BY Zenon, <1>2, <2>1, Constants DEF ThreadOK, OnCPU, BarePC
    <2>4. on[c] # q => Coming(q)'
      BY Zenon, <1>3 DEF Coming
    <2> QED
      BY Zenon, <2>2, <2>3, <2>4 DEF WakeOK, ClockTick, procvars
  <1>10. OneStack'
    BY Zenon, <1>1 DEF OneStack, ClockTick, schedvars
  <1> QED
    BY Zenon, <1>4, <1>5, <1>6, <1>7, <1>8, <1>9, <1>10, LocalStep

LEMMA wakeupInv ==
  ASSUME IInv, NEW c \in CPUs, wakeup(c)
  PROVE  IInv'
  <1>1. TypeOK /\ ~panicked /\ OneStack /\ CpuOK(c) /\ hpc[c] = "wakeup" /\ towake[c] # {}
    BY Zenon DEF IInv, wakeup, InHandler
  <1>2. PICK p \in Procs : p = Min(towake[c]) /\ p \in towake[c]
    BY Zenon, <1>1, MinMember DEF TypeOK
  <1>3. lock[p] = None
    BY <1>1, <1>2, InHandlerContext DEF wakeup
  <1>4. /\ state' = [state EXCEPT ![p] = IF @ = "SLEEPING" /\ chan[p] THEN "RUNNABLE" ELSE @]
        /\ towake' = [towake EXCEPT ![c] = @ \ {p}]
        /\ UNCHANGED <<cpuvars, schedvars, hpc, chan, pc, trap, saved, tickvars>>
        /\ panicked' = (lock[p] = c)
    BY Zenon, <1>2 DEF wakeup
  <1>5. TypeOK'
    BY Zenon, <1>1, <1>2, <1>4 DEF TypeOK, cpuvars, schedvars, tickvars
  <1>6. ~panicked'
    BY Zenon, <1>3, <1>4, Constants
  <1>7. ASSUME NEW d \in CPUs PROVE SameCpu(d)
    BY Zenon, <1>4 DEF SameCpu, cpuvars, schedvars
  <1>8. CpuOK(c)'
    BY Zenon, <1>1, <1>7, CpuFrame
  <1>9. ThreadOK(p)'
    <2>1. ThreadOK(p) /\ (OnCPU(p)' <=> OnCPU(p))
      BY Zenon, <1>2, <1>4 DEF IInv, OnCPU, schedvars
    <2>2. state'[p] = IF state[p] = "SLEEPING" /\ chan[p] THEN "RUNNABLE" ELSE state[p]
      BY Zenon, <1>1, <1>2, <1>4 DEF TypeOK
    <2> QED
      BY <1>4, <2>1, <2>2 DEF ThreadOK
  <1>10. ASSUME NEW q \in Procs, q # p PROVE SameThread(q) /\ SameWait(q)
    <2>1. Coming(q) => Coming(q)'
      BY Zenon, <1>1, <1>4, <1>10 DEF Coming, TypeOK
    <2> QED
      BY Zenon, <1>1, <1>2, <1>4, <1>10, <2>1
         DEF SameThread, SameWait, OnCPU, Due, TypeOK, schedvars, tickvars
  \* p, if it slept, is awake; it was not about to sleep, which needs p->lock.
  <1>11. WakeOK(p)'
    <2>1. ThreadOK(p) /\ WakeOK(p)
      BY Zenon, <1>2 DEF IInv
    <2>2. state'[p] # "SLEEPING"
      BY Zenon, <1>1, <1>2, <1>4, <2>1 DEF ThreadOK, TypeOK
    <2>3. ~(trap[p] = "none" /\ pc[p] = "asleep")
      <3>1. ASSUME NEW d \in CPUs, on[d] = p, trap[p] = "none", pc[p] = "asleep"
            PROVE  FALSE
        <4>1. CpuOK(d) /\ HoldsSlot(d)
          BY Zenon, <1>2, <3>1, Constants DEF IInv, HoldsSlot, ThreadHolds, SlotPC
        <4>2. spos[d] = p /\ lock[p] = d
          BY Zenon, <1>2, <3>1, <4>1, Constants DEF CpuOK, LocksHeld, Nesting
        <4> QED
          BY Zenon, <1>3, <4>2, Constants
      <3> QED
        BY Zenon, <2>1, <3>1 DEF ThreadOK, OnCPU
    <2>4. pc[p] # "asleep"
      BY Zenon, <2>1, <2>3 DEF ThreadOK, BarePC
    <2>5. Due(p)' <=> Due(p)
      BY Zenon, <1>4 DEF Due, tickvars
    <2> QED
      BY Zenon, <1>4, <2>1, <2>2, <2>4, <2>5 DEF WakeOK
  <1>12. OneStack'
    BY Zenon, <1>1, <1>4 DEF OneStack, schedvars
  <1> QED
    BY Zenon, <1>5, <1>6, <1>7, <1>8, <1>9, <1>10, <1>11, <1>12, LocalStep

LEMMA ClockUnlockInv ==
  ASSUME IInv, NEW c \in CPUs, ClockUnlock(c)
  PROVE  IInv'
  <1>1. TypeOK /\ ~panicked /\ CpuOK(c) /\ hpc[c] = "wakeup" /\ towake[c] = {}
    BY Zenon DEF IInv, ClockUnlock, InHandler
  <1>2. /\ ~HoldsSlot(c) /\ ~sie[c] /\ lock[TicksLock] = c /\ noff[c] = 1
        /\ \A q \in Procs : lock[q] # c
        /\ on[c] # None => trap[on[c]] = "none" /\ pc[on[c]] \in BarePC
        /\ ~intena[c]
    BY Zenon, <1>1, InHandlerContext DEF CpuOK, Interrupts
  <1>3. /\ lock'[TicksLock] # c /\ noff'[c] = 0 /\ ~sie'[c] /\ hpc'[c] = "yield"
        /\ \A q \in Procs : lock'[q] = lock[q]
    BY <1>1, <1>2, Constants DEF ClockUnlock, release, pop_off, TypeOK, Locks
  <1>4. TypeOK'
    BY <1>1, <1>2 DEF ClockUnlock, release, pop_off, TypeOK, Locks, schedvars, procvars, tickvars
  <1>5. ~panicked'
    <2>1. ~(lock[TicksLock] # c \/ sie[c] \/ noff[c] < 1)
      BY <1>2
    <2> QED
      BY Zenon, <2>1 DEF ClockUnlock, release
  <1>6. CpuOK(c)'
    <2>1. ~HoldsTicks(c)' /\ ~HoldsSlot(c)'
      BY Zenon, <1>2, <1>3
         DEF ClockUnlock, HoldsTicks, HoldsSlot, ThreadHolds, TicksPC, BarePC, schedvars, procvars
    <2>2. LocksHeld(c)'
      BY <1>2, <1>3, <1>4, <2>1 DEF LocksHeld, TypeOK
    <2>3. Nesting(c)' /\ Interrupts(c)'
      BY Zenon, <1>1, <1>2, <1>3 DEF CpuOK, Nesting, Interrupts, ClockUnlock, schedvars, procvars
    <2> QED
      BY Zenon, <2>2, <2>3 DEF CpuOK
  <1>7. Alone(c)
    BY Zenon, <1>1, <1>2 DEF ClockUnlock, release, pop_off, Alone, TypeOK, schedvars
  <1>8. ASSUME NEW q \in Procs PROVE Coming(q) => Coming(q)'
    BY Zenon, <1>1 DEF ClockUnlock, Coming, TypeOK
  <1> QED
    BY Zenon, <1>4, <1>5, <1>6, <1>7, <1>8, AloneStep

LEMMA SleepSwitchInv ==
  ASSUME IInv, NEW c \in CPUs, NEW p \in Procs, SleepSwitch(c, p)
  PROVE  IInv'
  <1>1. /\ TypeOK /\ ~panicked /\ OneStack /\ CpuOK(c) /\ ThreadOK(p) /\ WakeOK(p) /\ OnCPU(p)
        /\ on[c] = p /\ hpc[c] = "none" /\ trap[p] = "none" /\ pc[p] = "asleep"
    BY Zenon DEF IInv, SleepSwitch, InProc, OnCPU
  <1>2. /\ spos[c] = p /\ spc[c] = "unlock" /\ lock[TicksLock] # c /\ lock[p] = c
        /\ \A q \in Procs : lock[q] = c => q = p
        /\ noff[c] = 1 /\ ~sie[c] /\ intena[c]
    BY <1>1, InThread DEF ThreadHolds, ThreadOK, TicksPC, SlotPC, BarePC, SlotTrap
  <1>3. /\ on' = [on EXCEPT ![c] = None] /\ saved' = [saved EXCEPT ![p] = intena[c]]
        /\ chan' = [chan EXCEPT ![p] = TRUE] /\ state' = [state EXCEPT ![p] = "SLEEPING"]
        /\ pc' = [pc EXCEPT ![p] = "woken"] /\ trap' = trap
        /\ UNCHANGED <<cpuvars, spc, spos, intrvars, tickvars>>
    BY Zenon DEF SleepSwitch, sched, Goto
  <1>4. TypeOK'
    BY Zenon, <1>1, <1>3 DEF TypeOK, TicksPC, SlotPC, BarePC, SlotTrap, cpuvars, intrvars, tickvars
  <1>5. ~panicked'
    <2>1. ~(lock[p] # c \/ noff[c] # 1 \/ sie[c])
      BY Zenon, <1>2
    <2> QED
      BY Zenon, <2>1 DEF SleepSwitch, sched
  <1>6. CpuOK(c)'
    <2>1. on'[c] = None
      BY Zenon, <1>1, <1>3 DEF TypeOK
    <2> QED
      BY Zenon, <1>1, <1>2, <1>3, <2>1
         DEF CpuOK, LocksHeld, HoldsTicks, HoldsSlot, Nesting, Interrupts, cpuvars, intrvars
  <1>7. ASSUME NEW d \in CPUs \ {c} PROVE SameCpu(d)
    BY Zenon, <1>1, <1>3, Constants DEF SameCpu, TypeOK, OneStack, cpuvars, intrvars
  <1>8. ThreadOK(p)'
    <2>1. ~OnCPU(p)'
      BY Zenon, <1>1, <1>3, Constants DEF OnCPU, OneStack, TypeOK
    <2>2. state'[p] = "SLEEPING" /\ chan'[p] /\ pc'[p] = "woken" /\ trap'[p] = "none" /\ saved'[p]
      BY Zenon, <1>1, <1>2, <1>3 DEF TypeOK
    <2> QED
      BY Zenon, <1>1, <1>3, <2>1, <2>2 DEF ThreadOK, TypeOK, BarePC
  <1>9. ASSUME NEW q \in Procs, q # p PROVE SameThread(q) /\ SameWait(q)
    <2>1. OnCPU(q)' <=> OnCPU(q)
      BY Zenon, <1>1, <1>3, <1>9, Constants DEF OnCPU, TypeOK
    <2>2. (Due(q)' <=> Due(q)) /\ (Coming(q) => Coming(q)')
      BY Zenon, <1>3 DEF Due, Coming, intrvars, tickvars
    <2> QED
      BY Zenon, <1>1, <1>3, <1>9, <2>1, <2>2 DEF SameThread, SameWait, TypeOK
  <1>10. WakeOK(p)'
    <2>1. (Due(p)' <=> Due(p)) /\ (Coming(p) => Coming(p)')
      BY Zenon, <1>3 DEF Due, Coming, intrvars, tickvars
    <2> QED
      BY Zenon, <1>1, <1>3, <2>1 DEF WakeOK, ThreadOK, TypeOK, BarePC
  <1>11. OneStack'
    BY Zenon, <1>1, <1>3 DEF OneStack, TypeOK
  <1> QED
    BY Zenon, <1>4, <1>5, <1>6, <1>7, <1>8, <1>9, <1>10, <1>11, LocalStep

LEMMA YieldSwitchInv ==
  ASSUME IInv, NEW c \in CPUs, NEW p \in Procs, YieldSwitch(c, p)
  PROVE  IInv'
  <1>1. /\ TypeOK /\ ~panicked /\ OneStack /\ CpuOK(c) /\ ThreadOK(p) /\ WakeOK(p) /\ OnCPU(p)
        /\ on[c] = p /\ hpc[c] = "none" /\ trap[p] = "switch"
    BY Zenon DEF IInv, YieldSwitch, InTrap, OnCPU
  <1>2. /\ spos[c] = p /\ spc[c] = "unlock" /\ lock[TicksLock] # c /\ lock[p] = c
        /\ \A q \in Procs : lock[q] = c => q = p
        /\ noff[c] = 1 /\ ~sie[c] /\ ~intena[c]
    BY <1>1, InThread DEF ThreadHolds, ThreadOK, TicksPC, SlotPC, BarePC, SlotTrap
  <1>3. /\ on' = [on EXCEPT ![c] = None] /\ saved' = [saved EXCEPT ![p] = intena[c]]
        /\ trap' = [trap EXCEPT ![p] = "resumed"] /\ UNCHANGED <<state, chan, pc>>
        /\ UNCHANGED <<cpuvars, spc, spos, intrvars, tickvars>>
    BY Zenon DEF YieldSwitch, sched
  <1>4. TypeOK'
    BY Zenon, <1>1, <1>3 DEF TypeOK, TicksPC, SlotPC, BarePC, SlotTrap, cpuvars, intrvars, tickvars
  <1>5. ~panicked'
    <2>1. ~(lock[p] # c \/ noff[c] # 1 \/ sie[c])
      BY Zenon, <1>2
    <2> QED
      BY Zenon, <2>1 DEF YieldSwitch, sched
  <1>6. CpuOK(c)'
    <2>1. on'[c] = None
      BY Zenon, <1>1, <1>3 DEF TypeOK
    <2> QED
      BY Zenon, <1>1, <1>2, <1>3, <2>1
         DEF CpuOK, LocksHeld, HoldsTicks, HoldsSlot, Nesting, Interrupts, cpuvars, intrvars
  <1>7. ASSUME NEW d \in CPUs \ {c} PROVE SameCpu(d)
    BY Zenon, <1>1, <1>3, Constants DEF SameCpu, TypeOK, OneStack, cpuvars, intrvars
  <1>8. ThreadOK(p)'
    <2>1. ~OnCPU(p)'
      BY Zenon, <1>1, <1>3, Constants DEF OnCPU, OneStack, TypeOK
    <2>2. trap'[p] = "resumed" /\ ~saved'[p]
      BY Zenon, <1>1, <1>2, <1>3 DEF TypeOK
    <2> QED
      BY Zenon, <1>1, <1>3, <2>1, <2>2 DEF ThreadOK, TypeOK, BarePC
  <1>9. ASSUME NEW q \in Procs, q # p PROVE SameThread(q) /\ SameWait(q)
    <2>1. OnCPU(q)' <=> OnCPU(q)
      BY Zenon, <1>1, <1>3, <1>9, Constants DEF OnCPU, TypeOK
    <2>2. (Due(q)' <=> Due(q)) /\ (Coming(q) => Coming(q)')
      BY Zenon, <1>3 DEF Due, Coming, intrvars, tickvars
    <2> QED
      BY Zenon, <1>1, <1>3, <1>9, <2>1, <2>2 DEF SameThread, SameWait, TypeOK
  <1>10. WakeOK(p)'
    <2>1. (Due(p)' <=> Due(p)) /\ (Coming(p) => Coming(p)')
      BY Zenon, <1>3 DEF Due, Coming, intrvars, tickvars
    <2> QED
      BY Zenon, <1>1, <1>3, <2>1 DEF WakeOK, ThreadOK, TypeOK, BarePC
  <1>11. OneStack'
    BY Zenon, <1>1, <1>3 DEF OneStack, TypeOK
  <1> QED
    BY Zenon, <1>4, <1>5, <1>6, <1>7, <1>8, <1>9, <1>10, <1>11, LocalStep

LEMMA SchedRunInv ==
  ASSUME IInv, NEW c \in CPUs, SchedRun(c)
  PROVE  IInv'
  <1>1. PICK p \in Procs : p = spos[c]
    BY Zenon DEF IInv, TypeOK
  <1>2. /\ TypeOK /\ ~panicked /\ OneStack /\ CpuOK(c) /\ ThreadOK(p) /\ WakeOK(p)
        /\ on[c] = None /\ hpc[c] = "none" /\ spc[c] = "look"
    BY Zenon DEF IInv, SchedRun, InScheduler
  <1>3. /\ lock[TicksLock] # c /\ lock[p] = c /\ noff[c] = 1 /\ ~sie[c]
        /\ \A q \in Procs : lock[q] = c => q = p
    BY <1>1, <1>2 DEF CpuOK, LocksHeld, HoldsTicks, HoldsSlot, Interrupts
  <1>4. /\ spc' = [spc EXCEPT ![c] = "unlock"]
        /\ UNCHANGED <<cpuvars, spos, intrvars, chan, pc, trap, saved, tickvars, panicked>>
    BY Zenon DEF SchedRun
  <1>5. CASE state[p] # "RUNNABLE"
    <2>1. UNCHANGED <<state, on>>
      BY Zenon, <1>1, <1>5 DEF SchedRun
    <2>2. TypeOK' /\ ~panicked'
      BY Zenon, <1>2, <1>4, <2>1 DEF TypeOK, cpuvars, intrvars, tickvars
    <2>3. CpuOK(c)'
      BY Zenon, <1>1, <1>2, <1>3, <1>4, <2>1
         DEF TypeOK, CpuOK, LocksHeld, HoldsTicks, HoldsSlot, Nesting, Interrupts, cpuvars, intrvars
    <2>4. Alone(c)
      BY Zenon, <1>2, <1>4, <2>1 DEF Alone, TypeOK, procvars, cpuvars, intrvars
    <2>5. ASSUME NEW q \in Procs PROVE Coming(q) => Coming(q)'
      BY Zenon, <1>4 DEF Coming, intrvars
    <2> QED
      BY Zenon, <2>2, <2>3, <2>4, <2>5, AloneStep
  \* No other CPU is on p's stack: there p would be RUNNING, or have p->lock.
  <1>6. CASE state[p] = "RUNNABLE"
    <2>1. state' = [state EXCEPT ![p] = "RUNNING"] /\ on' = [on EXCEPT ![c] = p]
      BY Zenon, <1>1, <1>6 DEF SchedRun
    <2>2. ~OnCPU(p)
      <3>1. ASSUME NEW d \in CPUs, on[d] = p PROVE FALSE
        <4>1. trap[p] = "switch"
          BY Zenon, <1>2, <1>6, <3>1 DEF ThreadOK, OnCPU
        <4>2. CpuOK(d) /\ HoldsSlot(d)
          BY Zenon, <3>1, <4>1, Constants DEF IInv, HoldsSlot, ThreadHolds, SlotTrap
        <4>3. spos[d] = p /\ lock[p] = d
          BY Zenon, <3>1, <4>2, Constants DEF CpuOK, LocksHeld, Nesting
        <4> QED
          BY Zenon, <1>2, <1>3, <3>1, <4>3, Constants
      <3> QED
        BY Zenon, <3>1 DEF OnCPU
    <2>3. (trap[p] = "none" /\ pc[p] \in {"forkret", "woken"}) \/ trap[p] = "resumed"
      BY Zenon, <1>2, <2>2 DEF ThreadOK
    <2>4. TypeOK' /\ ~panicked'
      BY Zenon, <1>2, <1>4, <2>1 DEF TypeOK, cpuvars, intrvars, tickvars
    <2>5. CpuOK(c)'
      <3>1. on'[c] = p /\ spc'[c] = "unlock"
        BY Zenon, <1>2, <1>4, <2>1 DEF TypeOK
      <3>2. ~HoldsTicks(c)' /\ HoldsSlot(c)'
        BY Zenon, <1>2, <1>4, <2>3, <3>1, Constants
           DEF HoldsTicks, HoldsSlot, ThreadHolds, TicksPC, SlotPC, SlotTrap, intrvars
      <3>3. LocksHeld(c)' /\ Nesting(c)'
        BY Zenon, <1>1, <1>2, <1>3, <1>4, <3>1, <3>2 DEF LocksHeld, Nesting, cpuvars, intrvars
      <3>4. Interrupts(c)'
        BY Zenon, <1>2, <1>3, <1>4, <2>3, <3>1 DEF Interrupts, TicksPC, cpuvars, intrvars
      <3> QED
        BY Zenon, <3>3, <3>4 DEF CpuOK
    <2>6. ASSUME NEW d \in CPUs \ {c} PROVE SameCpu(d)
      BY Zenon, <1>2, <1>4, <2>1 DEF SameCpu, TypeOK, cpuvars, intrvars
    <2>7. ThreadOK(p)'
      <3>1. OnCPU(p)' /\ state'[p] = "RUNNING"
        BY Zenon, <1>2, <2>1 DEF OnCPU, TypeOK
      <3> QED
        BY Zenon, <1>2, <1>4, <2>3, <3>1 DEF ThreadOK
    <2>8. ASSUME NEW q \in Procs, q # p PROVE SameThread(q) /\ SameWait(q)
      <3>1. OnCPU(q)' <=> OnCPU(q)
        BY ZenonT(60), <1>2, <2>1, <2>8, Constants DEF OnCPU, TypeOK
      <3>2. (Due(q)' <=> Due(q)) /\ (Coming(q) => Coming(q)')
        BY Zenon, <1>4 DEF Due, Coming, intrvars, tickvars
      <3> QED
        BY Zenon, <1>2, <1>4, <2>1, <2>8, <3>1, <3>2 DEF SameThread, SameWait, TypeOK
    <2>9. WakeOK(p)'
      <3>1. (Due(p)' <=> Due(p)) /\ (Coming(p) => Coming(p)')
        BY Zenon, <1>4 DEF Due, Coming, intrvars, tickvars
      <3> QED
        BY Zenon, <1>2, <1>4, <2>1, <3>1 DEF WakeOK, TypeOK
    <2>10. OneStack'
      BY Zenon, <1>2, <2>1, <2>2 DEF OneStack, OnCPU, TypeOK
    <2> QED
      BY Zenon, <2>4, <2>5, <2>6, <2>7, <2>8, <2>9, <2>10, LocalStep
  <1> QED
    BY Zenon, <1>5, <1>6

LEMMA TrapYieldInv ==
  ASSUME IInv, NEW c \in CPUs, TrapYield(c)
  PROVE  IInv'
  <1>1. TypeOK /\ ~panicked /\ OneStack /\ CpuOK(c) /\ hpc[c] = "yield"
    BY Zenon DEF IInv, TrapYield, InHandler
  <1>2. /\ ~HoldsSlot(c) /\ ~sie[c] /\ lock[TicksLock] # c /\ noff[c] = 0
        /\ \A q \in Procs : lock[q] # c
        /\ on[c] # None => trap[on[c]] = "none" /\ pc[on[c]] \in BarePC
        /\ on[c] = None => spc[c] = "scan"
    BY Zenon, <1>1, InHandlerContext
  <1>3. /\ hpc' = [hpc EXCEPT ![c] = "none"]
        /\ UNCHANGED <<lock, noff, intena, schedvars, towake, state, chan, pc, saved, tickvars,
                       panicked>>
    BY Zenon DEF TrapYield
  <1>4. ASSUME NEW q \in Procs PROVE Coming(q) => Coming(q)'
    BY Zenon, <1>1, <1>3 DEF Coming, TypeOK
  <1>5. CASE on[c] = None
    <2>1. sie' = [sie EXCEPT ![c] = TRUE] /\ trap' = trap
      BY Zenon, <1>5 DEF TrapYield
    <2>2. TypeOK' /\ ~panicked'
      BY Zenon, <1>1, <1>3, <2>1 DEF TypeOK, schedvars, tickvars
    <2>3. CpuOK(c)'
      <3>1. hpc'[c] = "none"
        BY Zenon, <1>1, <1>3 DEF TypeOK
      <3> QED
        BY Zenon, <1>1, <1>2, <1>3, <1>5, <3>1
           DEF TypeOK, CpuOK, LocksHeld, HoldsTicks, HoldsSlot, Nesting, Interrupts, schedvars
    <2>4. Alone(c)
      BY Zenon, <1>1, <1>3, <2>1 DEF Alone, TypeOK, schedvars, procvars
    <2> QED
      BY Zenon, <1>4, <2>2, <2>3, <2>4, AloneStep
  <1>6. CASE on[c] # None
    <2>1. PICK p \in Procs : p = on[c]
      BY Zenon, <1>1, <1>6 DEF TypeOK
    <2>2. trap' = [trap EXCEPT ![p] = "yield"] /\ sie' = sie
      BY Zenon, <1>6, <2>1 DEF TrapYield
    <2>3. TypeOK' /\ ~panicked'
      BY Zenon, <1>1, <1>3, <2>2 DEF TypeOK, schedvars, tickvars
    <2>4. trap'[p] = "yield" /\ hpc'[c] = "none" /\ pc[p] \in BarePC
      BY Zenon, <1>1, <1>2, <1>3, <2>1, <2>2, Constants DEF TypeOK
    <2>5. CpuOK(c)'
      <3>1. ~HoldsTicks(c)' /\ ~HoldsSlot(c)'
        BY Zenon, <1>3, <2>1, <2>4, Constants
           DEF HoldsTicks, HoldsSlot, ThreadHolds, SlotTrap, schedvars
      <3>2. LocksHeld(c)'
        BY Zenon, <1>1, <1>2, <1>3, <3>1 DEF TypeOK, LocksHeld, schedvars
      <3>3. Nesting(c)' /\ Interrupts(c)'
        BY Zenon, <1>1, <1>2, <1>3, <2>1, <2>2, <2>4, Constants
           DEF CpuOK, Nesting, Interrupts, schedvars
      <3> QED
        BY Zenon, <3>2, <3>3 DEF CpuOK
    <2>6. ASSUME NEW d \in CPUs \ {c} PROVE SameCpu(d)
      BY Zenon, <1>1, <1>3, <2>1, <2>2, Constants DEF SameCpu, TypeOK, OneStack, schedvars
    <2>7. ThreadOK(p)'
      <3>1. ThreadOK(p) /\ OnCPU(p) /\ OnCPU(p)'
        BY Zenon, <1>3, <2>1 DEF IInv, OnCPU, schedvars
      <3> QED
        BY Zenon, <1>1, <1>2, <1>3, <2>1, <2>4, <3>1, Constants DEF ThreadOK
    <2>8. ASSUME NEW q \in Procs, q # p PROVE SameThread(q) /\ SameWait(q)
      <3>1. (OnCPU(q)' <=> OnCPU(q)) /\ (Due(q)' <=> Due(q))
        BY Zenon, <1>3 DEF OnCPU, Due, schedvars, tickvars
      <3> QED
        BY Zenon, <1>1, <1>3, <1>4, <2>2, <2>8, <3>1 DEF SameThread, SameWait, TypeOK
    <2>9. WakeOK(p)'
      <3>1. WakeOK(p) /\ (Due(p)' <=> Due(p))
        BY Zenon, <1>3 DEF IInv, Due, tickvars
      <3> QED
        BY Zenon, <1>3, <1>4, <2>4, <3>1 DEF WakeOK
    <2>10. OneStack'
      BY Zenon, <1>1, <1>3 DEF OneStack, schedvars
    <2> QED
      BY Zenon, <2>3, <2>5, <2>6, <2>7, <2>8, <2>9, <2>10, LocalStep
  <1> QED
    BY Zenon, <1>5, <1>6
-----------------------------------------------------------------------------
LEMMA NextInv == IInv /\ [Next]_vars => IInv'
  <1> SUFFICES ASSUME IInv, [Next]_vars PROVE IInv'
    OBVIOUS
  <1>1. ASSUME NEW c \in CPUs, scheduler(c) PROVE IInv'
    BY Zenon, <1>1, SchedLockInv, SchedRunInv, SchedUnlockInv DEF scheduler
  <1>2. ASSUME NEW c \in CPUs, clockintr(c) PROVE IInv'
    BY Zenon, <1>2, ClockTickInv, wakeupInv, ClockUnlockInv, TrapYieldInv DEF clockintr
  <1>3. ASSUME NEW c \in CPUs, NEW p \in Procs, forkret(c, p) PROVE IInv'
    <2>1. pc[p] = "forkret" \/ pc[p] = "usertrapret"
      BY Zenon, <1>3 DEF forkret, InProc
    <2> QED
      BY Zenon, <1>3, <2>1, ForkretReleaseInv, ForkretReturnInv
  <1>4. ASSUME NEW c \in CPUs, NEW p \in Procs, sys_sleep(c, p) PROVE IInv'
    BY Zenon, <1>4, SysSleepEnterInv, SysSleepTestInv, SysSleepReturnInv, SleepLockInv,
       SleepUnlockInv,
       SleepSwitchInv, SleepWokenInv, SleepRelockInv DEF sys_sleep
  <1>5. ASSUME NEW c \in CPUs, NEW p \in Procs, yield(c, p) PROVE IInv'
    BY Zenon, <1>5, YieldLockInv, YieldSwitchInv, YieldUnlockInv, TrapReturnInv DEF yield
  <1>6. CASE UNCHANGED vars
    <2>1. UNCHANGED <<lock, sie, noff, intena, on, spc, spos, hpc, towake, state, chan, pc, trap,
                      saved, ticks, ticks0, panicked>>
      BY <1>6 DEF vars, cpuvars, schedvars, intrvars, procvars, tickvars
    <2>2. TypeOK' /\ ~panicked' /\ OneStack'
      BY Zenon, <2>1 DEF IInv, TypeOK, OneStack
    <2>3. ASSUME NEW c \in CPUs PROVE CpuOK(c)'
      BY Zenon, <2>1, CpuFrame DEF IInv, SameCpu
    <2>4. ASSUME NEW p \in Procs PROVE ThreadOK(p)' /\ WakeOK(p)'
      <3>1. (OnCPU(p)' <=> OnCPU(p)) /\ (Due(p)' <=> Due(p)) /\ (Coming(p)' <=> Coming(p))
        BY <2>1 DEF OnCPU, Due, Coming
      <3> QED
        BY <2>1, <3>1 DEF IInv, ThreadOK, WakeOK
    <2> QED
      BY Zenon, <2>2, <2>3, <2>4 DEF IInv
  <1> QED
    BY Zenon, <1>1, <1>2, <1>3, <1>4, <1>5, <1>6, InterruptInv DEF Next, Step

\* Every state of every behaviour of spinlock.c, the scheduler, sleep, wakeup
\* and the timer interrupt satisfies the inductive invariant.
THEOREM Invariance == Spec => []IInv
  BY InitInv, NextInv, PTL DEF Spec

\* For any number of CPUs and processes, no two CPUs run on one kernel stack and
\* none of the panics of acquire, release, pop_off and sched() is reached.
THEOREM AlwaysOneStackOneCPU == Spec => []OneStackOneCPU
  <1>1. IInv => OneStackOneCPU
    BY Zenon DEF IInv, OneStack, OneStackOneCPU
  <1> QED
    BY <1>1, Invariance, PTL

\* sleep() misses no wakeup: a process that is SLEEPING although its tick has
\* come is one that the wakeup in progress has still to visit.
THEOREM NeverLostWakeup == Spec => []NoLostWakeup
  <1>1. IInv => NoLostWakeup
    BY Zenon DEF IInv, WakeOK, Due, Coming, NoLostWakeup
  <1> QED
    BY <1>1, Invariance, PTL

\* The interrupt enable bit of kernel code without locks is what it was before
\* the locks were taken, also when sched() returns on another CPU.
THEOREM InterruptsAlwaysRestored == Spec => []InterruptsRestored
  <1>1. ASSUME IInv, NEW c \in CPUs, on[c] # None, hpc[c] = "none", noff[c] = 0,
               pc[on[c]] # "usertrapret"
        PROVE  sie[c] <=> trap[on[c]] = "none"
    <2>1. PICK p \in Procs : p = on[c]
      BY Zenon, <1>1 DEF IInv, TypeOK
    <2>2. /\ trap[p] = "none" /\ pc[p] \in TicksPC => noff[c] # 0
          /\ ThreadHolds(p) => noff[c] # 0
          /\ sie[c] => trap[p] = "none"
          /\ trap[p] = "none" /\ pc[p] \in {"kernel", "relock"} => sie[c]
      BY <1>1, <2>1, InThread DEF IInv
    <2>3. trap[p] = "none" => pc[p] \notin TicksPC /\ pc[p] \notin SlotPC
      BY Zenon, <1>1, <2>2 DEF ThreadHolds
    <2>4. trap[p] = "none" => pc[p] \in {"kernel", "relock"}
      BY Zenon, <1>1, <2>1, <2>3 DEF IInv, TypeOK, BarePC
    <2> QED
      BY Zenon, <2>1, <2>2, <2>4
  <1>2. IInv => InterruptsRestored
    BY Zenon, <1>1 DEF InterruptsRestored
  <1> QED
    BY <1>2, Invariance, PTL
=============================================================================
