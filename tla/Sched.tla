------------------------------- MODULE Sched -------------------------------
(***************************************************************************)
(* Spin-locks (kernel/spinlock.c), the scheduler, sleep and wakeup         *)
(* (kernel/proc.c) and the timer interrupt (kernel/trap.c), one step per   *)
(* lock operation or context switch.  The processes call sys_sleep(1)      *)
(* (kernel/sysproc.c) over and over; clockintr on CPU Clock wakes them.    *)
(* Every other user of sleep and wakeup follows the same pattern.          *)
(***************************************************************************)
EXTENDS Integers, FiniteSets, FiniteSetsExt

CONSTANTS
    CPUs, Clock,  \* the harts, and the one with cpuid() = 0
    NPROC,        \* the slots of the process table
    TicksMod,     \* ticks is a uint: 2^32 in the code
    None

Procs == 1..NPROC
TicksLock == 0                      \* tickslock; p->lock is lock p
Locks == {TicksLock} \union Procs

ASSUME SchedAssumption ==
    /\ Clock \in CPUs /\ None \notin CPUs /\ None \notin Procs
    /\ NPROC \in Nat \ {0} /\ TicksMod \in Nat \ {0, 1}

VARIABLES
    lock,                \* lk->locked and lk->cpu: the holder, or None
    sie, noff, intena,   \* each CPU's interrupt enable, c->noff, c->intena
    on,                  \* c->proc, also which kernel stack the CPU is on
    spc, spos,           \* the scheduler's place, and the slot it looks at
    hpc, towake,         \* the interrupt handler's place, and wakeup's loop
    state, chan,         \* p->state, and whether p->chan is &ticks
    pc, trap, saved,     \* p's place, its place in a trap, sched()'s intena
    ticks, ticks0,
    panicked

cpuvars == <<lock, sie, noff, intena>>
schedvars == <<on, spc, spos>>
intrvars == <<hpc, towake>>
procvars == <<state, chan, pc, trap, saved>>
tickvars == <<ticks, ticks0>>
vars == <<cpuvars, schedvars, intrvars, procvars, tickvars, panicked>>

\* After main(): every CPU is in scheduler(), every process in forkret.
Init ==
    /\ lock = [l \in Locks |-> None]
    /\ sie = [c \in CPUs |-> TRUE]
    /\ noff = [c \in CPUs |-> 0]
    /\ intena = [c \in CPUs |-> FALSE]
    /\ on = [c \in CPUs |-> None]
    /\ spc = [c \in CPUs |-> "scan"] /\ spos = [c \in CPUs |-> 1]
    /\ hpc = [c \in CPUs |-> "none"] /\ towake = [c \in CPUs |-> {}]
    /\ state = [p \in Procs |-> "RUNNABLE"]
    /\ chan = [p \in Procs |-> FALSE]
    /\ pc = [p \in Procs |-> "forkret"] /\ trap = [p \in Procs |-> "none"]
    /\ saved = [p \in Procs |-> FALSE]
    /\ ticks = 0 /\ ticks0 = [p \in Procs |-> 0]
    /\ panicked = FALSE
-----------------------------------------------------------------------------
push_off(c) ==
    /\ sie' = [sie EXCEPT ![c] = FALSE]
    /\ intena' = IF noff[c] = 0 THEN [intena EXCEPT ![c] = sie[c]] ELSE intena
    /\ noff' = [noff EXCEPT ![c] = @ + 1]

\* pop_off when c->intena is en.
pop_off(c, en) ==
    /\ noff' = [noff EXCEPT ![c] = @ - 1]
    /\ sie' = [sie EXCEPT ![c] = noff[c] = 1 /\ en]
    /\ intena' = [intena EXCEPT ![c] = en]

\* acquire spins until the lock is free, and panics on a lock the CPU holds.
acquire(c, l) ==
    /\ lock[l] \in {None, c}
    /\ lock' = [lock EXCEPT ![l] = c]
    /\ push_off(c)
    /\ panicked' = (lock[l] = c)

release(c, l) ==
    /\ lock' = [lock EXCEPT ![l] = None]
    /\ pop_off(c, intena[c])
    /\ panicked' = (lock[l] # c \/ sie[c] \/ noff[c] < 1)

\* CPU c executes the scheduler, a handler, p in the kernel, p in a trap.
InScheduler(c, l) == ~panicked /\ on[c] = None /\ hpc[c] = "none" /\ spc[c] = l
InHandler(c, l) == ~panicked /\ hpc[c] = l
InProc(c, p, l) == ~panicked /\ on[c] = p /\ hpc[c] = "none" /\ trap[p] = "none" /\ pc[p] = l
InTrap(c, p, l) == ~panicked /\ on[c] = p /\ hpc[c] = "none" /\ trap[p] = l

Goto(p, l) == pc' = [pc EXCEPT ![p] = l]
-----------------------------------------------------------------------------
\* scheduler(): lock a slot, run it if it is RUNNABLE, unlock it.
SchedLock(c) ==
    /\ InScheduler(c, "scan")
    /\ acquire(c, spos[c])
    /\ spc' = [spc EXCEPT ![c] = "look"]
    /\ UNCHANGED <<on, spos, intrvars, procvars, tickvars>>

SchedRun(c) == LET p == spos[c] IN
    /\ InScheduler(c, "look")
    /\ \/ /\ state[p] = "RUNNABLE"
          /\ state' = [state EXCEPT ![p] = "RUNNING"]
          /\ on' = [on EXCEPT ![c] = p]
       \/ state[p] # "RUNNABLE" /\ UNCHANGED <<state, on>>
    /\ spc' = [spc EXCEPT ![c] = "unlock"]
    /\ UNCHANGED <<cpuvars, spos, intrvars, chan, pc, trap, saved, tickvars, panicked>>

NextSlot(p) == IF p = NPROC THEN 1 ELSE p + 1

\* A new pass over the table starts with intr_on().
SchedUnlock(c) == LET p == spos[c] IN
    /\ InScheduler(c, "unlock")
    /\ lock' = [lock EXCEPT ![p] = None]
    /\ noff' = [noff EXCEPT ![c] = @ - 1]
    /\ sie' = [sie EXCEPT ![c] = intena[c] \/ p = NPROC]
    /\ panicked' = (lock[p] # c \/ sie[c] \/ noff[c] # 1)
    /\ spc' = [spc EXCEPT ![c] = "scan"]
    /\ spos' = [spos EXCEPT ![c] = NextSlot(p)]
    /\ UNCHANGED <<intena, on, intrvars, procvars, tickvars>>

\* sched(): p, whose state has changed, leaves the CPU.
sched(c, p) ==
    /\ panicked' = (lock[p] # c \/ noff[c] # 1 \/ sie[c])
    /\ saved' = [saved EXCEPT ![p] = intena[c]]
    /\ on' = [on EXCEPT ![c] = None]

\* Mutated form: the interrupt flag is the one this CPU happens to have.
SchedReturnUnsaved(c, p) ==
    /\ lock' = [lock EXCEPT ![p] = None]
    /\ pop_off(c, intena[c])
    /\ panicked' = (lock[p] # c \/ sie[c] \/ noff[c] < 1)

\* sched() returns, perhaps on another CPU, and the caller drops p->lock.
SchedReturn(c, p) ==
    /\ lock' = [lock EXCEPT ![p] = None]
    /\ pop_off(c, saved[p])
    /\ panicked' = (lock[p] # c \/ sie[c] \/ noff[c] < 1)

\* A process's first run: forkret, then usertrapret enables interrupts.
forkret(c, p) ==
    \/ /\ InProc(c, p, "forkret")
       /\ release(c, p)
       /\ Goto(p, "usertrapret")
       /\ UNCHANGED <<schedvars, intrvars, state, chan, trap, saved, tickvars>>
    \/ /\ InProc(c, p, "usertrapret")
       /\ sie' = [sie EXCEPT ![c] = TRUE]
       /\ Goto(p, "kernel")
       /\ UNCHANGED <<lock, noff, intena, schedvars, intrvars, state, chan, trap, saved,
                      tickvars, panicked>>
-----------------------------------------------------------------------------
\* sys_sleep(1).
SysSleepEnter(c, p) ==
    /\ InProc(c, p, "kernel")
    /\ acquire(c, TicksLock)
    /\ ticks0' = [ticks0 EXCEPT ![p] = ticks]
    /\ Goto(p, "test")
    /\ UNCHANGED <<schedvars, intrvars, state, chan, trap, saved, ticks>>

SysSleepTest(c, p) ==
    /\ InProc(c, p, "test")
    /\ Goto(p, IF (ticks - ticks0[p]) % TicksMod < 1 THEN "sleep" ELSE "unlock")
    /\ UNCHANGED <<cpuvars, schedvars, intrvars, state, chan, trap, saved, tickvars, panicked>>

SysSleepReturn(c, p) ==
    /\ InProc(c, p, "unlock")
    /\ release(c, TicksLock)
    /\ Goto(p, "kernel")
    /\ UNCHANGED <<schedvars, intrvars, state, chan, trap, saved, tickvars>>

\* sleep(): p->lock is taken before the caller's lock is dropped.
SleepLock(c, p) ==
    /\ InProc(c, p, "sleep")
    /\ acquire(c, p)
    /\ Goto(p, "locked")
    /\ UNCHANGED <<schedvars, intrvars, state, chan, trap, saved, tickvars>>

SleepUnlock(c, p) ==
    /\ InProc(c, p, "locked")
    /\ release(c, TicksLock)
    /\ Goto(p, "asleep")
    /\ UNCHANGED <<schedvars, intrvars, state, chan, trap, saved, tickvars>>

SleepSwitch(c, p) ==
    /\ InProc(c, p, "asleep")
    /\ chan' = [chan EXCEPT ![p] = TRUE]
    /\ state' = [state EXCEPT ![p] = "SLEEPING"]
    /\ sched(c, p)
    /\ Goto(p, "woken")
    /\ UNCHANGED <<cpuvars, spc, spos, intrvars, trap, tickvars>>

SleepWoken(c, p) ==
    /\ InProc(c, p, "woken")
    /\ chan' = [chan EXCEPT ![p] = FALSE]
    /\ SchedReturn(c, p)
    /\ Goto(p, "relock")
    /\ UNCHANGED <<schedvars, intrvars, state, trap, saved, tickvars>>

SleepRelock(c, p) ==
    /\ InProc(c, p, "relock")
    /\ acquire(c, TicksLock)
    /\ Goto(p, "test")
    /\ UNCHANGED <<schedvars, intrvars, state, chan, trap, saved, tickvars>>
-----------------------------------------------------------------------------
\* The timer interrupts CPU c; clockintr runs on the first hart only.
Interrupt(c) ==
    /\ ~panicked /\ sie[c] /\ hpc[c] = "none"
    /\ sie' = [sie EXCEPT ![c] = FALSE]
    /\ hpc' = [hpc EXCEPT ![c] = IF c = Clock THEN "clockintr" ELSE "yield"]
    /\ UNCHANGED <<lock, noff, intena, schedvars, towake, procvars, tickvars, panicked>>

ToWake(c) == Procs \ {on[c]}

\* clockintr: ticks++ under tickslock; wakeup visits all but myproc().
ClockTick(c) ==
    /\ InHandler(c, "clockintr")
    /\ acquire(c, TicksLock)
    /\ ticks' = (ticks + 1) % TicksMod
    /\ towake' = [towake EXCEPT ![c] = ToWake(c)]
    /\ hpc' = [hpc EXCEPT ![c] = "wakeup"]
    /\ UNCHANGED <<schedvars, procvars, ticks0>>

\* Mutated form: wakeup does not take the lock of the process.
wakeupUnlocked(c) == LET p == Min(towake[c]) IN
    /\ InHandler(c, "wakeup") /\ towake[c] # {}
    /\ state' = [state EXCEPT ![p] = IF @ = "SLEEPING" /\ chan[p] THEN "RUNNABLE" ELSE @]
    /\ towake' = [towake EXCEPT ![c] = @ \ {p}]
    /\ UNCHANGED <<cpuvars, schedvars, hpc, chan, pc, trap, saved, tickvars, panicked>>

\* One iteration of wakeup(&ticks), under p->lock.
wakeup(c) == LET p == Min(towake[c]) IN
    /\ InHandler(c, "wakeup") /\ towake[c] # {}
    /\ lock[p] \in {None, c}
    /\ panicked' = (lock[p] = c)
    /\ state' = [state EXCEPT ![p] = IF @ = "SLEEPING" /\ chan[p] THEN "RUNNABLE" ELSE @]
    /\ towake' = [towake EXCEPT ![c] = @ \ {p}]
    /\ UNCHANGED <<cpuvars, schedvars, hpc, chan, pc, trap, saved, tickvars>>

ClockUnlock(c) ==
    /\ InHandler(c, "wakeup") /\ towake[c] = {}
    /\ release(c, TicksLock)
    /\ hpc' = [hpc EXCEPT ![c] = "yield"]
    /\ UNCHANGED <<schedvars, towake, procvars, tickvars>>

\* kerneltrap and usertrap: yield if a process was running, else return.
TrapYield(c) ==
    /\ InHandler(c, "yield")
    /\ hpc' = [hpc EXCEPT ![c] = "none"]
    /\ IF on[c] # None
       THEN trap' = [trap EXCEPT ![on[c]] = "yield"] /\ UNCHANGED sie
       ELSE sie' = [sie EXCEPT ![c] = TRUE] /\ UNCHANGED trap
    /\ UNCHANGED <<lock, noff, intena, schedvars, towake, state, chan, pc, saved, tickvars, panicked>>

\* Mutated form: yield does not take the lock of the process.
YieldUnlocked(c, p) ==
    /\ InTrap(c, p, "yield")
    /\ state' = [state EXCEPT ![p] = "RUNNABLE"]
    /\ trap' = [trap EXCEPT ![p] = "switch"]
    /\ UNCHANGED <<cpuvars, schedvars, intrvars, chan, pc, saved, tickvars, panicked>>

YieldLock(c, p) ==
    /\ InTrap(c, p, "yield")
    /\ acquire(c, p)
    /\ state' = [state EXCEPT ![p] = "RUNNABLE"]
    /\ trap' = [trap EXCEPT ![p] = "switch"]
    /\ UNCHANGED <<schedvars, intrvars, chan, pc, saved, tickvars>>

YieldSwitch(c, p) ==
    /\ InTrap(c, p, "switch")
    /\ sched(c, p)
    /\ trap' = [trap EXCEPT ![p] = "resumed"]
    /\ UNCHANGED <<cpuvars, spc, spos, intrvars, state, chan, pc, tickvars>>

YieldUnlock(c, p) ==
    /\ InTrap(c, p, "resumed")
    /\ SchedReturn(c, p)
    /\ trap' = [trap EXCEPT ![p] = "sret"]
    /\ UNCHANGED <<schedvars, intrvars, state, chan, pc, saved, tickvars>>

\* sret restores the interrupted code's enable bit.
TrapReturn(c, p) ==
    /\ InTrap(c, p, "sret")
    /\ sie' = [sie EXCEPT ![c] = TRUE]
    /\ trap' = [trap EXCEPT ![p] = "none"]
    /\ UNCHANGED <<lock, noff, intena, schedvars, intrvars, state, chan, pc, saved, tickvars, panicked>>
-----------------------------------------------------------------------------
scheduler(c) == SchedLock(c) \/ SchedRun(c) \/ SchedUnlock(c)
sys_sleep(c, p) ==
    \/ SysSleepEnter(c, p) \/ SysSleepTest(c, p) \/ SysSleepReturn(c, p)
    \/ SleepLock(c, p) \/ SleepUnlock(c, p) \/ SleepSwitch(c, p)
    \/ SleepWoken(c, p) \/ SleepRelock(c, p)
clockintr(c) == ClockTick(c) \/ wakeup(c) \/ ClockUnlock(c) \/ TrapYield(c)
yield(c, p) == YieldLock(c, p) \/ YieldSwitch(c, p) \/ YieldUnlock(c, p) \/ TrapReturn(c, p)

Step(c) ==
    \/ scheduler(c) \/ clockintr(c)
    \/ \E p \in Procs : forkret(c, p) \/ sys_sleep(c, p) \/ yield(c, p)

Next == \E c \in CPUs : Step(c) \/ Interrupt(c)

Spec == Init /\ [][Next]_vars
-----------------------------------------------------------------------------
\* No two CPUs run on one kernel stack: p->lock is held from the change of
\* p->state until the switch away is complete.  No CPU takes a lock it holds,
\* even from an interrupt, and no process leaves the CPU with another lock held:
\* the panics of spinlock.c and sched() are not reached.
OneStackOneCPU ==
    /\ ~panicked
    /\ \A c, d \in CPUs : c # d /\ on[c] # None => on[c] # on[d]

\* A process whose tick has come and that is still SLEEPING is going to be
\* visited by the wakeup in progress (the comment in sleep(): "we won't miss
\* any wakeup").
NoLostWakeup == \A p \in Procs :
    state[p] = "SLEEPING" /\ (ticks - ticks0[p]) % TicksMod >= 1 =>
        \E c \in CPUs : hpc[c] = "wakeup" /\ p \in towake[c]

\* In kernel code outside traps, with no lock held, interrupts are on, even
\* after a switch to another CPU whose c->intena differs (sched() saves it).
InterruptsRestored == \A c \in CPUs :
    on[c] # None /\ hpc[c] = "none" /\ noff[c] = 0 /\ pc[on[c]] # "usertrapret" =>
        (sie[c] <=> trap[on[c]] = "none")
=============================================================================
