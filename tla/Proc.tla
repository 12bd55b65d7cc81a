-------------------------------- MODULE Proc --------------------------------
(***************************************************************************)
(* The process table of kernel/proc.c: fork, exit, wait and kill.  A step  *)
(* is what happens under one acquisition of wait_lock or of p->lock.       *)
(* RUNNABLE stands for RUNNING too; sleep and wakeup are the atomic steps  *)
(* that module Sched justifies.  Slot 1 is initproc.                       *)
(***************************************************************************)
EXTENDS Integers, FiniteSets, FiniteSetsExt

CONSTANTS
    NPROC,     \* slots
    MaxPid,    \* bound on the processes ever created
    KillPids,  \* the arguments processes pass to kill
    None

Slots == 1..NPROC
initproc == 1

ASSUME ProcAssumption ==
    /\ NPROC \in Nat \ {0} /\ MaxPid \in Nat \ {0}
    /\ KillPids \subseteq Nat /\ None \notin Slots

VARIABLES
    state, pid, parent, killed,    \* the fields of struct proc
    nextpid,
    wait_lock,   \* the process that keeps it from one step to the next, or None
    pc,          \* the place of the slot's kernel thread
    child,       \* np of a fork in progress
    named        \* history: the pids kill was called with

lockvars == <<wait_lock, child>>
vars == <<state, pid, parent, killed, nextpid, lockvars, pc, named>>

\* userinit has run.
Init ==
    /\ state = [p \in Slots |-> IF p = initproc THEN "RUNNABLE" ELSE "UNUSED"]
    /\ pid = [p \in Slots |-> IF p = initproc THEN 1 ELSE 0]
    /\ parent = [p \in Slots |-> None]
    /\ killed = [p \in Slots |-> FALSE]
    /\ nextpid = 2
    /\ wait_lock = None
    /\ pc = [p \in Slots |-> IF p = initproc THEN "user" ELSE "none"]
    /\ child = [p \in Slots |-> None]
    /\ named = {}
-----------------------------------------------------------------------------
Unused == {p \in Slots : state[p] = "UNUSED"}
Children(p) == {s \in Slots : parent[s] = p}
Zombies(p) == {s \in Children(p) : state[s] = "ZOMBIE"}

\* p runs at place l.
At(p, l) == state[p] = "RUNNABLE" /\ pc[p] = l
\* p traps into the kernel and usertrap lets it make a system call.
MayCall(p) == At(p, "user") /\ ~killed[p]

Goto(p, l) == pc' = [pc EXCEPT ![p] = l]

\* Mutated forms, one plausible slip in proc.c each.
reparentForgotten(p) == parent
wakeupLost(sts, q) == sts
ExitedUnlocked(s) == TRUE

\* wakeup(q) in exit and reparent: q sleeps on its own address in wait.
wakeup(sts, q) ==
    [p \in Slots |-> IF p = q /\ sts[p] = "SLEEPING" THEN "RUNNABLE" ELSE sts[p]]

allocpid == nextpid' = nextpid + 1

freeproc(p) ==
    /\ state' = [state EXCEPT ![p] = "UNUSED"]
    /\ pid' = [pid EXCEPT ![p] = 0]
    /\ parent' = [parent EXCEPT ![p] = None]
    /\ killed' = [killed EXCEPT ![p] = FALSE]

\* fork up to release(&np->lock): the first UNUSED slot becomes USED.
ForkAlloc(p) == LET np == Min(Unused) IN
    /\ MayCall(p) /\ Unused # {} /\ nextpid <= MaxPid
    /\ state' = [state EXCEPT ![np] = "USED"]
    /\ pid' = [pid EXCEPT ![np] = nextpid]
    /\ allocpid
    /\ child' = [child EXCEPT ![p] = np]
    /\ Goto(p, "forked")
    /\ UNCHANGED <<parent, killed, wait_lock, named>>

\* kalloc, proc_pagetable or uvmcopy fails: the slot is given back.
ForkNoMemory(p) == LET np == Min(Unused) IN
    /\ MayCall(p) /\ Unused # {} /\ nextpid <= MaxPid
    /\ allocpid
    /\ freeproc(np)
    /\ UNCHANGED <<lockvars, pc, named>>

ForkParent(p) ==
    /\ At(p, "forked") /\ wait_lock = None
    /\ parent' = [parent EXCEPT ![child[p]] = p]
    /\ Goto(p, "parented")
    /\ UNCHANGED <<state, pid, killed, nextpid, lockvars, named>>

ForkRunnable(p) ==
    /\ At(p, "parented")
    /\ state' = [state EXCEPT ![child[p]] = "RUNNABLE"]
    /\ pc' = [pc EXCEPT ![p] = "user", ![child[p]] = "user"]
    /\ child' = [child EXCEPT ![p] = None]
    /\ UNCHANGED <<pid, parent, killed, nextpid, wait_lock, named>>
-----------------------------------------------------------------------------
\* sys_exit, or usertrap finding p->killed; then the files are closed.  init,
\* which exits when a fork or a wait of its fails, panics.
ExitEnter(p) ==
    /\ At(p, "user")
    /\ Goto(p, IF p = initproc THEN "panic" ELSE "exit")
    /\ UNCHANGED <<state, pid, parent, killed, nextpid, lockvars, named>>

\* for(;;): the thread stays where it is, and the others go on.
panic(p) == pc[p] = "panic" /\ UNCHANGED vars

reparent(p) == [s \in Slots |-> IF parent[s] = p THEN initproc ELSE parent[s]]

\* exit under wait_lock: reparent, the wakeups, ZOMBIE.  p->lock stays held.
ExitZombie(p) ==
    LET woken == IF Children(p) = {} THEN state ELSE wakeup(state, initproc) IN
    /\ At(p, "exit") /\ wait_lock = None
    /\ parent' = reparent(p)
    /\ state' = [wakeup(woken, parent[p]) EXCEPT ![p] = "ZOMBIE"]
    /\ Goto(p, "sched")
    /\ UNCHANGED <<pid, killed, nextpid, lockvars, named>>

\* The scheduler is off p's stack and releases p->lock.
ExitSwitched(p) ==
    /\ pc[p] = "sched"
    /\ Goto(p, "none")
    /\ UNCHANGED <<state, pid, parent, killed, nextpid, lockvars, named>>

\* Acquiring np->lock waits for the child to leave its stack.
Exited(s) == pc[s] # "sched"

\* wait, entered or woken, has wait_lock and starts a scan of the table.
Waiting(p) == wait_lock = None /\ (MayCall(p) \/ At(p, "wait"))

WaitReap(p) == LET np == Min(Zombies(p)) IN
    /\ Waiting(p) /\ Zombies(p) # {} /\ Exited(np)
    /\ freeproc(np)
    /\ Goto(p, "user")
    /\ UNCHANGED <<nextpid, lockvars, named>>

\* copyout of the exit status fails; or there is nothing to wait for.
WaitFails(p) ==
    /\ Waiting(p)
    /\ \/ Zombies(p) # {} /\ Exited(Min(Zombies(p)))
       \/ Zombies(p) = {} /\ (Children(p) = {} \/ killed[p])
    /\ Goto(p, "user")
    /\ UNCHANGED <<state, pid, parent, killed, nextpid, lockvars, named>>

\* The tests before the sleep: kill does not take wait_lock and may follow.
WaitDecides(p) ==
    /\ Waiting(p) /\ Zombies(p) = {} /\ Children(p) # {} /\ ~killed[p]
    /\ wait_lock' = p
    /\ Goto(p, "wait")
    /\ UNCHANGED <<state, pid, parent, killed, nextpid, child, named>>

WaitSleeps(p) ==
    /\ wait_lock = p
    /\ state' = [state EXCEPT ![p] = "SLEEPING"]
    /\ wait_lock' = None
    /\ UNCHANGED <<pid, parent, killed, nextpid, pc, child, named>>
-----------------------------------------------------------------------------
\* kill(n) stops at the first slot with p->pid == n, in use or not.
kill(p, n) == LET named_n == {s \in Slots : pid[s] = n}
                  s == Min(named_n) IN
    /\ MayCall(p)
    /\ named' = named \union {n}
    /\ \/ /\ named_n # {} /\ Exited(s)
          /\ killed' = [killed EXCEPT ![s] = TRUE]
          /\ state' = [state EXCEPT ![s] = IF @ = "SLEEPING" THEN "RUNNABLE" ELSE @]
       \/ named_n = {} /\ UNCHANGED <<killed, state>>
    /\ UNCHANGED <<pid, parent, nextpid, lockvars, pc>>

fork(p) == ForkAlloc(p) \/ ForkNoMemory(p) \/ ForkParent(p) \/ ForkRunnable(p)
exit(p) == ExitEnter(p) \/ panic(p) \/ ExitZombie(p) \/ ExitSwitched(p)
wait(p) == WaitReap(p) \/ WaitFails(p) \/ WaitDecides(p) \/ WaitSleeps(p)

Next == \E p \in Slots : fork(p) \/ exit(p) \/ wait(p) \/ \E n \in KillPids : kill(p, n)

Spec == Init /\ [][Next]_vars
-----------------------------------------------------------------------------
Live == {p \in Slots : state[p] \in {"RUNNABLE", "SLEEPING"}}

\* A slot passes from one process to the next with nothing of the former in it:
\* wait never frees one whose thread is still on its kernel stack ("make sure
\* the child isn't still in exit() or swtch()"), no two processes share a pid,
\* and only processes that a kill named are killed.  The exception is kill(0),
\* which marks an unused slot and so the process that is created in it next.
SlotReuse ==
    /\ \A p \in Slots : state[p] \in {"UNUSED", "USED"} => pc[p] = "none"
    /\ \A p, q \in Slots : p # q /\ pid[p] = pid[q] => pid[p] = 0
    /\ \A p \in Live : killed[p] => pid[p] \in named \/ 0 \in named

\* No orphans: every process but init, dead or alive, has a live parent that
\* can still wait for it, whatever exits and forks overlap, and one asleep in
\* wait has children none of which has exited, not even a child just inherited.
FamilySound ==
    /\ \A p \in (Live \union {s \in Slots : state[s] = "ZOMBIE"}) \ {initproc} : parent[p] \in Live
    /\ \A p \in Slots : state[p] = "SLEEPING" => Children(p) # {} /\ Zombies(p) = {}

\* wait_lock is granted to every process that waits for it; init calls wait.
Fairness == \A p \in Slots :
    /\ WF_vars(ForkParent(p) \/ ForkRunnable(p) \/ ExitSwitched(p) \/ WaitSleeps(p))
    /\ SF_vars(ForkParent(p)) /\ SF_vars(ExitZombie(p))
    /\ p = initproc => SF_vars(WaitReap(p))
FairSpec == Spec /\ Fairness

\* Every process that has exited is reaped, by init once its parent has exited
\* too; only a live parent other than init may leave it a zombie, or the panic
\* that ends init.
ZombieReaped == \A p \in Slots :
    state[p] = "ZOMBIE" ~> state[p] = "UNUSED" \/ parent[p] \in Live \ {initproc} \/ pc[initproc] = "panic"
=============================================================================
