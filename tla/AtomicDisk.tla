------------------------------ MODULE AtomicDisk ------------------------------
(***************************************************************************)
(* What the logging layer (kernel/log.c) promises its callers: the writes  *)
(* of file-system operations reach the disk in atomic groups of completed  *)
(* operations, and a crash loses only a group that has not committed.      *)
(***************************************************************************)
CONSTANTS Procs, Blocks, Vals

VARIABLES
    stable,   \* the contents a reboot would find after recovery
    current,  \* the contents the running file system reads
    active    \* the processes between begin_op and end_op

vars == <<stable, current, active>>

Init ==
    /\ stable \in [Blocks -> Vals]
    /\ current = stable
    /\ active = {}

Begin(p) ==
    /\ active' = active \union {p}
    /\ UNCHANGED <<stable, current>>

Write(p, b, v) ==
    /\ p \in active
    /\ current' = [current EXCEPT ![b] = v]
    /\ UNCHANGED <<stable, active>>

End(p) ==
    /\ active' = active \ {p}
    /\ UNCHANGED <<stable, current>>

\* Only whole operations commit: none may be in progress.
Commit ==
    /\ active = {}
    /\ stable' = current
    /\ UNCHANGED <<current, active>>

Crash ==
    /\ current' = stable
    /\ active' = {}
    /\ UNCHANGED stable

Next ==
    \/ \E p \in Procs : Begin(p) \/ End(p)
    \/ \E p \in Procs, b \in Blocks, v \in Vals : Write(p, b, v)
    \/ Commit
    \/ Crash

Spec == Init /\ [][Next]_vars
===============================================================================
