------------------------------- MODULE Shell --------------------------------
(***************************************************************************)
(* init and the shell: main and runcmd of user/sh.c and main of            *)
(* user/init.c, as the processes they fork, with the descriptors these     *)
(* hold.  A step is one system call, or those of one process up to the     *)
(* next that another process can notice.  What flows through a pipe is     *)
(* left out (module Pipe): a reader sees the end of file when no process   *)
(* holds the write end.                                                    *)
(***************************************************************************)
EXTENDS ShellParser, FiniteSetsExt

CONSTANTS
    NPROC,
    NOFILE,    \* descriptors of a process
    Lines,     \* what the user types: sequences of tokens
    MaxBack,   \* bound: the user types while no more processes are in the background
    Readers    \* programs that read standard input to its end

ASSUME ShellAssumption ==
    /\ NPROC \in Nat /\ NPROC > 2 /\ NOFILE \in Nat /\ NOFILE > 4 /\ MAXARGS \in Nat
    /\ Readers \subseteq Words /\ Words \intersect Symbols = {}

Slots == 1..NPROC
initproc == 1
FDs == 0..(NOFILE - 1)
NoFile == <<"none", 0>>
Console == <<"console", 0>>
Disk == <<"file", 0>>
Closed == [fd \in FDs |-> NoFile]

VARIABLES
    state, parent,  \* the process table; state is UNUSED, RUN or ZOMBIE
    pc, cmd,        \* where a process is and what it has to run
    ofile,          \* ofile[p]: the files behind its descriptors
    pfd,            \* pfd[p]: int p[2] of runcmd, which a child inherits
    shell,          \* the pid init waits for
    back,           \* history: the processes that no one is meant to wait for
    halted          \* init has exited

vars == <<state, parent, pc, cmd, ofile, pfd, shell, back, halted>>

Init ==
    /\ state = [p \in Slots |-> IF p = initproc THEN "RUN" ELSE "UNUSED"]
    /\ parent = [p \in Slots |-> initproc]
    /\ pc = [p \in Slots |-> IF p = initproc THEN "start" ELSE "none"]
    /\ cmd = [p \in Slots |-> execcmd(<<>>)]
    /\ ofile = [p \in Slots |-> Closed]
    /\ pfd = [p \in Slots |-> <<0, 0>>]
    /\ shell = initproc /\ back = {} /\ halted = FALSE
-----------------------------------------------------------------------------
\* Descriptors: the lowest free one is taken.
FreeFDs(f) == {fd \in FDs : f[fd] = NoFile}
Close(f, fd) == [f EXCEPT ![fd] = NoFile]
Take(f, file) == [f EXCEPT ![Min(FreeFDs(f))] = file]
Dup(f, fd) == Take(f, f[fd])

Ends(e) == {p \in Slots : \E fd \in FDs : ofile[p][fd] = e}
PipesUsed == {ofile[p][fd][2] : p \in Slots, fd \in FDs}
NewPipe == Min((1..NPROC) \ PipesUsed)

At(p, l) == ~halted /\ state[p] = "RUN" /\ pc[p] = l
Free == {p \in Slots : state[p] = "UNUSED"}

\* fork by p, whose descriptors are f and p[2] is e: the child starts at l on c.
Fork(p, next, f, e, l, c, bg) == LET q == Min(Free) IN
    /\ state' = [state EXCEPT ![q] = "RUN"]
    /\ parent' = [parent EXCEPT ![q] = p]
    /\ pc' = [pc EXCEPT ![p] = next, ![q] = l]
    /\ cmd' = [cmd EXCEPT ![q] = c]
    /\ ofile' = [ofile EXCEPT ![p] = f, ![q] = f]
    /\ pfd' = [pfd EXCEPT ![p] = e, ![q] = e]
    /\ back' = IF bg \/ p \in back THEN back \union {q} ELSE back
    /\ UNCHANGED halted

\* The processes forked by p, by those, and so on.
Ancestor(q, k) == LET up[n \in 0..k] == IF n = 0 THEN q ELSE parent[up[n - 1]] IN up[k]
Below(p) == {q \in Slots : state[q] = "RUN" /\ \E k \in 1..NPROC : Ancestor(q, k) = p}

\* exit: the files are closed, the children go to init; init never exits.
\* Where a fork failed, no one waits for those that were forked before.
Exit(p, failed) ==
    /\ state' = [state EXCEPT ![p] = "ZOMBIE"]
    /\ parent' = [q \in Slots |-> IF parent[q] = p THEN initproc ELSE parent[q]]
    /\ pc' = [pc EXCEPT ![p] = "none"]
    /\ cmd' = [cmd EXCEPT ![p] = execcmd(<<>>)]
    /\ ofile' = [ofile EXCEPT ![p] = Closed]
    /\ pfd' = [pfd EXCEPT ![p] = <<0, 0>>]
    /\ back' = IF failed THEN back \union Below(p) ELSE back
    /\ halted' = (p = initproc)
    /\ UNCHANGED shell

\* fork1: "Fork but panics on failure".
fork1(p, next, f, e, l, c, bg) ==
    \/ Free # {} /\ Fork(p, next, f, e, l, c, bg) /\ UNCHANGED shell
    \/ Free = {} /\ Exit(p, TRUE)

\* wait(0): a zombie child is freed; without children it returns at once.
Wait(p) == LET kids == {q \in Slots \ {initproc} : state[q] # "UNUSED" /\ parent[q] = p}
               dead == {q \in kids : state[q] = "ZOMBIE"} IN
    /\ kids = {} \/ dead # {}
    /\ LET reaped == IF dead = {} THEN {} ELSE {Min(dead)} IN
        /\ state' = [q \in Slots |-> IF q \in reaped THEN "UNUSED" ELSE state[q]]
        /\ back' = back \ reaped
        /\ shell' = shell

-----------------------------------------------------------------------------
\* main of init: open the console three times, keep a shell running.
InitStart(p) ==
    /\ At(p, "start")
    /\ ofile' = [ofile EXCEPT ![p] = Take(Take(Take(@, Console), Console), Console)]
    /\ pc' = [pc EXCEPT ![p] = "init"]
    /\ UNCHANGED <<state, parent, cmd, pfd, shell, back, halted>>

InitFork(p) ==
    /\ At(p, "init")
    /\ \/ /\ Free # {}
          /\ Fork(p, "reap", ofile[p], pfd[p], "sh", execcmd(<<>>), FALSE)
          /\ shell' = Min(Free)
       \/ Free = {} /\ Exit(p, FALSE)

\* The shell exited, or "it was a parentless process; do nothing".
InitWait(p) ==
    /\ At(p, "reap")
    /\ Wait(p)
    /\ pc' = [pc EXCEPT ![p] = IF state'[shell] = "UNUSED" THEN "init" ELSE "reap"]
    /\ UNCHANGED <<parent, cmd, ofile, pfd, halted>>
-----------------------------------------------------------------------------
\* exec("sh", argv), which may fail, and the start of main of sh: "Ensure
\* that three file descriptors are open".
ShMain(p) ==
    /\ At(p, "sh")
    /\ \/ Exit(p, FALSE)
       \/ /\ ofile' = [ofile EXCEPT ![p] = [fd \in FDs |->
                          IF fd < 3 /\ @[fd] = NoFile THEN Console ELSE @[fd]]]
          /\ pc' = [pc EXCEPT ![p] = "getcmd"]
          /\ UNCHANGED <<state, parent, cmd, pfd, shell, back, halted>>

Parse == [line \in Lines |-> parsecmd(line)]

\* A line is run in a child: runcmd(parsecmd(buf)), whose panic is an exit.
\* (A cd is done by the shell itself and touches nothing that is kept here.)
ShLine(p) ==
    /\ At(p, "getcmd")
    /\ Cardinality(back) <= MaxBack
    /\ \E line \in Lines : LET r == Parse[line] IN
         fork1(p, "shwait", ofile[p], pfd[p], IF r.ok THEN "run" ELSE "exit", r.cmd, FALSE)

ShEOF(p) == At(p, "getcmd") /\ Exit(p, FALSE)

ShWait(p) ==
    /\ At(p, "shwait")
    /\ Wait(p)
    /\ pc' = [pc EXCEPT ![p] = "getcmd"]
    /\ UNCHANGED <<parent, cmd, ofile, pfd, halted>>
-----------------------------------------------------------------------------
Runs(p, type) == At(p, "run") /\ cmd[p].type = type

\* EXEC: the program starts, or it is missing or does not fit.
RunExec(p) == LET argv == cmd[p].argv IN
    /\ Runs(p, "EXEC")
    /\ \/ Exit(p, FALSE)
       \/ /\ argv # <<>>
          /\ pc' = [pc EXCEPT ![p] = "program"]
          /\ UNCHANGED <<state, parent, cmd, ofile, pfd, shell, back, halted>>

\* REDIR: the file is opened in the place of the descriptor, or it cannot be.
RunRedir(p) ==
    /\ Runs(p, "REDIR")
    /\ \/ Exit(p, FALSE)
       \/ /\ ofile' = [ofile EXCEPT ![p] = Take(Close(@, cmd[p].fd), Disk)]
          /\ cmd' = [cmd EXCEPT ![p] = @.cmd]
          /\ UNCHANGED <<state, parent, pc, pfd, shell, back, halted>>

RunList(p) ==
    /\ Runs(p, "LIST")
    /\ fork1(p, "list", ofile[p], pfd[p], "run", cmd[p].left, FALSE)

ListWait(p) ==
    /\ At(p, "list")
    /\ Wait(p)
    /\ pc' = [pc EXCEPT ![p] = "run"]
    /\ cmd' = [cmd EXCEPT ![p] = @.right]
    /\ UNCHANGED <<parent, ofile, pfd, halted>>

\* PIPE: pipe(p), which may fail for want of memory, and the fork of the left side.
RunPipe(p) == LET f == ofile[p]
                  r == Min(FreeFDs(f))
                  w == Min(FreeFDs(f) \ {r})
                  k == NewPipe IN
    /\ Runs(p, "PIPE")
    /\ \/ Exit(p, FALSE)
       \/ fork1(p, "fork2", [f EXCEPT ![r] = <<"r", k>>, ![w] = <<"w", k>>], <<r, w>>,
                "left", cmd[p].left, FALSE)

RunPipeRight(p) ==
    /\ At(p, "fork2")
    /\ fork1(p, "close", ofile[p], pfd[p], "right", cmd[p].right, FALSE)

\* Mutated form: the parent keeps the write end open.
BothClosedNot(f, e) == Close(f, e[1])

\* A child puts its end in the place of descriptor fd and closes p[0] and p[1].
Plugged(f, fd, e, end) == Close(Close(Dup(Close(f, fd), e[end]), e[1]), e[2])

BothClosed(f, e) == Close(Close(f, e[1]), e[2])

PlugIn(p) ==
    /\ \/ At(p, "left") /\ ofile' = [ofile EXCEPT ![p] = Plugged(@, 1, pfd[p], 2)]
       \/ At(p, "right") /\ ofile' = [ofile EXCEPT ![p] = Plugged(@, 0, pfd[p], 1)]
    /\ pc' = [pc EXCEPT ![p] = "run"]
    /\ UNCHANGED <<state, parent, cmd, pfd, shell, back, halted>>

PipeClose(p) ==
    /\ At(p, "close")
    /\ ofile' = [ofile EXCEPT ![p] = BothClosed(@, pfd[p])]
    /\ pc' = [pc EXCEPT ![p] = "wait1"]
    /\ UNCHANGED <<state, parent, cmd, pfd, shell, back, halted>>

\* Mutated form: only one side of the pipe is waited for.
AfterWaitOnce(l) == "exit"
AfterWait(l) == IF l = "wait1" THEN "wait2" ELSE "exit"

PipeWait(p) ==
    /\ At(p, "wait1") \/ At(p, "wait2")
    /\ Wait(p)
    /\ pc' = [pc EXCEPT ![p] = AfterWait(@)]
    /\ UNCHANGED <<parent, cmd, ofile, pfd, halted>>

RunBack(p) ==
    /\ Runs(p, "BACK")
    /\ fork1(p, "exit", ofile[p], pfd[p], "run", cmd[p].cmd, TRUE)

RunExit(p) == At(p, "exit") /\ Exit(p, FALSE)

\* A program ends; one that reads a pipe does not as long as it can be written.
Starved(p) == LET in == ofile[p][0] IN
    cmd[p].argv[1] \in Readers /\ in[1] = "r" /\ Ends(<<"w", in[2]>>) # {}

ProgramEnds(p) == At(p, "program") /\ ~Starved(p) /\ Exit(p, FALSE)
-----------------------------------------------------------------------------
Step(p) ==
    \/ InitStart(p) \/ InitFork(p) \/ InitWait(p) \/ ShMain(p) \/ ShWait(p)
    \/ RunExec(p) \/ RunRedir(p) \/ RunList(p) \/ ListWait(p)
    \/ RunPipe(p) \/ RunPipeRight(p) \/ PlugIn(p) \/ PipeClose(p) \/ PipeWait(p)
    \/ RunBack(p) \/ RunExit(p) \/ ProgramEnds(p)

\* After init exited, the kernel has panicked.
Halted == halted /\ UNCHANGED vars

Next == (\E p \in Slots : Step(p) \/ ShLine(p) \/ ShEOF(p)) \/ Halted

Spec == Init /\ [][Next]_vars
-----------------------------------------------------------------------------
\* When the shell prompts, everything its earlier lines started in the
\* foreground is over: what still runs was put in the background, or was left
\* behind by a fork1 that failed.
ForegroundDone == \A p \in Slots : At(p, "getcmd") =>
    \A q \in Slots \ {initproc, p} : state[q] = "RUN" => q \in back

\* The shell is not kept from its next prompt: while it waits for a line,
\* its child is a zombie or some process of that line can take a step, so the
\* processes of a pipeline never all wait for one another.
Blocked(p) == \/ pc[p] \in {"list", "wait1", "wait2"}
                 /\ \A q \in Slots : parent[q] = p => state[q] # "ZOMBIE"
              \/ pc[p] = "program" /\ Starved(p)

ForegroundMoves == \A p \in Slots : At(p, "shwait") =>
    \/ \E q \in Slots : parent[q] = p /\ state[q] = "ZOMBIE"
    \/ \E q \in Below(p) : ~Blocked(q)
=============================================================================
