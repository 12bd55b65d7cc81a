------------------------------ MODULE Console -------------------------------
(***************************************************************************)
(* Console input, kernel/console.c: consoleintr edits the current line and *)
(* commits it, consoleread takes committed characters, a line at a time.   *)
(* Characters: "x" is any ordinary one.  A read takes one character per    *)
(* step and keeps cons.lock between steps.                                 *)
(***************************************************************************)
EXTENDS Integers, Sequences

CONSTANTS
    Procs,       \* the readers
    INPUT_BUF,
    CtrMod,      \* the indices are uint: 2^32 in the code
    MaxN,        \* bound on the n of a read
    None

\* The circular buffer fits the wrapping indices (128 and 2^32 in the code).
ASSUME ConsoleAssumption ==
    /\ INPUT_BUF \in Nat \ {0} /\ CtrMod \in Nat /\ INPUT_BUF < CtrMod
    /\ CtrMod % INPUT_BUF = 0 /\ MaxN \in Nat /\ None \notin Procs

\* ^P prints the process list and changes nothing; DEL acts as ^H.
Typed == {"x", "\r", "\n", "^D", "^H", "^U", "^P", "nul"}
Stored == {"x", "\n", "^D"}

VARIABLES
    buf, r, w, e,      \* struct cons
    lock,              \* the reader that holds cons.lock, or None
    pc, asleep,
    n, got,            \* of each reader: what it may still read, what it has
    taken,             \* and what its call has consumed (history)
    killed

cons == <<buf, r, w, e>>
vars == <<cons, lock, pc, asleep, n, got, taken, killed>>

Init ==
    /\ buf = [k \in 0..(INPUT_BUF - 1) |-> "x"]
    /\ r = 0 /\ w = 0 /\ e = 0
    /\ lock = None
    /\ pc = [p \in Procs |-> "user"]
    /\ asleep = {}
    /\ n = [p \in Procs |-> 0]
    /\ got = [p \in Procs |-> <<>>] /\ taken = [p \in Procs |-> <<>>]
    /\ killed = {}
-----------------------------------------------------------------------------
Add(a, b) == (a + b) % CtrMod
At(k) == buf[k % INPUT_BUF]

\* Mutated forms, one plausible slip in console.c each.
EraseMore == e' = IF e # r THEN Add(e, -1) ELSE e
wakeupLost == UNCHANGED asleep
WaitBreaks(p) ==
    /\ pc[p] = "read" /\ n[p] > 0 /\ r = w
    /\ pc' = [pc EXCEPT ![p] = IF p \in killed THEN "done" ELSE "sleep"]
    /\ UNCHANGED <<cons, lock, asleep, n, got, taken, killed>>

wakeup == asleep' = {}

Room == Add(e, -r) < INPUT_BUF
\* Whether storing c, which moves e to e1, completes the input.
Commits(c, e1) == c \in {"\n", "^D"} \/ e1 = Add(r, INPUT_BUF)

\* The edit index ^U backs up to.
LineStart(from) ==
    CHOOSE k \in {Add(from, -d) : d \in 0..INPUT_BUF} :
        LET d == Add(from, -k) IN
        /\ d <= Add(from, -w)
        /\ \A j \in 1..d : At(Add(from, -j)) # "\n"
        /\ k = w \/ At(Add(k, -1)) = "\n"

Erase == e' = IF e # w THEN Add(e, -1) ELSE e

\* The default case, for an ordinary character, \r, \n and ^D.
Translate(c) == IF c = "\r" THEN "\n" ELSE c
Store(typed) == LET c == Translate(typed) IN
    IF typed # "nul" /\ Room
    THEN /\ buf' = [buf EXCEPT ![e % INPUT_BUF] = c]
         /\ e' = Add(e, 1)
         /\ IF Commits(c, Add(e, 1)) THEN w' = Add(e, 1) /\ wakeup
                                     ELSE UNCHANGED <<w, asleep>>
    ELSE UNCHANGED <<buf, e, w, asleep>>

consoleintr(c) ==
    /\ lock = None
    /\ CASE c = "^P" -> UNCHANGED <<buf, w, e, asleep>>
         [] c = "^U" -> e' = LineStart(e) /\ UNCHANGED <<buf, w, asleep>>
         [] c = "^H" -> Erase /\ UNCHANGED <<buf, w, asleep>>
         [] OTHER -> Store(c)
    /\ UNCHANGED <<r, lock, pc, n, got, taken, killed>>
-----------------------------------------------------------------------------
Goto(p, l) == pc' = [pc EXCEPT ![p] = l]

\* A read of m bytes; usertrap lets no killed process make one.
Call(p) ==
    /\ pc[p] = "user" /\ p \notin killed
    /\ \E m \in 0..MaxN : n' = [n EXCEPT ![p] = m]
    /\ Goto(p, "acquire")
    /\ UNCHANGED <<cons, lock, asleep, got, taken, killed>>

\* On entry, or at the end of sleep.
Acquire(p) ==
    /\ pc[p] = "acquire" /\ p \notin asleep /\ lock = None
    /\ lock' = p
    /\ Goto(p, "read")
    /\ UNCHANGED <<cons, asleep, n, got, taken, killed>>

Return(p) ==
    /\ lock' = None
    /\ Goto(p, "user")
    /\ n' = [n EXCEPT ![p] = 0]
    /\ got' = [got EXCEPT ![p] = <<>>] /\ taken' = [taken EXCEPT ![p] = <<>>]
    /\ UNCHANGED <<asleep, killed>>

\* The wait loop finds no input: -1 if killed, else sleep.
Wait(p) ==
    /\ pc[p] = "read" /\ n[p] > 0 /\ r = w
    /\ \/ p \in killed /\ Return(p)
       \/ p \notin killed /\ Goto(p, "sleep") /\ UNCHANGED <<lock, asleep, n, got, taken, killed>>
    /\ UNCHANGED cons

Sleep(p) ==
    /\ pc[p] = "sleep"
    /\ asleep' = asleep \union {p}
    /\ lock' = None
    /\ Goto(p, "acquire")
    /\ UNCHANGED <<cons, n, got, taken, killed>>

\* A ^D after some input stays for the next read.
AfterEof(p) == IF got[p] # <<>> THEN r ELSE Add(r, 1)

ReadEof(p) ==
    /\ pc[p] = "read" /\ n[p] > 0 /\ r # w /\ At(r) = "^D"
    /\ r' = AfterEof(p)
    /\ taken' = IF r' = r THEN taken ELSE [taken EXCEPT ![p] = Append(@, At(r))]
    /\ Goto(p, "done")
    /\ UNCHANGED <<buf, w, e, lock, asleep, n, got, killed>>

\* A newline ends the read.
EndsLine(c) == c = "\n"

\* The character is consumed before copyout, which may fail.
ReadChar(p) ==
    /\ pc[p] = "read" /\ n[p] > 0 /\ r # w /\ At(r) # "^D"
    /\ r' = Add(r, 1)
    /\ taken' = [taken EXCEPT ![p] = Append(@, At(r))]
    /\ \/ /\ got' = [got EXCEPT ![p] = Append(@, At(r))]
          /\ n' = [n EXCEPT ![p] = @ - 1]
          /\ IF EndsLine(At(r)) THEN Goto(p, "done") ELSE UNCHANGED pc
       \/ Goto(p, "done") /\ UNCHANGED <<got, n>>
    /\ UNCHANGED <<buf, w, e, lock, asleep, killed>>

Done(p) ==
    /\ pc[p] = "done" \/ (pc[p] = "read" /\ n[p] = 0)
    /\ Return(p)
    /\ UNCHANGED cons

kill(p) ==
    /\ p \notin killed
    /\ killed' = killed \union {p}
    /\ asleep' = asleep \ {p}
    /\ UNCHANGED <<cons, lock, pc, n, got, taken>>

consoleread(p) == Acquire(p) \/ Wait(p) \/ Sleep(p) \/ ReadEof(p) \/ ReadChar(p) \/ Done(p)

Next ==
    \/ \E c \in Typed : consoleintr(c)
    \/ \E p \in Procs : Call(p) \/ consoleread(p) \/ kill(p)

Spec == Init /\ [][Next]_vars
-----------------------------------------------------------------------------
Committed == [k \in 1..Add(w, -r) |-> At(r + k - 1)]

\* Editing reaches only the uncommitted line: a step adds to what is
\* committed or takes its first character, and changes nothing else of it.
CommittedKept == [][\/ /\ Len(Committed) <= Len(Committed')
                       /\ SubSeq(Committed', 1, Len(Committed)) = Committed
                    \/ Committed # <<>> /\ Committed' = Tail(Committed)]_cons

\* Input gets to a reader: a reader sleeps only while there is no committed
\* input, and a full buffer is committed, for otherwise nobody could read it and
\* nobody could add to it.  "copy (up to) a whole input line": a newline ends a
\* read.
InputDelivered ==
    /\ lock = None /\ asleep # {} => r = w
    /\ Add(w, -r) <= Add(e, -r) /\ Add(e, -r) <= INPUT_BUF
    /\ Add(e, -r) = INPUT_BUF => w = e
    /\ \A p \in Procs : \A k \in 1..(Len(got[p]) - 1) : got[p][k] # "\n"

\* p returns the bytes it has: not the -1 of a killed process.
Returns(p) == pc'[p] = "user" /\ (pc[p] = "done" \/ (pc[p] = "read" /\ n[p] = 0))

\* "Save ^D for next time, to make sure caller gets a 0-byte result", whoever
\* reads next: the call that consumes an end-of-file returns 0 bytes and has
\* consumed nothing else, and no other read looks like an end-of-file.  A read
\* that returns less than was asked, nothing lost to a failed copyout, has
\* at least a byte and a newline last, or leaves the end-of-file that stopped
\* it as the next thing to be read.
EofReturnsZero == [][\A p \in Procs : Returns(p) =>
    /\ (\E k \in 1..Len(taken[p]) : taken[p][k] = "^D") => taken[p] = <<"^D">> /\ got[p] = <<>>
    /\ got[p] = taken[p] /\ n[p] > 0 =>
          /\ got[p] # <<>>
          /\ got[p][Len(got[p])] = "\n" \/ (r # w /\ At(r) = "^D")]_vars
=============================================================================
