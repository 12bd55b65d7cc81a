-------------------------------- MODULE Uart --------------------------------
(***************************************************************************)
(* Console output: consolewrite and uartputc fill uart_tx_buf, uartstart   *)
(* empties it into the device under uart_tx_lock, called by uartputc and   *)
(* by the interrupt handler, while the kernel's printf and the echo write  *)
(* the device directly with uartputc_sync, without the lock.               *)
(***************************************************************************)
EXTENDS Integers, Sequences, SequencesExt

CONSTANTS
    Procs,          \* processes that write the console
    Printers,       \* CPUs in uartputc_sync
    BUFSIZE,        \* UART_TX_BUF_SIZE
    FIFOSIZE,       \* the device's transmit FIFO (16 bytes)
    MaxChars,       \* bound on the characters each actor writes
    None

Actors == Procs \union Printers
Intr == "uartintr"

\* What is assumed of the constants.
UartSizes ==
    /\ BUFSIZE \in Nat \ {0} /\ FIFOSIZE \in Nat \ {0} /\ MaxChars \in Nat
    /\ Procs \intersect Printers = {} /\ Intr \notin Actors

VARIABLES
    uart_tx_buf, uart_tx_w, uart_tx_r,
    lock,        \* the holder of uart_tx_lock, or None
    hand,        \* c of uartstart, taken from the buffer, or None
    pc, asleep,
    count,       \* count[a]: the characters a has put so far
    fifo, wire,  \* device: what it holds, what it has sent (history)
    pending,     \* device: its interrupt is asserted
    panicked

tx == <<uart_tx_buf, uart_tx_w, uart_tx_r>>
device == <<fifo, wire, pending>>
vars == <<tx, lock, hand, pc, asleep, count, device, panicked>>

\* Characters are distinct: the k-th character of actor a.
Chars == Actors \X (1..MaxChars)

Init ==
    /\ uart_tx_buf = [k \in 0..(BUFSIZE - 1) |-> None]
    /\ uart_tx_w = 0 /\ uart_tx_r = 0
    /\ lock = None /\ hand = None
    /\ pc = [a \in Actors \union {Intr} |-> "idle"]
    /\ asleep = {}
    /\ count = [a \in Actors |-> 0]
    /\ fifo = <<>> /\ wire = <<>> /\ pending = FALSE
    /\ panicked = FALSE
-----------------------------------------------------------------------------
\* Mutated forms, one plausible slip in uart.c each.
PutcStoreLazy(p) ==
    /\ pc[p] = "test" /\ ~(uart_tx_w = uart_tx_r + BUFSIZE)
    /\ count' = [count EXCEPT ![p] = @ + 1]
    /\ uart_tx_buf' = [uart_tx_buf EXCEPT ![uart_tx_w % BUFSIZE] = <<p, count[p] + 1>>]
    /\ uart_tx_w' = uart_tx_w + 1
    /\ lock' = None
    /\ pc' = [pc EXCEPT ![p] = "idle"]
    /\ UNCHANGED <<uart_tx_r, hand, asleep, device, panicked>>

StartTakeLast(a) ==
    /\ pc[a] = "start" /\ hand = None
    /\ uart_tx_w # uart_tx_r /\ fifo = <<>>
    /\ hand' = uart_tx_buf[(uart_tx_w - 1) % BUFSIZE]
    /\ uart_tx_r' = uart_tx_r + 1
    /\ asleep' = {}
    /\ UNCHANGED <<uart_tx_buf, uart_tx_w, lock, pc, count, device, panicked>>

wakeup == asleep' = {}
Full == uart_tx_w = uart_tx_r + BUFSIZE
Idle == fifo = <<>>      \* LSR_TX_IDLE: the transmitter is empty

Goto(a, l) == pc' = [pc EXCEPT ![a] = l]

\* consolewrite calls uartputc for its next character.
uartputc(p) ==
    /\ p \notin asleep
    /\ pc[p] = "idle" /\ count[p] < MaxChars
    /\ Goto(p, "putc")
    /\ UNCHANGED <<tx, lock, hand, asleep, count, device, panicked>>

\* uart_tx_lock is free; a panicked kernel spins with the lock held.
PutcLock(p) ==
    /\ p \notin asleep
    /\ pc[p] = "putc" /\ lock = None
    /\ lock' = p
    /\ Goto(p, IF panicked THEN "spin" ELSE "test")
    /\ UNCHANGED <<tx, hand, asleep, count, device, panicked>>

PutcSleep(p) ==
    /\ pc[p] = "test" /\ Full
    /\ asleep' = asleep \union {p}
    /\ lock' = None
    /\ Goto(p, "awake")
    /\ UNCHANGED <<tx, hand, count, device, panicked>>

\* sleep returns with the lock; the panicked test is not repeated.
PutcRelock(p) ==
    /\ pc[p] = "awake" /\ p \notin asleep /\ lock = None
    /\ lock' = p
    /\ Goto(p, "test")
    /\ UNCHANGED <<tx, hand, asleep, count, device, panicked>>

PutcStore(p) ==
    /\ pc[p] = "test" /\ ~Full
    /\ count' = [count EXCEPT ![p] = @ + 1]
    /\ uart_tx_buf' = [uart_tx_buf EXCEPT ![uart_tx_w % BUFSIZE] = <<p, count[p] + 1>>]
    /\ uart_tx_w' = uart_tx_w + 1
    /\ Goto(p, "start")
    /\ UNCHANGED <<uart_tx_r, lock, hand, asleep, device, panicked>>
-----------------------------------------------------------------------------
\* One round of uartstart: the test of LSR, then the write to THR.
StartTake(a) ==
    /\ pc[a] = "start" /\ hand = None
    /\ uart_tx_w # uart_tx_r /\ Idle
    /\ hand' = uart_tx_buf[uart_tx_r % BUFSIZE]
    /\ uart_tx_r' = uart_tx_r + 1
    /\ wakeup
    /\ UNCHANGED <<uart_tx_buf, uart_tx_w, lock, pc, count, device, panicked>>

StartWrite(a) ==
    /\ pc[a] = "start" /\ hand # None
    /\ fifo' = Append(fifo, hand)
    /\ hand' = None
    /\ UNCHANGED <<tx, lock, pc, asleep, count, wire, pending, panicked>>

\* uartstart returns and the caller releases the lock.
StartReturn(a) ==
    /\ pc[a] = "start" /\ hand = None
    /\ uart_tx_w = uart_tx_r \/ ~Idle
    /\ lock' = None
    /\ Goto(a, "idle")
    /\ UNCHANGED <<tx, hand, asleep, count, device, panicked>>

uartstart(a) == StartTake(a) \/ StartWrite(a) \/ StartReturn(a)

\* devintr claims the interrupt and calls uartintr.
IntrClaim ==
    /\ pc[Intr] = "idle" /\ pending
    /\ pending' = FALSE
    /\ Goto(Intr, "putc")
    /\ UNCHANGED <<tx, lock, hand, asleep, count, fifo, wire, panicked>>

uartintr ==
    /\ pc[Intr] = "putc" /\ lock = None
    /\ lock' = Intr
    /\ Goto(Intr, "start")
    /\ UNCHANGED <<tx, hand, asleep, count, device, panicked>>

\* The LSR loop of uartputc_sync: only a panicked kernel spins for ever.
SyncTest(c) ==
    /\ pc[c] = "idle" /\ ~panicked /\ count[c] < MaxChars /\ Idle
    /\ Goto(c, "put")
    /\ UNCHANGED <<tx, lock, hand, asleep, count, device, panicked>>

SyncWrite(c) ==
    /\ pc[c] = "put"
    /\ count' = [count EXCEPT ![c] = @ + 1]
    /\ fifo' = Append(fifo, <<c, count[c] + 1>>)
    /\ Goto(c, "idle")
    /\ UNCHANGED <<tx, lock, hand, asleep, wire, pending, panicked>>

\* panic, after its message: freeze uart output.
panic(c) ==
    /\ ~panicked /\ pc[c] = "idle" /\ count[c] = MaxChars
    /\ panicked' = TRUE
    /\ UNCHANGED <<tx, lock, hand, pc, asleep, count, device>>

\* kill wakes a sleeper, which tests for room again.
kill(p) ==
    /\ p \in asleep
    /\ asleep' = asleep \ {p}
    /\ UNCHANGED <<tx, lock, hand, pc, count, device, panicked>>

\* The device sends one byte and interrupts when its FIFO is empty.
Send ==
    /\ fifo # <<>>
    /\ wire' = Append(wire, Head(fifo))
    /\ fifo' = Tail(fifo)
    /\ pending' = (pending \/ Len(fifo) = 1)
    /\ UNCHANGED <<tx, lock, hand, pc, asleep, count, panicked>>

Putc(p) == uartputc(p) \/ PutcLock(p) \/ PutcSleep(p) \/ PutcRelock(p) \/ PutcStore(p) \/ kill(p)
Sync(c) == SyncTest(c) \/ SyncWrite(c) \/ panic(c)

Next ==
    \/ \E p \in Procs : Putc(p)
    \/ \E a \in Procs \union {Intr} : uartstart(a)
    \/ IntrClaim \/ uartintr \/ Send
    \/ \E c \in Printers : Sync(c)

Spec == Init /\ [][Next]_vars

\* The device sends, interrupts are taken, and no spinlock starves a CPU.
Fairness ==
    /\ WF_vars(Send) /\ WF_vars(IntrClaim) /\ SF_vars(uartintr)
    /\ \A a \in Procs \union {Intr} : WF_vars(uartstart(a))
    /\ \A p \in Procs : /\ WF_vars(PutcSleep(p) \/ PutcStore(p))
                        /\ SF_vars(PutcLock(p)) /\ SF_vars(PutcRelock(p))
FairSpec == Spec /\ Fairness
-----------------------------------------------------------------------------
Buffered == [k \in 1..(uart_tx_w - uart_tx_r) |-> uart_tx_buf[(uart_tx_r + k - 1) % BUFSIZE]]
OnTheWay == wire \o fifo \o (IF hand = None THEN <<>> ELSE <<hand>>) \o Buffered

\* What a process or the kernel prints comes out complete, once and in order,
\* whatever the others print in between; the FIFO absorbs a printer that tested
\* LSR before uartstart wrote THR.
InOrder ==
    /\ Len(fifo) <= FIFOSIZE
    /\ \A a \in Actors :
         SelectSeq(OnTheWay, LAMBDA c : c[1] = a) = [k \in 1..count[a] |-> <<a, k>>]

\* When the writers are done, everything they put has been sent and none is
\* left asleep for room, unless the kernel panics.
AllSent == <>[](panicked \/ (asleep = {} /\ OnTheWay = wire))
=============================================================================
