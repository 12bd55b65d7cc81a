----------------------------- MODULE MCTerminal -----------------------------
(***************************************************************************)
(* The two directions of the terminal: input through the console (Console) *)
(* and output through the UART driver (Uart).  Neither waits for the other *)
(* (consoleintr echoes with uartputc_sync, an actor of Uart), so a         *)
(* behaviour is one of the one or of the other.                            *)
(***************************************************************************)
EXTENDS Console

CONSTANTS Writers, Printers, BUFSIZE, FIFOSIZE, MaxChars

VARIABLES
    uart_tx_buf, uart_tx_w, uart_tx_r, uart_tx_lock, hand, uartpc, uartasleep,
    count, fifo, wire, pending, panicked, side

U == INSTANCE Uart WITH Procs <- Writers, lock <- uart_tx_lock, pc <- uartpc,
                        asleep <- uartasleep

ASSUME UartAssumption == U!UartSizes

uartvars == <<uart_tx_buf, uart_tx_w, uart_tx_r, uart_tx_lock, hand, uartpc, uartasleep,
              count, fifo, wire, pending, panicked>>
allvars == <<vars, uartvars, side>>

MCInit == Init /\ U!Init /\ side \in {"output", "input"}

MCNext == \/ side = "output" /\ U!Next /\ UNCHANGED side /\ UNCHANGED vars
          \/ side = "input" /\ Next /\ UNCHANGED <<uartvars, side>>

MCSpec == MCInit /\ [][MCNext]_allvars /\ U!Fairness

\* Output comes out complete, once and in order (Uart).
InOrder == U!InOrder

\* What is put is sent in the end, and no writer sleeps for ever (Uart).
AllSent == U!AllSent
=============================================================================
