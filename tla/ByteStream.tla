----------------------------- MODULE ByteStream -----------------------------
(***************************************************************************)
(* What a pipe promises: a bounded queue of bytes, taken out in the order  *)
(* they were put in, with two ends that are closed once; nothing is put    *)
(* after the read end is closed.                                           *)
(***************************************************************************)
EXTENDS Sequences, Naturals

CONSTANTS Bytes, PIPESIZE
VARIABLES queue, readable, writable

Init == queue = <<>> /\ readable = TRUE /\ writable = TRUE

Put(b) ==
    /\ readable /\ writable /\ Len(queue) < PIPESIZE
    /\ queue' = Append(queue, b)
    /\ UNCHANGED <<readable, writable>>

Get ==
    /\ queue # <<>> /\ readable
    /\ queue' = Tail(queue)
    /\ UNCHANGED <<readable, writable>>

CloseRead == readable /\ readable' = FALSE /\ UNCHANGED <<queue, writable>>
CloseWrite == writable /\ writable' = FALSE /\ UNCHANGED <<queue, readable>>

Next == (\E b \in Bytes : Put(b)) \/ Get \/ CloseRead \/ CloseWrite

Spec == Init /\ [][Next]_<<queue, readable, writable>>
=============================================================================
