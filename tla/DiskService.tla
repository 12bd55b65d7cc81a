---------------------------- MODULE DiskService ----------------------------
(***************************************************************************)
(* What kernel/virtio_disk.c promises bread and bwrite: between its call   *)
(* and its return, a request is carried out once, on the caller's buffer.  *)
(***************************************************************************)
CONSTANTS Procs, Sectors, Vals, NoReq

Requests == [sector : Sectors, write : BOOLEAN]

VARIABLES
    media,  \* the sectors of the disk
    buf,    \* the data of the buffer each process passes
    req,    \* the request a process is in, or NoReq
    done    \* it has been carried out

vars == <<media, buf, req, done>>

Init ==
    /\ media \in [Sectors -> Vals]
    /\ buf \in [Procs -> Vals]
    /\ req = [p \in Procs |-> NoReq]
    /\ done = [p \in Procs |-> FALSE]

Call(p, r, v) ==
    /\ req[p] = NoReq
    /\ req' = [req EXCEPT ![p] = r]
    /\ buf' = [buf EXCEPT ![p] = v]
    /\ UNCHANGED <<media, done>>

Perform(p) ==
    /\ req[p] # NoReq /\ ~done[p]
    /\ done' = [done EXCEPT ![p] = TRUE]
    /\ \/ /\ req[p].write
          /\ media' = [media EXCEPT ![req[p].sector] = buf[p]]
          /\ UNCHANGED buf
       \/ /\ ~req[p].write
          /\ buf' = [buf EXCEPT ![p] = media[req[p].sector]]
          /\ UNCHANGED media
    /\ UNCHANGED req

Return(p) ==
    /\ req[p] # NoReq /\ done[p]
    /\ req' = [req EXCEPT ![p] = NoReq]
    /\ done' = [done EXCEPT ![p] = FALSE]
    /\ UNCHANGED <<media, buf>>

Next == \E p \in Procs :
    \/ \E r \in Requests, v \in Vals : Call(p, r, v)
    \/ Perform(p) \/ Return(p)

Spec == Init /\ [][Next]_vars
=============================================================================
