----------------------------- MODULE BlockStore -----------------------------
(***************************************************************************)
(* What kernel/bio.c promises its callers: every disk block has one        *)
(* content, one process at a time holds it, and only its holder changes    *)
(* it.  Which blocks are in memory is invisible, but for one thing: what a *)
(* holder stored and neither saved nor asked to keep may be forgotten once *)
(* the block is released.                                                  *)
(***************************************************************************)
CONSTANTS Procs, BlockNos, Vals, NoProc

VARIABLES
    content,  \* the content of each block
    saved,    \* the content last saved
    kept,     \* the blocks that are not to be forgotten
    holder    \* the process that has the block locked, or NoProc

vars == <<content, saved, kept, holder>>

Init ==
    /\ content \in [BlockNos -> Vals]
    /\ saved = content
    /\ kept = {}
    /\ holder = [n \in BlockNos |-> NoProc]

Acquire(p, n) ==
    /\ holder[n] = NoProc
    /\ holder' = [holder EXCEPT ![n] = p]
    /\ UNCHANGED <<content, saved, kept>>

Store(n, v) ==
    /\ holder[n] # NoProc
    /\ content' = [content EXCEPT ![n] = v]
    /\ UNCHANGED <<saved, kept, holder>>

Save(n) ==
    /\ holder[n] # NoProc
    /\ saved' = [saved EXCEPT ![n] = content[n]]
    /\ UNCHANGED <<content, kept, holder>>

Keep(n) ==
    /\ holder[n] # NoProc
    /\ kept' = kept \union {n}
    /\ UNCHANGED <<content, saved, holder>>

\* What is no longer to be kept has been saved.
Unkeep(n) ==
    /\ holder[n] # NoProc /\ content[n] = saved[n]
    /\ kept' = kept \ {n}
    /\ UNCHANGED <<content, saved, holder>>

Release(n) ==
    /\ holder[n] # NoProc
    /\ holder' = [holder EXCEPT ![n] = NoProc]
    /\ UNCHANGED <<content, saved, kept>>

Forget(n) ==
    /\ holder[n] = NoProc /\ n \notin kept
    /\ content' = [content EXCEPT ![n] = saved[n]]
    /\ UNCHANGED <<saved, kept, holder>>

\* Store, Save, Keep, Unkeep and Release are the holder's.
Next == \E n \in BlockNos :
    \/ Forget(n) \/ Release(n) \/ Save(n) \/ Keep(n) \/ Unkeep(n)
    \/ \E v \in Vals : Store(n, v)
    \/ \E p \in Procs : Acquire(p, n)

Spec == Init /\ [][Next]_vars
=============================================================================
