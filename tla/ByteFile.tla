------------------------------ MODULE ByteFile ------------------------------
(***************************************************************************)
(* What the contents of files promise: each is a sequence of bytes without *)
(* holes, which a writer changes only at its offset, in order, from where  *)
(* it is in user memory.  A write that fails half way may have changed     *)
(* some bytes after the ones it counts.  These alone may be taken back,    *)
(* until a later write makes them last.                                    *)
(***************************************************************************)
EXTENDS Naturals, Sequences

CONSTANTS Files, Writers, FileOf, NVALUES, None, ByteAt(_)
VARIABLES
    content,    \* the bytes of each file
    lasting,    \* the same without those that may be taken back
    pos,        \* the offset of each writer
    mem         \* where in user memory its write is, or None

vars == <<content, lasting, pos, mem>>

\* The files of the image, whatever they are.
Init == /\ content \in [Files -> Seq(0..NVALUES)] /\ lasting = content
        /\ pos = [w \in Writers |-> 0] /\ mem = [w \in Writers |-> None]

\* The files other than that of w are as they were.
OnlyFile(w) == \A g \in Files \ {FileOf[w]} : content'[g] = content[g] /\ lasting'[g] = lasting[g]

Begin(w) == /\ mem[w] = None
            /\ \E a \in 0..(NVALUES - 1) : mem' = [mem EXCEPT ![w] = a]
            /\ UNCHANGED <<pos, content, lasting>>

\* c becomes new as the bytes New(j) go to the k places after o, and perhaps to
\* more of c; of these newl, which l becomes, may have some.
Written(c, new, l, newl, o, k, New(_)) ==
    /\ k = 0 \/ o <= Len(c)
    /\ Len(new) = (IF k > 0 /\ o + k > Len(c) THEN o + k ELSE Len(c)) /\ Len(newl) = Len(new)
    /\ \E end \in (o + k)..(o + k + Len(c)) : \A j \in 1..Len(new) :
         new[j] = IF j > o /\ j <= end THEN New(j) ELSE c[j]
    /\ \A j \in 1..Len(new) :
         newl[j] \in IF j > o /\ j <= o + k THEN {New(j)} ELSE {l[j], new[j]}

Write(w, k) == LET f == FileOf[w] IN
    /\ mem[w] # None
    /\ pos' = [pos EXCEPT ![w] = @ + k]
    /\ mem' \in {[mem EXCEPT ![w] = None], [mem EXCEPT ![w] = (@ + k) % NVALUES]}
    /\ \E c \in {content[f]}, new \in {content'[f]}, l \in {lasting[f]}, newl \in {lasting'[f]} :
         Written(c, new, l, newl, pos[w], k, LAMBDA j : ByteAt(mem[w] + j - 1 - pos[w]))
    /\ OnlyFile(w)

\* No more than there is is read, and the bytes stay.
Read(w, k) == /\ mem[w] = None
              /\ pos' = [pos EXCEPT ![w] = @ + k] /\ UNCHANGED mem
              /\ pos[w] + k <= Len(content[FileOf[w]]) \/ k = 0
              /\ UNCHANGED <<content, lasting>>

Open(w) == /\ mem[w] = None
           /\ pos' = [pos EXCEPT ![w] = 0] /\ UNCHANGED mem
           /\ \/ UNCHANGED <<content, lasting>>
              \/ /\ content' = [content EXCEPT ![FileOf[w]] = <<>>]
                 /\ lasting' = [lasting EXCEPT ![FileOf[w]] = <<>>]

\* Bytes that do not last go back to what does.
TakeBack == /\ UNCHANGED <<lasting, pos, mem>>
            /\ \E f \in Files : LET c == content[f]
                                  l == lasting[f]
                                  newc == content'[f] IN
                 /\ \A g \in Files \ {f} : content'[g] = content[g]
                 /\ Len(newc) = Len(c) /\ \A j \in 1..Len(c) : newc[j] \in {c[j], l[j]}

Next == \/ \E w \in Writers :
             \/ Begin(w) \/ Open(w)
             \/ pos'[w] >= pos[w] /\ (Write(w, pos'[w] - pos[w]) \/ Read(w, pos'[w] - pos[w]))
        \/ TakeBack

Spec == Init /\ [][Next]_vars
=============================================================================
