------------------------------ MODULE Umalloc -------------------------------
(***************************************************************************)
(* malloc and free of user/umalloc.c.  Addresses count units of one        *)
(* Header; a block is its header and the units after it.  The free blocks  *)
(* form a circular list through base, a header below the heap.  A program  *)
(* is one thread, so a call is one step.                                   *)
(***************************************************************************)
EXTENDS Integers, FiniteSets, Functions, TLC

CONSTANTS
    HEADER,     \* sizeof(Header)
    MINCORE,    \* the fewest units morecore asks for (4096)
    MaxBrk,     \* sbrk fails beyond this address
    Requests,   \* arguments of malloc, in bytes: small enough not to wrap a uint
    Extra       \* units a program takes by an sbrk of its own

NULL == 0
base == 1
HeapStart == 3

VARIABLES
    next,    \* s.ptr of base and of the free blocks
    size,    \* s.size of every block
    freep,
    brk,     \* the end of the data segment
    live,    \* history: what was asked for, by allocated block
    core     \* history: the units morecore got

vars == <<next, size, freep, brk, live, core>>

Heap == [next |-> next, size |-> size, freep |-> freep]
Without(f, a) == Restrict(f, DOMAIN f \ {a})

Init ==
    /\ next = (base :> NULL) /\ size = (base :> 0) /\ freep = NULL
    /\ brk = HeapStart /\ live = <<>> /\ core = {}
-----------------------------------------------------------------------------
\* The loop of free: the free block after which bp goes.
RECURSIVE Place(_, _, _)
Place(h, p, bp) == LET q == h.next[p] IN
    IF (bp > p /\ bp < q) \/ (p >= q /\ (bp > p \/ bp < q)) THEN p ELSE Place(h, q, bp)

\* Joined to the next free block where they touch.
JoinUp(h, p, bp) == LET q == h.next[p] IN
    IF bp + h.size[bp] = q
    THEN [h EXCEPT !.size = Without([@ EXCEPT ![bp] = @ + h.size[q]], q),
                   !.next = Without(@, q) @@ (bp :> h.next[q])]
    ELSE [h EXCEPT !.next = @ @@ (bp :> q)]

\* Mutated form: a block is not joined to the one before.
JoinDownNever(h, p, bp) == [h EXCEPT !.next[p] = bp]

\* Joined to the free block before it where they touch.
JoinDown(h, p, bp) ==
    IF p + h.size[p] = bp
    THEN [h EXCEPT !.size = Without([@ EXCEPT ![p] = @ + h.size[bp]], bp),
                   !.next = Without([@ EXCEPT ![p] = h.next[bp]], bp)]
    ELSE [h EXCEPT !.next[p] = bp]

Freed(h, bp) == LET p == Place(h, h.freep, bp) IN
    [JoinDown(JoinUp(h, p, bp), p, bp) EXCEPT !.freep = p]

nunits(nbytes) == (nbytes + HEADER - 1) \div HEADER + 1

\* What morecore(nu) asks sbrk for.
CoreUnits(nu) == IF nu < MINCORE THEN MINCORE ELSE nu

\* First fit: the block before the first one from p on that is large enough,
\* or NULL where the search comes back to freep.
RECURSIVE Fit(_, _, _)
Fit(h, prevp, nu) == LET p == h.next[prevp] IN
    IF h.size[p] >= nu THEN prevp
    ELSE IF p = h.freep THEN NULL
    ELSE Fit(h, p, nu)

\* The block after prevp is taken off the list, or its tail is cut off.
Carved(h, prevp, nu) == LET p == h.next[prevp] IN
    IF h.size[p] = nu
    THEN [block |-> p, h |-> [h EXCEPT !.next = Without([@ EXCEPT ![prevp] = h.next[p]], p),
                                       !.freep = prevp]]
    ELSE LET b == p + h.size[p] - nu IN
         [block |-> b, h |-> [h EXCEPT !.size = [@ EXCEPT ![p] = @ - nu] @@ (b :> nu),
                                       !.freep = prevp]]

Becomes(h) == next' = h.next /\ size' = h.size /\ freep' = h.freep

Returned(nbytes, c) == Becomes(c.h) /\ live' = live @@ (c.block :> nbytes)

\* malloc: from the list, or from a chunk that morecore frees into it, or not.
malloc(nbytes) ==
    LET nu == nunits(nbytes)
        h == IF freep = NULL THEN [Heap EXCEPT !.next[base] = base, !.freep = base] ELSE Heap
        prevp == Fit(h, h.freep, nu)
        n == CoreUnits(nu)
        more == Freed([h EXCEPT !.size = @ @@ (brk :> n)], brk)
    IN  \/ /\ prevp # NULL
           /\ Returned(nbytes, Carved(h, prevp, nu))
           /\ UNCHANGED <<brk, core>>
        \/ /\ prevp = NULL /\ brk + n <= MaxBrk
           /\ Returned(nbytes, Carved(more, Fit(more, more.freep, nu), nu))
           /\ brk' = brk + n
           /\ core' = core \union brk..(brk + n - 1)
        \/ /\ prevp = NULL /\ brk + n > MaxBrk
           /\ Becomes(h)
           /\ UNCHANGED <<brk, core, live>>

free(bp) ==
    /\ bp \in DOMAIN live
    /\ Becomes(Freed(Heap, bp))
    /\ live' = Without(live, bp)
    /\ UNCHANGED <<brk, core>>

\* The program moves the break itself: the next chunk of morecore is apart.
sbrk ==
    /\ brk + Extra <= MaxBrk
    /\ brk' = brk + Extra
    /\ UNCHANGED <<next, size, freep, live, core>>

Next == (\E n \in Requests : malloc(n)) \/ (\E bp \in DOMAIN live : free(bp)) \/ sbrk

Spec == Init /\ [][Next]_vars
-----------------------------------------------------------------------------
Free == DOMAIN next \ {base}
Units(b) == b..(b + size[b] - 1)

\* Every unit that morecore ever got is in one block, free or allocated; an
\* allocated block has room for what was asked.
Tiled == LET blocks == Free \union DOMAIN live IN
    /\ Free \intersect DOMAIN live = {} /\ DOMAIN size = blocks \union {base}
    /\ UNION {Units(b) : b \in blocks} = core
    /\ \A b, c \in blocks : b # c => Units(b) \intersect Units(c) = {}
    /\ \A b \in DOMAIN live : (size[b] - 1) * HEADER >= live[b]

\* The list goes through base and every free block once, upwards, and no two
\* free blocks touch.
Sorted == freep # NULL =>
    /\ freep \in DOMAIN next
    /\ \A b \in DOMAIN next : LET up == {c \in DOMAIN next : c > b} IN
         /\ next[b] = IF up = {} THEN base ELSE CHOOSE c \in up : \A d \in up : c <= d
         /\ b # base => b + size[b] # next[b]

\* No sequence of malloc, free and sbrk loses, shares or splinters memory.
HeapExact == Tiled /\ Sorted
=============================================================================
