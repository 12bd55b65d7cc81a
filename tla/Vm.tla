--------------------------------- MODULE Vm ---------------------------------
(***************************************************************************)
(* Physical pages and user page tables: kernel/kalloc.c, kernel/vm.c, and  *)
(* the callers that build, grow, copy, replace and free an address space   *)
(* (allocproc, fork, growproc, exec, freeproc).                            *)
(* A function of the kernel is an operator on a memory value               *)
(*   [free, left, pt, ok, panic]                                           *)
(* free pages, how many of them kalloc will still find, the page table     *)
(* being worked on, no failure so far, a panic was reached.  One address   *)
(* space is built by one process; what other CPUs take meanwhile shows     *)
(* only as kalloc failing, so a call is one step, for any value of left.   *)
(***************************************************************************)
EXTENDS Integers, Sequences, SequencesExt, FiniteSetsExt, Functions

CONSTANTS
    Procs,
    NPAGES,     \* physical pages, numbered from 1
    PGSIZE,     \* bytes of a page
    RADIX,      \* entries of a page-table page; an address has three levels
    UIntMod,    \* growproc computes in uint: 2^32
    ULongMod,   \* an address is a uint64: 2^64
    Deltas,     \* the arguments of sbrk
    Images,     \* the programs of exec: sequences of [va, mem, file, read] segments
    MAXARG, ALIGN, WORD,  \* of exec's argv: its bound, the stack's alignment, a pointer's size
    Argvs       \* the arguments of exec: sequences of string lengths

ASSUME VmAssumption ==
    /\ NPAGES \in Nat /\ PGSIZE \in Nat \ {0} /\ RADIX \in Nat /\ RADIX > 3
    /\ UIntMod \in Nat /\ UIntMod > NPAGES * PGSIZE /\ Deltas \subseteq Int
    /\ NPAGES < (RADIX * RADIX * RADIX) \div 2 - 3
    /\ ULongMod \in Nat /\ ULongMod > ((RADIX * RADIX * RADIX) \div 2) * PGSIZE
    /\ ALIGN \in Nat \ {0} /\ WORD \in Nat \ {0} /\ WORD % 2 = 0 /\ MAXARG \in Nat \ {0}

Pages == 1..NPAGES
MAXVA == (RADIX * RADIX * RADIX) \div 2    \* in pages; one bit less than the levels reach
TRAMPOLINE == MAXVA - 1
TRAPFRAME == TRAMPOLINE - 1
USYSCALL == TRAPFRAME - 1
trampoline == 0      \* the physical page of trampoline.S, never allocated

VARIABLES
    free,                               \* kmem.freelist
    pagetable, sz, trapframe, usyscall, \* struct proc; 0 is a null pointer
    used,                               \* the processes that exist
    panicked

vars == <<free, pagetable, sz, trapframe, usyscall, used, panicked>>

NoTable == [node |-> <<>>, leaf |-> <<>>]
PGROUNDUP(b) == (b + PGSIZE - 1) \div PGSIZE
PX(level, va) == (va \div RADIX^level) % RADIX
-----------------------------------------------------------------------------
Fail(m) == [m EXCEPT !.ok = FALSE]

\* Mutated form: the page stays allocated.
AfterMapFailureLeak(m, pa) == m

\* kalloc; which free page it takes does not matter.
kalloc(m) == IF m.left = 0 THEN [pa |-> 0, m |-> Fail(m)]
             ELSE [pa |-> Min(m.free),
                   m |-> [m EXCEPT !.free = @ \ {Min(m.free)}, !.left = @ - 1]]

\* kfree panics on a page that is not allocatable; a page already free is a bug too.
kfree(m, pas) == [m EXCEPT !.free = @ \union pas,
                           !.panic = @ \/ ~(pas \subseteq Pages \ m.free)]

\* One level of walk: the page-table page at this path, made if missing.
Linked(k, path) == IF k.m.ok THEN [k.m EXCEPT !.pt.node = @ @@ (path :> k.pa)] ELSE k.m
WalkLevel(m, path) ==
    IF ~m.ok \/ path \in DOMAIN m.pt.node THEN m ELSE Linked(kalloc(m), path)

walk(m, va) ==
    IF va >= MAXVA THEN [Fail(m) EXCEPT !.panic = TRUE]
    ELSE WalkLevel(WalkLevel(m, <<PX(2, va)>>), <<PX(2, va), PX(1, va)>>)

\* mappages of one page; the pages made by a walk that fails half way stay.
Entered(w, va, pa, user) ==
    IF ~w.ok THEN w
    ELSE [w EXCEPT !.panic = @ \/ va \in DOMAIN w.pt.leaf,
                   !.pt.leaf = @ @@ (va :> [pa |-> pa, user |-> user])]
mappages(m, va, pa, user) == Entered(walk(m, va), va, pa, user)

uvmunmap(m, vas, do_free) == LET leaf == m.pt.leaf IN
    IF ~(vas \subseteq DOMAIN leaf) THEN [m EXCEPT !.panic = TRUE]
    ELSE LET u == [m EXCEPT !.pt.leaf = Restrict(@, DOMAIN leaf \ vas)] IN
         IF do_free THEN kfree(u, {leaf[va].pa : va \in vas}) ELSE u

\* Every page-table page is freed; a leaf still there is a panic.
freewalk(m) == [kfree(m, Range(m.pt.node)) EXCEPT
                  !.pt = NoTable, !.panic = @ \/ m.pt.leaf # <<>>]

\* The page just allocated goes back when it cannot be mapped.
AfterMapFailure(m, pa) == kfree(m, {pa})

\* A new page at va with the given permission.
MappedOrFreed(w, pa) == IF w.ok THEN w ELSE AfterMapFailure(w, pa)
MapNew(k, va, user) ==
    IF k.m.ok THEN MappedOrFreed(mappages(k.m, va, k.pa, user), k.pa) ELSE k.m
NewPage(m, va, user) == IF m.ok THEN MapNew(kalloc(m), va, user) ELSE m

Span(from, to) == [k \in 1..Max({0, to - from}) |-> from + k - 1]
Mapped(m, from, to) == {va \in from..(to - 1) : va \in DOMAIN m.pt.leaf}

\* uvmdealloc(pagetable, oldsz, newsz).
uvmdealloc(m, oldsz, newsz) ==
    IF newsz >= oldsz THEN [sz |-> oldsz, m |-> m]
    ELSE [sz |-> newsz,
          m |-> uvmunmap(m, PGROUNDUP(newsz)..(PGROUNDUP(oldsz) - 1), TRUE)]

\* uvmalloc(pagetable, oldsz, newsz): sz is 0 on error.
AllOrNone(r, oldsz, newsz) ==
    IF r.ok THEN [sz |-> newsz, m |-> r]
    ELSE [sz |-> 0, m |-> uvmunmap(r, Mapped(r, PGROUNDUP(oldsz), PGROUNDUP(newsz)), TRUE)]
uvmalloc(m, oldsz, newsz) ==
    IF newsz < oldsz THEN [sz |-> oldsz, m |-> m]
    ELSE AllOrNone(FoldLeft(LAMBDA acc, va : NewPage(acc, va, TRUE), m,
                            Span(PGROUNDUP(oldsz), PGROUNDUP(newsz))), oldsz, newsz)

uvmfree(m, size) == freewalk(uvmunmap(m, 0..(PGROUNDUP(size) - 1), TRUE))

\* The undo of uvmcopy: the n pages copied so far.
CopyUndo(m, n) == uvmunmap(m, 0..(n - 1), TRUE)

\* uvmcopy(old, new, size): m has new, permissions come from old.
CopiedOrUndone(r, size) ==
    IF r.ok THEN r ELSE CopyUndo(r, Cardinality(Mapped(r, 0, PGROUNDUP(size))))
uvmcopy(m, old, size) == CopiedOrUndone(
    FoldLeft(LAMBDA acc, va : NewPage(acc, va, old.leaf[va].user),
             [m EXCEPT !.panic = @ \/ ~(0..(PGROUNDUP(size) - 1) \subseteq DOMAIN old.leaf)],
             Span(0, PGROUNDUP(size))), size)
-----------------------------------------------------------------------------
\* walkaddr, by page: 0 where the user may not go.
walkaddr(pt, va) ==
    IF va < MAXVA /\ va \in DOMAIN pt.leaf /\ pt.leaf[va].user THEN pt.leaf[va].pa ELSE 0

\* Mutated form: the next chunk starts a page later, not at the next page.
CopiedAskew(pt, va, len) == [ok |-> walkaddr(pt, va \div PGSIZE) # 0,
    at |-> [k \in 1..len |-> <<walkaddr(pt, va \div PGSIZE), (va + k - 1) % PGSIZE>>]]

\* The loop of copyin and copyout: the bytes of physical memory it goes over,
\* in order, and whether it came to the end.
RECURSIVE Copied(_, _, _)
Copied(pt, va, len) ==
    LET va0 == va \div PGSIZE
        pa0 == walkaddr(pt, va0)
        off == va - va0 * PGSIZE
        n == Min({PGSIZE - off, len})
        rest == Copied(pt, (va0 + 1) * PGSIZE, len - n)
    IN  IF len = 0 THEN [ok |-> TRUE, at |-> <<>>]
        ELSE IF pa0 = 0 THEN [ok |-> FALSE, at |-> <<>>]
        ELSE [rest EXCEPT !.at = [k \in 1..n |-> <<pa0, off + k - 1>>] \o @]

copyout(pt, dstva, len) == Copied(pt, dstva, len)
copyin(pt, srcva, len) == Copied(pt, srcva, len)

\* copyinstr, where the bytes nul of physical memory are zero: its bytes, the
\* NUL included.
RECURSIVE copyinstr(_, _, _, _)
copyinstr(pt, srcva, max, nul) ==
    LET va0 == srcva \div PGSIZE
        pa0 == walkaddr(pt, va0)
        off == srcva - va0 * PGSIZE
        n == Min({PGSIZE - off, max})
        ends == {k \in 1..n : <<pa0, off + k - 1>> \in nul}
        part == [k \in 1..(IF ends = {} THEN n ELSE Min(ends)) |-> <<pa0, off + k - 1>>]
        rest == copyinstr(pt, (va0 + 1) * PGSIZE, max - n, nul)
    IN  IF max = 0 \/ pa0 = 0 THEN [ok |-> FALSE, at |-> <<>>]
        ELSE IF ends # {} THEN [ok |-> TRUE, at |-> part]
        ELSE [rest EXCEPT !.at = part \o @]

\* fetchaddr: a word of a process of the given size; the sum is a uint64.
fetchaddr(pt, size, addr) ==
    IF addr >= size \/ (addr + WORD) % ULongMod > size THEN [ok |-> FALSE, at |-> <<>>]
    ELSE copyin(pt, addr, WORD)

\* sys_pgaccess and pageaccess, where PTE_A is set for the pages acc: the mask
\* as the set of its bits, and what is still set.  The bits go before the mask,
\* a uint, is copied out.  walk panics at the first page from MAXVA on.
pageaccess(pt, acc, base, len, maskaddr) ==
    LET walked == {i \in 0..(len - 1) : base + i < MAXVA}
        hit == {i \in walked : base + i \in acc \intersect DOMAIN pt.leaf}
        panic == walked # 0..(len - 1)
    IN  IF len > 32 THEN [ok |-> FALSE, panic |-> FALSE, mask |-> {}, acc |-> acc]
        ELSE [ok |-> ~panic /\ copyout(pt, maskaddr, WORD \div 2).ok, panic |-> panic,
              mask |-> hit, acc |-> acc \ {base + i : i \in hit}]
-----------------------------------------------------------------------------
\* proc_pagetable: on failure what is mapped is unmapped and the table freed.
MapFixed(m, va, pa, user) == IF m.ok THEN mappages(m, va, pa, user) ELSE m
FixedOrFreed(r) == IF r.ok THEN r ELSE uvmfree(uvmunmap(r, DOMAIN r.pt.leaf, FALSE), 0)
TableAt(root, tf, us) ==
    IF ~root.m.ok THEN root.m
    ELSE FixedOrFreed(FoldLeft(LAMBDA acc, s : MapFixed(acc, s.va, s.pa, s.user),
                               [root.m EXCEPT !.pt.node = (<<>> :> root.pa)],
                               << [va |-> TRAMPOLINE, pa |-> trampoline, user |-> FALSE],
                                  [va |-> TRAPFRAME, pa |-> tf, user |-> FALSE],
                                  [va |-> USYSCALL, pa |-> us, user |-> TRUE] >>))
proc_pagetable(m, tf, us) == TableAt(kalloc(m), tf, us)

proc_freepagetable(m, size) == uvmfree(uvmunmap(m, {TRAMPOLINE, TRAPFRAME, USYSCALL}, FALSE), size)

Memory(pt, left) == [free |-> free, left |-> left, pt |-> pt, ok |-> TRUE, panic |-> FALSE]

\* The caller's memory value becomes the state.
Commit(m) == free' = m.free /\ panicked' = (panicked \/ m.panic)

\* freeproc's frees, for a process or a half-made one.
FreeTable(m, size) == IF m.pt.node = <<>> THEN m ELSE proc_freepagetable(m, size)
FreeAll(m, size, tf, us) == kfree(FreeTable(kfree(m, {tf} \ {0}), size), {us} \ {0})

\* allocproc: trapframe, usyscall page, page table.
AllocTable(tf, u) ==
    [tf |-> tf, us |-> u.pa, m |-> IF u.m.ok THEN proc_pagetable(u.m, tf, u.pa) ELSE u.m]
AllocUsyscall(t) ==
    IF t.m.ok THEN AllocTable(t.pa, kalloc(t.m)) ELSE [tf |-> 0, us |-> 0, m |-> t.m]
allocproc(m) == AllocUsyscall(kalloc(m))
-----------------------------------------------------------------------------
\* userinit: the first process, one page.
userinit(a, m) ==
    LET p0 == CHOOSE p \in Procs : TRUE
        One(x, none) == [p \in Procs |-> IF p = p0 THEN x ELSE none]
    IN  /\ free = m.free
        /\ pagetable = One(m.pt, NoTable)
        /\ sz = One(PGSIZE, 0)
        /\ trapframe = One(a.tf, 0) /\ usyscall = One(a.us, 0)
        /\ used = {p0}
        /\ panicked = FALSE

Init == \E a \in {allocproc([free |-> Pages, left |-> NPAGES, pt |-> NoTable,
                             ok |-> TRUE, panic |-> FALSE])} : userinit(a, NewPage(a.m, 0, TRUE))

\* fork: allocproc and uvmcopy, or freeproc of what there is (np->sz is 0).
Forked(p, np, a, m) ==
    \/ /\ m.ok
       /\ Commit(m)
       /\ pagetable' = [pagetable EXCEPT ![np] = m.pt]
       /\ sz' = [sz EXCEPT ![np] = sz[p]]
       /\ trapframe' = [trapframe EXCEPT ![np] = a.tf]
       /\ usyscall' = [usyscall EXCEPT ![np] = a.us]
       /\ used' = used \union {np}
    \/ /\ ~m.ok
       /\ Commit(FreeAll(m, 0, a.tf, a.us))
       /\ UNCHANGED <<pagetable, sz, trapframe, usyscall, used>>

fork(p, np) ==
    /\ p \in used /\ np \in Procs \ used
    /\ \E left \in 0..Cardinality(free) : \E a \in {allocproc(Memory(NoTable, left))} :
         Forked(p, np, a, IF a.m.ok THEN uvmcopy(a.m, pagetable[p], sz[p]) ELSE a.m)

\* wait frees an exited process.
freeproc(p) ==
    /\ p \in used /\ used # {p}
    /\ Commit(FreeAll(Memory(pagetable[p], 0), sz[p], trapframe[p], usyscall[p]))
    /\ pagetable' = [pagetable EXCEPT ![p] = NoTable]
    /\ sz' = [sz EXCEPT ![p] = 0]
    /\ trapframe' = [trapframe EXCEPT ![p] = 0] /\ usyscall' = [usyscall EXCEPT ![p] = 0]
    /\ used' = used \ {p}

\* growproc(n): the sum is a uint.
Grown(m, old, n) ==
    IF n > 0 THEN uvmalloc(m, old, (old + n) % UIntMod)
    ELSE uvmdealloc(m, old, (old + n) % UIntMod)

growproc(p, n) ==
    /\ p \in used
    /\ \E left \in 0..Cardinality(free) : \E r \in {Grown(Memory(pagetable[p], left), sz[p], n)} :
         /\ Commit(r.m)
         /\ pagetable' = [pagetable EXCEPT ![p] = r.m.pt]
         /\ sz' = [sz EXCEPT ![p] = IF n > 0 /\ r.sz = 0 THEN @ ELSE r.sz]
    /\ UNCHANGED <<trapframe, usyscall, used>>

\* The stack guard page loses PTE_U.
uvmclear(m, va) == [m EXCEPT !.pt.leaf[va].user = FALSE]

\* loadseg: every page of the segment is there, and the file is read whole.
loadseg(r, s) == LET first == s.va \div PGSIZE
                     pages == first..(first + PGROUNDUP(s.file) - 1) IN
    [r EXCEPT !.m.panic = @ \/ \E va \in pages : walkaddr(r.m.pt, va) = 0, !.m.ok = s.read]

\* One segment.  A failure of uvmalloc keeps the size reached before it.
Filled(size, r, s) ==
    IF r.sz = 0 THEN [sz |-> size, m |-> Fail(r.m)]
    ELSE IF s.va % PGSIZE # 0 THEN [r EXCEPT !.m = Fail(@)]
    ELSE loadseg(r, s)
Segment(acc, s) == LET end == (s.va + s.mem) % ULongMod IN
    IF ~acc.m.ok \/ s.mem < s.file \/ end < s.va THEN [acc EXCEPT !.m = Fail(@)]
    ELSE Filled(acc.sz, uvmalloc(acc.m, acc.sz, end), s)

\* exec up to the arguments: the segments, then guard and stack pages.
Guarded(base, all) ==
    IF all.sz = 0 THEN [sz |-> base, m |-> Fail(all.m)]
    ELSE [all EXCEPT !.m = uvmclear(@, PGROUNDUP(all.sz) - 2)]
Stacked(text) == LET base == PGROUNDUP(text.sz) * PGSIZE IN
    IF text.m.ok THEN Guarded(base, uvmalloc(text.m, base, base + 2 * PGSIZE)) ELSE text
Loaded(image, tf, us, left) ==
    Stacked(FoldLeft(Segment, [sz |-> 0, m |-> proc_pagetable(Memory(NoTable, left), tf, us)], image))

\* Mutated form: no room for the NUL.
PushedShort(acc, pt, base, len) == LET sp == ALIGN * ((acc.sp - (len - 1)) \div ALIGN) IN
    [sp |-> sp, ustack |-> Append(acc.ustack, sp),
     ok |-> acc.ok /\ sp >= base /\ copyout(pt, sp, len).ok]

\* len bytes are pushed on a stack that must not go below base.
Pushed(acc, pt, base, len) == LET sp == ALIGN * ((acc.sp - len) \div ALIGN) IN
    [sp |-> sp, ustack |-> Append(acc.ustack, sp),
     ok |-> acc.ok /\ sp >= base /\ copyout(pt, sp, len).ok]

\* The argument strings, each with its NUL, and the array of pointers to them.
Arguments(pt, size, argv) ==
    LET base == size - PGSIZE
        strings == FoldLeft(LAMBDA acc, n : Pushed(acc, pt, base, n + 1),
                            [sp |-> size, ustack |-> <<>>, ok |-> Len(argv) <= MAXARG], argv)
    IN  Pushed(strings, pt, base, (Len(argv) + 1) * WORD)

\* exec: bad frees the new table; success frees the old one.
Executed(p, new, good) ==
    \/ /\ good
       /\ Commit(proc_freepagetable([new.m EXCEPT !.pt = pagetable[p]], sz[p]))
       /\ pagetable' = [pagetable EXCEPT ![p] = new.m.pt]
       /\ sz' = [sz EXCEPT ![p] = new.sz]
    \/ /\ ~good
       /\ Commit(FreeTable(new.m, new.sz))
       /\ UNCHANGED <<pagetable, sz>>

exec(p, image, argv) ==
    /\ p \in used
    /\ \E left \in 0..Cardinality(free) :
         \E new \in {Loaded(image, trapframe[p], usyscall[p], left)} :
           Executed(p, new, new.m.ok /\ Arguments(new.m.pt, new.sz, argv).ok)
    /\ UNCHANGED <<trapframe, usyscall, used>>

\* sys_exec's array has MAXARG pointers, the null pointer at the end included;
\* what does not fit never comes to exec, which would store it in ustack[MAXARG].
Fetched(argv) == Len(argv) < MAXARG
sys_exec(p, image, argv) == Fetched(argv) /\ exec(p, image, argv)

Next == \E p \in Procs :
    \/ \E np \in Procs : fork(p, np)
    \/ freeproc(p)
    \/ \E n \in Deltas : growproc(p, n)
    \/ \E image \in Images, argv \in Argvs : sys_exec(p, image, argv)

Spec == Init /\ [][Next]_vars
-----------------------------------------------------------------------------
UserPages(p) == {va \in DOMAIN pagetable[p].leaf : va < USYSCALL}
Owned(p) == Range(pagetable[p].node)
    \union {pagetable[p].leaf[va].pa : va \in UserPages(p)}
    \union ({trapframe[p], usyscall[p]} \ {0})

\* Every page has one owner: the free list or one role in one process.
\* No failure path of allocproc, uvmalloc, uvmcopy or exec loses a page, frees
\* one twice, remaps or unmaps what it must not, or leaves freewalk a leaf.
PagesAccounted ==
    /\ ~panicked
    /\ free = Pages \ UNION {Owned(p) : p \in Procs}
    /\ \A p, q \in Procs : p # q => Owned(p) \intersect Owned(q) = {}
    /\ \A p \in Procs : Cardinality(Owned(p)) =
         Cardinality(DOMAIN pagetable[p].node) + Cardinality(UserPages(p))
         + Cardinality({trapframe[p], usyscall[p]} \ {0})

\* A process maps exactly the pages below p->sz, its own trapframe and usyscall
\* page, and the trampoline.
SizeMapped == \A p \in used :
    LET leaf == pagetable[p].leaf IN
    /\ UserPages(p) = 0..(PGROUNDUP(sz[p]) - 1)
    /\ DOMAIN leaf = UserPages(p) \union {TRAMPOLINE, TRAPFRAME, USYSCALL}
    /\ leaf[TRAPFRAME].pa = trapframe[p] /\ leaf[USYSCALL].pa = usyscall[p]
    /\ leaf[TRAMPOLINE].pa = trampoline

\* The lengths tried, and the addresses: on both sides of every page boundary of
\* a process and around the top, and the last ones.
Lengths == (0..2) \union ((PGSIZE - 1)..(PGSIZE + 2))
Addresses == {va \in UNION {0..(6 * PGSIZE), (USYSCALL * PGSIZE - 1)..(MAXVA * PGSIZE + 1),
                            (ULongMod - WORD)..(ULongMod - 1)} :
                va % PGSIZE \in {0, 1, PGSIZE - 2, PGSIZE - 1}}

\* The user bytes from va on, up to the first page the user may not touch.
Byte(pt, va) == <<walkaddr(pt, va \div PGSIZE), va % PGSIZE>>
Reach(pt, va, len) == {k \in 0..len : \A j \in 0..(k - 1) : Byte(pt, va + j)[1] # 0}
Bytes(pt, va, n) == [k \in 1..n |-> Byte(pt, va + k - 1)]

\* For every address space that arises: copyin and copyout move the bytes
\* that lie at va, va + 1, ... in that order, also where they cross pages that
\* are not neighbours in physical memory, fail just when one of them is not the
\* user's, and then have moved no byte beyond it; copyinstr stops at the first
\* NUL within max bytes and does not look at the page after it; fetchaddr
\* reads below p->sz only, and a whole word; pgaccess reports and clears the
\* accessed pages among those asked for, and no others, unless one of them is
\* not below MAXVA: then walk panics, and in no other case.
UserAccessExact == \A p \in used : LET pt == pagetable[p] IN
    \A va \in Addresses :
      /\ \A len \in Lengths : LET r == Copied(pt, va, len) IN
           /\ r.ok <=> Max(Reach(pt, va, len)) = len
           /\ r.at = Bytes(pt, va, Max(Reach(pt, va, len)))
           /\ \A k \in Lengths :
                LET t == copyinstr(pt, va, len, {Byte(pt, va + k)}) IN
                /\ t.ok <=> k < len /\ k + 1 \in Reach(pt, va, k + 1)
                /\ t.ok => t.at = Bytes(pt, va, k + 1)
      /\ fetchaddr(pt, sz[p], va).ok <=> va + WORD <= sz[p] /\ WORD \in Reach(pt, va, WORD)
      /\ \A len \in 0..3 : LET acc == {1, USYSCALL}
                               asked == (va \div PGSIZE)..(va \div PGSIZE + len - 1)
                               r == pageaccess(pt, acc, va \div PGSIZE, len, va)
                               seen == (acc \intersect DOMAIN pt.leaf) \ r.acc IN
           /\ r.panic <=> \E a \in asked : a >= MAXVA
           /\ r.acc \subseteq acc
           /\ r.ok => r.mask = {a - va \div PGSIZE : a \in seen}
           /\ \A a \in acc \intersect DOMAIN pt.leaf :
                a \in r.acc <=> a \notin asked

\* The stack exec builds of what sys_exec lets through: every argument and the
\* array of pointers lie in the stack page, aligned, and none overlaps another.
StackExact == \A p \in used, image \in Images, argv \in {a \in Argvs : Fetched(a)} :
    LET new == Loaded(image, trapframe[p], usyscall[p], Cardinality(free))
        r == Arguments(new.m.pt, new.sz, argv)
        len == [i \in 1..(Len(argv) + 1) |->
                  IF i <= Len(argv) THEN argv[i] + 1 ELSE (Len(argv) + 1) * WORD]
        Room(i) == r.ustack[i]..(r.ustack[i] + len[i] - 1)
    IN  new.m.ok /\ r.ok =>
          \A i \in DOMAIN len :
            /\ Room(i) \subseteq (new.sz - PGSIZE)..(new.sz - 1) /\ r.ustack[i] % ALIGN = 0
            /\ \A j \in DOMAIN len : i # j => Room(i) \intersect Room(j) = {}
=============================================================================
