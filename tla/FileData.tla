------------------------------ MODULE FileData ------------------------------
(***************************************************************************)
(* The contents of files: balloc and bfree, bmap, itrunc, readi and writei *)
(* of kernel/fs.c, and the loop of filewrite that cuts a write into        *)
(* transactions.  One transaction is one step (begin_op .. end_op with the *)
(* inode locked); processes interleave between them.                       *)
(***************************************************************************)
EXTENDS Integers, Sequences, SequencesExt, FiniteSetsExt, Functions, TLC

CONSTANTS
    Files,         \* inode numbers
    Root,          \* that of the root directory
    Writers,
    FileOf,        \* FileOf[w]: the file that writer w has open
    NBLOCKS,       \* data blocks, numbered from 1; 0 is no block
    BSIZE, NDIRECT, NINDIRECT, MAXOPBLOCKS,
    BPB,           \* blocks per bitmap block
    UIntMod,       \* offsets and counts are uints: 2^32
    NVALUES,       \* a byte is one of 1 .. NVALUES, or zero
    Writes,        \* the writes: [n, addr, good], a count, a user address and how many of
                   \* the bytes there can be read
    Counts,        \* the n of the reads
    DIRENT,        \* sizeof(struct dirent)
    ImageSizes     \* the sizes of the files mkfs is given

ASSUME FileDataAssumption ==
    /\ {NBLOCKS, BSIZE, NDIRECT, NINDIRECT, BPB} \subseteq Nat \ {0}
    /\ MAXOPBLOCKS \in Nat /\ MAXOPBLOCKS >= 6 /\ NVALUES \in Nat \ {0}
    /\ FileOf \in [Writers -> Files]
    /\ Writes \subseteq [n : Nat \ {0}, addr : 0..(NVALUES - 1), good : Nat]
    /\ UIntMod \in Nat /\ UIntMod > (NDIRECT + NINDIRECT) * BSIZE /\ Counts \subseteq 1..(UIntMod - 1)
    /\ Root \in Files /\ Files \subseteq Nat /\ DIRENT \in Nat \ {0} /\ ImageSizes \subseteq Nat

Blocks == 1..NBLOCKS
MAXFILE == NDIRECT + NINDIRECT

VARIABLES
    bitmap,          \* the blocks marked in use
    addrs,           \* addrs[f]: the block numbers of the inode, last the indirect one
    indirect,        \* indirect[f]: the contents of that block
    size,
    data,            \* contents of the data blocks, as cached
    saved,           \* saved[b]: what block b, changed and not logged, is without the change
    logged,          \* the blocks the last transaction passed to log_write
    off,             \* off[w]: f->off
    todo,            \* todo[w]: the bytes filewrite still has to write, and from where
    panicked

inode == <<addrs, indirect, size>>
vars == <<bitmap, inode, data, saved, logged, off, todo, panicked>>

NoBlocks(n) == [k \in 0..(n - 1) |-> 0]
Zeroed == [k \in 0..(BSIZE - 1) |-> 0]
Idle == [n |-> 0, addr |-> 0, good |-> 0]

\* What user memory, and a file given to mkfs, has at an address: every byte
\* differs from its neighbours, and every block from the next.
ByteAt(a) == (a % NVALUES) + 1

\* The pieces of [o, o + n) that lie in one block each.
Pieces(o, n) ==
    LET blocks == (o \div BSIZE)..((o + n - 1) \div BSIZE)
        Piece(bn) == [from |-> Max({o, bn * BSIZE}), to |-> Min({o + n, (bn + 1) * BSIZE})]
    IN  IF n = 0 THEN <<>>
        ELSE [k \in 1..Cardinality(blocks) |-> Piece((o \div BSIZE) + k - 1)]

\* The bytes at addr go into block[from .. to - 1].
Copied(block, from, to, addr) ==
    [k \in 0..(BSIZE - 1) |-> IF from <= k /\ k < to THEN ByteAt(addr + k - from) ELSE block[k]]

\* mkfs: iappend takes the blocks one after the other; an image is
\*   [next, addrs, indirect, size, data], next the first block not used.
ImageDirect(i, f, k) ==
    IF i.addrs[f][k] # 0 THEN i ELSE [i EXCEPT !.addrs[f][k] = i.next, !.next = @ + 1]

ImageBlock(i, f, fbn) ==
    IF fbn < NDIRECT THEN ImageDirect(i, f, fbn)
    ELSE LET j == ImageDirect(i, f, NDIRECT)
             k == fbn - NDIRECT
         IN  IF j.indirect[f][k] # 0 THEN j
             ELSE [j EXCEPT !.indirect[f][k] = j.next, !.next = @ + 1]

iappend(i, f, n) ==
    LET Append1(acc, p) ==
          LET fbn == p.from \div BSIZE
              j == ImageBlock(acc, f, fbn)
              x == IF fbn < NDIRECT THEN j.addrs[f][fbn] ELSE j.indirect[f][fbn - NDIRECT]
          IN  [j EXCEPT !.data[x] = Copied(@, p.from - fbn * BSIZE, p.to - fbn * BSIZE, f + p.from)]
    IN  [FoldLeft(Append1, i, Pieces(i.size[f], n)) EXCEPT !.size[f] = @ + n]

Blank == [next |-> 1, addrs |-> [f \in Files |-> NoBlocks(NDIRECT + 1)],
          indirect |-> [f \in Files |-> NoBlocks(NINDIRECT)],
          size |-> [f \in Files |-> 0], data |-> [b \in Blocks |-> Zeroed]]

\* main of mkfs: the root directory with "." and "..", an entry and the bytes of
\* every file, and the size of the directory rounded to the next block.
Image(sizes) ==
    LET AddFile(i, f) == iappend(iappend(i, Root, DIRENT), f, sizes[f])
        all == FoldLeft(AddFile, iappend(Blank, Root, 2 * DIRENT), SetToSeq(Files \ {Root}))
    IN  [all EXCEPT !.size[Root] = ((@ \div BSIZE) + 1) * BSIZE]

\* The kernel starts on an image of mkfs, whose balloc marks the blocks used.
Init == \E sizes \in [Files \ {Root} -> ImageSizes] : LET i == Image(sizes) IN
    /\ bitmap = 1..(i.next - 1) /\ panicked = FALSE
    /\ addrs = i.addrs /\ indirect = i.indirect /\ size = i.size /\ data = i.data
    /\ saved = <<>> /\ logged = {}
    /\ off = [w \in Writers |-> 0]
    /\ todo = [w \in Writers |-> Idle]
-----------------------------------------------------------------------------
\* The block behind block bn of the file, 0 if there is none.
BlockOf(f, bn) == IF bn < NDIRECT THEN addrs[f][bn] ELSE indirect[f][bn - NDIRECT]

\* A transaction on file f works on the value
\*   [bitmap, addrs, indirect, data, saved, logged, at, panic]
\* of the inode's and the disk's parts; at is the block number returned.
Begin(f) == [bitmap |-> bitmap, addrs |-> addrs[f], indirect |-> indirect[f], data |-> data,
             saved |-> saved, logged |-> {}, at |-> 0, panic |-> FALSE]

BBLOCK(b) == <<"bitmap", b \div BPB>>
IBLOCK == <<"inode", 0>>
Block(b) == <<"data", b>>

\* log_write(b): what is in the buffer will be written.
log_write(t, b) == [t EXCEPT !.logged = @ \union {Block(b)}, !.saved = Restrict(@, DOMAIN @ \ {b})]

\* Mutated forms, one plausible slip in fs.c or file.c each.
MaxChunkDouble == (MAXOPBLOCKS - 1 - 1 - 2) * BSIZE
AddressKept(a, k) == a
TruncatedDirect(t) ==
    LET held == {t.addrs[k] : k \in 0..NDIRECT} \ {0} IN
    [t EXCEPT !.bitmap = @ \ held,
              !.addrs = NoBlocks(NDIRECT + 1), !.indirect = NoBlocks(NINDIRECT),
              !.logged = @ \union {BBLOCK(b) : b \in held} \union {IBLOCK}]

\* balloc: the first free block, marked, logged and zeroed.
balloc(t) == LET free == Blocks \ t.bitmap IN
    IF free = {} THEN [t EXCEPT !.panic = TRUE]
    ELSE LET b == Min(free) IN
         log_write([t EXCEPT !.bitmap = @ \union {b}, !.data[b] = Zeroed, !.at = b,
                             !.logged = @ \union {BBLOCK(b)}], b)

\* bmap(ip, bn): at is the block, allocated if there is none.
bmapDirect(t, k) ==
    IF t.addrs[k] # 0 THEN [t EXCEPT !.at = t.addrs[k]]
    ELSE LET a == balloc(t) IN [a EXCEPT !.addrs[k] = a.at]

bmap(t, bn) ==
    IF bn < NDIRECT THEN bmapDirect(t, bn)
    ELSE LET i == bmapDirect(t, NDIRECT)
             k == bn - NDIRECT
             a == balloc(i)
         IN  IF i.panic THEN i
             ELSE IF i.indirect[k] # 0 THEN [i EXCEPT !.at = i.indirect[k]]
             ELSE log_write([a EXCEPT !.indirect[k] = a.at], i.addrs[NDIRECT])

\* One round of writei's loop: copyin reaches file offset limit.  A piece it
\* cannot copy whole may be left half changed in the buffer, not logged.
Torn(t, new) == IF Block(t.at) \in t.logged THEN new
                ELSE [new EXCEPT !.saved = @ @@ (t.at :> t.data[t.at])]
WritePiece(acc, p, limit, addr) ==
    LET t == bmap(acc.t, p.from \div BSIZE)
        start == p.from % BSIZE
        Upto(end) == [t EXCEPT !.data[t.at] = Copied(@, start, start + end - p.from, addr)]
    IN  IF ~acc.ok THEN acc
        ELSE IF t.panic THEN [acc EXCEPT !.t = t, !.ok = FALSE]
        ELSE IF p.to <= limit
             THEN [acc EXCEPT !.t = log_write(Upto(p.to), t.at), !.end = p.to]
             ELSE [acc EXCEPT !.t = IF limit <= p.from THEN t ELSE Torn(t, Upto(limit)), !.ok = FALSE]

\* off + n is a uint.
Overflows(o, n) == (o + n) % UIntMod < o
OutOfRange(o, f, n) == o > size[f] \/ Overflows(o, n) \/ o + n > MAXFILE * BSIZE
SizeAfter(old, end) == Max({old, end})

\* writei from user address addr: ret is the number of bytes of whole pieces, or -1.
writei(f, o, n, limit, addr) ==
    LET r == FoldLeft(LAMBDA acc, p : WritePiece(acc, p, limit, addr + p.from - o),
                      [t |-> Begin(f), end |-> o, ok |-> TRUE], Pieces(o, n))
    IN  IF OutOfRange(o, f, n) THEN [ret |-> -1, size |-> size[f], t |-> Begin(f)]
        ELSE [ret |-> r.end - o, size |-> SizeAfter(size[f], r.end),
              t |-> [r.t EXCEPT !.logged = @ \union {IBLOCK}]]

bfree(t, bs) == [t EXCEPT !.bitmap = @ \ bs, !.panic = ~(bs \subseteq t.bitmap),
                          !.logged = @ \union {BBLOCK(b) : b \in bs}]

\* itrunc: every block is freed and the inode written.
Truncated(t) ==
    LET held == ({t.addrs[k] : k \in 0..NDIRECT} \union {t.indirect[k] : k \in 0..(NINDIRECT - 1)}) \ {0}
    IN  [bfree(t, held) EXCEPT !.addrs = NoBlocks(NDIRECT + 1), !.indirect = NoBlocks(NINDIRECT),
                               !.logged = @ \union {IBLOCK}]

End(f, t, newsize) ==
    /\ bitmap' = t.bitmap /\ data' = t.data /\ saved' = t.saved
    /\ addrs' = [addrs EXCEPT ![f] = t.addrs]
    /\ indirect' = [indirect EXCEPT ![f] = t.indirect]
    /\ size' = [size EXCEPT ![f] = newsize]
    /\ logged' = t.logged
    /\ panicked' = (panicked \/ t.panic)
-----------------------------------------------------------------------------
\* write(fd, addr, n).
sys_write(w) ==
    /\ todo[w] = Idle /\ ~panicked
    /\ \E call \in Writes : todo' = [todo EXCEPT ![w] = call]
    /\ UNCHANGED <<bitmap, inode, data, saved, logged, off, panicked>>

\* filewrite's bound on the bytes of one transaction.
MaxChunk == ((MAXOPBLOCKS - 1 - 1 - 2) \div 2) * BSIZE

\* addr + i, after k bytes; memory repeats itself, so that it is a remainder.
Address(a, k) == (a + k) % NVALUES

\* One round of filewrite; copyin fails where the user's memory ends.
filewrite(w) == LET f == FileOf[w]
                    t == todo[w]
                    n1 == Min({t.n, MaxChunk})
                    r == writei(f, off[w], n1, off[w] + t.good, t.addr) IN
    /\ t.n > 0 /\ ~panicked
    /\ End(f, r.t, r.size)
    /\ off' = [off EXCEPT ![w] = IF r.ret > 0 THEN @ + r.ret ELSE @]
    /\ todo' = [todo EXCEPT ![w] =
         IF r.ret = n1 /\ t.n > n1
         THEN [n |-> t.n - n1, addr |-> Address(t.addr, n1), good |-> t.good - n1] ELSE Idle]

\* The file is opened again, at offset 0; O_TRUNC truncates it.
sys_open(w) ==
    /\ todo[w] = Idle /\ ~panicked
    /\ off' = [off EXCEPT ![w] = 0]
    /\ \/ End(FileOf[w], Truncated(Begin(FileOf[w])), 0)
       \/ UNCHANGED <<bitmap, inode, data, saved, logged, panicked>>
    /\ UNCHANGED todo

\* readi: how many bytes [o, o + n) has, none when o is beyond the end.
readi(f, o, n) == IF o > size[f] \/ Overflows(o, n) THEN 0 ELSE Min({n, size[f] - o})

\* fileread of n bytes: no transaction is open, so that a bmap that had to
\* allocate would panic in log_write.  copyout may fail: the offset stays.
fileread(w) == LET f == FileOf[w] IN
    /\ todo[w] = Idle /\ ~panicked
    /\ \E n \in Counts :
         LET got == readi(f, off[w], n) IN
         /\ panicked' = \E j \in off[w]..(off[w] + got - 1) : BlockOf(f, j \div BSIZE) = 0
         /\ off' = [off EXCEPT ![w] = @ + got]
    /\ UNCHANGED <<bitmap, inode, data, saved, logged, todo>>

\* The buffer of a block that was changed and not logged is not pinned: bget may
\* give it to another block, and the next bread finds what was there before.
Recycle(b) ==
    /\ b \in DOMAIN saved /\ ~panicked
    /\ data' = [data EXCEPT ![b] = saved[b]]
    /\ saved' = Restrict(saved, DOMAIN saved \ {b})
    /\ UNCHANGED <<bitmap, inode, logged, off, todo, panicked>>

Next == \/ \E w \in Writers : sys_write(w) \/ filewrite(w) \/ fileread(w) \/ sys_open(w)
        \/ \E b \in Blocks : Recycle(b)

Spec == Init /\ [][Next]_vars
-----------------------------------------------------------------------------
\* A block is marked in use exactly when one place refers to it: no block is
\* shared by two files or two places, none is leaked, and itrunc frees all.
BlocksAccounted ==
    LET places == (Files \X {"addrs"} \X (0..NDIRECT)) \union (Files \X {"ind"} \X (0..(NINDIRECT - 1)))
        At(p) == IF p[2] = "addrs" THEN addrs[p[1]][p[3]] ELSE indirect[p[1]][p[3]]
        held == {p \in places : At(p) # 0}
    IN  /\ bitmap = {At(p) : p \in held}
        /\ Cardinality(held) = Cardinality(bitmap)
        /\ ~panicked

\* A transaction of filewrite or itrunc writes at most MAXOPBLOCKS - 2 blocks:
\* what log_write can take without a panic from every reserved operation.
TransactionFits == Cardinality(logged) <= MAXOPBLOCKS - 2

\* The bytes of a file, and without those that recycling takes back.
BytesOf(f, d) == [j \in 1..size[f] |-> d[BlockOf(f, (j - 1) \div BSIZE)][(j - 1) % BSIZE]]
Content(f) == BytesOf(f, data)
Lasting(f) == BytesOf(f, saved @@ data)
=============================================================================
