------------------------------- MODULE MCFiles -------------------------------
(***************************************************************************)
(* Two parts of the file system that share no state at this level: the     *)
(* contents of files (FileData) and the directories (Dir).  A behaviour is *)
(* one of the one or of the other.                                         *)
(***************************************************************************)
EXTENDS FileData

CONSTANTS Procs, Names, NINODES, MaxLink, Calls, None

VARIABLES dinode, lock, pc, op, path, ip, dp, cwd, fd, astray, dirpanic, side

D == INSTANCE Dir WITH inode <- dinode, panicked <- dirpanic

dirvars == <<dinode, lock, pc, op, path, ip, dp, cwd, fd, astray, dirpanic>>
allvars == <<vars, dirvars, side>>

MCInit == Init /\ D!Init /\ side \in {"data", "tree"}

MCNext ==
    \/ side = "data" /\ Next /\ UNCHANGED <<dirvars, side>>
    \/ side = "tree" /\ D!Next /\ UNCHANGED side /\ UNCHANGED vars

MCSpec == MCInit /\ [][MCNext]_allvars
-----------------------------------------------------------------------------
SameFile == [w \in Writers |-> 1]

\* More than one transaction takes; and less, with a copy that fails, for some
\* offsets in the middle of a block.
TwoWrites == {[n |-> 7, addr |-> 0, good |-> 7], [n |-> 3, addr |-> 1, good |-> 2]}

Abs(s) == [abs |-> TRUE, elems |-> s]
Rel(s) == [abs |-> FALSE, elems |-> s]
On(o, q) == [op |-> o, path |-> q]

\* The first process makes and removes directories by absolute paths, the second
\* works in them by relative ones.
TwoUsers == 1 :> ({On(o, q) : o \in {"mkdir", "unlink"}, q \in {Abs(<<"a">>), Abs(<<"a", "a">>)}}
                  \union {On("mknod", Abs(<<"a">>)), On("mkdir", Abs(<<>>))})
         @@ 2 :> {On("chdir", Rel(<<"a">>)), On("chdir", Rel(<<"..">>)), On("create", Rel(<<"a">>)),
                  On("unlink", Rel(<<"..">>)), On("open", Rel(<<"..", "a">>)),
                  [op |-> "link", path |-> Rel(<<"a">>), new |-> Rel(<<"..", "a">>)]}

\* Which of the writers is where does not matter.
Positions ==
    LET Pos(w) == <<off[w], todo[w]>> IN {<<Pos(w), {Pos(x) : x \in Writers \ {w}}>> : w \in Writers}

\* A state without what is never read again: the bytes of a free block, which
\* balloc zeroes, and which blocks a transaction logged, but for their number.
LiveView ==
    <<side, bitmap, inode, [b \in bitmap |-> data[b]], Restrict(saved, bitmap \intersect DOMAIN saved),
      Positions, panicked, Cardinality(logged), dirvars>>
-----------------------------------------------------------------------------
\* The contents of files behave as ByteFile says, the other parts leave them alone:
\* writei, with bmap and the loop of filewrite, puts every byte at its offset of
\* its file and no other, and a copy that fails leaves only what may be undone.
Seen(F(_)) == [f \in Files |-> IF side = "data" THEN F(f) ELSE <<>>]
Bytes == INSTANCE ByteFile WITH
    content <- Seen(Content), lasting <- Seen(Lasting), pos <- off,
    mem <- [w \in Writers |-> IF todo[w] = Idle THEN None ELSE todo[w].addr]
ContentSpec == Bytes!Spec

\* Every block in use is in one place, and the others are free (FileData).
DataAccounted == side = "data" => BlocksAccounted

\* Link counts are exact unless an entry was made in a removed directory (Dir).
LinksExact == side = "tree" => D!LinksExact

\* The directories are a tree, with the same exception (Dir).
TreeIntact == side = "tree" => D!TreeIntact

\* No processes wait for each other's inode locks in a cycle (Dir).
NoDeadlock == side = "tree" => D!NoDeadlock
=============================================================================
