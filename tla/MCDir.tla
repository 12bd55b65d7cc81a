------------------------------- MODULE MCDir --------------------------------
(***************************************************************************)
(* Directories alone, with the calls of MCFiles: removed directories that  *)
(* are still in use.                                                       *)
(***************************************************************************)
EXTENDS Dir, TLC

Abs(s) == [abs |-> TRUE, elems |-> s]
Rel(s) == [abs |-> FALSE, elems |-> s]
On(o, q) == [op |-> o, path |-> q]

\* The first user makes and removes directories by absolute paths, the second
\* works in them by relative ones.
TwoUsers == 1 :> ({On(o, q) : o \in {"mkdir", "unlink"}, q \in {Abs(<<"a">>), Abs(<<"a", "a">>)}}
                  \union {On("mknod", Abs(<<"a">>)), On("mkdir", Abs(<<>>))})
         @@ 2 :> {On("chdir", Rel(<<"a">>)), On("chdir", Rel(<<"..">>)), On("create", Rel(<<"a">>)),
                  On("unlink", Rel(<<"..">>)), On("open", Rel(<<"..", "a">>)),
                  [op |-> "link", path |-> Rel(<<"a">>), new |-> Rel(<<"..", "a">>)]}
=============================================================================
