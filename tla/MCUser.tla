------------------------------- MODULE MCUser -------------------------------
(***************************************************************************)
(* Two parts of user space that do not share state: init and the shell     *)
(* (Shell), and the allocator of user/umalloc.c (Umalloc).  A behaviour is *)
(* one of the one or of the other.                                         *)
(***************************************************************************)
EXTENDS Shell

CONSTANTS HEADER, MINCORE, MaxBrk, Requests, Extra

VARIABLES next, size, freep, brk, live, core, side

M == INSTANCE Umalloc

MCLines == {<<"cat", "|", "cat", "|", "cat">>, <<"cat", "|", "cat", "|", "cat", "&">>,
            <<"(", "cat", ">", "f", ";", "echo", "|", "cat", ")">>, <<"(">>}

MCInit == Init /\ M!Init /\ side \in {"shell", "heap"}

MCNext == \/ side = "shell" /\ Next /\ UNCHANGED <<side, next, size, freep, brk, live, core>>
          \/ side = "heap" /\ M!Next /\ UNCHANGED side /\ UNCHANGED vars

MCSpec == MCInit /\ [][MCNext]_<<vars, next, size, freep, brk, live, core, side>>

\* The tokens and the length of the lines tried.
Tokens == {"|", "&", ";", "(", ")", ">", "cat", "echo"}
MaxTokens == 5

\* parsecmd makes the tree of the grammar of every line up to MaxTokens tokens.
ParseExact == pc[initproc] = "start" /\ side = "shell" =>
    \A n \in 0..MaxTokens : \A s \in [1..n -> Tokens] : ParserExact(s)

\* malloc and free keep the blocks a tiling of the heap and the list sorted
\* and merged (Umalloc).
HeapExact == M!HeapExact
=============================================================================
