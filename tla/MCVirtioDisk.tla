---------------------------- MODULE MCVirtioDisk ----------------------------
EXTENDS VirtioDisk, TLC

Symm == Permutations(Procs) \union Permutations(Sectors) \union Permutations(Vals)

\* A state without the buffers nobody will look at: those of idle callers,
\* which the next call prepares anew, and those the device fills or filled.
Live(p) == req[p] # NoReq /\ req[p].write
LiveView ==
    <<media, [p \in Procs |-> IF Live(p) THEN buf[p] ELSE NoReq], descvars, devvars, info,
      status, availvars, seen, raised, handling, owned, pc, req, head, panicked>>
=============================================================================
