------------------------------- MODULE MCPipe -------------------------------
EXTENDS Pipe, TLC

CONSTANTS p1, p2

\* A parent that made the pipe, and its child that has closed an end.
ParentAndChild == {(p1 :> {"read", "write"}) @@ (p2 :> {e}) : e \in {"read", "write"}}
=============================================================================
