---------------------------- MODULE ShellParser -----------------------------
(***************************************************************************)
(* The parser of user/sh.c.  A line is a sequence of tokens, as gettoken   *)
(* returns them: a symbol, or a word.  A parsing function takes what is    *)
(* left of the line and returns [ok, cmd, rest]; ok is FALSE where the     *)
(* code calls panic.                                                       *)
(***************************************************************************)
EXTENDS Integers, Sequences, FiniteSets

CONSTANTS Words, MAXARGS

Redirs == {"<", ">", ">>"}
Symbols == {"|", "&", ";", "(", ")"} \union Redirs

execcmd(argv) == [type |-> "EXEC", argv |-> argv]
redircmd(cmd, tok, file) == [type |-> "REDIR", cmd |-> cmd, file |-> file,
                             fd |-> IF tok = "<" THEN 0 ELSE 1]

\* Mutated form: the two ends are stored the wrong way round.
pipecmdSwapped(left, right) == [type |-> "PIPE", left |-> right, right |-> left]

pipecmd(left, right) == [type |-> "PIPE", left |-> left, right |-> right]
listcmd(left, right) == [type |-> "LIST", left |-> left, right |-> right]
backcmd(cmd) == [type |-> "BACK", cmd |-> cmd]

Parsed(cmd, s) == [ok |-> TRUE, cmd |-> cmd, rest |-> s]
Panic == [ok |-> FALSE, cmd |-> execcmd(<<>>), rest |-> <<>>]

\* The line after its next token.
gettoken(s) == Tail(s)

\* What is built from a command that was parsed.
Built(r, F(_)) == IF r.ok THEN [r EXCEPT !.cmd = F(@)] ELSE r

peek(s, toks) == s # <<>> /\ Head(s) \in toks

\* The redirections at the start of s: each goes around what was there.
RECURSIVE parseredirs(_, _)
parseredirs(cmd, s) ==
    IF ~peek(s, Redirs) THEN Parsed(cmd, s)
    ELSE IF ~peek(gettoken(s), Words) THEN Panic
    ELSE parseredirs(redircmd(cmd, s[1], s[2]), gettoken(gettoken(s)))

\* An argument goes into the execcmd inside the redirections.
RECURSIVE Argv(_)
Argv(cmd) == IF cmd.type = "EXEC" THEN cmd.argv ELSE Argv(cmd.cmd)
RECURSIVE AddArg(_, _)
AddArg(cmd, word) == IF cmd.type = "EXEC" THEN execcmd(Append(cmd.argv, word))
                     ELSE [cmd EXCEPT !.cmd = AddArg(@, word)]

\* The loop of parseexec.
RECURSIVE parseargs(_)
parseargs(r) ==
    IF ~r.ok \/ r.rest = <<>> \/ peek(r.rest, {"|", ")", "&", ";"}) THEN r
    ELSE IF ~peek(r.rest, Words) \/ Len(Argv(r.cmd)) + 1 >= MAXARGS THEN Panic
    ELSE parseargs(parseredirs(AddArg(r.cmd, Head(r.rest)), gettoken(r.rest)))

RECURSIVE parseline(_)

\* parseblock, after the line inside.
BlockEnd(r) == IF r.ok /\ peek(r.rest, {")"}) THEN parseredirs(r.cmd, gettoken(r.rest)) ELSE Panic

parseexec(s) == IF peek(s, {"("}) THEN BlockEnd(parseline(gettoken(s)))
                ELSE parseargs(parseredirs(execcmd(<<>>), s))

RECURSIVE parsepipe(_)
PipeRest(l) == IF l.ok /\ peek(l.rest, {"|"})
               THEN Built(parsepipe(gettoken(l.rest)), LAMBDA r : pipecmd(l.cmd, r)) ELSE l
parsepipe(s) == PipeRest(parseexec(s))

RECURSIVE parseback(_)
parseback(l) == IF l.ok /\ peek(l.rest, {"&"})
                THEN parseback(Parsed(backcmd(l.cmd), gettoken(l.rest))) ELSE l

ListRest(l) == IF l.ok /\ peek(l.rest, {";"})
               THEN Built(parseline(gettoken(l.rest)), LAMBDA r : listcmd(l.cmd, r)) ELSE l
parseline(s) == ListRest(parseback(parsepipe(s)))

\* parsecmd: what is left over is a syntax error.
NoLeftovers(r) == IF r.rest = <<>> THEN r ELSE Panic
parsecmd(s) == NoLeftovers(parseline(s))
-----------------------------------------------------------------------------
\* The language as a grammar, with the trees that a sequence of tokens stands
\* for:
\*   line ::= pipe "&"* [";" line]     pipe ::= exec ["|" pipe]
\*   exec ::= (word | redir word)*  |  "(" line ")" (redir word)*
From(s, k) == SubSeq(s, k, Len(s))
To(s, k) == SubSeq(s, 1, k)

\* Fewer than MAXARGS words of toks, and redirections.
RECURSIVE IsArgs(_, _, _)
IsArgs(s, n, toks) ==
    \/ s = <<>>
    \/ peek(s, toks) /\ n + 1 < MAXARGS /\ IsArgs(Tail(s), n + 1, toks)
    \/ Len(s) > 1 /\ s[1] \in Redirs /\ s[2] \in Words /\ IsArgs(From(s, 3), n, toks)

\* The words that are not files of redirections, from left to right.
ArgsOf(s) == LET at == {k \in 1..Len(s) : s[k] \in Words /\ (k = 1 \/ s[k - 1] \notin Redirs)}
             IN  [k \in 1..Cardinality(at) |-> s[CHOOSE j \in at : Cardinality({i \in at : i < j}) = k - 1]]

\* The redirections in s around cmd, the last one outside.
RECURSIVE Redirected(_, _)
Redirected(cmd, s) ==
    LET at == {k \in 1..Len(s) : s[k] \in Redirs}
        last == CHOOSE k \in at : \A j \in at : j <= k
    IN  IF at = {} THEN cmd
        ELSE [type |-> "REDIR", cmd |-> Redirected(cmd, To(s, last - 1)),
              file |-> s[last + 1], fd |-> IF s[last] = "<" THEN 0 ELSE 1]

RECURSIVE Background(_, _)
Background(cmd, n) == IF n = 0 THEN cmd ELSE [type |-> "BACK", cmd |-> Background(cmd, n - 1)]

RECURSIVE LineTrees(_)
ExecTrees(s) ==
    {Redirected([type |-> "EXEC", argv |-> ArgsOf(t)], t) : t \in {t \in {s} : IsArgs(t, 0, Words)}}
    \union UNION {{Redirected(l, From(s, k + 1)) : l \in LineTrees(SubSeq(s, 2, k - 1))} :
        k \in {k \in 2..Len(s) : s[1] = "(" /\ s[k] = ")" /\ IsArgs(From(s, k + 1), 0, {})}}

RECURSIVE PipeTrees(_)
PipeTrees(s) == ExecTrees(s) \union UNION
    {{[type |-> "PIPE", left |-> l, right |-> r] :
        l \in ExecTrees(To(s, k - 1)), r \in PipeTrees(From(s, k + 1))} :
        k \in {k \in 1..Len(s) : s[k] = "|"}}

\* The pipe ends at j and its "&"s at k.
LineTrees(s) == UNION
    {LET left == {Background(l, jk[2] - jk[1]) : l \in PipeTrees(To(s, jk[1]))}
     IN  IF jk[2] = Len(s) THEN left
         ELSE {[type |-> "LIST", left |-> l, right |-> r] : l \in left, r \in LineTrees(From(s, jk[2] + 2))} :
        jk \in {jk \in (0..Len(s)) \X (0..Len(s)) :
                  /\ jk[1] <= jk[2] /\ \A i \in (jk[1] + 1)..jk[2] : s[i] = "&"
                  /\ jk[2] = Len(s) \/ s[jk[2] + 1] = ";"}}

\* The parser accepts the lines of this grammar and no others, and makes of a
\* line the one tree it stands for: every argument, file and operator in its
\* place, whatever the nesting of blocks, pipes, lists and redirections.
ParserExact(s) == LET r == parsecmd(s) IN LineTrees(s) = IF r.ok THEN {r.cmd} ELSE {}
=============================================================================
