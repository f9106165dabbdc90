------------------------------- MODULE ShParse -------------------------------
(***************************************************************************)
(* The parser of user/sh.c.  A line is a sequence of characters, letters   *)
(* standing for themselves; positions run from 1 to Len(s) + 1, where the  *)
(* terminating NUL is.  A parse returns the command, the position after it *)
(* and the message of panic(), if any.                                     *)
(***************************************************************************)
EXTENDS Integers, Sequences, FiniteSets, SequencesExt, FiniteSetsExt

CONSTANT MAXARGS

symbols == {"<", "|", ">", "&", ";", "(", ")"}

Char(s, i) == IF i <= Len(s) THEN s[i] ELSE "nul"

\* The first position from i on whose character is not in C.
Past(s, i, C) == Min({j \in i .. Len(s) + 1 : Char(s, j) \notin C})
Skip(s, i) == Past(s, i, {" "})

\* The token at q: its kind, first position, position after it, and where the
\* next one starts.
Token(s, tok, q, eq) == [tok |-> tok, q |-> q, eq |-> eq, next |-> Skip(s, eq)]

TokenAt(s, q, c) ==
    IF c = "nul" THEN Token(s, c, q, q)
    ELSE IF c = ">" /\ Char(s, q + 1) = ">" THEN Token(s, "+", q, q + 2)
    ELSE IF c \in symbols THEN Token(s, c, q, q + 1)
    ELSE Token(s, "a", q, Past(s, q, ToSet(s) \ (symbols \cup {" "})))

gettoken(s, i) == TokenAt(s, Skip(s, i), Char(s, Skip(s, i)))

peek(s, i, C) == Char(s, Skip(s, i)) \in C

Parsed(cmd, i) == [cmd |-> cmd, i |-> i, err |-> ""]
Panic(e) == [cmd |-> [type |-> "none"], i |-> 1, err |-> e]

EXEC(argv) == [type |-> "EXEC", argv |-> argv]
REDIR(cmd, op, file) == [type |-> "REDIR", cmd |-> cmd, op |-> op, file |-> file]
PIPE(l, r) == [type |-> "PIPE", left |-> l, right |-> r]
LIST(l, r) == [type |-> "LIST", left |-> l, right |-> r]
BACK(cmd) == [type |-> "BACK", cmd |-> cmd]

RECURSIVE parseline(_, _), parsepipe(_, _), parseredirs(_, _, _), ParseArgs(_, _, _, _),
          ParseBacks(_, _, _), AddArg(_, _)

\* The parse x with its command put into a larger one, unless it has failed.
Within(x, cmd) == IF x.err # "" THEN x ELSE Parsed(cmd, x.i)

\* op is the redirection and f the token after it.
Redirect(s, cmd, op, f) ==
    IF f.tok # "a" THEN Panic("missing file for redirection")
    ELSE parseredirs(s, REDIR(cmd, op.tok, <<f.q, f.eq>>), f.next)

RedirectTo(s, cmd, op) == Redirect(s, cmd, op, gettoken(s, op.next))

parseredirs(s, cmd, i) ==
    IF ~peek(s, i, {"<", ">"}) THEN Parsed(cmd, Skip(s, i))
    ELSE RedirectTo(s, cmd, gettoken(s, i))

\* After the line inside the parentheses.
CloseBlock(s, line) ==
    IF line.err # "" THEN line
    ELSE IF ~peek(s, line.i, {")"}) THEN Panic("syntax - missing )")
    ELSE parseredirs(s, line.cmd, gettoken(s, line.i).next)

parseblock(s, i) == CloseBlock(s, parseline(s, gettoken(s, i).next))

\* The execcmd is below the redirections that were wrapped around it.
AddArg(cmd, w) ==
    IF cmd.type = "EXEC" THEN EXEC(Append(cmd.argv, w))
    ELSE REDIR(AddArg(cmd.cmd, w), cmd.op, cmd.file)

\* Mutant: one argument too many is stored.
TooMany_more(argc) == argc > MAXARGS

TooMany(argc) == argc >= MAXARGS

\* The loop of parseexec(), from the parse x on, and its body for the token t.
MoreArgs(s, x, argc) == IF x.err # "" THEN x ELSE ParseArgs(s, x.cmd, argc, x.i)

TakeArg(s, cmd, argc, t) ==
    IF t.tok # "a" THEN Panic("syntax")
    ELSE IF TooMany(argc + 1) THEN Panic("too many args")
    ELSE MoreArgs(s, parseredirs(s, AddArg(cmd, <<t.q, t.eq>>), t.next), argc + 1)

ParseArgs(s, cmd, argc, i) ==
    IF peek(s, i, {"|", ")", "&", ";", "nul"}) THEN Parsed(cmd, Skip(s, i))
    ELSE TakeArg(s, cmd, argc, gettoken(s, i))

parseexec(s, i) ==
    IF peek(s, i, {"("}) THEN parseblock(s, i)
    ELSE MoreArgs(s, parseredirs(s, EXEC(<< >>), i), 0)

\* After the left side of a pipe, and after both.
PipeEnds(l, r) == Within(r, PIPE(l.cmd, r.cmd))

PipeRest(s, l) ==
    IF l.err # "" \/ ~peek(s, l.i, {"|"}) THEN l
    ELSE PipeEnds(l, parsepipe(s, gettoken(s, l.i).next))

parsepipe(s, i) == PipeRest(s, parseexec(s, i))

ParseBacks(s, cmd, i) ==
    IF peek(s, i, {"&"}) THEN ParseBacks(s, BACK(cmd), gettoken(s, i).next) ELSE Parsed(cmd, i)

\* After the first command of a list, and after both.
ListEnds(b, r) == Within(r, LIST(b.cmd, r.cmd))

LineRest(s, b) ==
    IF ~peek(s, b.i, {";"}) THEN b
    ELSE ListEnds(b, parseline(s, gettoken(s, b.i).next))

LineBacks(s, p) == IF p.err # "" THEN p ELSE LineRest(s, ParseBacks(s, p.cmd, p.i))

parseline(s, i) == LineBacks(s, parsepipe(s, i))

AllRead(s, x) ==
    IF x.err = "" /\ Skip(s, x.i) # Len(s) + 1 THEN Panic("syntax") ELSE x

parsecmd(s) == AllRead(s, parseline(s, 1))

-----------------------------------------------------------------------------
(* nulterminate(): the positions that become NUL. *)

\* Mutant: file names are forgotten.
nulterminate_exec(cmd) ==
    IF cmd.type = "EXEC" THEN {cmd.argv[k][2] : k \in DOMAIN cmd.argv} ELSE {}

RECURSIVE nulterminate(_)
nulterminate(cmd) ==
    CASE cmd.type = "EXEC" -> {cmd.argv[k][2] : k \in DOMAIN cmd.argv}
      [] cmd.type = "REDIR" -> nulterminate(cmd.cmd) \cup {cmd.file[2]}
      [] cmd.type = "BACK" -> nulterminate(cmd.cmd)
      [] OTHER -> nulterminate(cmd.left) \cup nulterminate(cmd.right)

RECURSIVE Words(_)
Words(cmd) ==
    CASE cmd.type = "EXEC" -> ToSet(cmd.argv)
      [] cmd.type = "REDIR" -> Words(cmd.cmd) \cup {cmd.file}
      [] cmd.type = "BACK" -> Words(cmd.cmd)
      [] OTHER -> Words(cmd.left) \cup Words(cmd.right)

-----------------------------------------------------------------------------
(* The grammar as sets of trees, over the sequence of tokens:              *)
(*   line  = pipe {"&"} [";" line]      pipe = exec ["|" pipe]             *)
(*   exec  = {redir} {word {redir}}  or  "(" line ")" {redir}              *)

RECURSIVE Tokens(_, _)
Tokens(s, i) ==
    LET t == gettoken(s, i) IN IF t.tok = "nul" THEN << >> ELSE <<t>> \o Tokens(s, t.next)

Ops == {"<", ">", "+"}
Word(t) == <<t.q, t.eq>>

\* Redirections are an operator and a word each; the other words are arguments.
Simple(t) ==
    LET files == {k \in DOMAIN t : k > 1 /\ t[k - 1].tok \in Ops}
        args == SelectSeq([k \in DOMAIN t |-> k],
                          LAMBDA k : k \notin files /\ t[k].tok \notin Ops)
        redirs == SelectSeq([k \in DOMAIN t |-> k], LAMBDA k : k \in files)
        ok == /\ \A k \in DOMAIN t : t[k].tok \in Ops \cup {"a"}
              /\ \A k \in DOMAIN t : t[k].tok \in Ops => k < Len(t) /\ t[k + 1].tok = "a"
              /\ Len(args) < MAXARGS
    IN IF ~ok THEN {}
       ELSE {<<[k \in DOMAIN args |-> Word(t[args[k]])],
               [k \in DOMAIN redirs |-> <<t[redirs[k] - 1].tok, Word(t[redirs[k]])>>]>>}

Wrap(cmd, redirs) == FoldLeft(LAMBDA c, x : REDIR(c, x[1], x[2]), cmd, redirs)

RECURSIVE LineTrees(_), PipeTrees(_), Backs(_, _)
ExecTrees(t) ==
    {Wrap(EXEC(x[1]), x[2]) : x \in Simple(t)} \cup
    IF t = << >> \/ t[1].tok # "(" THEN {}
    ELSE UNION {{Wrap(c, x[2]) : c \in LineTrees(SubSeq(t, 2, j - 1)),
                                 x \in {y \in Simple(SubSeq(t, j + 1, Len(t))) : y[1] = << >>}} :
                j \in {j \in DOMAIN t : t[j].tok = ")"}}

PipeTrees(t) ==
    ExecTrees(t) \cup
    UNION {{PIPE(l, r) : l \in ExecTrees(SubSeq(t, 1, j - 1)), r \in PipeTrees(SubSeq(t, j + 1, Len(t)))} :
           j \in {j \in DOMAIN t : t[j].tok = "|"}}

Backs(cmd, k) == IF k = 0 THEN cmd ELSE BACK(Backs(cmd, k - 1))

\* t is a pipe and some "&".
BackTrees(t) ==
    UNION {{Backs(c, Len(t) - j) : c \in PipeTrees(SubSeq(t, 1, j))} :
           j \in {j \in 0 .. Len(t) : \A k \in j + 1 .. Len(t) : t[k].tok = "&"}}

LineTrees(t) ==
    BackTrees(t) \cup
    UNION {{LIST(l, r) : l \in BackTrees(SubSeq(t, 1, j - 1)), r \in LineTrees(SubSeq(t, j + 1, Len(t)))} :
           j \in {j \in DOMAIN t : t[j].tok = ";"}}

-----------------------------------------------------------------------------
(* Properties of the parser, for one line. *)

\* parsecmd() accepts a line just when the grammar does, and returns the only
\* tree the grammar gives it.  x is what it returns for the line s.
ParsesGrammar(s, x) == LineTrees(Tokens(s, 1)) = IF x.err = "" THEN {x.cmd} ELSE {}

\* Once the words of an accepted command are NUL-terminated in place, each is
\* the word that was typed: no terminator falls into another word.  x is what
\* parsecmd() returns for the line s.
WordsKept(s, x) ==
    x.err = "" =>
      \A v \in Words(x.cmd) :
          /\ v[1] < v[2] /\ v[2] \in nulterminate(x.cmd)
          /\ \A k \in v[1] .. v[2] - 1 : k \notin nulterminate(x.cmd) /\ s[k] \notin symbols \cup {" "}
=============================================================================
