-------------------------------- MODULE MCTerm --------------------------------
(***************************************************************************)
(* Bounded instances of the terminal and the shell: the console with its   *)
(* UART, a pipe, the parser of the shell on every short line, the          *)
(* processes of the shell on some lines, and text filters on short texts.  *)
(* A behaviour is about one of them.                                       *)
(***************************************************************************)
EXTENDS Pipe, TLC

CONSTANTS r1, r2, w1, w2, p1, p2, p3,
    INPUT_BUF_SIZE, UintMod, FIFO, MaxRead, MaxWrite, Batch, MaxTyped,
    MAXARGS, Slots, NOFILE, NPIPE, None

VARIABLES part, text, line, parse, proc, failed,
    buf, r, w, e, lock, rd, wr, tx_busy, ih, thr, txint, rx, kp, use,
    job, pos, tbuf, out, cnt, at, fault

\* Every line of up to four characters, longer ones of fewer characters.
Strings(C, max) == UNION {[1 .. k -> C] : k \in 0 .. max}
Texts ==
    Strings({"a", " ", "|", "&", ";", "(", ")", "<", ">"}, 4) \cup
    Strings({"a", "(", ")", ";", "|"}, 5) \cup Strings({"a", " ", "<"}, 6)

MCLines ==
    {<<"q", "|", "c">>,
     <<"y", "|", "q", "|", "c">>,
     <<"q", "&", ";", "c", "<", "f", "|", "q", ">", "g">>,
     <<"(", "q", ";", "q", ")", "|", "c", "&">>,
     <<"y", "|", "(", "q", ";", "q", ")">>,
     <<"|">>,
     <<"q", "(">>}

Sh == INSTANCE ShRun WITH Lines <- MCLines, Failures <- TRUE

Job(prog, arg, t) == [prog |-> prog, arg |-> arg, text |-> t]
NoJob == Job("none", << >>, << >>)
Patterns ==
    {<< >>, <<"a">>, <<"^", "b">>, <<"a", "$">>, <<"a", "*", "b">>, <<"b", ".">>}
MCJobs ==
    {Job("grep", re, t) : re \in Patterns,
                          t \in Strings({"a", "b", "nl"}, 4) \cup Strings({"b", "nl"}, 5)} \cup
    {Job(prog, << >>, t) : prog \in {"wc", "cat", "custom_cp"}, t \in Strings({"a", " ", "nl"}, 5)} \cup
    {Job("match", re, t) : re \in Strings({"a", ".", "*", "^", "$"}, 3),
                           t \in Strings({"a", "b", "*", "$"}, 2)} \cup
    {Job("match", re, t) : re \in Strings({"a", ".", "*"}, 4), t \in Strings({"a", "b"}, 4)} \cup
    {Job("text", << >>, t) : t \in Strings({"a", "A", " ", "nl", "ff", "x"}, 4) \cup
                                   Strings({"a", "nl", "x"}, 6)}

Pr == INSTANCE Programs
        WITH BUF <- 4, MAX_LINE <- 4, MAX_ARGS <- 2, Jobs <- MCJobs \cup {NoJob}, buf <- tbuf

Typists == {r1, r2}
Printers == {w1, w2}
MCUses ==
    {[keys |-> {"x", "nl", "^H", "^U", "^P"}, readers |-> {p}, writers |-> {}, messages |-> FALSE] :
       p \in Typists} \cup
    {[keys |-> {"x", "^D"}, readers |-> Typists, writers |-> {}, messages |-> FALSE],
     [keys |-> {"x", "cr", "nul"}, readers |-> {}, writers |-> Printers, messages |-> TRUE]}

Con == INSTANCE Console WITH Reader <- Typists, Writer <- Printers, Uses <- MCUses

MCSymmetry == Permutations(Typists) \cup Permutations(Printers) \cup Permutations(Reader)

shvars == <<line, parse, proc, failed>>
cvars == <<buf, r, w, e, lock, rd, wr, tx_busy, ih, thr, txint, rx, kp, use>>
fvars == <<job, pos, tbuf, out, cnt, at, fault>>

MCInit ==
    /\ Con!Init
    /\ part \in {"console", "pipe", "parse", "shell", "program"}
    /\ IF part = "console" THEN TRUE ELSE use = [keys |-> {"x", "^D"}, readers |-> Typists,
                                                 writers |-> {}, messages |-> FALSE]
    /\ IF part = "parse" THEN text \in Texts ELSE text = << >>
    /\ IF part = "shell" THEN Sh!Init
       ELSE line = << >> /\ parse = None /\ failed = FALSE
            /\ proc = [p \in Slots |-> Sh!Free]
    /\ Init
    /\ IF part = "pipe" THEN TRUE ELSE data = [k \in {0, 1} |-> 0]
    /\ job \in IF part = "program" THEN MCJobs ELSE {NoJob}
    /\ Pr!Init

MCNext ==
    \/ part = "console" /\ Con!Next /\ UNCHANGED <<part, text, shvars, vars, fvars>>
    \/ part = "pipe" /\ Next /\ UNCHANGED <<part, text, shvars, fvars, cvars>>
    \/ part = "shell" /\ Sh!Next /\ UNCHANGED <<part, text, vars, fvars, cvars>>
    \/ part = "program" /\ Pr!Next /\ UNCHANGED <<part, text, shvars, vars, cvars>>

MCSpec == MCInit /\ [][MCNext]_<<part, text, shvars, vars, fvars, cvars>>

-----------------------------------------------------------------------------
(***************************************************************************)
(* parsecmd() accepts a line just when the grammar does, and returns the   *)
(* only tree the grammar gives it; each word of a command, terminated in   *)
(* place by nulterminate(), is the word that was typed.                    *)
(***************************************************************************)
LinesParsed ==
    part = "parse" =>
      \A x \in {Sh!parsecmd(text)} : Sh!ParsesGrammar(text, x) /\ Sh!WordsKept(text, x)

\* Who sleeps in consoleread() or uartwrite() has something to wait for.
ConsoleInv == Con!ConsoleInv
\* consoleintr() and consoleread() keep a queue of lines in their ring buffer.
ImplementsLines == Con!ImplementsLines
\* runcmd() gives programs the descriptors of the line and waits for the
\* foreground.
ShellInv == Sh!ShellInv
\* grep, wc, cat and the custom programs compute their functions of the text.
ProgramsInv == Pr!ProgramsInv
=============================================================================
