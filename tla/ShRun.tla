-------------------------------- MODULE ShRun --------------------------------
(***************************************************************************)
(* How user/sh.c runs a command: main() and runcmd() with the processes,   *)
(* descriptors and pipes they make.  One step is one system call, or the   *)
(* descriptor calls a process makes between two others.  The kernel gives  *)
(* out the lowest free descriptor and wait() takes any child that exited.  *)
(*                                                                         *)
(* Programs are told apart by their first letter: "c" reads its input to   *)
(* the end, "y" writes until nobody can read, others end by themselves.    *)
(***************************************************************************)
EXTENDS ShParse

CONSTANTS
    Lines,          \* bound: what is typed, one line per behaviour
    Slots,          \* process table, 1 is the shell
    NOFILE, NPIPE,
    Failures,       \* may fork(), pipe(), open() and exec() fail?
    None

VARIABLES
    line, parse,    \* what is typed, and what parsecmd() makes of it
    proc,
    failed          \* a fork1() or pipe() of this line failed

vars == <<line, parse, proc, failed>>

FD == 0 .. NOFILE - 1
Free == [at |-> "free"]
tty == <<"tty", "rw", 0>>
File(op, f) == <<"file", op, f[1]>>
Pipe(k, end) == <<"pipe", end, k>>

Used == {p \in Slots : proc[p].at # "free"}
Kids(p) == {q \in Used : proc[q].parent = p}
Holders(x) == {q \in Used : \E d \in FD : proc[q].fd[d] = x}

-----------------------------------------------------------------------------
(* System calls on a process record: where it is, its command, parent,     *)
(* descriptors and the pipe it made; std and bg are history: the input and *)
(* output its command is meant to have, and whether it is in background.   *)

close(x, d) == [x EXCEPT !.fd[d] = None]

Lowest(x) == Min({d \in FD : x.fd[d] = None})
fdalloc(x, file) == [x EXCEPT !.fd[Lowest(x)] = file]

\* exit(): the files are closed and the children left to init, which reaps
\* them at once.
Exit(ps, p) ==
    [q \in Slots |->
        IF q = p THEN IF ps[p].parent = 0 THEN Free
                      ELSE [ps[p] EXCEPT !.at = "zombie", !.fd = [d \in FD |-> None]]
        ELSE IF ps[q].at # "free" /\ ps[q].parent = p
        THEN IF ps[q].at = "zombie" THEN Free ELSE [ps[q] EXCEPT !.parent = 0]
        ELSE ps[q]]

cmd(p) == proc[p].cmd
Runs(p, type) == proc[p].at = "run" /\ cmd(p).type = type

exit(p) == proc' = Exit(proc, p) /\ UNCHANGED <<line, parse, failed>>
panic(p) == proc' = Exit(proc, p) /\ failed' = TRUE /\ UNCHANGED <<line, parse>>

Go(p, x) == proc' = [proc EXCEPT ![p] = x] /\ UNCHANGED <<line, parse, failed>>

\* fork1(): the child is as the parent but runs cmd from at; the parent goes
\* on at next.
fork1(p, at, sub, next) ==
    \/ \E q \in Slots \ Used :
         /\ \A o \in Slots \ Used : q <= o
         /\ proc' = [proc EXCEPT ![p].at = next,
                                 ![q] = [proc[p] EXCEPT !.at = at, !.cmd = sub, !.parent = p,
                                                        !.bg = @ \/ Runs(p, "BACK")]]
         /\ UNCHANGED <<line, parse, failed>>
    \/ Failures /\ panic(p)

\* wait(0): it returns at once if there is no child.
wait(p, next) ==
    \/ \E q \in Kids(p) :
         /\ proc[q].at = "zombie"
         /\ proc' = [proc EXCEPT ![q] = Free, ![p].at = next]
         /\ UNCHANGED <<line, parse, failed>>
    \/ Kids(p) = {} /\ Go(p, [proc[p] EXCEPT !.at = next])

-----------------------------------------------------------------------------
(* runcmd() of process p. *)

runcmd_exec(p) ==
    /\ Runs(p, "EXEC")
    /\ \/ cmd(p).argv # << >> /\ Go(p, [proc[p] EXCEPT !.at = "prog"])
       \/ (cmd(p).argv = << >> \/ Failures) /\ exit(p)

Opens(op) == IF op = "<" THEN 0 ELSE 1

runcmd_redir(p) ==
    LET d == Opens(cmd(p).op)
        f == File(cmd(p).op, cmd(p).file)
    IN
    /\ Runs(p, "REDIR")
    /\ \/ Go(p, [fdalloc(close(proc[p], d), f) EXCEPT !.cmd = cmd(p).cmd, !.std[d + 1] = f])
       \/ Failures /\ exit(p)

runcmd_list(p) == Runs(p, "LIST") /\ fork1(p, "run", cmd(p).left, "list")

ListNext(p) ==
    /\ proc[p].at = "list"
    /\ \E q \in Kids(p) :
         /\ proc[q].at = "zombie"
         /\ proc' = [proc EXCEPT ![q] = Free, ![p].at = "run", ![p].cmd = cmd(p).right]
    /\ UNCHANGED <<line, parse, failed>>

\* The free pipe with the lowest number, its ends in p[0] and p[1].
runcmd_pipe(p) ==
    LET free == {k \in 1 .. NPIPE : Holders(Pipe(k, "r")) \cup Holders(Pipe(k, "w")) = {}}
        r == fdalloc(proc[p], Pipe(Min(free), "r"))
        w == fdalloc(r, Pipe(Min(free), "w"))
    IN /\ Runs(p, "PIPE")
       /\ \/ Go(p, [w EXCEPT !.at = "fork", !.p = <<Lowest(proc[p]), Lowest(r)>>])
          \/ Failures /\ panic(p)

PipeFork(p) ==
    \/ proc[p].at = "fork" /\ fork1(p, "left", cmd(p), "fork2")
    \/ proc[p].at = "fork2" /\ fork1(p, "right", cmd(p), "close")

CloseBoth(x) == close(close(x, x.p[1]), x.p[2])

\* Mutant: the read end stays open in the child.
PipeChild_leak(x, std, end) ==
    close(fdalloc(close(x, std), x.fd[x.p[end]]), x.p[2])

\* Mutant: the standard descriptor is only closed.
PipeChild_nodup(x, std, end) == CloseBoth(close(x, std))

\* A child puts its end of the pipe in place of a standard descriptor.
PipeChild(x, std, end) == CloseBoth(fdalloc(close(x, std), x.fd[x.p[end]]))

PipeSetup(p) ==
    LET x == proc[p] IN
    \/ /\ x.at = "left"
       /\ Go(p, [PipeChild(x, 1, 2) EXCEPT !.at = "run", !.cmd = x.cmd.left,
                                           !.std[2] = x.fd[x.p[2]]])
    \/ /\ x.at = "right"
       /\ Go(p, [PipeChild(x, 0, 1) EXCEPT !.at = "run", !.cmd = x.cmd.right,
                                           !.std[1] = x.fd[x.p[1]]])

\* Mutant: the shell keeps the pipe while it waits.
PipeClosed_keep(p) == proc[p]

PipeClosed(p) == CloseBoth(proc[p])

\* Mutant: one of the two children is not waited for.
PipeEnd_one(p) ==
    \/ proc[p].at = "close" /\ Go(p, [PipeClosed(p) EXCEPT !.at = "wait1"])
    \/ proc[p].at = "wait1" /\ wait(p, "exit")

PipeEnd(p) ==
    \/ proc[p].at = "close" /\ Go(p, [PipeClosed(p) EXCEPT !.at = "wait2"])
    \/ proc[p].at = "wait2" /\ wait(p, "wait1")
    \/ proc[p].at = "wait1" /\ wait(p, "exit")

runcmd_back(p) == Runs(p, "BACK") /\ fork1(p, "run", cmd(p).cmd, "exit")

RunExit(p) == proc[p].at = "exit" /\ exit(p)

\* A program ends.
Program(p) ==
    LET name == line[cmd(p).argv[1][1]]
        in == proc[p].fd[0]
        out == proc[p].fd[1]
    IN /\ proc[p].at = "prog"
       /\ name = "c" => in[1] # "pipe" \/ Holders(Pipe(in[3], "w")) = {}
       /\ name = "y" => out[1] = "pipe" /\ Holders(Pipe(out[3], "r")) = {}
       /\ exit(p)

-----------------------------------------------------------------------------
(* main(). *)

Prompt == proc[1].at = "prompt"

\* A child parses and runs the line, or exits with a syntax error.
MainFork ==
    /\ Prompt
    /\ fork1(1, IF parse.err = "" THEN "run" ELSE "exit", parse.cmd, "wait")

MainWait ==
    /\ proc[1].at = "wait"
    /\ \E q \in Kids(1) :
         /\ proc[q].at = "zombie"
         /\ proc' = [proc EXCEPT ![q] = Free, ![1].at = "done"]
    /\ UNCHANGED <<line, parse, failed>>

Init ==
    /\ line \in Lines /\ parse = parsecmd(line)
    /\ proc = [p \in Slots |->
                 IF p # 1 THEN Free
                 ELSE [at |-> "prompt", cmd |-> None, parent |-> 0, p |-> <<0, 0>>,
                       std |-> <<tty, tty>>, bg |-> FALSE,
                       fd |-> [d \in FD |-> IF d < 3 THEN tty ELSE None]]]
    /\ failed = FALSE

Step(p) ==
    \/ runcmd_exec(p) \/ runcmd_redir(p) \/ runcmd_list(p) \/ ListNext(p)
    \/ runcmd_pipe(p) \/ PipeFork(p) \/ PipeSetup(p) \/ PipeEnd(p)
    \/ runcmd_back(p) \/ RunExit(p) \/ Program(p)

Next == MainFork \/ MainWait \/ \E p \in Slots \ {1} : Step(p)

Spec == Init /\ [][Next]_vars

-----------------------------------------------------------------------------
(* Properties. *)

\* Descriptors 0, 1 and 2 are open in every process, so the lowest free one is
\* always the one just closed; no process has more than two children.
ShTypeOK ==
    \A p \in Used :
        /\ proc[p].at # "zombie" => \A d \in 0 .. 2 : proc[p].fd[d] # None
        /\ Cardinality(Kids(p)) <= 2

(***************************************************************************)
(* A program starts with the input and output that the line gives it,      *)
(* through any nesting of pipes, blocks and redirections, and with no      *)
(* other descriptor: no stray end of a pipe keeps a neighbour waiting.     *)
(***************************************************************************)
DescriptorsRight ==
    \A p \in Used :
        proc[p].at = "prog" =>
            proc[p].fd = [d \in FD |-> IF d < 2 THEN proc[p].std[d + 1]
                                       ELSE IF d = 2 THEN tty ELSE None]

(***************************************************************************)
(* When the shell is back at its prompt every process of the line that was *)
(* not put in the background has ended, unless a fork or pipe failed.      *)
(***************************************************************************)
ForegroundDone ==
    proc[1].at = "done" /\ ~failed => \A p \in Used \ {1} : proc[p].bg

\* Every process that can take a step does.
Fairness == WF_vars(MainFork) /\ WF_vars(MainWait) /\ \A p \in Slots \ {1} : WF_vars(Step(p))
FairSpec == Spec /\ Fairness

(***************************************************************************)
(* The shell gets back to its prompt (or has ended): a pipeline ends once  *)
(* its programs see the end of their input, or that nobody reads their     *)
(* output, because everyone else has closed the ends of its pipes.         *)
(***************************************************************************)
PromptReturns == []<>(proc[1].at \in {"done", "free"})

(***************************************************************************)
(* The shell wires commands up as the line says and returns to its prompt  *)
(* when the foreground is done.                                            *)
(***************************************************************************)
ShellInv ==
    /\ ShTypeOK
    /\ DescriptorsRight
    /\ ForegroundDone
=============================================================================
