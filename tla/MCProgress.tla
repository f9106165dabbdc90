----------------------------- MODULE MCProgress -----------------------------
(***************************************************************************)
(* What waits is let go: small instances of the modules in which processes *)
(* sleep until others act, each under the fairness its own module states.  *)
(* A behaviour is about one of them; the others stay as they are at first. *)
(***************************************************************************)
EXTENDS Clock, TLC

CONSTANTS c1, lk, NoCPU, NoProc, NoChan, p1, p2, p3, b1, Torn, NotCached, None

VARIABLES part,
    \* Sem
    sstate, schan, sctx, slock, snoff, scproc, sstack, sscan, value, spc, wi, hist,
    \* Proc
    state, chan, ctx, lock, noff, cproc, stack, scan, parent, ppc, pi, pw, np, havekids,
    \* Log
    home, logd, loghead, cache, pin, lh, outstanding, committing, op, wrote, lpc, tail,
    \* Pipe
    holder, data, nread, nwrite, readopen, writeopen, freed, fd, pc, i, n,
    \* VirtioDisk
    free, desc, info, status, ops, avail, availIdx, used, usedIdx, used_idx,
    bdisk, vdata, vpc, req, idx, intr, handler, devIdx, inDev, medium,
    \* ShRun
    line, parse, proc, failed

semv == <<sstate, schan, sctx, slock, snoff, scproc, sstack, sscan, value, spc, wi, hist>>
procv == <<state, chan, ctx, lock, noff, cproc, stack, scan, parent, ppc, pi, pw, np, havekids>>
logv == <<home, logd, loghead, cache, pin, lh, outstanding, committing, op, wrote, lpc, tail>>
pipev == <<holder, data, nread, nwrite, readopen, writeopen, freed, fd, pc, i, n>>
diskv == <<free, desc, info, status, ops, avail, availIdx, used, usedIdx, used_idx,
           bdisk, vdata, vpc, req, idx, intr, handler, devIdx, inDev, medium>>
shv == <<line, parse, proc, failed>>

\* One process is enough for the clock, whose processes share only ticks.
MCArgs == {-1, 0, 2}

\* Sem and Proc run on one CPU with one lock besides the p->lock's.
S == INSTANCE Sem
       WITH CPU <- {c1}, NPROC <- 3, CondLock <- {lk}, Chan <- {lk}, global_sem <- lk,
            InitValue <- 1, MaxValue <- 1, Undisciplined <- FALSE,
            state <- sstate, chan <- schan, ctx <- sctx, lock <- slock, noff <- snoff,
            cproc <- scproc, stack <- sstack, scan <- sscan, pc <- spc
P == INSTANCE Proc
       WITH CPU <- {c1}, NPROC <- 3, CondLock <- {lk}, Chan <- 0 .. 2, wait_lock <- lk,
            pc <- ppc, i <- pi, w <- pw
L == INSTANCE Log
       WITH Block <- {b1}, Val <- {0, 1}, InitVal <- 0, Op <- {p1, p2},
            MAXOPBLOCKS <- 1, LOGBLOCKS <- 1, disk <- home, head <- loghead, pc <- lpc
Pi == INSTANCE Pipe
        WITH Reader <- {p1, p2}, Writer <- {p3}, Byte <- {0}, PIPESIZE <- 1, UINT <- 2,
             MaxN <- 2, Nobody <- None, lk <- holder
V == INSTANCE VirtioDisk
       WITH Proc <- {p1, p2}, Modes <- [p \in {p1, p2} |-> {TRUE}], NUM <- 4, IdxMod <- 4,
            Val <- {0, 1}, InitVal <- 0, data <- vdata, pc <- vpc, disk <- medium
Sh == INSTANCE ShRun
        WITH MAXARGS <- 3, Slots <- 1 .. 7, NOFILE <- 5, NPIPE <- 2, Failures <- TRUE,
             Lines <- {<<"y", "|", "q", "|", "c">>, <<"(", "q", ";", "q", ")", "|", "c", "&">>,
                       <<"q", "&", ";", "c", "<", "f", "|", "q", ">", "g">>,
                       <<"y", "|", "(", "q", ";", "q", ")">>}

MCInit ==
    /\ part \in {"sem", "proc", "log", "pipe", "disk", "shell", "clock"}
    /\ S!SemInit /\ P!ProcInit /\ L!Init /\ Pi!Init /\ V!Init
    /\ IF part = "shell" THEN Sh!Init
       ELSE line = << >> /\ parse = None /\ proc = [q \in 1 .. 7 |-> Sh!Free] /\ failed = FALSE
    /\ Init /\ (ticks = 3 \/ part = "clock")

MCNext ==
    \/ part = "sem" /\ S!SemNext /\ UNCHANGED <<part, procv, logv, pipev, diskv, shv, vars>>
    \/ part = "proc" /\ P!ProcNext /\ UNCHANGED <<part, semv, logv, pipev, diskv, shv, vars>>
    \/ part = "log" /\ L!Next /\ UNCHANGED <<part, semv, procv, pipev, diskv, shv, vars>>
    \/ part = "pipe" /\ Pi!Next /\ UNCHANGED <<part, semv, procv, logv, diskv, shv, vars>>
    \/ part = "disk" /\ V!Next /\ UNCHANGED <<part, semv, procv, logv, pipev, shv, vars>>
    \/ part = "shell" /\ Sh!Next /\ UNCHANGED <<part, semv, procv, logv, pipev, diskv, vars>>
    \/ part = "clock" /\ Next /\ UNCHANGED <<part, semv, procv, logv, pipev, diskv, shv>>

all == <<part, semv, procv, logv, pipev, diskv, shv, vars>>

OfSem(A) == part = "sem" /\ A /\ UNCHANGED <<part, procv, logv, pipev, diskv, shv, vars>>
OfProc(A) == part = "proc" /\ A /\ UNCHANGED <<part, semv, logv, pipev, diskv, shv, vars>>
OfLog(A) == part = "log" /\ A /\ UNCHANGED <<part, semv, procv, pipev, diskv, shv, vars>>
OfPipe(A) == part = "pipe" /\ A /\ UNCHANGED <<part, semv, procv, logv, diskv, shv, vars>>
OfDisk(A) == part = "disk" /\ A /\ UNCHANGED <<part, semv, procv, logv, pipev, shv, vars>>
OfShell(A) == part = "shell" /\ A /\ UNCHANGED <<part, semv, procv, logv, pipev, diskv, vars>>
OfClock(A) == part = "clock" /\ A /\ UNCHANGED <<part, semv, procv, logv, pipev, diskv, shv>>

(***************************************************************************)
(* Each module's own fairness.  Only one part ever moves in a behaviour,   *)
(* so a condition on a union of actions of different parts says of each    *)
(* part what the condition on its own action would.  (Sem has a condition  *)
(* for each process in its critical section; there is at most one.)        *)
(***************************************************************************)
StrongFairness ==
    /\ SF_all(\/ OfSem(\E p \in S!Proc : S!Timer(c1, p))
              \/ OfProc(\E p \in P!Proc : P!Timer(c1, p))
              \/ OfClock(clockintr))
    /\ \A k \in 0 .. 2 :
          SF_all(\/ OfSem(S!KernelStep(c1, k))
                 \/ OfProc(P!KernelStep(c1, k))
                 \/ OfPipe(Pi!Step(<<p1, p2, p3>>[k + 1])))
    /\ SF_all(\/ OfSem(\E p \in S!Proc : spc[p] = "crit" /\ S!Call(c1, p))
              \/ OfProc(P!Call(c1, P!initproc) /\ ppc'[P!initproc] = "wait"))

WeakFairness ==
    /\ WF_all(\/ OfSem(S!Machine(c1)) \/ OfProc(P!Machine(c1)) \/ OfLog(L!commit)
              \/ OfDisk(V!Handler) \/ OfShell(Sh!MainFork))
    /\ WF_all(OfLog(L!recover_from_log) \/ OfDisk(V!Device) \/ OfShell(Sh!MainWait))
    /\ WF_all(OfLog(L!begin_op(p1)) \/ OfDisk(V!Process(p1)) \/ OfClock(Step(p1)))
    /\ WF_all(OfLog(L!begin_op(p2)) \/ OfDisk(V!Process(p2)))
    /\ \A p \in {p1, p2} : WF_all(OfLog(L!end_op(p)))
    /\ \A k \in 2 .. 7 : WF_all(OfShell(Sh!Step(k)))

MCSpec == MCInit /\ [][MCNext]_all /\ StrongFairness /\ WeakFairness

\* A process that waits for the semaphore is followed by one that has it.
SemProgress == S!SemProgress
\* init reaps the children it inherited.
OrphansReaped == P!OrphansReaped
\* begin_op() returns.
BeginReturns == L!BeginReturns
\* A pipe with a closed end keeps nobody waiting at the other.
ClosedEndUnblocks == Pi!ClosedEndUnblocks
\* Disk requests complete.
DiskReturns == V!DiskReturns
\* The shell gets back to its prompt.
PromptReturns == Sh!PromptReturns
=============================================================================
