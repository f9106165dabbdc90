-------------------------------- MODULE Pipe --------------------------------
(***************************************************************************)
(* Pipes of kernel/pipe.c shared by several readers and writers, one byte  *)
(* per step.  The counters nread and nwrite are unsigned and wrap around   *)
(* at UINT, a multiple of PIPESIZE as 2^32 is of 512.  fork() has given    *)
(* each end to several processes; the last fileclose() of an end calls     *)
(* pipeclose().                                                            *)
(*                                                                         *)
(* sleep and wakeup are atomic here; module Sem checks them in detail.     *)
(* killed(pr) is never true inside a system call (see module Signal), so a *)
(* signal only makes a sleeper runnable.                                   *)
(***************************************************************************)
EXTENDS Integers, Sequences

CONSTANTS
    Reader, Writer,     \* processes holding the ends
    Byte,
    PIPESIZE, UINT,
    MaxN,               \* bound on the count passed to read and write
    Nobody

User == Reader \cup Writer

ASSUME PipeAssumption ==
    /\ Reader \cap Writer = {}
    /\ Nobody \notin User
    /\ PIPESIZE \in Nat \ {0} /\ MaxN \in Nat \ {0} /\ UINT \in Nat
    /\ \E k \in 2 .. UINT : UINT = k * PIPESIZE

VARIABLES
    lk,                 \* holder of pi->lock, Nobody if it is free
    data, nread, nwrite, readopen, writeopen,
    freed,              \* kfree(pi) has happened
    fd,                 \* does the process still hold its end open?
    pc, i, n            \* of each process; after its call i is what it returned

pipe == <<data, nread, nwrite, readopen, writeopen, freed>>
vars == <<lk, pipe, fd, pc, i, n>>

PC == {"idle", "lock", "loop", "asleep", "copy"}

\* Types; counters stay in their width and positions in the buffer.
TypeOK ==
    /\ lk \in User \cup {Nobody}
    /\ data \in [0 .. PIPESIZE - 1 -> Byte]
    /\ nread \in 0 .. UINT - 1 /\ nwrite \in 0 .. UINT - 1
    /\ readopen \in BOOLEAN /\ writeopen \in BOOLEAN /\ freed \in BOOLEAN
    /\ fd \in [User -> BOOLEAN]
    /\ pc \in [User -> PC]
    /\ i \in [User -> -1 .. MaxN] /\ n \in [User -> 0 .. MaxN]

Init ==
    /\ lk = Nobody
    /\ data \in [0 .. PIPESIZE - 1 -> Byte]     \* kalloc() leaves junk
    /\ nread = 0 /\ nwrite = 0
    /\ readopen = TRUE /\ writeopen = TRUE
    /\ freed = FALSE
    /\ fd = [p \in User |-> TRUE]
    /\ pc = [p \in User |-> "idle"]
    /\ i = [p \in User |-> 0] /\ n = [p \in User |-> 0]

Empty == nread = nwrite

\* Mutant: one byte too many fits.
FullLate == nwrite = (nread + PIPESIZE + 1) % UINT

Full == nwrite = (nread + PIPESIZE) % UINT

Goto(p, to) == pc' = [pc EXCEPT ![p] = to]

\* wakeup(&pi->nread) is Wake(Reader), wakeup(&pi->nwrite) Wake(Writer).
Wake(S) == [p \in User |-> IF p \in S /\ pc[p] = "asleep" THEN "lock" ELSE pc[p]]

-----------------------------------------------------------------------------
\* read(fd, buf, k) or write(fd, buf, k).
Call(p, k) ==
    /\ pc[p] = "idle" /\ fd[p]
    /\ Goto(p, "lock")
    /\ i' = [i EXCEPT ![p] = 0]
    /\ n' = [n EXCEPT ![p] = k]
    /\ UNCHANGED <<lk, pipe, fd>>

\* acquire(&pi->lock), on entry or at the end of sleep().
AcquireLock(p) ==
    /\ pc[p] = "lock"
    /\ lk = Nobody
    /\ lk' = p
    /\ Goto(p, "loop")
    /\ UNCHANGED <<pipe, fd, i, n>>

\* sleep(chan, &pi->lock) after waking the processes in S.
SleepAfterWaking(p, S) ==
    /\ pc' = [Wake(S) EXCEPT ![p] = "asleep"]
    /\ lk' = Nobody

\* wakeup of S, release(&pi->lock) and return.
Leave(p, S) ==
    /\ pc' = [Wake(S) EXCEPT ![p] = "idle"]
    /\ lk' = Nobody
    /\ n' = [n EXCEPT ![p] = 0]

\* Mutant: the loop copies n + 1 bytes.
pipewrite_overrun(p, ch) ==
    /\ p \in Writer /\ pc[p] = "loop" /\ i[p] <= n[p]
    /\ \/ /\ ~readopen
          /\ i' = [i EXCEPT ![p] = -1]
          /\ Leave(p, {})
          /\ UNCHANGED pipe
       \/ /\ readopen /\ Full
          /\ SleepAfterWaking(p, Reader)
          /\ UNCHANGED <<pipe, i, n>>
       \/ /\ readopen /\ ~Full
          /\ data' = [data EXCEPT ![nwrite % PIPESIZE] = ch]
          /\ nwrite' = (nwrite + 1) % UINT
          /\ i' = [i EXCEPT ![p] = @ + 1]
          /\ UNCHANGED <<lk, nread, readopen, writeopen, freed, pc, n>>
    /\ UNCHANGED fd

pipewrite(p, ch) ==
    /\ p \in Writer /\ pc[p] = "loop" /\ i[p] < n[p]
    /\ \/ /\ ~readopen
          /\ i' = [i EXCEPT ![p] = -1]
          /\ Leave(p, {})
          /\ UNCHANGED pipe
       \/ /\ readopen /\ Full
          /\ SleepAfterWaking(p, Reader)
          /\ UNCHANGED <<pipe, i, n>>
       \/ /\ readopen /\ ~Full
          /\ data' = [data EXCEPT ![nwrite % PIPESIZE] = ch]
          /\ nwrite' = (nwrite + 1) % UINT
          /\ i' = [i EXCEPT ![p] = @ + 1]
          /\ UNCHANGED <<lk, nread, readopen, writeopen, freed, pc, n>>
       \/ \* copyin fails
          /\ readopen /\ ~Full
          /\ Leave(p, Reader)
          /\ UNCHANGED <<pipe, i>>
    /\ UNCHANGED fd

pipewrite_done(p) ==
    /\ p \in Writer /\ pc[p] = "loop" /\ i[p] = n[p]
    /\ Leave(p, Reader)
    /\ UNCHANGED <<pipe, fd, i>>

\* Mutant: piperead() does not wait for data.
piperead_nowait(p) ==
    /\ p \in Reader /\ pc[p] = "loop"
    /\ Goto(p, "copy")
    /\ UNCHANGED <<lk, pipe, fd, i, n>>

\* The while loop of piperead.
piperead_wait(p) ==
    /\ p \in Reader /\ pc[p] = "loop"
    /\ IF Empty /\ writeopen
       THEN SleepAfterWaking(p, {})
       ELSE Goto(p, "copy") /\ UNCHANGED lk
    /\ UNCHANGED <<pipe, fd, i, n>>

\* The for loop of piperead: a byte that copyout stores, or a failure.
piperead_copy(p) ==
    /\ p \in Reader /\ pc[p] = "copy" /\ i[p] < n[p] /\ ~Empty
    /\ \/ /\ nread' = (nread + 1) % UINT
          /\ i' = [i EXCEPT ![p] = @ + 1]
          /\ UNCHANGED <<lk, pc, n>>
       \/ /\ i' = [i EXCEPT ![p] = IF @ = 0 THEN -1 ELSE @]
          /\ Leave(p, Writer)
          /\ UNCHANGED nread
    /\ UNCHANGED <<data, nwrite, readopen, writeopen, freed, fd>>

piperead_done(p) ==
    /\ p \in Reader /\ pc[p] = "copy"
    /\ i[p] = n[p] \/ Empty
    /\ Leave(p, Writer)
    /\ UNCHANGED <<pipe, fd, i>>

\* fileclose(); the last close of an end calls pipeclose().
LastOf(p, S) == \A r \in S \ {p} : ~fd[r]

\* Mutant: pipeclose() without its wake-ups.
pipeclose_silent(p) ==
    /\ pc[p] = "idle" /\ fd[p]
    /\ lk = Nobody
    /\ fd' = [fd EXCEPT ![p] = FALSE]
    /\ writeopen' = (writeopen /\ ~(p \in Writer /\ LastOf(p, Writer)))
    /\ readopen' = (readopen /\ ~(p \in Reader /\ LastOf(p, Reader)))
    /\ freed' = (~readopen' /\ ~writeopen')
    /\ UNCHANGED <<lk, data, nread, nwrite, pc, i, n>>

\* Mutant: the page is freed when the first end is closed.
pipeclose_early(p) ==
    /\ pc[p] = "idle" /\ fd[p]
    /\ lk = Nobody
    /\ fd' = [fd EXCEPT ![p] = FALSE]
    /\ writeopen' = (writeopen /\ ~(p \in Writer /\ LastOf(p, Writer)))
    /\ readopen' = (readopen /\ ~(p \in Reader /\ LastOf(p, Reader)))
    /\ freed' = (~readopen' \/ ~writeopen')
    /\ pc' = Wake(User)
    /\ UNCHANGED <<lk, data, nread, nwrite, i, n>>

pipeclose(p) ==
    /\ pc[p] = "idle" /\ fd[p]
    /\ fd' = [fd EXCEPT ![p] = FALSE]
    /\ \/ /\ p \in Writer /\ LastOf(p, Writer)
          /\ lk = Nobody
          /\ writeopen' = FALSE
          /\ pc' = Wake(Reader)
          /\ freed' = ~readopen
          /\ UNCHANGED readopen
       \/ /\ p \in Reader /\ LastOf(p, Reader)
          /\ lk = Nobody
          /\ readopen' = FALSE
          /\ pc' = Wake(Writer)
          /\ freed' = ~writeopen
          /\ UNCHANGED writeopen
       \/ /\ p \in Writer => ~LastOf(p, Writer)
          /\ p \in Reader => ~LastOf(p, Reader)
          /\ UNCHANGED <<readopen, writeopen, freed, pc>>
    /\ UNCHANGED <<lk, data, nread, nwrite, i, n>>

\* kkill() makes a sleeper runnable; it goes round its loop again.
kkill(p) ==
    /\ pc[p] = "asleep"
    /\ Goto(p, "lock")
    /\ UNCHANGED <<lk, pipe, fd, i, n>>

Step(p) ==
    \/ AcquireLock(p)
    \/ \E ch \in Byte : pipewrite(p, ch)
    \/ pipewrite_done(p)
    \/ piperead_wait(p)
    \/ piperead_copy(p)
    \/ piperead_done(p)

Next ==
    \E p \in User :
        \/ \E k \in 0 .. MaxN : Call(p, k)
        \/ Step(p)
        \/ pipeclose(p)
        \/ kkill(p)

Spec == Init /\ [][Next]_vars

\* A process inside a call keeps executing it, and gets pi->lock some day.
FairSpec == Spec /\ \A p \in User : SF_vars(Step(p))

-----------------------------------------------------------------------------
(* Properties. *)

\* The bytes in the buffer, oldest first.
Count == (nwrite - nread) % UINT

Queue == [k \in 1 .. Count |-> data[((nread + k - 1) % UINT) % PIPESIZE]]

Q == INSTANCE Fifo WITH q <- Queue, Size <- PIPESIZE

(***************************************************************************)
(* The ring buffer is a FIFO of PIPESIZE bytes for any mix of readers and  *)
(* writers, over the wrap-around of the buffer and of the unsigned         *)
(* counters, and the ends close for good.                                  *)
(***************************************************************************)
PipeIsFifo == Q!Spec

(***************************************************************************)
(* No lost wake-up: while the lock is free, a sleeping reader faces an     *)
(* empty pipe that still has a writer, and a sleeping writer a full pipe   *)
(* that still has a reader.                                                *)
(***************************************************************************)
SleepersMustWait ==
    lk = Nobody =>
        \A p \in User : pc[p] = "asleep" =>
            IF p \in Reader THEN Empty /\ writeopen ELSE Full /\ readopen

(***************************************************************************)
(* read() of a positive count returns 0 only at the end of the stream: the *)
(* pipe is drained and its write end is closed.                            *)
(***************************************************************************)
ZeroMeansEof ==
    [][\A p \in Reader :
          pc[p] = "copy" /\ pc'[p] = "idle" /\ n[p] > 0 /\ i'[p] = 0
              => Empty /\ ~writeopen]_vars

(***************************************************************************)
(* The page of a pipe is freed only when no process is inside read() or    *)
(* write() on it or could enter them again.                                *)
(***************************************************************************)
FreedUnused == freed => \A p \in User : pc[p] = "idle" /\ ~fd[p]

(***************************************************************************)
(* A call cannot block forever once the other end is closed: blocked       *)
(* writers learn that the readers are gone, blocked readers see the end.   *)
(***************************************************************************)
ClosedEndUnblocks ==
    /\ \A p \in Writer : []<>(readopen \/ pc[p] = "idle")
    /\ \A p \in Reader : []<>(writeopen \/ pc[p] = "idle")

(***************************************************************************)
(* A pipe is sound: sleepers have a reason to sleep, and its page is freed *)
(* when nobody can use it.                                                 *)
(***************************************************************************)
PipeInv ==
    /\ TypeOK
    /\ SleepersMustWait
    /\ FreedUnused

(***************************************************************************)
(* Readers get the bytes that were written, in order, and 0 only at the    *)
(* end.                                                                    *)
(***************************************************************************)
PipeServes ==
    /\ PipeIsFifo
    /\ ZeroMeansEof
=============================================================================
