----------------------------- MODULE ProcProofs -----------------------------
(***************************************************************************)
(* Proofs about the life cycle of processes of module Proc, for any number *)
(* of CPUs and slots: kfork(), kexit() and kwait() keep the discipline of  *)
(* the scheduler, the table is a sound family at every step, and a zombie  *)
(* is freed by its parent only.                                            *)
(*                                                                         *)
(* The inductive invariant ProcIInv adds to the scheduler's invariant and  *)
(* to TableIInv who holds wait_lock and the p->lock's (LocksInv).  It is   *)
(* what makes wait_lock exclude, which the steps of TableProofs rest on.   *)
(***************************************************************************)
EXTENDS TableProofs, SchedProofs

\* Where a process holds its p->lock besides wait_lock.
HasBoth == {"zombie", "sleep"}

\* A process between acquire(&wait_lock) and release() executes, and its CPU
\* has the lock.
WaitHeld ==
    \A p \in Proc : pc[p] \in HasWait =>
        /\ ctx[p] = "on"
        /\ \E c \in CPU : stack[c] = p /\ lock[wait_lock] = c

\* Whoever has wait_lock is in such a section.
WaitHolder ==
    \A c \in CPU : lock[wait_lock] = c =>
        \E p \in Proc : stack[c] = p /\ pc[p] \in HasWait

\* A process on its way into sched() has its own lock.
SelfHeld ==
    \A c \in CPU, p \in Proc : stack[c] = p /\ pc[p] \in HasBoth => lock[p] = c

\* Who else has the lock of a slot.
SelfHolder ==
    \A c \in CPU, p \in Proc : lock[p] = c =>
        \/ stack[c] = p /\ (ctx[p] \in {"sched", "back"} \/ pc[p] \in HasBoth)
        \/ stack[c] = NoProc /\ cproc[c] = p

LocksInv == WaitHeld /\ WaitHolder /\ SelfHeld /\ SelfHolder

ProcIInv == TableIInv /\ SchedIInv /\ LocksInv


\* The conjuncts of ProcIInv.
LEMMA ProcParts ==
    ASSUME ProcIInv
    PROVE  TableIInv /\ ProcTypeOK /\ SchedIInv /\ LocksInv
  BY TableParts, Zenon DEF ProcIInv

\* The conjuncts of LocksInv.
LEMMA LocksParts == ASSUME LocksInv PROVE WaitHeld /\ WaitHolder /\ SelfHeld /\ SelfHolder
  BY Zenon DEF LocksInv

\* LocksInv holds after a step when its conjuncts do.
LEMMA LocksWhole == ASSUME WaitHeld', WaitHolder', SelfHeld', SelfHolder' PROVE LocksInv'
  BY Zenon DEF LocksInv

-----------------------------------------------------------------------------
(* Who holds which lock. *)

\* The locks are those of the slots and wait_lock.
LEMMA LockIs == Lock = Proc \cup {wait_lock} /\ wait_lock \notin Proc
  BY SchedAssumption, ProcAssumption, Zenon DEF Lock

\* wait_lock serialises kexit() and kwait(), and who executes is RUNNING.
LEMMA LocksWork == ASSUME ProcIInv PROVE Discipline /\ Exclusive /\ Awake
<1>1. SchedIInv /\ WaitHeld
  BY ProcParts, LocksParts, Zenon
<1>2. Exclusive
  BY <1>1, Zenon DEF WaitHeld, Exclusive
<1>3. WaitFree
  BY <1>1, SchedAssumption, Zenon DEF WaitHeld, WaitFree, Free
<1>4. \A c \in CPU, p \in Proc : stack[c] = p /\ ctx[p] = "on" => state[p] = "RUNNING"
  BY <1>1, StackFacts, Zenon
<1>5. Awake
  BY <1>4, Zenon DEF Awake, Runs
<1> QED
  BY <1>2, <1>3, <1>5, Zenon DEF Discipline

\* Whoever is in a section under wait_lock holds it on its CPU.
LEMMA HolderOfWait ==
    ASSUME ProcIInv, NEW c \in CPU, NEW p \in Proc, stack[c] = p, pc[p] \in HasWait
    PROVE  lock[wait_lock] = c
<1>1. SchedIInv /\ WaitHeld
  BY ProcParts, LocksParts, Zenon
<1>2. PICK d \in CPU : stack[d] = p /\ lock[wait_lock] = d
  BY <1>1, Zenon DEF WaitHeld
<1> QED
  BY <1>1, <1>2, StackFacts, Zenon

\* A CPU executing a process outside these sections holds no lock.
LEMMA NoLockOutside ==
    ASSUME ProcIInv, NEW c \in CPU, NEW p \in Proc, Runs(c, p), pc[p] \notin HasWait
    PROVE  noff[c] = 0
<1>1. WaitHolder /\ SelfHolder /\ NoffCountsLocks
  BY ProcParts, LocksParts, SchedParts, Zenon
<1>2. stack[c] = p /\ ctx[p] = "on" /\ p # NoProc /\ pc[p] \notin HasBoth
  BY SchedAssumption, Zenon DEF Runs, HasWait, HasBoth
<1>3. lock[wait_lock] # c
  BY <1>1, <1>2, Zenon DEF WaitHolder
<1>4. \A l \in Proc : lock[l] # c
  BY <1>1, <1>2, Zenon DEF SelfHolder
<1>5. {l \in Lock : holding(c, l)} = {}
  BY <1>3, <1>4, LockIs, Zenon DEF holding
<1>6. noff[c] = Cardinality({l \in Lock : holding(c, l)})
  BY <1>1, Zenon DEF NoffCountsLocks
<1> QED
  BY <1>5, <1>6, FS_EmptySet, Zenon

\* Inside, it holds wait_lock only, until it takes its p->lock ...
LEMMA OneLockInside ==
    ASSUME ProcIInv, NEW c \in CPU, NEW p \in Proc, Runs(c, p), pc[p] \in HasWait \ HasBoth
    PROVE  noff[c] = 1
<1>1. SelfHolder /\ NoffCountsLocks
  BY ProcParts, LocksParts, SchedParts, Zenon
<1>2. stack[c] = p /\ ctx[p] = "on" /\ p # NoProc
  BY SchedAssumption, Zenon DEF Runs
<1>3. lock[wait_lock] = c
  BY <1>2, HolderOfWait, Zenon
<1>4. \A l \in Proc : lock[l] # c
  BY <1>1, <1>2, Zenon DEF SelfHolder
<1>5. {l \in Lock : holding(c, l)} = {wait_lock}
  BY <1>3, <1>4, LockIs, Zenon DEF holding
<1>6. noff[c] = Cardinality({l \in Lock : holding(c, l)})
  BY <1>1, Zenon DEF NoffCountsLocks
<1>7. Cardinality({wait_lock}) = 1
  BY FS_Singleton, Zenon
<1> QED
  BY <1>5, <1>6, <1>7, Zenon

\* ... and then both.
LEMMA TwoLocksAtSched ==
    ASSUME ProcIInv, NEW c \in CPU, NEW p \in Proc, Runs(c, p), pc[p] \in HasBoth
    PROVE  HoldsOnly(c, p, wait_lock)
<1>1. SelfHeld /\ SelfHolder
  BY ProcParts, LocksParts, Zenon
<1>2. stack[c] = p /\ ctx[p] = "on" /\ p # NoProc
  BY SchedAssumption, Zenon DEF Runs
<1>3. lock[wait_lock] = c
  BY <1>2, HolderOfWait, Zenon DEF HasWait, HasBoth
<1>4. lock[p] = c
  BY <1>1, <1>2, Zenon DEF SelfHeld
<1>5. \A l \in Proc \ {p} : lock[l] # c
  BY <1>1, <1>2, Zenon DEF SelfHolder
<1> QED
  BY <1>3, <1>4, <1>5, LockIs, Zenon DEF HoldsOnly, holding

\* The timer finds its CPU without locks.
LEMMA TimerOutside ==
    ASSUME ProcIInv, NEW c \in CPU, NEW p \in Proc, Timer(c, p)
    PROVE  Runs(c, p) /\ pc[p] \notin HasWait /\ noff[c] = 0
<1>1. Runs(c, p) /\ (pc[p] = "user" \/ noff[c] = 0)
  BY Zenon DEF Timer, yield
<1>2. pc[p] \notin HasWait \ HasBoth
  BY <1>1, OneLockInside DEF HasWait
<1>3. pc[p] = "user" => pc[p] \notin HasBoth
  BY Zenon DEF HasBoth
<1>4. ASSUME pc[p] \in HasBoth PROVE FALSE
  <2>1. HoldsOnly(c, p, wait_lock) /\ NoffCountsLocks /\ wait_lock \in CondLock
    BY <1>1, <1>4, ProcAssumption, TwoLocksAtSched, ProcParts, SchedParts, Zenon
  <2>2. noff[c] = 2
    BY <2>1, HoldsTwo, Zenon
  <2> QED
    BY <1>1, <1>3, <1>4, <2>2
<1> QED
  BY <1>1, <1>2, <1>4, NoLockOutside, Zenon

-----------------------------------------------------------------------------
(* The calls keep the scheduler's discipline. *)

\* An iteration of wakeup() wakes a sleeper or does nothing.
LEMMA WakeupIsSlotStep ==
    ASSUME NEW p \in Proc, NEW ch, wakeup(p, ch)
    PROVE  (\E q \in Proc : SlotStep(q)) \/ UNCHANGED schedvars
  BY Zenon DEF wakeup, WakeSlot, KillSlot, SlotStep

\* kfork() starts a slot of the table.
LEMMA StartIsSlotStep ==
    ASSUME TableIInv, NEW c \in CPU, NEW p \in Proc, kfork_start(c, p)
    PROVE  \E q \in Proc : SlotStep(q)
<1>1. ForkSlot
  BY TableParts, Zenon
<1>2. pc[p] \in Forking /\ StartSlot(np[p])
  BY Zenon DEF kfork_start, Goto, Forking
<1>3. np[p] \in Proc
  BY <1>1, <1>2, Zenon DEF ForkSlot
<1> QED
  BY <1>2, <1>3, Zenon DEF SlotStep

\* acquire(&p->lock) under wait_lock.
LEMMA LockselfIsThreadStep ==
    ASSUME ProcIInv, NEW c \in CPU, NEW p \in Proc, kexit_lockself(c, p) \/ kwait_block(c, p)
    PROVE  ThreadStep(c, p)
<1>1. Runs(c, p) /\ pc[p] \in {"lockself", "table"} /\ Acquire(c, p)
  BY Zenon DEF kexit_lockself, kwait_block, Goto
<1>2. noff[c] = 1
  BY <1>1, OneLockInside, Zenon DEF HasWait, HasBoth
<1> QED
  BY <1>1, <1>2, Zenon DEF ThreadStep

\* sched() is entered with p->lock and wait_lock, which is released.
LEMMA SchedIsThreadStep ==
    ASSUME ProcIInv, NEW c \in CPU, NEW p \in Proc, kexit_sched(c, p) \/ kwait_sleep(c, p)
    PROVE  ThreadStep(c, p)
<1>1. /\ Runs(c, p) /\ pc[p] \in HasBoth
      /\ ExitSched(c, p, wait_lock) \/ sleep(c, p, p, wait_lock)
  BY Zenon DEF kexit_sched, ExitSched, kwait_sleep, sleep, Goto, HasBoth
<1>2. HoldsOnly(c, p, wait_lock)
  BY <1>1, TwoLocksAtSched, Zenon
<1> QED
  BY <1>1, <1>2, ProcAssumption, Zenon DEF ThreadStep

\* A step of a system call is a step of the scheduler's specification.
LEMMA KernelIsSchedStep ==
    ASSUME ProcIInv, NEW c \in CPU, NEW p \in Proc, KernelStep(c, p)
    PROVE  ThreadStep(c, p) \/ (\E q \in Proc : SlotStep(q)) \/ UNCHANGED schedvars
<1>1. TableIInv
  BY ProcParts, Zenon
<1>2. CASE allocproc(c, p) \/ kwait_reap(c, p)
  BY <1>2, Zenon DEF allocproc, kwait_reap, SlotStep
<1>3. CASE kfork_start(c, p)
  BY <1>1, <1>3, StartIsSlotStep, Zenon
<1>4. CASE kexit_lock(c, p) \/ kwait_lock(c, p) \/ kwait_return(c, p)
  BY <1>4, ProcAssumption, Zenon DEF kexit_lock, kwait_lock, kwait_return, ThreadStep
<1>5. CASE reparent_wakeup(c, p) \/ kexit_wakeup(c, p)
  BY <1>5, WakeupIsSlotStep, Zenon DEF reparent_wakeup, kexit_wakeup, wakeup_done
<1>6. CASE kexit_lockself(c, p) \/ kwait_block(c, p)
  BY <1>6, LockselfIsThreadStep, Zenon
<1>7. CASE kexit_sched(c, p) \/ kwait_sleep(c, p)
  BY <1>7, SchedIsThreadStep, Zenon
<1>8. CASE kfork_parent(c, p) \/ reparent(c, p) \/ kwait_next(c, p) \/ kwait_nokids(c, p)
  BY <1>8, Zenon DEF kfork_parent, reparent, kwait_next, kwait_nokids
<1> QED
  BY <1>2, <1>3, <1>4, <1>5, <1>6, <1>7, <1>8, Zenon DEF KernelStep

\* Every step of the life cycle is a step of the scheduler's specification.
LEMMA ProcStepIsSchedStep == ASSUME ProcIInv, [ProcNext]_vars PROVE [SchedNext]_schedvars
<1>1. ASSUME NEW c \in CPU, Machine(c)
      PROVE  SchedNext
  BY <1>1, Zenon DEF Machine, SchedNext
<1>2. ASSUME NEW c \in CPU, NEW p \in Proc, KernelStep(c, p)
      PROVE  [SchedNext]_schedvars
  BY <1>2, KernelIsSchedStep, Zenon DEF SchedNext
<1>3. ASSUME NEW c \in CPU, NEW p \in Proc, Timer(c, p)
      PROVE  SchedNext
  <2>1. noff[c] = 0
    BY <1>3, TimerOutside, Zenon
  <2> QED
    BY <1>3, <2>1, Zenon DEF Timer, SchedNext, ThreadStep
<1>4. ASSUME NEW c \in CPU, NEW p \in Proc, NEW q \in Proc, kkill(c, p, q)
      PROVE  SchedNext
  BY <1>4, Zenon DEF kkill, SchedNext, SlotStep
<1>5. ASSUME NEW c \in CPU, NEW p \in Proc, Call(c, p)
      PROVE  UNCHANGED schedvars
  BY <1>5, Zenon DEF Call
<1>6. CASE UNCHANGED vars
  BY <1>6, Zenon DEF vars
<1> QED
  BY <1>1, <1>2, <1>3, <1>4, <1>5, <1>6 DEF ProcNext

-----------------------------------------------------------------------------
(* The locks after a step. *)

\* No lock is taken or released and nobody crosses an acquire() or release().
LEMMA SameLocks ==
    ASSUME LocksInv, UNCHANGED <<ctx, lock, cproc, stack>>,
           \A q \in Proc : /\ pc'[q] \in HasWait <=> pc[q] \in HasWait
                           /\ pc'[q] \in HasBoth <=> pc[q] \in HasBoth
    PROVE  LocksInv'
<1>1. WaitHeld /\ WaitHolder /\ SelfHeld /\ SelfHolder
  BY LocksParts, Zenon
<1>2. WaitHeld'
  BY <1>1, Zenon DEF WaitHeld
<1>3. WaitHolder'
  BY <1>1, Zenon DEF WaitHolder
<1>4. SelfHeld'
  BY <1>1, Zenon DEF SelfHeld
<1>5. SelfHolder'
  BY <1>1, Zenon DEF SelfHolder
<1> QED
  BY <1>2, <1>3, <1>4, <1>5, LocksWhole, Zenon

\* The points before wait_lock and the points under it.
Outside == {"user", "alloc", "setparent", "start", "exit", "wait"}
Inside == {"reparent", "wakeinit", "wakeparent", "lockself", "table", "waitdone"}

\* A step of a call between two points outside, or two points inside.
LEMMA StayLocks ==
    ASSUME ProcIInv, UNCHANGED <<ctx, lock, cproc, stack>>, NEW p \in Proc,
           \/ pc' = pc
           \/ \E a, b \in Outside : Goto(p, a, b)
           \/ \E a, b \in Inside : Goto(p, a, b)
    PROVE  LocksInv'
<1>1. LocksInv /\ ProcTypeOK
  BY ProcParts, Zenon
<1>2. ASSUME NEW a, NEW b, Goto(p, a, b),
             {a, b} \subseteq Outside \/ {a, b} \subseteq Inside
      PROVE  LocksInv'
  <2>1. pc[p] = a /\ pc'[p] = b /\ \A q \in Proc \ {p} : pc'[q] = pc[q]
    BY <1>1, <1>2, ProcTypes, Zenon DEF Goto
  <2>2. /\ b \in HasWait <=> a \in HasWait
        /\ b \in HasBoth <=> a \in HasBoth
    BY <1>2, Zenon DEF Outside, Inside, HasWait, HasBoth
  <2> QED
    BY <1>1, <2>1, <2>2, SameLocks, Zenon
<1>3. CASE pc' = pc
  BY <1>1, <1>3, SameLocks, Zenon
<1>4. CASE \E a, b \in Outside : Goto(p, a, b)
  BY <1>2, <1>4, Zenon
<1>5. CASE \E a, b \in Inside : Goto(p, a, b)
  BY <1>2, <1>5, Zenon
<1> QED
  BY <1>3, <1>4, <1>5, Zenon

\* allocproc(), np->state = RUNNABLE and freeproc() leave the locks alone.
LEMMA SlotsKeepLocks ==
    ASSUME NEW q, AllocSlot(q) \/ StartSlot(q) \/ FreeSlot(q) \/ UNCHANGED schedvars
    PROVE  UNCHANGED <<ctx, lock, cproc, stack>>
  BY SchedvarsAre, Zenon DEF AllocSlot, StartSlot, FreeSlot, SetState, cpuvars

\* Steps outside.
LEMMA OutsideSteps ==
    ASSUME ProcIInv, NEW c \in CPU, NEW p \in Proc,
           Call(c, p) \/ allocproc(c, p) \/ kfork_parent(c, p) \/ kfork_start(c, p)
    PROVE  LocksInv'
<1>1. /\ "user" \in Outside /\ "alloc" \in Outside /\ "setparent" \in Outside
      /\ "start" \in Outside /\ "exit" \in Outside /\ "wait" \in Outside
  BY Zenon DEF Outside
<1>2. CASE Call(c, p)
  <2>1. UNCHANGED schedvars /\ \E a, b \in Outside : Goto(p, a, b)
    BY <1>1, <1>2, Zenon DEF Call
  <2> QED
    BY <2>1, SchedvarsAre, StayLocks, Zenon
<1>3. CASE allocproc(c, p)
  <2>1. /\ pc' = pc \/ \E a, b \in Outside : Goto(p, a, b)
        /\ AllocSlot(i[p]) \/ UNCHANGED schedvars
    BY <1>1, <1>3, Zenon DEF allocproc
  <2> QED
    BY <2>1, SlotsKeepLocks, StayLocks, Zenon
<1>4. CASE kfork_parent(c, p) \/ kfork_start(c, p)
  <2>1. /\ \E a, b \in Outside : Goto(p, a, b)
        /\ StartSlot(np[p]) \/ UNCHANGED schedvars
    BY <1>1, <1>4, Zenon DEF kfork_parent, kfork_start
  <2> QED
    BY <2>1, SlotsKeepLocks, StayLocks, Zenon
<1> QED
  BY <1>2, <1>3, <1>4, Zenon

\* Steps inside.
LEMMA InsideSteps ==
    ASSUME ProcIInv, NEW c \in CPU, NEW p \in Proc,
           \/ reparent(c, p) \/ reparent_wakeup(c, p) \/ kexit_wakeup(c, p)
           \/ kwait_next(c, p) \/ kwait_reap(c, p) \/ kwait_nokids(c, p)
    PROVE  LocksInv'
<1>1. /\ "reparent" \in Inside /\ "wakeinit" \in Inside /\ "wakeparent" \in Inside
      /\ "lockself" \in Inside /\ "table" \in Inside /\ "waitdone" \in Inside
  BY Zenon DEF Inside
<1>2. CASE reparent(c, p) \/ kwait_next(c, p) \/ kwait_nokids(c, p)
  <2>1. UNCHANGED schedvars /\ (pc' = pc \/ \E a, b \in Inside : Goto(p, a, b))
    BY <1>1, <1>2, Zenon DEF reparent, kwait_next, kwait_nokids
  <2> QED
    BY <2>1, SchedvarsAre, StayLocks, Zenon
<1>3. CASE kwait_reap(c, p)
  <2>1. /\ \E a, b \in Inside : Goto(p, a, b)
        /\ FreeSlot(i[p]) \/ UNCHANGED schedvars
    BY <1>1, <1>3, Zenon DEF kwait_reap
  <2> QED
    BY <2>1, SlotsKeepLocks, StayLocks, Zenon
<1>4. CASE reparent_wakeup(c, p) \/ kexit_wakeup(c, p)
  <2>1. /\ pc' = pc \/ \E a, b \in Inside : Goto(p, a, b)
        /\ Runs(c, p)
        /\ (\E ch : wakeup(p, ch)) \/ UNCHANGED schedvars
    BY <1>1, <1>4, Zenon DEF reparent_wakeup, kexit_wakeup, wakeup_done
  <2>2. ProcTypeOK /\ AsleepInWait /\ Awake
    BY ProcParts, TableParts, LocksWork, Zenon
  <2>3. UNCHANGED <<ctx, lock, cproc, stack>>
    BY <2>1, <2>2, WakeupIsCalm, SchedvarsAre, Zenon
  <2> QED
    BY <2>1, <2>3, StayLocks, Zenon
<1> QED
  BY <1>2, <1>3, <1>4, Zenon

\* A switch or a yield() of a process that does not have wait_lock.
LEMMA MoveLocks ==
    ASSUME LocksInv, pc' = pc, NEW p \in Proc, pc[p] \notin HasWait, SlotMoves(p)
    PROVE  LocksInv'
<1>1. WaitHeld /\ WaitHolder /\ SelfHeld /\ SelfHolder
  BY LocksParts, Zenon
<1>2. /\ lock'[wait_lock] = lock[wait_lock]
      /\ \A q \in Proc \ {p} : lock'[q] = lock[q] /\ ctx'[q] = ctx[q]
  BY LockIs, Zenon DEF SlotMoves
<1>3. \A d \in CPU, q \in Proc \ {p} :
          /\ stack'[d] = q <=> stack[d] = q
          /\ stack'[d] = NoProc /\ cproc'[d] = q <=> stack[d] = NoProc /\ cproc[d] = q
  BY Zenon DEF SlotMoves
<1>4. \A d \in CPU : lock'[p] = d =>
          \/ stack'[d] = p /\ ctx'[p] \in {"sched", "back"}
          \/ stack'[d] = NoProc /\ cproc'[d] = p
  BY Zenon DEF SlotMoves
<1>5. pc[p] \notin HasBoth
  BY Zenon DEF HasWait, HasBoth
<1>6. WaitHeld'
  BY <1>1, <1>2, <1>3 DEF WaitHeld
<1>7. WaitHolder'
  BY <1>1, <1>2, <1>3 DEF WaitHolder
<1>8. SelfHeld'
  BY <1>1, <1>2, <1>3, <1>5 DEF SelfHeld
<1>9. SelfHolder'
  BY <1>1, <1>2, <1>3, <1>4 DEF SelfHolder
<1> QED
  BY <1>6, <1>7, <1>8, <1>9, LocksWhole, Zenon

\* acquire(&wait_lock).
LEMMA TakeWait ==
    ASSUME ProcIInv, NEW c \in CPU, NEW p \in Proc, kexit_lock(c, p) \/ kwait_lock(c, p)
    PROVE  LocksInv'
<1>1. ProcTypeOK /\ WaitHeld /\ SelfHolder
  BY ProcParts, LocksParts, Zenon
<1>2. /\ Runs(c, p) /\ Acquire(c, wait_lock) /\ pc[p] \in {"exit", "wait"}
      /\ \E b \in {"reparent", "table"} : pc' = [pc EXCEPT ![p] = b]
  BY Zenon DEF kexit_lock, kwait_lock, Goto
<1>3. /\ stack[c] = p /\ ctx[p] = "on" /\ lock[wait_lock] = NoCPU
      /\ lock' = [lock EXCEPT ![wait_lock] = c]
      /\ ctx' = ctx /\ cproc' = cproc /\ stack' = stack
  BY <1>2, Zenon DEF Runs, Acquire, acquire, Free, procvars
<1>4. lock'[wait_lock] = c /\ \A q \in Proc : lock'[q] = lock[q]
  BY <1>1, <1>3, ProcTypes, LockIs, Zenon
<1>5. pc'[p] \in {"reparent", "table"} /\ \A q \in Proc \ {p} : pc'[q] = pc[q]
  BY <1>1, <1>2, ProcTypes, Zenon
<1>6. \A q \in Proc : pc[q] \notin HasWait
  BY <1>1, <1>3, SchedAssumption, Zenon DEF WaitHeld
<1>7. pc'[p] \in HasWait /\ \A q \in Proc : pc[q] \notin HasBoth /\ pc'[q] \notin HasBoth
  BY <1>5, <1>6, Zenon DEF HasWait, HasBoth
<1>8. WaitHeld'
  BY <1>3, <1>4, <1>5, <1>6, Zenon DEF WaitHeld
<1>9. WaitHolder'
  BY <1>3, <1>4, <1>7, Zenon DEF WaitHolder
<1>10. SelfHeld'
  BY <1>7, Zenon DEF SelfHeld
<1>11. SelfHolder'
  BY <1>1, <1>3, <1>4, <1>7 DEF SelfHolder
<1> QED
  BY <1>8, <1>9, <1>10, <1>11, LocksWhole, Zenon

\* acquire(&p->lock) under wait_lock.
LEMMA TakeSelf ==
    ASSUME ProcIInv, NEW c \in CPU, NEW p \in Proc, kexit_lockself(c, p) \/ kwait_block(c, p)
    PROVE  LocksInv'
<1>1. ProcTypeOK /\ SchedIInv /\ WaitHeld /\ WaitHolder /\ SelfHeld /\ SelfHolder
  BY ProcParts, LocksParts, Zenon
<1>2. /\ Runs(c, p) /\ Acquire(c, p) /\ pc[p] \in {"lockself", "table"}
      /\ \E b \in HasBoth : pc' = [pc EXCEPT ![p] = b]
  BY Zenon DEF kexit_lockself, kwait_block, Goto, HasBoth
<1>3. /\ stack[c] = p /\ ctx[p] = "on" /\ lock' = [lock EXCEPT ![p] = c]
      /\ ctx' = ctx /\ cproc' = cproc /\ stack' = stack
  BY <1>2, Zenon DEF Runs, Acquire, acquire, procvars
<1>4. /\ lock'[wait_lock] = lock[wait_lock] /\ lock'[p] = c
      /\ \A q \in Proc \ {p} : lock'[q] = lock[q]
  BY <1>1, <1>3, ProcTypes, LockIs, Zenon
<1>5. pc'[p] \in HasBoth /\ \A q \in Proc \ {p} : pc'[q] = pc[q]
  BY <1>1, <1>2, ProcTypes, Zenon
<1>6. pc[p] \in HasWait /\ pc'[p] \in HasWait
  BY <1>2, <1>5, Zenon DEF HasWait, HasBoth
<1>7. \A d \in CPU : stack[d] = p => d = c
  BY <1>1, <1>3, StackFacts, Zenon
<1>8. WaitHeld'
  BY <1>1, <1>3, <1>4, <1>5, <1>6 DEF WaitHeld
<1>9. WaitHolder'
  BY <1>1, <1>3, <1>4, <1>5, <1>6 DEF WaitHolder
<1>10. SelfHeld'
  BY <1>1, <1>3, <1>4, <1>5, <1>7, Zenon DEF SelfHeld
<1>11. SelfHolder'
  BY <1>1, <1>3, <1>4, <1>5 DEF SelfHolder
<1> QED
  BY <1>8, <1>9, <1>10, <1>11, LocksWhole, Zenon

\* release(&wait_lock), alone or on the way into sched().
LEMMA DropWait ==
    ASSUME ProcIInv, NEW c \in CPU, NEW p \in Proc, Runs(c, p), pc[p] \in HasWait,
           NEW b, pc' = [pc EXCEPT ![p] = b], b \notin HasWait,
           lock' = [lock EXCEPT ![wait_lock] = NoCPU], UNCHANGED <<cproc, stack>>,
           \A q \in Proc \ {p} : ctx'[q] = ctx[q],
           pc[p] \in HasBoth => ctx'[p] = "sched"
    PROVE  LocksInv'
<1>1. ProcTypeOK /\ SchedIInv /\ SelfHolder /\ Exclusive
  BY ProcParts, LocksParts, LocksWork, Zenon
<1>2. stack[c] = p /\ ctx[p] = "on" /\ p # NoProc
  BY SchedAssumption, Zenon DEF Runs
<1>3. lock'[wait_lock] = NoCPU /\ \A q \in Proc : lock'[q] = lock[q]
  BY <1>1, ProcTypes, LockIs, Zenon
<1>4. \A q \in Proc : pc'[q] \notin HasWait /\ (q # p => pc[q] \notin HasWait)
  BY <1>1, ProcTypes, Zenon DEF Exclusive
<1>5. \A q \in Proc : pc'[q] \notin HasBoth /\ (q # p => pc[q] \notin HasBoth)
  BY <1>4, Zenon DEF HasWait, HasBoth
<1>6. \A d \in CPU : cproc[d] = p => d = c
  BY <1>1, <1>2, StackFacts
<1>7. WaitHeld'
  BY <1>4, Zenon DEF WaitHeld
<1>8. WaitHolder'
  BY <1>3, SchedAssumption DEF WaitHolder
<1>9. SelfHeld'
  BY <1>5, Zenon DEF SelfHeld
<1>10. ASSUME NEW d \in CPU, NEW q \in Proc, lock[q] = d
       PROVE  \/ stack[d] = q /\ ctx'[q] \in {"sched", "back"}
              \/ stack[d] = NoProc /\ cproc[d] = q
  <2>1. CASE q = p
    BY <1>1, <1>2, <1>6, <1>10, <2>1 DEF SelfHolder
  <2>2. CASE q # p
    BY <1>1, <1>5, <1>10, <2>2 DEF SelfHolder
  <2> QED
    BY <2>1, <2>2, Zenon
<1>11. SelfHolder'
  BY <1>3, <1>10 DEF SelfHolder
<1> QED
  BY <1>7, <1>8, <1>9, <1>11, LocksWhole, Zenon

\* The three steps that release wait_lock.
LEMMA DropSteps ==
    ASSUME ProcIInv, NEW c \in CPU, NEW p \in Proc,
           kexit_sched(c, p) \/ kwait_sleep(c, p) \/ kwait_return(c, p)
    PROVE  LocksInv'
<1>1. ProcTypeOK
  BY ProcParts, Zenon
<1>2. /\ Runs(c, p) /\ pc[p] \in {"zombie", "sleep", "waitdone"}
      /\ \E b \in {"user", "wait"} : pc' = [pc EXCEPT ![p] = b]
      /\ lock' = [lock EXCEPT ![wait_lock] = NoCPU] /\ cproc' = cproc /\ stack' = stack
      /\ \/ ctx' = [ctx EXCEPT ![p] = "sched"]
         \/ pc[p] = "waitdone" /\ ctx' = ctx
  BY Zenon DEF kexit_sched, ExitSched, kwait_sleep, sleep, kwait_return, EnterSched, Release,
     release, Goto, procvars
<1>3. /\ \A q \in Proc \ {p} : ctx'[q] = ctx[q]
      /\ pc[p] \in HasBoth => ctx'[p] = "sched"
  BY <1>1, <1>2, ProcTypes, Zenon DEF HasBoth
<1>4. pc[p] \in HasWait /\ "user" \notin HasWait /\ "wait" \notin HasWait
  BY <1>2, Zenon DEF HasWait
<1> QED
  BY <1>2, <1>3, <1>4, DropWait, Zenon

-----------------------------------------------------------------------------
(* The steps of the machine. *)

\* Context switches and yield() are calm.
LEMMA MovesAreCalm == ASSUME StateMoves PROVE Calm
<1>1. \A q \in Proc : \/ state'[q] = state[q]
                      \/ /\ state[q] \in {"RUNNABLE", "RUNNING"}
                         /\ state'[q] \in {"RUNNABLE", "RUNNING"}
  BY Zenon DEF StateMoves
<1>2. \A q \in Proc : state'[q] = "SLEEPING" => chan'[q] = chan[q]
  BY Zenon DEF StateMoves
<1>3. Quiet
  BY <1>1, <1>2, Zenon DEF Quiet
<1>4. \A q \in Proc : q \in Alive <=> state[q] \in {"SLEEPING", "RUNNABLE", "RUNNING"}
  BY Zenon DEF Alive
<1> QED
  BY <1>1, <1>3, <1>4, Zenon DEF Calm

\* A calm step outside the calls.
LEMMA CalmIsInductive ==
    ASSUME ProcIInv, SchedIInv', Calm, UNCHANGED <<parent, locals>>, LocksInv'
    PROVE  ProcIInv'
<1>1. TableIInv /\ SchedTypeOK'
  BY ProcParts, SchedPartsNext, Zenon
<1>2. UNCHANGED <<parent, pc, i, w, np, havekids>>
  BY Zenon DEF locals
<1>3. TableIInv'
  BY <1>1, <1>2, CalmKeeps, Zenon
<1> QED
  BY <1>3, Zenon DEF ProcIInv

\* A step that changes neither the scheduler's variables nor the table.
LEMMA StutterPreserves ==
    ASSUME ProcIInv, SchedIInv', UNCHANGED <<state, chan, ctx, lock, cproc, stack>>,
           UNCHANGED <<parent, locals>>
    PROVE  ProcIInv'
<1>1. LocksInv
  BY ProcParts, Zenon
<1>2. pc' = pc
  BY Zenon DEF locals
<1>3. LocksInv'
  BY <1>1, <1>2, SameLocks, Zenon
<1>4. Calm
  BY UnchangedIsCalm, Zenon
<1> QED
  BY <1>3, <1>4, CalmIsInductive, Zenon

\* A switch or a yield() of a process that does not have wait_lock.
LEMMA MovePreserves ==
    ASSUME ProcIInv, SchedIInv', UNCHANGED <<parent, locals>>,
           NEW p \in Proc, pc[p] \notin HasWait, SlotMoves(p), StateMoves
    PROVE  ProcIInv'
<1>1. LocksInv
  BY ProcParts, Zenon
<1>2. pc' = pc
  BY Zenon DEF locals
<1>3. LocksInv'
  BY <1>1, <1>2, MoveLocks, Zenon
<1>4. Calm
  BY MovesAreCalm, Zenon
<1> QED
  BY <1>3, <1>4, CalmIsInductive, Zenon

\* The steps of scheduler() and the context switches.
LEMMA MachinePreserves ==
    ASSUME ProcIInv, SchedIInv', NEW c \in CPU, Machine(c)
    PROVE  ProcIInv'
<1>1. SchedIInv /\ WaitHeld
  BY ProcParts, LocksParts, Zenon
<1>2. (SchedulerStep(c) \/ SwitchStep(c)) /\ UNCHANGED <<parent, locals>>
  BY Zenon DEF Machine
<1>3. CASE UNCHANGED <<state, chan, ctx, lock, cproc, stack>>
  BY <1>2, <1>3, StutterPreserves, Zenon
<1>4. ASSUME NEW p \in Proc, ctx[p] # "on", SlotMoves(p), StateMoves
      PROVE  ProcIInv'
  <2>1. pc[p] \notin HasWait
    BY <1>1, <1>4, Zenon DEF WaitHeld
  <2> QED
    BY <1>2, <1>4, <2>1, MovePreserves, Zenon
<1> QED
  BY <1>1, <1>2, <1>3, <1>4, MachineMoves, Zenon

\* The timer interrupt.
LEMMA TimerPreserves ==
    ASSUME ProcIInv, SchedIInv', NEW c \in CPU, NEW p \in Proc, Timer(c, p)
    PROVE  ProcIInv'
<1>1. pc[p] \notin HasWait
  BY TimerOutside, Zenon
<1>2. yield(c, p) /\ UNCHANGED <<parent, locals>>
  BY Zenon DEF Timer
<1>3. SlotMoves(p) /\ StateMoves
  BY <1>2, ProcParts, YieldMoves, Zenon
<1> QED
  BY <1>1, <1>2, <1>3, MovePreserves, Zenon

\* kill().
LEMMA KillPreserves ==
    ASSUME ProcIInv, SchedIInv', NEW c \in CPU, NEW p \in Proc, NEW q \in Proc, kkill(c, p, q)
    PROVE  ProcIInv'
<1>1. ProcTypeOK /\ LocksInv
  BY ProcParts, Zenon
<1>2. KillSlot(q) /\ UNCHANGED <<parent, locals>>
  BY Zenon DEF kkill
<1>3. Calm /\ UNCHANGED <<ctx, lock, stack, cproc>>
  BY <1>1, <1>2, WakeIsCalm, Zenon
<1>4. pc' = pc
  BY <1>2, Zenon DEF locals
<1>5. LocksInv'
  BY <1>1, <1>3, <1>4, SameLocks, Zenon
<1> QED
  BY <1>2, <1>3, <1>5, CalmIsInductive, Zenon

-----------------------------------------------------------------------------
(* The inductive invariant. *)

\* At boot there is only init, outside any system call.
LEMMA ProcInitHolds == ASSUME ProcInit PROVE ProcIInv
<1>1. SchedIInv
  BY InitHolds, Zenon DEF ProcInit
<1>2. TableIInv
  BY <1>1, SchedParts, TableInitHolds, Zenon
<1>3. pc = [p \in Proc |-> "user"] /\ lock = [l \in Lock |-> NoCPU]
  BY Zenon DEF ProcInit, SchedInit
<1>4. \A p \in Proc : pc[p] \notin HasWait /\ pc[p] \notin HasBoth
  BY <1>3, Zenon DEF HasWait, HasBoth
<1>5. lock[wait_lock] = NoCPU /\ \A p \in Proc : lock[p] = NoCPU
  BY <1>3, LockIs, Zenon
<1>6. WaitHeld /\ SelfHeld
  BY <1>4, Zenon DEF WaitHeld, SelfHeld
<1>7. WaitHolder /\ SelfHolder
  BY <1>5, SchedAssumption, Zenon DEF WaitHolder, SelfHolder
<1>8. LocksInv
  BY <1>6, <1>7, Zenon DEF LocksInv
<1> QED
  BY <1>1, <1>2, <1>8, Zenon DEF ProcIInv

\* The locks after a step of a call.
LEMMA KernelLocks ==
    ASSUME ProcIInv, NEW c \in CPU, NEW p \in Proc, Call(c, p) \/ KernelStep(c, p)
    PROVE  LocksInv'
<1>1. CASE Call(c, p) \/ allocproc(c, p) \/ kfork_parent(c, p) \/ kfork_start(c, p)
  BY <1>1, OutsideSteps, Zenon
<1>2. CASE \/ reparent(c, p) \/ reparent_wakeup(c, p) \/ kexit_wakeup(c, p)
           \/ kwait_next(c, p) \/ kwait_reap(c, p) \/ kwait_nokids(c, p)
  BY <1>2, InsideSteps, Zenon
<1>3. CASE kexit_lock(c, p) \/ kwait_lock(c, p)
  BY <1>3, TakeWait, Zenon
<1>4. CASE kexit_lockself(c, p) \/ kwait_block(c, p)
  BY <1>4, TakeSelf, Zenon
<1>5. CASE kexit_sched(c, p) \/ kwait_sleep(c, p) \/ kwait_return(c, p)
  BY <1>5, DropSteps, Zenon
<1> QED
  BY <1>1, <1>2, <1>3, <1>4, <1>5, Zenon DEF KernelStep

\* The steps of the calls.
LEMMA KernelPreserves ==
    ASSUME ProcIInv, SchedIInv', NEW c \in CPU, NEW p \in Proc, Call(c, p) \/ KernelStep(c, p)
    PROVE  ProcIInv'
<1>1. TableIInv /\ Discipline /\ SchedTypeOK'
  BY ProcParts, LocksWork, SchedPartsNext, Zenon
<1>2. TableIInv'
  BY <1>1, KernelKeeps, Zenon
<1>3. LocksInv'
  BY KernelLocks, Zenon
<1> QED
  BY <1>2, <1>3, Zenon DEF ProcIInv

\* ProcIInv is inductive.
LEMMA ProcInductive == ASSUME ProcIInv, [ProcNext]_vars PROVE ProcIInv'
<1>1. SchedIInv'
  BY ProcParts, ProcStepIsSchedStep, SchedInductive, Zenon
<1>2. ASSUME NEW c \in CPU, Machine(c)
      PROVE  ProcIInv'
  BY <1>1, <1>2, MachinePreserves, Zenon
<1>3. ASSUME NEW c \in CPU, NEW p \in Proc, Call(c, p) \/ KernelStep(c, p)
      PROVE  ProcIInv'
  BY <1>1, <1>3, KernelPreserves, Zenon
<1>4. ASSUME NEW c \in CPU, NEW p \in Proc, Timer(c, p)
      PROVE  ProcIInv'
  BY <1>1, <1>4, TimerPreserves, Zenon
<1>5. ASSUME NEW c \in CPU, NEW p \in Proc, NEW q \in Proc, kkill(c, p, q)
      PROVE  ProcIInv'
  BY <1>1, <1>5, KillPreserves, Zenon
<1>6. CASE UNCHANGED vars
  <2>1. UNCHANGED schedvars /\ UNCHANGED <<parent, locals>>
    BY <1>6, Zenon DEF vars
  <2> QED
    BY <1>1, <2>1, SchedvarsAre, StutterPreserves, Zenon
<1> QED
  BY <1>2, <1>3, <1>4, <1>5, <1>6, Zenon DEF ProcNext

\* Every reachable state of the process table satisfies the invariant.
THEOREM ProcInvariant == ProcSpec => []ProcIInv
<1>1. ProcInit => ProcIInv
  BY ProcInitHolds, Zenon
<1>2. ProcIInv /\ [ProcNext]_vars => ProcIInv'
  BY ProcInductive, Zenon
<1> QED
  BY <1>1, <1>2, PTL DEF ProcSpec

-----------------------------------------------------------------------------
(* What follows from it. *)

(***************************************************************************)
(* kfork(), kexit(), kwait(), kkill() and the timer keep the discipline of *)
(* the scheduler: sched() is entered with p->lock and nothing else.        *)
(***************************************************************************)
THEOREM ProcRefinesSched == ProcSpec => SchedSpec
<1>1. ProcInit => SchedInit
  BY Zenon DEF ProcInit
<1>2. ProcIInv /\ [ProcNext]_vars => [SchedNext]_schedvars
  BY ProcStepIsSchedStep, Zenon
<1> QED
  BY <1>1, <1>2, ProcInvariant, PTL DEF ProcSpec, SchedSpec

(***************************************************************************)
(* What the scheduler promises therefore holds under the life cycle of     *)
(* processes: exclusive stacks, no panic in sched(), idle free slots.      *)
(***************************************************************************)
THEOREM ProcKeepsSchedSafe == ProcSpec => []SchedInv
<1> QED
  BY ProcRefinesSched, SchedIsSafe, PTL

\* While wait_lock is free nobody is in reparent().
LEMMA FreeMeansDone == ASSUME ProcIInv, Free(wait_lock) PROVE \A p \in Proc : pc[p] # "wakeinit"
<1>1. WaitFree
  BY LocksWork, Zenon DEF Discipline
<1> QED
  BY <1>1, Zenon DEF WaitFree, HasWait

\* The scan of kwait() is exact when it ends.
LEMMA ScanEnds == ASSUME TableIInv PROVE ScanIsExact
<1>1. ScanInv
  BY TableParts, Zenon
<1>2. ASSUME NEW p \in Proc, pc[p] = "table", i[p] = NPROC
      PROVE  /\ havekids[p] <=> {q \in Proc : parent[q] = p} # {}
             /\ \A q \in {r \in Proc : parent[r] = p} : state[q] # "ZOMBIE"
  <2>1. \A q \in Proc : q < i[p]
    BY <1>2, SlotIsNat, Zenon
  <2>2. KidsCounted(p) /\ NoZombieBehind(p)
    BY <1>1, Zenon DEF ScanInv, ScanAt
  <2>3. havekids[p] <=> \E q \in Proc : parent[q] = p
    BY <1>2, <2>1, <2>2, Zenon DEF KidsCounted
  <2>4. \A q \in Proc : parent[q] = p => state[q] # "ZOMBIE"
    BY <1>2, <2>1, <2>2, Zenon DEF NoZombieBehind
  <2> QED
    BY <2>3, <2>4, Zenon
<1> QED
  BY <1>2, Zenon DEF ScanIsExact

\* The invariant implies what the runs check.
LEMMA ProcSound == ASSUME ProcIInv PROVE ProcInv
<1>1. TableIInv /\ ProcTypeOK /\ ParentAlive
  BY ProcParts, TableParts, Zenon
<1>2. NoMissedExit
  <2>1. ASSUME Free(wait_lock), NEW q \in Proc, state[q] = "ZOMBIE"
        PROVE  parent[q] \in Alive /\ state[parent[q]] # "SLEEPING"
    BY <1>1, <2>1, FreeMeansDone, NothingMissed, Zenon
  <2> QED
    BY <2>1, Zenon DEF NoMissedExit
<1>3. ScanIsExact
  BY <1>1, ScanEnds, Zenon
<1> QED
  BY <1>1, <1>2, <1>3, Zenon DEF ProcInv

(***************************************************************************)
(* The process table is a sound family for any number of CPUs and slots:   *)
(* parents are alive, kwait()'s scan is exact, no parent sleeps through an *)
(* exit of a child, its own or one that reparent() hands over.             *)
(***************************************************************************)
THEOREM ProcIsSound == ProcSpec => []ProcInv
<1>1. ProcIInv => ProcInv
  BY ProcSound, Zenon
<1> QED
  BY <1>1, ProcInvariant, PTL

\* A step that writes the state of one slot, which is no zombie, keeps zombies.
LEMMA WritesOne ==
    ASSUME ProcTypeOK, NEW r \in Proc, state[r] # "ZOMBIE", NEW s, state' = [state EXCEPT ![r] = s],
           NEW q \in Proc, state[q] = "ZOMBIE"
    PROVE  state'[q] = "ZOMBIE"
  BY ProcTypes, Zenon

\* A calm step keeps zombies.
LEMMA CalmKeepsZombies ==
    ASSUME Calm, NEW q \in Proc, state[q] = "ZOMBIE"
    PROVE  state'[q] = "ZOMBIE"
  BY CalmFacts, Zenon

\* The only step of a call that makes a zombie something else is freeproc().
LEMMA KernelReap ==
    ASSUME ProcIInv, NEW c \in CPU, NEW p \in Proc, KernelStep(c, p),
           NEW q \in Proc, state[q] = "ZOMBIE", state'[q] # "ZOMBIE"
    PROVE  kwait_reap(c, p) /\ ~ UNCHANGED schedvars
<1>1. ProcTypeOK /\ AsleepInWait /\ ForkSlot /\ Awake
  BY ProcParts, TableParts, LocksWork, Zenon
<1>2. ~ Calm /\ ~ UNCHANGED schedvars /\ ~ UNCHANGED <<state, chan>>
  BY CalmKeepsZombies, SchedvarsAre, UnchangedIsCalm, Zenon
<1>3. ASSUME NEW r \in Proc, state[r] # "ZOMBIE", NEW s, state' = [state EXCEPT ![r] = s]
      PROVE  FALSE
  BY <1>1, <1>3, WritesOne, Zenon
<1>4. CASE kfork_parent(c, p) \/ reparent(c, p) \/ kwait_next(c, p) \/ kwait_nokids(c, p)
  BY <1>2, <1>4, Zenon DEF kfork_parent, reparent, kwait_next, kwait_nokids
<1>5. CASE kexit_lock(c, p) \/ kexit_lockself(c, p) \/ kwait_lock(c, p) \/ kwait_block(c, p)
  BY <1>2, <1>5, Zenon DEF kexit_lock, kexit_lockself, kwait_lock, kwait_block, Acquire,
     procvars
<1>6. CASE kwait_return(c, p)
  BY <1>2, <1>6, Zenon DEF kwait_return, Release, procvars
<1>7. CASE reparent_wakeup(c, p) \/ kexit_wakeup(c, p)
  <2>1. Runs(c, p) /\ ((\E ch : wakeup(p, ch)) \/ UNCHANGED schedvars)
    BY <1>7, Zenon DEF reparent_wakeup, kexit_wakeup, wakeup_done
  <2> QED
    BY <1>1, <1>2, <2>1, WakeupIsCalm, Zenon
<1>8. CASE kexit_sched(c, p) \/ kwait_sleep(c, p)
  <2>1. Runs(c, p) /\ \E s : state' = [state EXCEPT ![p] = s]
    BY <1>8, Zenon DEF kexit_sched, ExitSched, kwait_sleep, sleep, EnterSched
  <2>2. state[p] # "ZOMBIE"
    BY <1>1, <2>1, RunsIsRunning, Zenon
  <2> QED
    BY <1>3, <2>1, <2>2, Zenon
<1>9. CASE allocproc(c, p)
  <2>1. /\ i[p] \in Proc /\ state[i[p]] = "UNUSED"
        /\ \E s : state' = [state EXCEPT ![i[p]] = s]
    BY <1>2, <1>9, Zenon DEF allocproc, AllocSlot, SetState
  <2> QED
    BY <1>3, <2>1, Zenon
<1>10. CASE kfork_start(c, p)
  <2>1. /\ pc[p] \in Forking
        /\ \E s : state' = [state EXCEPT ![np[p]] = s]
    BY <1>10, Zenon DEF kfork_start, Goto, Forking, StartSlot, SetState
  <2>2. np[p] \in Proc /\ state[np[p]] = "USED"
    BY <1>1, <2>1, Zenon DEF ForkSlot
  <2> QED
    BY <1>3, <2>1, <2>2, Zenon
<1> QED
  BY <1>2, <1>4, <1>5, <1>6, <1>7, <1>8, <1>9, <1>10, Zenon DEF KernelStep

\* Nor does a step outside the calls.
LEMMA OtherSteps ==
    ASSUME ProcIInv, NEW q \in Proc, state[q] = "ZOMBIE",
           \/ \E c \in CPU : Machine(c)
           \/ \E c \in CPU, p \in Proc : Call(c, p) \/ Timer(c, p) \/ \E r \in Proc : kkill(c, p, r)
           \/ UNCHANGED vars
    PROVE  state'[q] = "ZOMBIE"
<1>1. ProcTypeOK /\ SchedIInv
  BY ProcParts, Zenon
<1>2. ASSUME NEW c \in CPU, Machine(c)
      PROVE  Calm
  BY <1>1, <1>2, MachineMoves, MovesAreCalm, UnchangedIsCalm, Zenon DEF Machine
<1>3. ASSUME NEW c \in CPU, NEW p \in Proc, Timer(c, p)
      PROVE  Calm
  BY <1>1, <1>3, YieldMoves, MovesAreCalm, Zenon DEF Timer
<1>4. ASSUME NEW c \in CPU, NEW p \in Proc, NEW r \in Proc, kkill(c, p, r)
      PROVE  Calm
  BY <1>1, <1>4, WakeIsCalm, Zenon DEF kkill
<1>5. ASSUME NEW c \in CPU, NEW p \in Proc, Call(c, p)
      PROVE  Calm
  BY <1>5, SchedvarsAre, Zenon DEF Call
<1>6. CASE UNCHANGED vars
  BY <1>6, SchedvarsAre, CalmKeepsZombies, Zenon DEF vars
<1> QED
  BY <1>2, <1>3, <1>4, <1>5, <1>6, CalmKeepsZombies, Zenon

\* A step that makes a zombie something else is freeproc() in its parent's
\* kwait().
LEMMA ReapStep ==
    ASSUME ProcIInv, [ProcNext]_vars, NEW q \in Proc, state[q] = "ZOMBIE", state'[q] # "ZOMBIE"
    PROVE  /\ state'[q] = "UNUSED"
           /\ \E c \in CPU : Runs(c, parent[q]) /\ holding(c, wait_lock)
<1>1. ProcTypeOK
  BY ProcParts, Zenon
<1>2. PICK c \in CPU, p \in Proc : KernelStep(c, p)
  BY OtherSteps, Zenon DEF ProcNext
<1>3. kwait_reap(c, p) /\ ~ UNCHANGED schedvars
  BY <1>2, KernelReap, Zenon
<1>4. FreeSlot(i[p]) /\ i[p] \in Proc /\ parent[i[p]] = p /\ Runs(c, p) /\ pc[p] = "table"
  BY <1>3, Zenon DEF kwait_reap, Goto
<1>5. state' = [state EXCEPT ![i[p]] = "UNUSED"]
  BY <1>4, Zenon DEF FreeSlot
<1>6. q = i[p] /\ state'[q] = "UNUSED"
  BY <1>1, <1>4, <1>5, ProcTypes, Zenon
<1>7. stack[c] = p /\ pc[p] \in HasWait
  BY <1>4, Zenon DEF Runs, HasWait
<1>8. holding(c, wait_lock)
  BY <1>7, HolderOfWait, Zenon DEF holding
<1> QED
  BY <1>4, <1>6, <1>8, Zenon

(***************************************************************************)
(* A zombie is freed by its parent only, which holds wait_lock: kwait()    *)
(* reaps no child twice and no stranger's.                                 *)
(***************************************************************************)
THEOREM ReapingIsByParent == ProcSpec => OnlyParentReaps
<1>1. ProcIInv /\ [ProcNext]_vars =>
        [\A q \in Proc : state[q] = "ZOMBIE" /\ state'[q] # "ZOMBIE" =>
            /\ state'[q] = "UNUSED"
            /\ \E c \in CPU : Runs(c, parent[q]) /\ holding(c, wait_lock)]_vars
  BY ReapStep, Zenon
<1> QED
  BY <1>1, ProcInvariant, PTL DEF ProcSpec, OnlyParentReaps
=============================================================================
