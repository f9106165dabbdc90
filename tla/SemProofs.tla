----------------------------- MODULE SemProofs -----------------------------
(***************************************************************************)
(* Proofs about the semaphore of module Sem, for any number of CPUs and    *)
(* processes and any initial value: its calls keep the discipline that the *)
(* scheduler asks for, so that everything proved of SchedSpec holds of     *)
(* them, and the semaphore is correct.                                     *)
(*                                                                         *)
(* The inductive invariant SemIInv says who holds which spin lock at each  *)
(* point of the calls, that a post is under way when a process sleeps      *)
(* beside a positive value, and that the value and the processes let in    *)
(* add up to the initial value.                                            *)
(***************************************************************************)
EXTENDS Sem, SchedProofs

\* Where a process holds global_sem.lock.
HasSem == {"test", "sleep", "wakeup", "unlock"}

Inside == {p \in Proc : pc[p] \in {"crit", "post"}}

\* A process in the critical sections of the semaphore executes, because the
\* timer does not preempt a CPU with noff > 0, and its CPU has the lock.
SemHeld ==
    \A p \in Proc : pc[p] \in HasSem =>
        /\ ctx[p] = "on"
        /\ \E c \in CPU : stack[c] = p /\ lock[global_sem] = c

\* Whoever has the lock is in such a section.
SemHolder ==
    \A c \in CPU : lock[global_sem] = c =>
        \E p \in Proc : stack[c] = p /\ pc[p] \in HasSem

\* A process about to sleep has its own lock.
SelfHeld ==
    \A c \in CPU, p \in Proc : stack[c] = p /\ pc[p] = "sleep" => lock[p] = c

\* Who else has the lock of a slot.
SelfHolder ==
    \A c \in CPU, p \in Proc : lock[p] = c =>
        \/ stack[c] = p /\ (ctx[p] \in {"sched", "back"} \/ pc[p] = "sleep")
        \/ stack[c] = NoProc /\ cproc[c] = p

LocksInv == SemHeld /\ SemHolder /\ SelfHeld /\ SelfHolder

\* Only sem_wait() sleeps, on the semaphore.
SleepChan ==
    \A p \in Proc : state[p] = "SLEEPING" => pc[p] = "wait" /\ chan[p] = global_sem

\* A process that has decided to sleep has not missed a post.
SleepValue == \A p \in Proc : pc[p] = "sleep" => value = 0

\* Beside a positive value, the loop of a wakeup() has yet to reach the
\* processes asleep.
WakeupComes ==
    value > 0 /\ Sleepers # {} /\ hist # "init" =>
        \E p \in Proc : pc[p] = "wakeup" /\ \A q \in Sleepers : wi[p] <= q

SleepInv == SleepChan /\ SleepValue /\ WakeupComes

\* The value and the processes inside add up.
CountInv == hist = "disciplined" => Cardinality(Inside) + value = InitValue

SemIInv == SemTypeOK /\ SchedIInv /\ LocksInv /\ SleepInv /\ CountInv


\* The conjuncts of SemIInv.
LEMMA SemParts ==
    ASSUME SemIInv
    PROVE  SemTypeOK /\ SchedIInv /\ LocksInv /\ SleepInv /\ CountInv
  BY Zenon DEF SemIInv

\* SemIInv holds after a step when its conjuncts do.
LEMMA SemWhole ==
    ASSUME SemTypeOK', SchedIInv', LocksInv', SleepInv', CountInv'
    PROVE  SemIInv'
  BY Zenon DEF SemIInv

\* The conjuncts of LocksInv.
LEMMA LocksParts == ASSUME LocksInv PROVE SemHeld /\ SemHolder /\ SelfHeld /\ SelfHolder
  BY Zenon DEF LocksInv

\* LocksInv holds after a step when its conjuncts do.
LEMMA LocksWhole == ASSUME SemHeld', SemHolder', SelfHeld', SelfHolder' PROVE LocksInv'
  BY Zenon DEF LocksInv

\* The conjuncts of SleepInv.
LEMMA SleepParts == ASSUME SleepInv PROVE SleepChan /\ SleepValue /\ WakeupComes
  BY Zenon DEF SleepInv

\* SleepInv holds after a step when its conjuncts do.
LEMMA SleepWhole == ASSUME SleepChan', SleepValue', WakeupComes' PROVE SleepInv'
  BY Zenon DEF SleepInv

\* The types of the variables.
LEMMA SemTypes ==
    ASSUME SemTypeOK
    PROVE  /\ value \in 0 .. MaxValue
           /\ pc \in [Proc -> PC]
           /\ wi \in [Proc -> 0 .. NPROC]
           /\ hist \in {"disciplined", "init", "post"}
           /\ state \in [Proc -> State]
           /\ chan \in [Proc -> Chan \cup {NoChan}]
           /\ ctx \in [Proc -> Ctx]
           /\ lock \in [Lock -> CPU \cup {NoCPU}]
  BY Zenon DEF SemTypeOK, SchedTypeOK

-----------------------------------------------------------------------------
(* Which locks a CPU holds. *)

\* The locks are those of the slots and the semaphore's.
LEMMA LockIs == Lock = Proc \cup {global_sem} /\ global_sem \notin Proc
  BY SchedAssumption, SemAssumption, Zenon DEF Lock

\* A CPU executing a process outside sem_wait() and sem_post() holds no lock.
LEMMA NoLockOutside ==
    ASSUME SemIInv, NEW c \in CPU, NEW p \in Proc, Runs(c, p), pc[p] \notin HasSem
    PROVE  noff[c] = 0
<1>1. SemHolder /\ SelfHolder /\ NoffCountsLocks
  BY SemParts, LocksParts, SchedParts, Zenon
<1>2. stack[c] = p /\ ctx[p] = "on" /\ p # NoProc
  BY SchedAssumption, Zenon DEF Runs
<1>3. lock[global_sem] # c
  BY <1>1, <1>2, Zenon DEF SemHolder
<1>4. \A l \in Proc : lock[l] # c
  BY <1>1, <1>2, Zenon DEF SelfHolder, HasSem
<1>5. {l \in Lock : holding(c, l)} = {}
  BY <1>3, <1>4, LockIs, Zenon DEF holding
<1>6. noff[c] = Cardinality({l \in Lock : holding(c, l)})
  BY <1>1, Zenon DEF NoffCountsLocks
<1> QED
  BY <1>5, <1>6, FS_EmptySet, Zenon

\* A process in the critical section has the semaphore's lock on its CPU.
LEMMA HasSemLock ==
    ASSUME SemIInv, NEW c \in CPU, NEW p \in Proc, stack[c] = p, pc[p] \in HasSem
    PROVE  lock[global_sem] = c
<1>1. SemHeld /\ SchedIInv
  BY SemParts, LocksParts, Zenon
<1>2. PICK d \in CPU : stack[d] = p /\ lock[global_sem] = d
  BY <1>1, Zenon DEF SemHeld
<1> QED
  BY <1>1, <1>2, StackFacts, Zenon

\* A CPU executing a process between the two holds the semaphore's lock only.
LEMMA OneLockInside ==
    ASSUME SemIInv, NEW c \in CPU, NEW p \in Proc, Runs(c, p),
           pc[p] \in HasSem \ {"sleep"}
    PROVE  noff[c] = 1
<1>1. SelfHolder /\ NoffCountsLocks
  BY SemParts, LocksParts, SchedParts, Zenon
<1>2. stack[c] = p /\ ctx[p] = "on" /\ p # NoProc
  BY SchedAssumption, Zenon DEF Runs
<1>3. lock[global_sem] = c
  BY <1>2, HasSemLock, Zenon
<1>4. \A l \in Proc : lock[l] # c
  BY <1>1, <1>2, Zenon DEF SelfHolder
<1>5. {l \in Lock : holding(c, l)} = {global_sem}
  BY <1>3, <1>4, LockIs, Zenon DEF holding
<1>6. noff[c] = Cardinality({l \in Lock : holding(c, l)})
  BY <1>1, Zenon DEF NoffCountsLocks
<1> QED
  BY <1>5, <1>6, FS_Singleton, Zenon

\* A CPU about to sleep holds the semaphore's lock and that of the process.
LEMMA TwoLocksAsleep ==
    ASSUME SemIInv, NEW c \in CPU, NEW p \in Proc, Runs(c, p), pc[p] = "sleep"
    PROVE  HoldsOnly(c, p, global_sem)
<1>1. SelfHeld /\ SelfHolder
  BY SemParts, LocksParts, Zenon
<1>2. stack[c] = p /\ ctx[p] = "on" /\ p # NoProc
  BY SchedAssumption, Zenon DEF Runs
<1>3. lock[global_sem] = c
  BY <1>2, HasSemLock, Zenon DEF HasSem
<1>4. lock[p] = c
  BY <1>1, <1>2, Zenon DEF SelfHeld
<1>5. \A l \in Proc \ {p} : lock[l] # c
  BY <1>1, <1>2, Zenon DEF SelfHolder
<1> QED
  BY <1>3, <1>4, <1>5, LockIs, Zenon DEF HoldsOnly, holding

\* Only one process is between acquire() and release() of the semaphore.
LEMMA SemLockExcludes ==
    ASSUME SemIInv, NEW p \in Proc, NEW q \in Proc, pc[p] \in HasSem, pc[q] \in HasSem
    PROVE  p = q
<1>1. SemHeld /\ SchedIInv
  BY SemParts, LocksParts, Zenon
<1>2. PICK c \in CPU : stack[c] = p /\ lock[global_sem] = c
  BY <1>1, Zenon DEF SemHeld
<1>3. PICK d \in CPU : stack[d] = q /\ lock[global_sem] = d
  BY <1>1, Zenon DEF SemHeld
<1> QED
  BY <1>2, <1>3, Zenon

-----------------------------------------------------------------------------
(* The calls keep the scheduler's discipline. *)

\* Every step of the semaphore is a step of the scheduler's specification.
LEMMA SemStepIsSchedStep == SemIInv /\ [SemNext]_vars => [SchedNext]_schedvars
<1> SUFFICES ASSUME SemIInv, [SemNext]_vars
             PROVE  [SchedNext]_schedvars
  BY Zenon
<1>1. ASSUME NEW c \in CPU, Machine(c)
      PROVE  SchedNext
  BY <1>1, Zenon DEF Machine, SchedNext
<1>2. ASSUME NEW c \in CPU, NEW p \in Proc, KernelStep(c, p)
      PROVE  [SchedNext]_schedvars
  <2> SUFFICES ThreadStep(c, p) \/ (\E q \in Proc : SlotStep(q)) \/ UNCHANGED schedvars
    BY Zenon DEF SchedNext
  <2>1. CASE sem_wait_acquire(c, p) \/ sem_wait_take(c, p) \/ sem_post_add(c, p) \/ sem_post_release(c, p)
    BY <2>1, SemAssumption, Zenon DEF sem_wait_acquire, sem_wait_take, sem_post_add,
       sem_post_release, ThreadStep
  <2>2. CASE sem_wait_block(c, p)
    <3>1. noff[c] = 1
      BY <2>2, OneLockInside, Zenon DEF sem_wait_block, Goto, HasSem
    <3> QED
      BY <2>2, <3>1, Zenon DEF sem_wait_block, ThreadStep
  <2>3. CASE sem_wait_sleep(c, p)
    <3>1. HoldsOnly(c, p, global_sem)
      BY <2>3, TwoLocksAsleep, Zenon DEF sem_wait_sleep, sleep, Goto
    <3> QED
      BY <2>3, <3>1, SemAssumption, Zenon DEF sem_wait_sleep, ThreadStep
  <2>4. CASE wakeup(c, p)
    BY <2>4, Zenon DEF wakeup, WakeSlot, KillSlot, SlotStep
  <2> QED
    BY <1>2, <2>1, <2>2, <2>3, <2>4, Zenon DEF KernelStep
<1>3. ASSUME NEW c \in CPU, NEW p \in Proc, Timer(c, p)
      PROVE  SchedNext
  <2>1. noff[c] = 0
    BY <1>3, NoLockOutside, Zenon DEF Timer, yield, UserMode, HasSem
  <2> QED
    BY <1>3, <2>1, Zenon DEF Timer, SchedNext, ThreadStep
<1>4. ASSUME NEW c \in CPU, NEW p \in Proc, NEW q \in Proc, kkill(c, p, q)
      PROVE  SchedNext
  BY <1>4, Zenon DEF kkill, SchedNext, SlotStep
<1>5. ASSUME NEW c \in CPU, NEW p \in Proc,
             Call(c, p) \/ StrayPost(c, p) \/ (\E v \in 0 .. MaxValue : sem_init(c, p, v))
      PROVE  UNCHANGED schedvars
  BY <1>5, Zenon DEF Call, StrayPost, sem_init
<1>6. CASE UNCHANGED vars
  BY <1>6, Zenon DEF vars
<1> QED
  BY <1>1, <1>2, <1>3, <1>4, <1>5, <1>6, Zenon DEF SemNext

-----------------------------------------------------------------------------
(* What the steps do to the conjuncts of the invariant. *)

\* A step of one process changes its own pc only.
LEMMA PcStep ==
    ASSUME SemTypeOK, NEW p \in Proc, NEW to, pc' = [pc EXCEPT ![p] = to]
    PROVE  pc'[p] = to /\ \A q \in Proc \ {p} : pc'[q] = pc[q]
  BY SemTypes, Zenon

\* Types after a step.
LEMMA TypeStep ==
    ASSUME SemTypeOK, SchedIInv', NEW p \in Proc, NEW to \in PC,
           pc' = [pc EXCEPT ![p] = to] \/ pc' = pc,
           value' \in 0 .. MaxValue, wi' \in [Proc -> 0 .. NPROC],
           hist' \in {"disciplined", "init", "post"}
    PROVE  SemTypeOK'
<1>1. SchedTypeOK'
  BY SchedPartsNext, Zenon
<1>2. pc' \in [Proc -> PC]
  BY SemTypes, Zenon
<1> QED
  BY <1>1, <1>2, Zenon DEF SemTypeOK

\* No lock is taken or released and nobody crosses an acquire() or release().
LEMMA SameLocks ==
    ASSUME LocksInv, UNCHANGED <<ctx, lock, cproc, stack>>,
           \A q \in Proc : /\ pc'[q] \in HasSem <=> pc[q] \in HasSem
                           /\ pc'[q] = "sleep" <=> pc[q] = "sleep"
    PROVE  LocksInv'
<1>1. SemHeld'
  BY LocksParts DEF SemHeld
<1>2. SemHolder'
  BY LocksParts, Zenon DEF SemHolder
<1>3. SelfHeld'
  BY LocksParts, Zenon DEF SelfHeld
<1>4. SelfHolder'
  BY LocksParts, Zenon DEF SelfHolder
<1> QED
  BY <1>1, <1>2, <1>3, <1>4, LocksWhole, Zenon

\* A switch or a yield() of a process that does not have the semaphore's lock.
LEMMA MoveLocks ==
    ASSUME LocksInv, pc' = pc, NEW p \in Proc, pc[p] \notin HasSem, SlotMoves(p)
    PROVE  LocksInv'
<1>1. /\ lock'[global_sem] = lock[global_sem]
      /\ \A q \in Proc \ {p} : lock'[q] = lock[q] /\ ctx'[q] = ctx[q]
  BY LockIs, Zenon DEF SlotMoves
<1>2. \A d \in CPU, q \in Proc \ {p} :
          /\ stack'[d] = q <=> stack[d] = q
          /\ stack'[d] = NoProc /\ cproc'[d] = q <=> stack[d] = NoProc /\ cproc[d] = q
  BY Zenon DEF SlotMoves
<1>3. \A d \in CPU : lock'[p] = d =>
          \/ stack'[d] = p /\ ctx'[p] \in {"sched", "back"}
          \/ stack'[d] = NoProc /\ cproc'[d] = p
  BY Zenon DEF SlotMoves
<1>4. SemHeld'
  BY <1>1, <1>2, LocksParts DEF SemHeld
<1>5. SemHolder'
  BY <1>1, <1>2, LocksParts DEF SemHolder
<1>6. SelfHeld'
  BY <1>1, <1>2, LocksParts DEF SelfHeld, HasSem
<1>7. SelfHolder'
  BY <1>1, <1>2, <1>3, LocksParts DEF SelfHolder
<1> QED
  BY <1>4, <1>5, <1>6, <1>7, LocksWhole, Zenon

\* acquire(&global_sem.lock).
LEMMA TakeSem ==
    ASSUME SemIInv, NEW c \in CPU, NEW p \in Proc, Runs(c, p), pc[p] \notin HasSem,
           NEW to \in HasSem \ {"sleep"}, pc' = [pc EXCEPT ![p] = to],
           Acquire(c, global_sem)
    PROVE  LocksInv'
<1>1. SemTypeOK /\ LocksInv /\ SemHeld /\ SelfHeld /\ SelfHolder
  BY SemParts, LocksParts, Zenon
<1>2. /\ stack[c] = p /\ ctx[p] = "on" /\ lock[global_sem] = NoCPU
      /\ lock' = [lock EXCEPT ![global_sem] = c]
      /\ ctx' = ctx /\ cproc' = cproc /\ stack' = stack
  BY Zenon DEF Runs, Acquire, acquire, Free, procvars
<1>3. lock'[global_sem] = c /\ \A q \in Proc : lock'[q] = lock[q]
  BY <1>1, <1>2, SemTypes, LockIs, Zenon
<1>4. pc'[p] = to /\ \A q \in Proc \ {p} : pc'[q] = pc[q]
  BY <1>1, PcStep, Zenon
<1>5. \A q \in Proc : pc[q] \notin HasSem
  BY <1>1, <1>2, SchedAssumption, Zenon DEF SemHeld
<1>6. SemHeld'
  BY <1>2, <1>3, <1>4, <1>5, Zenon DEF SemHeld
<1>7. SemHolder'
  BY <1>2, <1>3, <1>4, Zenon DEF SemHolder
<1>8. SelfHeld'
  BY <1>1, <1>2, <1>3, <1>4 DEF SelfHeld
<1>9. SelfHolder'
  BY <1>1, <1>2, <1>3, <1>4, <1>5 DEF SelfHolder, HasSem
<1> QED
  BY <1>6, <1>7, <1>8, <1>9, LocksWhole, Zenon

\* acquire(&p->lock) at the start of sleep().
LEMMA TakeSelf ==
    ASSUME SemIInv, NEW c \in CPU, NEW p \in Proc, Runs(c, p), pc[p] \in HasSem,
           pc' = [pc EXCEPT ![p] = "sleep"], Acquire(c, p)
    PROVE  LocksInv'
<1>1. SemTypeOK /\ SchedIInv /\ LocksInv /\ SemHeld /\ SemHolder /\ SelfHeld /\ SelfHolder
  BY SemParts, LocksParts, Zenon
<1>2. /\ stack[c] = p /\ ctx[p] = "on"
      /\ lock' = [lock EXCEPT ![p] = c]
      /\ ctx' = ctx /\ cproc' = cproc /\ stack' = stack
  BY Zenon DEF Runs, Acquire, acquire, procvars
<1>3. /\ lock'[global_sem] = lock[global_sem] /\ lock'[p] = c
      /\ \A q \in Proc \ {p} : lock'[q] = lock[q]
  BY <1>1, <1>2, SemTypes, LockIs, Zenon
<1>4. pc'[p] = "sleep" /\ \A q \in Proc \ {p} : pc'[q] = pc[q]
  BY <1>1, PcStep, Zenon
<1>5. \A d \in CPU : stack[d] = p => d = c
  BY <1>1, <1>2, StackFacts, Zenon
<1>6. SemHeld'
  BY <1>1, <1>2, <1>3, <1>4 DEF SemHeld
<1>7. SemHolder'
  BY <1>1, <1>2, <1>3, <1>4 DEF SemHolder, HasSem
<1>8. SelfHeld'
  BY <1>1, <1>2, <1>3, <1>4, <1>5 DEF SelfHeld
<1>9. SelfHolder'
  BY <1>1, <1>2, <1>3, <1>4 DEF SelfHolder
<1> QED
  BY <1>6, <1>7, <1>8, <1>9, LocksWhole, Zenon

\* release(&global_sem.lock), alone or on the way into sched().
LEMMA DropSem ==
    ASSUME SemIInv, NEW c \in CPU, NEW p \in Proc, Runs(c, p), pc[p] \in HasSem,
           NEW to, to \notin HasSem, pc' = [pc EXCEPT ![p] = to],
           lock' = [lock EXCEPT ![global_sem] = NoCPU], UNCHANGED <<cproc, stack>>,
           \A q \in Proc \ {p} : ctx'[q] = ctx[q],
           ctx'[p] = ctx[p] \/ ctx'[p] = "sched",
           pc[p] = "sleep" => ctx'[p] = "sched"
    PROVE  LocksInv'
<1>1. SemTypeOK /\ LocksInv /\ SelfHolder
  BY SemParts, LocksParts, Zenon
<1>2. pc'[p] = to /\ \A q \in Proc \ {p} : pc'[q] = pc[q]
  BY <1>1, PcStep, Zenon
<1>3. \A q \in Proc \ {p} : pc[q] \notin HasSem
  BY SemLockExcludes, Zenon
<1>4. \A q \in Proc : pc'[q] \notin HasSem
  BY <1>2, <1>3, Zenon
<1>5. lock'[global_sem] = NoCPU /\ \A q \in Proc : lock'[q] = lock[q]
  BY <1>1, SemTypes, LockIs, Zenon
<1>6. SemHeld'
  BY <1>4, Zenon DEF SemHeld
<1>7. SemHolder'
  BY <1>5, SchedAssumption, Zenon DEF SemHolder
<1>8. SelfHeld'
  BY <1>4, Zenon DEF SelfHeld, HasSem
<1>9. SelfHolder'
  <2>1. ctx[p] = "on"
    BY Zenon DEF Runs
  <2> QED
    BY <1>1, <1>3, <1>5, <2>1 DEF SelfHolder, HasSem
<1> QED
  BY <1>6, <1>7, <1>8, <1>9, LocksWhole, Zenon

\* Nobody falls asleep, the value is the same, and no wakeup() moves.
LEMMA SameSleep ==
    ASSUME SleepInv, value' = value, hist' = "init" <=> hist = "init",
           \A q \in Proc :
              /\ state'[q] = "SLEEPING" => /\ state[q] = "SLEEPING"
                                           /\ chan'[q] = chan[q] /\ pc'[q] = pc[q]
              /\ pc'[q] = "sleep" => pc[q] = "sleep" \/ value = 0
              /\ pc[q] = "wakeup" => pc'[q] = "wakeup" /\ wi'[q] = wi[q]
    PROVE  SleepInv'
<1>1. SleepChan'
  BY SleepParts, Zenon DEF SleepChan
<1>2. SleepValue'
  BY SleepParts, Zenon DEF SleepValue
<1>3. Sleepers' \subseteq Sleepers
  BY Zenon DEF Sleepers
<1>4. WakeupComes'
  BY <1>3, SleepParts, Zenon DEF WakeupComes
<1> QED
  BY <1>1, <1>2, <1>4, SleepWhole, Zenon

\* A process that executes is not asleep.
LEMMA RunsAwake ==
    ASSUME SemIInv, NEW c \in CPU, NEW p \in Proc, Runs(c, p)
    PROVE  state[p] # "SLEEPING"
<1>1. SchedIInv /\ stack[c] = p /\ ctx[p] = "on"
  BY SemParts, Zenon DEF Runs
<1> QED
  BY <1>1, StackFacts, Zenon

\* A step of a process outside wakeup() that neither sleeps nor posts.
LEMMA LocalSleep ==
    ASSUME SemIInv, NEW c \in CPU, NEW p \in Proc, Runs(c, p),
           NEW to, pc' = [pc EXCEPT ![p] = to], to = "sleep" => value = 0,
           pc[p] # "wakeup", UNCHANGED <<state, chan, value, wi>>,
           hist' = "init" <=> hist = "init"
    PROVE  SleepInv'
<1>1. SemTypeOK /\ SleepInv
  BY SemParts, Zenon
<1>2. pc'[p] = to /\ \A q \in Proc \ {p} : pc'[q] = pc[q]
  BY <1>1, PcStep, Zenon
<1>3. state[p] # "SLEEPING"
  BY RunsAwake, Zenon
<1>4. \A q \in Proc :
         /\ state'[q] = "SLEEPING" => /\ state[q] = "SLEEPING"
                                      /\ chan'[q] = chan[q] /\ pc'[q] = pc[q]
         /\ pc'[q] = "sleep" => pc[q] = "sleep" \/ value = 0
         /\ pc[q] = "wakeup" => pc'[q] = "wakeup" /\ wi'[q] = wi[q]
  BY <1>2, <1>3, Zenon
<1> QED
  BY <1>1, <1>4, SameSleep, Zenon

\* The processes let in are finitely many.
LEMMA InsideFinite == IsFiniteSet(Inside) /\ Cardinality(Inside) \in Nat
<1>1. IsFiniteSet(Proc)
  BY SchedAssumption, FS_Interval DEF Proc
<1>2. IsFiniteSet(Inside)
  BY <1>1, FS_Subset, Zenon DEF Inside
<1> QED
  BY <1>2, FS_CardinalityType, Zenon

\* Nobody enters or leaves.
LEMMA SameCount ==
    ASSUME CountInv, value' = value, hist' = hist,
           \A q \in Proc : pc'[q] \in {"crit", "post"} <=> pc[q] \in {"crit", "post"}
    PROVE  CountInv'
<1>1. Inside' = Inside
  BY Zenon DEF Inside
<1> QED
  BY <1>1, Zenon DEF CountInv

\* A step of one process that neither enters nor leaves.
LEMMA LocalCount ==
    ASSUME SemIInv, value' = value, hist' = hist, NEW p \in Proc,
           NEW to, pc' = [pc EXCEPT ![p] = to],
           to \in {"crit", "post"} <=> pc[p] \in {"crit", "post"}
    PROVE  CountInv'
<1>1. SemTypeOK /\ CountInv
  BY SemParts, Zenon
<1>2. pc'[p] = to /\ \A q \in Proc \ {p} : pc'[q] = pc[q]
  BY <1>1, PcStep, Zenon
<1>3. \A q \in Proc : pc'[q] \in {"crit", "post"} <=> pc[q] \in {"crit", "post"}
  BY <1>2, Zenon
<1> QED
  BY <1>1, <1>3, SameCount, Zenon

-----------------------------------------------------------------------------
(* The inductive invariant. *)

\* At boot nobody has called, and the value is the initial one.
LEMMA SemInitHolds == SemInit => SemIInv
<1> SUFFICES ASSUME SemInit PROVE SemIInv
  BY Zenon
<1>1. SchedIInv
  BY InitHolds, Zenon DEF SemInit
<1>2. SemTypeOK
  <2>1. SchedTypeOK
    BY <1>1, SchedParts, Zenon
  <2> QED
    BY <2>1, SchedAssumption, SemAssumption DEF SemInit, SemTypeOK, PC, UserMode
<1>3. LocksInv
  <2>1. /\ pc = [p \in Proc |-> "user"]
        /\ lock = [l \in Lock |-> NoCPU]
    BY Zenon DEF SemInit, SchedInit
  <2>2. SemHeld /\ SelfHeld
    BY <2>1, Zenon DEF SemHeld, SelfHeld, HasSem
  <2>3. SemHolder /\ SelfHolder
    BY <2>1, SchedAssumption, LockIs, Zenon DEF SemHolder, SelfHolder
  <2> QED
    BY <2>2, <2>3, Zenon DEF LocksInv
<1>4. SleepInv
  BY Zenon DEF SemInit, SleepInv, SleepChan, SleepValue, WakeupComes, Sleepers
<1>5. CountInv
  <2>1. Inside = {}
    BY Zenon DEF SemInit, Inside
  <2> QED
    BY <2>1, SemAssumption, FS_EmptySet DEF SemInit, CountInv
<1> QED
  BY <1>1, <1>2, <1>3, <1>4, <1>5, Zenon DEF SemIInv

\* A step of the scheduler alone.
LEMMA MovePreserves ==
    ASSUME SemIInv, SchedIInv', UNCHANGED semvars,
           \/ UNCHANGED <<state, chan, ctx, lock, cproc, stack>>
           \/ \E p \in Proc : pc[p] \notin HasSem /\ SlotMoves(p) /\ StateMoves
    PROVE  SemIInv'
<1>1. SemTypeOK /\ LocksInv /\ SleepInv /\ CountInv
  BY SemParts, Zenon
<1>2. pc' = pc /\ value' = value /\ wi' = wi /\ hist' = hist
  BY Zenon DEF semvars
<1>3. SemTypeOK'
  BY <1>1, <1>2, SchedPartsNext, Zenon DEF SemTypeOK
<1>4. LocksInv'
  BY <1>1, <1>2, SameLocks, MoveLocks, Zenon
<1>5. \A q \in Proc : state'[q] = "SLEEPING" => state[q] = "SLEEPING" /\ chan'[q] = chan[q]
  BY Zenon DEF StateMoves
<1>6. SleepInv'
  BY <1>1, <1>2, <1>5, SameSleep, Zenon
<1>7. CountInv'
  BY <1>1, <1>2, SameCount, Zenon
<1> QED
  BY <1>3, <1>4, <1>6, <1>7, SemWhole, Zenon

\* The steps of scheduler() and the context switches.
LEMMA MachinePreserves ==
    ASSUME SemIInv, SchedIInv', NEW c \in CPU, Machine(c)
    PROVE  SemIInv'
<1>1. (SchedulerStep(c) \/ SwitchStep(c)) /\ UNCHANGED semvars
  BY Zenon DEF Machine
<1>2. SchedIInv /\ SemHeld
  BY SemParts, LocksParts, Zenon
<1>3. \A p \in Proc : ctx[p] # "on" => pc[p] \notin HasSem
  BY <1>2, Zenon DEF SemHeld
<1> QED
  BY <1>1, <1>2, <1>3, MachineMoves, MovePreserves, Zenon

\* A timer interrupt, which finds its CPU without locks.
LEMMA TimerPreserves ==
    ASSUME SemIInv, SchedIInv', NEW c \in CPU, NEW p \in Proc, Timer(c, p)
    PROVE  SemIInv'
<1>1. yield(c, p) /\ UNCHANGED semvars /\ (pc[p] \in UserMode \/ noff[c] = 0)
  BY Zenon DEF Timer
<1>2. Runs(c, p)
  BY <1>1, Zenon DEF yield
<1>3. SchedIInv /\ NoffCountsLocks
  BY SemParts, SchedParts, Zenon
<1>4. noff[c] = 0
  BY <1>1, <1>2, NoLockOutside, Zenon DEF UserMode, HasSem
<1>5. pc[p] \notin HasSem
  BY <1>2, <1>3, <1>4, SemAssumption, OneLockInside, TwoLocksAsleep, HoldsTwo DEF HasSem
<1> QED
  BY <1>1, <1>3, <1>5, YieldMoves, MovePreserves, Zenon

\* Entering a call, or posting without having waited.
LEMMA CallPreserves ==
    ASSUME SemIInv, SchedIInv', NEW c \in CPU, NEW p \in Proc, Call(c, p) \/ StrayPost(c, p)
    PROVE  SemIInv'
<1>1. SemTypeOK /\ LocksInv /\ CountInv
  BY SemParts, Zenon
<1>2. Runs(c, p) /\ wi' = wi /\ value' = value /\ UNCHANGED schedvars
  BY Zenon DEF Call, StrayPost
<1>3. /\ hist' \in {"disciplined", "init", "post"}
      /\ hist' = "init" <=> hist = "init"
  BY <1>1, SemTypes, Zenon DEF Call, StrayPost
<1>4. PICK to \in {"wait", "post"} : pc' = [pc EXCEPT ![p] = to] /\ pc[p] \in {"user", "crit"}
  BY Zenon DEF Call, StrayPost, Goto
<1>5. /\ state' = state /\ chan' = chan /\ ctx' = ctx
      /\ lock' = lock /\ cproc' = cproc /\ stack' = stack
  BY <1>2, Zenon DEF schedvars, procvars, cpuvars
<1>6. SemTypeOK'
  <2>1. to \in PC
    BY Zenon DEF PC
  <2> QED
    BY <1>1, <1>2, <1>3, <1>4, <2>1, TypeStep, SemTypes, Zenon
<1>7. LocksInv'
  <2>1. pc'[p] = to /\ \A q \in Proc \ {p} : pc'[q] = pc[q]
    BY <1>1, <1>4, PcStep, Zenon
  <2>2. \A q \in Proc : /\ pc'[q] \in HasSem <=> pc[q] \in HasSem
                        /\ pc'[q] = "sleep" <=> pc[q] = "sleep"
    BY <1>4, <2>1, Zenon DEF HasSem
  <2> QED
    BY <1>1, <1>5, <2>2, SameLocks, Zenon
<1>8. SleepInv'
  BY <1>2, <1>3, <1>4, <1>5, LocalSleep, Zenon
<1>9. CountInv'
  <2>1. CASE Call(c, p)
    <3>1. \/ pc[p] = "user" /\ pc' = [pc EXCEPT ![p] = "wait"]
          \/ pc[p] = "crit" /\ pc' = [pc EXCEPT ![p] = "post"]
      BY <2>1, Zenon DEF Call, Goto
    <3>2. hist' = hist
      BY <2>1, Zenon DEF Call
    <3> QED
      BY <1>2, <3>1, <3>2, LocalCount, Zenon
  <2>2. CASE StrayPost(c, p)
    BY <2>2, Zenon DEF StrayPost, CountInv
  <2> QED
    BY <2>1, <2>2, Zenon
<1> QED
  BY <1>6, <1>7, <1>8, <1>9, SemWhole, Zenon

\* sem_init(): sleep() is entered with the lock that it waits for.
LEMMA InitPreserves ==
    ASSUME SemIInv, SchedIInv', NEW c \in CPU, NEW p \in Proc,
           NEW v \in 0 .. MaxValue, sem_init(c, p, v)
    PROVE  SemIInv'
<1>1. SemTypeOK /\ LocksInv /\ SemHeld /\ SleepInv /\ SleepChan
  BY SemParts, LocksParts, SleepParts, Zenon
<1>2. /\ lock[global_sem] = NoCPU /\ value' = v /\ hist' = "init"
      /\ pc' = pc /\ wi' = wi /\ UNCHANGED schedvars
  BY Zenon DEF sem_init, Free
<1>3. /\ state' = state /\ chan' = chan /\ ctx' = ctx
      /\ lock' = lock /\ cproc' = cproc /\ stack' = stack
  BY <1>2, Zenon DEF schedvars, procvars, cpuvars
<1>4. SemTypeOK'
  BY <1>1, <1>2, SchedPartsNext, Zenon DEF SemTypeOK
<1>5. LocksInv'
  BY <1>1, <1>2, <1>3, SameLocks, Zenon
<1>6. SleepInv'
  <2>1. SleepChan'
    BY <1>1, <1>2, <1>3, Zenon DEF SleepChan
  <2>2. \A q \in Proc : pc[q] # "sleep"
    BY <1>1, <1>2, SchedAssumption, Zenon DEF SemHeld, HasSem
  <2>3. SleepValue' /\ WakeupComes'
    BY <1>2, <2>2, Zenon DEF SleepValue, WakeupComes
  <2> QED
    BY <2>1, <2>3, SleepWhole, Zenon
<1>7. CountInv'
  BY <1>2, Zenon DEF CountInv
<1> QED
  BY <1>4, <1>5, <1>6, <1>7, SemWhole, Zenon

\* kill().
LEMMA KillPreserves ==
    ASSUME SemIInv, SchedIInv', NEW c \in CPU, NEW p \in Proc, NEW q \in Proc, kkill(c, p, q)
    PROVE  SemIInv'
<1>1. SemTypeOK /\ LocksInv /\ SleepInv /\ CountInv
  BY SemParts, Zenon
<1>2. /\ state' = [state EXCEPT ![q] = "RUNNABLE"]
      /\ chan' = chan /\ ctx' = ctx /\ lock' = lock /\ cproc' = cproc /\ stack' = stack
  BY Zenon DEF kkill, KillSlot, SetState, cpuvars
<1>3. pc' = pc /\ value' = value /\ wi' = wi /\ hist' = hist
  BY Zenon DEF kkill, semvars
<1>4. SemTypeOK'
  BY <1>1, <1>3, SchedPartsNext, Zenon DEF SemTypeOK
<1>5. LocksInv'
  BY <1>1, <1>2, <1>3, SameLocks, Zenon
<1>6. \A r \in Proc : state'[r] = "SLEEPING" => state[r] = "SLEEPING"
  BY <1>1, <1>2, SemTypes, Zenon
<1>7. SleepInv'
  BY <1>1, <1>2, <1>3, <1>6, SameSleep, Zenon
<1>8. CountInv'
  BY <1>1, <1>3, SameCount, Zenon
<1> QED
  BY <1>4, <1>5, <1>7, <1>8, SemWhole, Zenon

\* acquire(&global_sem.lock) in sem_wait(), first or after sleep().
LEMMA WaitAcquirePreserves ==
    ASSUME SemIInv, SchedIInv', NEW c \in CPU, NEW p \in Proc, sem_wait_acquire(c, p)
    PROVE  SemIInv'
<1>1. SemTypeOK
  BY SemParts, Zenon
<1>2. /\ Runs(c, p) /\ Acquire(c, global_sem)
      /\ pc[p] = "wait" /\ pc' = [pc EXCEPT ![p] = "test"]
      /\ value' = value /\ wi' = wi /\ hist' = hist
  BY Zenon DEF sem_wait_acquire, Goto
<1>3. state' = state /\ chan' = chan
  BY <1>2, Zenon DEF Acquire, procvars
<1>4. SemTypeOK'
  <2>1. "test" \in PC
    BY Zenon DEF PC
  <2> QED
    BY <1>1, <1>2, <2>1, TypeStep, SemTypes, Zenon
<1>5. LocksInv'
  <2>1. "test" \in HasSem \ {"sleep"} /\ "wait" \notin HasSem
    BY Zenon DEF HasSem
  <2> QED
    BY <1>2, <2>1, TakeSem, Zenon
<1>6. SleepInv'
  BY <1>2, <1>3, LocalSleep, Zenon
<1>7. CountInv'
  BY <1>2, LocalCount, Zenon
<1> QED
  BY <1>4, <1>5, <1>6, <1>7, SemWhole, Zenon

\* acquire(&p->lock) in sleep(), for a value that is zero.
LEMMA WaitBlockPreserves ==
    ASSUME SemIInv, SchedIInv', NEW c \in CPU, NEW p \in Proc, sem_wait_block(c, p)
    PROVE  SemIInv'
<1>1. SemTypeOK
  BY SemParts, Zenon
<1>2. /\ Runs(c, p) /\ Acquire(c, p) /\ value <= 0
      /\ pc[p] = "test" /\ pc' = [pc EXCEPT ![p] = "sleep"]
      /\ value' = value /\ wi' = wi /\ hist' = hist
  BY Zenon DEF sem_wait_block, Goto
<1>3. state' = state /\ chan' = chan
  BY <1>2, Zenon DEF Acquire, procvars
<1>4. value = 0
  BY <1>1, <1>2, SemTypes
<1>5. SemTypeOK'
  <2>1. "sleep" \in PC
    BY Zenon DEF PC
  <2> QED
    BY <1>1, <1>2, <2>1, TypeStep, SemTypes, Zenon
<1>6. LocksInv'
  <2>1. "test" \in HasSem
    BY Zenon DEF HasSem
  <2> QED
    BY <1>2, <2>1, TakeSelf, Zenon
<1>7. SleepInv'
  BY <1>2, <1>3, <1>4, LocalSleep, Zenon
<1>8. CountInv'
  BY <1>2, LocalCount, Zenon
<1> QED
  BY <1>5, <1>6, <1>7, <1>8, SemWhole, Zenon

\* The rest of sleep(): from here on sem_post() finds the process asleep.
LEMMA WaitSleepPreserves ==
    ASSUME SemIInv, SchedIInv', NEW c \in CPU, NEW p \in Proc, sem_wait_sleep(c, p)
    PROVE  SemIInv'
<1>1. SemTypeOK /\ SleepInv /\ SleepChan /\ SleepValue
  BY SemParts, SleepParts, Zenon
<1>2. /\ Runs(c, p) /\ pc[p] = "sleep" /\ pc' = [pc EXCEPT ![p] = "wait"]
      /\ value' = value /\ wi' = wi /\ hist' = hist
      /\ lock' = [lock EXCEPT ![global_sem] = NoCPU] /\ cproc' = cproc /\ stack' = stack
  BY Zenon DEF sem_wait_sleep, sleep, release, Goto
<1>3. /\ state' = [state EXCEPT ![p] = "SLEEPING"]
      /\ chan' = [chan EXCEPT ![p] = global_sem]
      /\ ctx' = [ctx EXCEPT ![p] = "sched"]
  BY Zenon DEF sem_wait_sleep, sleep, EnterSched
<1>4. pc'[p] = "wait" /\ \A q \in Proc \ {p} : pc'[q] = pc[q]
  BY <1>1, <1>2, PcStep, Zenon
<1>5. SemTypeOK'
  <2>1. "wait" \in PC
    BY Zenon DEF PC
  <2> QED
    BY <1>1, <1>2, <2>1, TypeStep, SemTypes, Zenon
<1>6. LocksInv'
  <2>1. ctx'[p] = "sched" /\ \A q \in Proc \ {p} : ctx'[q] = ctx[q]
    BY <1>1, <1>3, SemTypes, Zenon
  <2>2. "sleep" \in HasSem /\ "wait" \notin HasSem
    BY Zenon DEF HasSem
  <2> QED
    BY <1>2, <2>1, <2>2, DropSem, Zenon
<1>7. SleepInv'
  <2>1. value = 0
    BY <1>1, <1>2, Zenon DEF SleepValue
  <2>2. \A q \in Proc \ {p} : state'[q] = state[q] /\ chan'[q] = chan[q]
    BY <1>1, <1>3, SemTypes, Zenon
  <2>3. chan'[p] = global_sem
    BY <1>1, <1>3, SemTypes, Zenon
  <2>4. SleepChan'
    BY <1>1, <1>4, <2>2, <2>3, Zenon DEF SleepChan
  <2>5. SleepValue' /\ WakeupComes'
    BY <1>2, <2>1 DEF SleepValue, WakeupComes
  <2> QED
    BY <2>4, <2>5, SleepWhole, Zenon
<1>8. CountInv'
  BY <1>2, LocalCount, Zenon
<1> QED
  BY <1>5, <1>6, <1>7, <1>8, SemWhole, Zenon

\* sem_wait() returns, having taken one from a positive value.
LEMMA WaitTakePreserves ==
    ASSUME SemIInv, SchedIInv', NEW c \in CPU, NEW p \in Proc, sem_wait_take(c, p)
    PROVE  SemIInv'
<1>1. SemTypeOK /\ SleepInv /\ SleepChan /\ WakeupComes /\ CountInv
  BY SemParts, SleepParts, Zenon
<1>2. /\ Runs(c, p) /\ pc[p] = "test" /\ pc' = [pc EXCEPT ![p] = "crit"]
      /\ value > 0 /\ value' = value - 1 /\ wi' = wi /\ hist' = hist
      /\ lock' = [lock EXCEPT ![global_sem] = NoCPU] /\ cproc' = cproc /\ stack' = stack
      /\ ctx' = ctx /\ state' = state /\ chan' = chan
  BY Zenon DEF sem_wait_take, Release, release, procvars, Goto
<1>3. pc'[p] = "crit" /\ \A q \in Proc \ {p} : pc'[q] = pc[q]
  BY <1>1, <1>2, PcStep, Zenon
<1>4. SemTypeOK'
  <2>1. "crit" \in PC
    BY Zenon DEF PC, UserMode
  <2>2. value' \in 0 .. MaxValue
    BY <1>1, <1>2, SemAssumption, SemTypes
  <2> QED
    BY <1>1, <1>2, <2>1, <2>2, TypeStep, SemTypes, Zenon
<1>5. LocksInv'
  <2>1. "test" \in HasSem /\ "crit" \notin HasSem /\ "test" # "sleep"
    BY Zenon DEF HasSem
  <2> QED
    BY <1>2, <2>1, DropSem, Zenon
<1>6. SleepInv'
  <2>1. \A q \in Proc : pc[q] # "sleep" /\ pc[q] # "wakeup"
    BY <1>2, SemLockExcludes, Zenon DEF HasSem
  <2>2. state[p] # "SLEEPING"
    BY <1>2, RunsAwake, Zenon
  <2>3. SleepChan'
    BY <1>1, <1>2, <1>3, <2>2, Zenon DEF SleepChan
  <2>4. SleepValue'
    BY <1>3, <2>1, Zenon DEF SleepValue
  <2>5. Sleepers' = Sleepers
    BY <1>2, Zenon DEF Sleepers
  <2>6. WakeupComes'
    BY <1>1, <1>2, <2>1, <2>5, Zenon DEF WakeupComes
  <2> QED
    BY <2>3, <2>4, <2>6, SleepWhole, Zenon
<1>7. CountInv'
  <2>1. Inside' = Inside \cup {p} /\ p \notin Inside
    BY <1>2, <1>3, Zenon DEF Inside
  <2>2. Cardinality(Inside \cup {p}) = Cardinality(Inside) + 1 /\ Cardinality(Inside) \in Nat
    BY <2>1, InsideFinite, CardinalityAdd, Zenon
  <2>3. value \in Int /\ InitValue \in Int
    BY <1>1, SemAssumption, SemTypes
  <2> QED
    BY <1>1, <1>2, <2>1, <2>2, <2>3 DEF CountInv
<1> QED
  BY <1>4, <1>5, <1>6, <1>7, SemWhole, Zenon

\* sem_post() up to the call of wakeup().
LEMMA PostAddPreserves ==
    ASSUME SemIInv, SchedIInv', NEW c \in CPU, NEW p \in Proc, sem_post_add(c, p)
    PROVE  SemIInv'
<1>1. SemTypeOK /\ SemHeld /\ SleepInv /\ SleepChan /\ CountInv
  BY SemParts, LocksParts, SleepParts, Zenon
<1>2. /\ Runs(c, p) /\ Acquire(c, global_sem) /\ value < MaxValue
      /\ pc[p] = "post" /\ pc' = [pc EXCEPT ![p] = "wakeup"]
      /\ value' = value + 1 /\ wi' = [wi EXCEPT ![p] = 0]
      /\ hist' = IF hist = "init" THEN "post" ELSE hist
  BY Zenon DEF sem_post_add, Goto
<1>3. state' = state /\ chan' = chan /\ lock[global_sem] = NoCPU
  BY <1>2, Zenon DEF Acquire, acquire, Free, procvars
<1>4. pc'[p] = "wakeup" /\ \A q \in Proc \ {p} : pc'[q] = pc[q]
  BY <1>1, <1>2, PcStep, Zenon
<1>5. SemTypeOK'
  <2>1. "wakeup" \in PC
    BY Zenon DEF PC
  <2>2. value' \in 0 .. MaxValue /\ wi' \in [Proc -> 0 .. NPROC] /\ hist' \in {"disciplined", "init", "post"}
    BY <1>1, <1>2, SchedAssumption, SemAssumption, SemTypes
  <2> QED
    BY <1>1, <1>2, <2>1, <2>2, TypeStep, Zenon
<1>6. LocksInv'
  <2>1. "wakeup" \in HasSem \ {"sleep"} /\ "post" \notin HasSem
    BY Zenon DEF HasSem
  <2> QED
    BY <1>2, <2>1, TakeSem, Zenon
<1>7. SleepInv'
  <2>1. state[p] # "SLEEPING"
    BY <1>2, RunsAwake, Zenon
  <2>2. SleepChan'
    BY <1>1, <1>3, <1>4, <2>1, Zenon DEF SleepChan
  <2>3. \A q \in Proc : pc[q] # "sleep"
    BY <1>1, <1>3, SchedAssumption, Zenon DEF SemHeld, HasSem
  <2>4. SleepValue'
    BY <1>4, <2>3, Zenon DEF SleepValue
  <2>5. \A q \in Sleepers' : wi'[p] <= q
    BY <1>1, <1>2, SemTypes DEF Sleepers, Proc
  <2>6. WakeupComes'
    BY <1>4, <2>5, Zenon DEF WakeupComes
  <2> QED
    BY <2>2, <2>4, <2>6, SleepWhole, Zenon
<1>8. CountInv'
  <2>1. Inside' = Inside \ {p} /\ p \in Inside
    BY <1>2, <1>4, Zenon DEF Inside
  <2>2. Cardinality(Inside \ {p}) = Cardinality(Inside) - 1 /\ Cardinality(Inside) \in Nat
    BY <2>1, InsideFinite, CardinalityRemove, Zenon
  <2>3. value \in Int /\ InitValue \in Int
    BY <1>1, SemAssumption, SemTypes
  <2> QED
    BY <1>1, <1>2, <2>1, <2>2, <2>3 DEF CountInv
<1> QED
  BY <1>5, <1>6, <1>7, <1>8, SemWhole, Zenon

\* One iteration of the loop of wakeup(): the slots before wi[p] are awake.
LEMMA WakeupPreserves ==
    ASSUME SemIInv, SchedIInv', NEW c \in CPU, NEW p \in Proc, wakeup(c, p)
    PROVE  SemIInv'
<1>1. SemTypeOK /\ LocksInv /\ SleepInv /\ SleepChan /\ SleepValue /\ WakeupComes /\ CountInv
  BY SemParts, SleepParts, Zenon
<1>2. Runs(c, p) /\ pc[p] = "wakeup" /\ value' = value /\ hist' = hist
  BY Zenon DEF wakeup
<1>3. \/ /\ wi[p] \in Proc /\ wi' = [wi EXCEPT ![p] = @ + 1] /\ pc' = pc
         /\ UNCHANGED schedvars \/ WakeSlot(wi[p], global_sem)
         /\ wi[p] # p => WakeSlot(wi[p], global_sem)
      \/ /\ wi[p] = NPROC /\ wi' = wi /\ pc' = [pc EXCEPT ![p] = "unlock"]
         /\ UNCHANGED schedvars
  BY Zenon DEF wakeup, Goto
<1>4. \A q \in Proc : pc[q] = "wakeup" => q = p
  BY <1>2, SemLockExcludes, Zenon DEF HasSem
<1>5. state[p] # "SLEEPING"
  BY <1>2, RunsAwake, Zenon
<1>6. /\ chan' = chan /\ ctx' = ctx /\ lock' = lock /\ cproc' = cproc /\ stack' = stack
      /\ state' = state \/ (wi[p] \in Proc /\ state' = [state EXCEPT ![wi[p]] = "RUNNABLE"])
  BY <1>3, Zenon DEF WakeSlot, SetState, schedvars, procvars, cpuvars
<1>7. \A q \in Proc : state'[q] = "SLEEPING" => state[q] = "SLEEPING"
  BY <1>1, <1>6, SemTypes, Zenon
<1>8. \A q \in Proc \ {p} : pc'[q] = pc[q] /\ wi'[q] = wi[q]
  BY <1>1, <1>3, SemTypes, Zenon
<1>9. pc'[p] \in {"wakeup", "unlock"}
  BY <1>1, <1>2, <1>3, SemTypes, Zenon
<1>10. SemTypeOK'
  <2>1. "unlock" \in PC
    BY Zenon DEF PC
  <2>2. wi' \in [Proc -> 0 .. NPROC]
    <3>1. wi[p] \in Proc => wi[p] + 1 \in 0 .. NPROC
      BY SchedAssumption DEF Proc
    <3> QED
      BY <1>1, <1>3, <3>1, SemTypes, Zenon
  <2>3. pc' = [pc EXCEPT ![p] = "unlock"] \/ pc' = pc
    BY <1>3, Zenon
  <2> QED
    BY <1>1, <1>2, <2>1, <2>2, <2>3, TypeStep, SemTypes, Zenon
<1>11. LocksInv'
  <2>1. \A q \in Proc : /\ pc'[q] \in HasSem <=> pc[q] \in HasSem
                        /\ pc'[q] = "sleep" <=> pc[q] = "sleep"
    BY <1>2, <1>8, <1>9, Zenon DEF HasSem
  <2> QED
    BY <1>1, <1>6, <2>1, SameLocks, Zenon
<1>12. SleepChan'
  BY <1>1, <1>5, <1>6, <1>7, <1>8, Zenon DEF SleepChan
<1>13. SleepValue'
  BY <1>1, <1>2, <1>8, <1>9, Zenon DEF SleepValue
<1>14. Sleepers' \subseteq Sleepers
  BY <1>7, Zenon DEF Sleepers
<1>15. CASE wi[p] \in Proc
  <2>1. pc' = pc /\ wi'[p] = wi[p] + 1
    <3>1. wi[p] # NPROC
      BY <1>15 DEF Proc
    <3> QED
      BY <1>1, <1>3, <3>1, SemTypes, Zenon
  <2>2. state'[wi[p]] # "SLEEPING"
    <3>1. CASE state[wi[p]] = "SLEEPING"
      \* it sleeps on the semaphore
      <4>1. wi[p] # p /\ chan[wi[p]] = global_sem
        BY <1>1, <1>5, <1>15, <3>1, Zenon DEF SleepChan
      <4>2. WakeSlot(wi[p], global_sem)
        BY <1>3, <1>15, <4>1 DEF Proc
      <4>3. state' = [state EXCEPT ![wi[p]] = "RUNNABLE"]
        BY <3>1, <4>1, <4>2, Zenon DEF WakeSlot, SetState
      <4> QED
        BY <1>1, <1>15, <4>3, SemTypes, Zenon
    <3>2. CASE state[wi[p]] # "SLEEPING"
      BY <1>7, <1>15, <3>2, Zenon
    <3> QED
      BY <3>1, <3>2, Zenon
  <2>3. \A q \in Sleepers' : q \in Sleepers /\ q # wi[p]
    BY <1>14, <2>2, Zenon DEF Sleepers
  <2>4. \A q \in Sleepers' : wi[p] <= q => wi'[p] <= q
    BY <1>15, <2>1, <2>3 DEF Sleepers, Proc
  <2>5. WakeupComes'
    BY <1>1, <1>2, <1>4, <2>1, <2>3, <2>4, Zenon DEF WakeupComes
  <2>6. CountInv'
    BY <1>1, <1>2, <2>1, SameCount, Zenon
  <2> QED
    BY <1>10, <1>11, <1>12, <1>13, <2>5, <2>6, SleepWhole, SemWhole, Zenon
<1>16. CASE wi[p] = NPROC
  <2>1. pc' = [pc EXCEPT ![p] = "unlock"]
    BY <1>3, <1>16 DEF Proc
  <2>2. \A q \in Sleepers : ~ (wi[p] <= q)
    BY <1>16, SchedAssumption DEF Sleepers, Proc
  <2>3. WakeupComes'
    BY <1>1, <1>2, <1>4, <1>14, <2>2, Zenon DEF WakeupComes
  <2>4. CountInv'
    BY <1>2, <2>1, LocalCount, Zenon
  <2> QED
    BY <1>10, <1>11, <1>12, <1>13, <2>3, <2>4, SleepWhole, SemWhole, Zenon
<1> QED
  BY <1>3, <1>15, <1>16, Zenon

\* The end of sem_post().
LEMMA PostReleasePreserves ==
    ASSUME SemIInv, SchedIInv', NEW c \in CPU, NEW p \in Proc, sem_post_release(c, p)
    PROVE  SemIInv'
<1>1. SemTypeOK
  BY SemParts, Zenon
<1>2. /\ Runs(c, p) /\ pc[p] = "unlock" /\ pc' = [pc EXCEPT ![p] = "user"]
      /\ value' = value /\ wi' = wi /\ hist' = hist
      /\ lock' = [lock EXCEPT ![global_sem] = NoCPU] /\ cproc' = cproc /\ stack' = stack
      /\ ctx' = ctx /\ state' = state /\ chan' = chan
  BY Zenon DEF sem_post_release, Release, release, procvars, Goto
<1>3. SemTypeOK'
  <2>1. "user" \in PC
    BY Zenon DEF PC, UserMode
  <2> QED
    BY <1>1, <1>2, <2>1, TypeStep, SemTypes, Zenon
<1>4. LocksInv'
  <2>1. "unlock" \in HasSem /\ "user" \notin HasSem /\ "unlock" # "sleep"
    BY Zenon DEF HasSem
  <2> QED
    BY <1>2, <2>1, DropSem, Zenon
<1>5. SleepInv'
  BY <1>2, LocalSleep, Zenon
<1>6. CountInv'
  BY <1>2, LocalCount, Zenon
<1> QED
  BY <1>3, <1>4, <1>5, <1>6, SemWhole, Zenon

\* SemIInv is inductive.
LEMMA SemInductive == SemIInv /\ [SemNext]_vars => SemIInv'
<1> SUFFICES ASSUME SemIInv, [SemNext]_vars
             PROVE  SemIInv'
  BY Zenon
<1>1. SchedIInv'
  BY SemStepIsSchedStep, SchedInductive, SemParts, Zenon
<1>2. ASSUME NEW c \in CPU, Machine(c)
      PROVE  SemIInv'
  BY <1>1, <1>2, MachinePreserves, Zenon
<1>3. ASSUME NEW c \in CPU, NEW p \in Proc, KernelStep(c, p)
      PROVE  SemIInv'
  BY <1>1, <1>3, WaitAcquirePreserves, WaitBlockPreserves, WaitSleepPreserves,
     WaitTakePreserves, PostAddPreserves, WakeupPreserves, PostReleasePreserves, Zenon
     DEF KernelStep
<1>4. ASSUME NEW c \in CPU, NEW p \in Proc,
             \/ Call(c, p) \/ StrayPost(c, p) \/ Timer(c, p)
             \/ \E v \in 0 .. MaxValue : sem_init(c, p, v)
             \/ \E q \in Proc : kkill(c, p, q)
      PROVE  SemIInv'
  BY <1>1, <1>4, CallPreserves, TimerPreserves, InitPreserves, KillPreserves, Zenon
<1>5. CASE UNCHANGED vars
  <2>1. UNCHANGED semvars /\ UNCHANGED schedvars
    BY <1>5, Zenon DEF vars
  <2>2. UNCHANGED <<state, chan, ctx, lock, cproc, stack>>
    BY <2>1, Zenon DEF schedvars, procvars, cpuvars
  <2> QED
    BY <1>1, <2>1, <2>2, MovePreserves, Zenon
<1> QED
  BY <1>2, <1>3, <1>4, <1>5, Zenon DEF SemNext

\* Every reachable state of the semaphore satisfies the invariant.
THEOREM SemInvariant == SemSpec => []SemIInv
<1> QED
  BY SemInitHolds, SemInductive, PTL DEF SemSpec

-----------------------------------------------------------------------------
(* What follows from it. *)

(***************************************************************************)
(* sem_wait(), sem_post(), wakeup(), kill() and the timer keep the         *)
(* discipline of the scheduler: they yield without locks and sleep with    *)
(* exactly the semaphore's.  With the theorems on SchedSpec, sched() never *)
(* panics under them and no two CPUs share a kernel stack.                 *)
(***************************************************************************)
THEOREM SemRefinesSched == SemSpec => SchedSpec
<1>1. SemInit => SchedInit
  BY Zenon DEF SemInit
<1> QED
  BY <1>1, SemInvariant, SemStepIsSchedStep, PTL DEF SemSpec, SchedSpec

(***************************************************************************)
(* The semaphore is correct for any number of CPUs and processes: the      *)
(* value is never negative, sem_wait() admits at most InitValue processes, *)
(* and sem_post() leaves nobody asleep beside a positive value.            *)
(***************************************************************************)
THEOREM SemIsCorrect == SemSpec => []SemInv
<1>1. SemIInv => SemInv
  <2> SUFFICES ASSUME SemIInv PROVE SemInv
    BY Zenon
  <2>1. SemTypeOK /\ SemHeld /\ WakeupComes /\ CountInv
    BY SemParts, LocksParts, SleepParts, Zenon
  <2>2. SemExclusion
    BY <2>1, InsideFinite, SemTypes DEF CountInv, SemExclusion, Inside
  <2>3. NoLostWakeup
    BY <2>1, SchedAssumption, Zenon DEF WakeupComes, SemHeld, HasSem, NoLostWakeup, Free
  <2> QED
    BY <2>1, <2>2, <2>3, Zenon DEF SemInv
<1> QED
  BY <1>1, SemInvariant, PTL
=============================================================================
