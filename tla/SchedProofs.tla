---------------------------- MODULE SchedProofs ----------------------------
(***************************************************************************)
(* Proofs about the scheduler of module Sched, for any number of CPUs,     *)
(* processes, locks and sleep channels.                                    *)
(*                                                                         *)
(* OneCpuPerStack and SchedChecks are not inductive by themselves.  The    *)
(* inductive invariant SchedIInv says for each CPU with a process in       *)
(* c->proc how far the switch to or from it has come, who holds p->lock    *)
(* meanwhile and which p->state that lock protects.                        *)
(***************************************************************************)
EXTENDS Sched, FiniteSetTheorems, TLAPS

Parked == {"RUNNABLE", "SLEEPING", "ZOMBIE"}

\* c executes on the kernel stack of p.
OnStack(c, p) ==
    /\ cproc[c] = p
    /\ \/ ctx[p] = "on" /\ state[p] = "RUNNING"
       \/ ctx[p] = "back" /\ state[p] = "RUNNING" /\ lock[p] = c
       \/ ctx[p] = "sched" /\ state[p] \in Parked /\ lock[p] = c /\ noff[c] = 1

\* c has left the stack of p and its scheduler still holds p->lock.
SwitchedOut(c, p) ==
    /\ ctx[p] = "out"
    /\ state[p] \in Parked
    /\ lock[p] = c

CpuInv ==
    /\ \A c, d \in CPU : cproc[c] \in Proc /\ cproc[c] = cproc[d] => c = d
    /\ \A c \in CPU, p \in Proc : stack[c] = p => OnStack(c, p)
    /\ \A c \in CPU, p \in Proc :
          cproc[c] = p /\ stack[c] = NoProc => SwitchedOut(c, p)
    /\ \A p \in Proc : ctx[p] # "out" => \E c \in CPU : stack[c] = p

SchedIInv == SchedTypeOK /\ NoffCountsLocks /\ CpuInv

-----------------------------------------------------------------------------
(* c->noff counts the locks held by c. *)

\* The conjuncts of SchedIInv.
LEMMA SchedParts == ASSUME SchedIInv PROVE SchedTypeOK /\ NoffCountsLocks /\ CpuInv
  BY Zenon DEF SchedIInv

\* The same for the state after a step.
LEMMA SchedPartsNext == ASSUME SchedIInv' PROVE SchedTypeOK' /\ NoffCountsLocks' /\ CpuInv'
  BY Zenon DEF SchedIInv

\* SchedIInv holds after a step when its conjuncts do.
LEMMA SchedWhole == ASSUME SchedTypeOK', NoffCountsLocks', CpuInv' PROVE SchedIInv'
  BY Zenon DEF SchedIInv

\* There are finitely many spin locks.
LEMMA LockFinite == IsFiniteSet(Lock)
<1>1. IsFiniteSet(Proc)
  BY SchedAssumption, FS_Interval DEF Proc
<1> QED
  BY <1>1, SchedAssumption, FS_Union, Zenon DEF Lock

\* The locks of one CPU are finitely many.
LEMMA HeldFinite ==
    ASSUME NEW c
    PROVE  IsFiniteSet({l \in Lock : holding(c, l)})
  BY LockFinite, FS_Subset, Zenon

\* Adding a new element to a finite set.
LEMMA CardinalityAdd ==
    ASSUME NEW S, IsFiniteSet(S), NEW x, x \notin S
    PROVE  Cardinality(S \cup {x}) = Cardinality(S) + 1
  BY FS_AddElement, Zenon

\* Removing an element from a finite set.
LEMMA CardinalityRemove ==
    ASSUME NEW S, IsFiniteSet(S), NEW x, x \in S
    PROVE  Cardinality(S \ {x}) = Cardinality(S) - 1
  BY FS_RemoveElement, Zenon

\* acquire() of a free lock increments noff together with the locks held.
LEMMA AcquireCounts ==
    ASSUME SchedTypeOK, NoffCountsLocks, NEW c \in CPU, NEW l \in Lock,
           acquire(c, l)
    PROVE  NoffCountsLocks'
<1> DEFINE Held(d) == {m \in Lock : holding(d, m)}
<1>1. SUFFICES ASSUME NEW d \in CPU
               PROVE  noff'[d] = Cardinality({m \in Lock : lock'[m] = d})
  BY Zenon DEF NoffCountsLocks, holding
<1>2. CASE d = c
  <2>1. {m \in Lock : lock'[m] = d} = Held(c) \cup {l} /\ l \notin Held(c)
    BY <1>2, SchedAssumption DEF acquire, Free, holding, SchedTypeOK
  <2>2. Cardinality(Held(c) \cup {l}) = Cardinality(Held(c)) + 1
    <3>1. IsFiniteSet(Held(c))
      BY HeldFinite, Zenon
    <3> QED
      BY <2>1, <3>1, CardinalityAdd, Zenon
  <2>3. noff'[d] = noff[c] + 1
    BY <1>2, Zenon DEF acquire, push_off, SchedTypeOK
  <2> QED
    BY <2>1, <2>2, <2>3, Zenon DEF NoffCountsLocks
<1>3. CASE d # c
  <2>1. {m \in Lock : lock'[m] = d} = Held(d)
    BY <1>3, SchedAssumption, Zenon DEF acquire, Free, holding, SchedTypeOK
  <2> QED
    BY <1>3, <2>1, Zenon DEF acquire, push_off, SchedTypeOK, NoffCountsLocks
<1> QED
  BY <1>2, <1>3, Zenon

\* release() of a held lock decrements noff together with the locks held.
LEMMA ReleaseCounts ==
    ASSUME SchedTypeOK, NoffCountsLocks, NEW c \in CPU, NEW l \in Lock,
           release(c, l)
    PROVE  NoffCountsLocks'
<1> DEFINE Held(d) == {m \in Lock : holding(d, m)}
<1>1. SUFFICES ASSUME NEW d \in CPU
               PROVE  noff'[d] = Cardinality({m \in Lock : lock'[m] = d})
  BY Zenon DEF NoffCountsLocks, holding
<1>2. CASE d = c
  <2>1. {m \in Lock : lock'[m] = d} = Held(c) \ {l} /\ l \in Held(c)
    BY <1>2, SchedAssumption, Zenon DEF release, holding, SchedTypeOK
  <2>2. Cardinality(Held(c) \ {l}) = Cardinality(Held(c)) - 1
    <3>1. IsFiniteSet(Held(c))
      BY HeldFinite, Zenon
    <3> QED
      BY <2>1, <3>1, CardinalityRemove, Zenon
  <2>3. noff'[d] = noff[c] - 1
    BY <1>2, Zenon DEF release, pop_off, SchedTypeOK
  <2> QED
    BY <2>1, <2>2, <2>3, Zenon DEF NoffCountsLocks
<1>3. CASE d # c
  <2>1. {m \in Lock : lock'[m] = d} = Held(d)
    BY <1>3, SchedAssumption, Zenon DEF release, holding, SchedTypeOK
  <2> QED
    BY <1>3, <2>1, Zenon DEF release, pop_off, SchedTypeOK, NoffCountsLocks
<1> QED
  BY <1>2, <1>3, Zenon

\* A CPU whose only locks are p->lock and lk has noff = 2.
LEMMA HoldsTwo ==
    ASSUME NoffCountsLocks, NEW c \in CPU, NEW p \in Proc, NEW lk \in CondLock,
           HoldsOnly(c, p, lk)
    PROVE  noff[c] = 2
<1>1. {l \in Lock : holding(c, l)} = {p} \cup {lk} /\ lk \notin {p}
  BY SchedAssumption, Zenon DEF HoldsOnly, Lock
<1>2. Cardinality({p} \cup {lk}) = 2
  <2>1. IsFiniteSet({p}) /\ Cardinality({p}) = 1
    BY FS_Singleton, Zenon
  <2>2. Cardinality({p} \cup {lk}) = Cardinality({p}) + 1
    BY <1>1, <2>1, CardinalityAdd, Zenon
  <2> QED
    BY <2>1, <2>2
<1> QED
  BY <1>1, <1>2, Zenon DEF NoffCountsLocks

-----------------------------------------------------------------------------
(* The inductive invariant. *)

\* After boot no process is on a CPU and no lock is held.
LEMMA InitHolds == SchedInit => SchedIInv
<1> SUFFICES ASSUME SchedInit PROVE SchedIInv
  BY Zenon
<1>1. SchedTypeOK
  BY SchedAssumption DEF SchedInit, SchedTypeOK, State, Ctx, Proc
<1>2. NoffCountsLocks
  <2>1. \A c \in CPU : {l \in Lock : holding(c, l)} = {}
    BY SchedAssumption, Zenon DEF SchedInit, holding
  <2> QED
    BY <2>1, FS_EmptySet, Zenon DEF NoffCountsLocks, SchedInit
<1>3. CpuInv
  BY SchedAssumption, Zenon DEF SchedInit, CpuInv
<1> QED
  BY <1>1, <1>2, <1>3, Zenon DEF SchedIInv

\* The for loop of scheduler() keeps its index inside proc[], going round.
LEMMA NextSlotInTable ==
    ASSUME NEW c \in CPU, scan \in [CPU -> Proc], NextSlot(c)
    PROVE  scan' \in [CPU -> Proc]
  BY SchedAssumption DEF NextSlot, Proc

\* The steps of scheduler() preserve the invariant.
LEMMA SchedulerPreserves ==
    ASSUME SchedIInv, NEW c \in CPU, NEW p \in Proc,
           Dispatch(c, p) \/ Skip(c, p) \/ SwtchReturn(c, p)
    PROVE  SchedIInv'
<1>1. p \in Lock
  BY Zenon DEF Lock
<1>2. NextSlot(c) => scan' \in [CPU -> Proc]
  BY NextSlotInTable, Zenon DEF SchedIInv, SchedTypeOK
<1>3. CASE Dispatch(c, p)
  <2>1. SchedTypeOK'
    BY <1>1, <1>3 DEF Dispatch, acquire, push_off, SchedIInv, SchedTypeOK, State, Ctx
  <2>2. NoffCountsLocks'
    BY <1>1, <1>3, AcquireCounts, Zenon DEF Dispatch, SchedIInv
  <2>3. \A d \in CPU : cproc[d] # p
    \* whoever has p in c->proc holds p->lock, or p is RUNNING
    BY <1>3, SchedAssumption DEF Dispatch, acquire, Free, SchedIInv, SchedTypeOK, CpuInv,
       OnStack, SwitchedOut
  <2>4. CpuInv'
    BY <1>1, <1>3, <2>3 DEF Dispatch, acquire, Free, push_off, SchedIInv, SchedTypeOK, CpuInv,
       OnStack, SwitchedOut, Parked
  <2> QED
    BY <2>1, <2>2, <2>4, Zenon DEF SchedIInv
<1>4. CASE Skip(c, p)
  <2>1. SchedTypeOK'
    BY <1>2, <1>4, Zenon DEF Skip, procvars, SchedIInv, SchedTypeOK
  <2>2. NoffCountsLocks' /\ CpuInv'
    BY <1>4 DEF Skip, procvars, SchedIInv, NoffCountsLocks, holding, CpuInv, OnStack,
       SwitchedOut
  <2> QED
    BY <2>1, <2>2, Zenon DEF SchedIInv
<1>5. CASE SwtchReturn(c, p)
  <2>1. SchedTypeOK'
    BY <1>1, <1>2, <1>5 DEF SwtchReturn, release, pop_off, procvars, SchedIInv, SchedTypeOK
  <2>2. NoffCountsLocks'
    BY <1>1, <1>5, ReleaseCounts, Zenon DEF SwtchReturn, SchedIInv
  <2>3. CpuInv'
    BY <1>5 DEF SwtchReturn, release, pop_off, holding, procvars, SchedIInv, SchedTypeOK,
       CpuInv, OnStack, SwitchedOut
  <2> QED
    BY <2>1, <2>2, <2>3, Zenon DEF SchedIInv
<1> QED
  BY <1>3, <1>4, <1>5, Zenon

\* The two halves of a context switch preserve the invariant.
LEMMA SwitchPreserves ==
    ASSUME SchedIInv, NEW c \in CPU, NEW p \in Proc,
           SwtchToScheduler(c, p) \/ Resume(c, p)
    PROVE  SchedIInv'
<1>1. p \in Lock
  BY Zenon DEF Lock
<1>2. CASE SwtchToScheduler(c, p)
  <2>1. SchedTypeOK'
    BY <1>2, Zenon DEF SwtchToScheduler, SchedIInv, SchedTypeOK, Ctx
  <2>2. NoffCountsLocks'
    BY <1>2, Zenon DEF SwtchToScheduler, SchedIInv, NoffCountsLocks, holding
  <2>3. CpuInv'
    BY <1>2, SchedAssumption DEF SwtchToScheduler, SchedIInv, SchedTypeOK, CpuInv, OnStack,
       SwitchedOut
  <2> QED
    BY <2>1, <2>2, <2>3, Zenon DEF SchedIInv
<1>3. CASE Resume(c, p)
  <2>1. SchedTypeOK'
    BY <1>1, <1>3 DEF Resume, release, pop_off, SchedIInv, SchedTypeOK, Ctx
  <2>2. NoffCountsLocks'
    BY <1>1, <1>3, ReleaseCounts, Zenon DEF Resume, SchedIInv
  <2>3. CpuInv'
    BY <1>3 DEF Resume, release, pop_off, holding, SchedIInv, SchedTypeOK, CpuInv, OnStack,
       SwitchedOut, Parked
  <2> QED
    BY <2>1, <2>2, <2>3, Zenon DEF SchedIInv
<1> QED
  BY <1>2, <1>3, Zenon

\* acquire() and release() of a lock that is kept across steps.
LEMMA LockingPreserves ==
    ASSUME SchedIInv, NEW c \in CPU, NEW p \in Proc, Runs(c, p),
           \/ \E l \in CondLock : Acquire(c, l) \/ Release(c, l)
           \/ Acquire(c, p)
    PROVE  SchedIInv'
<1>1. CASE \E l \in Lock : Acquire(c, l)
  <2>1. PICK l \in Lock : Acquire(c, l)
    BY <1>1, Zenon
  <2>2. SchedTypeOK'
    BY <2>1 DEF Acquire, acquire, push_off, procvars, SchedIInv, SchedTypeOK
  <2>3. NoffCountsLocks'
    BY <2>1, AcquireCounts, Zenon DEF Acquire, SchedIInv
  <2>4. CpuInv'
    BY <2>1, SchedAssumption DEF Acquire, acquire, Free, push_off, Runs, procvars, SchedIInv,
       SchedTypeOK, CpuInv, OnStack, SwitchedOut
  <2> QED
    BY <2>2, <2>3, <2>4, Zenon DEF SchedIInv
<1>2. CASE \E l \in CondLock : Release(c, l)
  <2>1. PICK l \in CondLock : Release(c, l)
    BY <1>2, Zenon
  <2>2. l \in Lock /\ l \notin Proc
    BY SchedAssumption, Zenon DEF Lock
  <2>3. SchedTypeOK'
    BY <2>1, <2>2 DEF Release, release, pop_off, procvars, SchedIInv, SchedTypeOK
  <2>4. NoffCountsLocks'
    BY <2>1, <2>2, ReleaseCounts, Zenon DEF Release, SchedIInv
  <2>5. CpuInv'
    BY <2>1, <2>2 DEF Release, release, pop_off, Runs, procvars, SchedIInv, SchedTypeOK, CpuInv,
       OnStack, SwitchedOut
  <2> QED
    BY <2>3, <2>4, <2>5, Zenon DEF SchedIInv
<1> QED
  BY <1>1, <1>2, Zenon DEF Lock

\* The three ways into sched() preserve the invariant.
LEMMA EnterPreserves ==
    ASSUME SchedIInv, NEW c \in CPU, NEW p \in Proc,
           \/ noff[c] = 0 /\ yield(c, p)
           \/ \E lk \in CondLock :
                 /\ HoldsOnly(c, p, lk)
                 /\ (\E ch \in Chan : sleep(c, p, ch, lk)) \/ ExitSched(c, p, lk)
    PROVE  SchedIInv'
<1>1. p \in Lock
  BY Zenon DEF Lock
<1>2. CASE noff[c] = 0 /\ yield(c, p)
  <2>1. SchedTypeOK'
    BY <1>1, <1>2 DEF yield, EnterSched, acquire, push_off, SchedIInv, SchedTypeOK, State, Ctx
  <2>2. NoffCountsLocks'
    BY <1>1, <1>2, AcquireCounts, Zenon DEF yield, SchedIInv
  <2>3. CpuInv'
    BY <1>1, <1>2 DEF yield, EnterSched, acquire, Free, push_off, Runs, SchedIInv, SchedTypeOK,
       CpuInv, OnStack, SwitchedOut, Parked
  <2> QED
    BY <2>1, <2>2, <2>3, Zenon DEF SchedIInv
<1>3. ASSUME NEW lk \in CondLock, NEW s \in {"SLEEPING", "ZOMBIE"},
             NEW ch \in Chan \cup {NoChan},
             HoldsOnly(c, p, lk), Runs(c, p), holding(c, p), release(c, lk),
             EnterSched(p, s, ch), UNCHANGED <<cproc, stack, scan>>
      PROVE  SchedIInv'
  <2>1. lk \in Lock /\ lk # p
    BY SchedAssumption, Zenon DEF Lock
  <2>2. SchedTypeOK'
    BY <1>3, <2>1 DEF EnterSched, release, pop_off, SchedIInv, SchedTypeOK, State, Ctx
  <2>3. NoffCountsLocks'
    BY <1>3, <2>1, ReleaseCounts, Zenon DEF SchedIInv
  <2>4. noff'[c] = 1 /\ lock'[p] = c
    <3>1. noff[c] = 2
      BY <1>3, HoldsTwo, Zenon DEF SchedIInv
    <3> QED
      BY <1>3, <2>1, <3>1 DEF release, pop_off, holding, SchedIInv, SchedTypeOK
  <2>5. CpuInv'
    BY <1>3, <2>4, SchedAssumption DEF EnterSched, release, pop_off, Runs, SchedIInv,
       SchedTypeOK, CpuInv, OnStack, SwitchedOut, Parked
  <2> QED
    BY <2>2, <2>3, <2>5, Zenon DEF SchedIInv
<1>4. ASSUME NEW lk \in CondLock, HoldsOnly(c, p, lk), ExitSched(c, p, lk)
      PROVE  SchedIInv'
  <2>1. chan[p] \in Chan \cup {NoChan}
    BY Zenon DEF SchedIInv, SchedTypeOK
  <2> QED
    BY <1>3, <1>4, <2>1, Zenon DEF ExitSched
<1>5. ASSUME NEW lk \in CondLock, HoldsOnly(c, p, lk), NEW ch \in Chan, sleep(c, p, ch, lk)
      PROVE  SchedIInv'
  BY <1>3, <1>5, Zenon DEF sleep
<1> QED
  BY <1>2, <1>4, <1>5, Zenon

\* Wake-ups, fork and reaping change the state of a slot that is off CPU.
LEMMA SlotPreserves ==
    ASSUME SchedIInv, NEW q \in Proc, SlotStep(q)
    PROVE  SchedIInv'
<1>1. ASSUME NEW from \in State \ {"RUNNING", "RUNNABLE"},
             NEW to \in State \ {"RUNNING"}, SetState(q, from, to)
      PROVE  SchedIInv'
  <2>1. SchedTypeOK'
    BY <1>1, Zenon DEF SetState, cpuvars, SchedIInv, SchedTypeOK, State
  <2>2. NoffCountsLocks'
    BY <1>1, Zenon DEF SetState, cpuvars, SchedIInv, NoffCountsLocks, holding
  <2>3. CpuInv'
    BY <1>1, SchedAssumption DEF SetState, Free, cpuvars, SchedIInv, SchedTypeOK, CpuInv,
       OnStack, SwitchedOut
  <2> QED
    BY <2>1, <2>2, <2>3, Zenon DEF SchedIInv
<1>2. ASSUME UNCHANGED schedvars
      PROVE  SchedIInv'
  BY <1>2 DEF schedvars, procvars, cpuvars, SchedIInv, SchedTypeOK, NoffCountsLocks, holding,
     CpuInv, OnStack, SwitchedOut
<1>3. CASE KillSlot(q)
  BY <1>1, <1>2, <1>3, Zenon DEF KillSlot, State
<1>4. CASE AllocSlot(q) \/ StartSlot(q)
  BY <1>1, <1>4, Zenon DEF AllocSlot, StartSlot, State
<1>5. CASE FreeSlot(q)
  <2>1. SchedTypeOK'
    BY <1>5, Zenon DEF FreeSlot, cpuvars, SchedIInv, SchedTypeOK, State
  <2>2. NoffCountsLocks'
    BY <1>5, Zenon DEF FreeSlot, cpuvars, SchedIInv, NoffCountsLocks, holding
  <2>3. CpuInv'
    BY <1>5, SchedAssumption DEF FreeSlot, Free, cpuvars, SchedIInv, SchedTypeOK, CpuInv,
       OnStack, SwitchedOut
  <2> QED
    BY <2>1, <2>2, <2>3, Zenon DEF SchedIInv
<1> QED
  BY <1>3, <1>4, <1>5, Zenon DEF SlotStep

\* SchedIInv is inductive.
LEMMA SchedInductive == SchedIInv /\ [SchedNext]_schedvars => SchedIInv'
<1> SUFFICES ASSUME SchedIInv, [SchedNext]_schedvars
             PROVE  SchedIInv'
  BY Zenon
<1>1. ASSUME NEW c \in CPU, SchedulerStep(c)
      PROVE  SchedIInv'
  BY <1>1, SchedulerPreserves, Zenon DEF SchedulerStep
<1>2. ASSUME NEW c \in CPU, SwitchStep(c)
      PROVE  SchedIInv'
  BY <1>2, SwitchPreserves, Zenon DEF SwitchStep
<1>3. ASSUME NEW c \in CPU, NEW p \in Proc, ThreadStep(c, p)
      PROVE  SchedIInv'
  <2>1. CASE \E l \in CondLock : Acquire(c, l) \/ Release(c, l)
    <3>1. PICK q \in Proc : Runs(c, q)
      BY <2>1, Zenon DEF Acquire, Release
    <3> QED
      BY <2>1, <3>1, LockingPreserves, Zenon
  <2>2. CASE Runs(c, p) /\ Acquire(c, p)
    BY <2>2, LockingPreserves, Zenon
  <2>3. CASE \/ noff[c] = 0 /\ yield(c, p)
             \/ \E lk \in CondLock :
                   /\ HoldsOnly(c, p, lk)
                   /\ (\E ch \in Chan : sleep(c, p, ch, lk)) \/ ExitSched(c, p, lk)
    BY <2>3, EnterPreserves, Zenon
  <2> QED
    BY <1>3, <2>1, <2>2, <2>3, Zenon DEF ThreadStep
<1>4. ASSUME NEW q \in Proc, SlotStep(q)
      PROVE  SchedIInv'
  BY <1>4, SlotPreserves, Zenon
<1>5. CASE UNCHANGED schedvars
  BY <1>5 DEF schedvars, procvars, cpuvars, SchedIInv, SchedTypeOK, NoffCountsLocks, holding,
     CpuInv, OnStack, SwitchedOut
<1> QED
  BY <1>1, <1>2, <1>3, <1>4, <1>5, Zenon DEF SchedNext

\* Every reachable state of the scheduler satisfies the invariant.
THEOREM SchedInvariant == SchedSpec => []SchedIInv
<1> QED
  BY InitHolds, SchedInductive, PTL DEF SchedSpec

-----------------------------------------------------------------------------
(* What follows from it. *)

(***************************************************************************)
(* The types of the process table and the CPU structures.                  *)
(***************************************************************************)
THEOREM SchedTypeCorrect == SchedSpec => []SchedTypeOK
<1>1. SchedIInv => SchedTypeOK
  BY Zenon DEF SchedIInv
<1> QED
  BY <1>1, SchedInvariant, PTL

(***************************************************************************)
(* No two CPUs ever execute on the same kernel stack: the hand-over of     *)
(* p->lock through swtch() in sched() and scheduler() is sound.            *)
(***************************************************************************)
THEOREM StacksAreExclusive == SchedSpec => []OneCpuPerStack
<1>1. SchedIInv => OneCpuPerStack
  BY DEF SchedIInv, SchedTypeOK, CpuInv, OnStack, OneCpuPerStack
<1> QED
  BY <1>1, SchedInvariant, PTL

(***************************************************************************)
(* Callers that hold no lock in yield(), and exactly one in sleep() and    *)
(* kexit(), never run into the panics of sched().                          *)
(***************************************************************************)
THEOREM SchedNeverPanics == SchedSpec => []SchedChecks
<1>1. SchedIInv => SchedChecks
  BY DEF SchedIInv, CpuInv, OnStack, Parked, SchedChecks, CanSwitch, holding
<1> QED
  BY <1>1, SchedInvariant, PTL

(***************************************************************************)
(* freeproc() and allocproc() only touch slots that no CPU uses.           *)
(***************************************************************************)
THEOREM FreedSlotsAreIdle == SchedSpec => []FreedSlotIdle
<1>1. SchedIInv => FreedSlotIdle
  <2>1. SUFFICES ASSUME SchedIInv, NEW p \in Proc, state[p] \in {"UNUSED", "USED"}
                 PROVE  /\ ctx[p] = "out"
                        /\ \A c \in CPU : stack[c] # p /\ cproc[c] # p
    BY Zenon DEF FreedSlotIdle
  <2>2. \A c \in CPU : stack[c] # p
    BY <2>1, Zenon DEF SchedIInv, CpuInv, OnStack, Parked
  <2>3. \A c \in CPU : cproc[c] # p
    BY <2>1, <2>2, SchedAssumption DEF SchedIInv, SchedTypeOK, CpuInv, OnStack, SwitchedOut,
       Parked
  <2>4. ctx[p] = "out"
    BY <2>1, <2>2, Zenon DEF SchedIInv, CpuInv
  <2> QED
    BY <2>2, <2>3, <2>4, Zenon
<1> QED
  BY <1>1, SchedInvariant, PTL

(***************************************************************************)
(* c->noff is the number of spin locks that the CPU holds.                 *)
(***************************************************************************)
THEOREM NoffIsExact == SchedSpec => []NoffCountsLocks
<1>1. SchedIInv => NoffCountsLocks
  BY Zenon DEF SchedIInv
<1> QED
  BY <1>1, SchedInvariant, PTL

(***************************************************************************)
(* All that the scheduler promises its callers, taken together.            *)
(***************************************************************************)
THEOREM SchedIsSafe == SchedSpec => []SchedInv
<1>1. OneCpuPerStack /\ SchedChecks /\ FreedSlotIdle /\ NoffCountsLocks => SchedInv
  BY Zenon DEF SchedInv
<1> QED
  BY <1>1, StacksAreExclusive, SchedNeverPanics, FreedSlotsAreIdle, NoffIsExact, PTL

-----------------------------------------------------------------------------
(* What a context switch and yield() leave alone, for the modules that     *)
(* build on the scheduler.                                                 *)

\* The step concerns the slot of p only, whose lock is then held on the way
\* into or out of its kernel thread, if at all.
SlotMoves(p) ==
    /\ \A l \in Lock \ {p} : lock'[l] = lock[l]
    /\ \A q \in Proc \ {p} : ctx'[q] = ctx[q]
    /\ \A d \in CPU, q \in Proc \ {p} :
          /\ stack'[d] = q <=> stack[d] = q
          /\ stack'[d] = NoProc /\ cproc'[d] = q <=> stack[d] = NoProc /\ cproc[d] = q
    /\ \A d \in CPU : lock'[p] = d =>
          \/ stack'[d] = p /\ ctx'[p] \in {"sched", "back"}
          \/ stack'[d] = NoProc /\ cproc'[d] = p

\* Nobody falls asleep, is created or dies.
StateMoves ==
    \A q \in Proc :
        /\ state'[q] = state[q] \/ {state[q], state'[q]} = {"RUNNABLE", "RUNNING"}
        /\ state'[q] = "SLEEPING" => chan'[q] = chan[q]

\* A CPU that executes on the kernel stack of p is the only one with p.
LEMMA StackFacts ==
    ASSUME SchedIInv, NEW c \in CPU, NEW p \in Proc, stack[c] = p
    PROVE  /\ cproc[c] = p
           /\ ctx[p] # "out"
           /\ ctx[p] = "on" => state[p] = "RUNNING"
           /\ \A d \in CPU : stack[d] = p \/ cproc[d] = p => d = c
<1>1. CpuInv
  BY SchedParts, Zenon
<1>2. \A d \in CPU : stack[d] = p => OnStack(d, p)
  BY <1>1, Zenon DEF CpuInv
<1>3. \A d \in CPU : cproc[d] = p /\ cproc[c] = p => d = c
  BY <1>1, Zenon DEF CpuInv
<1> QED
  BY <1>2, <1>3, Zenon DEF OnStack

\* The iteration of scheduler() that dispatches p.
LEMMA DispatchMoves ==
    ASSUME SchedIInv, NEW c \in CPU, NEW p \in Proc, Dispatch(c, p)
    PROVE  ctx[p] # "on" /\ SlotMoves(p) /\ StateMoves
<1>1. SchedTypeOK /\ CpuInv
  BY SchedParts, Zenon
<1>2. /\ stack[c] = NoProc /\ cproc[c] = NoProc /\ state[p] = "RUNNABLE" /\ lock[p] = NoCPU
      /\ lock' = [lock EXCEPT ![p] = c]
      /\ state' = [state EXCEPT ![p] = "RUNNING"]
      /\ cproc' = [cproc EXCEPT ![c] = p]
      /\ stack' = [stack EXCEPT ![c] = p]
      /\ ctx' = [ctx EXCEPT ![p] = "back"]
      /\ chan' = chan
  BY Zenon DEF Dispatch, acquire, Free
<1>3. ctx[p] # "on"
  BY <1>1, <1>2, StackFacts, Zenon DEF CpuInv
<1>4. StateMoves
  BY <1>2 DEF SchedTypeOK, StateMoves
<1>5. p \in Lock
  BY Zenon DEF Lock
<1>6. SlotMoves(p)
  BY <1>1, <1>2, <1>5, SchedAssumption, Zenon DEF SchedTypeOK, SlotMoves
<1> QED
  BY <1>3, <1>4, <1>6, Zenon

\* The iteration of scheduler() that skips a slot.
LEMMA SkipMoves ==
    ASSUME NEW c \in CPU, NEW p \in Proc, Skip(c, p)
    PROVE  UNCHANGED <<state, chan, ctx, lock, cproc, stack>>
  BY Zenon DEF Skip, procvars

\* The rest of an iteration, after swtch().
LEMMA ReturnMoves ==
    ASSUME SchedIInv, NEW c \in CPU, NEW p \in Proc, SwtchReturn(c, p)
    PROVE  ctx[p] # "on" /\ SlotMoves(p) /\ StateMoves
<1>1. SchedTypeOK /\ CpuInv
  BY SchedParts, Zenon
<1>2. /\ stack[c] = NoProc /\ cproc[c] = p /\ lock[p] = c
      /\ lock' = [lock EXCEPT ![p] = NoCPU]
      /\ cproc' = [cproc EXCEPT ![c] = NoProc]
      /\ state' = state /\ chan' = chan /\ ctx' = ctx /\ stack' = stack
  BY Zenon DEF SwtchReturn, release, holding, procvars
<1>3. ctx[p] # "on"
  BY <1>1, <1>2, Zenon DEF CpuInv, SwitchedOut
<1>4. StateMoves
  BY <1>2, Zenon DEF StateMoves
<1>5. p \in Lock
  BY Zenon DEF Lock
<1>6. SlotMoves(p)
  BY <1>1, <1>2, <1>5, SchedAssumption, Zenon DEF SchedTypeOK, SlotMoves
<1> QED
  BY <1>3, <1>4, <1>6, Zenon

\* swtch() to the scheduler.
LEMMA LeaveMoves ==
    ASSUME SchedIInv, NEW c \in CPU, NEW p \in Proc, SwtchToScheduler(c, p)
    PROVE  ctx[p] # "on" /\ SlotMoves(p) /\ StateMoves
<1>1. SchedTypeOK /\ CpuInv
  BY SchedParts, Zenon
<1>2. /\ stack[c] = p /\ ctx[p] = "sched" /\ lock[p] = c
      /\ ctx' = [ctx EXCEPT ![p] = "out"]
      /\ stack' = [stack EXCEPT ![c] = NoProc]
      /\ state' = state /\ chan' = chan /\ lock' = lock /\ cproc' = cproc
  BY Zenon DEF SwtchToScheduler, CanSwitch, holding
<1>3. cproc[c] = p
  BY <1>2, StackFacts, Zenon
<1>4. StateMoves
  BY <1>2, Zenon DEF StateMoves
<1>5. SlotMoves(p)
  BY <1>1, <1>2, <1>3, SchedAssumption, Zenon DEF SchedTypeOK, SlotMoves
<1> QED
  BY <1>2, <1>4, <1>5, Zenon

\* The end of sched()'s callers.
LEMMA ResumeMoves ==
    ASSUME SchedIInv, NEW c \in CPU, NEW p \in Proc, Resume(c, p)
    PROVE  ctx[p] # "on" /\ SlotMoves(p) /\ StateMoves
<1>1. SchedTypeOK /\ CpuInv
  BY SchedParts, Zenon
<1>2. /\ stack[c] = p /\ ctx[p] = "back"
      /\ lock' = [lock EXCEPT ![p] = NoCPU]
      /\ ctx' = [ctx EXCEPT ![p] = "on"]
      /\ chan' = [chan EXCEPT ![p] = NoChan]
      /\ state' = state /\ cproc' = cproc /\ stack' = stack
  BY Zenon DEF Resume, release
<1>3. state[p] = "RUNNING"
  BY <1>1, <1>2 DEF CpuInv, OnStack
<1>4. StateMoves
  BY <1>2, <1>3 DEF SchedTypeOK, StateMoves
<1>5. p \in Lock
  BY Zenon DEF Lock
<1>6. SlotMoves(p)
  BY <1>1, <1>2, <1>5, SchedAssumption, Zenon DEF SchedTypeOK, SlotMoves
<1> QED
  BY <1>2, <1>4, <1>6, Zenon

\* A step of scheduler() or of a switch concerns one slot, or nothing.
LEMMA MachineMoves ==
    ASSUME SchedIInv, NEW c \in CPU, SchedulerStep(c) \/ SwitchStep(c)
    PROVE  \/ UNCHANGED <<state, chan, ctx, lock, cproc, stack>>
           \/ \E p \in Proc : ctx[p] # "on" /\ SlotMoves(p) /\ StateMoves
<1>1. PICK p \in Proc : \/ Dispatch(c, p) \/ Skip(c, p) \/ SwtchReturn(c, p)
                        \/ SwtchToScheduler(c, p) \/ Resume(c, p)
  BY Zenon DEF SchedulerStep, SwitchStep
<1> QED
  BY <1>1, DispatchMoves, SkipMoves, ReturnMoves, LeaveMoves, ResumeMoves, Zenon

\* yield() concerns the slot of its caller.
LEMMA YieldMoves ==
    ASSUME SchedIInv, NEW c \in CPU, NEW p \in Proc, yield(c, p)
    PROVE  SlotMoves(p) /\ StateMoves
<1>1. SchedTypeOK /\ CpuInv
  BY SchedParts, Zenon
<1>2. /\ stack[c] = p /\ ctx[p] = "on"
      /\ lock' = [lock EXCEPT ![p] = c]
      /\ state' = [state EXCEPT ![p] = "RUNNABLE"]
      /\ chan' = [chan EXCEPT ![p] = chan[p]]
      /\ ctx' = [ctx EXCEPT ![p] = "sched"]
      /\ cproc' = cproc /\ stack' = stack
  BY Zenon DEF yield, Runs, acquire, EnterSched
<1>3. state[p] = "RUNNING"
  BY <1>2, StackFacts, Zenon
<1>4. StateMoves
  BY <1>2, <1>3 DEF SchedTypeOK, StateMoves
<1>5. p \in Lock
  BY Zenon DEF Lock
<1>6. SlotMoves(p)
  BY <1>1, <1>2, <1>5, Zenon DEF SchedTypeOK, SlotMoves
<1> QED
  BY <1>4, <1>6, Zenon
=============================================================================
