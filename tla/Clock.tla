-------------------------------- MODULE Clock --------------------------------
(***************************************************************************)
(* Sleeping for a number of clock ticks: clockintr() of kernel/trap.c and  *)
(* the system calls pause and sleep of kernel/sysproc.c.  sys_pause() does *)
(* its arithmetic in uint; sys_sleep() keeps ticks0 in a uint64, to which  *)
(* the tick count, a uint, and its argument, an int, are widened.          *)
(*                                                                         *)
(* A tickslock section is one step.  killed() is never true inside a       *)
(* system call (see module Signal).                                        *)
(***************************************************************************)
EXTENDS Integers

CONSTANTS
    Caller,
    UintMod, Uint64Mod, \* 2^32 and 2^64
    Args                \* bound: the arguments that occur

VARIABLES
    ticks,
    st      \* of each process: [at, call, n, ticks0, gone]; gone is history:
            \* ticks since it called, up to UintMod

vars == <<ticks, st>>

Idle == [at |-> "idle", call |-> "pause", n |-> 0, ticks0 |-> 0, gone |-> 0]

\* Mutant: the difference is taken without wrapping around.
PauseWaits_signed(x) == ticks - x.ticks0 < x.n

\* Mutant: one tick too few.
PauseWaits_early(x) == (ticks - x.ticks0) % UintMod < x.n - 1

PauseWaits(x) == (ticks - x.ticks0) % UintMod < x.n

SleepWaits(x) == (ticks - x.ticks0) % Uint64Mod < x.n % Uint64Mod

\* The test of the loop, and sleep() or the return.
Loop(x) ==
    [x EXCEPT !.at = IF IF x.call = "pause" THEN PauseWaits(x) ELSE SleepWaits(x)
                     THEN "asleep" ELSE "returned"]

sys_pause(p, n) ==
    /\ st[p].at = "idle"
    /\ st' = [st EXCEPT ![p] = Loop([at |-> "run", call |-> "pause", n |-> IF n < 0 THEN 0 ELSE n,
                                     ticks0 |-> ticks, gone |-> 0])]
    /\ UNCHANGED ticks

sys_sleep(p, n) ==
    /\ st[p].at = "idle"
    /\ st' = [st EXCEPT ![p] = Loop([at |-> "run", call |-> "sleep", n |-> n,
                                     ticks0 |-> ticks, gone |-> 0])]
    /\ UNCHANGED ticks

\* A woken process goes round its loop.
Again(p) ==
    /\ st[p].at = "woken"
    /\ st' = [st EXCEPT ![p] = Loop(@)]
    /\ UNCHANGED ticks

Return(p) == st[p].at = "returned" /\ st' = [st EXCEPT ![p] = Idle] /\ UNCHANGED ticks

Wake(x) == IF x.at = "asleep" THEN "woken" ELSE x.at

\* Mutant: nobody is woken.
clockintr_wakeup_none(x) == x.at

clockintr_wakeup(x) == Wake(x)

\* No process stays runnable while the tick counter goes all the way round,
\* which takes thirteen years.
clockintr ==
    /\ \A p \in Caller : st[p].at = "woken" => st[p].gone < UintMod - 1
    /\ ticks' = (ticks + 1) % UintMod
    /\ st' = [p \in Caller |->
                IF st[p].at \in {"idle", "returned"} THEN st[p]
                ELSE [st[p] EXCEPT !.at = clockintr_wakeup(st[p]),
                                   !.gone = IF @ < UintMod THEN @ + 1 ELSE @]]

\* A signal makes a sleeper runnable.
kkill(p) ==
    /\ st[p].at = "asleep"
    /\ st' = [st EXCEPT ![p].at = "woken"]
    /\ UNCHANGED ticks

Init == ticks \in 0 .. UintMod - 1 /\ st = [p \in Caller |-> Idle]

Step(p) == Again(p) \/ Return(p)

Next ==
    \/ clockintr
    \/ \E p \in Caller : Step(p) \/ kkill(p) \/ \E n \in Args : sys_pause(p, n) \/ sys_sleep(p, n)

Spec == Init /\ [][Next]_vars

\* CPU 0 takes its timer interrupts whatever the processes do, and a woken
\* process runs.
Fairness == SF_vars(clockintr) /\ \A p \in Caller : WF_vars(Step(p))

-----------------------------------------------------------------------------
(* Properties. *)

(***************************************************************************)
(* A process sleeps on only as long as its own test says it must: no tick  *)
(* passes it by.                                                           *)
(***************************************************************************)
StillWaits ==
    \A p \in Caller : st[p].at = "asleep" =>
        IF st[p].call = "pause" THEN PauseWaits(st[p]) ELSE SleepWaits(st[p])

(***************************************************************************)
(* No call returns early: pause(n) and sleep(n) return after n ticks, also *)
(* when the tick counter wraps around in between.  The exception is a      *)
(* sleep() during which it does: the 64-bit difference is then enormous    *)
(* and the call returns at the wrap.                                       *)
(***************************************************************************)
NotEarly ==
    [][\A p \in Caller : st'[p].at = "returned" /\ st[p].at # "returned" =>
          st'[p].gone >= st'[p].n \/ (st[p].call = "sleep" /\ ticks < st[p].ticks0)]_vars

(***************************************************************************)
(* pause() returns, and so does sleep() of a count that is not negative.   *)
(* (sleep(-1) waits for 2^64 - 1 ticks.)                                   *)
(***************************************************************************)
SleepEnds ==
    \A p \in Caller :
        []<>(st[p].at \in {"idle", "returned"} \/ st[p].n < 0)

(***************************************************************************)
(* Sleepers on the clock wake when their count says so: no tick passes     *)
(* them by, and none returns early.                                        *)
(***************************************************************************)
WakesOnTime ==
    /\ []StillWaits
    /\ NotEarly
=============================================================================
