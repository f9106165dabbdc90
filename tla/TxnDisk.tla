------------------------------ MODULE TxnDisk ------------------------------
(***************************************************************************)
(* What kernel/log.c promises to the file system: a disk on which several  *)
(* system calls write inside transactions, whose writes become durable all *)
(* together, only while no call is active, and which a crash takes back to *)
(* the last durable state.                                                 *)
(***************************************************************************)
CONSTANTS Block, Val, Op, InitVal

VARIABLES
    durable,    \* contents a restart would find
    current,    \* contents the running system reads
    active      \* calls between begin_op() and end_op()

vars == <<durable, current, active>>

Init ==
    /\ durable = [b \in Block |-> InitVal]
    /\ current = durable
    /\ active = {}

Begin(p) ==
    /\ p \notin active
    /\ active' = active \cup {p}
    /\ UNCHANGED <<durable, current>>

Write(p, b, v) ==
    /\ p \in active
    /\ current' = [current EXCEPT ![b] = v]
    /\ UNCHANGED <<durable, active>>

End(p) ==
    /\ p \in active
    /\ active' = active \ {p}
    /\ UNCHANGED <<durable, current>>

Commit ==
    /\ active = {}
    /\ durable' = current
    /\ UNCHANGED <<current, active>>

Crash ==
    /\ current' = durable
    /\ active' = {}
    /\ UNCHANGED durable

Next ==
    \/ \E p \in Op : Begin(p) \/ End(p)
    \/ \E p \in Op, b \in Block, v \in Val : Write(p, b, v)
    \/ Commit
    \/ Crash

Spec == Init /\ [][Next]_vars
=============================================================================
