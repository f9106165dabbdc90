------------------------------ MODULE DiskSpec ------------------------------
(***************************************************************************)
(* What virtio_disk_rw() promises its callers: a request is applied to the *)
(* disk exactly once, at some moment between the call and the return.      *)
(***************************************************************************)
CONSTANTS Proc, Block, Val, InitVal, None

VARIABLES
    disk,       \* contents of the blocks
    data,       \* b->data of the buffer each process has locked
    req,        \* the request of each process
    phase       \* "idle", "called" or "served"

vars == <<disk, data, req, phase>>

Request == [block : Block, write : BOOLEAN]

Init ==
    /\ disk \in [Block -> Val]
    /\ data = [p \in Proc |-> InitVal]
    /\ req = [p \in Proc |-> None]
    /\ phase = [p \in Proc |-> "idle"]

\* p calls with its locked buffer: the data to write, or anything to read over.
Call(p, r, v) ==
    /\ phase[p] = "idle"
    /\ phase' = [phase EXCEPT ![p] = "called"]
    /\ req' = [req EXCEPT ![p] = r]
    /\ data' = [data EXCEPT ![p] = v]
    /\ UNCHANGED disk

Serve(p) ==
    /\ phase[p] = "called"
    /\ phase' = [phase EXCEPT ![p] = "served"]
    /\ IF req[p].write
       THEN /\ disk' = [disk EXCEPT ![req[p].block] = data[p]]
            /\ UNCHANGED data
       ELSE /\ data' = [data EXCEPT ![p] = disk[req[p].block]]
            /\ UNCHANGED disk
    /\ UNCHANGED req

\* The caller has its buffer back; what it does with it is its own affair.
Return(p) ==
    /\ phase[p] = "served"
    /\ phase' = [phase EXCEPT ![p] = "idle"]
    /\ req' = [req EXCEPT ![p] = None]
    /\ data' = [data EXCEPT ![p] = InitVal]
    /\ UNCHANGED disk

Next ==
    \E p \in Proc :
        \/ \E r \in Request, v \in Val : Call(p, r, v)
        \/ Serve(p)
        \/ Return(p)

Spec == Init /\ [][Next]_vars
=============================================================================
