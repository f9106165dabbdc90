----------------------------- MODULE VirtioDisk -----------------------------
(***************************************************************************)
(* The disk driver of kernel/virtio_disk.c with the device it talks to:    *)
(* descriptor chains, the available and the used ring, and the interrupt.  *)
(*                                                                         *)
(* Every section between acquire(&disk.vdisk_lock) and the release or the  *)
(* sleep that ends it is one step, except the interrupt handler: the       *)
(* device does not take the lock and runs between the handler's            *)
(* acknowledgement and each test of its loop.  A process uses its own      *)
(* buffer, since the caller holds the buffer's sleep lock, and no two      *)
(* requests in flight are for one block (module Bcache).  Ring slots,      *)
(* request headers and buffers are forgotten once they have been consumed: *)
(* nothing reads them before they are written again.                       *)
(* Ring indices are 16 bits wide in the code; here they wrap at IdxMod.    *)
(***************************************************************************)
EXTENDS Integers, FiniteSets

CONSTANTS Proc, Val, InitVal,
    NUM,        \* descriptors
    IdxMod,     \* stands for 2^16
    Modes,      \* bound: whether each process reads, writes or both
    None

\* 2^16 is a multiple of NUM, a power of two.
ConstantsOK ==
    /\ NUM \in Nat \ {0} /\ IdxMod \in Nat \ {0} /\ IdxMod % NUM = 0
    /\ InitVal \in Val

\* Bound: a process always uses the same block, and every request changes
\* the block or the buffer.
Sector == Proc

Desc == 0 .. NUM - 1

VARIABLES
    free,               \* disk.free[]
    desc,               \* disk.desc[]: what addr points to, flags and next
    info, status,       \* disk.info[].b and .status
    ops,                \* disk.ops[]: the request headers
    avail, availIdx,    \* disk.avail
    used, usedIdx,      \* disk.used, written by the device
    used_idx,           \* the driver's position in the used ring
    bdisk, data,        \* b->disk and b->data of each process's buffer
    pc,                 \* where a process is in virtio_disk_rw()
    req, idx,           \* its arguments, and its idx[0]
    intr,               \* the device's INTERRUPT_STATUS
    handler,            \* is a CPU in virtio_disk_intr(), holding vdisk_lock
    devIdx, inDev,      \* the device: chains seen, chains in work
    disk                \* the contents of the medium

driver == <<free, desc, info, ops, avail, availIdx, pc, req, idx>>
device == <<devIdx, inDev, disk>>
vars == <<driver, device, status, used, usedIdx, used_idx, bdisk, data, intr, handler>>

Request == [block : Sector, write : BOOLEAN]

Empty == [to |-> None, write |-> FALSE, next |-> None]

\* Mutant: indices that do not wrap.
NextIdxWide(i) == i + 1

NextIdx(i) == (i + 1) % IdxMod

\* Types; ring entries name descriptors and indices wrap around.
VirtioTypeOK ==
    /\ free \in [Desc -> BOOLEAN]
    /\ \A i \in Desc : desc[i].next \in Desc \cup {None}
    /\ info \in [Desc -> Proc \cup {None}]
    /\ status \in [Desc -> {0, 255}]
    /\ avail \in [Desc -> Desc \cup {None}] /\ used \in [Desc -> Desc \cup {None}]
    /\ {availIdx, usedIdx, used_idx, devIdx} \subseteq 0 .. IdxMod - 1
    /\ bdisk \in [Proc -> {0, 1}] /\ data \in [Proc -> Val]
    /\ pc \in [Proc -> {"idle", "alloc", "nodesc", "wait", "asleep", "free"}]
    /\ disk \in [Sector -> Val]

\* After virtio_disk_init().
Init ==
    /\ free = [i \in Desc |-> TRUE]
    /\ desc = [i \in Desc |-> Empty]
    /\ info = [i \in Desc |-> None] /\ status = [i \in Desc |-> 0]
    /\ ops = [i \in Desc |-> None]
    /\ avail = [i \in Desc |-> None] /\ used = [i \in Desc |-> None]
    /\ availIdx = 0 /\ usedIdx = 0 /\ used_idx = 0 /\ devIdx = 0
    /\ bdisk = [p \in Proc |-> 0] /\ data = [p \in Proc |-> InitVal]
    /\ pc = [p \in Proc |-> "idle"]
    /\ req = [p \in Proc |-> None]
    /\ idx = [p \in Proc |-> None]
    /\ intr = FALSE /\ handler = FALSE /\ inDev = {}
    /\ disk = [b \in Sector |-> InitVal]

-----------------------------------------------------------------------------
(* The processes. *)

Call(p, r, v) ==
    /\ pc[p] = "idle"
    /\ r.block = p /\ r.write \in Modes[p]
    /\ v # disk[p]
    /\ pc' = [pc EXCEPT ![p] = "alloc"]
    /\ req' = [req EXCEPT ![p] = r]
    /\ data' = [data EXCEPT ![p] = v]
    /\ UNCHANGED <<free, desc, info, ops, avail, availIdx, idx, device, status,
                   used, usedIdx, used_idx, bdisk, intr, handler>>

Free == {i \in Desc : free[i]}

\* Mutant: the second descriptor is looked for from the start again.
alloc_desc_first(S) == CHOOSE i \in Free : \A j \in Free : i <= j

alloc_desc(S) == CHOOSE i \in S : \A j \in S : i <= j

\* Mutant: free_desc() wakes nobody.
WakeAllocators_none(ps) == pc

\* wakeup(&disk.free[0]).
WakeAllocators(ps) ==
    [q \in Proc |-> IF q \in ps /\ pc[q] = "nodesc" THEN "alloc" ELSE pc[q]]

\* No three descriptors: those taken are freed, which wakes the other
\* sleepers, and the process sleeps.
AllocFails(p) ==
    /\ pc[p] = "alloc" /\ ~handler
    /\ Cardinality(Free) < 3
    /\ pc' = [WakeAllocators(IF Free = {} THEN {} ELSE Proc) EXCEPT ![p] = "nodesc"]
    /\ UNCHANGED <<free, desc, info, ops, avail, availIdx, req, idx, device, status,
                   used, usedIdx, used_idx, bdisk, data, intr, handler>>

\* The chain is filled in and its head put into the available ring.
Submit(p) ==
    /\ pc[p] = "alloc" /\ ~handler
    /\ Cardinality(Free) >= 3
    /\ LET i == alloc_desc(Free)
           j == alloc_desc(Free \ {i})
           k == alloc_desc(Free \ {i, j}) IN
       /\ free' = [free EXCEPT ![i] = FALSE, ![j] = FALSE, ![k] = FALSE]
       /\ ops' = [ops EXCEPT ![i] = req[p]]
       /\ desc' = [desc EXCEPT
             ![i] = [to |-> <<"ops", i>>, write |-> FALSE, next |-> j],
             ![j] = [to |-> <<"data", p>>, write |-> ~req[p].write, next |-> k],
             ![k] = [to |-> <<"status", i>>, write |-> TRUE, next |-> None]]
       /\ status' = [status EXCEPT ![i] = 255]
       /\ info' = [info EXCEPT ![i] = p]
       /\ avail' = [avail EXCEPT ![availIdx % NUM] = i]
       /\ idx' = [idx EXCEPT ![p] = i]
    /\ bdisk' = [bdisk EXCEPT ![p] = 1]
    /\ availIdx' = NextIdx(availIdx)
    /\ pc' = [pc EXCEPT ![p] = "wait"]
    /\ UNCHANGED <<req, device, used, usedIdx, used_idx, data, intr, handler>>

\* Mutant: any wake-up is taken for the completion.
WaitDoneOnce(p) ==
    /\ pc[p] = "wait" /\ ~handler
    /\ pc' = [pc EXCEPT ![p] = "free"]
    /\ UNCHANGED <<free, desc, info, ops, avail, availIdx, req, idx, device, status,
                   used, usedIdx, used_idx, bdisk, data, intr, handler>>

\* The loop on b->disk; a woken process tests it again.
WaitDone(p) ==
    /\ pc[p] = "wait" /\ ~handler
    /\ pc' = [pc EXCEPT ![p] = IF bdisk[p] = 1 THEN "asleep" ELSE "free"]
    /\ UNCHANGED <<free, desc, info, ops, avail, availIdx, req, idx, device, status,
                   used, usedIdx, used_idx, bdisk, data, intr, handler>>

Chain(i) ==
    LET j == desc[i].next IN
    {i} \cup (IF j = None THEN {} ELSE {j, desc[j].next} \ {None})

\* info[].b = 0, free_chain() with its wake-ups, and the return.
free_chain(p) ==
    /\ pc[p] = "free" /\ ~handler
    /\ info' = [info EXCEPT ![idx[p]] = None]
    /\ Chain(idx[p]) \cap Free = {}                     \* else panic
    /\ free' = [i \in Desc |-> free[i] \/ i \in Chain(idx[p])]
    /\ desc' = [i \in Desc |-> IF i \in Chain(idx[p]) THEN Empty ELSE desc[i]]
    /\ pc' = [WakeAllocators(Proc) EXCEPT ![p] = "idle"]
    /\ idx' = [idx EXCEPT ![p] = None]
    /\ ops' = [ops EXCEPT ![idx[p]] = None]
    /\ req' = [req EXCEPT ![p] = None] /\ data' = [data EXCEPT ![p] = InitVal]
    /\ UNCHANGED <<avail, availIdx, device, status, used, usedIdx, used_idx, bdisk,
                   intr, handler>>

-----------------------------------------------------------------------------
(* The interrupt handler. *)

IntrAck ==
    /\ intr
    /\ ~handler
    /\ handler' = TRUE
    /\ intr' = FALSE
    /\ UNCHANGED <<driver, device, status, used, usedIdx, used_idx, bdisk, data>>

\* Mutant: one completion per interrupt.
virtio_disk_intr_once ==
    /\ handler
    /\ used_idx # usedIdx
    /\ LET id == used[used_idx % NUM] b == info[id] IN
       /\ status[id] = 0
       /\ bdisk' = [bdisk EXCEPT ![b] = 0]
       /\ pc' = [pc EXCEPT ![b] = IF @ = "asleep" THEN "wait" ELSE @]
    /\ used' = [used EXCEPT ![used_idx % NUM] = None]
    /\ used_idx' = NextIdx(used_idx)
    /\ handler' = FALSE
    /\ UNCHANGED <<free, desc, info, ops, avail, availIdx, req, idx, device, status,
                   usedIdx, data, intr>>

\* One iteration of the handler's loop.
virtio_disk_intr ==
    /\ handler
    /\ used_idx # usedIdx
    /\ LET id == used[used_idx % NUM] b == info[id] IN
       /\ status[id] = 0                                \* else panic
       /\ bdisk' = [bdisk EXCEPT ![b] = 0]
       /\ pc' = [pc EXCEPT ![b] = IF @ = "asleep" THEN "wait" ELSE @]
    /\ used' = [used EXCEPT ![used_idx % NUM] = None]
    /\ used_idx' = NextIdx(used_idx)
    /\ UNCHANGED <<free, desc, info, ops, avail, availIdx, req, idx, device, status,
                   usedIdx, data, intr, handler>>

IntrReturn ==
    /\ handler
    /\ used_idx = usedIdx
    /\ handler' = FALSE
    /\ UNCHANGED <<driver, device, status, used, usedIdx, used_idx, bdisk, data, intr>>

-----------------------------------------------------------------------------
(* The device: it fetches chains in order and may finish them in any order. *)

DeviceFetch ==
    /\ devIdx # availIdx
    /\ inDev' = inDev \cup {avail[devIdx % NUM]}
    /\ avail' = [avail EXCEPT ![devIdx % NUM] = None]
    /\ devIdx' = NextIdx(devIdx)
    /\ UNCHANGED <<free, desc, info, ops, availIdx, pc, req, idx, disk, status,
                   used, usedIdx, used_idx, bdisk, data, intr, handler>>

DeviceDone(h) ==
    /\ h \in inDev
    /\ LET d == desc[desc[h].next]
           r == ops[desc[h].to[2]]
           s == desc[d.next] IN
       /\ IF r.write
          THEN /\ disk' = [disk EXCEPT ![r.block] = data[d.to[2]]]
               /\ UNCHANGED data
          ELSE /\ d.write
               /\ data' = [data EXCEPT ![d.to[2]] = disk[r.block]]
               /\ UNCHANGED disk
       /\ status' = [status EXCEPT ![s.to[2]] = 0]
    /\ used' = [used EXCEPT ![usedIdx % NUM] = h]
    /\ usedIdx' = NextIdx(usedIdx)
    /\ intr' = TRUE
    /\ inDev' = inDev \ {h}
    /\ UNCHANGED <<driver, devIdx, used_idx, bdisk, handler>>

Process(p) ==
    \/ AllocFails(p)
    \/ Submit(p)
    \/ WaitDone(p)
    \/ free_chain(p)

Handler == IntrAck \/ virtio_disk_intr \/ IntrReturn

Device == DeviceFetch \/ \E h \in Desc : DeviceDone(h)

Next ==
    \/ \E p \in Proc, r \in Request, v \in Val : Call(p, r, v)
    \/ \E p \in Proc : Process(p)
    \/ Handler
    \/ Device

\* Processes are scheduled, interrupts are taken, the device works.
Fairness ==
    /\ \A p \in Proc : WF_vars(Process(p))
    /\ WF_vars(Handler)
    /\ WF_vars(Device)

Spec == Init /\ [][Next]_vars /\ Fairness

-----------------------------------------------------------------------------
(* Properties. *)

InFlight == {p \in Proc : pc[p] \in {"wait", "asleep", "free"}}

(***************************************************************************)
(* Descriptors: those not free are the chains of the requests in flight,   *)
(* three for each and no two alike, so that neither panic of free_desc()   *)
(* is met and the device never follows a descriptor that was reused; and   *)
(* the driver finds status 0 and a buffer behind every completion.         *)
(***************************************************************************)
ChainsDisjoint ==
    /\ \A p \in InFlight : Cardinality(Chain(idx[p])) = 3 /\ info[idx[p]] = p
    /\ \A p, q \in InFlight : p # q => Chain(idx[p]) \cap Chain(idx[q]) = {}
    /\ Desc \ Free = UNION {Chain(idx[p]) : p \in InFlight}
    /\ used_idx # usedIdx =>
          LET id == used[used_idx % NUM] IN
          id \in Desc /\ status[id] = 0 /\ info[id] \in InFlight

(***************************************************************************)
(* No lost wake-up: a process asleep on &disk.free[0] cannot have its      *)
(* three descriptors, one asleep on its buffer has its request still with  *)
(* the device or in the used ring, and entries of the used ring that the   *)
(* handler has not seen have an interrupt pending or a handler running,    *)
(* although the handler acknowledges the interrupt before it reads them.   *)
(***************************************************************************)
DiskSleepersMustWait ==
    /\ (\E p \in Proc : pc[p] = "nodesc") => Cardinality(Free) < 3
    /\ \A p \in Proc : pc[p] = "asleep" => bdisk[p] = 1
    /\ used_idx # usedIdx => intr \/ handler

Served(p) == pc[p] = "free" \/ (pc[p] \in {"wait", "asleep"} /\ status[idx[p]] = 0)

DS == INSTANCE DiskSpec WITH
        Block <- Sector,
        phase <- [p \in Proc |-> IF pc[p] = "idle" THEN "idle"
                                 ELSE IF Served(p) THEN "served" ELSE "called"]

(***************************************************************************)
(* The driver and the device serve every request exactly once between its  *)
(* call and its return, whatever the order of completions and however the  *)
(* ring indices wrap around.                                               *)
(***************************************************************************)
ServesDisk == DS!Spec

(***************************************************************************)
(* Requests finish: once the processes stop making new ones, each that is  *)
(* waiting for descriptors or for its completion returns.                  *)
(***************************************************************************)
DiskReturns ==
    <>[][\A p \in Proc : pc[p] = "idle" => pc'[p] = "idle"]_vars
      => \A p \in Proc : []<>(pc[p] = "idle")

(***************************************************************************)
(* The driver is sound: rings stay in range, requests share no descriptor, *)
(* and who sleeps in virtio_disk_rw() has something to wait for.           *)
(***************************************************************************)
VirtioInv ==
    /\ VirtioTypeOK
    /\ ChainsDisjoint
    /\ DiskSleepersMustWait
=============================================================================
