-------------------------------- MODULE Log --------------------------------
(***************************************************************************)
(* The write-ahead log of kernel/log.c with the part of the buffer cache   *)
(* (kernel/bio.c) it relies on: begin_op, log_write, end_op, commit and    *)
(* recovery, with a crash possible between any two disk writes and in the  *)
(* middle of one.                                                          *)
(*                                                                         *)
(* Abstractions.  A block's contents are one value.  A disk write is       *)
(* synchronous (virtio_disk_rw waits for its completion).  The log header  *)
(* occupies the first bytes of one sector, so its write is atomic; a data  *)
(* block spans two sectors, so a crash can leave it torn.  bread, the      *)
(* change of the data, log_write and brelse form one step: the buffer's    *)
(* sleep lock covers them.  sleep and wakeup are atomic here; module Sem   *)
(* checks them in detail.                                                  *)
(***************************************************************************)
EXTENDS Integers, Sequences, FiniteSets

CONSTANTS
    Block,          \* home blocks
    Val, InitVal,   \* contents
    Torn,           \* contents of a half-written block
    NotCached,
    Op,             \* processes making file system calls
    MAXOPBLOCKS, LOGBLOCKS

ASSUME LogAssumption ==
    /\ InitVal \in Val
    /\ Torn \notin Val /\ NotCached \notin Val /\ NotCached # Torn
    /\ IsFiniteSet(Op)
    /\ MAXOPBLOCKS \in Nat \ {0} /\ LOGBLOCKS \in Nat
    /\ MAXOPBLOCKS <= LOGBLOCKS

VARIABLES
    disk,           \* home locations
    logd,           \* the log's data blocks
    head,           \* the on-disk header: block numbers, n = Len(head)
    cache,          \* b->data of the buffers in the cache
    pin,            \* references taken by bpin()
    lh,             \* log.lh in memory
    outstanding, committing,
    op,             \* where each process is in its call
    wrote,          \* blocks its call has written
    pc, tail        \* progress of commit() or recover_from_log()

diskvars == <<disk, logd, head>>
memvars == <<cache, pin, lh, outstanding, committing>>
vars == <<diskvars, memvars, op, wrote, pc, tail>>

\* "normal": nobody commits; "write_log" .. "clear": commit();
\* "read_head" .. "rclear": recover_from_log() at boot.
PC == {"normal", "write_log", "write_head", "install", "clear", "done",
       "read_head", "rinstall", "rclear"}

Recovering == pc \in {"read_head", "rinstall", "rclear"}

\* Types; the log never holds more blocks than it has room for.
TypeOK ==
    /\ disk \in [Block -> Val \cup {Torn}]
    /\ logd \in [1 .. LOGBLOCKS -> Val \cup {Torn}]
    /\ head \in Seq(Block) /\ Len(head) <= LOGBLOCKS
    /\ cache \in [Block -> Val \cup {Torn, NotCached}]
    /\ pin \in [Block -> Nat]
    /\ lh \in Seq(Block) /\ Len(lh) <= LOGBLOCKS
    /\ outstanding \in Nat
    /\ committing \in BOOLEAN
    /\ op \in [Op -> {"idle", "begin", "asleep", "run", "commit"}]
    /\ wrote \in [Op -> SUBSET Block]
    /\ pc \in PC
    /\ tail \in 0 .. LOGBLOCKS

\* A freshly made file system that has booted.
Init ==
    /\ disk = [b \in Block |-> InitVal]
    /\ logd = [k \in 1 .. LOGBLOCKS |-> InitVal]
    /\ head = << >>
    /\ cache = [b \in Block |-> NotCached]
    /\ pin = [b \in Block |-> 0]
    /\ lh = << >>
    /\ outstanding = 0
    /\ committing = FALSE
    /\ op = [p \in Op |-> "idle"]
    /\ wrote = [p \in Op |-> {}]
    /\ pc = "normal"
    /\ tail = 0

-----------------------------------------------------------------------------
(* The buffer cache. *)

\* What bread() returns.
Data(b) == IF cache[b] = NotCached THEN disk[b] ELSE cache[b]

\* A reader brings a block in.
bread(b) ==
    /\ ~Recovering
    /\ cache[b] = NotCached
    /\ cache' = [cache EXCEPT ![b] = disk[b]]
    /\ UNCHANGED <<diskvars, pin, lh, outstanding, committing, op, wrote, pc, tail>>

\* bget() recycles a buffer that nobody refers to.
Recycle(b) ==
    /\ cache[b] # NotCached
    /\ pin[b] = 0
    /\ cache' = [cache EXCEPT ![b] = NotCached]
    /\ UNCHANGED <<diskvars, pin, lh, outstanding, committing, op, wrote, pc, tail>>

-----------------------------------------------------------------------------
(* Transactions. *)

Woken == [p \in Op |-> IF op[p] = "asleep" THEN "begin" ELSE op[p]]

Call(p) ==
    /\ op[p] = "idle"
    /\ ~Recovering
    /\ op' = [op EXCEPT ![p] = "begin"]
    /\ UNCHANGED <<diskvars, memvars, wrote, pc, tail>>

\* Mutant: the space of the call that asks is not counted.
MustWaitLess == committing \/ Len(lh) + outstanding * MAXOPBLOCKS > LOGBLOCKS

\* One round of begin_op()'s loop.
MustWait == committing \/ Len(lh) + (outstanding + 1) * MAXOPBLOCKS > LOGBLOCKS

begin_op(p) ==
    /\ op[p] = "begin"
    /\ \/ /\ MustWait
          /\ op' = [op EXCEPT ![p] = "asleep"]
          /\ UNCHANGED outstanding
       \/ /\ ~MustWait
          /\ outstanding' = outstanding + 1
          /\ op' = [op EXCEPT ![p] = "run"]
    /\ UNCHANGED <<diskvars, cache, pin, lh, committing, wrote, pc, tail>>

\* kkill() wakes a process that sleeps in begin_op().
kkill(p) ==
    /\ op[p] = "asleep"
    /\ op' = [op EXCEPT ![p] = "begin"]
    /\ UNCHANGED <<diskvars, memvars, wrote, pc, tail>>

\* Mutant: log_write() without bpin().
log_write_unpinned(p, b, v) ==
    /\ op[p] = "run"
    /\ b \in wrote[p] \/ Cardinality(wrote[p]) < MAXOPBLOCKS
    /\ Len(lh) < LOGBLOCKS
    /\ cache' = [cache EXCEPT ![b] = v]
    /\ wrote' = [wrote EXCEPT ![p] = @ \cup {b}]
    /\ lh' = IF \E k \in 1 .. Len(lh) : lh[k] = b THEN lh ELSE Append(lh, b)
    /\ UNCHANGED <<diskvars, pin, outstanding, committing, op, pc, tail>>

\* log_write() after a change of block b; it panics when the log is full.
log_write(p, b, v) ==
    /\ op[p] = "run"
    /\ b \in wrote[p] \/ Cardinality(wrote[p]) < MAXOPBLOCKS
    /\ Len(lh) < LOGBLOCKS
    /\ outstanding >= 1
    /\ cache' = [cache EXCEPT ![b] = v]
    /\ wrote' = [wrote EXCEPT ![p] = @ \cup {b}]
    /\ IF \E k \in 1 .. Len(lh) : lh[k] = b     \* log absorption
       THEN UNCHANGED <<lh, pin>>
       ELSE /\ lh' = Append(lh, b)
            /\ pin' = [pin EXCEPT ![b] = @ + 1]
    /\ UNCHANGED <<diskvars, outstanding, committing, op, pc, tail>>

end_op(p) ==
    /\ op[p] = "run"
    /\ ~committing
    /\ outstanding' = outstanding - 1
    /\ wrote' = [wrote EXCEPT ![p] = {}]
    /\ \/ /\ outstanding = 1
          /\ committing' = TRUE
          /\ op' = [op EXCEPT ![p] = "commit"]
          /\ pc' = IF Len(lh) > 0 THEN "write_log" ELSE "done"
          /\ tail' = 0
       \/ /\ outstanding # 1
          /\ op' = [Woken EXCEPT ![p] = "idle"]
          /\ UNCHANGED <<committing, pc, tail>>
    /\ UNCHANGED <<diskvars, cache, pin, lh>>

-----------------------------------------------------------------------------
(* commit(), run by the last end_op(), one disk write per step. *)

\* Mutant: the transaction is installed before the header is written.
write_log_uncommitted ==
    /\ pc = "write_log"
    /\ \/ /\ tail < Len(lh)
          /\ logd' = [logd EXCEPT ![tail + 1] = Data(lh[tail + 1])]
          /\ tail' = tail + 1
          /\ UNCHANGED pc
       \/ /\ tail = Len(lh)
          /\ pc' = "install"
          /\ tail' = 0
          /\ UNCHANGED logd
    /\ UNCHANGED <<disk, head, memvars, op, wrote>>

write_log ==
    /\ pc = "write_log"
    /\ \/ /\ tail < Len(lh)
          /\ logd' = [logd EXCEPT ![tail + 1] = Data(lh[tail + 1])]
          /\ tail' = tail + 1
          /\ UNCHANGED pc
       \/ /\ tail = Len(lh)
          /\ pc' = "write_head"
          /\ UNCHANGED <<logd, tail>>
    /\ UNCHANGED <<disk, head, memvars, op, wrote>>

\* The real commit.
write_head ==
    /\ pc = "write_head"
    /\ head' = lh
    /\ pc' = "install"
    /\ tail' = 0
    /\ UNCHANGED <<disk, logd, memvars, op, wrote>>

\* One iteration of install_trans(): the home block and its buffer.
InstallBlock ==
    /\ tail < Len(lh)
    /\ disk' = [disk EXCEPT ![lh[tail + 1]] = logd[tail + 1]]
    /\ cache' = [cache EXCEPT ![lh[tail + 1]] = logd[tail + 1]]
    /\ tail' = tail + 1

install_trans ==
    /\ pc = "install"
    /\ \/ /\ InstallBlock
          /\ pin' = [pin EXCEPT ![lh[tail + 1]] = @ - 1]
          /\ UNCHANGED pc
       \/ /\ tail = Len(lh)
          /\ pc' = "clear"
          /\ UNCHANGED <<disk, cache, pin, tail>>
    /\ UNCHANGED <<logd, head, lh, outstanding, committing, op, wrote>>

\* log.lh.n = 0; write_head().
EraseHead ==
    /\ lh' = << >>
    /\ head' = << >>
    /\ tail' = 0
    /\ UNCHANGED <<disk, logd, cache, pin, outstanding, committing, op, wrote>>

clear ==
    /\ pc = "clear"
    /\ pc' = "done"
    /\ EraseHead

\* Mutant: end_op() does not wake the processes in begin_op().
commit_done_silent ==
    /\ pc = "done"
    /\ committing' = FALSE
    /\ op' = [p \in Op |-> IF op[p] = "commit" THEN "idle" ELSE op[p]]
    /\ pc' = "normal"
    /\ UNCHANGED <<diskvars, cache, pin, lh, outstanding, wrote, tail>>

\* The end of end_op() after commit().
commit_done ==
    /\ pc = "done"
    /\ committing' = FALSE
    /\ op' = [p \in Op |-> IF op[p] = "commit" THEN "idle" ELSE Woken[p]]
    /\ pc' = "normal"
    /\ UNCHANGED <<diskvars, cache, pin, lh, outstanding, wrote, tail>>

commit == write_log \/ write_head \/ install_trans \/ clear \/ commit_done

-----------------------------------------------------------------------------
(* Crash and recovery. *)

\* The block being written when the power fails may be left torn.
TornDisk ==
    \/ UNCHANGED <<disk, logd>>
    \/ /\ pc = "write_log" /\ tail < Len(lh)
       /\ logd' = [logd EXCEPT ![tail + 1] = Torn]
       /\ UNCHANGED disk
    \/ /\ pc \in {"install", "rinstall"} /\ tail < Len(lh)
       /\ disk' = [disk EXCEPT ![lh[tail + 1]] = Torn]
       /\ UNCHANGED logd

Crash ==
    /\ TornDisk
    /\ cache' = [b \in Block |-> NotCached]
    /\ pin' = [b \in Block |-> 0]
    /\ lh' = << >>
    /\ outstanding' = 0
    /\ committing' = FALSE
    /\ op' = [p \in Op |-> "idle"]
    /\ wrote' = [p \in Op |-> {}]
    /\ pc' = "read_head"
    /\ tail' = 0
    /\ UNCHANGED head

read_head ==
    /\ pc = "read_head"
    /\ lh' = head
    /\ pc' = "rinstall"
    /\ UNCHANGED <<diskvars, cache, pin, outstanding, committing, op, wrote, tail>>

\* Mutant: bunpin() also during recovery.
rinstall_unpin ==
    /\ pc = "rinstall"
    /\ \/ /\ InstallBlock
          /\ pin' = [pin EXCEPT ![lh[tail + 1]] = @ - 1]
          /\ UNCHANGED pc
       \/ /\ tail = Len(lh)
          /\ pc' = "rclear"
          /\ UNCHANGED <<disk, cache, tail, pin>>
    /\ UNCHANGED <<logd, head, lh, outstanding, committing, op, wrote>>

rinstall_trans ==
    /\ pc = "rinstall"
    /\ \/ /\ InstallBlock
          /\ UNCHANGED pc
       \/ /\ tail = Len(lh)
          /\ pc' = "rclear"
          /\ UNCHANGED <<disk, cache, tail>>
    /\ UNCHANGED <<logd, head, pin, lh, outstanding, committing, op, wrote>>

rclear ==
    /\ pc = "rclear"
    /\ pc' = "normal"
    /\ EraseHead

recover_from_log == read_head \/ rinstall_trans \/ rclear

-----------------------------------------------------------------------------
Next ==
    \/ \E b \in Block : bread(b) \/ Recycle(b)
    \/ \E p \in Op : Call(p) \/ begin_op(p) \/ kkill(p) \/ end_op(p)
    \/ \E p \in Op, b \in Block, v \in Val : log_write(p, b, v)
    \/ commit
    \/ Crash
    \/ recover_from_log

Spec == Init /\ [][Next]_vars

(***************************************************************************)
(* A woken process runs, a call ends, a commit and a recovery proceed.     *)
(***************************************************************************)
Fairness ==
    /\ \A p \in Op : WF_vars(begin_op(p)) /\ WF_vars(end_op(p))
    /\ WF_vars(commit)
    /\ WF_vars(recover_from_log)

FairSpec == Spec /\ Fairness

-----------------------------------------------------------------------------
(* Properties. *)

\* The contents a restart would find: home blocks overlaid with the log.
Logged(b) == \E k \in 1 .. Len(head) : head[k] = b

Durable ==
    [b \in Block |->
        IF Logged(b) THEN logd[CHOOSE k \in 1 .. Len(head) : head[k] = b]
                     ELSE disk[b]]

\* The contents the running system reads; before and during recovery there
\* is no other than the durable one.
Current == IF Recovering THEN Durable ELSE [b \in Block |-> Data(b)]

Running == {p \in Op : op[p] = "run"}

TD == INSTANCE TxnDisk
        WITH durable <- Durable, current <- Current, active <- Running

(***************************************************************************)
(* Crash atomicity: the log implements the transactional disk.  The writes *)
(* of the calls that share a transaction reach the durable contents in one *)
(* step, at write_head(), while no call is active, and a crash at any      *)
(* point, also inside a disk write or during recovery, loses exactly the   *)
(* writes made since the last commit.                                      *)
(***************************************************************************)
CrashAtomic == TD!Spec

(***************************************************************************)
(* The space that begin_op() reserves is enough: a call that has written   *)
(* fewer than MAXOPBLOCKS blocks never meets log_write()'s panic("too big  *)
(* a transaction"), with any number of calls sharing the transaction.      *)
(***************************************************************************)
ReservationSuffices ==
    \A p \in Running :
        Cardinality(wrote[p]) < MAXOPBLOCKS => Len(lh) < LOGBLOCKS

(***************************************************************************)
(* Whenever a process sleeps in begin_op(), some call is outstanding or a  *)
(* commit is under way, so somebody is left to wake it.                    *)
(***************************************************************************)
SleeperHasWaker ==
    (\E p \in Op : op[p] = "asleep") => outstanding > 0 \/ committing

(***************************************************************************)
(* Outside recovery no home block is torn, and a buffer that may be        *)
(* recycled holds what is on disk, so that nothing is lost by recycling it *)
(* and nothing uncommitted was written to its home location.               *)
(***************************************************************************)
CacheCoherent ==
    ~Recovering =>
        \A b \in Block :
            /\ pin[b] = 0 /\ cache[b] # NotCached => cache[b] = disk[b]
            /\ disk[b] # Torn

(***************************************************************************)
(* begin_op() returns: once processes stop making new calls, every process *)
(* that waits for log space or for a commit gets through (or the machine   *)
(* crashes).                                                               *)
(***************************************************************************)
BeginReturns ==
    <>[][\A p \in Op : ~Call(p)]_vars
      => \A p \in Op : []<>(op[p] \notin {"begin", "asleep"})

(***************************************************************************)
(* The log in memory is sound: reserved space is enough, recycled buffers  *)
(* lose nothing, and a sleeper in begin_op() has somebody to wake it.      *)
(***************************************************************************)
LogInv ==
    /\ TypeOK
    /\ ReservationSuffices
    /\ SleeperHasWaker
    /\ CacheCoherent
=============================================================================
