------------------------------- MODULE MCDisk -------------------------------
(***************************************************************************)
(* The path from the log to the medium, for TLC: the log above buffers and *)
(* a synchronous disk, the buffer cache above a disk that serves requests  *)
(* at once, and the driver that is shown to be such a disk.  The parts are *)
(* explored one after the other; the variable part says which one runs.    *)
(***************************************************************************)
EXTENDS Log, TLC

CONSTANTS p1, p2, p3, o1, o2, o3, b1, b2, Proc, NBUF, MaxHeld, NoBlock, Nobody,
    NUM, IdxMod, None

\* bmap() and itrunc() hold an indirect block over balloc() and bfree();
\* write_log() and install_trans() hold a log block over a home block.
MCNest == {<<"indirect", "bitmap">>, <<"log", "indirect">>, <<"log", "bitmap">>}
MCModes == (p1 :> {TRUE}) @@ (p2 :> {FALSE}) @@ (p3 :> {FALSE})

\* p2 and p3 play the same part in the cache and the driver.
Alike == Permutations({p2, p3}) \cup Permutations(Op)

VARIABLES part,
    blockno, valid, refcnt, bdata, next, prev, locked, asleep, synced, held, bpc,
    target, pinned, latest, panicked,
    free, desc, info, status, ops, avail, availIdx, used, usedIdx,
    used_idx, bdisk, vdata, vpc, req, idx, intr, handler, devIdx, inDev, medium

B == INSTANCE Bcache
       WITH Block <- {"log", "indirect", "bitmap"}, Nest <- MCNest, Changed <- {"bitmap"},
            data <- bdata, disk <- synced, pc <- bpc

V == INSTANCE VirtioDisk
       WITH data <- vdata, pc <- vpc, disk <- medium, Modes <- MCModes

ASSUME B!ConstantsOK /\ V!ConstantsOK

bvars == <<blockno, valid, refcnt, bdata, next, prev, locked, asleep, synced, held, bpc,
           target, pinned, latest, panicked>>
vvars == <<free, desc, info, status, ops, avail, availIdx, used, usedIdx, used_idx,
           bdisk, vdata, vpc, req, idx, intr, handler, devIdx, inDev, medium>>

MCInit ==
    /\ part \in {"log", "cache", "driver"}
    /\ Init /\ B!Init /\ V!Init

MCNext ==
    \/ part = "log" /\ Next /\ UNCHANGED <<part, bvars, vvars>>
    \/ part = "cache" /\ B!Next /\ UNCHANGED <<part, vars, vvars>>
    \/ part = "driver" /\ V!Next /\ UNCHANGED <<part, vars, bvars>>

MCSpec == MCInit /\ [][MCNext]_<<part, vars, bvars, vvars>>

\* bget() hands out the one buffer of a block, with its latest contents, and
\* recycles none that is in use.
BcacheInv == B!BcacheInv
\* virtio_disk_rw() calls share no descriptor and sleep only while they must.
VirtioInv == V!VirtioInv
\* virtio_disk_rw() implements a disk that serves each request once.
ServesDisk == V!ServesDisk
=============================================================================
