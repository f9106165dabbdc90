-------------------------------- MODULE MCVm --------------------------------
(***************************************************************************)
(* Memory for TLC: page tables and pages in the kernel, and malloc() in a  *)
(* user program.  The variable part says which of the two runs.            *)
(***************************************************************************)
EXTENDS Vm

CONSTANTS p1, p2, HDR, MinUnits, UnitMod, MaxHeap

Seg(vaddr, memsz, filesz, perm) ==
    [vaddr |-> vaddr, memsz |-> memsz, filesz |-> filesz, perm |-> perm]

\* Text and data with a bss, a program that has only text, and headers that
\* kexec() rejects after it loaded a segment.
MCPrograms ==
    {<<Seg(0, 1, 1, "r"), Seg(2, 3, 1, "w")>>, <<Seg(0, 2, 2, "r")>>,
     <<Seg(0, 1, 1, "r"), Seg(30, 4, 1, "w")>>}
MCSbrks == {3, -3}
MCSizes == {1, 3, 9, 14, 31}
MCSteps == {1}
MCSymmetry == Permutations(Proc)

VARIABLES part, ptr, size, freep, brk, live, cut, looping

U == INSTANCE Umalloc WITH Sizes <- MCSizes, Steps <- MCSteps
uvars == <<ptr, size, freep, brk, live, cut, looping>>
allvars == <<part, vars, uvars>>

MCInit == part \in {"kernel", "user"} /\ Init /\ U!Init /\ (part = "user" => others = 0)

MCNext ==
    \/ part = "kernel" /\ Next /\ UNCHANGED <<part, uvars>>
    \/ part = "user" /\ U!Next /\ UNCHANGED <<part, vars>>

MCSpec == MCInit /\ [][MCNext]_allvars

\* States that differ only in which frame is used for what are one state to
\* every action and property; the view keeps the rest.
Shape(p) ==
    IF p \notin Running THEN None
    ELSE <<sz[p], DOMAIN pt[p].node, [v \in DOMAIN pt[p].pte |-> pt[p].pte[v].perm]>>
MCView ==
    <<part, uvars, others, err, panicked, [p \in Proc |-> Shape(p)], Cardinality(free),
      FramesPartitioned, UserSeesNoJunk>>

\* malloc() and free() keep blocks apart and the free list in order.
HeapInv == U!HeapInv
\* malloc() and free() lose no unit of the memory that sbrk() gave.
NoMemoryLost == U!NoMemoryLost
=============================================================================
