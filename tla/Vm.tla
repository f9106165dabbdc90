--------------------------------- MODULE Vm ---------------------------------
(***************************************************************************)
(* User memory: the page allocator of kernel/kalloc.c, the page tables of  *)
(* kernel/vm.c, and the calls that change a process's memory: sbrk() eager *)
(* and lazy, page faults, fork, exit, and exec with its arguments.         *)
(*                                                                         *)
(* A call works on a record of the free pages, the contents of pages and   *)
(* one page table.  Page tables of processes are private, so a call is one *)
(* step.  The rest of the system (pipes, more processes) shows in it only  *)
(* by the pages it holds, a number chosen at the start.  Which free page   *)
(* kalloc() returns is not told apart.                                     *)
(***************************************************************************)
EXTENDS Integers, Sequences, FiniteSets, SequencesExt, FiniteSetsExt, TLC

CONSTANTS
    Proc,
    NFRAME,         \* pages of memory
    MaxOther,       \* bound: pages the rest of the system holds
    PGSIZE, FANOUT, \* bytes of a page and entries of a page-table page
    LEVELS,         \* levels of a page table
    NPAGE,          \* pages below MAXVA
    UintMod,        \* 2^64
    Sbrks,          \* bound: arguments of sbrk()
    Programs,       \* bound: executables, sequences of segments
    MaxArgs,        \* bound: arguments of exec()
    MaxAccess,      \* bound: pages of a copy
    None

Frame == 1 .. NFRAME
TRAMPOLINE == NPAGE - 1                 \* pages, not addresses
TRAPFRAME == NPAGE - 2
UserPage == 0 .. TRAPFRAME - 1
PGROUNDUP(n) == (n + PGSIZE - 1) \div PGSIZE    \* in pages

VARIABLES
    free, tag,      \* free frames; is a frame's content "set" or an earlier owner's "junk"
    pt, sz, tf,     \* page table, size and trapframe of each process, or None
    err,            \* what the last call returned: "ok" or "fail"
    panicked,
    others          \* pages held by the rest of the system

vars == <<others, free, tag, pt, sz, tf, err, panicked>>

Kernel == 0                             \* the trampoline's page is not from kalloc()

-----------------------------------------------------------------------------
(* kalloc.c.  s.pa is the page last allocated, 0 for none. *)

kalloc(s) ==
    IF s.free = {} THEN [s EXCEPT !.pa = 0]
    ELSE LET f == Min(s.free) IN
         [s EXCEPT !.pa = f, !.free = @ \ {f}, !.tag[f] = "junk"]

kfree(s, f) ==
    [s EXCEPT !.free = @ \cup {f}, !.tag[f] = "junk",
              !.panic = IF f \in s.free THEN "freed twice" ELSE @]

-----------------------------------------------------------------------------
(* Page tables: root is the frame of the top page-table page, node those   *)
(* of the ones below it and pte the leaf entries.                          *)

\* The page-table pages on the way to va, from the top.
Path(va) == [k \in 1 .. LEVELS - 1 |-> <<LEVELS - k, va \div FANOUT ^ (LEVELS - k)>>]

\* walk() with alloc = 1; s.pa is 0 if a page-table page is missing.
walk(s, va) ==
    FoldLeft(LAMBDA x, n :
               IF x.pa = 0 \/ n \in DOMAIN x.pt.node THEN x
               ELSE LET y == kalloc(x) IN
                    IF y.pa = 0 THEN y ELSE [y EXCEPT !.pt.node = @ @@ (n :> y.pa)],
             [s EXCEPT !.pa = s.pt.root], Path(va))

\* The entry is set, unless walk() has failed.
SetEntry(s, va, f, perm) ==
    IF s.pa = 0 THEN s
    ELSE IF va \in DOMAIN s.pt.pte THEN [s EXCEPT !.panic = "mappages: remap"]
    ELSE [s EXCEPT !.pt.pte = @ @@ (va :> [pa |-> f, perm |-> perm])]

mappages(s, va, f, perm) == SetEntry(walk(s, va), va, f, perm)

\* The pages lo .. hi - 1 as a sequence.
Pages(lo, hi) == [k \in 1 .. Max({0, hi - lo}) |-> lo + k - 1]

uvmunmap(s, lo, hi, do_free) ==
    FoldLeft(LAMBDA x, va :
               IF va \notin DOMAIN x.pt.pte THEN x
               ELSE LET y == IF do_free THEN kfree(x, x.pt.pte[va].pa) ELSE x IN
                    [y EXCEPT !.pt.pte = [v \in DOMAIN @ \ {va} |-> @[v]]],
             s, Pages(lo, hi))

\* Mutant: the size is rounded down.
uvmdealloc_down(s, oldsz, newsz) ==
    IF newsz >= oldsz THEN [s EXCEPT !.ret = oldsz]
    ELSE [uvmunmap(s, newsz \div PGSIZE, oldsz \div PGSIZE, TRUE) EXCEPT !.ret = newsz]

uvmdealloc(s, oldsz, newsz) ==
    IF newsz >= oldsz THEN [s EXCEPT !.ret = oldsz]
    ELSE [uvmunmap(s, PGROUNDUP(newsz), PGROUNDUP(oldsz), TRUE) EXCEPT !.ret = newsz]

\* f is given back if it could not be mapped.
Mapped(s, f) == IF s.pa = 0 THEN [kfree(s, f) EXCEPT !.pa = 0] ELSE s

\* Mutant: the page that could not be mapped is not given back.
MapNew_leak(s, va, perm) ==
    IF s.pa = 0 THEN s ELSE mappages([s EXCEPT !.tag[s.pa] = "set"], va, s.pa, perm)

\* Mutant: the page is not cleared.
MapNew_junk(s, va, perm) ==
    IF s.pa = 0 THEN s ELSE Mapped(mappages(s, va, s.pa, perm), s.pa)

\* memset(0) and mappages() of the page just allocated.
MapNew(s, va, perm) ==
    IF s.pa = 0 THEN s
    ELSE Mapped(mappages([s EXCEPT !.tag[s.pa] = "set"], va, s.pa, perm), s.pa)

\* kalloc(), memset(0) and mappages(); s.pa is 0 on failure.
NewPage(s, va, perm) == MapNew(kalloc(s), va, perm)

\* Mutant: the pages already added stay.
AllocFailed_keep(s, va, oldsz) == [s EXCEPT !.ret = 0]

AllocFailed(s, va, oldsz) ==
    [uvmdealloc(s, va * PGSIZE, PGROUNDUP(oldsz) * PGSIZE) EXCEPT !.ret = 0]

\* The pages added so far are undone if the last one could not be had.
Allocated(s, va, oldsz) == IF s.pa = 0 THEN AllocFailed(s, va, oldsz) ELSE s

\* s.ret is the new size, 0 on failure.
uvmalloc(s, oldsz, newsz, perm) ==
    IF newsz < oldsz THEN [s EXCEPT !.ret = oldsz]
    ELSE FoldLeft(LAMBDA x, va :
               IF x.ret = 0 THEN x ELSE Allocated(NewPage(x, va, perm), va, oldsz),
             [s EXCEPT !.ret = newsz], Pages(PGROUNDUP(oldsz), PGROUNDUP(newsz)))

\* freewalk() of the whole table.
freewalk(s) ==
    LET x == IF DOMAIN s.pt.pte # {} THEN [s EXCEPT !.panic = "freewalk: leaf"] ELSE s
        nodes == {s.pt.node[n] : n \in DOMAIN s.pt.node} \cup {s.pt.root}
    IN FoldSet(LAMBDA f, y : kfree(y, f), x, nodes)

uvmfree(s, size) == freewalk(uvmunmap(s, 0, PGROUNDUP(size), TRUE))

proc_freepagetable(s, size) ==
    uvmfree(uvmunmap(uvmunmap(s, TRAMPOLINE, NPAGE, FALSE), TRAPFRAME, TRAMPOLINE, FALSE), size)

\* s with an empty page table at the frame last allocated.
EmptyTable(s) == [s EXCEPT !.pt = [root |-> s.pa, node |-> << >>, pte |-> << >>]]

\* The new table is freed if its last entry could not be made.
TrapframeMapped(s) ==
    IF s.pa # 0 THEN s
    ELSE [uvmfree(uvmunmap(s, TRAMPOLINE, NPAGE, FALSE), 0) EXCEPT !.pa = 0]

TrampolineMapped(s, trapframe) ==
    IF s.pa = 0 THEN [uvmfree(s, 0) EXCEPT !.pa = 0]
    ELSE TrapframeMapped(mappages(s, TRAPFRAME, trapframe, "k"))

TableAllocated(s, trapframe) ==
    IF s.pa = 0 THEN s
    ELSE TrampolineMapped(mappages(EmptyTable(s), TRAMPOLINE, Kernel, "k"), trapframe)

\* The trampoline and the trapframe are mapped; s.pa is 0 on failure.
proc_pagetable(s, trapframe) == TableAllocated(kalloc(s), trapframe)

-----------------------------------------------------------------------------
(* Calls of a process. *)

Call(p) ==
    [free |-> free, tag |-> tag, pa |-> 0, ret |-> 0, sz |-> 0,
     panic |-> "", pt |-> pt[p]]

Return(s, e) ==
    /\ UNCHANGED others
    /\ free' = s.free /\ tag' = s.tag /\ panicked' = s.panic
    /\ err' = e

Live(p) == tf[p] # None /\ panicked = ""

\* Mutant: the trapframe's page is given out.
TooBig_trampoline(p, n) == sz[p] + n > TRAMPOLINE * PGSIZE

TooBig(p, n) == sz[p] + n > TRAPFRAME * PGSIZE

Grown(p, n) ==
    IF n > 0 /\ ~TooBig(p, n) THEN uvmalloc(Call(p), sz[p], sz[p] + n, "w")
    ELSE IF n < 0 THEN uvmdealloc(Call(p), sz[p], (sz[p] + n) % UintMod)
    ELSE [Call(p) EXCEPT !.ret = sz[p]]

growproc(p, n) ==
    \E s \in {Grown(p, n)} :
        LET fails == n > 0 /\ (TooBig(p, n) \/ s.ret = 0) IN
        /\ pt' = [pt EXCEPT ![p] = s.pt]
        /\ sz' = [sz EXCEPT ![p] = IF fails THEN @ ELSE s.ret]
        /\ Return(s, IF fails THEN "fail" ELSE "ok")

sys_sbrk(p, n, lazy) ==
    /\ Live(p)
    /\ IF ~lazy \/ n < 0 THEN growproc(p, n)
       ELSE /\ sz' = [sz EXCEPT ![p] = IF TooBig(p, n) THEN @ ELSE @ + n]
            /\ err' = IF TooBig(p, n) THEN "fail" ELSE "ok"
            /\ UNCHANGED <<free, tag, pt, panicked, others>>
    /\ UNCHANGED tf

\* Mutant: a page at or above the size is faulted in as well.
vmfault_any(s, va, size) ==
    IF va \in DOMAIN s.pt.pte THEN [s EXCEPT !.pa = 0]
    ELSE NewPage(s, va, "w")

\* s.pa is 0 if va, the page of an address, is out of range or mapped, or
\* memory is out.
vmfault(s, va, size) ==
    IF va * PGSIZE >= size \/ va \in DOMAIN s.pt.pte THEN [s EXCEPT !.pa = 0]
    ELSE NewPage(s, va, "w")

\* A user page that walkaddr() finds, or that vmfault() makes.
Resident(s, va, size) ==
    IF va \in DOMAIN s.pt.pte /\ s.pt.pte[va].perm \in {"r", "w"}
    THEN [s EXCEPT !.pa = s.pt.pte[va].pa]
    ELSE vmfault(s, va, size)

\* copyout() needs a page it may write.
Reached(s, va, write) ==
    IF s.pa # 0 /\ write /\ s.pt.pte[va].perm # "w" THEN [s EXCEPT !.pa = 0] ELSE s

\* copyout() to the pages lo .. hi - 1, and copyin() from them; s.pa is 0 if
\* it failed, and then the pages before are already done.
copyout(s, lo, hi, size, write) ==
    FoldLeft(LAMBDA x, va :
               IF x.pa = 0 THEN x ELSE Reached(Resident(x, va, size), va, write),
             [s EXCEPT !.pa = 1], Pages(lo, hi))

\* A system call reads or writes user memory, or the user touches one page.
Access(p, lo, hi, write) ==
    /\ Live(p)
    /\ \E s \in {copyout(Call(p), lo, hi, sz[p], write)} :
          /\ pt' = [pt EXCEPT ![p] = s.pt]
          /\ Return(s, IF s.pa = 0 THEN "fail" ELSE "ok")
    /\ UNCHANGED <<sz, tf>>

-----------------------------------------------------------------------------
(* fork and exit. *)

\* Mutant: the last page copied stays in the child.
CopyFailed_short(s, va) == [uvmunmap(s, 0, va - 1, TRUE) EXCEPT !.ret = 0]

CopyFailed(s, va) == [uvmunmap(s, 0, va, TRUE) EXCEPT !.ret = 0]

\* The copy of page va, which the new table maps, or everything is undone.
Copied(s, va, f) == IF s.pa = 0 THEN CopyFailed(kfree(s, f), va) ELSE s

\* memmove() and mappages() of the page just allocated.
CopyPage(s, va, old) ==
    IF s.pa = 0 THEN CopyFailed(s, va)
    ELSE Copied(mappages([s EXCEPT !.tag[s.pa] = s.tag[old.pa]], va, s.pa, old.perm), va, s.pa)

\* s.ret is 0 if memory ran out, and then nothing is mapped.
uvmcopy(s, old, size) ==
    FoldLeft(LAMBDA x, va :
               IF x.ret = 0 \/ va \notin DOMAIN old.pte THEN x
               ELSE CopyPage(kalloc(x), va, old.pte[va]),
             [s EXCEPT !.ret = 1], Pages(0, PGROUNDUP(size)))

\* allocproc() and uvmcopy(), and freeproc() when one of them fails: the
\* trapframe, then the table, then the pages.
kfork(p, q) ==
    /\ Live(p) /\ tf[q] = None
    /\ \E a \in {kalloc(Call(p))} : \E b \in {proc_pagetable(a, a.pa)} :
       \E c \in {uvmcopy(b, pt[p], sz[p])} :
          LET ok == a.pa # 0 /\ b.pa # 0 /\ c.ret # 0 IN
          /\ pt' = [pt EXCEPT ![q] = IF ok THEN c.pt ELSE None]
          /\ sz' = [sz EXCEPT ![q] = IF ok THEN sz[p] ELSE 0]
          /\ tf' = [tf EXCEPT ![q] = IF ok THEN a.pa ELSE None]
          /\ Return(IF ok THEN c
                    ELSE IF a.pa = 0 THEN a
                    ELSE IF b.pa = 0 THEN kfree(b, a.pa)
                    ELSE proc_freepagetable(kfree(c, a.pa), 0),
                    IF ok THEN "ok" ELSE "fail")

\* A process that has exited is freed by its parent, or the last stays.
freeproc(p) ==
    /\ Live(p) /\ \E q \in Proc \ {p} : tf[q] # None
    /\ Return(proc_freepagetable(kfree(Call(p), tf[p]), sz[p]), "ok")
    /\ pt' = [pt EXCEPT ![p] = None] /\ sz' = [sz EXCEPT ![p] = 0]
    /\ tf' = [tf EXCEPT ![p] = None]

-----------------------------------------------------------------------------
(* exec. *)

\* loadseg(): the pages of the segment have to be mapped for the user.
loadseg(s, seg) ==
    LET va == seg.vaddr \div PGSIZE IN
    FoldLeft(LAMBDA x, v :
               IF v \notin DOMAIN x.pt.pte
               THEN [x EXCEPT !.panic = "loadseg: address should exist"]
               ELSE [x EXCEPT !.tag[x.pt.pte[v].pa] = "set"],
             s, Pages(va, va + PGROUNDUP(seg.filesz)))

\* loadseg() follows if the memory could be had.  The file may be too short.
Filled(s, seg, short) ==
    IF s.ret = 0 THEN s
    ELSE [loadseg([s EXCEPT !.sz = s.ret], seg) EXCEPT !.ret = IF short THEN 0 ELSE @]

\* One program header; s.ret is 0 when kexec() goes to bad.
LoadSegment(s, seg, short) ==
    LET end == (seg.vaddr + seg.memsz) % UintMod IN
    IF s.ret = 0 THEN s
    ELSE IF seg.memsz < seg.filesz \/ end < seg.vaddr \/ seg.vaddr % PGSIZE # 0
    THEN [s EXCEPT !.ret = 0]
    ELSE Filled(uvmalloc(s, s.sz, end, seg.perm), seg, short)

uvmclear(s, va) == [s EXCEPT !.pt.pte[va].perm = "guard"]

\* The lowest page is the guard; the arguments fit on the stack or not.
Guarded(s, base, fit) ==
    IF s.ret = 0 THEN s
    ELSE [uvmclear([s EXCEPT !.sz = s.ret], base) EXCEPT !.ret = IF fit THEN @ ELSE 0]

\* The guard page and the stack, after the segments.
UserStack(s, fit) ==
    LET base == PGROUNDUP(s.sz) IN
    IF s.ret = 0 THEN s
    ELSE Guarded(uvmalloc(s, base * PGSIZE, (base + 2) * PGSIZE, "w"), base, fit)

\* At bad the new image is freed.
FreeIfBad(s) == IF s.ret = 0 THEN [proc_freepagetable(s, s.sz) EXCEPT !.ret = 0] ELSE s

Image(s, prog, fault) ==
    IF s.pa = 0 THEN [s EXCEPT !.ret = 0]
    ELSE FreeIfBad(UserStack(
            FoldLeft(LAMBDA x, k : LoadSegment(x, prog[k], k = fault),
                     [s EXCEPT !.sz = 0, !.ret = 1], Pages(1, Len(prog) + 1)),
            fault # Len(prog) + 1))

\* The new image in s.pt with its size in s.sz; s.ret is 0 if it was given up
\* and freed.  At fault the file is too short, or the arguments do not fit.
kexec(s, prog, fault, trapframe) == Image(proc_pagetable(s, trapframe), prog, fault)

\* A page for each argument, until one cannot be had.
Fetched(x, s) ==
    [s |-> s, ok |-> s.pa # 0, held |-> IF s.pa = 0 THEN x.held ELSE Append(x.held, s.pa)]

FetchArgs(p, nargs) ==
    FoldLeft(LAMBDA x, k : IF x.ok THEN Fetched(x, kalloc(x.s)) ELSE x,
             [s |-> Call(p), ok |-> TRUE, held |-> << >>], Pages(0, nargs))

\* sys_exec(): the arguments are copied to pages of their own, which are
\* freed whatever comes of the call.
sys_exec(p, prog, nargs, fault) ==
    /\ Live(p)
    /\ \E args \in {FetchArgs(p, nargs)} : \E x \in {kexec(args.s, prog, fault, tf[p])} :
          LET ok == args.ok /\ x.ret # 0
              s == IF ~args.ok THEN args.s
                   ELSE IF ok THEN proc_freepagetable([x EXCEPT !.pt = pt[p]], sz[p])
                   ELSE x
          IN /\ pt' = [pt EXCEPT ![p] = IF ok THEN x.pt ELSE @]
             /\ sz' = [sz EXCEPT ![p] = IF ok THEN x.sz ELSE @]
             /\ Return(FoldLeft(kfree, s, args.held), IF ok THEN "exec" ELSE "fail")
    /\ UNCHANGED tf

-----------------------------------------------------------------------------
\* The first process, before it runs /init.
Init ==
    \E other \in 0 .. MaxOther :
    \E s \in {proc_pagetable([free |-> 2 .. NFRAME - other,
                              tag |-> [f \in Frame |-> "junk"], pa |-> 0, ret |-> 0,
                              sz |-> 0, panic |-> "", pt |-> None], 1)} :
       /\ others = other
       /\ free = s.free /\ tag = s.tag
       /\ \E p \in Proc : /\ pt = [q \in Proc |-> IF q = p THEN s.pt ELSE None]
                         /\ tf = [q \in Proc |-> IF q = p THEN 1 ELSE None]
       /\ sz = [q \in Proc |-> 0]
       /\ err = "ok" /\ panicked = ""

Next ==
    \E p \in Proc :
        \/ \E n \in Sbrks, lazy \in BOOLEAN : sys_sbrk(p, n, lazy)
        \/ \E lo \in UserPage, n \in 1 .. MaxAccess, write \in BOOLEAN :
              Access(p, lo, lo + n, write)
        \/ \E q \in Proc \ {p} : kfork(p, q)
        \/ \E prog \in Programs, nargs \in 0 .. MaxArgs :
              \E fault \in 0 .. Len(prog) + 1 : sys_exec(p, prog, nargs, fault)
        \/ freeproc(p)

Spec == Init /\ [][Next]_vars

-----------------------------------------------------------------------------
(* Properties. *)

Running == {p \in Proc : tf[p] # None}

\* Types; sizes stop below TRAPFRAME, and page tables map nothing between.
VmTypeOK ==
    /\ free \subseteq Frame
    /\ tag \in [Frame -> {"junk", "set"}]
    /\ \A p \in Proc : sz[p] \in 0 .. TRAPFRAME * PGSIZE
    /\ \A p \in Running : DOMAIN pt[p].pte \subseteq UserPage \cup {TRAMPOLINE, TRAPFRAME}

\* The frames of a process, and how many it uses.
Pte(p) == {v \in UserPage : v \in DOMAIN pt[p].pte}
FramesOf(p) ==
    {tf[p], pt[p].root} \cup {pt[p].node[n] : n \in DOMAIN pt[p].node}
                        \cup {pt[p].pte[v].pa : v \in Pte(p)}
Uses(p) == 2 + Cardinality(DOMAIN pt[p].node) + Cardinality(Pte(p))

(***************************************************************************)
(* Every page of memory is free, or is the trapframe, a page-table page or *)
(* a user page of exactly one process: no call that succeeds, fails half   *)
(* way or is rolled back loses a page, frees one in use or shares one.     *)
(***************************************************************************)
FramesPartitioned ==
    panicked = "" =>
      /\ free \cup UNION {FramesOf(p) : p \in Running} = 1 .. NFRAME - others
      /\ Cardinality(free) + MapThenSumSet(Uses, Running) = NFRAME - others

(***************************************************************************)
(* No panic: freewalk() never meets a leaf, mappages() never maps a page   *)
(* twice, loadseg() finds its pages and no page is freed twice.            *)
(***************************************************************************)
VmNeverPanics == panicked = ""

(***************************************************************************)
(* Nothing is mapped at or above the size, whatever sequence of eager and  *)
(* lazy sbrk(), faults and copies led to it; so uvmfree(), which goes by   *)
(* the size, finds every page.                                             *)
(***************************************************************************)
MappedBelowSize ==
    \A p \in Running : \A v \in DOMAIN pt[p].pte \cap UserPage : v < PGROUNDUP(sz[p])

(***************************************************************************)
(* A call that fails leaves size and pages of every process as they were,  *)
(* except that the kernel may have faulted in pages of the lazy heap.      *)
(***************************************************************************)
FailureChangesNothing ==
    [][err' = "fail" =>
        \A p \in Running :
            /\ sz'[p] = sz[p] /\ tf'[p] = tf[p]
            /\ \A v \in DOMAIN pt[p].pte : v \in DOMAIN pt'[p].pte /\ pt'[p].pte[v] = pt[p].pte[v]
            /\ \A v \in DOMAIN pt'[p].pte \ DOMAIN pt[p].pte : pt'[p].pte[v].perm = "w" /\ v * PGSIZE < sz[p]]_vars

(***************************************************************************)
(* A page that still holds part of the process's memory is not taken from  *)
(* it, except by exec() and exit.                                          *)
(***************************************************************************)
PagesStay ==
    [][\A p \in Running : err' # "exec" /\ tf'[p] # None =>
        \A v \in DOMAIN pt[p].pte \cap UserPage :
            v < PGROUNDUP(sz'[p]) => v \in DOMAIN pt'[p].pte /\ pt'[p].pte[v] = pt[p].pte[v]]_vars

(***************************************************************************)
(* The user never sees what an earlier owner left in a page: every page it *)
(* gets was cleared, loaded or copied, on every path.                      *)
(***************************************************************************)
UserSeesNoJunk ==
    \A p \in Running : \A v \in DOMAIN pt[p].pte \cap UserPage : tag[pt[p].pte[v].pa] = "set"

(***************************************************************************)
(* Memory is accounted for: each page has one owner, nothing is mapped at  *)
(* or above the size, and so no call panics.                               *)
(***************************************************************************)
VmInv ==
    /\ VmTypeOK
    /\ FramesPartitioned
    /\ MappedBelowSize
    /\ VmNeverPanics

(***************************************************************************)
(* A call that fails changes nothing, and one that succeeds takes no page  *)
(* that is still in use.                                                   *)
(***************************************************************************)
CallsKeepMemory ==
    /\ FailureChangesNothing
    /\ PagesStay
=============================================================================
