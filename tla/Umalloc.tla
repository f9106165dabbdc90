------------------------------- MODULE Umalloc -------------------------------
(***************************************************************************)
(* malloc() and free() of user/umalloc.c: a circular list of free blocks   *)
(* in address order, grown with sbrk().  Addresses count headers; address  *)
(* 0 is the list's own header `base', the heap starts at 1.  The program   *)
(* frees only what it was given, and moves the break for itself as well.   *)
(***************************************************************************)
EXTENDS Integers, Sequences, FiniteSets, SequencesExt, FiniteSetsExt

CONSTANTS
    HDR,            \* sizeof(Header)
    MinUnits,       \* 4096, the least that morecore() asks for
    UnitMod,        \* 2^32 / sizeof(Header): sbrk() takes an int
    MaxHeap,        \* headers that fit in memory
    Sizes,          \* bound: arguments of malloc(), in bytes
    Steps           \* bound: what the program moves the break by

VARIABLES
    ptr, size,      \* the headers
    freep,          \* 0 is base, -1 before the first malloc()
    brk,            \* first address past the heap
    live,           \* blocks of the program: header and units it asked for
    cut,            \* a request did not fit the int that sbrk() takes
    looping         \* free() or malloc() does not return

vars == <<ptr, size, freep, brk, live, cut, looping>>

base == 0
Addr == 0 .. MaxHeap

\* The free list from block a on, once around, or its first Longest blocks if
\* it does not come around.
Longest == MaxHeap \div 2 + 2
From(h, a) ==
    LET at[k \in 0 .. Longest] == IF k = 0 THEN a ELSE h.ptr[at[k - 1]]
        back == {k \in 1 .. Longest : at[k] = a}
    IN [k \in 1 .. (IF back = {} THEN Longest ELSE Min(back)) |-> at[k - 1]]

\* The first block of a list that is in S, -1 if none is.
First(s, S) ==
    LET hits == {k \in 1 .. Len(s) : s[k] \in S} IN
    IF hits = {} THEN -1 ELSE s[Min(hits)]

\* Where a block is inserted: after the free block below it, or after the
\* highest when it is outside all of them.
Before(h, bp) ==
    First(From(h, h.freep),
          {p \in Addr : \/ bp > p /\ bp < h.ptr[p]
                        \/ p >= h.ptr[p] /\ (bp > p \/ bp < h.ptr[p])})

\* Mutant: the block is not merged with the one above it.
JoinUpper_none(h, bp, p) == [h EXCEPT !.ptr[bp] = h.ptr[p]]

JoinUpper(h, bp, p) ==
    LET up == h.ptr[p] IN
    IF bp + h.size[bp] = up
    THEN [h EXCEPT !.size[bp] = @ + h.size[up], !.ptr[bp] = h.ptr[up]]
    ELSE [h EXCEPT !.ptr[bp] = up]

\* Mutant: a block merged with the one below it does not count.
JoinLower_lost(h, bp, p) ==
    IF p + h.size[p] = bp
    THEN [h EXCEPT !.ptr[p] = h.ptr[bp]]
    ELSE [h EXCEPT !.ptr[p] = bp]

JoinLower(h, bp, p) ==
    IF p + h.size[p] = bp
    THEN [h EXCEPT !.size[p] = @ + h.size[bp], !.ptr[p] = h.ptr[bp]]
    ELSE [h EXCEPT !.ptr[p] = bp]

Heap == [ptr |-> ptr, size |-> size, freep |-> freep, brk |-> brk, loop |-> FALSE]

FreeBlock(h, bp) ==
    LET p == Before(h, bp) IN
    IF p = -1 THEN [h EXCEPT !.loop = TRUE]
    ELSE [JoinLower(JoinUpper(h, bp, p), bp, p) EXCEPT !.freep = p]

\* sbrk()'s argument in headers, after the conversion to int.
Signed(nu) ==
    LET r == nu % UnitMod IN IF 2 * r >= UnitMod THEN r - UnitMod ELSE r

\* The argument of sbrk() for nu headers.
Core(nu) == Max({nu, MinUnits})

\* A new block of memory is put on the list.
morecore(h, nu) ==
    FreeBlock([h EXCEPT !.size[h.brk] = Core(nu), !.brk = @ + Core(nu)], h.brk)

\* Mutant: a block that fits exactly stays on the list.
Take_exact(h, prevp, p, nunits) ==
    [h EXCEPT !.size[p] = @ - nunits, !.size[p + h.size[p] - nunits] = nunits, !.freep = prevp]

\* Mutant: the lower end is cut off, with the size of the rest.
Take_lower(h, prevp, p, nunits) ==
    IF h.size[p] = nunits THEN [h EXCEPT !.ptr[prevp] = h.ptr[p], !.freep = prevp]
    ELSE [h EXCEPT !.size[p] = @ - nunits, !.freep = prevp]

\* The block is taken off the list, or its upper end is cut off.
Take(h, prevp, p, nunits) ==
    IF h.size[p] = nunits THEN [h EXCEPT !.ptr[prevp] = h.ptr[p], !.freep = prevp]
    ELSE [h EXCEPT !.size[p] = @ - nunits, !.size[p + h.size[p] - nunits] = nunits,
                   !.freep = prevp]

\* The free block before the first one that is large enough, -1 if none is.
Fit(h, nunits) ==
    First(From(h, h.freep), {prevp \in Addr : h.size[h.ptr[prevp]] >= nunits})

\* What is left of headers inside other blocks is never read again, and is
\* forgotten.
Commit(h, blocks) ==
    LET list == ToSet(From(h, base)) IN
    /\ ptr' = [a \in Addr |-> IF a \in list THEN h.ptr[a] ELSE base]
    /\ size' = [a \in Addr |-> IF a \in list \cup {b[1] : b \in blocks} THEN h.size[a] ELSE 0]
    /\ freep' = h.freep /\ brk' = h.brk /\ looping' = h.loop
    /\ live' = blocks

Allocate(h, nunits) ==
    LET prevp == Fit(h, nunits)
        p == h.ptr[prevp]
    IN Commit(Take(h, prevp, p, nunits), live \cup {<<p + h.size[p] - nunits, nunits>>})

malloc(nbytes) ==
    LET nunits == (nbytes + HDR - 1) \div HDR + 1
        h == IF freep = -1 THEN [Heap EXCEPT !.freep = base, !.ptr[base] = base] ELSE Heap
        more == morecore(h, nunits)
    IN /\ ~cut /\ ~looping
       /\ IF Fit(h, nunits) # -1 THEN Allocate(h, nunits) /\ UNCHANGED cut
          ELSE IF Signed(Core(nunits)) # Core(nunits)
          THEN cut' = TRUE /\ UNCHANGED <<ptr, size, freep, brk, live, looping>>
          ELSE /\ UNCHANGED cut
               /\ IF brk + Core(nunits) > MaxHeap + 1 THEN Commit(h, live)
                  ELSE IF more.loop \/ Fit(more, nunits) = -1
                  THEN Commit([more EXCEPT !.loop = TRUE], live)
                  ELSE Allocate(more, nunits)

free(b) ==
    /\ ~cut /\ ~looping /\ b \in live
    /\ Commit(FreeBlock(Heap, b[1]), live \ {b})
    /\ UNCHANGED cut

\* The program calls sbrk() for itself.
MoveBreak(n) ==
    /\ ~cut /\ ~looping /\ brk + n <= MaxHeap + 1
    /\ brk' = brk + n
    /\ UNCHANGED <<ptr, size, freep, live, cut, looping>>

Init ==
    /\ ptr = [a \in Addr |-> base] /\ size = [a \in Addr |-> 0]
    /\ freep = -1 /\ brk = 1 /\ live = {} /\ cut = FALSE /\ looping = FALSE

Next ==
    \/ \E n \in Sizes : malloc(n)
    \/ \E b \in live : free(b)
    \/ \E n \in Steps : MoveBreak(n)

Spec == Init /\ [][Next]_vars

-----------------------------------------------------------------------------
(* Properties. *)

FreeBlocks == IF freep = -1 THEN {} ELSE {<<a, size[a]>> : a \in ToSet(From(Heap, base))}
Units(b) == b[1] .. b[1] + b[2] - 1

\* Types; the header before a block in use still has the size malloc() gave it.
UmTypeOK ==
    /\ freep \in Addr \cup {-1} /\ brk \in 1 .. MaxHeap + 1
    /\ \A b \in live : b[1] \in Addr \ {base} /\ size[b[1]] = b[2]

(***************************************************************************)
(* Blocks in use and free blocks lie in the heap and share no address, for *)
(* any order of calls and wherever the program moves the break.            *)
(***************************************************************************)
BlocksDisjoint ==
    /\ \A b \in live \cup FreeBlocks : Units(b) \subseteq 1 .. brk - 1
    /\ \A b, c \in live \cup FreeBlocks : b # c => Units(b) \cap Units(c) = {}

(***************************************************************************)
(* The free list is one circle through `base' in address order, and free   *)
(* blocks that touch are one block; so free() and malloc() return.         *)
(***************************************************************************)
ListInOrder ==
    /\ ~looping
    /\ freep # -1 =>
         LET s == From(Heap, base) IN
         /\ freep \in ToSet(s)
         /\ \A k \in 1 .. Len(s) - 1 : s[k] < s[k + 1] /\ (k > 1 => s[k] + size[s[k]] < s[k + 1])

(***************************************************************************)
(* A block that malloc() carved is as long as was asked for, and what it   *)
(* and free() do to blocks loses no memory: the free and used units change *)
(* only when the break moves.                                              *)
(***************************************************************************)
NoMemoryLost ==
    [][brk' = brk =>
         Cardinality(UNION {Units(b) : b \in live' \cup FreeBlocks'})
           = Cardinality(UNION {Units(b) : b \in live \cup FreeBlocks})]_vars

(***************************************************************************)
(* The heap is sound: blocks do not overlap, and the free list is an       *)
(* ordered circle with all neighbours joined.                              *)
(***************************************************************************)
HeapInv ==
    /\ UmTypeOK
    /\ BlocksDisjoint
    /\ ListInOrder
=============================================================================
