------------------------------ MODULE FileData ------------------------------
(***************************************************************************)
(* What is in a file: the block bitmap, bmap(), itrunc(), readi() and      *)
(* writei() of kernel/fs.c, the table of open files of kernel/file.c and   *)
(* the descriptors of kernel/sysfile.c.                                    *)
(*                                                                         *)
(* A byte is a small number and a block BSIZE of them; an indirect block   *)
(* is a block that holds block numbers, so a block that is not zeroed when *)
(* it is allocated reads as both.  Processes take the inode lock for one   *)
(* chunk of a write and give up the bitmap between two blocks of it.       *)
(***************************************************************************)
EXTENDS Integers, Sequences, FiniteSets, SequencesExt, FiniteSetsExt

CONSTANTS
    Proc, Inode,
    BSIZE,          \* bytes, or block numbers, in a block
    NDIRECT,
    NBLOCK,         \* data blocks 1 .. NBLOCK
    UintMod,        \* 2^32: off and n are uint
    NFILE, NOFILE,
    MaxWrite,       \* filewrite()'s max
    Lens,           \* bound: the arguments n of read() and write()
    NByte,          \* bound: the byte written at offset k is k % NByte + 1
    Opens,          \* bound: who opens what
    None

NINDIRECT == BSIZE
MAXFILE == NDIRECT + NINDIRECT
Blk == 1 .. NBLOCK
File == 1 .. NFILE
Fd == 0 .. NOFILE - 1
Zero == [k \in 1 .. BSIZE |-> 0]
Old == [k \in 1 .. BSIZE |-> 1]     \* for whatever a freed block holds

VARIABLES
    used,           \* the bitmap: blocks in use
    block,          \* their contents
    addrs, size,    \* of the inodes
    lock,
    ftable,         \* ref, ip and off of the open files
    ofile,          \* the descriptors of the processes
    w,              \* the write each process is in
    bytes           \* history: what the files should hold

vars == <<used, block, addrs, size, lock, ftable, ofile, w, bytes>>

NoFile == [ref |-> 0, ip |-> None, off |-> 0]
NoWrite == [f |-> 0, n |-> 0, i |-> 0, n1 |-> 0, off |-> 0, tot |-> 0]

\* Types; the sizes of files and the offsets of open ones stay within MAXFILE.
FileTypeOK ==
    /\ used \subseteq Blk /\ block \in [Blk -> Seq(Nat)]
    /\ addrs \in [Inode -> [1 .. NDIRECT + 1 -> 0 .. NBLOCK]]
    /\ \A i \in Inode : size[i] \in 0 .. MAXFILE * BSIZE
    /\ lock \in [Inode -> Proc \cup {None}]
    /\ \A f \in File : ftable[f].ref \in Nat /\ ftable[f].off \in 0 .. MAXFILE * BSIZE
    /\ ofile \in [Proc -> [Fd -> 0 .. NFILE]]

Init ==
    /\ used = {} /\ block = [b \in Blk |-> Old]
    /\ addrs = [i \in Inode |-> [k \in 1 .. NDIRECT + 1 |-> 0]]
    /\ size = [i \in Inode |-> 0]
    /\ lock = [i \in Inode |-> None]
    /\ ftable = [f \in File |-> NoFile]
    /\ ofile = [p \in Proc |-> [d \in Fd |-> 0]]
    /\ w = [p \in Proc |-> NoWrite]
    /\ bytes = [i \in Inode |-> << >>]

Idle(p) == w[p] = NoWrite
-----------------------------------------------------------------------------
(* Blocks. *)

\* A disk in the middle of a call: the bitmap, the blocks, one inode's addrs
\* and the block last looked up, 0 if there was none to be had.
\* Mutant: the block keeps what was in it.
balloc_dirty(d) ==
    IF d.used = Blk THEN [d EXCEPT !.b = 0]
    ELSE LET b == Min(Blk \ d.used) IN
         [d EXCEPT !.b = b, !.used = @ \cup {b}]

balloc(d) ==
    IF d.used = Blk THEN [d EXCEPT !.b = 0]
    ELSE LET b == Min(Blk \ d.used) IN
         [d EXCEPT !.b = b, !.used = @ \cup {b}, !.block[b] = Zero]

\* addrs[k], allocated if there is none.
Slot(d, k) ==
    IF d.addrs[k] # 0 THEN [d EXCEPT !.b = d.addrs[k]]
    ELSE LET e == balloc(d) IN [e EXCEPT !.addrs[k] = e.b]

\* Block bn of the file, allocated if there is none; bn < MAXFILE.
bmap(d, bn) ==
    IF bn < NDIRECT THEN Slot(d, bn + 1)
    ELSE LET e == Slot(d, NDIRECT + 1) ind == e.b k == bn - NDIRECT + 1 IN
         IF ind = 0 THEN e
         ELSE IF e.block[ind][k] # 0 THEN [e EXCEPT !.b = e.block[ind][k]]
         ELSE LET g == balloc(e) IN
              IF g.b = 0 THEN g ELSE [g EXCEPT !.block[ind][k] = g.b]

Disk(i) == [used |-> used, block |-> block, addrs |-> addrs[i], b |-> 0]

\* The blocks of a file.
Indirect(i) ==
    IF addrs[i][NDIRECT + 1] = 0 THEN << >> ELSE block[addrs[i][NDIRECT + 1]]
BlocksOf(i) == SelectSeq(addrs[i] \o Indirect(i), LAMBDA b : b # 0)

itrunc(i) ==
    /\ used' = used \ Range(BlocksOf(i))
    /\ block' = [b \in Blk |-> IF b \in used' THEN block[b] ELSE Old]
    /\ addrs' = [addrs EXCEPT ![i] = [k \in 1 .. NDIRECT + 1 |-> 0]]
    /\ size' = [size EXCEPT ![i] = 0]
    /\ bytes' = [bytes EXCEPT ![i] = << >>]

-----------------------------------------------------------------------------
(* Reading. *)

\* Mutant: lengths are signed.
Uint_signed(n) == n

Uint(n) == n % UintMod

\* Mutant: no clamp to the size of the file.
ReadLen_unclamped(i, off, n) ==
    IF off > size[i] \/ Uint(off + Uint(n)) < off THEN 0 ELSE Uint(n)

\* readi()'s n after its checks; a negative n is a large uint.
ReadLen(i, off, n) ==
    IF off > size[i] \/ Uint(off + Uint(n)) < off THEN 0
    ELSE IF Uint(off + Uint(n)) > size[i] THEN size[i] - off
    ELSE Uint(n)

\* The blocks readi() looks up have to be there: it may not allocate.
Mapped(i, bn) == bmap(Disk(i), bn).used = used

readi(i, off, n) ==
    [k \in 1 .. ReadLen(i, off, n) |->
        LET pos == off + k - 1 IN
        block[bmap(Disk(i), pos \div BSIZE).b][(pos % BSIZE) + 1]]

\* fileread() moves the offset on by what was read.
fileread(p, d, n) ==
    LET f == ofile[p][d] i == ftable[f].ip IN
    /\ Idle(p) /\ f # 0
    /\ lock[i] = None
    /\ ftable' = [ftable EXCEPT ![f].off = @ + ReadLen(i, @, n)]
    /\ UNCHANGED <<used, block, addrs, size, lock, ofile, w, bytes>>

-----------------------------------------------------------------------------
(* Writing. *)

\* filewrite() enters its loop; a negative n returns -1 at once.
filewrite(p, d, n) ==
    /\ Idle(p) /\ ofile[p][d] # 0
    /\ n > 0
    /\ w' = [w EXCEPT ![p] = [NoWrite EXCEPT !.f = ofile[p][d], !.n = n]]
    /\ UNCHANGED <<used, block, addrs, size, lock, ftable, ofile, bytes>>

\* begin_op(), ilock() and writei()'s checks, for the next chunk; the offset
\* is read under the lock.
writei(p) ==
    LET x == w[p] i == ftable[x.f].ip off == ftable[x.f].off
        n1 == Min({x.n - x.i, MaxWrite})
    IN /\ x.f # 0 /\ x.n1 = 0
       /\ lock[i] = None
       /\ IF off > size[i] \/ Uint(off + n1) < off \/ Uint(off + n1) > MAXFILE * BSIZE
          THEN w' = [w EXCEPT ![p] = NoWrite] /\ UNCHANGED lock
          ELSE /\ lock' = [lock EXCEPT ![i] = p]
               /\ w' = [w EXCEPT ![p] = [@ EXCEPT !.n1 = n1, !.off = off, !.tot = 0]]
       /\ UNCHANGED <<used, block, addrs, size, ftable, ofile, bytes>>

\* s with the m bytes for offset off on at position at, extended as needed.
Overlay(s, at, m, off) ==
    [k \in 1 .. Max({Len(s), at + m}) |->
        IF at < k /\ k <= at + m THEN ((off + k - at - 1) % NByte) + 1 ELSE s[k]]

\* The end of writei() and of the chunk: the size, f->off, iunlock().
\* Mutant: the size grows to the end of the chunk that was asked for.
WriteDone_asked(p, x) ==
    LET i == ftable[x.f].ip r == x.tot IN
    /\ size' = [size EXCEPT ![i] = Max({@, ftable[x.f].off + x.n1})]
    /\ ftable' = [ftable EXCEPT ![x.f].off = @ + r]
    /\ lock' = [lock EXCEPT ![i] = None]
    /\ w' = [w EXCEPT ![p] = IF r # x.n1 \/ x.i + r = x.n THEN NoWrite
                             ELSE [NoWrite EXCEPT !.f = x.f, !.n = x.n, !.i = x.i + r]]

WriteDone(p, x) ==
    LET i == ftable[x.f].ip r == x.tot IN
    /\ size' = [size EXCEPT ![i] = Max({@, x.off})]
    /\ ftable' = [ftable EXCEPT ![x.f].off = @ + r]
    /\ lock' = [lock EXCEPT ![i] = None]
    /\ w' = [w EXCEPT ![p] = IF r # x.n1 \/ x.i + r = x.n THEN NoWrite
                             ELSE [NoWrite EXCEPT !.f = x.f, !.n = x.n, !.i = x.i + r]]

\* One round of writei()'s loop: no block left, or the copy of m bytes into
\* the block, which may fail after some of them, and what follows.
write_block(p) ==
    LET x == w[p]
        i == ftable[x.f].ip
        e == bmap(Disk(i), x.off \div BSIZE)
        m == Min({x.n1 - x.tot, BSIZE - (x.off % BSIZE)})
        at == x.off % BSIZE
        more == [x EXCEPT !.off = @ + m, !.tot = @ + m]
    IN /\ x.n1 # 0
       /\ used' = e.used /\ addrs' = [addrs EXCEPT ![i] = e.addrs]
       /\ \/ /\ e.b = 0
             /\ block' = e.block
             /\ WriteDone(p, x)
             /\ UNCHANGED bytes
          \/ \E k \in 0 .. m - 1 :
             /\ e.b # 0
             /\ block' = [e.block EXCEPT ![e.b] = Overlay(@, at, k, x.off)]
             /\ bytes' = [bytes EXCEPT ![i] = SubSeq(Overlay(@, x.off, k, x.off), 1, Len(@))]
             /\ WriteDone(p, x)
          \/ /\ e.b # 0
             /\ block' = [e.block EXCEPT ![e.b] = Overlay(@, at, m, x.off)]
             /\ bytes' = [bytes EXCEPT ![i] = Overlay(@, x.off, m, x.off)]
             /\ IF more.tot = x.n1 THEN WriteDone(p, more)
                ELSE w' = [w EXCEPT ![p] = more] /\ UNCHANGED <<size, ftable, lock>>
       /\ UNCHANGED ofile

-----------------------------------------------------------------------------
(* Open files and descriptors. *)

FreeFiles == {f \in File : ftable[f].ref = 0}
FreeFds(p) == {d \in Fd : ofile[p][d] = 0}

\* sys_open() once it has the inode: filealloc() and fdalloc(), either of
\* which may find its table full, then O_TRUNC.
sys_open(p, i, trunc) ==
    /\ Idle(p) /\ lock[i] = None /\ <<p, i>> \in Opens
    /\ FreeFiles # {} /\ FreeFds(p) # {}
    /\ ftable' = [ftable EXCEPT ![Min(FreeFiles)] = [ref |-> 1, ip |-> i, off |-> 0]]
    /\ ofile' = [ofile EXCEPT ![p][Min(FreeFds(p))] = Min(FreeFiles)]
    /\ IF trunc THEN itrunc(i) ELSE UNCHANGED <<used, block, addrs, size, bytes>>
    /\ UNCHANGED <<lock, w>>

\* Mutant: the descriptor shares the file without counting.
filedup_uncounted(table, f) == table

filedup(table, f) == [table EXCEPT ![f].ref = @ + 1]

\* kfork() gives a child, which has nothing open, all its parent's files.
kfork(p, q) ==
    /\ Idle(p) /\ Idle(q) /\ p # q
    /\ FreeFds(q) = Fd /\ FreeFds(p) # Fd
    /\ ofile' = [ofile EXCEPT ![q] = ofile[p]]
    /\ ftable' = FoldFunction(LAMBDA f, table : IF f = 0 THEN table ELSE filedup(table, f),
                              ftable, ofile[p])
    /\ UNCHANGED <<used, block, addrs, size, lock, w, bytes>>

\* close() or exit().
fileclose(p, d) ==
    LET f == ofile[p][d] IN
    /\ Idle(p) /\ f # 0
    /\ ofile' = [ofile EXCEPT ![p][d] = 0]
    /\ ftable' = [ftable EXCEPT ![f] = IF @.ref = 1 THEN NoFile ELSE [@ EXCEPT !.ref = @ - 1]]
    /\ UNCHANGED <<used, block, addrs, size, lock, w, bytes>>

Next ==
    \E p \in Proc :
        \/ writei(p) \/ write_block(p)
        \/ \E i \in Inode, trunc \in BOOLEAN : sys_open(p, i, trunc)
        \/ \E d \in Fd : fileclose(p, d)
        \/ \E d \in Fd, n \in Lens : fileread(p, d, n) \/ filewrite(p, d, n)
        \/ \E q \in Proc : kfork(p, q)

Spec == Init /\ [][Next]_vars

-----------------------------------------------------------------------------
(* Properties. *)

(***************************************************************************)
(* The blocks marked in use are those of the files, and no block belongs   *)
(* to two files or twice to one: also after a write that ran out of blocks *)
(* half way or whose copy failed, and while two writes allocate at once.   *)
(***************************************************************************)
BlocksAccounted ==
    /\ used = UNION {Range(BlocksOf(i)) : i \in Inode}
    /\ \A i \in Inode : IsInjective(BlocksOf(i))
    /\ \A i, j \in Inode : i # j => Range(BlocksOf(i)) \cap Range(BlocksOf(j)) = {}

(***************************************************************************)
(* Of an unlocked file every block below the size is there, so readi(),    *)
(* which runs outside a transaction, never makes bmap() allocate.          *)
(***************************************************************************)
ReadAllocatesNothing ==
    \A i \in Inode : lock[i] = None =>
        \A pos \in 0 .. size[i] - 1 : Mapped(i, pos \div BSIZE)

(***************************************************************************)
(* A read of an unlocked file returns what was written to it, from the     *)
(* offset to the end of the file or n bytes, for every n including zero    *)
(* and numbers that are negative or wrap around as a uint.                 *)
(***************************************************************************)
ReadsWhatWasWritten ==
    \A i \in Inode : lock[i] = None =>
        \A off \in 0 .. size[i] + 1, n \in Lens \cup {0} :
            readi(i, off, n) =
              SubSeq(bytes[i], off + 1,
                     IF n >= 0 THEN Min({size[i], off + n})
                     ELSE IF off + n >= 0 THEN off ELSE size[i])

(***************************************************************************)
(* An open file counts its descriptors, so one that a process is using is  *)
(* never taken for another open().                                         *)
(***************************************************************************)
DescriptorsCounted ==
    \A f \in File :
        ftable[f].ref = Cardinality({x \in Proc \X Fd : ofile[x[1]][x[2]] = f})

(***************************************************************************)
(* Files and blocks are accounted for: each block has one owner, files     *)
(* have no holes, and open files count their descriptors.                  *)
(***************************************************************************)
FileInv ==
    /\ FileTypeOK
    /\ BlocksAccounted
    /\ ReadAllocatesNothing
    /\ DescriptorsCounted
=============================================================================
