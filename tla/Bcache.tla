------------------------------- MODULE Bcache -------------------------------
(***************************************************************************)
(* The buffer cache of kernel/bio.c with the sleep locks of                *)
(* kernel/sleeplock.c.  Processes take buffers with bread(), change them,  *)
(* write them with bwrite() or leave them to the log with bpin(), and give *)
(* them back with brelse().                                                *)
(*                                                                         *)
(* A section under bcache.lock, or under a sleep lock's own spin lock, is  *)
(* one step.  The disk serves a request at once and exactly once (module   *)
(* VirtioDisk implements that).  The callers obey the interface comment at *)
(* the head of bio.c, and a process that holds a buffer takes another only *)
(* as the code in fs.c and log.c does (the relation Nest).                 *)
(***************************************************************************)
EXTENDS Integers, FiniteSets, Sequences

CONSTANTS Proc, Block, Val, InitVal,
    NBUF,
    Nest,       \* pairs <<b, c>>: c may be read while b is held
    MaxHeld,    \* buffers one process holds at a time
    Changed,    \* bound: the blocks whose contents change
    NoBlock, Nobody

ConstantsOK ==
    /\ NBUF \in Nat \ {0} /\ MaxHeld \in Nat \ {0}
    /\ InitVal \in Val /\ NoBlock \notin Block /\ Nobody \notin Proc

Buf == 1 .. NBUF
head == 0               \* bcache.head

VARIABLES
    blockno, valid, refcnt, data,   \* the fields of struct buf
    next, prev,                     \* the LRU list
    locked, asleep,                 \* each buffer's sleep lock and its sleepers
    disk,
    held,       \* the buffers of each process, in the order it took them
    pc, target, \* what it is doing, and to which buffer
    pinned,     \* blocks the log has pinned
    latest,     \* history: what the last holder of each block left in it
    panicked

list == <<next, prev>>
vars == <<blockno, valid, refcnt, data, list, locked, asleep, disk, held, pc,
          target, pinned, latest, panicked>>

\* Types; no reference count of a buffer goes below zero.
BcacheTypeOK ==
    /\ blockno \in [Buf -> Block \cup {NoBlock}] /\ valid \in [Buf -> BOOLEAN]
    /\ refcnt \in [Buf -> Nat] /\ data \in [Buf -> Val]
    /\ next \in [Buf \cup {head} -> Buf \cup {head}]
    /\ prev \in [Buf \cup {head} -> Buf \cup {head}]
    /\ locked \in [Buf -> Proc \cup {Nobody}] /\ asleep \in [Buf -> SUBSET Proc]
    /\ disk \in [Block -> Val]
    /\ \A p \in Proc : held[p] \in Seq(Buf) /\ Len(held[p]) <= MaxHeld
    /\ pc \in [Proc -> {"run", "acquire", "asleep", "locked", "unref"}]
    /\ pinned \subseteq Block

\* binit(): each buffer is put at the front in turn.
Init ==
    /\ blockno = [b \in Buf |-> NoBlock] /\ valid = [b \in Buf |-> FALSE]
    /\ refcnt = [b \in Buf |-> 0] /\ data = [b \in Buf |-> InitVal]
    /\ next = [b \in Buf \cup {head} |-> IF b = head THEN NBUF ELSE b - 1]
    /\ prev = [b \in Buf \cup {head} |-> IF b = NBUF THEN head ELSE b + 1]
    /\ locked = [b \in Buf |-> Nobody] /\ asleep = [b \in Buf |-> {}]
    /\ disk = [b \in Block |-> InitVal]
    /\ held = [p \in Proc |-> << >>]
    /\ pc = [p \in Proc |-> "run"] /\ target = [p \in Proc |-> head]
    /\ pinned = {} /\ latest = disk /\ panicked = FALSE

-----------------------------------------------------------------------------
(* bget() and bread(). *)

\* The buffers met from b on along link before bcache.head.
Scan(link, b) ==
    LET at[n \in 0 .. NBUF] ==
          IF n = 0 THEN link[b] ELSE IF at[n - 1] = head THEN head ELSE link[at[n - 1]]
    IN SelectSeq([n \in 1 .. NBUF |-> at[n - 1]], LAMBDA c : c # head)

Cached(k) == SelectSeq(Scan(next, head), LAMBDA b : blockno[b] = k)
Unused == SelectSeq(Scan(prev, head), LAMBDA b : refcnt[b] = 0)

MayRead(p, k) ==
    /\ pc[p] = "run" /\ ~panicked
    /\ Len(held[p]) < MaxHeld
    /\ \A i \in 1 .. Len(held[p]) : <<blockno[held[p][i]], k>> \in Nest

\* Mutant: a cached buffer is taken without a reference.
bget_cached_unref(p, k) ==
    /\ MayRead(p, k)
    /\ Cached(k) # << >>
    /\ LET b == Cached(k)[1] IN
       /\ target' = [target EXCEPT ![p] = b]
       /\ refcnt' = [refcnt EXCEPT ![b] = IF @ = 0 THEN 1 ELSE @]
    /\ pc' = [pc EXCEPT ![p] = "acquire"]
    /\ UNCHANGED <<blockno, valid, data, list, locked, asleep, disk, held, pinned, latest, panicked>>

\* The block is cached: take a reference; the lock comes next.
bget_cached(p, k) ==
    /\ MayRead(p, k)
    /\ Cached(k) # << >>
    /\ LET b == Cached(k)[1] IN
       /\ target' = [target EXCEPT ![p] = b]
       /\ refcnt' = [refcnt EXCEPT ![b] = @ + 1]
    /\ pc' = [pc EXCEPT ![p] = "acquire"]
    /\ UNCHANGED <<blockno, valid, data, list, locked, asleep, disk, held, pinned, latest, panicked>>

\* Mutant: the recycled buffer keeps its valid flag.
bget_recycle_valid(p, k) ==
    /\ MayRead(p, k)
    /\ Cached(k) = << >> /\ Unused # << >>
    /\ LET b == Unused[1] IN
       /\ target' = [target EXCEPT ![p] = b]
       /\ blockno' = [blockno EXCEPT ![b] = k]
       /\ refcnt' = [refcnt EXCEPT ![b] = 1]
    /\ pc' = [pc EXCEPT ![p] = "acquire"]
    /\ UNCHANGED <<valid, data, list, locked, asleep, disk, held, pinned,
                   latest, panicked>>

\* It is not: recycle the least recently used buffer without references.
bget_recycle(p, k) ==
    /\ MayRead(p, k)
    /\ Cached(k) = << >> /\ Unused # << >>
    /\ LET b == Unused[1] IN
       /\ target' = [target EXCEPT ![p] = b]
       /\ blockno' = [blockno EXCEPT ![b] = k]
       /\ valid' = [valid EXCEPT ![b] = FALSE]
       /\ refcnt' = [refcnt EXCEPT ![b] = 1]
    /\ pc' = [pc EXCEPT ![p] = "acquire"]
    /\ UNCHANGED <<data, list, locked, asleep, disk, held, pinned, latest, panicked>>

\* panic("bget: no buffers").
bget_panic(p, k) ==
    /\ MayRead(p, k)
    /\ Cached(k) = << >> /\ Unused = << >>
    /\ panicked' = TRUE
    /\ UNCHANGED <<blockno, valid, refcnt, data, list, locked, asleep, disk, held, pc,
                   target, pinned, latest>>

\* One round of acquiresleep()'s loop.
acquiresleep(p) ==
    /\ pc[p] = "acquire" /\ ~panicked
    /\ LET b == target[p] IN
       IF locked[b] = Nobody
       THEN /\ locked' = [locked EXCEPT ![b] = p]
            /\ pc' = [pc EXCEPT ![p] = "locked"]
            /\ UNCHANGED asleep
       ELSE /\ asleep' = [asleep EXCEPT ![b] = @ \cup {p}]
            /\ pc' = [pc EXCEPT ![p] = "asleep"]
            /\ UNCHANGED locked
    /\ UNCHANGED <<blockno, valid, refcnt, data, list, disk, held, target, pinned, latest, panicked>>

\* The rest of bread().
bread(p) ==
    /\ pc[p] = "locked" /\ ~panicked
    /\ LET b == target[p] IN
       /\ data' = [data EXCEPT ![b] = IF valid[b] THEN @ ELSE disk[blockno[b]]]
       /\ valid' = [valid EXCEPT ![b] = TRUE]
       /\ held' = [held EXCEPT ![p] = Append(@, b)]
    /\ pc' = [pc EXCEPT ![p] = "run"] /\ target' = [target EXCEPT ![p] = head]
    /\ UNCHANGED <<blockno, refcnt, list, locked, asleep, disk, pinned, latest, panicked>>

-----------------------------------------------------------------------------
(* The holder of a buffer. *)

Top(p) == held[p][Len(held[p])]
Holds(p) == pc[p] = "run" /\ held[p] # << >> /\ ~panicked

\* The holder changes the data and writes it.
bwrite(p, v) ==
    /\ Holds(p) /\ blockno[Top(p)] \in Changed
    /\ locked[Top(p)] = p               \* else panic
    /\ data' = [data EXCEPT ![Top(p)] = v]
    /\ disk' = [disk EXCEPT ![blockno[Top(p)]] = v]
    /\ latest' = [latest EXCEPT ![blockno[Top(p)]] = v]
    /\ UNCHANGED <<blockno, valid, refcnt, list, locked, asleep, held, pc, target,
                   pinned, panicked>>

\* It changes the data and calls log_write(), which pins the buffer when the
\* block is new to the transaction.
bpin(p, v) ==
    /\ Holds(p) /\ blockno[Top(p)] \in Changed
    /\ data' = [data EXCEPT ![Top(p)] = v]
    /\ latest' = [latest EXCEPT ![blockno[Top(p)]] = v]
    /\ IF blockno[Top(p)] \in pinned THEN UNCHANGED <<refcnt, pinned>>
       ELSE /\ refcnt' = [refcnt EXCEPT ![Top(p)] = @ + 1]
            /\ pinned' = pinned \cup {blockno[Top(p)]}
    /\ UNCHANGED <<blockno, valid, list, locked, asleep, disk, held, pc, target, panicked>>

\* Mutant: install_trans() unpins whatever it writes, as in a recovery.
bunpin_any(p) ==
    /\ Holds(p)
    /\ refcnt' = [refcnt EXCEPT ![Top(p)] = @ - 1]
    /\ pinned' = pinned \ {blockno[Top(p)]}
    /\ UNCHANGED <<blockno, valid, data, list, locked, asleep, disk, held, pc, target,
                   latest, panicked>>

\* install_trans() unpins a block it has just written home.
bunpin(p) ==
    /\ Holds(p)
    /\ LET b == Top(p) IN
       /\ blockno[b] \in pinned /\ data[b] = disk[blockno[b]]
       /\ refcnt' = [refcnt EXCEPT ![b] = @ - 1]
       /\ pinned' = pinned \ {blockno[b]}
    /\ UNCHANGED <<blockno, valid, data, list, locked, asleep, disk, held, pc, target,
                   latest, panicked>>

-----------------------------------------------------------------------------
(* brelse(): the sleep lock first, the reference in a second section. *)

\* Mutant: releasesleep() wakes one sleeper only.
releasesleep_one(p) ==
    /\ Holds(p)
    /\ LET b == Top(p) w == IF asleep[b] = {} THEN Nobody ELSE CHOOSE q \in asleep[b] : TRUE IN
       /\ locked' = [locked EXCEPT ![b] = Nobody]
       /\ asleep' = [asleep EXCEPT ![b] = @ \ {w}]
       /\ pc' = [q \in Proc |-> IF q = p THEN "unref" ELSE IF q = w THEN "acquire" ELSE pc[q]]
       /\ target' = [target EXCEPT ![p] = b]
    /\ held' = [held EXCEPT ![p] = SubSeq(@, 1, Len(@) - 1)]
    /\ UNCHANGED <<blockno, valid, refcnt, data, list, disk, pinned, latest, panicked>>

releasesleep(p) ==
    /\ Holds(p)
    /\ LET b == Top(p) IN
       /\ locked[b] = p                 \* else panic
       /\ locked' = [locked EXCEPT ![b] = Nobody]
       /\ asleep' = [asleep EXCEPT ![b] = {}]
       /\ pc' = [q \in Proc |-> IF q = p THEN "unref"
                                ELSE IF q \in asleep[b] THEN "acquire" ELSE pc[q]]
       /\ target' = [target EXCEPT ![p] = b]
    /\ held' = [held EXCEPT ![p] = SubSeq(@, 1, Len(@) - 1)]
    /\ UNCHANGED <<blockno, valid, refcnt, data, list, disk, pinned, latest, panicked>>

\* Mutant: b->next->prev is not updated when b is taken out.
MoveToFrontHalf(b) ==
    LET n1 == [next EXCEPT ![prev[b]] = next[b]]
        n2 == [n1 EXCEPT ![b] = n1[head]]
        q2 == [prev EXCEPT ![b] = head]
    IN /\ prev' = [q2 EXCEPT ![n2[head]] = b]
       /\ next' = [n2 EXCEPT ![head] = b]

\* Out of the list and in again behind the head.
MoveToFront(b) ==
    LET q1 == [prev EXCEPT ![next[b]] = prev[b]]
        n1 == [next EXCEPT ![q1[b]] = next[b]]
        n2 == [n1 EXCEPT ![b] = n1[head]]
        q2 == [q1 EXCEPT ![b] = head]
    IN /\ prev' = [q2 EXCEPT ![n2[head]] = b]
       /\ next' = [n2 EXCEPT ![head] = b]

brelse(p) ==
    /\ pc[p] = "unref" /\ ~panicked
    /\ LET b == target[p] IN
       /\ refcnt' = [refcnt EXCEPT ![b] = @ - 1]
       /\ IF refcnt[b] = 1 THEN MoveToFront(b) ELSE UNCHANGED list
    /\ pc' = [pc EXCEPT ![p] = "run"] /\ target' = [target EXCEPT ![p] = head]
    /\ UNCHANGED <<blockno, valid, data, locked, asleep, disk, held, pinned, latest, panicked>>

\* A panicked kernel spins.
Halted == panicked /\ UNCHANGED vars

Next ==
    \/ \E p \in Proc, k \in Block : bget_cached(p, k) \/ bget_recycle(p, k) \/ bget_panic(p, k)
    \/ \E p \in Proc, v \in Val : bwrite(p, v) \/ bpin(p, v)
    \/ \E p \in Proc : acquiresleep(p) \/ bread(p) \/ bunpin(p)
                       \/ releasesleep(p) \/ brelse(p)
    \/ Halted

Spec == Init /\ [][Next]_vars

-----------------------------------------------------------------------------
(* Properties. *)

Users(b) ==
    {p \in Proc : (pc[p] # "run" /\ target[p] = b) \/ \E i \in 1 .. Len(held[p]) : held[p][i] = b}

(***************************************************************************)
(* One buffer per block, and its reference count is exactly the processes  *)
(* that hold it, wait for it or are giving it back, and the log's pin, so  *)
(* that bget() never recycles a buffer somebody still uses.  When bget()   *)
(* panics, every buffer is in one of these uses.                           *)
(***************************************************************************)
RefcntExact ==
    /\ \A b, c \in Buf : blockno[b] = blockno[c] /\ b # c => blockno[b] = NoBlock
    /\ \A b \in Buf :
          refcnt[b] = Cardinality(Users(b)) + (IF blockno[b] \in pinned THEN 1 ELSE 0)
    /\ panicked => \A b \in Buf : Users(b) # {} \/ blockno[b] \in pinned

(***************************************************************************)
(* A process that bread() has given a buffer is alone with it, and finds   *)
(* in it what the last holder of that block left, whether the buffer       *)
(* stayed in the cache or was recycled and read again.                     *)
(***************************************************************************)
HolderSeesLatest ==
    \A p \in Proc : \A i \in 1 .. Len(held[p]) :
        LET b == held[p][i] IN
        /\ locked[b] = p
        /\ data[b] = latest[blockno[b]]

(***************************************************************************)
(* The list: the pointers of MoveToFront keep all buffers on one circle    *)
(* through bcache.head, prev being the inverse of next.                    *)
(***************************************************************************)
ListIsCircle ==
    /\ \A b \in Buf \cup {head} : prev[next[b]] = b /\ next[prev[b]] = b
    /\ Len(Scan(next, head)) = NBUF

WaitsFor == {<<p, q>> \in Proc \X Proc : pc[p] = "asleep" /\ locked[target[p]] = q}

(***************************************************************************)
(* Sleep locks: whoever sleeps on one sleeps while it is held, by a        *)
(* process that is not itself asleep behind the sleeper: no lost wake-up,  *)
(* and no circle of processes holding buffers the others wait for.         *)
(***************************************************************************)
SleepersHaveRunningHolder ==
    LET Blocked[n \in 0 .. Cardinality(Proc)] ==
          IF n = 0 THEN {p \in Proc : pc[p] = "asleep"}
          ELSE {p \in Blocked[n - 1] : \E q \in Blocked[n - 1] : <<p, q>> \in WaitsFor}
    IN /\ \A p \in Proc : pc[p] = "asleep" => \E q \in Proc : <<p, q>> \in WaitsFor
       /\ Blocked[Cardinality(Proc)] = {}

(***************************************************************************)
(* The cache is sound: its counts and its list are exact, whoever holds a  *)
(* buffer sees the latest contents of the block, and a sleeper on a sleep  *)
(* lock waits for a process that can run.                                  *)
(***************************************************************************)
BcacheInv ==
    /\ BcacheTypeOK
    /\ RefcntExact
    /\ ListIsCircle
    /\ HolderSeesLatest
    /\ SleepersHaveRunningHolder
=============================================================================
