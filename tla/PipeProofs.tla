----------------------------- MODULE PipeProofs -----------------------------
(***************************************************************************)
(* Proofs about the pipes of module Pipe, for any number of readers and    *)
(* writers, any buffer size and any width of the counters: PipeInv holds,  *)
(* the ring buffer is the bounded queue of module Fifo, and read() returns *)
(* 0 only at the end of the stream.                                        *)
(***************************************************************************)
EXTENDS Pipe, TLAPS

-----------------------------------------------------------------------------
(* Arithmetic of the counters and of the positions in the buffer. *)

\* A remainder lies below the divisor.
LEMMA ModRange ==
    ASSUME NEW a \in Int, NEW m \in Nat \ {0}
    PROVE  a % m \in 0 .. m - 1
OBVIOUS

\* The remainder of a number within one divisor of the range.
LEMMA ModNear ==
    ASSUME NEW m \in Nat \ {0}, NEW a \in Int, -m <= a, a < 2 * m
    PROVE  a % m = IF a < 0 THEN a + m ELSE IF a < m THEN a ELSE a - m
OBVIOUS

\* Numbers less than PIPESIZE apart, modulo a multiple of it, have different
\* positions in the buffer.
LEMMA PlacesDiffer ==
    ASSUME NEW m \in Nat \ {0}, NEW j \in Int, NEW a \in Nat, NEW b \in Nat,
           NEW d \in 1 .. m - 1, b - a = d + j * m
    PROVE  a % m # b % m
<1> SUFFICES ASSUME a % m = b % m
             PROVE  FALSE
  BY Zenon
<1> DEFINE x == a \div m
           y == b \div m
<1>1. x \in Int /\ a = (x * m) + (a % m)
  OBVIOUS
<1>2. y \in Int /\ b = (y * m) + (b % m)
  OBVIOUS
<1> HIDE DEF x, y
<1>3. a % m \in Int /\ b % m \in Int
  OBVIOUS
<1> DEFINE z == y - x - j
<1>4. z \in Int /\ d = z * m
  BY <1>1, <1>2, <1>3
<1> HIDE DEF z
<1>5. z <= 0 \/ z >= 1
  BY <1>4
<1>6. z * m <= 0 \/ z * m >= m
  BY <1>4, <1>5
<1> QED
  BY <1>4, <1>6

-----------------------------------------------------------------------------
(* The inductive invariant. *)

\* pi->lock is held by the process inside the loops of its call.
LockInv ==
    \A p \in User :
        /\ pc[p] \in {"loop", "copy"} <=> lk = p
        /\ pc[p] = "copy" => p \in Reader
        /\ pc[p] # "idle" => 0 <= i[p] /\ i[p] <= n[p]

\* An end is open as long as a process holds it, and a process inside a
\* call holds its end.
EndInv ==
    /\ \A p \in User : pc[p] # "idle" => fd[p]
    /\ \A p \in Writer : fd[p] => writeopen
    /\ \A p \in Reader : fd[p] => readopen
    /\ freed => ~readopen /\ ~writeopen

\* The buffer never overflows.  A sleeper has a reason to sleep, unless the
\* process that removed it holds the lock and has yet to call wakeup().  A
\* reader that has copied nothing so far has found a byte or the end.
WaitInv ==
    /\ Count <= PIPESIZE
    /\ \A p \in Reader : pc[p] = "asleep" => (Empty /\ writeopen) \/ lk \in Writer
    /\ \A p \in Writer : pc[p] = "asleep" =>
          (Full /\ readopen) \/ (lk \in Reader /\ pc[lk] = "copy")
    /\ \A p \in Reader : pc[p] = "copy" /\ i[p] = 0 => ~Empty \/ ~writeopen

PipeIInv == TypeOK /\ LockInv /\ EndInv /\ WaitInv

-----------------------------------------------------------------------------
(* The counters. *)

\* The counters are wider than the buffer.
LEMMA Sizes ==
    /\ PIPESIZE \in Nat /\ PIPESIZE > 0 /\ MaxN \in Nat /\ MaxN > 0
    /\ UINT \in Nat /\ UINT > 0 /\ PIPESIZE < UINT
<1>1. PICK k \in 2 .. UINT : UINT = k * PIPESIZE
  BY PipeAssumption, Zenon
<1>2. PIPESIZE \in Nat /\ PIPESIZE > 0 /\ MaxN \in Nat /\ MaxN > 0 /\ UINT \in Nat
  BY PipeAssumption
<1>3. k * PIPESIZE >= 2 * PIPESIZE
  BY <1>2
<1> QED
  BY <1>1, <1>2, <1>3

\* The distance between two counters.
LEMMA Distance ==
    ASSUME NEW r \in 0 .. UINT - 1, NEW w \in 0 .. UINT - 1
    PROVE  (w - r) % UINT = IF w >= r THEN w - r ELSE w - r + UINT
<1>1. UINT \in Nat \ {0}
  BY Sizes
<1>2. w - r \in Int /\ -UINT <= w - r /\ w - r < 2 * UINT
  BY <1>1
<1>3. (w - r) % UINT = IF w - r < 0 THEN w - r + UINT ELSE IF w - r < UINT THEN w - r ELSE w - r - UINT
  BY <1>1, <1>2, ModNear, Zenon
<1> QED
  BY <1>1, <1>3

\* A counter one step further.
LEMMA Bump ==
    ASSUME NEW c \in 0 .. UINT - 1
    PROVE  (c + 1) % UINT = IF c = UINT - 1 THEN 0 ELSE c + 1
<1>1. UINT \in Nat \ {0}
  BY Sizes
<1> DEFINE a == c + 1
<1>2. a \in Int /\ -UINT <= a /\ a < 2 * UINT /\ a >= 0
  BY <1>1
<1>3. a % UINT = IF a < 0 THEN a + UINT ELSE IF a < UINT THEN a ELSE a - UINT
  <2> HIDE DEF a
  <2> QED
    BY <1>1, <1>2, ModNear, Zenon
<1> QED
  BY <1>1, <1>2, <1>3

\* What "empty" and "full" mean for the number of bytes in the buffer.
LEMMA CountFacts ==
    ASSUME TypeOK
    PROVE  /\ Count \in 0 .. UINT - 1
           /\ Count = IF nwrite >= nread THEN nwrite - nread ELSE nwrite - nread + UINT
           /\ Empty <=> Count = 0
           /\ Full <=> Count = PIPESIZE
<1>1. nread \in 0 .. UINT - 1 /\ nwrite \in 0 .. UINT - 1
  BY Zenon DEF TypeOK
<1>2. Count = IF nwrite >= nread THEN nwrite - nread ELSE nwrite - nread + UINT
  BY <1>1, Distance, Zenon DEF Count
<1>3. (nread + PIPESIZE) % UINT =
         IF nread + PIPESIZE < UINT THEN nread + PIPESIZE ELSE nread + PIPESIZE - UINT
  <2>1. UINT \in Nat \ {0} /\ PIPESIZE \in Nat /\ PIPESIZE < UINT
    BY Sizes
  <2> DEFINE a == nread + PIPESIZE
  <2>2. a \in Int /\ -UINT <= a /\ a < 2 * UINT /\ a >= 0
    BY <1>1, <2>1
  <2>3. a % UINT = IF a < 0 THEN a + UINT ELSE IF a < UINT THEN a ELSE a - UINT
    <3> HIDE DEF a
    <3> QED
      BY <2>1, <2>2, ModNear, Zenon
  <2> QED
    BY <1>1, <2>1, <2>2, <2>3
<1>4. Count \in 0 .. UINT - 1 /\ (Empty <=> Count = 0)
  BY <1>1, <1>2, Sizes DEF Empty
<1>5. Full <=> Count = PIPESIZE
  BY <1>1, <1>2, <1>3, Sizes DEF Full
<1> QED
  BY <1>2, <1>4, <1>5, Zenon

\* pipewrite() stores a byte: one more in the buffer.
LEMMA CountPut ==
    ASSUME TypeOK, Count < PIPESIZE,
           nwrite' = (nwrite + 1) % UINT, nread' = nread
    PROVE  Count' = Count + 1 /\ nwrite' \in 0 .. UINT - 1
<1>1. nread \in 0 .. UINT - 1 /\ nwrite \in 0 .. UINT - 1
  BY Zenon DEF TypeOK
<1>2. nwrite' = IF nwrite = UINT - 1 THEN 0 ELSE nwrite + 1
  BY <1>1, Bump, Zenon
<1>3. nwrite' \in 0 .. UINT - 1
  BY <1>1, <1>2, Sizes
<1>4. Count' = IF nwrite' >= nread THEN nwrite' - nread ELSE nwrite' - nread + UINT
  BY <1>1, <1>3, Distance, Zenon DEF Count
<1> QED
  BY <1>1, <1>2, <1>3, <1>4, CountFacts, Sizes

\* piperead() takes a byte: one less in the buffer.
LEMMA CountGet ==
    ASSUME TypeOK, ~Empty,
           nread' = (nread + 1) % UINT, nwrite' = nwrite
    PROVE  Count' = Count - 1 /\ nread' \in 0 .. UINT - 1
<1>1. nread \in 0 .. UINT - 1 /\ nwrite \in 0 .. UINT - 1
  BY Zenon DEF TypeOK
<1>2. nread' = IF nread = UINT - 1 THEN 0 ELSE nread + 1
  BY <1>1, Bump, Zenon
<1>3. nread' \in 0 .. UINT - 1
  BY <1>1, <1>2, Sizes
<1>4. Count' = IF nwrite >= nread' THEN nwrite - nread' ELSE nwrite - nread' + UINT
  BY <1>1, <1>3, Distance, Zenon DEF Count
<1>5. Count > 0
  BY CountFacts, Sizes
<1> QED
  BY <1>1, <1>2, <1>3, <1>4, <1>5, CountFacts, Sizes

-----------------------------------------------------------------------------
(* Every step preserves the invariant. *)

\* A new pipe.
LEMMA InitInv ==
    ASSUME Init
    PROVE  PipeIInv
<1>1. TypeOK
  <2>1. nread \in 0 .. UINT - 1 /\ nwrite \in 0 .. UINT - 1
    BY Sizes DEF Init
  <2>2. readopen \in BOOLEAN /\ writeopen \in BOOLEAN /\ freed \in BOOLEAN
    BY Zenon DEF Init
  <2>3. fd \in [User -> BOOLEAN]
    BY Zenon DEF Init
  <2>4. pc \in [User -> PC] /\ lk \in User \cup {Nobody}
    BY Zenon DEF Init, PC
  <2>5. i \in [User -> -1 .. MaxN] /\ n \in [User -> 0 .. MaxN]
    BY Sizes DEF Init
  <2>6. data \in [0 .. PIPESIZE - 1 -> Byte]
    BY Zenon DEF Init
  <2> QED
    BY <2>1, <2>2, <2>3, <2>4, <2>5, <2>6, Zenon DEF TypeOK
<1>2. LockInv
  BY PipeAssumption, Zenon DEF Init, LockInv
<1>3. EndInv
  BY Zenon DEF Init, EndInv, User
<1>4. WaitInv
  <2>1. Count = 0
    BY <1>1, CountFacts, Zenon DEF Init, Empty
  <2> QED
    BY <2>1, Sizes DEF Init, WaitInv, User
<1> QED
  BY <1>1, <1>2, <1>3, <1>4, Zenon DEF PipeIInv

\* The account of the bytes does not change with the counters untouched.
LEMMA CountFrame ==
    ASSUME UNCHANGED <<nread, nwrite>>
    PROVE  Count' = Count /\ (Empty' <=> Empty) /\ (Full' <=> Full)
BY Zenon DEF Count, Empty, Full

\* A process that gives pi->lock up, to return or to sleep, has woken those
\* in S: everybody who sleeps without a reason.
LEMMA Release ==
    ASSUME PipeIInv, NEW p \in User, NEW S, NEW to \in {"idle", "asleep"},
           lk = p, lk' = Nobody,
           pc' = [Wake(S) EXCEPT ![p] = to],
           UNCHANGED <<nread, nwrite, readopen, writeopen, freed, fd>>,
           \A q \in User : q # p \/ to = "asleep" => i'[q] = i[q] /\ n'[q] = n[q],
           \A q \in Reader : pc[q] = "asleep" => q \in S \/ (Empty /\ writeopen),
           \A q \in Writer : pc[q] = "asleep" => q \in S \/ (Full /\ readopen),
           to = "asleep" => IF p \in Reader THEN Empty /\ writeopen ELSE Full /\ readopen
    PROVE  LockInv' /\ EndInv' /\ WaitInv'
<1>1. \A q \in User :
         pc'[q] = IF q = p THEN to
                  ELSE IF q \in S /\ pc[q] = "asleep" THEN "lock" ELSE pc[q]
  BY Zenon DEF Wake
<1>2. LockInv'
  BY <1>1, PipeAssumption DEF LockInv, PipeIInv
<1>3. EndInv'
  BY <1>1 DEF EndInv, LockInv, PipeIInv
<1>4. Count' = Count /\ (Empty' <=> Empty) /\ (Full' <=> Full)
  BY CountFrame, Zenon
<1>5. \A q \in User : pc'[q] # "copy"
  BY <1>1 DEF LockInv, PipeIInv
<1>6. \A q \in Reader : pc'[q] = "asleep" => Empty' /\ writeopen'
  <2>1. \A q \in Reader : q \in User
    BY Zenon DEF User
  <2> QED
    BY <1>1, <1>4, <2>1
<1>7. \A q \in Writer : pc'[q] = "asleep" => Full' /\ readopen'
  <2>1. \A q \in Writer : q \in User /\ q \notin Reader
    BY PipeAssumption, Zenon DEF User
  <2> QED
    BY <1>1, <1>4, <2>1
<1>8. WaitInv'
  BY <1>4, <1>5, <1>6, <1>7, Zenon DEF WaitInv, User, PipeIInv
<1> QED
  BY <1>2, <1>3, <1>8, Zenon

\* Nobody sleeps on an end that is closed.
LEMMA AsleepOpen ==
    ASSUME PipeIInv
    PROVE  /\ \A q \in Reader : pc[q] = "asleep" => readopen
           /\ \A q \in Writer : pc[q] = "asleep" => writeopen
BY Zenon DEF PipeIInv, EndInv, User

\* The holder of the lock, and what holds for the other side's sleepers.
LEMMA HolderFacts ==
    ASSUME PipeIInv, NEW p \in User, pc[p] \in {"loop", "copy"}
    PROVE  /\ lk = p /\ fd[p] /\ 0 <= i[p] /\ i[p] <= n[p]
           /\ p \in Writer => /\ p \notin Reader /\ writeopen /\ pc[p] = "loop"
                              /\ \A q \in Writer : pc[q] = "asleep" => Full /\ readopen
           /\ p \in Reader => /\ p \notin Writer /\ readopen
                              /\ \A q \in Reader : pc[q] = "asleep" => Empty /\ writeopen
                              /\ pc[p] = "loop" =>
                                   \A q \in Writer : pc[q] = "asleep" => Full /\ readopen
<1>1. lk = p /\ fd[p] /\ 0 <= i[p] /\ i[p] <= n[p]
  BY Zenon DEF LockInv, EndInv, PipeIInv
<1>2. \A q : ~(q \in Reader /\ q \in Writer)
  BY PipeAssumption, Zenon
<1>3. p \in Writer => pc[p] = "loop" /\ writeopen
  BY <1>1, <1>2, Zenon DEF LockInv, EndInv, PipeIInv
<1>4. p \in Reader => readopen
  BY <1>1, Zenon DEF EndInv, PipeIInv
<1>5. p \in Writer => \A q \in Writer : pc[q] = "asleep" => Full /\ readopen
  BY <1>1, <1>2, Zenon DEF WaitInv, PipeIInv
<1>6. p \in Reader => \A q \in Reader : pc[q] = "asleep" => Empty /\ writeopen
  BY <1>1, <1>2, Zenon DEF WaitInv, PipeIInv
<1>7. p \in Reader /\ pc[p] = "loop" => \A q \in Writer : pc[q] = "asleep" => Full /\ readopen
  BY <1>1, Zenon DEF WaitInv, PipeIInv
<1> QED
  BY <1>1, <1>2, <1>3, <1>4, <1>5, <1>6, <1>7, Zenon

\* The types after a return or a sleep.
LEMMA ReleaseType ==
    ASSUME TypeOK, NEW p \in User, NEW S, NEW to \in {"idle", "asleep"},
           lk' = Nobody, pc' = [Wake(S) EXCEPT ![p] = to],
           UNCHANGED <<pipe, fd>>,
           i' \in [User -> -1 .. MaxN], n' \in [User -> 0 .. MaxN]
    PROVE  TypeOK'
<1>1. pc' \in [User -> PC]
  BY Zenon DEF Wake, TypeOK, PC
<1> QED
  BY <1>1, Zenon DEF TypeOK, pipe

\* read() or write() is called.
LEMMA CallInv ==
    ASSUME PipeIInv, NEW p \in User, NEW k \in 0 .. MaxN, Call(p, k)
    PROVE  PipeIInv'
<1>1. /\ UNCHANGED <<lk, data, nread, nwrite, readopen, writeopen, freed, fd>>
      /\ pc[p] = "idle" /\ fd[p] /\ pc' = [pc EXCEPT ![p] = "lock"]
      /\ i' = [i EXCEPT ![p] = 0] /\ n' = [n EXCEPT ![p] = k]
  BY Zenon DEF Call, Goto, pipe
<1>2. TypeOK'
  <2>1. 0 \in -1 .. MaxN
    BY Sizes
  <2> QED
    BY <1>1, <2>1, Zenon DEF TypeOK, PC, PipeIInv
<1>3. /\ pc'[p] = "lock" /\ i'[p] = 0 /\ n'[p] = k
      /\ \A q \in User : q # p => pc'[q] = pc[q] /\ i'[q] = i[q] /\ n'[q] = n[q]
  BY <1>1, Zenon DEF TypeOK, PipeIInv
<1>4. LockInv'
  BY <1>1, <1>3 DEF LockInv, PipeIInv
<1>5. EndInv'
  BY <1>1, <1>3 DEF EndInv, PipeIInv
<1>6. WaitInv'
  <2>1. Count' = Count /\ (Empty' <=> Empty) /\ (Full' <=> Full)
    BY <1>1, CountFrame, Zenon
  <2>2. lk \in User => pc[lk] # "idle"
    BY Zenon DEF LockInv, PipeIInv
  <2> QED
    BY <1>1, <1>3, <2>1, <2>2 DEF WaitInv, User, PipeIInv
<1> QED
  BY <1>2, <1>4, <1>5, <1>6, Zenon DEF PipeIInv

\* A sleeper is made runnable.
LEMMA KillInv ==
    ASSUME PipeIInv, NEW p \in User, kkill(p)
    PROVE  PipeIInv'
<1>1. /\ UNCHANGED <<lk, data, nread, nwrite, readopen, writeopen, freed, fd, i, n>>
      /\ pc[p] = "asleep" /\ pc' = [pc EXCEPT ![p] = "lock"]
  BY Zenon DEF kkill, Goto, pipe
<1>2. TypeOK'
  BY <1>1, Zenon DEF TypeOK, PC, PipeIInv
<1>3. pc'[p] = "lock" /\ \A q \in User : q # p => pc'[q] = pc[q]
  BY <1>1, Zenon DEF TypeOK, PipeIInv
<1>4. LockInv'
  BY <1>1, <1>3, Zenon DEF LockInv, PipeIInv
<1>5. EndInv'
  BY <1>1, <1>3, Zenon DEF EndInv, PipeIInv
<1>6. WaitInv'
  <2>1. Count' = Count /\ (Empty' <=> Empty) /\ (Full' <=> Full)
    BY <1>1, CountFrame, Zenon
  <2> QED
    BY <1>1, <1>3, <2>1, Zenon DEF WaitInv, User, PipeIInv
<1> QED
  BY <1>2, <1>4, <1>5, <1>6, Zenon DEF PipeIInv

\* acquire(&pi->lock): whoever sleeps has a reason to.
LEMMA AcquireInv ==
    ASSUME PipeIInv, NEW p \in User, AcquireLock(p)
    PROVE  PipeIInv'
<1>1. /\ UNCHANGED <<data, nread, nwrite, readopen, writeopen, freed, fd, i, n>>
      /\ lk = Nobody /\ lk' = p
      /\ pc[p] = "lock" /\ pc' = [pc EXCEPT ![p] = "loop"]
  BY Zenon DEF AcquireLock, Goto, pipe
<1>2. TypeOK'
  BY <1>1, Zenon DEF TypeOK, PC, PipeIInv
<1>3. pc'[p] = "loop" /\ \A q \in User : q # p => pc'[q] = pc[q]
  BY <1>1, Zenon DEF TypeOK, PipeIInv
<1>4. Nobody \notin User
  BY PipeAssumption, Zenon
<1>5. LockInv'
  BY <1>1, <1>3, <1>4, Zenon DEF LockInv, PipeIInv
<1>6. EndInv'
  BY <1>1, <1>3, Zenon DEF EndInv, PipeIInv
<1>7. WaitInv'
  <2>1. Count' = Count /\ (Empty' <=> Empty) /\ (Full' <=> Full)
    BY <1>1, CountFrame, Zenon
  <2>2. \A q \in User : pc'[q] # "copy"
    BY <1>1, <1>3, <1>4, Zenon DEF LockInv, PipeIInv
  <2> QED
    BY <1>1, <1>3, <1>4, <2>1, <2>2, Zenon DEF WaitInv, User, PipeIInv
<1> QED
  BY <1>2, <1>5, <1>6, <1>7, Zenon DEF PipeIInv

\* pipewrite(): a writer stores a byte and keeps the lock, sleeps after waking
\* the readers when the buffer is full, or returns.
LEMMA WriteInv ==
    ASSUME PipeIInv, NEW p \in User, NEW ch \in Byte, pipewrite(p, ch)
    PROVE  PipeIInv'
<1>1. p \in Writer /\ pc[p] = "loop" /\ i[p] < n[p] /\ fd' = fd
  BY Zenon DEF pipewrite
<1>2. /\ lk = p /\ fd[p] /\ 0 <= i[p] /\ p \notin Reader /\ writeopen
      /\ \A q \in Writer : pc[q] = "asleep" => Full /\ readopen
  BY <1>1, HolderFacts, Zenon
<1>3. i \in [User -> -1 .. MaxN] /\ n \in [User -> 0 .. MaxN] /\ MaxN \in Nat
  BY Sizes, Zenon DEF TypeOK, PipeIInv
<1>4. CASE ~readopen /\ i' = [i EXCEPT ![p] = -1] /\ Leave(p, {}) /\ UNCHANGED pipe
  <2>1. /\ lk' = Nobody /\ pc' = [Wake({}) EXCEPT ![p] = "idle"] /\ n' = [n EXCEPT ![p] = 0]
        /\ UNCHANGED <<data, nread, nwrite, readopen, writeopen, freed>>
    BY <1>4, Zenon DEF Leave, pipe
  <2>2. i' \in [User -> -1 .. MaxN] /\ n' \in [User -> 0 .. MaxN]
    BY <1>3, <1>4, <2>1
  <2>3. TypeOK'
    BY <1>1, <1>4, <2>1, <2>2, ReleaseType, Zenon DEF PipeIInv
  <2>4. \A q \in User : q # p => i'[q] = i[q] /\ n'[q] = n[q]
    BY <1>3, <1>4, <2>1, Zenon
  <2>5. \A q \in Reader : pc[q] # "asleep"
    BY <1>4, AsleepOpen, Zenon
  <2> QED
    BY <1>1, <1>2, <2>1, <2>3, <2>4, <2>5, Release, Zenon DEF PipeIInv
<1>5. CASE readopen /\ Full /\ SleepAfterWaking(p, Reader) /\ UNCHANGED <<pipe, i, n>>
  <2>1. /\ lk' = Nobody /\ pc' = [Wake(Reader) EXCEPT ![p] = "asleep"]
        /\ UNCHANGED <<data, nread, nwrite, readopen, writeopen, freed, i, n>>
    BY <1>5, Zenon DEF SleepAfterWaking, pipe
  <2>2. TypeOK'
    BY <1>1, <1>3, <1>5, <2>1, ReleaseType, Zenon DEF PipeIInv
  <2> QED
    BY <1>1, <1>2, <1>5, <2>1, <2>2, Release, Zenon DEF PipeIInv
<1>6. CASE readopen /\ ~Full /\ Leave(p, Reader) /\ UNCHANGED <<pipe, i>>
  <2>1. /\ lk' = Nobody /\ pc' = [Wake(Reader) EXCEPT ![p] = "idle"] /\ n' = [n EXCEPT ![p] = 0]
        /\ UNCHANGED <<data, nread, nwrite, readopen, writeopen, freed, i>>
    BY <1>6, Zenon DEF Leave, pipe
  <2>2. n' \in [User -> 0 .. MaxN] /\ \A q \in User : q # p => n'[q] = n[q]
    BY <1>3, <2>1
  <2>3. TypeOK'
    BY <1>1, <1>3, <1>6, <2>1, <2>2, ReleaseType, Zenon DEF PipeIInv
  <2> QED
    BY <1>1, <1>2, <2>1, <2>2, <2>3, Release, Zenon DEF PipeIInv
<1>7. CASE /\ readopen /\ ~Full
           /\ data' = [data EXCEPT ![nwrite % PIPESIZE] = ch]
           /\ nwrite' = (nwrite + 1) % UINT
           /\ i' = [i EXCEPT ![p] = @ + 1]
           /\ UNCHANGED <<lk, nread, readopen, writeopen, freed, pc, n>>
  <2>1. Count < PIPESIZE /\ Count \in Nat
    BY <1>7, CountFacts, Sizes DEF WaitInv, PipeIInv
  <2>2. Count' = Count + 1 /\ nwrite' \in 0 .. UINT - 1
    BY <1>7, <2>1, CountPut, Zenon DEF PipeIInv
  <2>3. i'[p] = i[p] + 1 /\ \A q \in User : q # p => i'[q] = i[q]
    BY <1>3, <1>7, Zenon
  <2>4. TypeOK'
    <3>1. i' \in [User -> -1 .. MaxN]
      BY <1>1, <1>3, <1>7
    <3>2. data' \in [0 .. PIPESIZE - 1 -> Byte]
      BY <1>7, Zenon DEF TypeOK, PipeIInv
    <3> QED
      BY <1>1, <1>7, <2>2, <3>1, <3>2, Zenon DEF TypeOK, PipeIInv
  <2>5. LockInv'
    BY <1>1, <1>2, <1>3, <1>7, <2>3 DEF LockInv, PipeIInv
  <2>6. EndInv'
    BY <1>1, <1>7, Zenon DEF EndInv, PipeIInv
  <2>7. WaitInv'
    <3>1. Count' <= PIPESIZE
      BY <2>1, <2>2, Sizes
    <3>2. \A q \in Writer : pc[q] # "asleep"
      BY <1>2, <1>7, Zenon
    <3>3. \A q \in User : pc[q] # "copy"
      BY <1>1, <1>2, Zenon DEF LockInv, PipeIInv
    <3> QED
      BY <1>1, <1>2, <1>7, <3>1, <3>2, <3>3, Zenon DEF WaitInv, User
  <2> QED
    BY <2>4, <2>5, <2>6, <2>7, Zenon DEF PipeIInv
<1> QED
  BY <1>4, <1>5, <1>6, <1>7, Zenon DEF pipewrite

\* pipewrite() returns after its last byte.
LEMMA WriteDoneInv ==
    ASSUME PipeIInv, NEW p \in User, pipewrite_done(p)
    PROVE  PipeIInv'
<1>1. /\ p \in Writer /\ pc[p] = "loop"
      /\ lk' = Nobody /\ pc' = [Wake(Reader) EXCEPT ![p] = "idle"] /\ n' = [n EXCEPT ![p] = 0]
      /\ UNCHANGED <<pipe, fd, i>>
  BY Zenon DEF pipewrite_done, Leave
<1>2. lk = p /\ \A q \in Writer : pc[q] = "asleep" => Full /\ readopen
  BY <1>1, HolderFacts, Zenon
<1>3. n' \in [User -> 0 .. MaxN] /\ \A q \in User : q # p => n'[q] = n[q]
  BY <1>1, Sizes DEF TypeOK, PipeIInv
<1>4. TypeOK'
  BY <1>1, <1>3, ReleaseType, Zenon DEF TypeOK, PipeIInv
<1>5. UNCHANGED <<nread, nwrite, readopen, writeopen, freed>>
  BY <1>1, Zenon DEF pipe
<1> QED
  BY <1>1, <1>2, <1>3, <1>4, <1>5, Release, Zenon DEF PipeIInv

\* The while loop of piperead(): a reader sleeps on an empty pipe that has a
\* writer, or goes on to copy.
LEMMA ReadWaitInv ==
    ASSUME PipeIInv, NEW p \in User, piperead_wait(p)
    PROVE  PipeIInv'
<1>1. /\ p \in Reader /\ pc[p] = "loop"
      /\ UNCHANGED <<data, nread, nwrite, readopen, writeopen, freed, fd, i, n>>
  BY Zenon DEF piperead_wait, pipe
<1>2. /\ lk = p /\ p \notin Writer
      /\ \A q \in Reader : pc[q] = "asleep" => Empty /\ writeopen
      /\ \A q \in Writer : pc[q] = "asleep" => Full /\ readopen
  BY <1>1, HolderFacts, Zenon
<1>3. CASE Empty /\ writeopen
  <2>1. lk' = Nobody /\ pc' = [Wake({}) EXCEPT ![p] = "asleep"]
    BY <1>3, Zenon DEF piperead_wait, SleepAfterWaking
  <2>2. TypeOK'
    BY <1>1, <2>1, ReleaseType, Zenon DEF TypeOK, pipe, PipeIInv
  <2> QED
    BY <1>1, <1>2, <1>3, <2>1, <2>2, Release, Zenon DEF PipeIInv
<1>4. CASE ~(Empty /\ writeopen)
  <2>1. lk' = lk /\ pc' = [pc EXCEPT ![p] = "copy"]
    BY <1>4, Zenon DEF piperead_wait, Goto
  <2>2. pc'[p] = "copy" /\ \A q \in User : q # p => pc'[q] = pc[q]
    BY <2>1, Zenon DEF TypeOK, PipeIInv
  <2>3. TypeOK'
    BY <1>1, <2>1, Zenon DEF TypeOK, PC, PipeIInv
  <2>4. LockInv'
    BY <1>1, <1>2, <2>1, <2>2, Zenon DEF LockInv, PipeIInv
  <2>5. EndInv'
    BY <1>1, <2>2, Zenon DEF EndInv, PipeIInv
  <2>6. WaitInv'
    <3>1. Count' = Count /\ (Empty' <=> Empty) /\ (Full' <=> Full)
      BY <1>1, CountFrame, Zenon
    <3>2. \A q \in User : q # p => pc'[q] # "copy"
      BY <1>2, <2>2, Zenon DEF LockInv, PipeIInv
    <3> QED
      BY <1>1, <1>2, <1>4, <2>1, <2>2, <3>1, <3>2, Zenon DEF WaitInv, User, PipeIInv
  <2> QED
    BY <2>3, <2>4, <2>5, <2>6, Zenon DEF PipeIInv
<1> QED
  BY <1>3, <1>4, Zenon

\* The for loop of piperead(): a byte is taken, or copyout() fails and the
\* call returns after waking the writers.
LEMMA ReadCopyInv ==
    ASSUME PipeIInv, NEW p \in User, piperead_copy(p)
    PROVE  PipeIInv'
<1>1. /\ p \in Reader /\ pc[p] = "copy" /\ i[p] < n[p] /\ ~Empty
      /\ UNCHANGED <<data, nwrite, readopen, writeopen, freed, fd>>
  BY Zenon DEF piperead_copy
<1>2. /\ lk = p /\ p \notin Writer /\ 0 <= i[p]
      /\ \A q \in Reader : pc[q] = "asleep" => Empty /\ writeopen
  BY <1>1, HolderFacts, Zenon
<1>3. i \in [User -> -1 .. MaxN] /\ n \in [User -> 0 .. MaxN] /\ MaxN \in Nat
  BY Sizes, Zenon DEF TypeOK, PipeIInv
<1>4. CASE /\ nread' = (nread + 1) % UINT
           /\ i' = [i EXCEPT ![p] = @ + 1]
           /\ UNCHANGED <<lk, pc, n>>
  <2>1. Count' = Count - 1 /\ nread' \in 0 .. UINT - 1
    BY <1>1, <1>4, CountGet, Zenon DEF PipeIInv
  <2>2. i'[p] = i[p] + 1 /\ \A q \in User : q # p => i'[q] = i[q]
    BY <1>3, <1>4, Zenon
  <2>3. TypeOK'
    <3>1. i' \in [User -> -1 .. MaxN]
      BY <1>1, <1>3, <1>4
    <3> QED
      BY <1>1, <1>4, <2>1, <3>1, Zenon DEF TypeOK, PipeIInv
  <2>4. LockInv'
    BY <1>1, <1>2, <1>3, <1>4, <2>2 DEF LockInv, PipeIInv
  <2>5. EndInv'
    BY <1>1, <1>4, Zenon DEF EndInv, PipeIInv
  <2>6. WaitInv'
    <3>1. Count' <= PIPESIZE
      BY <2>1, CountFacts, Sizes DEF WaitInv, PipeIInv
    <3>2. \A q \in Reader : pc[q] # "asleep"
      BY <1>1, <1>2, Zenon
    <3>3. \A q \in User : q # p => pc[q] # "copy"
      BY <1>1, <1>2, Zenon DEF LockInv, PipeIInv
    <3>4. i'[p] # 0
      BY <1>2, <1>3, <2>2
    <3> QED
      BY <1>1, <1>2, <1>4, <3>1, <3>2, <3>3, <3>4, Zenon DEF WaitInv, User
  <2> QED
    BY <2>3, <2>4, <2>5, <2>6, Zenon DEF PipeIInv
<1>5. CASE /\ i' = [i EXCEPT ![p] = IF @ = 0 THEN -1 ELSE @]
           /\ Leave(p, Writer) /\ UNCHANGED nread
  <2>1. lk' = Nobody /\ pc' = [Wake(Writer) EXCEPT ![p] = "idle"] /\ n' = [n EXCEPT ![p] = 0]
    BY <1>5, Zenon DEF Leave
  <2>2. /\ i' \in [User -> -1 .. MaxN] /\ n' \in [User -> 0 .. MaxN]
        /\ \A q \in User : q # p => i'[q] = i[q] /\ n'[q] = n[q]
    BY <1>3, <1>5, <2>1
  <2>3. TypeOK'
    BY <1>1, <1>5, <2>1, <2>2, ReleaseType, Zenon DEF pipe, PipeIInv
  <2> QED
    BY <1>1, <1>2, <1>5, <2>1, <2>2, <2>3, Release, Zenon DEF PipeIInv
<1> QED
  BY <1>4, <1>5, Zenon DEF piperead_copy

\* piperead() returns after its last byte or when the pipe is drained.
LEMMA ReadDoneInv ==
    ASSUME PipeIInv, NEW p \in User, piperead_done(p)
    PROVE  PipeIInv'
<1>1. /\ p \in Reader /\ pc[p] = "copy"
      /\ lk' = Nobody /\ pc' = [Wake(Writer) EXCEPT ![p] = "idle"] /\ n' = [n EXCEPT ![p] = 0]
      /\ UNCHANGED <<pipe, fd, i>>
  BY Zenon DEF piperead_done, Leave
<1>2. lk = p /\ \A q \in Reader : pc[q] = "asleep" => Empty /\ writeopen
  BY <1>1, HolderFacts, Zenon
<1>3. n' \in [User -> 0 .. MaxN] /\ \A q \in User : q # p => n'[q] = n[q]
  BY <1>1, Sizes DEF TypeOK, PipeIInv
<1>4. TypeOK'
  BY <1>1, <1>3, ReleaseType, Zenon DEF TypeOK, PipeIInv
<1>5. UNCHANGED <<nread, nwrite, readopen, writeopen, freed>>
  BY <1>1, Zenon DEF pipe
<1> QED
  BY <1>1, <1>2, <1>3, <1>4, <1>5, Release, Zenon DEF PipeIInv

\* pipeclose(): the last close of an end wakes everybody who waits for it.
LEMMA CloseInv ==
    ASSUME PipeIInv, NEW p \in User, pipeclose(p)
    PROVE  PipeIInv'
<1>1. /\ pc[p] = "idle" /\ fd[p] /\ fd' = [fd EXCEPT ![p] = FALSE]
      /\ UNCHANGED <<lk, data, nread, nwrite, i, n>>
  BY Zenon DEF pipeclose
<1>2. fd' \in [User -> BOOLEAN] /\ ~fd'[p] /\ \A q \in User : q # p => fd'[q] = fd[q]
  BY <1>1, Zenon DEF TypeOK, PipeIInv
<1>3. Count' = Count /\ (Empty' <=> Empty) /\ (Full' <=> Full)
  BY <1>1, CountFrame, Zenon
<1>4. Nobody \notin User /\ \A q : ~(q \in Reader /\ q \in Writer)
  BY PipeAssumption, Zenon
<1>5. readopen \in BOOLEAN /\ writeopen \in BOOLEAN
  BY Zenon DEF TypeOK, PipeIInv
<1>6. CASE /\ p \in Writer /\ LastOf(p, Writer) /\ lk = Nobody /\ writeopen' = FALSE
           /\ pc' = Wake(Reader) /\ freed' = ~readopen /\ readopen' = readopen
  <2>1. \A q \in User : pc'[q] = IF q \in Reader /\ pc[q] = "asleep" THEN "lock" ELSE pc[q]
    BY <1>6, Zenon DEF Wake
  <2>2. TypeOK'
    <3>1. writeopen' \in BOOLEAN /\ freed' \in BOOLEAN
      BY <1>6, Zenon
    <3>2. pc' \in [User -> PC]
      BY <1>6, Zenon DEF Wake, TypeOK, PC, PipeIInv
    <3> QED
      BY <1>1, <1>2, <1>5, <1>6, <3>1, <3>2, Zenon DEF TypeOK, PipeIInv
  <2>3. LockInv'
    BY <1>1, <2>1, Zenon DEF LockInv, PipeIInv
  <2>4. EndInv'
    <3>1. \A q \in Writer : ~fd'[q]
      BY <1>2, <1>6, Zenon DEF LastOf, User
    <3>2. \A q \in Reader : fd'[q] => readopen'
      BY <1>2, <1>6, Zenon DEF EndInv, User, PipeIInv
    <3>3. \A q \in User : pc'[q] # "idle" => fd'[q]
      BY <1>1, <1>2, <2>1, Zenon DEF EndInv, PipeIInv
    <3>4. freed' => ~readopen' /\ ~writeopen'
      BY <1>6, Zenon
    <3> QED
      BY <3>1, <3>2, <3>3, <3>4, Zenon DEF EndInv
  <2>5. WaitInv'
    <3>1. \A q \in Reader : pc'[q] # "asleep"
      BY <2>1, Zenon DEF User
    <3>2. \A q \in User : pc'[q] # "copy"
      BY <1>4, <1>6, <2>1, Zenon DEF LockInv, PipeIInv
    <3>3. \A q \in Writer : pc'[q] = "asleep" => Full' /\ readopen'
      BY <1>3, <1>4, <1>6, <2>1, Zenon DEF WaitInv, User, PipeIInv
    <3> QED
      BY <1>3, <3>1, <3>2, <3>3, Zenon DEF WaitInv, User, PipeIInv
  <2> QED
    BY <2>2, <2>3, <2>4, <2>5, Zenon DEF PipeIInv
<1>7. CASE /\ p \in Reader /\ LastOf(p, Reader) /\ lk = Nobody /\ readopen' = FALSE
           /\ pc' = Wake(Writer) /\ freed' = ~writeopen /\ writeopen' = writeopen
  <2>1. \A q \in User : pc'[q] = IF q \in Writer /\ pc[q] = "asleep" THEN "lock" ELSE pc[q]
    BY <1>7, Zenon DEF Wake
  <2>2. TypeOK'
    <3>1. readopen' \in BOOLEAN /\ freed' \in BOOLEAN
      BY <1>7, Zenon
    <3>2. pc' \in [User -> PC]
      BY <1>7, Zenon DEF Wake, TypeOK, PC, PipeIInv
    <3> QED
      BY <1>1, <1>2, <1>5, <1>7, <3>1, <3>2, Zenon DEF TypeOK, PipeIInv
  <2>3. LockInv'
    BY <1>1, <2>1, Zenon DEF LockInv, PipeIInv
  <2>4. EndInv'
    <3>1. \A q \in Reader : ~fd'[q]
      BY <1>2, <1>7, Zenon DEF LastOf, User
    <3>2. \A q \in Writer : fd'[q] => writeopen'
      BY <1>2, <1>7, Zenon DEF EndInv, User, PipeIInv
    <3>3. \A q \in User : pc'[q] # "idle" => fd'[q]
      BY <1>1, <1>2, <2>1, Zenon DEF EndInv, PipeIInv
    <3>4. freed' => ~readopen' /\ ~writeopen'
      BY <1>7, Zenon
    <3> QED
      BY <3>1, <3>2, <3>3, <3>4, Zenon DEF EndInv
  <2>5. WaitInv'
    <3>1. \A q \in Writer : pc'[q] # "asleep"
      BY <2>1, Zenon DEF User
    <3>2. \A q \in User : pc'[q] # "copy"
      BY <1>4, <1>7, <2>1, Zenon DEF LockInv, PipeIInv
    <3>3. \A q \in Reader : pc'[q] = "asleep" => Empty' /\ writeopen'
      BY <1>3, <1>4, <1>7, <2>1, Zenon DEF WaitInv, User, PipeIInv
    <3> QED
      BY <1>3, <3>1, <3>2, <3>3, Zenon DEF WaitInv, User, PipeIInv
  <2> QED
    BY <2>2, <2>3, <2>4, <2>5, Zenon DEF PipeIInv
<1>8. CASE UNCHANGED <<readopen, writeopen, freed, pc>>
  <2>1. TypeOK'
    BY <1>1, <1>2, <1>8, Zenon DEF TypeOK, PipeIInv
  <2>2. LockInv'
    BY <1>1, <1>8, Zenon DEF LockInv, PipeIInv
  <2>3. EndInv'
    BY <1>1, <1>2, <1>8, Zenon DEF EndInv, User, PipeIInv
  <2>4. WaitInv'
    BY <1>1, <1>3, <1>8, Zenon DEF WaitInv, PipeIInv
  <2> QED
    BY <2>1, <2>2, <2>3, <2>4, Zenon DEF PipeIInv
<1> QED
  BY <1>6, <1>7, <1>8, Zenon DEF pipeclose

\* Every step of the readers and writers preserves the invariant.
LEMMA StepInv ==
    ASSUME PipeIInv, [Next]_vars
    PROVE  PipeIInv'
<1>1. ASSUME NEW p \in User, Step(p)
      PROVE  PipeIInv'
  BY <1>1, AcquireInv, WriteInv, WriteDoneInv, ReadWaitInv, ReadCopyInv, ReadDoneInv, Zenon
     DEF Step
<1>2. ASSUME UNCHANGED vars
      PROVE  PipeIInv'
  <2>1. UNCHANGED <<lk, data, nread, nwrite, readopen, writeopen, freed, fd, pc, i, n>>
    BY <1>2, Zenon DEF vars, pipe
  <2>2. TypeOK' /\ LockInv' /\ EndInv'
    BY <2>1, Zenon DEF PipeIInv, TypeOK, LockInv, EndInv
  <2>3. WaitInv'
    BY <2>1, CountFrame, Zenon DEF PipeIInv, WaitInv
  <2> QED
    BY <2>2, <2>3, Zenon DEF PipeIInv
<1> QED
  BY <1>1, <1>2, CallInv, CloseInv, KillInv, Zenon DEF Next

(***************************************************************************)
(* The inductive invariant holds in every state of a pipe.                 *)
(***************************************************************************)
THEOREM PipeInvariant ==
    Spec => []PipeIInv
<1>1. Init => PipeIInv
  BY InitInv, Zenon
<1>2. PipeIInv /\ [Next]_vars => PipeIInv'
  BY StepInv, Zenon
<1> QED
  BY <1>1, <1>2, PTL DEF Spec

(***************************************************************************)
(* A pipe is sound for any number of readers and writers: a sleeper has a  *)
(* reason to sleep whenever pi->lock is free, so that no wake-up is lost,  *)
(* and the page is freed only when nobody can use it.                      *)
(***************************************************************************)
THEOREM PipeIsSound ==
    Spec => []PipeInv
<1>1. PipeIInv => PipeInv
  <2> SUFFICES ASSUME PipeIInv
               PROVE  PipeInv
    BY Zenon
  <2>1. SleepersMustWait
    BY PipeAssumption, Zenon DEF PipeIInv, WaitInv, SleepersMustWait, User
  <2>2. FreedUnused
    BY Zenon DEF PipeIInv, EndInv, FreedUnused, User
  <2> QED
    BY <2>1, <2>2, Zenon DEF PipeInv, PipeIInv
<1> QED
  BY <1>1, PipeInvariant, PTL

-----------------------------------------------------------------------------
(* The end of the stream. *)

\* A reader that returns 0 has found the pipe drained and without a writer.
LEMMA EofStep ==
    ASSUME PipeIInv, [Next]_vars,
           NEW p \in Reader, pc[p] = "copy", pc'[p] = "idle", n[p] > 0, i'[p] = 0
    PROVE  Empty /\ ~writeopen
<1>1. p \in User /\ pc \in [User -> PC]
  BY Zenon DEF User, TypeOK, PipeIInv
<1>2. \A q \in User : q # p => pc[q] \notin {"loop", "copy"}
  BY <1>1, Zenon DEF LockInv, PipeIInv
<1>3. ASSUME NEW q \in User, piperead_copy(q) \/ piperead_done(q)
      PROVE  Empty /\ ~writeopen
  <2>1. q = p
    BY <1>2, <1>3, Zenon DEF piperead_copy, piperead_done
  <2>2. CASE piperead_copy(q)
    <3>1. pc' # pc
      BY <1>1, Zenon
    <3>2. i' = [i EXCEPT ![p] = IF @ = 0 THEN -1 ELSE @]
      BY <2>1, <2>2, <3>1, Zenon DEF piperead_copy
    <3> QED
      BY <1>1, <3>2 DEF TypeOK, PipeIInv
  <2>3. CASE piperead_done(q)
    <3>1. i' = i /\ (i[p] = n[p] \/ Empty)
      BY <2>1, <2>3, Zenon DEF piperead_done
    <3> QED
      BY <1>1, <3>1 DEF WaitInv, PipeIInv
  <2> QED
    BY <1>3, <2>2, <2>3, Zenon
<1>4. ASSUME NEW q \in User, NEW to \in {"lock", "loop"}, pc' = [pc EXCEPT ![q] = to]
      PROVE  FALSE
  BY <1>1, <1>4, Zenon
<1>5. ASSUME NEW q \in User,
             kkill(q) \/ AcquireLock(q) \/ \E k \in 0 .. MaxN : Call(q, k)
      PROVE  FALSE
  BY <1>4, <1>5, Zenon DEF Call, kkill, AcquireLock, Goto
<1>6. ASSUME NEW q \in User, pipewrite_done(q) \/ piperead_wait(q) \/ \E ch \in Byte : pipewrite(q, ch)
      PROVE  FALSE
  BY <1>1, <1>2, <1>6, Zenon DEF pipewrite_done, piperead_wait, pipewrite
<1>7. ASSUME NEW q \in User, pipeclose(q)
      PROVE  FALSE
  BY <1>1, <1>7, Zenon DEF pipeclose, Wake
<1>8. ~UNCHANGED vars
  BY <1>1, Zenon DEF vars
<1> QED
  BY <1>3, <1>5, <1>6, <1>7, <1>8, Zenon DEF Next, Step

(***************************************************************************)
(* read() of a positive count returns 0 only at the end of the stream.     *)
(***************************************************************************)
THEOREM ZeroIsEof ==
    Spec => ZeroMeansEof
<1>1. PipeIInv /\ [Next]_vars =>
        [\A p \in Reader :
            pc[p] = "copy" /\ pc'[p] = "idle" /\ n[p] > 0 /\ i'[p] = 0
              => Empty /\ ~writeopen]_vars
  BY EofStep, Zenon
<1> QED
  BY <1>1, PipeInvariant, PTL DEF Spec, ZeroMeansEof

-----------------------------------------------------------------------------
(* The ring buffer is a queue. *)

\* Where the k-th byte of the queue lies.
Place(r, k) == ((r + k - 1) % UINT) % PIPESIZE

\* The counter value behind the k-th byte.
LEMMA Ahead ==
    ASSUME NEW r \in 0 .. UINT - 1, NEW k \in 1 .. PIPESIZE
    PROVE  /\ (r + k - 1) % UINT = IF r + k - 1 < UINT THEN r + k - 1 ELSE r + k - 1 - UINT
           /\ (r + k - 1) % UINT \in 0 .. UINT - 1
           /\ Place(r, k) \in 0 .. PIPESIZE - 1
<1>1. UINT \in Nat \ {0} /\ PIPESIZE \in Nat \ {0} /\ PIPESIZE < UINT
  BY Sizes
<1> DEFINE a == r + k - 1
<1>2. a \in Int /\ -UINT <= a /\ a < 2 * UINT /\ a >= 0
  BY <1>1
<1>3. a % UINT = IF a < 0 THEN a + UINT ELSE IF a < UINT THEN a ELSE a - UINT
  <2> HIDE DEF a
  <2> QED
    BY <1>1, <1>2, ModNear, Zenon
<1>4. a % UINT \in 0 .. UINT - 1
  BY <1>1, <1>2, <1>3
<1> DEFINE b == a % UINT
<1>5. b \in Nat
  BY <1>1, <1>4
<1>6. b % PIPESIZE \in 0 .. PIPESIZE - 1
  <2> HIDE DEF b
  <2> QED
    BY <1>1, <1>5, ModRange
<1>7. Place(r, k) = b % PIPESIZE
  BY Zenon DEF Place
<1>8. b = IF a < UINT THEN a ELSE a - UINT
  <2> HIDE DEF a
  <2> QED
    BY <1>1, <1>2, <1>3
<1>9. Place(r, k) \in 0 .. PIPESIZE - 1
  <2> HIDE DEF b
  <2> QED
    BY <1>6, <1>7, Zenon
<1>10. (r + k - 1) % UINT = IF r + k - 1 < UINT THEN r + k - 1 ELSE r + k - 1 - UINT
  BY <1>1, <1>2, <1>8
<1>11. (r + k - 1) % UINT \in 0 .. UINT - 1
  BY <1>4, Zenon
<1> HIDE DEF a, b
<1> QED
  BY <1>9, <1>10, <1>11, Zenon

\* The buffer as a sequence.
LEMMA QueueFacts ==
    ASSUME PipeIInv
    PROVE  /\ Queue \in Seq(Byte) /\ Len(Queue) = Count /\ Count \in Nat
           /\ \A k \in 1 .. Count : Queue[k] = data[Place(nread, k)]
<1>1. Count \in Nat /\ Count <= PIPESIZE
  BY CountFacts, Sizes DEF WaitInv, PipeIInv
<1>2. Queue = [k \in 1 .. Count |-> data[Place(nread, k)]]
  BY Zenon DEF Queue, Place
<1>3. \A k \in 1 .. Count : data[Place(nread, k)] \in Byte
  <2> SUFFICES ASSUME NEW k \in 1 .. Count
               PROVE  data[Place(nread, k)] \in Byte
    BY Zenon
  <2>1. k \in 1 .. PIPESIZE
    BY <1>1, Sizes
  <2>2. Place(nread, k) \in 0 .. PIPESIZE - 1
    BY <2>1, Ahead, Zenon DEF TypeOK, PipeIInv
  <2> QED
    BY <2>2, Zenon DEF TypeOK, PipeIInv
<1> HIDE DEF Queue
<1> QED
  BY <1>1, <1>2, <1>3

\* pipewrite() puts its byte behind all the others: it overwrites none of
\* those still to be read.
LEMMA PutStep ==
    ASSUME PipeIInv, PipeIInv', NEW ch \in Byte,
           ~Full, nread' = nread, nwrite' = (nwrite + 1) % UINT,
           data' = [data EXCEPT ![nwrite % PIPESIZE] = ch]
    PROVE  Len(Queue) < PIPESIZE /\ Queue' = Append(Queue, ch)
<1>1. Count \in Nat /\ Count < PIPESIZE
  BY CountFacts, Sizes DEF WaitInv, PipeIInv
<1>2. Count' = Count + 1
  BY <1>1, CountPut, Zenon DEF PipeIInv
<1>3. UINT \in Nat \ {0} /\ PIPESIZE \in Nat \ {0} /\ PIPESIZE < UINT
  BY Sizes
<1>4. nread \in 0 .. UINT - 1 /\ nwrite \in 0 .. UINT - 1 /\ data \in [0 .. PIPESIZE - 1 -> Byte]
  BY Zenon DEF TypeOK, PipeIInv
<1>5. nwrite % PIPESIZE \in 0 .. PIPESIZE - 1
  BY <1>3, <1>4, ModRange
<1>6. (nread + (Count + 1) - 1) % UINT = nwrite
  <2>1. Count + 1 \in 1 .. PIPESIZE
    BY <1>1, <1>3
  <2>2. (nread + (Count + 1) - 1) % UINT =
           IF nread + (Count + 1) - 1 < UINT THEN nread + (Count + 1) - 1
                                             ELSE nread + (Count + 1) - 1 - UINT
    BY <1>4, <2>1, Ahead, Zenon
  <2> QED
    BY <1>1, <1>3, <1>4, <2>2, CountFacts DEF PipeIInv
<1>7. ASSUME NEW k \in 1 .. Count
      PROVE  Place(nread, k) # nwrite % PIPESIZE /\ Place(nread, k) \in 0 .. PIPESIZE - 1
  <2> DEFINE a == (nread + k - 1) % UINT
  <2>1. k \in 1 .. PIPESIZE
    BY <1>1, <1>3
  <2>2. /\ a = IF nread + k - 1 < UINT THEN nread + k - 1 ELSE nread + k - 1 - UINT
        /\ a \in 0 .. UINT - 1 /\ Place(nread, k) \in 0 .. PIPESIZE - 1
    BY <1>4, <2>1, Ahead, Zenon
  <2>3. PICK c \in 2 .. UINT : UINT = c * PIPESIZE
    BY PipeAssumption, Zenon
  <2> DEFINE d == Count + 1 - k
  <2>4. d \in 1 .. PIPESIZE - 1
    BY <1>1, <1>3
  <2>5. nwrite - a = d \/ nwrite - a = d - UINT
    <3> HIDE DEF a
    <3> QED
      BY <1>1, <1>3, <1>4, <2>1, <2>2, CountFacts DEF PipeIInv
  <2>6. PICK j \in Int : nwrite - a = d + j * PIPESIZE
    <3>1. nwrite - a = d => nwrite - a = d + 0 * PIPESIZE
      BY <1>3, <2>4
    <3>2. nwrite - a = d - UINT => nwrite - a = d + (-c) * PIPESIZE
      <4> HIDE DEF a, d
      <4>1. (-c) * PIPESIZE = -UINT
        BY <1>3, <2>3
      <4> QED
        BY <1>3, <2>4, <4>1, Zenon
    <3> QED
      BY <2>5, <3>1, <3>2
  <2> HIDE DEF a, d
  <2>7. a % PIPESIZE # nwrite % PIPESIZE
    <3>1. a \in Nat /\ nwrite \in Nat
      BY <1>3, <1>4, <2>2
    <3> QED
      BY <1>3, <2>4, <2>6, <3>1, PlacesDiffer, Zenon
  <2> QED
    BY <2>2, <2>7, Zenon DEF Place, a
<1>8. \A k \in 1 .. Count : Queue'[k] = Queue[k]
  <2> SUFFICES ASSUME NEW k \in 1 .. Count
               PROVE  Queue'[k] = Queue[k]
    BY Zenon
  <2>1. k \in 1 .. Count'
    BY <1>1, <1>2
  <2>2. Queue'[k] = data'[Place(nread, k)]
    BY <2>1, Zenon DEF Queue, Place
  <2>3. Queue[k] = data[Place(nread, k)]
    BY QueueFacts, Zenon
  <2> QED
    BY <1>4, <1>5, <1>7, <2>2, <2>3, Zenon
<1>9. Queue'[Count + 1] = ch
  <2>1. Count + 1 \in 1 .. Count'
    BY <1>1, <1>2
  <2>2. Queue'[Count + 1] = data'[((nread + (Count + 1) - 1) % UINT) % PIPESIZE]
    BY <2>1, Zenon DEF Queue
  <2> QED
    BY <1>4, <1>5, <1>6, <2>2, Zenon
<1>10. Queue' = [k \in 1 .. Count + 1 |-> Queue'[k]]
  BY <1>2 DEF Queue
<1>11. Queue \in Seq(Byte) /\ Len(Queue) = Count
  BY QueueFacts, Zenon
<1> HIDE DEF Queue
<1>12. Append(Queue, ch) = [k \in 1 .. Count + 1 |-> IF k = Count + 1 THEN ch ELSE Queue[k]]
  <2> DEFINE A == Append(Queue, ch)
  <2>1. A \in Seq(Byte) /\ Len(A) = Count + 1
    BY <1>1, <1>11
  <2>2. DOMAIN A = 1 .. Count + 1
    BY <2>1
  <2>3. \A k \in 1 .. Count + 1 : A[k] = IF k = Count + 1 THEN ch ELSE Queue[k]
    BY <1>1, <1>11
  <2> HIDE DEF A
  <2>4. A = [k \in 1 .. Len(A) |-> A[k]]
    BY <2>1
  <2>5. A = [k \in 1 .. Count + 1 |-> IF k = Count + 1 THEN ch ELSE Queue[k]]
    BY <2>2, <2>3, <2>4, Zenon
  <2> QED
    BY <2>5, Zenon DEF A
<1>13. \A k \in 1 .. Count + 1 : Queue'[k] = IF k = Count + 1 THEN ch ELSE Queue[k]
  BY <1>1, <1>8, <1>9
<1> QED
  BY <1>1, <1>10, <1>11, <1>12, <1>13, Zenon

\* piperead() takes the byte that has been in the buffer longest.
LEMMA GetStep ==
    ASSUME PipeIInv, PipeIInv',
           ~Empty, nread' = (nread + 1) % UINT, nwrite' = nwrite, data' = data
    PROVE  Queue # <<>> /\ Queue' = Tail(Queue)
<1>1. Count \in Nat /\ Count # 0 /\ Count <= PIPESIZE
  BY CountFacts, Sizes DEF WaitInv, PipeIInv
<1>2. Count' = Count - 1
  BY <1>1, CountGet, Zenon DEF PipeIInv
<1>3. UINT \in Nat \ {0} /\ PIPESIZE \in Nat \ {0} /\ PIPESIZE < UINT
  BY Sizes
<1>4. nread \in 0 .. UINT - 1 /\ nread' \in 0 .. UINT - 1
  BY Zenon DEF TypeOK, PipeIInv
<1>5. ASSUME NEW k \in 1 .. Count - 1
      PROVE  (nread' + k - 1) % UINT = (nread + (k + 1) - 1) % UINT
  <2>1. k \in 1 .. PIPESIZE /\ k + 1 \in 1 .. PIPESIZE
    BY <1>1, <1>3
  <2>2. nread' = IF nread + 1 = UINT THEN 0 ELSE nread + 1
    BY <1>3, <1>4, Bump
  <2>3. (nread' + k - 1) % UINT =
           IF nread' + k - 1 < UINT THEN nread' + k - 1 ELSE nread' + k - 1 - UINT
    BY <1>4, <2>1, Ahead, Zenon
  <2>4. (nread + (k + 1) - 1) % UINT =
           IF nread + (k + 1) - 1 < UINT THEN nread + (k + 1) - 1
                                         ELSE nread + (k + 1) - 1 - UINT
    BY <1>4, <2>1, Ahead, Zenon
  <2> DEFINE x == (nread' + k - 1) % UINT
             y == (nread + (k + 1) - 1) % UINT
  <2>5. x = IF nread' + k - 1 < UINT THEN nread' + k - 1 ELSE nread' + k - 1 - UINT
    BY <2>3, Zenon
  <2>6. y = IF nread + (k + 1) - 1 < UINT THEN nread + (k + 1) - 1
                                          ELSE nread + (k + 1) - 1 - UINT
    BY <2>4, Zenon
  <2>7. x = y
    <3> HIDE DEF x, y
    <3> QED
      BY <1>3, <1>4, <2>1, <2>2, <2>5, <2>6
  <2> QED
    BY <2>7, Zenon
<1>6. \A k \in 1 .. Count - 1 : Queue'[k] = Queue[k + 1]
  <2> SUFFICES ASSUME NEW k \in 1 .. Count - 1
               PROVE  Queue'[k] = Queue[k + 1]
    BY Zenon
  <2>1. k \in 1 .. Count' /\ k + 1 \in 1 .. Count
    BY <1>1, <1>2
  <2>2. Queue'[k] = data[((nread' + k - 1) % UINT) % PIPESIZE]
    BY <2>1, Zenon DEF Queue
  <2>3. Queue[k + 1] = data[((nread + (k + 1) - 1) % UINT) % PIPESIZE]
    BY <2>1, Zenon DEF Queue
  <2> QED
    BY <1>5, <2>2, <2>3, Zenon
<1>7. Queue' = [k \in 1 .. Count - 1 |-> Queue'[k]]
  BY <1>2, Zenon DEF Queue
<1>8. Queue \in Seq(Byte) /\ Len(Queue) = Count
  BY QueueFacts, Zenon
<1> HIDE DEF Queue
<1>9. Queue # <<>>
  BY <1>1, <1>8
<1>10. Tail(Queue) = [k \in 1 .. Count - 1 |-> Queue[k + 1]]
  <2> DEFINE A == Tail(Queue)
  <2>1. A \in Seq(Byte) /\ Len(A) = Count - 1
    BY <1>1, <1>8, <1>9
  <2>2. \A k \in 1 .. Count - 1 : A[k] = Queue[k + 1]
    BY <1>1, <1>8, <1>9
  <2> HIDE DEF A
  <2>3. A = [k \in 1 .. Len(A) |-> A[k]]
    BY <2>1
  <2>4. A = [k \in 1 .. Count - 1 |-> Queue[k + 1]]
    BY <2>1, <2>2, <2>3, Zenon
  <2> QED
    BY <2>4, Zenon DEF A
<1> QED
  BY <1>6, <1>7, <1>9, <1>10, Zenon

\* What leaves the buffer and the counters alone leaves the queue alone.
LEMMA QueueFrame ==
    ASSUME data' = data, nread' = nread, nwrite' = nwrite
    PROVE  Queue' = Queue
BY Zenon DEF Queue, Count

\* Every step of the pipe is a step of the queue or leaves it alone.
LEMMA FifoStep ==
    ASSUME PipeIInv, PipeIInv', [Next]_vars
    PROVE  [Q!Next]_(Q!vars)
<1> SUFFICES Q!Next \/ UNCHANGED <<Queue, readopen, writeopen>>
  BY Zenon DEF Q!vars
<1>1. ASSUME UNCHANGED <<data, nread, nwrite, readopen, writeopen>>
      PROVE  UNCHANGED <<Queue, readopen, writeopen>>
  BY <1>1, QueueFrame, Zenon
<1> HIDE DEF Queue
<1>2. ASSUME NEW p \in User, NEW ch \in Byte, pipewrite(p, ch)
      PROVE  Q!Put(ch) \/ UNCHANGED <<Queue, readopen, writeopen>>
  <2>1. CASE UNCHANGED pipe
    BY <1>1, <2>1, Zenon DEF pipe
  <2>2. CASE /\ readopen /\ ~Full /\ data' = [data EXCEPT ![nwrite % PIPESIZE] = ch]
             /\ nwrite' = (nwrite + 1) % UINT /\ UNCHANGED <<nread, readopen, writeopen>>
    <3>1. Len(Queue) < PIPESIZE /\ Queue' = Append(Queue, ch)
      BY <2>2, PutStep, Zenon
    <3>2. writeopen
      BY <1>2, HolderFacts, Zenon DEF pipewrite
    <3> QED
      BY <2>2, <3>1, <3>2, Zenon DEF Q!Put
  <2> QED
    BY <1>2, <2>1, <2>2, Zenon DEF pipewrite
<1>3. ASSUME NEW p \in User, piperead_copy(p)
      PROVE  Q!Get \/ UNCHANGED <<Queue, readopen, writeopen>>
  <2>1. CASE nread' = nread
    BY <1>1, <1>3, <2>1, Zenon DEF piperead_copy
  <2>2. CASE nread' = (nread + 1) % UINT
    <3>1. Queue # <<>> /\ Queue' = Tail(Queue)
      BY <1>3, <2>2, GetStep, Zenon DEF piperead_copy
    <3>2. readopen
      BY <1>3, HolderFacts, Zenon DEF piperead_copy
    <3> QED
      BY <1>3, <3>1, <3>2, Zenon DEF Q!Get, piperead_copy
  <2> QED
    BY <1>3, <2>1, <2>2, Zenon DEF piperead_copy
<1>4. ASSUME NEW p \in User, pipeclose(p)
      PROVE  Q!CloseRead \/ Q!CloseWrite \/ UNCHANGED <<Queue, readopen, writeopen>>
  <2>1. Queue' = Queue
    BY <1>4, QueueFrame, Zenon DEF pipeclose
  <2>2. (p \in Writer => writeopen) /\ (p \in Reader => readopen)
    BY <1>4, Zenon DEF pipeclose, EndInv, PipeIInv
  <2> QED
    BY <1>4, <2>1, <2>2, Zenon DEF pipeclose, Q!CloseRead, Q!CloseWrite
<1>5. ASSUME NEW p \in User,
             \/ \E k \in 0 .. MaxN : Call(p, k)
             \/ AcquireLock(p) \/ pipewrite_done(p) \/ piperead_wait(p)
             \/ piperead_done(p) \/ kkill(p)
      PROVE  UNCHANGED <<Queue, readopen, writeopen>>
  BY <1>1, <1>5, Zenon DEF Call, AcquireLock, pipewrite_done, piperead_wait, piperead_done,
     kkill, pipe
<1>6. ASSUME UNCHANGED vars
      PROVE  UNCHANGED <<Queue, readopen, writeopen>>
  BY <1>1, <1>6, Zenon DEF vars, pipe
<1> QED
  BY <1>2, <1>3, <1>4, <1>5, <1>6, Zenon DEF Next, Step, Q!Next

(***************************************************************************)
(* PipeIsFifo: for every number of readers and writers, every buffer size  *)
(* and every width of the counters, the pipe behaves as a bounded queue    *)
(* whose ends close for good: the bytes come out in the order in which     *)
(* pipewrite() stored them, none is lost, repeated or overwritten.         *)
(***************************************************************************)
THEOREM PipeIsQueue ==
    Spec => PipeIsFifo
<1>1. Init => Q!Init
  <2> SUFFICES ASSUME Init
               PROVE  Q!Init
    BY Zenon
  <2>1. PipeIInv
    BY InitInv, Zenon
  <2>2. Count = 0
    BY <2>1, CountFacts, Zenon DEF Init, PipeIInv, Empty
  <2>3. Queue \in Seq(Byte) /\ Len(Queue) = 0
    BY <2>1, <2>2, QueueFacts, Zenon
  <2>4. Queue = <<>>
    <3> HIDE DEF Queue
    <3> QED
      BY <2>3
  <2> QED
    BY <2>4, Zenon DEF Init, Q!Init
<1>2. PipeIInv /\ PipeIInv' /\ [Next]_vars => [Q!Next]_(Q!vars)
  BY FifoStep, Zenon
<1> QED
  BY <1>1, <1>2, PipeInvariant, PTL DEF Spec, PipeIsFifo, Q!Spec

\* Both together, as the run on the terminal checks them.
THEOREM PipeIsServing ==
    Spec => PipeServes
BY PipeIsQueue, ZeroIsEof, Zenon DEF PipeServes
=============================================================================
