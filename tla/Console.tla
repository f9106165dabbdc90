------------------------------- MODULE Console -------------------------------
(***************************************************************************)
(* The terminal: kernel/console.c and kernel/uart.c with the UART and the  *)
(* interrupt that serves it.  Several processes read and write it; other   *)
(* CPUs print kernel messages.                                             *)
(*                                                                         *)
(* Under cons.lock the handler edits and echoes one character, spinning    *)
(* for the UART; a reader takes characters one by one.  tx_lock sections   *)
(* are one step each.  The PLIC lets one CPU serve the UART at a time.     *)
(* killed() is never true inside a system call (see module Signal).        *)
(***************************************************************************)
EXTENDS Integers, Sequences, FiniteSets

CONSTANTS
    Reader, Writer,
    INPUT_BUF_SIZE,
    UintMod,        \* 2^32, a multiple of INPUT_BUF_SIZE
    FIFO,           \* characters the UART's transmit FIFO holds
    MaxRead, MaxWrite, \* bounds: arguments of read() and write()
    Batch,          \* sizeof(buf) of consolewrite()
    MaxTyped,       \* bound: characters waiting in the UART
    Uses,           \* bound: keys, readers, writers and kernel messages
                    \* that occur together
    None

Letter == {"x", "y"}
Ends == {"nl", "^D"}

VARIABLES
    buf, r, w, e, lock,     \* cons, and who holds cons.lock
    rd,                     \* readers: [at, n, got]
    wr,                     \* writers: [at, left, nn]
    tx_busy,
    ih,                     \* the interrupt handler: [at, c, echo]
    thr, txint, rx,         \* UART: transmit FIFO, its interrupt, received
    kp,                     \* a kernel message saw the UART idle
    use                     \* the member of Uses of this behaviour

vars == <<buf, r, w, e, lock, rd, wr, tx_busy, ih, thr, txint, rx, kp, use>>
input == <<buf, r, w, e, lock, rd, use>>

-----------------------------------------------------------------------------
(* The UART. *)

WriteTHR == thr' = thr + 1 /\ txint' = FALSE

\* The UART has sent everything.
Sent ==
    /\ thr > 0
    /\ thr' = 0 /\ txint' = TRUE
    /\ UNCHANGED <<input, wr, tx_busy, ih, rx, kp>>

\* A key is pressed.
Typed(c) ==
    /\ Len(rx) < MaxTyped
    /\ rx' = Append(rx, c)
    /\ UNCHANGED <<input, wr, tx_busy, ih, thr, txint, kp>>

\* uartputc_sync() of a kernel message on another CPU: see the UART idle, and
\* write later.
kputc_see ==
    /\ use.messages /\ ~kp /\ thr = 0
    /\ kp' = TRUE
    /\ UNCHANGED <<input, wr, tx_busy, ih, thr, txint, rx>>

kputc_write ==
    /\ kp /\ kp' = FALSE
    /\ WriteTHR
    /\ UNCHANGED <<input, wr, tx_busy, ih, rx>>

-----------------------------------------------------------------------------
(* consolewrite() and uartwrite(). *)

Smaller(a, b) == IF a < b THEN a ELSE b

consolewrite(p, n) ==
    /\ wr[p].at = "idle"
    /\ wr' = [wr EXCEPT ![p] = [at |-> "batch", left |-> n, nn |-> 0]]
    /\ UNCHANGED <<input, tx_busy, ih, thr, txint, rx, kp>>

\* The next batch is copied in; the copy may fail, which ends the call.
NextBatch(p, fault) ==
    /\ wr[p].at = "batch"
    /\ wr' = [wr EXCEPT ![p] =
                IF @.left = 0 \/ fault THEN [@ EXCEPT !.at = "idle", !.left = 0]
                ELSE [@ EXCEPT !.at = "send", !.nn = Smaller(Batch, wr[p].left)]]
    /\ UNCHANGED <<input, tx_busy, ih, thr, txint, rx, kp>>

\* One character: sleep while the UART is busy, else hand it over.
uartwrite(p) ==
    /\ wr[p].at = "send"
    /\ IF tx_busy
       THEN wr' = [wr EXCEPT ![p].at = "asleep"] /\ UNCHANGED <<tx_busy, thr, txint>>
       ELSE /\ WriteTHR /\ tx_busy' = TRUE
            /\ wr' = [wr EXCEPT ![p].left = @ - 1, ![p].nn = @ - 1,
                                ![p].at = IF wr[p].nn = 1 THEN "batch" ELSE "send"]
    /\ UNCHANGED <<input, ih, rx, kp>>

-----------------------------------------------------------------------------
(* uartintr() and consoleintr(). *)

\* Mutant: only one sender is woken, and the others never.
WakeSenders_one(ws) ==
    LET asleep == {p \in Writer : ws[p].at = "asleep"} IN
    IF asleep = {} THEN ws ELSE [ws EXCEPT ![CHOOSE p \in asleep : TRUE].at = "send"]

WakeSenders(ws) ==
    [p \in Writer |-> IF ws[p].at = "asleep" THEN [ws[p] EXCEPT !.at = "send"] ELSE ws[p]]

\* The interrupt is claimed and acknowledged.
IntrAck ==
    /\ ih.at = "idle" /\ (txint \/ rx # << >>)
    /\ txint' = FALSE
    /\ ih' = [ih EXCEPT !.at = "tx"]
    /\ UNCHANGED <<input, wr, tx_busy, thr, rx, kp>>

\* Mutant: the status register is not looked at.
SendIdle_any == TRUE

SendIdle == thr = 0

uartintr_tx ==
    /\ ih.at = "tx"
    /\ IF SendIdle THEN tx_busy' = FALSE /\ wr' = WakeSenders(wr) ELSE UNCHANGED <<tx_busy, wr>>
    /\ ih' = [ih EXCEPT !.at = "rx"]
    /\ UNCHANGED <<input, thr, txint, rx, kp>>

Minus(a, b) == (a - b) % UintMod
At(i) == i % INPUT_BUF_SIZE

\* The characters outside a .. z - 1 are never read again and are forgotten.
Only(b, a, z) ==
    [i \in DOMAIN b |-> IF \E k \in 0 .. Minus(z, a) - 1 : At(a + k) = i THEN b[i] ELSE "x"]

\* How far e goes back for ^U.
Killed ==
    LET stop == {k \in 0 .. Minus(e, w) :
                   k = Minus(e, w) \/ buf[At(Minus(e, k + 1))] = "nl"}
    IN CHOOSE k \in stop : \A j \in stop : k <= j

\* Characters that the echo of c writes.
Echo(c) ==
    CASE c = "^U" -> 3 * Killed
      [] c = "^H" -> IF e # w THEN 3 ELSE 0
      [] c \in {"^P", "nul"} -> 0
      [] OTHER -> IF Minus(e, r) < INPUT_BUF_SIZE THEN 1 ELSE 0

\* The next character is read from the UART and cons.lock taken, or the
\* handler returns.
uartgetc ==
    /\ ih.at = "rx"
    /\ IF rx = << >> THEN ih' = [ih EXCEPT !.at = "idle"] /\ UNCHANGED <<rx, lock>>
       ELSE /\ lock = None
            /\ lock' = "intr" /\ rx' = Tail(rx)
            /\ ih' = [at |-> "echo", c |-> Head(rx), echo |-> Echo(Head(rx))]
    /\ UNCHANGED <<use, buf, r, w, e, rd, wr, tx_busy, thr, txint, kp>>

\* One uartputc_sync() of consputc(): spin until the UART is idle.
consputc ==
    /\ ih.at = "echo" /\ ih.echo > 0 /\ thr = 0
    /\ WriteTHR
    /\ ih' = [ih EXCEPT !.echo = @ - 1]
    /\ UNCHANGED <<input, wr, tx_busy, rx, kp>>

\* Mutant: no room is kept for the character.
HasRoom_more == Minus(e, r) <= INPUT_BUF_SIZE

HasRoom == Minus(e, r) < INPUT_BUF_SIZE

\* Mutant: a line that fills the buffer is not handed to the readers.
EndsLine_char(c) == c \in Ends

EndsLine(c) == c \in Ends \/ Minus(e + 1, r) = INPUT_BUF_SIZE

\* Mutant: only one reader is woken.
WakeReaders_one(rs) ==
    LET asleep == {p \in Reader : rs[p].at = "asleep"} IN
    IF asleep = {} THEN rs ELSE [rs EXCEPT ![CHOOSE p \in asleep : TRUE].at = "wake"]

WakeReaders(rs) ==
    [p \in Reader |-> IF rs[p].at = "asleep" THEN [rs[p] EXCEPT !.at = "wake"] ELSE rs[p]]

consoleintr ==
    LET c == IF ih.c = "cr" THEN "nl" ELSE ih.c IN
    /\ ih.at = "echo" /\ ih.echo = 0
    /\ \/ /\ c = "^U" /\ e' = Minus(e, Killed)
          /\ buf' = Only(buf, r, e')
          /\ UNCHANGED <<w, rd>>
       \/ /\ c = "^H" /\ e' = IF e # w THEN Minus(e, 1) ELSE e
          /\ buf' = Only(buf, r, e')
          /\ UNCHANGED <<w, rd>>
       \/ /\ c \in {"^P", "nul"} \/ (c \in Letter \cup Ends /\ ~HasRoom)
          /\ UNCHANGED <<buf, w, e, rd>>
       \/ /\ c \in Letter \cup Ends /\ HasRoom
          /\ buf' = [buf EXCEPT ![At(e)] = c]
          /\ e' = (e + 1) % UintMod
          /\ IF EndsLine(c) THEN w' = e' /\ rd' = WakeReaders(rd) ELSE UNCHANGED <<w, rd>>
    /\ lock' = None
    /\ ih' = [at |-> "rx", c |-> "nul", echo |-> 0]
    /\ UNCHANGED <<use, r, wr, tx_busy, thr, txint, rx, kp>>

-----------------------------------------------------------------------------
(* consoleread(). *)

Idle == [at |-> "idle", n |-> 0, got |-> 0]

consoleread(p, n) ==
    /\ rd[p].at = "idle" /\ lock = None
    /\ lock' = p
    /\ rd' = [rd EXCEPT ![p].at = "loop", ![p].n = n]
    /\ UNCHANGED <<use, buf, r, w, e, wr, tx_busy, ih, thr, txint, rx, kp>>

ReadReturns(p) == rd' = [rd EXCEPT ![p] = Idle] /\ lock' = None

\* No input: sleep.
ReadWaits(p) ==
    /\ lock = p /\ r = w
    /\ rd' = [rd EXCEPT ![p].at = "asleep"] /\ lock' = None
    /\ UNCHANGED <<use, buf, r, w, e, wr, tx_busy, ih, thr, txint, rx, kp>>

ReadWakes(p) ==
    /\ rd[p].at = "wake" /\ lock = None
    /\ lock' = p
    /\ rd' = [rd EXCEPT ![p].at = "loop"]
    /\ UNCHANGED <<use, buf, r, w, e, wr, tx_busy, ih, thr, txint, rx, kp>>

\* One character; a copy to the user that fails ends the call without it, and
\* a ^D after characters of the same call stays for the next one.
ReadChar(p, fault) ==
    LET c == buf[At(r)] IN
    /\ lock = p /\ r # w
    /\ r' = IF c = "^D" /\ rd[p].got > 0 THEN r ELSE (r + 1) % UintMod
    /\ buf' = Only(buf, r', e)
    /\ IF c \in Ends \/ fault \/ rd[p].n = 1 THEN ReadReturns(p)
       ELSE rd' = [rd EXCEPT ![p].n = @ - 1, ![p].got = @ + 1] /\ UNCHANGED lock
    /\ UNCHANGED <<use, w, e, wr, tx_busy, ih, thr, txint, rx, kp>>

\* A signal to p makes it runnable, and it goes round its loop again.
kkill(p) ==
    /\ rd[p].at = "asleep"
    /\ rd' = [rd EXCEPT ![p].at = "wake"]
    /\ UNCHANGED <<use, buf, r, w, e, lock, wr, tx_busy, ih, thr, txint, rx, kp>>

-----------------------------------------------------------------------------
Init ==
    /\ buf = [i \in 0 .. INPUT_BUF_SIZE - 1 |-> "x"]
    /\ r = 0 /\ w = 0 /\ e = 0 /\ lock = None
    /\ rd = [p \in Reader |-> Idle]
    /\ wr = [p \in Writer |-> [at |-> "idle", left |-> 0, nn |-> 0]]
    /\ tx_busy = FALSE /\ ih = [at |-> "idle", c |-> "nul", echo |-> 0]
    /\ thr = 0 /\ txint = FALSE /\ rx = << >> /\ kp = FALSE
    /\ use \in Uses

ReadStep(p) ==
    \/ \E n \in 1 .. MaxRead : consoleread(p, n)
    \/ ReadWaits(p) \/ ReadWakes(p)
    \/ \E fault \in BOOLEAN : ReadChar(p, fault)
    \/ kkill(p)

WriteStep(p) ==
    \/ \E n \in 1 .. MaxWrite : consolewrite(p, n)
    \/ \E fault \in BOOLEAN : NextBatch(p, fault)
    \/ uartwrite(p)

Next ==
    \/ Sent \/ (\E c \in use.keys : Typed(c))
    \/ kputc_see \/ kputc_write
    \/ IntrAck \/ uartintr_tx \/ uartgetc \/ consputc \/ consoleintr
    \/ \E p \in use.readers : ReadStep(p)
    \/ \E p \in use.writers : WriteStep(p)

Spec == Init /\ [][Next]_vars

-----------------------------------------------------------------------------
(* Properties. *)

\* Types; the UART is never given more characters than its FIFO takes.
ConsTypeOK ==
    /\ r \in 0 .. UintMod - 1 /\ w \in 0 .. UintMod - 1 /\ e \in 0 .. UintMod - 1
    /\ \A p \in Reader : rd[p].n \in 0 .. MaxRead
    /\ \A p \in Writer : wr[p].nn \in 0 .. wr[p].left
    /\ thr \in 0 .. FIFO

\* The characters from index a to index b.
Span(a, b) == [k \in 1 .. Minus(b, a) |-> buf[At(a + k - 1)]]
Line == INSTANCE LineQueue
          WITH Size <- INPUT_BUF_SIZE, queue <- Span(r, w), edit <- Span(w, e)

(***************************************************************************)
(* The ring buffer and its three wrapping indices are a queue of finished  *)
(* lines and a line being edited: no key, whatever is typed while readers  *)
(* take characters, reaches back into finished lines, overwrites unread    *)
(* ones or reorders them.                                                  *)
(***************************************************************************)
ImplementsLines == Line!Spec

(***************************************************************************)
(* No reader sleeps while a finished line (or an end of file left for the  *)
(* next read) is waiting.                                                  *)
(***************************************************************************)
NoSleepWithInput == \A p \in Reader : rd[p].at = "asleep" => r = w

(***************************************************************************)
(* A full buffer is never stuck: when nothing more can be typed there is   *)
(* something to read, whether or not a line was finished.                  *)
(***************************************************************************)
FullIsReadable == Minus(e, r) = INPUT_BUF_SIZE => r # w

(***************************************************************************)
(* A writer waiting for the UART has an interrupt to wait for: the UART is *)
(* sending, its interrupt is pending, or the handler is about to look.     *)
(* Echo and kernel messages, which write the same register without the     *)
(* lock or tx_busy, do not take that interrupt away.                       *)
(***************************************************************************)
SenderHasInterrupt ==
    (\E p \in Writer : wr[p].at = "asleep") =>
        tx_busy /\ (thr > 0 \/ txint \/ ih.at = "tx")

(***************************************************************************)
(* Nobody waits at the terminal for nothing: readers sleep only while      *)
(* there is no finished line, a full buffer counts as one, and a sleeping  *)
(* writer has an interrupt to come.                                        *)
(***************************************************************************)
ConsoleInv ==
    /\ ConsTypeOK
    /\ NoSleepWithInput
    /\ FullIsReadable
    /\ SenderHasInterrupt
=============================================================================
