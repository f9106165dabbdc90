------------------------------ MODULE Programs ------------------------------
(***************************************************************************)
(* Programs that filter text: user/grep.c, wc.c and cat.c of xv6 and the   *)
(* utilities of Project 2.                                                 *)
(*                                                                         *)
(* A program that calls read() gets any number of characters up to what it *)
(* asked for: one step is one turn of its loop.  A program that reads by   *)
(* fgetc() or fgets() does not see how its input is cut into reads, and is *)
(* a function of the text.                                                 *)
(***************************************************************************)
EXTENDS Integers, Sequences, SequencesExt, FiniteSetsExt

CONSTANTS
    BUF,            \* sizeof(buf) of the program
    MAX_LINE,       \* of custom_grep.c; MAX_INPUT of custom_shell.c
    MAX_ARGS,
    Jobs            \* bound: programs with their argument and input

VARIABLES
    job,            \* [prog, arg, text]
    pos,            \* characters of job.text that were read
    buf,            \* grep: what is left of the last reads
    out,            \* what was written
    cnt,            \* wc: lines, words, characters, inword
    at,             \* "run", "done" or "error"
    fault           \* history: a read or write failed

vars == <<job, pos, buf, out, cnt, at, fault>>

From(t, k) == SubSeq(t, k, Len(t))
Sorted(S) ==
    [k \in 1 .. Cardinality(S) |-> CHOOSE x \in S : Cardinality({y \in S : y <= x}) = k]

-----------------------------------------------------------------------------
(* match() of grep.c. *)

RECURSIVE matchhere(_, _), matchstar(_, _, _)
matchhere(re, t) ==
    IF re = << >> THEN TRUE
    ELSE IF Len(re) > 1 /\ re[2] = "*" THEN matchstar(re[1], From(re, 3), t)
    ELSE IF re = <<"$">> THEN t = << >>
    ELSE t # << >> /\ re[1] \in {".", t[1]} /\ matchhere(Tail(re), Tail(t))

matchstar(c, re, t) ==
    matchhere(re, t) \/ (t # << >> /\ c \in {".", t[1]} /\ matchstar(c, re, Tail(t)))

\* Mutant: the empty string at the end of the text is not looked at.
match_nonempty(re, t) ==
    IF re # << >> /\ re[1] = "^" THEN matchhere(Tail(re), t)
    ELSE \E k \in 1 .. Len(t) : matchhere(re, From(t, k))

match(re, t) ==
    IF re # << >> /\ re[1] = "^" THEN matchhere(Tail(re), t)
    ELSE \E k \in 1 .. Len(t) + 1 : matchhere(re, From(t, k))

\* A pattern is a sequence of characters, some of them starred.  It matches
\* when the text has cuts such that each item fits the piece between two.
RECURSIVE Items(_)
Items(re) ==
    IF re = << >> THEN << >>
    ELSE IF Len(re) > 1 /\ re[2] = "*" THEN <<<<re[1], "*">>>> \o Items(From(re, 3))
    ELSE <<<<re[1], "">>>> \o Items(Tail(re))

Matches(re, t) ==
    LET first == re # << >> /\ re[1] = "^"
        all == Items(IF first THEN Tail(re) ELSE re)
        last == all # << >> /\ Last(all) = <<"$", "">>
        items == IF last THEN Front(all) ELSE all
    IN \E cut \in [1 .. Len(items) + 1 -> 1 .. Len(t) + 1] :
         /\ first => cut[1] = 1
         /\ last => cut[Len(items) + 1] = Len(t) + 1
         /\ \A k \in DOMAIN items :
              /\ cut[k] <= cut[k + 1]
              /\ items[k][2] = "" => cut[k + 1] = cut[k] + 1
              /\ \A j \in cut[k] .. cut[k + 1] - 1 : items[k][1] \in {".", t[j]}

-----------------------------------------------------------------------------
(* The programs that call read().  k characters arrive. *)

Asks == IF job.prog = "grep" THEN BUF - 1 - Len(buf) ELSE BUF
Reads(prog, k) == at = "run" /\ job.prog = prog /\ k <= Asks /\ k <= Len(job.text) - pos
Chunk(k) == SubSeq(job.text, pos + 1, pos + k)

\* The lines of t that end with a newline.
Lines(t) ==
    LET ends == Sorted({k \in DOMAIN t : t[k] = "nl"})
    IN [k \in DOMAIN ends |-> SubSeq(t, IF k = 1 THEN 1 ELSE ends[k - 1] + 1, ends[k])]

\* Mutant: what is left of a line is dropped.
Rest_none(b) == << >>

Rest(b) == From(b, Max({0} \cup {k \in DOMAIN b : b[k] = "nl"}) + 1)

grep(k) ==
    LET b == buf \o Chunk(k) IN
    /\ Reads("grep", k)
    /\ out' = out \o FlattenSeq(SelectSeq(Lines(b), LAMBDA l : match(job.arg, Front(l))))
    /\ buf' = Rest(b)
    /\ pos' = pos + k
    /\ UNCHANGED <<job, cnt, at, fault>>

Zero == [l |-> 0, w |-> 0, c |-> 0, inword |-> FALSE]

\* One character; a form feed does not end a word.
count(x, ch) ==
    LET space == ch \in {" ", "nl"} IN
    [l |-> IF ch = "nl" THEN x.l + 1 ELSE x.l,
     w |-> IF ~space /\ ~x.inword THEN x.w + 1 ELSE x.w,
     c |-> x.c + 1,
     inword |-> ~space]

\* Mutant: a word ends where a read does.
wc_chunk_word(x, t) == FoldLeft(count, [x EXCEPT !.inword = FALSE], t)

wc_chunk(x, t) == FoldLeft(count, x, t)

wc(k) ==
    /\ Reads("wc", k)
    /\ cnt' = wc_chunk(cnt, Chunk(k))
    /\ pos' = pos + k
    /\ UNCHANGED <<job, buf, out, at, fault>>

\* Mutant: a failed write is not noticed.
WriteFails_unseen(prog) == UNCHANGED at /\ fault' = TRUE

\* cat stops with an error; custom_cp leaves its loop and reports success.
WriteFails(prog) == at' = (IF prog = "cat" THEN "error" ELSE "done") /\ fault' = TRUE

cat(prog, k, ok) ==
    /\ Reads(prog, k)
    /\ pos' = pos + k
    /\ IF ok THEN out' = out \o Chunk(k) /\ UNCHANGED <<at, fault>>
       ELSE UNCHANGED out /\ WriteFails(prog)
    /\ UNCHANGED <<job, buf, cnt>>

\* read() returns 0.
Eof ==
    /\ at = "run" /\ (pos = Len(job.text) \/ Asks = 0)
    /\ at' = "done"
    /\ UNCHANGED <<job, pos, buf, out, cnt, fault>>

\* read() fails; grep and custom_cp take it for the end.
ReadFails ==
    /\ at = "run" /\ fault' = TRUE
    /\ at' = IF job.prog \in {"cat", "wc"} THEN "error" ELSE "done"
    /\ UNCHANGED <<job, pos, buf, out, cnt>>

Init ==
    /\ job \in Jobs
    /\ pos = 0 /\ buf = << >> /\ out = << >> /\ cnt = Zero /\ at = "run" /\ fault = FALSE

Next ==
    \/ \E k \in 1 .. BUF :
         \/ grep(k) \/ wc(k)
         \/ \E prog \in {"cat", "custom_cp"}, ok \in BOOLEAN : cat(prog, k, ok)
    \/ job.prog \in {"grep", "wc", "cat", "custom_cp"} /\ (Eof \/ ReadFails)

Spec == Init /\ [][Next]_vars

-----------------------------------------------------------------------------
(* The programs that read by fgetc() or fgets(). *)

count_file(t) ==
    FoldLeft(LAMBDA x, ch :
               LET space == ch \in {" ", "nl", "ff"} IN
               [l |-> IF ch = "nl" THEN x.l + 1 ELSE x.l,
                w |-> IF ~space /\ ~x.inword THEN x.w + 1 ELSE x.w,
                c |-> x.c + 1, inword |-> ~space],
             Zero, t)

\* Mutant: the number is printed where a line ends.
show_contents_ends(t) ==
    FoldLeft(LAMBDA x, ch :
               [n |-> IF ch = "nl" THEN x.n + 1 ELSE x.n,
                start |-> FALSE,
                out |-> x.out \o (IF ch = "nl" THEN <<ch, x.n + 1>> ELSE <<ch>>)],
             [n |-> 1, start |-> TRUE, out |-> <<1>>], t).out

\* With -n: a number before the first character of each line.
show_contents(t) ==
    FoldLeft(LAMBDA x, ch :
               [n |-> IF x.start THEN x.n + 1 ELSE x.n,
                start |-> ch = "nl",
                out |-> x.out \o (IF x.start THEN <<x.n, ch>> ELSE <<ch>>)],
             [n |-> 1, start |-> TRUE, out |-> << >>], t).out

\* What successive calls of fgets() return: up to a newline, or as much as
\* fits.
RECURSIVE fgets(_, _)
fgets(t, size) ==
    LET nl == {k \in DOMAIN t : t[k] = "nl"}
        k == Min({size - 1, Len(t)} \cup nl)
    IN IF t = << >> THEN << >> ELSE <<SubSeq(t, 1, k)>> \o fgets(From(t, k + 1), size)

tolower(c) == IF c = "A" THEN "a" ELSE c
to_lower(t) == [k \in DOMAIN t |-> tolower(t[k])]

strstr(t, s) == \E k \in 0 .. Len(t) - Len(s) : SubSeq(t, k + 1, k + Len(s)) = s

contains_ignore_case(t, s) == strstr(to_lower(t), to_lower(s))

\* Mutant: only matching lines are counted.
line_no_hits(ls, k, hit) == Cardinality({j \in 1 .. k : hit[j]})

line_no(ls, k, hit) == k

\* The numbers and lines that custom_grep prints.
custom_grep(t, pattern, i) ==
    LET ls == fgets(t, MAX_LINE)
        hit == [k \in DOMAIN ls |-> IF i THEN contains_ignore_case(ls[k], pattern)
                                    ELSE strstr(ls[k], pattern)]
    IN {<<line_no(ls, k, hit), ls[k]>> : k \in {j \in DOMAIN ls : hit[j]}}

Blank == {" ", "nl"}

\* The words of t, as strtok() finds them.
Words(t) ==
    LET first == Sorted({k \in DOMAIN t : t[k] \notin Blank /\ (k = 1 \/ t[k - 1] \in Blank)})
        end(k) == Min({j \in k .. Len(t) + 1 : j = Len(t) + 1 \/ t[j] \in Blank})
    IN [k \in DOMAIN first |-> SubSeq(t, first[k], end(first[k]) - 1)]

AtMost(ws, max) == SubSeq(ws, 1, Min({max, Len(ws)}))

parse_input(t) == AtMost(Words(t), MAX_ARGS - 1)

\* Mutant: what follows exit is still run.
Exits_never(args) == FALSE

Exits(args) == args[1] = <<"x">>

\* main() of custom_shell.c on what is typed: the commands it runs, in order.
\* The command "x" is exit.
RECURSIVE custom_shell(_)
custom_shell(inputs) ==
    IF inputs = << >> THEN << >>
    ELSE LET args == parse_input(Head(inputs)) IN
         IF args = << >> THEN custom_shell(Tail(inputs))
         ELSE IF Exits(args) THEN << >>
         ELSE <<args>> \o custom_shell(Tail(inputs))

-----------------------------------------------------------------------------
(* Properties. *)

\* The lines of a text, the last one possibly without a newline.
AllLines(t) == Lines(t) \o (IF t # << >> /\ Last(t) # "nl" THEN <<Rest(t)>> ELSE << >>)

Starts(t, Sep) == {k \in DOMAIN t : t[k] \notin Sep /\ (k = 1 \/ t[k - 1] \in Sep)}
Counts(t, Sep) ==
    <<Cardinality({k \in DOMAIN t : t[k] = "nl"}), Cardinality(Starts(t, Sep)), Len(t)>>

(***************************************************************************)
(* match() accepts a text just when the pattern, read as a sequence of     *)
(* possibly starred characters between anchors, fits somewhere in it.      *)
(***************************************************************************)
MatchIsRegex == job.prog = "match" => (match(job.arg, job.text) <=> Matches(job.arg, job.text))

(***************************************************************************)
(* However its input is cut into reads, grep prints the matching lines     *)
(* that end in a newline, in order, up to the first one that does not fit  *)
(* into its buffer: there read() is asked for nothing and returns 0.       *)
(***************************************************************************)
GrepPrints ==
    job.prog = "grep" /\ at = "done" /\ ~fault =>
        LET ls == Lines(job.text)
            long == {k \in DOMAIN ls : Len(ls[k]) >= BUF}
            fit == SubSeq(ls, 1, IF long = {} THEN Len(ls) ELSE Min(long) - 1)
        IN out = FlattenSeq(SelectSeq(fit, LAMBDA l : Matches(job.arg, Front(l))))

(***************************************************************************)
(* wc and custom_wc count newlines, words and characters, a word that is   *)
(* cut by a read once.                                                     *)
(***************************************************************************)
CountsRight ==
    LET shows(x) == <<x.l, x.w, x.c>> IN
    /\ job.prog = "wc" /\ at = "done" => shows(cnt) = Counts(job.text, {" ", "nl"})
    /\ job.prog = "text" => shows(count_file(job.text)) = Counts(job.text, {" ", "nl", "ff"})

(***************************************************************************)
(* cat and custom_cp write a prefix of what they read and, unless a read   *)
(* or write failed, all of it; cat never ends normally otherwise.          *)
(***************************************************************************)
TextCopied ==
    job.prog \in {"cat", "custom_cp"} =>
        /\ out = SubSeq(job.text, 1, Len(out))
        /\ at = "done" /\ (~fault \/ job.prog = "cat") => out = job.text

(***************************************************************************)
(* custom_cat -n adds to the text the number k before line k, and nothing  *)
(* else.                                                                   *)
(***************************************************************************)
LinesNumbered ==
    job.prog = "text" =>
        LET ls == AllLines(job.text)
        IN show_contents(job.text) = FlattenSeq([k \in DOMAIN ls |-> <<k>> \o ls[k]])

(***************************************************************************)
(* When no line is longer than the buffer holds, custom_grep prints each   *)
(* line with the pattern in it under its number.                           *)
(***************************************************************************)
GrepNumbers ==
    job.prog = "text" =>
        LET ls == AllLines(job.text) IN
        (\A k \in DOMAIN ls : Len(ls[k]) < MAX_LINE) =>
            \A s \in {<<"a">>, <<"A", "a">>} :
                custom_grep(job.text, s, TRUE) =
                    {<<k, ls[k]>> : k \in {j \in DOMAIN ls :
                        \E d \in DOMAIN ls[j] :
                            /\ d + Len(s) - 1 <= Len(ls[j])
                            /\ \A x \in DOMAIN s : ls[j][d + x - 1] \in {"a", "A"}}}

(***************************************************************************)
(* The custom shell runs each line that fits its input buffer as one       *)
(* command, with the first MAX_ARGS - 1 words of the line, until exit.     *)
(***************************************************************************)
CommandsRun ==
    job.prog = "text" =>
        LET ls == SelectSeq(AllLines(job.text), LAMBDA l : Words(l) # << >>)
            stop == {k \in DOMAIN ls : Words(ls[k])[1] = <<"x">>}
            run == IF stop = {} THEN ls ELSE SubSeq(ls, 1, Min(stop) - 1)
        IN (\A k \in DOMAIN ls : Len(ls[k]) < MAX_LINE) =>
              custom_shell(fgets(job.text, MAX_LINE)) =
                  [k \in DOMAIN run |-> AtMost(Words(run[k]), MAX_ARGS - 1)]

(***************************************************************************)
(* Each program computes its function of the text, however read() cuts it. *)
(***************************************************************************)
ProgramsInv ==
    /\ MatchIsRegex
    /\ GrepPrints
    /\ CountsRight
    /\ TextCopied
    /\ LinesNumbered
    /\ GrepNumbers
    /\ CommandsRun
=============================================================================
