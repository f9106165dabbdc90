------------------------------ MODULE LineQueue ------------------------------
(***************************************************************************)
(* What the terminal promises its readers: typed characters are edited in  *)
(* a line, finished lines wait in a queue, and readers take them from its  *)
(* head.  Together they hold at most Size characters; a line that fills    *)
(* the terminal counts as finished, and what does not fit is dropped.      *)
(***************************************************************************)
EXTENDS Integers, Sequences

CONSTANTS Size, Letter, Ends    \* ordinary characters, and those that end a line

VARIABLES queue, edit

Type(c) ==
    /\ Len(queue) + Len(edit) < Size
    /\ IF c \in Ends \/ Len(queue) + Len(edit) + 1 = Size
       THEN queue' = queue \o Append(edit, c) /\ edit' = << >>
       ELSE edit' = Append(edit, c) /\ UNCHANGED queue

Erase ==
    /\ edit # << >>
    /\ edit' = SubSeq(edit, 1, Len(edit) - 1)
    /\ UNCHANGED queue

KillLine == edit' = << >> /\ UNCHANGED queue

Take ==
    /\ queue # << >>
    /\ queue' = Tail(queue)
    /\ UNCHANGED edit

Init == queue = << >> /\ edit = << >>
Next == (\E c \in Letter \cup Ends : Type(c)) \/ Erase \/ KillLine \/ Take
Spec == Init /\ [][Next]_<<queue, edit>>
=============================================================================
