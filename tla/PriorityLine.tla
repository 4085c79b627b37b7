------------------------------ MODULE PriorityLine ------------------------------
(***************************************************************************)
(* What the priority queue of the Reveal bus promises to the tasks that    *)
(* fill it: it is a line.  Messages leave it in the order they came; one   *)
(* that was completed stays until its turn comes, is taken up and is       *)
(* finished with; one that was not holds up those behind it, for as many   *)
(* runs of the handler as Patience says and no longer; and the handler     *)
(* turns to the normal queue only when no complete message is first in     *)
(* line.                                                                   *)
(*                                                                         *)
(* The promise has one exception.  A report addressed to the board itself, *)
(* in this line or in the normal queue, is a stray: the bus refuses it,    *)
(* and when it goes the first in line may go with it, unsent; and if there *)
(* is none, the line may be out of order until it is found in order again. *)
(*                                                                         *)
(* RevealQueue implements this specification (RevealQueue!Urgents), with   *)
(* a ring of slots, two indexes and a counter in each slot.                *)
(***************************************************************************)
EXTENDS Naturals, Sequences

CONSTANTS
    Room,      \* how many messages the line holds
    Message,   \* what they may be
    Patience   \* the runs of the handler that an incomplete one is given

VARIABLES
    line,      \* the entries, the first in line first: [msg, ready |-> it is
               \*  complete, left |-> the runs it is still given if not]
    inLine,    \* the line is in order
    strays,    \* the complete messages, here and in the normal queue, that
               \*  the bus is going to refuse
    taken,     \* the first in line is being sent
    turned     \* the handler has turned to the normal queue

vars == <<line, inLine, strays, taken, turned>>

Ready(m) == [msg |-> m, ready |-> TRUE, left |-> 0]
Incomplete(m) == [msg |-> m, ready |-> FALSE, left |-> Patience]

Init ==
    /\ line = <<>>
    /\ inLine = TRUE
    /\ strays = {}
    /\ ~taken
    /\ ~turned

\* What becomes of the line when a step should leave l: a stray that goes may
\* take the first in line with it, or the order of a line that is empty.
Leaves(l) ==
    \/ line' = l /\ inLine' = TRUE
    \/ /\ ~(strays \subseteq strays')
       /\ IF l # <<>> THEN line' = Tail(l) /\ inLine' = TRUE ELSE inLine' = FALSE

\* A task asks for a message, and completes it or does not.
Enter ==
    /\ Len(line) < Room
    /\ \E m \in Message : \E e \in {Ready(m), Incomplete(m)} : line' = Append(line, e)
    /\ inLine' = TRUE
    /\ UNCHANGED <<taken, turned>>

Older(e) == IF e.ready \/ e.left = 0 THEN e ELSE [e EXCEPT !.left = @ - 1]
GivenUp(e) == ~e.ready /\ e.left = 0

\* The line after one more run of the handler, and without its first n.
Aged == [i \in 1..Len(line) |-> Older(line[i])]
After(n) == SubSeq(Aged, n + 1, Len(line))

\* A run of the handler that has other things to do.
Wait ==
    /\ Leaves(Aged)
    /\ ~turned
    /\ UNCHANGED <<taken, turned>>

\* A run that looks for a message: those given up leave, up to the first one
\* that is not; if that one is complete it is taken, or leaves at once, and
\* if not it is the normal queue's turn.
Look ==
    /\ ~taken /\ ~turned
    /\ \E n \in 0..Len(line) :
          /\ \A i \in 1..n : GivenUp(Aged[i])
          /\ n < Len(line) => ~GivenUp(Aged[n + 1])
          /\ IF n < Len(line) /\ Aged[n + 1].ready
             THEN /\ \/ line' = After(n) /\ inLine' = TRUE /\ taken' = TRUE
                     \/ Leaves(After(n + 1)) /\ taken' = FALSE
                  /\ turned' = FALSE
             ELSE line' = After(n) /\ inLine' = TRUE /\ taken' = FALSE /\ turned' = TRUE

\* The normal queue has been looked at.
TurnBack ==
    /\ turned
    /\ turned' = FALSE
    /\ Leaves(line)
    /\ UNCHANGED taken

\* The message taken is answered, or a run of the handler is done with it.
Leave ==
    /\ taken /\ ~turned
    /\ \E l \in {Tail(line), After(1)} : Leaves(l)
    /\ taken' = FALSE
    /\ UNCHANGED turned

\* The normal queue is filled, and its messages come and go.
Aside == UNCHANGED <<line, inLine, taken, turned>>

\* Out of order nothing is promised, until the line is in order again.
OutOfOrder == ~inLine

Next ==
    \/ inLine /\ (Enter \/ Wait \/ Look \/ TurnBack \/ Leave \/ Aside)
    \/ OutOfOrder

Spec == Init /\ [][Next]_vars
================================================================================
