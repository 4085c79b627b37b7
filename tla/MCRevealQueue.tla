----------------------------- MODULE MCRevealQueue -----------------------------
(***************************************************************************)
(* The queues of the Reveal bus by themselves: urgent messages that are    *)
(* commands, that may be refused, and that have a counter with room to run *)
(* down, and normal messages that are neither; and reports to the board    *)
(* itself among both.                                                      *)
(***************************************************************************)
EXTENDS RevealQueue

Commands == {[cmd |-> TRUE, to |-> "acu"]}
ToItself == {[cmd |-> FALSE, to |-> "own"]}
ToAll == {[cmd |-> FALSE, to |-> "all"]}
AllThree == Commands \cup ToItself \cup ToAll
================================================================================
