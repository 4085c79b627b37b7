----------------------------- MODULE MCPwmInterrupt -----------------------------
(***************************************************************************)
(* The PWM interrupt in detail: its self test sample by sample, the words  *)
(* of classes B and A that it shares with the main loop at the grain of    *)
(* loads and stores, and the recorder that it runs.  The four share no     *)
(* variable, so a behaviour follows one of them, part, and the others stay *)
(* as initialised.                                                         *)
(*                                                                         *)
(* 5 samples with a majority of 3 keep the driver's 60% decision rule and  *)
(* leave room for a tolerated minority of wrong samples.                   *)
(***************************************************************************)
EXTENDS PwmSelfTest, SharedWords, ClassAWords, Recorder

VARIABLE part   \* "selfTest", "words", "classA" or "recorder"

pwmInterruptVars == <<part, vars, sharedVars, classAWordVars, recVars>>

ThreeSetups == {[total |-> 3, bytes |-> 1, post |-> 1, div |-> 0, edge |-> TRUE],
                [total |-> 2, bytes |-> 1, post |-> 2, div |-> 1, edge |-> FALSE],
                [total |-> 2, bytes |-> 2, post |-> 0, div |-> 0, edge |-> TRUE]}

WordsTypeOK == TypeOK /\ SharedTypeOK /\ ClassAWordsTypeOK /\ RecTypeOK

PwmInterruptInit ==
    /\ part \in {"selfTest", "words", "classA", "recorder"}
    /\ Init /\ SharedInit /\ ClassAWordsInit /\ RecInit

PwmInterruptNext ==
    /\ UNCHANGED part
    /\ \/ part = "selfTest" /\ Next
       \/ part = "words" /\ SharedNext
       \/ part = "classA" /\ ClassAWordsNext
       \/ part = "recorder" /\ RecNext
    /\ part # "selfTest" => UNCHANGED vars
    /\ part # "words" => UNCHANGED sharedVars
    /\ part # "classA" => UNCHANGED classAWordVars
    /\ part # "recorder" => UNCHANGED recVars

(* The PWM timer interrupts again and again, and what it interrupts goes   *)
(* on, the main loop or the 250 us interrupt with its host commands;       *)
(* and in one of these interrupts the self tests end, as TestsEnd shows.   *)
PwmInterruptFairness ==
    /\ WF_sharedVars(part = "words" /\ MainLoopGoesOn)
    /\ WF_sharedVars(part = "words" /\ Check)
    /\ WF_sharedVars(part = "words" /\ PwmTick)
    /\ WF_sharedVars(part = "words" /\ TestsGiveResults)
    /\ WF_recVars(part = "recorder" /\ PwmRecorder)
    /\ WF_recVars(part = "recorder" /\ (StopTests \/ StopLoads \/ StopSets \/ StopCounts))

PwmInterruptSpec ==
    PwmInterruptInit /\ [][PwmInterruptNext]_pwmInterruptVars /\ PwmInterruptFairness
=================================================================================
