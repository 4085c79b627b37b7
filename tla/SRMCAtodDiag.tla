------------------------------ MODULE SRMCAtodDiag -----------------------------
(***************************************************************************)
(* The converter self test of the AtoD driver (Driver/SRMCAtod/SRMCAtod.c) *)
(* as operators on the record of its class B variables: three reference    *)
(* voltages in turn, both converters at each.                              *)
(*                                                                         *)
(*   st      SR_State                                                      *)
(*   holder  SR_Fault_Holder, the three error codes taken together         *)
(***************************************************************************)

AtodStates == {"WAITING_TO_CHECK", "START_EVAL", "CHECK_STUCK_AT_1", "CHECK_STUCK_AT_0",
               "CHECK_CONVERTER_ERROR", "FEEDBACK_UPDATED"}
AtodAnswers == {"SAFE", "NOT_SAFE", "TEST_NOT_PERFORMED", "TEST_NOT_INITIALIZED"}
AtodType == [st : AtodStates, holder : AtodAnswers]

\* SRMCAtod__Initialize.
AtodInit == [st |-> "WAITING_TO_CHECK", holder |-> "TEST_NOT_PERFORMED"]

\* Faulty variant: a finished test is never started again.
BadAtodEnable(a) == IF a.st = "WAITING_TO_CHECK" THEN [a EXCEPT !.st = "START_EVAL"] ELSE a

AtodEnable(a) ==
    IF a.st \in {"WAITING_TO_CHECK", "FEEDBACK_UPDATED"} THEN [a EXCEPT !.st = "START_EVAL"] ELSE a

\* One reference voltage: both converters within the threshold, or the test
\* is over with an error.
AtodPhase(ok, next) ==
    IF ok THEN [st |-> next, holder |-> "SAFE"]
          ELSE [st |-> "FEEDBACK_UPDATED", holder |-> "NOT_SAFE"]

(* SRMCAtod__DiagnosticHandler; "ok" is what IsConverterSafe finds.        *)
AtodHandler(a, ok) ==
    IF a.st = "START_EVAL" THEN [st |-> "CHECK_STUCK_AT_1", holder |-> "TEST_NOT_PERFORMED"]
    ELSE IF a.st = "CHECK_STUCK_AT_1" THEN AtodPhase(ok, "CHECK_STUCK_AT_0")
    ELSE IF a.st = "CHECK_STUCK_AT_0" THEN AtodPhase(ok, "CHECK_CONVERTER_ERROR")
    ELSE IF a.st = "CHECK_CONVERTER_ERROR" THEN AtodPhase(ok, "FEEDBACK_UPDATED")
    ELSE a

(* SRMCAtod__GetDiagnosticFeedback.  Reading a result does not leave       *)
(* FEEDBACK_UPDATED, it only takes the result away.                        *)
AtodFeedback(a) ==
    IF a.st = "FEEDBACK_UPDATED" THEN a.holder
    ELSE IF a.st = "WAITING_TO_CHECK" THEN "TEST_NOT_INITIALIZED"
    ELSE "TEST_NOT_PERFORMED"

AtodFeedbackRead(a) ==
    IF a.st = "FEEDBACK_UPDATED" THEN [a EXCEPT !.holder = "TEST_NOT_INITIALIZED"] ELSE a
================================================================================
