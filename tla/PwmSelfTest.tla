------------------------------ MODULE PwmSelfTest ------------------------------
(***************************************************************************)
(* The PWM driver's self test on its own: the PWM interrupt runs the       *)
(* handler, a caller starts a test or reads its result, and the fault      *)
(* input may take any value at any sample.                                 *)
(*                                                                         *)
(* One calling rule is assumed here: a caller starts a new test only after *)
(* the handler ran once with no test going on (that call clears the sample *)
(* counters, EnableDiagnostic does not).  SafetyMgr checks that the safety *)
(* manager keeps the rule, as TestStartsClean.                             *)
(***************************************************************************)
EXTENDS SRMCPwmDiag

VARIABLES
    diag,      \* the driver's record
    seen       \* history: the samples that count in the current test

vars == <<diag, seen>>

\* Samples of each kind: inactive at rest, active when tripped on purpose,
\* inactive again after release.
NoSamples == [rest |-> 0, tripped |-> 0, released |-> 0]

TypeOK ==
    /\ diag \in DiagType
    /\ diag.active + diag.default <= TotalSamples
    /\ diag.zero <= ZeroTime
    /\ diag.one <= OneTime
    /\ seen \in [rest : 0..TotalSamples, tripped : 0..TotalSamples, released : 0..TotalSamples]

Init ==
    /\ diag = DiagInit
    /\ seen = NoSamples

(* What this sample adds to the evidence of the phase it is taken in.      *)
Evidence(pin) ==
    CASE diag.st = "CHECK_SIGNAL_POL" /\ ~pin -> [seen EXCEPT !.rest = @ + 1]
      [] diag.st = "CHECK_STUCK_AT_1" /\ diag.zero = 0 /\ pin /\ diag.thr = "TEST"
            -> [seen EXCEPT !.tripped = @ + 1]
      [] diag.st = "CHECK_STUCK_AT_0" /\ diag.one = 0 /\ ~pin /\ diag.thr = "NORMAL"
            -> [seen EXCEPT !.released = @ + 1]
      [] OTHER -> seen

(* SRMCPwm__DiagnosticHandler in a PWM interrupt.                          *)
Handler(pin) ==
    /\ diag' = DiagnosticHandler(Latch(diag, pin), pin)
    /\ seen' = Evidence(pin)

(* SRMCPwm__EnableDiagnostic, called by the rule above.                    *)
Enable ==
    /\ diag.st = "WAITING_TO_CHECK" => diag.active + diag.default = 0
    /\ diag' = EnableDiagnostic(diag)
    /\ UNCHANGED seen

(* SRMCPwm__GetDiagnosticFeedback.  Reading a result uses the evidence up. *)
GetFeedback ==
    /\ diag' = FeedbackRead(diag)
    /\ seen' = IF diag.st = "FEEDBACK_UPDATED" THEN NoSamples ELSE seen

(* SRMCPwm__TurnOffAllGates: it also clears the over-current latch.        *)
TurnOffAllGates(pin) ==
    /\ diag' = ClearFaultFlag(diag, pin)
    /\ UNCHANGED seen

Next ==
    \/ \E pin \in BOOLEAN : Handler(pin)
    \/ Enable
    \/ GetFeedback
    \/ \E pin \in BOOLEAN : TurnOffAllGates(pin)

Spec == Init /\ [][Next]_vars
--------------------------------------------------------------------------------
(* A SAFE result rests on one whole test of its own: since the last result *)
(* was read the input was seen inactive at rest, active when the           *)
(* comparator was tripped on purpose and inactive after the release, each  *)
(* in the number of samples the driver's decision needs.  In particular a  *)
(* SAFE result can be read once per test only (SRMCPwm.c:1260).            *)
SafeMeansTested ==
    (diag.st = "FEEDBACK_UPDATED" /\ diag.errors = {}) =>
        /\ seen.rest > TotalSamples - DecisionSamples
        /\ seen.tripped >= DecisionSamples
        /\ seen.released >= DecisionSamples
================================================================================
