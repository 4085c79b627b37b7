------------------------------ MODULE SRMCPwmDiag ------------------------------
(***************************************************************************)
(* The shut-down self test of the PWM driver (Driver/SRMCPwm/SRMCPwm.c) as *)
(* operators on the record of its class B variables.  The test trips the   *)
(* hardware over-current comparator on purpose, by lowering its threshold, *)
(* and looks at the fault input of the PWM timer in three phases.          *)
(*                                                                         *)
(*   st       SR_MCPwm_Diag_State                                          *)
(*   zero     SR_MCPwm_Zero_Timeout      one    SR_MCPwm_One_Timeout       *)
(*   active   SR_MCPwm_Pulse_Active_Level                                  *)
(*   default  SR_MCPwm_Pulse_Default_Level                                 *)
(*   errors   SR_MCPwm_Errors (the three error bits that are read back)    *)
(*   thr      the comparator threshold last programmed                     *)
(*   latched  FAULTF of the timer: the over-current latch                  *)
(*                                                                         *)
(* The operators are shared by the component's own specification           *)
(* (PwmSelfTest) and by the safety manager that calls them (SafetyMgr).    *)
(***************************************************************************)
EXTENDS Naturals

CONSTANTS
    TotalSamples,     \* SR_MCPWM_DIAG_TOTAL_SAMPLES_NR (25)
    DecisionSamples,  \* SR_MCPWM_DIAG_SAMPLES_4_DECISION (15)
    ZeroTime,         \* SD_PIN_ZERO_TIME, in PWM interrupts (40)
    OneTime           \* SD_PIN_ONE_TIME, in PWM interrupts (320)

ASSUME DiagConstants ==
    /\ TotalSamples \in Nat \ {0}
    /\ DecisionSamples \in 1..TotalSamples
    /\ ZeroTime \in Nat
    /\ OneTime \in Nat

DiagStates == {"WAITING_TO_CHECK", "CHECK_SIGNAL_POL", "CHECK_STUCK_AT_1",
               "CHECK_STUCK_AT_0", "FEEDBACK_UPDATED"}
DiagErrors == {"SHUTDOWN_ALREADY_ON", "REGISTER_STUCK_AT_1", "REGISTER_STUCK_AT_0"}
Feedbacks  == {"PERIPHERAL_SAFE", "PERIPHERAL_NOT_SAFE", "WAITING_START_TRIGGER", "CHECKING"}

DiagType == [st : DiagStates, zero : Nat, one : Nat,
             active : Nat, default : Nat,
             errors : SUBSET DiagErrors, thr : {"NORMAL", "TEST"}, latched : BOOLEAN]

\* SRMCPwm__Initialize, the class B part.  The code stored in the errors,
\* SR_MCPWM_ERROR_PERIPHERAL_NOT_SAFE, is 4: read as bits, the third error.
DiagInit == [st |-> "WAITING_TO_CHECK", zero |-> 0, one |-> 0, active |-> 0, default |-> 0,
             errors |-> {"REGISTER_STUCK_AT_0"}, thr |-> "NORMAL", latched |-> FALSE]

(* The timer latches FAULTF while its fault input is active and lets the   *)
(* program clear it only while the input is inactive.                      *)
Latch(d, pin) == [d EXCEPT !.latched = @ \/ pin]
ClearFaultFlag(d, pin) == [d EXCEPT !.latched = @ /\ pin]

EnableDiagnostic(d) ==
    IF d.st = "WAITING_TO_CHECK"
    THEN [d EXCEPT !.st = "CHECK_SIGNAL_POL", !.zero = ZeroTime, !.one = OneTime]
    ELSE d

\* One more sample of the fault input.
Sampled(d, pin) == IF pin THEN [d EXCEPT !.active = @ + 1]
                          ELSE [d EXCEPT !.default = @ + 1]

Complete(d)  == d.active + d.default >= TotalSamples
Fails(d, e)  == [d EXCEPT !.errors = @ \cup {e}, !.st = "FEEDBACK_UPDATED"]

\* Faulty variant: the samples of a phase count in the next one.
BadAdvances(d, e, next, thr) == [d EXCEPT !.errors = @ \ {e}, !.st = next, !.thr = thr]

Advances(d, e, next, thr) == [d EXCEPT !.errors = @ \ {e}, !.st = next, !.thr = thr,
                                       !.active = 0, !.default = 0]

CheckSignalPol(d, pin) ==
    LET s == Sampled([d EXCEPT !.thr = "NORMAL"], pin) IN
    IF ~Complete(s) THEN s
    ELSE IF s.active >= DecisionSamples THEN Fails(s, "SHUTDOWN_ALREADY_ON")
    ELSE Advances(s, "SHUTDOWN_ALREADY_ON", "CHECK_STUCK_AT_1", "TEST")

Settling(d) == [d EXCEPT !.zero = @ - 1]

\* Faulty variant: the comparator is left tripped by the phase that passed.
BadCheckStuckAt1(d, pin) ==
    LET s == Sampled(d, pin) IN
    IF d.zero > 0 THEN Settling(d)
    ELSE IF ~Complete(s) THEN s
    ELSE IF s.active >= DecisionSamples
    THEN Advances(s, "REGISTER_STUCK_AT_1", "CHECK_STUCK_AT_0", "TEST")
    ELSE Fails(s, "REGISTER_STUCK_AT_1")

CheckStuckAt1(d, pin) ==
    LET s == Sampled(d, pin) IN
    IF d.zero > 0 THEN Settling(d)
    ELSE IF ~Complete(s) THEN s
    ELSE IF s.active >= DecisionSamples
    THEN Advances(s, "REGISTER_STUCK_AT_1", "CHECK_STUCK_AT_0", "NORMAL")
    ELSE Fails(s, "REGISTER_STUCK_AT_1")

CheckStuckAt0(d, pin) ==
    LET s == Sampled(d, pin) IN
    IF d.one > 0 THEN [d EXCEPT !.one = @ - 1]
    ELSE IF ~Complete(s) THEN s
    ELSE IF s.default >= DecisionSamples
    THEN ClearFaultFlag([s EXCEPT !.errors = @ \ {"REGISTER_STUCK_AT_0"},
                                  !.st = "FEEDBACK_UPDATED"], pin)
    ELSE Fails(s, "REGISTER_STUCK_AT_0")

\* Faulty variant: the idle call leaves the counters as they are.
BadNoTest(d) == d

NoTest(d) == [d EXCEPT !.active = 0, !.default = 0]

(* SRMCPwm__DiagnosticHandler: one call, from the PWM interrupt.           *)
DiagnosticHandler(d, pin) ==
    IF d.st = "WAITING_TO_CHECK" THEN NoTest(d)
    ELSE IF d.st = "CHECK_SIGNAL_POL" THEN CheckSignalPol(d, pin)
    ELSE IF d.st = "CHECK_STUCK_AT_1" THEN CheckStuckAt1(d, pin)
    ELSE IF d.st = "CHECK_STUCK_AT_0" THEN CheckStuckAt0(d, pin)
    ELSE d

(* SRMCPwm__GetDiagnosticFeedback: the answer, and the machine sent back   *)
(* to its first state by a caller that read a result.                      *)
DiagFeedback(d) ==
    IF d.st = "WAITING_TO_CHECK" THEN "WAITING_START_TRIGGER"
    ELSE IF d.st # "FEEDBACK_UPDATED" THEN "CHECKING"
    ELSE IF d.errors = {} THEN "PERIPHERAL_SAFE" ELSE "PERIPHERAL_NOT_SAFE"

FeedbackRead(d) ==
    IF d.st = "FEEDBACK_UPDATED" THEN [d EXCEPT !.st = "WAITING_TO_CHECK"] ELSE d

(* SRMCPwm__GetHwFaultStatus: silent while a test is going on.             *)
HwFault(d) == d.latched /\ d.st \in {"FEEDBACK_UPDATED", "WAITING_TO_CHECK"}
================================================================================
