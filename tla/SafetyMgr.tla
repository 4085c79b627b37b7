------------------------------- MODULE SafetyMgr -------------------------------
(***************************************************************************)
(* The class B motor safety manager                                        *)
(* (Hbl/SRMotorSafetyMgr/SRMotorSafetyMgr.c), with the self tests of the   *)
(* two drivers it calls.  It owns the inverter: class A software may write *)
(* PWM duties only while the flag SR_FLAG_CLASS_A_PWM_ACCESS is set.       *)
(*                                                                         *)
(* Three contexts share its variables.  The PWM interrupt (priority 0)     *)
(* runs to completion over everything else, the 250 us interrupt           *)
(* (priority 1) over the main loop, and the main loop calls the 5 ms and   *)
(* 25 ms handlers.  The 5 ms handler is therefore two actions, the voltage *)
(* and fault check and the dispatch on the state: interrupts may fall      *)
(* between them.                                                           *)
(*                                                                         *)
(* What class A asks for in an interrupt (its callback runs inside the PWM *)
(* handler) is a parameter of MCPwmHandler: any request here, what Mci.c   *)
(* really asks for in the composition MotorControl.                        *)
(***************************************************************************)
EXTENDS SRMCPwmDiag, SRMCAtodDiag

CONSTANTS
    ElectronicFailTimeout,   \* ELECTRONIC_FAIL_TIMEOUT, 5 ms slots (120)
    TachoTimeout,            \* TACHO_TIMEOUT (120)
    PhaseLostTimeout,        \* PHASE_LOST_TIMEOUT (200)
    VoltageErrorTimeout,     \* VOLTAGE_ERROR_TIMEOUT (2000)
    HwFaultPostrunTimeout,   \* HW_FAULT_POSTRUN_TIMEOUT (12000)
    PhaseLostThreshold,      \* PHASE_LOST_COUNTER_THLD (1000)
    PowerUpDelay,            \* SR_POWER_UP_DELAY_TIMER (200)
    CalibrationThreshold,    \* SR_CALIBRATION_CNTR_THRESHOLD (5)
    Debouncing,              \* SR_UNLOCKDOORSPEED_DEBOUNCING_COUNTER (320)
    FailTimer,               \* SR_UNLOCKDOORSPEED_FAIL_TIMER_COUNTER (51200)
    IdleBeforeCheck,         \* CHECK_UNLOCK_DOOR_SPEED_IDLING_BEFORE_CHECK_COUNT (1000)
    CheckTimeout,            \* CHECK_UNLOCK_DOOR_SPEED_TIMEOUT_COUNTER (400)
    MinPwmPerSlot,           \* PWM interrupts between two 5 ms slots, at least ...
    MaxPwmPerSlot,           \* ... and at most (80 when the main loop is on time)
    Failing,                 \* the parts of the hardware whose readings may be wrong
    VbusLevels,              \* the DC bus readings that occur
    Temperatures,            \* what OverLoadProtection finds
    PhaseCurrents,           \* what PhaseLostHandler finds
    StopCurrents,            \* whether the squared currents are below their threshold
    InjectionAnswers,        \* whether an injected voltage gives the expected currents
    ParamsCrc                \* what SetParams finds

ASSUME SafetyConstants ==
    /\ {ElectronicFailTimeout, TachoTimeout, PhaseLostTimeout, VoltageErrorTimeout,
        HwFaultPostrunTimeout, PhaseLostThreshold, PowerUpDelay, CalibrationThreshold,
        Debouncing, FailTimer, IdleBeforeCheck, CheckTimeout} \subseteq Nat
    /\ MinPwmPerSlot \in Nat \ {0}
    /\ MaxPwmPerSlot \in Nat
    /\ MinPwmPerSlot <= MaxPwmPerSlot
    /\ Failing \subseteq {"fault_input", "converters", "offsets", "currents"}
    /\ VbusLevels \subseteq {"low", "ok", "high"}
    /\ "ok" \in VbusLevels
    /\ Temperatures \subseteq {"below_low", "between", "above_high"}
    /\ PhaseCurrents \subseteq {"one_lost", "balanced", "unclear"}
    /\ StopCurrents \subseteq BOOLEAN
    /\ InjectionAnswers \subseteq BOOLEAN
    /\ ParamsCrc \subseteq BOOLEAN
    /\ Debouncing >= 2

(* The main loop is on time: the interrupts of two slots do not make a     *)
(* whole PWM self test (435 calls; a slot has 80), even after a converter  *)
(* test (4 calls) that failed in between.                                  *)
MainLoopOnTime ==
    2 * MaxPwmPerSlot + 4 <= 3 * TotalSamples + ZeroTime + OneTime

States == {"INITIALIZE", "IDLE", "PRERUN_TESTS", "POSTRUN_TESTS", "RUNNING",
           "ERROR_FOUND", "UNLOCK_DOOR_CHECK"}

Faults == {"CURRENT_SENSOR_FAILED", "VOLTAGE_SENSOR_FAILED", "PWM_SHUTDOWN_FAILED",
           "UNLOCK_DOOR_SPEED_FAILED", "OVER_CURRENT", "PHASE_LOST", "OVER_LOAD",
           "DCBUS_UNDER_VOLTAGE", "DCBUS_OVER_VOLTAGE"}

Flags == {"UNLOCK_DOOR_SPEED", "CLASS_A_PWM_ACCESS", "REQUESTED_TO_START",
          "REQUESTED_TO_STOP", "PRERUN_TESTS_FINISHED", "MICRO_POWERING_UP",
          "ADC_PLAUSIB_CHECK_OK", "SHUTDOWN_PLAUSIB_CHECK_OK", "DETECTION_PHASE_LOST",
          "MC_PARAMETERS_LOADED", "UNLOCK_DOOR_SPEED_CHECK_REQUESTED", "FORCE_TO_STOP"}

VARIABLES
    state,      \* SR_SafetyMngr_State
    fault,      \* SR_Motor_Fault, as the set of its bits
    flags,      \* SR_Motor_Flags, as the set of its bits
    retry,      \* SR_Timeout_Failure_Retry
    phaseLost,  \* SR_Phase_Lost_Counter
    powerUp,    \* [timer |-> SR_PowerUpTimer, calibration |-> SR_CalibrationCntr]
    moving,     \* [timer |-> SR_ZeroSpeedWithCurrTimer, debouncer |-> SR_ZeroSpeedDebouncer]
    checkTimer, \* SR_Check_Unlock_Door_Speed_Timer
    dcbus,      \* SR_DCBus, against its two thresholds
    diag,       \* the PWM driver's self test
    atod,       \* the AtoD driver's self test
    gates,      \* what the inverter's gates do
    mainLoop,   \* where the 5 ms handler is
    pwmTicks,   \* PWM interrupts since the last 5 ms slot
    tested,     \* history: what has passed since the last start request was taken
    stopped     \* history: what has shown the motor stopped since class A last had access

driverVars == <<diag, atod>>
timers     == <<phaseLost, powerUp, moving, checkTimer>>
history    == <<tested, stopped>>
vars == <<state, fault, flags, retry, timers, dcbus, driverVars, gates, mainLoop, pwmTicks, history>>

AllTests  == {"adc", "shutdown", "analog"}
AllProofs == {"no_current", "shutdown", "injection"}

TypeOK ==
    /\ state \in States
    /\ fault \subseteq Faults
    /\ flags \subseteq Flags
    /\ retry \in Nat
    /\ phaseLost \in 0..PhaseLostThreshold
    /\ powerUp \in [timer : Nat, calibration : Nat]
    /\ moving \in [timer : Nat, debouncer : Nat]
    /\ checkTimer \in Nat
    /\ dcbus \in {"low", "ok", "high"}
    /\ diag \in DiagType
    /\ atod \in AtodType
    /\ gates \in {"off", "lowers", "duty", "probe"}
    /\ mainLoop \in {"waiting", "dispatch"}
    /\ pwmTicks \in Nat
    /\ tested \subseteq AllTests
    /\ stopped \subseteq AllProofs

(* SRMotorSafetyMgr__Initialize.  SR_DCBus starts at zero: below the low   *)
(* threshold.                                                              *)
Init ==
    /\ state = "INITIALIZE"
    /\ fault = {}
    /\ flags = {"MICRO_POWERING_UP"}
    /\ retry = 0
    /\ phaseLost = 0
    /\ powerUp = [timer |-> 0, calibration |-> 0]
    /\ moving = [timer |-> 0, debouncer |-> 0]
    /\ checkTimer = 0
    /\ dcbus = IF "low" \in VbusLevels THEN "low" ELSE "ok"
    /\ diag = DiagInit
    /\ atod = AtodInit
    /\ gates = "lowers"
    /\ mainLoop = "waiting"
    /\ pwmTicks = 0
    /\ tested = {}
    /\ stopped = {}

\* What the fault input may read: anything on failing hardware, otherwise
\* active exactly when the comparator was tripped on purpose.
FaultInput == IF "fault_input" \in Failing THEN BOOLEAN ELSE {diag.thr = "TEST"}
--------------------------------------------------------------------------------
(* The PWM interrupt: SRMotorSafetyMgr__MCPwmHandler.                      *)

\* PeripheralDiagnostic in PRERUN_TESTS: both self tests advance, their
\* results are collected in the flags, and once both have passed the analog
\* circuit is checked too.
PrerunDiagnostic(d, a, analog) ==
    LET adc == AtodFeedback(a)
        pwm == DiagFeedback(d)
        ok  == flags \cup (IF adc = "SAFE" THEN {"ADC_PLAUSIB_CHECK_OK"} ELSE {})
                     \cup (IF pwm = "PERIPHERAL_SAFE" THEN {"SHUTDOWN_PLAUSIB_CHECK_OK"} ELSE {})
        both == {"ADC_PLAUSIB_CHECK_OK", "SHUTDOWN_PLAUSIB_CHECK_OK"}
        analogOk == both \subseteq ok /\ analog = "CORRECT"
    IN  [diag   |-> FeedbackRead(d),
         atod   |-> AtodFeedbackRead(a),
         flags  |-> (IF both \subseteq ok THEN ok \ both ELSE ok)
                        \cup (IF analogOk THEN {"PRERUN_TESTS_FINISHED"} ELSE {}),
         faults |-> (IF adc = "NOT_SAFE" THEN {"CURRENT_SENSOR_FAILED"} ELSE {})
                        \cup (IF pwm = "PERIPHERAL_NOT_SAFE" THEN {"PWM_SHUTDOWN_FAILED"} ELSE {})
                        \cup (IF both \subseteq ok /\ analog = "CURR_FAIL"
                              THEN {"CURRENT_SENSOR_FAILED"} ELSE {})
                        \cup (IF both \subseteq ok /\ analog = "VBUS_FAIL"
                              THEN {"VOLTAGE_SENSOR_FAILED"} ELSE {}),
         passed |-> (IF adc = "SAFE" THEN {"adc"} ELSE {})
                        \cup (IF pwm = "PERIPHERAL_SAFE" THEN {"shutdown"} ELSE {})
                        \cup (IF analogOk THEN {"analog"} ELSE {})]

PeripheralDiagnostic(pin, ok, analog) ==
    LET d == Latch(diag, pin)
    IN  IF state = "PRERUN_TESTS"
        THEN PrerunDiagnostic(DiagnosticHandler(d, pin), AtodHandler(atod, ok), analog)
        ELSE [diag   |-> IF state = "POSTRUN_TESTS" THEN DiagnosticHandler(d, pin) ELSE d,
              atod   |-> atod,
              flags  |-> flags,
              faults |-> {},
              passed |-> {}]

\* ClassAPwmAccess: who owns the inverter until the next interrupt.
AccessGranted(fl, fa) == state = "RUNNING" /\ fa = {} /\ "REQUESTED_TO_STOP" \notin fl

\* Faulty variant: the access is given, never taken back.
BadClassAPwmAccess(fl, fa) ==
    IF AccessGranted(fl, fa) THEN fl \cup {"CLASS_A_PWM_ACCESS"} ELSE fl

ClassAPwmAccess(fl, fa) ==
    IF AccessGranted(fl, fa) THEN fl \cup {"CLASS_A_PWM_ACCESS"}
                             ELSE fl \ {"CLASS_A_PWM_ACCESS"}

GatesByClassB(fl, fa) ==
    IF state = "RUNNING" /\ ~AccessGranted(fl, fa) THEN "lowers" ELSE gates

\* SRMotorSafetyMgr__Prepare2StartMotor and __Prepare2StopMotor.
Requested(fl, req) ==
    IF req = "start" /\ state = "IDLE" /\ "MC_PARAMETERS_LOADED" \in fl
    THEN (fl \cup {"REQUESTED_TO_START"}) \ {"REQUESTED_TO_STOP"}
    ELSE IF req = "stop" /\ state \in {"RUNNING", "PRERUN_TESTS"}
    THEN fl \cup {"REQUESTED_TO_STOP"}
    ELSE fl

\* SRMotorSafetyMgr__UpdatePwm and __ConfigPwmPattern.  Duties do not unmask
\* outputs that were turned off.
GatesByClassA(fl, g, out) ==
    IF \/ "CLASS_A_PWM_ACCESS" \notin fl
       \/ out = "none"
       \/ out = "duty" /\ g = "off"
    THEN g ELSE out

MCPwmHandler(pin, ok, analog, vbus, req, out) ==
    LET p  == PeripheralDiagnostic(pin, ok, analog)
        fl == ClassAPwmAccess(p.flags, fault \cup p.faults)
        g  == GatesByClassB(p.flags, fault \cup p.faults)
        off == "CLASS_A_PWM_ACCESS" \in fl /\ out = "off"
    IN  /\ pwmTicks < MaxPwmPerSlot
        /\ pwmTicks' = pwmTicks + 1
        /\ dcbus' = vbus
        /\ atod' = p.atod
        /\ diag' = IF off THEN ClearFaultFlag(p.diag, pin) ELSE p.diag
        /\ fault' = fault \cup p.faults
        /\ retry' = IF p.faults # {} THEN ElectronicFailTimeout ELSE retry
        /\ flags' = Requested(fl, req)
        /\ gates' = GatesByClassA(fl, g, out)
        /\ tested' = tested \cup p.passed
        /\ stopped' = IF "CLASS_A_PWM_ACCESS" \in fl THEN {} ELSE stopped
        /\ UNCHANGED <<state, timers, mainLoop>>

(* The 250 us interrupt, as far as it has a say: CheckCurrentsPlausibility. *)
Handler250us ==
    /\ state = "RUNNING"
    /\ fault' = fault \cup {"CURRENT_SENSOR_FAILED"}
    /\ retry' = ElectronicFailTimeout
    /\ UNCHANGED <<state, flags, timers, dcbus, driverVars, gates, mainLoop, pwmTicks, history>>
--------------------------------------------------------------------------------
(* The main loop's 5 ms slot, first part: OverVoltageCheck, then ERROR_FOUND *)
(* for any fault once the initialisation is over.                          *)

VoltageFaults ==
    IF state \in {"PRERUN_TESTS", "ERROR_FOUND"} THEN {}
    ELSE (IF dcbus = "low" THEN {"DCBUS_UNDER_VOLTAGE"} ELSE {})
            \cup (IF dcbus = "high" THEN {"DCBUS_OVER_VOLTAGE"} ELSE {})

Handler5ms_Check ==
    /\ mainLoop = "waiting"
    /\ pwmTicks >= MinPwmPerSlot
    /\ mainLoop' = "dispatch"
    /\ fault' = fault \cup VoltageFaults
    /\ retry' = IF VoltageFaults # {} THEN VoltageErrorTimeout ELSE retry
    /\ state' = IF fault' # {} /\ state # "INITIALIZE" THEN "ERROR_FOUND" ELSE state
    /\ UNCHANGED <<flags, timers, dcbus, driverVars, gates, pwmTicks, history>>

(* Second part: one action per state the handler finds.                    *)
SlotEnds == mainLoop = "dispatch" /\ mainLoop' = "waiting" /\ pwmTicks' = 0

\* Faulty variant: the door's release survives a new run of the motor.
BadMotorMoves(fl) == fl

\* InitMotorMovingHandlerBpm, on the flags fl.
MotorMoves(fl) == fl \ {"UNLOCK_DOOR_SPEED"}
MovingReset == [timer |-> 0, debouncer |-> 0]

\* PhaseLostHandler: the detection flag is kept when one phase carries no
\* current but the other two do not carry enough.
PhaseLostFlags(rms) ==
    IF rms = "one_lost" THEN flags \cup {"DETECTION_PHASE_LOST"}
    ELSE IF rms = "balanced" THEN flags \ {"DETECTION_PHASE_LOST"}
    ELSE flags

PhaseLostCount(fl) ==
    IF "DETECTION_PHASE_LOST" \in fl THEN phaseLost + 1
    ELSE IF phaseLost > 0 THEN phaseLost - 1 ELSE 0

PhaseIsLost(fl) == "DETECTION_PHASE_LOST" \in fl /\ PhaseLostCount(fl) > PhaseLostThreshold

\* Faulty variant: the counter is not held at its threshold.
BadPhaseLostStored(fl) == PhaseLostCount(fl)

PhaseLostStored(fl) == IF PhaseIsLost(fl) THEN PhaseLostThreshold ELSE PhaseLostCount(fl)

Running(rms) ==
    LET fl == PhaseLostFlags(rms)
        lost == PhaseIsLost(fl)
    IN  /\ state = "RUNNING"
        /\ SlotEnds
        /\ flags' = fl
        /\ phaseLost' = PhaseLostStored(fl)
        /\ fault' = fault \cup (IF lost THEN {"PHASE_LOST"} ELSE {})
                          \cup (IF HwFault(diag) THEN {"OVER_CURRENT"} ELSE {})
        /\ retry' = IF HwFault(diag) THEN ElectronicFailTimeout
                    ELSE IF lost THEN PhaseLostTimeout ELSE retry
        /\ state' = IF ~HwFault(diag) /\ "REQUESTED_TO_STOP" \in fl THEN "POSTRUN_TESTS" ELSE state
        /\ UNCHANGED <<powerUp, moving, checkTimer, dcbus, driverVars, gates, history>>

\* MotorMovingHandlerBpm and what POSTRUN_TESTS makes of its outcome.
BadDebounced(noCurrent) ==   \* faulty variant: it stops one short of the debouncing
    IF ~(noCurrent /\ moving.debouncer + 1 < Debouncing) THEN moving.debouncer
    ELSE IF HwFault(diag) THEN 0 ELSE moving.debouncer + 1

Debounced(noCurrent) ==
    IF ~(noCurrent /\ moving.debouncer < Debouncing) THEN moving.debouncer
    ELSE IF HwFault(diag) THEN 0 ELSE moving.debouncer + 1

SensorFaults == {"CURRENT_SENSOR_FAILED", "VOLTAGE_SENSOR_FAILED", "PWM_SHUTDOWN_FAILED"}

Postrun(noCurrent) ==
    LET n     == Debounced(noCurrent)
        hw    == noCurrent /\ moving.debouncer < Debouncing /\ HwFault(diag)
        d     == IF n >= Debouncing THEN EnableDiagnostic(diag) ELSE diag
        answer == IF n >= Debouncing THEN DiagFeedback(d) ELSE "CHECKING"
        f     == fault \cup (IF hw THEN {"OVER_CURRENT"} ELSE {})
                       \cup (IF answer = "PERIPHERAL_NOT_SAFE" THEN {"PWM_SHUTDOWN_FAILED"} ELSE {})
        failed == moving.timer + 1 >= FailTimer \/ f \cap SensorFaults # {}
                      \/ "UNLOCK_DOOR_SPEED_FAILED" \in f
        fl    == IF answer = "PERIPHERAL_SAFE"
                 THEN flags \cup {"UNLOCK_DOOR_SPEED_CHECK_REQUESTED"} ELSE flags
        idle  == ~failed /\ "UNLOCK_DOOR_SPEED_CHECK_REQUESTED" \in fl
    IN  /\ state = "POSTRUN_TESTS"
        /\ SlotEnds
        /\ gates' = "lowers"
        /\ moving' = [timer |-> moving.timer + 1, debouncer |-> n]
        /\ diag' = IF n >= Debouncing THEN FeedbackRead(d) ELSE d
        /\ fault' = IF failed THEN f \cup {"UNLOCK_DOOR_SPEED_FAILED"} ELSE f
        /\ retry' = IF failed THEN TachoTimeout ELSE IF hw THEN HwFaultPostrunTimeout ELSE retry
        /\ flags' = IF idle THEN fl \ {"REQUESTED_TO_START"} ELSE fl
        /\ checkTimer' = IF ~idle THEN checkTimer
                         ELSE IF "FORCE_TO_STOP" \in fl THEN 0 ELSE IdleBeforeCheck
        /\ state' = IF idle THEN "IDLE" ELSE state
        /\ stopped' = stopped \cup (IF n >= Debouncing THEN {"no_current"} ELSE {})
                              \cup (IF answer = "PERIPHERAL_SAFE" THEN {"shutdown"} ELSE {})
        /\ UNCHANGED <<phaseLost, powerUp, dcbus, atod, tested>>

\* Faulty variant: the outcome of the last start is still there.
BadTestsRestart(fl) == fl \ {"REQUESTED_TO_START"}

TestsRestart(fl) == fl \ {"REQUESTED_TO_START", "PRERUN_TESTS_FINISHED"}

Prerun ==
    LET starts   == "REQUESTED_TO_START" \in flags
        fl       == IF starts THEN TestsRestart(flags) ELSE flags
        finished == "PRERUN_TESTS_FINISHED" \in fl
    IN  /\ state = "PRERUN_TESTS"
        /\ SlotEnds
        /\ gates' = "lowers"
        /\ atod' = IF starts THEN AtodEnable(atod) ELSE atod
        /\ diag' = IF starts THEN EnableDiagnostic(diag) ELSE diag
        /\ flags' = IF finished THEN MotorMoves(fl) ELSE fl
        /\ moving' = IF finished THEN MovingReset ELSE moving
        /\ state' = IF ~finished THEN state
                    ELSE IF "REQUESTED_TO_STOP" \in fl THEN "POSTRUN_TESTS" ELSE "RUNNING"
        /\ fault' = IF HwFault(diag') THEN fault \cup {"OVER_CURRENT"} ELSE fault
        /\ retry' = IF HwFault(diag') THEN ElectronicFailTimeout ELSE retry
        /\ tested' = IF starts THEN {} ELSE tested
        /\ UNCHANGED <<phaseLost, powerUp, checkTimer, dcbus, stopped>>

\* Faulty variant: the pending check survives the start.
BadStartTaken(fl) == fl \ {"FORCE_TO_STOP"}

\* A start request wins over the pending check of the unlock door speed.
StartTaken(fl) == fl \ {"FORCE_TO_STOP", "UNLOCK_DOOR_SPEED_CHECK_REQUESTED"}

Idle(pin) ==
    LET starts == "REQUESTED_TO_START" \in flags
        fl     == IF starts THEN StartTaken(flags) ELSE flags
        waits  == "UNLOCK_DOOR_SPEED_CHECK_REQUESTED" \in fl /\ "UNLOCK_DOOR_SPEED" \notin fl
        checks == waits /\ checkTimer = 0
    IN  /\ state = "IDLE"
        /\ SlotEnds
        /\ diag' = ClearFaultFlag(diag, pin)
        /\ gates' = IF checks THEN "lowers" ELSE "off"
        /\ flags' = IF checks THEN fl \ {"UNLOCK_DOOR_SPEED_CHECK_REQUESTED"} ELSE fl
        /\ checkTimer' = IF checks THEN CheckTimeout
                         ELSE IF waits THEN checkTimer - 1 ELSE checkTimer
        /\ state' = IF starts THEN "PRERUN_TESTS"
                    ELSE IF checks THEN "UNLOCK_DOOR_CHECK" ELSE state
        /\ UNCHANGED <<fault, retry, phaseLost, powerUp, moving, dcbus, atod, history>>

\* A voltage is injected until the three currents answer as they should.
UnlockDoorCheck(answered) ==
    /\ state = "UNLOCK_DOOR_CHECK"
    /\ SlotEnds
    /\ \/ /\ checkTimer > 0
          /\ checkTimer' = checkTimer - 1
          /\ gates' = "probe"
          /\ IF answered
             THEN /\ flags' = flags \cup {"UNLOCK_DOOR_SPEED"}
                  /\ state' = "IDLE"
                  /\ stopped' = stopped \cup {"injection"}
             ELSE UNCHANGED <<flags, state, stopped>>
          /\ UNCHANGED <<fault, retry>>
       \/ /\ checkTimer = 0
          /\ fault' = fault \cup {"UNLOCK_DOOR_SPEED_FAILED"}
          /\ retry' = TachoTimeout
          /\ UNCHANGED <<flags, state, checkTimer, gates, stopped>>
    /\ UNCHANGED <<phaseLost, powerUp, moving, dcbus, driverVars, tested>>

\* PowerUpSensors and the end of the initialisation.
Initialize(noCurrent) ==
    LET waits == powerUp.timer < PowerUpDelay
        n     == powerUp.calibration + 1
        done  == ~waits /\ noCurrent /\ n > CalibrationThreshold
        fl    == IF done THEN flags \ {"MICRO_POWERING_UP"} ELSE flags
    IN  /\ state = "INITIALIZE"
        /\ SlotEnds
        /\ powerUp' = [timer |-> IF waits THEN powerUp.timer + 1 ELSE powerUp.timer,
                       calibration |-> IF done THEN 0
                                       ELSE IF ~waits /\ noCurrent THEN n
                                       ELSE powerUp.calibration]
        /\ flags' = fl
        /\ state' = IF "MICRO_POWERING_UP" \notin fl THEN "POSTRUN_TESTS" ELSE state
        /\ UNCHANGED <<fault, retry, phaseLost, moving, checkTimer, dcbus, driverVars, gates, history>>

\* OverVoltageProtection tests the over voltage bit in a variable it has
\* already overwritten with the under voltage bit, so only the latter counts.
ErrorTurnsOff == "OVER_CURRENT" \in fault \/ ("DCBUS_UNDER_VOLTAGE" \in fault /\ dcbus = "low")
ErrorLowersOn == "DCBUS_UNDER_VOLTAGE" \notin fault \/ dcbus = "high"

\* Faulty variant: the wait does not count.
BadRetryCountdown == retry

RetryCountdown == IF "OVER_LOAD" \notin fault /\ retry > 0 THEN retry - 1 ELSE retry

ErrorFound(pin) ==
    LET retries == "OVER_LOAD" \notin fault /\ retry = 0
    IN  /\ state = "ERROR_FOUND"
        /\ SlotEnds
        /\ gates' = IF ErrorTurnsOff THEN "off" ELSE IF ErrorLowersOn THEN "lowers" ELSE gates
        /\ diag' = IF ErrorTurnsOff THEN ClearFaultFlag(diag, pin) ELSE diag
        /\ retry' = RetryCountdown
        /\ IF retries
           THEN /\ phaseLost' = 0
                /\ fault' = {}
                /\ flags' = MotorMoves(flags)
                /\ moving' = MovingReset
                /\ state' = "POSTRUN_TESTS"
           ELSE UNCHANGED <<phaseLost, fault, flags, moving, state>>
        /\ UNCHANGED <<powerUp, checkTimer, dcbus, atod, history>>

Handler5ms_Dispatch ==
    \/ \E rms \in PhaseCurrents : Running(rms)
    \/ \E noCurrent \in StopCurrents : Postrun(noCurrent)
    \/ Prerun
    \/ \E pin \in FaultInput : Idle(pin)
    \/ \E answered \in InjectionAnswers : UnlockDoorCheck(answered)
    \/ \E noCurrent \in StopCurrents : Initialize(noCurrent)
    \/ \E pin \in FaultInput : ErrorFound(pin)
--------------------------------------------------------------------------------
(* The rest of the main loop.                                              *)

\* SRMotorSafetyMgr__SlowHandler, every 25 ms: OverLoadProtection.
SlowHandler(temp) ==
    /\ mainLoop = "waiting"
    /\ state # "INITIALIZE"
    /\ "MC_PARAMETERS_LOADED" \in flags
    /\ fault' = IF "OVER_LOAD" \in fault /\ temp = "below_low" THEN fault \ {"OVER_LOAD"}
                ELSE IF temp = "above_high" THEN fault \cup {"OVER_LOAD"}
                ELSE fault
    /\ UNCHANGED <<state, flags, retry, timers, dcbus, driverVars, gates, mainLoop, pwmTicks, history>>

\* SRMotorSafetyMgr__SetParams: the parameter set's CRC is right or wrong.
SetParams(crcOk) ==
    /\ mainLoop = "waiting"
    /\ flags' = IF crcOk THEN flags \cup {"MC_PARAMETERS_LOADED"}
                         ELSE flags \ {"MC_PARAMETERS_LOADED"}
    /\ UNCHANGED <<state, fault, retry, timers, dcbus, driverVars, gates, mainLoop, pwmTicks, history>>

\* SRMotorSafetyMgr__ForceStop.
ForceStop ==
    /\ mainLoop = "waiting"
    /\ flags' = Requested(flags \cup {"FORCE_TO_STOP"}, "stop")
    /\ UNCHANGED <<state, fault, retry, timers, dcbus, driverVars, gates, mainLoop, pwmTicks, history>>

\* The inputs of a PWM interrupt; those the handler ignores in the state it
\* finds are not enumerated.
Converters == IF "converters" \in Failing /\ state = "PRERUN_TESTS" THEN BOOLEAN ELSE {TRUE}
AnalogChecks == IF "offsets" \in Failing /\ state = "PRERUN_TESTS"
                THEN {"CORRECT", "CURR_FAIL", "VBUS_FAIL"} ELSE {"CORRECT"}
Requests == {"none"} \cup (IF state = "IDLE" THEN {"start"} ELSE {})
                     \cup (IF state \in {"PRERUN_TESTS", "RUNNING"} THEN {"stop"} ELSE {})
Outputs == IF state = "RUNNING" THEN {"none", "duty", "lowers", "off"} ELSE {"none"}

PwmInterrupt ==
    \E pin \in FaultInput, ok \in Converters, analog \in AnalogChecks, vbus \in VbusLevels,
       req \in Requests, out \in Outputs :
        MCPwmHandler(pin, ok, analog, vbus, req, out)

Next ==
    \/ PwmInterrupt
    \/ "currents" \in Failing /\ Handler250us
    \/ Handler5ms_Check
    \/ Handler5ms_Dispatch
    \/ \E temp \in Temperatures : SlowHandler(temp)
    \/ \E crcOk \in ParamsCrc : SetParams(crcOk)
    \/ ForceStop

Spec == Init /\ [][Next]_vars

(* The PWM timer interrupts all the time and the main loop reaches its     *)
(* next 5 ms slot: the watchdog resets a controller whose loop stands.     *)
Fairness ==
    /\ WF_vars(PwmInterrupt)
    /\ WF_vars(Handler5ms_Check)
    /\ WF_vars(Handler5ms_Dispatch)

FairSpec == Spec /\ Fairness
--------------------------------------------------------------------------------
(* The abstract specification this one implements.                         *)
PermitPhase ==
    IF state = "IDLE" THEN "ready"
    ELSE IF state = "UNLOCK_DOOR_CHECK" THEN "proving"
    ELSE IF state = "PRERUN_TESTS" THEN "testing"
    ELSE IF state = "RUNNING" THEN "driving"
    ELSE "locked"

Permit == INSTANCE MotorPermit WITH
              phase <- PermitPhase,
              unlock <- "UNLOCK_DOOR_SPEED" \in flags,
              access <- "CLASS_A_PWM_ACCESS" \in flags

(* The permission to drive and the release of the door change hands only   *)
(* as MotorPermit says: through the tests, and never both at once.         *)
PermitSpec == Permit!Spec

(* Class A may drive the motor only after the pre-run tests of this very   *)
(* start: since the start request was taken, the converters, the shut-down *)
(* path and the analog circuit have each been found in order.  The results *)
(* travel through flags that an interrupted pre-run leaves behind: what    *)
(* keeps them apart from the next start is that the main loop is on time.  *)
DriveOnlyTested == (MainLoopOnTime /\ state = "RUNNING") => tested = AllTests

(* "Unlock door speed" is announced only when, since class A last had      *)
(* access to the inverter, the currents were seen at zero in as many slots *)
(* as the debouncer counts, the shut-down path passed its test and an      *)
(* injected voltage gave the expected currents.                            *)
UnlockOnlyStopped == "UNLOCK_DOOR_SPEED" \in flags => AllProofs \subseteq stopped

(* While the announcement stands nobody drives the motor, and while class  *)
(* A drives, or the injection is under way, there is no announcement.      *)
UnlockExcludesDrive ==
    "UNLOCK_DOOR_SPEED" \in flags =>
        /\ "CLASS_A_PWM_ACCESS" \notin flags
        /\ state \in {"IDLE", "PRERUN_TESTS", "ERROR_FOUND"}

(* The inductive invariant behind the last two: where each flag may still  *)
(* be set.  The access flag outlives the running state until the next PWM  *)
(* interrupt, and a pending check carries what has been shown so far.      *)
UnlockPlaces == "UNLOCK_DOOR_SPEED" \in flags => state \in {"IDLE", "PRERUN_TESTS", "ERROR_FOUND"}

AccessPlaces ==
    "CLASS_A_PWM_ACCESS" \in flags =>
        /\ "UNLOCK_DOOR_SPEED" \notin flags
        /\ \/ state = "RUNNING"
           \/ state = "ERROR_FOUND" /\ mainLoop = "dispatch"
           \/ state \in {"ERROR_FOUND", "POSTRUN_TESTS"} /\ mainLoop = "waiting" /\ pwmTicks = 0

CheckPlaces ==
    /\ "UNLOCK_DOOR_SPEED_CHECK_REQUESTED" \in flags =>
          /\ state \in {"IDLE", "POSTRUN_TESTS", "ERROR_FOUND"}
          /\ {"no_current", "shutdown"} \subseteq stopped
    /\ state = "UNLOCK_DOOR_CHECK" => {"no_current", "shutdown"} \subseteq stopped

DoorInv ==
    /\ UnlockPlaces
    /\ AccessPlaces
    /\ CheckPlaces
    /\ UnlockOnlyStopped

(* While the motor runs, or may be started, no shut-down test is going on  *)
(* and the comparator is at its working threshold: an over-current trips   *)
(* the inverter and is reported.  For a running motor this too rests on    *)
(* the main loop: a late one lets a pre-run that has failed, or a test of  *)
(* it that is not over, pass into RUNNING.                                 *)
Armed == diag.st = "WAITING_TO_CHECK" /\ diag.thr = "NORMAL"

ProtectionArmed ==
    /\ state \in {"IDLE", "UNLOCK_DOOR_CHECK"} => Armed
    /\ MainLoopOnTime /\ state = "RUNNING" => Armed

(* A shut-down test starts with its sample counters at zero, the calling   *)
(* rule of PwmSelfTest: it is the handler's idle call in the interrupt     *)
(* before, not EnableDiagnostic, that clears them.                         *)
TestStartsClean ==
    [][diag.st = "WAITING_TO_CHECK" /\ diag'.st = "CHECK_SIGNAL_POL"
         => diag.active + diag.default = 0]_vars

(* A test phase always comes to an end, whatever the hardware answers: the *)
(* manager does not stay for ever in the pre-run or post-run tests or in   *)
(* the injection, whose ways out hang on flags, timers and two self tests. *)
TestsEnd ==
    (state \in {"PRERUN_TESTS", "POSTRUN_TESTS", "UNLOCK_DOOR_CHECK"})
        ~> (state \in {"IDLE", "RUNNING", "ERROR_FOUND"})

(* Every error is retried some time, except an overload that stands: no    *)
(* fault, and no fault on top of a fault, locks the machine up.            *)
RetryComes ==
    (state = "ERROR_FOUND")
        ~> (state # "ERROR_FOUND" \/ "OVER_LOAD" \in fault)

(* On healthy hardware, with the bus voltage in range, no overload and     *)
(* nobody starting the motor any more, the door is released in the end,    *)
(* and for good: through the retry, the post-run tests, the wait and the   *)
(* injection.                                                              *)
DoorUnlocks ==
    <>[](/\ state # "RUNNING" /\ "REQUESTED_TO_START" \notin flags
         /\ dcbus = "ok" /\ "OVER_LOAD" \notin fault)
        => <>[]("UNLOCK_DOOR_SPEED" \in flags)

(* SRMotorSafetyMgr.c:1127, "If no overcurrent failure has been found,     *)
(* then apply the pwm error reaction, otherwise turn off Pwm": after a     *)
(* slot in the error state no output keeps what it did before the error.   *)
ErrorReactionApplied ==
    [][state = "ERROR_FOUND" /\ mainLoop = "dispatch" /\ mainLoop' = "waiting"
         => gates' \in {"off", "lowers"}]_vars

(* SRMotorSafetyMgr.c:2922, "Hw faults are detected -> wait 60 s before    *)
(* turn-on again PWM": the wait, once loaded, only counts down.            *)
HwFaultWaitKept ==
    [][("OVER_CURRENT" \in fault /\ retry = HwFaultPostrunTimeout) => retry' >= retry - 1]_vars
================================================================================
