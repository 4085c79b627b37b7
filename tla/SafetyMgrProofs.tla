---------------------------- MODULE SafetyMgrProofs ----------------------------
(***************************************************************************)
(* What holds of SafetyMgr for every value of its constants: the types of  *)
(* its variables, the release of the door, and that it implements          *)
(* MotorPermit.                                                            *)
(***************************************************************************)
EXTENDS SafetyMgr, SRMCPwmDiagProofs

\* Interrupts fall in every slot, so no access survives into the next one.
LEMMA PwmRunsEverySlot == MinPwmPerSlot \in Nat /\ MinPwmPerSlot >= 1
BY SafetyConstants

(* The door invariant, one action at a time.                               *)
LEMMA InitDoor == Init => DoorInv
BY DEF Init, DoorInv, UnlockPlaces, AccessPlaces, CheckPlaces, UnlockOnlyStopped

\* The PWM interrupt touches neither the door's flags nor the state; the
\* history is erased only in RUNNING.
LEMMA FlagsOfDiagnostic ==
    ASSUME NEW pin, NEW ok, NEW analog,
           NEW f \in {"UNLOCK_DOOR_SPEED", "CLASS_A_PWM_ACCESS",
                      "UNLOCK_DOOR_SPEED_CHECK_REQUESTED", "REQUESTED_TO_START"}
    PROVE  f \in PeripheralDiagnostic(pin, ok, analog).flags <=> f \in flags
BY DEF PeripheralDiagnostic, PrerunDiagnostic

\* A request of class A touches the start and stop flags only.
LEMMA FlagsOfRequest ==
    ASSUME NEW fl, NEW req,
           NEW f \in {"UNLOCK_DOOR_SPEED", "CLASS_A_PWM_ACCESS",
                      "UNLOCK_DOOR_SPEED_CHECK_REQUESTED"}
    PROVE  f \in Requested(fl, req) <=> f \in fl
BY DEF Requested

\* Only the PWM interrupt of a running motor erases what has been shown.
LEMMA DoorPwm ==
    ASSUME DoorInv, NEW pin, NEW ok, NEW analog, NEW vbus, NEW req, NEW out,
           MCPwmHandler(pin, ok, analog, vbus, req, out)
    PROVE  DoorInv'
<1> DEFINE p == PeripheralDiagnostic(pin, ok, analog)
           fl == ClassAPwmAccess(p.flags, fault \cup p.faults)
<1>1. \A f \in {"UNLOCK_DOOR_SPEED", "UNLOCK_DOOR_SPEED_CHECK_REQUESTED"} : f \in flags' <=> f \in flags
  <2>1. \A f \in {"UNLOCK_DOOR_SPEED", "UNLOCK_DOOR_SPEED_CHECK_REQUESTED"} : f \in p.flags <=> f \in flags
    BY FlagsOfDiagnostic
  <2>2. flags' = Requested(fl, req)
    BY DEF MCPwmHandler
  <2> HIDE DEF p
  <2> QED
    BY <2>1, <2>2, FlagsOfRequest DEF ClassAPwmAccess
<1>2. "CLASS_A_PWM_ACCESS" \in flags' <=> "CLASS_A_PWM_ACCESS" \in fl
  BY FlagsOfRequest DEF MCPwmHandler
<1>3. "CLASS_A_PWM_ACCESS" \in fl => state = "RUNNING"
  <2> HIDE DEF p
  <2> QED
    BY DEF ClassAPwmAccess, AccessGranted
<1>4. /\ UNCHANGED <<state, mainLoop>>
      /\ stopped' = IF "CLASS_A_PWM_ACCESS" \in fl THEN {} ELSE stopped
  BY DEF MCPwmHandler
<1> HIDE DEF fl
<1> QED
  BY <1>1, <1>2, <1>3, <1>4
     DEF DoorInv, UnlockPlaces, AccessPlaces, CheckPlaces, UnlockOnlyStopped

\* A pending check set in the post-run tests rests on both of its proofs.
LEMMA DoorPostrun ==
    ASSUME DoorInv, NEW noCurrent, Postrun(noCurrent)
    PROVE  DoorInv'
<1>1. /\ state = "POSTRUN_TESTS"
      /\ mainLoop = "dispatch"
      /\ state' \in {"POSTRUN_TESTS", "IDLE"}
      /\ "UNLOCK_DOOR_SPEED" \in flags' <=> "UNLOCK_DOOR_SPEED" \in flags
      /\ "CLASS_A_PWM_ACCESS" \in flags' <=> "CLASS_A_PWM_ACCESS" \in flags
      /\ stopped \subseteq stopped'
  BY DEF Postrun, SlotEnds
<1>2. "UNLOCK_DOOR_SPEED_CHECK_REQUESTED" \in flags' =>
        \/ "UNLOCK_DOOR_SPEED_CHECK_REQUESTED" \in flags
        \/ {"no_current", "shutdown"} \subseteq stopped'
  BY DEF Postrun
<1> QED
  BY <1>1, <1>2 DEF DoorInv, UnlockPlaces, AccessPlaces, CheckPlaces, UnlockOnlyStopped

\* Every step of every context preserves the door invariant.
LEMMA DoorStep == DoorInv /\ [Next]_vars => DoorInv'
<1> USE DEF DoorInv, UnlockPlaces, AccessPlaces, CheckPlaces, UnlockOnlyStopped
<1> SUFFICES ASSUME DoorInv, [Next]_vars PROVE DoorInv'
  OBVIOUS
<1>1. CASE PwmInterrupt
  BY <1>1, DoorPwm DEF PwmInterrupt
<1>2. CASE Handler250us
  BY <1>2 DEF Handler250us, history
<1>3. CASE Handler5ms_Check
  <2>1. ~ (pwmTicks = 0)
    BY <1>3, PwmRunsEverySlot DEF Handler5ms_Check
  <2>2. /\ mainLoop = "waiting"
        /\ mainLoop' = "dispatch"
        /\ UNCHANGED <<flags, stopped>>
        /\ state' = "ERROR_FOUND" \/ state' = state
    BY <1>3 DEF Handler5ms_Check, history
  <2> QED
    BY <2>1, <2>2
<1>4. CASE Handler5ms_Dispatch
  <2>1. ASSUME NEW rms \in PhaseCurrents, Running(rms) PROVE DoorInv'
    BY <2>1 DEF Running, SlotEnds, PhaseLostFlags, history
  <2>2. ASSUME NEW noCurrent \in StopCurrents, Postrun(noCurrent) PROVE DoorInv'
    BY <2>2, DoorPostrun
  <2>3. CASE Prerun
    BY <2>3 DEF Prerun, SlotEnds, MotorMoves, TestsRestart
  <2>4. ASSUME NEW pin \in FaultInput, Idle(pin) PROVE DoorInv'
    BY <2>4 DEF Idle, SlotEnds, StartTaken, history
  <2>5. ASSUME NEW answered \in InjectionAnswers, UnlockDoorCheck(answered) PROVE DoorInv'
    BY <2>5 DEF UnlockDoorCheck, SlotEnds, AllProofs
  <2>6. ASSUME NEW noCurrent \in StopCurrents, Initialize(noCurrent) PROVE DoorInv'
    <3>1. state = "INITIALIZE"
      BY <2>6 DEF Initialize
    <3>2. state' \in {"INITIALIZE", "POSTRUN_TESTS"}
      BY <2>6 DEF Initialize
    <3>3. \/ flags' = flags
          \/ flags' = flags \ {"MICRO_POWERING_UP"}
      BY <2>6 DEF Initialize
    <3>4. UNCHANGED stopped
      BY <2>6 DEF Initialize, history
    <3> QED
      BY <3>1, <3>2, <3>3, <3>4
  <2>7. ASSUME NEW pin \in FaultInput, ErrorFound(pin) PROVE DoorInv'
    BY <2>7 DEF ErrorFound, SlotEnds, MotorMoves, history
  <2> QED
    BY <1>4, <2>1, <2>2, <2>3, <2>4, <2>5, <2>6, <2>7 DEF Handler5ms_Dispatch
<1>5. ASSUME NEW temp \in Temperatures, SlowHandler(temp) PROVE DoorInv'
  BY <1>5 DEF SlowHandler, history
<1>6. ASSUME NEW crcOk \in ParamsCrc, SetParams(crcOk) PROVE DoorInv'
  BY <1>6 DEF SetParams, history
<1>7. CASE ForceStop
  BY <1>7 DEF ForceStop, Requested, history
<1>8. CASE UNCHANGED vars
  BY <1>8 DEF vars, timers, driverVars, history
<1> QED
  BY <1>1, <1>2, <1>3, <1>4, <1>5, <1>6, <1>7, <1>8 DEF Next

(* The door invariant holds in every reachable state.                      *)
THEOREM DoorSafe == Spec => []DoorInv
<1>1. Init => DoorInv
  BY InitDoor
<1>2. DoorInv /\ [Next]_vars => DoorInv'
  BY DoorStep
<1> QED
  BY <1>1, <1>2, PTL DEF Spec

(* UnlockExcludesDrive for every value of the constants: the door is never *)
(* announced free while class A has the inverter.                          *)
THEOREM NeverBoth == Spec => []UnlockExcludesDrive
<1>1. DoorInv => UnlockExcludesDrive
  BY DEF DoorInv, UnlockPlaces, AccessPlaces, UnlockExcludesDrive
<1> QED
  BY <1>1, DoorSafe, PTL

(* UnlockOnlyStopped for every value of the constants: the announcement    *)
(* rests on the three proofs, all given since class A last had access.     *)
THEOREM UnlockProved == Spec => []UnlockOnlyStopped
<1>1. DoorInv => UnlockOnlyStopped
  BY DEF DoorInv
<1> QED
  BY <1>1, DoorSafe, PTL
--------------------------------------------------------------------------------
(* Types.  The PWM driver's are in SRMCPwmDiagProofs.                      *)

\* Every operation of the converter self test.
LEMMA AtodOpsType ==
    ASSUME NEW a \in AtodType, NEW ok \in BOOLEAN
    PROVE  /\ AtodHandler(a, ok) \in AtodType
           /\ AtodEnable(a) \in AtodType
           /\ AtodFeedbackRead(a) \in AtodType
BY DEF AtodHandler, AtodPhase, AtodEnable, AtodFeedbackRead, AtodType, AtodStates, AtodAnswers

\* The counters of the manager stay natural numbers.
LEMMA TimerTypes ==
    /\ ElectronicFailTimeout \in Nat
    /\ TachoTimeout \in Nat
    /\ PhaseLostTimeout \in Nat
    /\ VoltageErrorTimeout \in Nat
    /\ HwFaultPostrunTimeout \in Nat
    /\ PhaseLostThreshold \in Nat
    /\ IdleBeforeCheck \in Nat
    /\ CheckTimeout \in Nat
BY SafetyConstants

\* The pin is Boolean in every context that reads it.
LEMMA InputTypes ==
    /\ FaultInput \subseteq BOOLEAN
    /\ Converters \subseteq BOOLEAN
    /\ VbusLevels \subseteq {"low", "ok", "high"}
    /\ Outputs \subseteq {"none", "duty", "lowers", "off"}
BY SafetyConstants DEF FaultInput, Converters, Outputs

\* What PeripheralDiagnostic returns, field by field.
LEMMA DiagnosticTypes ==
    ASSUME TypeOK, NEW pin \in BOOLEAN, NEW ok \in BOOLEAN, NEW analog
    PROVE  LET p == PeripheralDiagnostic(pin, ok, analog)
           IN  /\ p.diag \in DiagType
               /\ p.atod \in AtodType
               /\ p.flags \subseteq Flags
               /\ p.faults \subseteq Faults
               /\ p.passed \subseteq AllTests
<1> DEFINE d == Latch(diag, pin)
           h == DiagnosticHandler(d, pin)
           a == AtodHandler(atod, ok)
<1>1. /\ d \in DiagType
      /\ h \in DiagType
  BY DiagLatchType, DiagHandlerType DEF TypeOK
<1>2. a \in AtodType /\ AtodFeedbackRead(a) \in AtodType
  BY AtodOpsType DEF TypeOK
<1>3. FeedbackRead(h) \in DiagType
  BY <1>1, DiagCallType
<1> HIDE DEF d, h, a
<1>4. LET r == PrerunDiagnostic(h, a, analog)
      IN  /\ r.diag \in DiagType
          /\ r.atod \in AtodType
          /\ r.flags \subseteq Flags
          /\ r.faults \subseteq Faults
          /\ r.passed \subseteq AllTests
  BY <1>2, <1>3 DEF PrerunDiagnostic, TypeOK, Flags, Faults, AllTests
<1> QED
  BY <1>1, <1>4 DEF PeripheralDiagnostic, d, h, a, TypeOK

\* The PWM interrupt preserves the types.
LEMMA TypePwm ==
    ASSUME TypeOK, NEW pin \in BOOLEAN, NEW ok \in BOOLEAN, NEW analog,
           NEW vbus \in {"low", "ok", "high"}, NEW req,
           NEW out \in {"none", "duty", "lowers", "off"},
           MCPwmHandler(pin, ok, analog, vbus, req, out)
    PROVE  TypeOK'
<1> DEFINE p == PeripheralDiagnostic(pin, ok, analog)
           fl == ClassAPwmAccess(p.flags, fault \cup p.faults)
<1>1. /\ p.diag \in DiagType
      /\ p.atod \in AtodType
      /\ p.flags \subseteq Flags
      /\ p.faults \subseteq Faults
      /\ p.passed \subseteq AllTests
  BY DiagnosticTypes
<1>2. ClearFaultFlag(p.diag, pin) \in DiagType
  BY <1>1, DiagLatchType
<1> HIDE DEF p
<1>3. fl \subseteq Flags
  BY <1>1 DEF ClassAPwmAccess, Flags
<1>4. GatesByClassB(p.flags, fault \cup p.faults) \in {"off", "lowers", "duty", "probe"}
  BY DEF GatesByClassB, TypeOK
<1> HIDE DEF fl
<1>5. Requested(fl, req) \subseteq Flags
  BY <1>3 DEF Requested, Flags
<1>6. flags' \subseteq Flags
  BY <1>5 DEF MCPwmHandler, fl, p
<1>7. gates' \in {"off", "lowers", "duty", "probe"}
  BY <1>4 DEF MCPwmHandler, GatesByClassA, p
<1>8. diag' \in DiagType /\ atod' \in AtodType
  BY <1>1, <1>2 DEF MCPwmHandler, p
<1>9. fault' \subseteq Faults /\ tested' \subseteq AllTests
  BY <1>1 DEF MCPwmHandler, p, TypeOK
<1>10. retry' \in Nat
  BY TimerTypes DEF MCPwmHandler, TypeOK
<1>11. /\ pwmTicks' \in Nat
       /\ dcbus' \in {"low", "ok", "high"}
       /\ stopped' \subseteq AllProofs
       /\ UNCHANGED <<state, phaseLost, powerUp, moving, checkTimer, mainLoop>>
  BY DEF MCPwmHandler, TypeOK, timers
<1> QED
  BY <1>6, <1>7, <1>8, <1>9, <1>10, <1>11 DEF TypeOK

\* So does the 5 ms slot in RUNNING; the phase-lost counter stays clamped.
LEMMA TypeRunning ==
    ASSUME TypeOK, NEW rms, Running(rms)
    PROVE  TypeOK'
<1>1. PhaseLostFlags(rms) \subseteq Flags
  BY DEF PhaseLostFlags, Flags, TypeOK
<1>2. PhaseLostStored(PhaseLostFlags(rms)) \in 0..PhaseLostThreshold
  BY TimerTypes DEF PhaseLostStored, PhaseIsLost, PhaseLostCount, TypeOK
<1>3. retry' \in Nat
  BY TimerTypes DEF Running, TypeOK
<1>4. fault' \subseteq Faults
  BY DEF Running, TypeOK, Faults
<1>5. state' \in States
  BY DEF Running, States
<1>6. mainLoop' = "waiting" /\ pwmTicks' = 0
  BY DEF Running, SlotEnds
<1> QED
  BY <1>1, <1>2, <1>3, <1>4, <1>5, <1>6 DEF Running, TypeOK, driverVars, history

\* The 5 ms slot in POSTRUN_TESTS.
LEMMA TypePostrun ==
    ASSUME TypeOK, NEW noCurrent, Postrun(noCurrent)
    PROVE  TypeOK'
<1>1. EnableDiagnostic(diag) \in DiagType /\ diag' \in DiagType
  BY DiagCallType DEF Postrun, TypeOK
<1>2. moving' \in [timer : Nat, debouncer : Nat]
  BY DEF Postrun, Debounced, TypeOK
<1>3. fault' \subseteq Faults
  BY DEF Postrun, TypeOK, Faults
<1>4. retry' \in Nat /\ checkTimer' \in Nat
  BY TimerTypes DEF Postrun, TypeOK
<1>5. flags' \subseteq Flags
  BY DEF Postrun, TypeOK, Flags
<1>6. state' \in States
  BY DEF Postrun, States
<1>7. stopped' \subseteq AllProofs /\ gates' = "lowers"
  BY DEF Postrun, TypeOK, AllProofs
<1>8. mainLoop' = "waiting" /\ pwmTicks' = 0
  BY DEF Postrun, SlotEnds
<1>9. UNCHANGED <<phaseLost, powerUp, dcbus, atod, tested>>
  BY DEF Postrun
<1> QED
  BY <1>1, <1>2, <1>3, <1>4, <1>5, <1>6, <1>7, <1>8, <1>9 DEF TypeOK

\* The 5 ms slot in PRERUN_TESTS.
LEMMA TypePrerun ==
    ASSUME TypeOK, Prerun
    PROVE  TypeOK'
<1>1. diag' \in DiagType
  BY DiagCallType DEF Prerun, TypeOK
<1>2. atod' \in AtodType
  BY AtodOpsType DEF Prerun, TypeOK
<1>3. moving' \in [timer : Nat, debouncer : Nat]
  BY DEF Prerun, MovingReset, TypeOK
<1>4. fault' \subseteq Faults /\ flags' \subseteq Flags
  BY DEF Prerun, MotorMoves, TestsRestart, TypeOK, Faults
<1>5. retry' \in Nat
  BY TimerTypes DEF Prerun, TypeOK
<1>6. state' \in States /\ tested' \subseteq AllTests /\ gates' = "lowers"
  BY DEF Prerun, States, TypeOK
<1>7. mainLoop' = "waiting" /\ pwmTicks' = 0
  BY DEF Prerun, SlotEnds
<1>8. UNCHANGED <<phaseLost, powerUp, checkTimer, dcbus, stopped>>
  BY DEF Prerun
<1> QED
  BY <1>1, <1>2, <1>3, <1>4, <1>5, <1>6, <1>7, <1>8 DEF TypeOK

\* The 5 ms slot in IDLE.
LEMMA TypeIdle ==
    ASSUME TypeOK, NEW pin \in BOOLEAN, Idle(pin)
    PROVE  TypeOK'
<1>1. diag' \in DiagType
  BY DiagLatchType DEF Idle, TypeOK
<1>2. flags' \subseteq Flags
  BY DEF Idle, StartTaken, TypeOK
<1>3. checkTimer' \in Nat
  BY TimerTypes DEF Idle, TypeOK
<1>4. state' \in States /\ gates' \in {"off", "lowers"}
  BY DEF Idle, States
<1>5. mainLoop' = "waiting" /\ pwmTicks' = 0
  BY DEF Idle, SlotEnds
<1>6. UNCHANGED <<fault, retry, phaseLost, powerUp, moving, dcbus, atod, tested, stopped>>
  BY DEF Idle, history
<1> QED
  BY <1>1, <1>2, <1>3, <1>4, <1>5, <1>6 DEF TypeOK

\* The 5 ms slot in ERROR_FOUND.
LEMMA TypeErrorFound ==
    ASSUME TypeOK, NEW pin \in BOOLEAN, ErrorFound(pin)
    PROVE  TypeOK'
<1>1. diag' \in DiagType
  BY DiagLatchType DEF ErrorFound, TypeOK
<1>2. retry' \in Nat
  BY DEF ErrorFound, RetryCountdown, TypeOK
<1>3. gates' \in {"off", "lowers", "duty", "probe"}
  BY DEF ErrorFound, TypeOK
<1>4. /\ phaseLost' \in 0..PhaseLostThreshold
      /\ moving' \in [timer : Nat, debouncer : Nat]
  BY TimerTypes DEF ErrorFound, MovingReset, TypeOK
<1>5. fault' \subseteq Faults /\ flags' \subseteq Flags /\ state' \in States
  BY DEF ErrorFound, MotorMoves, TypeOK, States
<1>6. mainLoop' = "waiting" /\ pwmTicks' = 0
  BY DEF ErrorFound, SlotEnds
<1>7. UNCHANGED <<powerUp, checkTimer, dcbus, atod, tested, stopped>>
  BY DEF ErrorFound, history
<1> QED
  BY <1>1, <1>2, <1>3, <1>4, <1>5, <1>6, <1>7 DEF TypeOK

\* Every step preserves the types.
LEMMA TypeStep == TypeOK /\ [Next]_vars => TypeOK'
<1> SUFFICES ASSUME TypeOK, [Next]_vars PROVE TypeOK'
  OBVIOUS
<1>1. CASE PwmInterrupt
  <2>1. AnalogChecks \subseteq {"CORRECT", "CURR_FAIL", "VBUS_FAIL"}
    BY DEF AnalogChecks
  <2> QED
    BY <1>1, InputTypes, TypePwm DEF PwmInterrupt
<1>2. CASE Handler250us
  BY <1>2, TimerTypes DEF Handler250us, TypeOK, Faults, timers, driverVars, history
<1>3. CASE Handler5ms_Check
  <2>1. fault' \subseteq Faults /\ state' \in States /\ retry' \in Nat
    BY <1>3, TimerTypes DEF Handler5ms_Check, VoltageFaults, TypeOK, Faults, States
  <2> QED
    BY <1>3, <2>1 DEF Handler5ms_Check, TypeOK, timers, driverVars, history
<1>4. CASE Handler5ms_Dispatch
  <2>1. ASSUME NEW rms \in PhaseCurrents, Running(rms) PROVE TypeOK'
    BY <2>1, TypeRunning
  <2>2. ASSUME NEW noCurrent \in StopCurrents, Postrun(noCurrent) PROVE TypeOK'
    BY <2>2, TypePostrun
  <2>3. CASE Prerun
    BY <2>3, TypePrerun
  <2>4. ASSUME NEW pin \in FaultInput, Idle(pin) PROVE TypeOK'
    BY <2>4, TypeIdle, InputTypes
  <2>5. ASSUME NEW answered \in InjectionAnswers, UnlockDoorCheck(answered) PROVE TypeOK'
    <3>1. retry' \in Nat /\ checkTimer' \in Nat
      BY <2>5, TimerTypes DEF UnlockDoorCheck, TypeOK
    <3>2. /\ state' \in States
          /\ fault' \subseteq Faults
          /\ flags' \subseteq Flags
          /\ stopped' \subseteq AllProofs
          /\ gates' \in {"off", "lowers", "duty", "probe"}
      BY <2>5 DEF UnlockDoorCheck, TypeOK, States, Faults, Flags, AllProofs
    <3> QED
      BY <2>5, <3>1, <3>2 DEF UnlockDoorCheck, SlotEnds, TypeOK, driverVars
  <2>6. ASSUME NEW noCurrent \in StopCurrents, Initialize(noCurrent) PROVE TypeOK'
    <3>1. powerUp' \in [timer : Nat, calibration : Nat]
      BY <2>6 DEF Initialize, TypeOK
    <3>2. flags' \subseteq Flags /\ state' \in States
      BY <2>6 DEF Initialize, TypeOK, States
    <3> QED
      BY <2>6, <3>1, <3>2 DEF Initialize, SlotEnds, TypeOK, driverVars, history
  <2>7. ASSUME NEW pin \in FaultInput, ErrorFound(pin) PROVE TypeOK'
    BY <2>7, TypeErrorFound, InputTypes
  <2> QED
    BY <1>4, <2>1, <2>2, <2>3, <2>4, <2>5, <2>6, <2>7 DEF Handler5ms_Dispatch
<1>5. ASSUME NEW temp \in Temperatures, SlowHandler(temp) PROVE TypeOK'
  BY <1>5 DEF SlowHandler, TypeOK, Faults, timers, driverVars, history
<1>6. ASSUME NEW crcOk \in ParamsCrc, SetParams(crcOk) PROVE TypeOK'
  BY <1>6 DEF SetParams, TypeOK, Flags, timers, driverVars, history
<1>7. CASE ForceStop
  BY <1>7 DEF ForceStop, Requested, TypeOK, Flags, timers, driverVars, history
<1>8. CASE UNCHANGED vars
  BY <1>8 DEF vars, TypeOK, timers, driverVars, history
<1> QED
  BY <1>1, <1>2, <1>3, <1>4, <1>5, <1>6, <1>7, <1>8 DEF Next

\* The initial state has them.
LEMMA InitType == Init => TypeOK
<1>1. 0 \in 0..PhaseLostThreshold
  BY TimerTypes
<1> QED
  BY <1>1 DEF Init, TypeOK, States, Flags, Faults, DiagInit, DiagType, DiagStates, DiagErrors,
              AtodInit, AtodType, AtodStates, AtodAnswers, AllTests, AllProofs

(* Every variable keeps its type.                                          *)
THEOREM TypeCorrect == Spec => []TypeOK
BY InitType, TypeStep, PTL DEF Spec
--------------------------------------------------------------------------------
(* The self tests of a start.  First what holds however late the main loop *)
(* is: where a test may be started there are no samples left over, and the *)
(* comparator is at its working threshold.                                 *)
SlotInv ==
    /\ pwmTicks <= MaxPwmPerSlot
    /\ mainLoop = "dispatch" => pwmTicks > 0

\* The handler has run since the state was entered, and found no test going
\* on; in the pre-run tests that matters until the start is taken.
CleanStart ==
    /\ state = "POSTRUN_TESTS" \/ (state = "PRERUN_TESTS" /\ "REQUESTED_TO_START" \in flags)
    /\ diag.st = "WAITING_TO_CHECK"
    /\ pwmTicks > 0
    => Samples(diag) = 0

\* A pending check of the door lets the manager go IDLE without a new test:
\* in the first slot after a retry, before the debouncing is over.
CheckPending ==
    "UNLOCK_DOOR_SPEED_CHECK_REQUESTED" \in flags =>
        /\ Armed
        /\ state = "POSTRUN_TESTS" =>
              \/ moving.debouncer = 0
              \/ "UNLOCK_DOOR_SPEED_FAILED" \in fault /\ mainLoop = "waiting"

ArmedPlaces ==
    state \in {"IDLE", "UNLOCK_DOOR_CHECK"}
        \/ (state = "PRERUN_TESTS" /\ "REQUESTED_TO_START" \in flags)
    => Armed

PhaseInv ==
    /\ SlotInv
    /\ WellUnderWay(diag)
    /\ CleanStart
    /\ CheckPending
    /\ ArmedPlaces

\* Then what a main loop on time adds.  The PWM interrupts that may come
\* before the main loop looks for faults.
Slack ==
    (MaxPwmPerSlot - pwmTicks) + (IF mainLoop = "dispatch" THEN MaxPwmPerSlot ELSE 0)

\* The calls until the converter test has its result.
AdcLeft(a) ==
    IF a.st = "START_EVAL" THEN 4
    ELSE IF a.st = "CHECK_STUCK_AT_1" THEN 3
    ELSE IF a.st = "CHECK_STUCK_AT_0" THEN 2
    ELSE IF a.st = "CHECK_CONVERTER_ERROR" THEN 1 ELSE 0

\* A start whose tests have passed ...
Passed ==
    /\ "PRERUN_TESTS_FINISHED" \in flags
    /\ Armed
    /\ tested = AllTests

\* ... or failed: the fault is seen before the shut-down test can end ...
FailedInTime ==
    /\ "PRERUN_TESTS_FINISHED" \notin flags
    /\ fault \cap SensorFaults # {}
    /\ diag.st = "WAITING_TO_CHECK" \/ (diag.st \in Phases /\ Left(diag) > Slack)

\* ... or go on: the converter test is over long before the shut-down test,
\* and its result is this start's.
GoingOn ==
    /\ "PRERUN_TESTS_FINISHED" \notin flags
    /\ diag.st \in Phases
    /\ \/ AdcLeft(atod) > 0 /\ Left(diag) >= AdcLeft(atod) + 2 * MaxPwmPerSlot
       \/ /\ "adc" \in tested /\ "ADC_PLAUSIB_CHECK_OK" \in flags
          /\ atod = [st |-> "FEEDBACK_UPDATED", holder |-> "TEST_NOT_INITIALIZED"]

StartInv ==
    /\ "SHUTDOWN_PLAUSIB_CHECK_OK" \notin flags
    /\ state = "RUNNING" => Armed /\ tested = AllTests
    /\ state = "PRERUN_TESTS" /\ "REQUESTED_TO_START" \notin flags
          => Passed \/ FailedInTime \/ GoingOn

OnTimeInv == MainLoopOnTime => StartInv

\* What the driver answers in an interrupt of the pre-run tests.
PwmAnswer(pin) == DiagFeedback(DiagnosticHandler(Latch(diag, pin), pin))

\* What the PWM interrupt makes of the driver's record.
LEMMA PwmDiag ==
    ASSUME TypeOK, WellUnderWay(diag), NEW pin \in BOOLEAN, NEW ok, NEW analog, NEW vbus,
           NEW req, NEW out, MCPwmHandler(pin, ok, analog, vbus, req, out)
    PROVE  /\ WellUnderWay(diag')
           /\ state \notin {"PRERUN_TESTS", "POSTRUN_TESTS"} =>
                 diag'.st = diag.st /\ diag'.thr = diag.thr /\ Samples(diag') = Samples(diag)
           /\ state \in {"PRERUN_TESTS", "POSTRUN_TESTS"} /\ diag.st = "WAITING_TO_CHECK" =>
                 diag'.st = diag.st /\ diag'.thr = diag.thr /\ Samples(diag') = 0
           /\ state = "POSTRUN_TESTS" /\ diag.st # "WAITING_TO_CHECK" =>
                 diag'.st # "WAITING_TO_CHECK"
           /\ state = "PRERUN_TESTS" /\ diag.st \in Phases =>
                 \/ /\ diag'.st \in Phases /\ Left(diag') = Left(diag) - 1
                    /\ PwmAnswer(pin) = "CHECKING"
                 \/ /\ diag'.st = "WAITING_TO_CHECK"
                    /\ PwmAnswer(pin) \in {"PERIPHERAL_SAFE", "PERIPHERAL_NOT_SAFE"}
                    /\ PwmAnswer(pin) = "PERIPHERAL_SAFE" => Left(diag) = 1 /\ diag'.thr = "NORMAL"
<1> DEFINE p == PeripheralDiagnostic(pin, ok, analog)
           l == Latch(diag, pin)
           h == DiagnosticHandler(l, pin)
<1>1. l \in DiagType /\ h \in DiagType /\ FeedbackRead(h) \in DiagType
  BY DiagLatchType, DiagHandlerType, DiagCallType DEF TypeOK
<1>2. /\ WellUnderWay(l) /\ l.st = diag.st /\ l.thr = diag.thr
      /\ Samples(l) = Samples(diag) /\ Left(l) = Left(diag)
  BY LatchLeaves DEF TypeOK
<1> HIDE DEF l
<1>3. /\ WellUnderWay(h)
      /\ l.st = "WAITING_TO_CHECK" => h.st = l.st /\ h.thr = l.thr /\ Samples(h) = 0
      /\ l.st = "FEEDBACK_UPDATED" => h = l
      /\ l.st \in Phases => Proceeds(l, h)
  BY <1>1, <1>2, HandlerProceeds
<1>4. p.diag = IF state = "PRERUN_TESTS" THEN FeedbackRead(h)
               ELSE IF state = "POSTRUN_TESTS" THEN h ELSE l
  BY DEF PeripheralDiagnostic, PrerunDiagnostic, l
<1> HIDE DEF h
<1>5. /\ FeedbackRead(h).thr = h.thr
      /\ h.st = "FEEDBACK_UPDATED" => FeedbackRead(h).st = "WAITING_TO_CHECK"
      /\ h.st # "FEEDBACK_UPDATED" => FeedbackRead(h) = h
      /\ WellUnderWay(FeedbackRead(h))
  BY <1>1, <1>3, ReadLeaves
<1>6. /\ WellUnderWay(p.diag)
      /\ state \notin {"PRERUN_TESTS", "POSTRUN_TESTS"} =>
            p.diag.st = diag.st /\ p.diag.thr = diag.thr /\ Samples(p.diag) = Samples(diag)
      /\ state \in {"PRERUN_TESTS", "POSTRUN_TESTS"} /\ diag.st = "WAITING_TO_CHECK" =>
            p.diag.st = diag.st /\ p.diag.thr = diag.thr /\ Samples(p.diag) = 0
      /\ state = "POSTRUN_TESTS" /\ diag.st # "WAITING_TO_CHECK" =>
            p.diag.st # "WAITING_TO_CHECK"
      /\ state = "PRERUN_TESTS" /\ diag.st \in Phases =>
            \/ /\ p.diag.st \in Phases /\ Left(p.diag) = Left(diag) - 1
               /\ PwmAnswer(pin) = "CHECKING"
            \/ /\ p.diag.st = "WAITING_TO_CHECK"
               /\ PwmAnswer(pin) \in {"PERIPHERAL_SAFE", "PERIPHERAL_NOT_SAFE"}
               /\ PwmAnswer(pin) = "PERIPHERAL_SAFE" => Left(diag) = 1 /\ p.diag.thr = "NORMAL"
  <2>1. diag.st \in Phases \cup {"WAITING_TO_CHECK", "FEEDBACK_UPDATED"}
    BY DEF TypeOK, DiagType, DiagStates, Phases
  <2>2. PwmAnswer(pin) = DiagFeedback(h)
    BY DEF PwmAnswer, h, l
  <2>3. /\ h.st \in Phases => PwmAnswer(pin) = "CHECKING"
        /\ h.st = "FEEDBACK_UPDATED" =>
              PwmAnswer(pin) = IF h.errors = {} THEN "PERIPHERAL_SAFE" ELSE "PERIPHERAL_NOT_SAFE"
    BY <2>2 DEF DiagFeedback, Phases
  <2>4. h.st = "FEEDBACK_UPDATED" /\ h.errors = {} => h.thr = "NORMAL"
    BY <1>3 DEF WellUnderWay
  <2>5. h.st \in Phases => h.st # "FEEDBACK_UPDATED" /\ h.st # "WAITING_TO_CHECK"
    BY DEF Phases
  <2>6. diag.st \in Phases => diag.st # "WAITING_TO_CHECK" /\ diag.st # "FEEDBACK_UPDATED"
    BY DEF Phases
  <2>7. ASSUME state = "PRERUN_TESTS", diag.st \in Phases
        PROVE  \/ /\ p.diag.st \in Phases /\ Left(p.diag) = Left(diag) - 1
                  /\ PwmAnswer(pin) = "CHECKING"
               \/ /\ p.diag.st = "WAITING_TO_CHECK"
                  /\ PwmAnswer(pin) \in {"PERIPHERAL_SAFE", "PERIPHERAL_NOT_SAFE"}
                  /\ PwmAnswer(pin) = "PERIPHERAL_SAFE" => Left(diag) = 1 /\ p.diag.thr = "NORMAL"
    BY <1>2, <1>3, <1>4, <1>5, <2>3, <2>4, <2>5, <2>7 DEF Proceeds
  <2> QED
    BY <1>2, <1>3, <1>4, <1>5, <2>1, <2>5, <2>6, <2>7 DEF Proceeds
<1>7. p.diag \in DiagType /\ diag' \in {p.diag, ClearFaultFlag(p.diag, pin)}
  BY <1>1, <1>4 DEF MCPwmHandler
<1> HIDE DEF p
<1>8. /\ diag'.st = p.diag.st /\ diag'.thr = p.diag.thr
      /\ Samples(diag') = Samples(p.diag) /\ Left(diag') = Left(p.diag)
      /\ WellUnderWay(p.diag) => WellUnderWay(diag')
  <2>1. CASE diag' = p.diag
    BY <2>1
  <2>2. CASE diag' = ClearFaultFlag(p.diag, pin)
    BY <1>7, <2>2, LatchLeaves
  <2> QED
    BY <1>7, <2>1, <2>2
<1> QED
  BY <1>6, <1>8

\* The PWM interrupt.
LEMMA PhasePwm ==
    ASSUME TypeOK, PhaseInv, NEW pin \in BOOLEAN, NEW ok, NEW analog, NEW vbus,
           NEW req, NEW out, MCPwmHandler(pin, ok, analog, vbus, req, out)
    PROVE  PhaseInv'
<1> DEFINE p == PeripheralDiagnostic(pin, ok, analog)
           fl == ClassAPwmAccess(p.flags, fault \cup p.faults)
<1>1. /\ pwmTicks < MaxPwmPerSlot /\ pwmTicks' = pwmTicks + 1
      /\ fault \subseteq fault'
      /\ flags' = Requested(fl, req)
      /\ UNCHANGED <<state, moving, mainLoop>>
  BY DEF MCPwmHandler, timers
<1>2. /\ WellUnderWay(diag')
      /\ state \notin {"PRERUN_TESTS", "POSTRUN_TESTS"} =>
            diag'.st = diag.st /\ diag'.thr = diag.thr
      /\ state \in {"PRERUN_TESTS", "POSTRUN_TESTS"} /\ diag.st = "WAITING_TO_CHECK" =>
            diag'.st = diag.st /\ diag'.thr = diag.thr /\ Samples(diag') = 0
      /\ state = "POSTRUN_TESTS" /\ diag.st # "WAITING_TO_CHECK" =>
            diag'.st # "WAITING_TO_CHECK"
  BY PwmDiag DEF PhaseInv
<1>3. /\ "REQUESTED_TO_START" \in p.flags <=> "REQUESTED_TO_START" \in flags
      /\ "UNLOCK_DOOR_SPEED_CHECK_REQUESTED" \in p.flags
            <=> "UNLOCK_DOOR_SPEED_CHECK_REQUESTED" \in flags
  BY FlagsOfDiagnostic
<1> HIDE DEF p
<1>4. /\ state # "IDLE" /\ "REQUESTED_TO_START" \in flags' => "REQUESTED_TO_START" \in flags
      /\ "UNLOCK_DOOR_SPEED_CHECK_REQUESTED" \in flags'
            <=> "UNLOCK_DOOR_SPEED_CHECK_REQUESTED" \in flags
  BY <1>1, <1>3 DEF Requested, ClassAPwmAccess
<1> HIDE DEF fl
<1>5. SlotInv'
  BY <1>1, SafetyConstants DEF PhaseInv, SlotInv, TypeOK
<1>6. CleanStart'
  BY <1>1, <1>2, <1>4 DEF PhaseInv, CleanStart, ArmedPlaces, Armed
<1>7. Armed => Armed'
  BY <1>2 DEF Armed
<1>8. CheckPending'
  BY <1>1, <1>4, <1>7 DEF PhaseInv, CheckPending
<1>9. ArmedPlaces'
  BY <1>1, <1>4, <1>7 DEF PhaseInv, ArmedPlaces
<1> QED
  BY <1>2, <1>5, <1>6, <1>8, <1>9 DEF PhaseInv

\* The slot in POSTRUN_TESTS: a pending check is served before a new test is
\* started, and one that is set now follows a good result.
LEMMA PhasePostrun ==
    ASSUME TypeOK, DoorInv, PhaseInv, NEW noCurrent, Postrun(noCurrent)
    PROVE  PhaseInv'
<1> DEFINE n == Debounced(noCurrent)
           d == IF n >= Debouncing THEN EnableDiagnostic(diag) ELSE diag
           answer == IF n >= Debouncing THEN DiagFeedback(d) ELSE "CHECKING"
           pending == "UNLOCK_DOOR_SPEED_CHECK_REQUESTED" \in flags
<1>1. /\ state = "POSTRUN_TESTS" /\ mainLoop = "dispatch"
      /\ mainLoop' = "waiting" /\ pwmTicks' = 0
      /\ moving'.debouncer = n
      /\ diag' = IF n >= Debouncing THEN FeedbackRead(d) ELSE d
  BY DEF Postrun, SlotEnds
<1>2. /\ state' \in {"IDLE", "POSTRUN_TESTS"}
      /\ "UNLOCK_DOOR_SPEED_CHECK_REQUESTED" \in flags' <=> pending \/ answer = "PERIPHERAL_SAFE"
      /\ state' = "IDLE" => pending \/ answer = "PERIPHERAL_SAFE"
      /\ (pending \/ answer = "PERIPHERAL_SAFE") /\ state' # "IDLE" =>
            "UNLOCK_DOOR_SPEED_FAILED" \in fault'
  BY <1>1 DEF Postrun
<1>3. n \in Nat /\ Debouncing \in Nat /\ Debouncing >= 2 /\ (moving.debouncer = 0 => n <= 1)
  BY SafetyConstants DEF Debounced, TypeOK
<1>4. EnableDiagnostic(diag) \in DiagType
  BY DiagCallType DEF TypeOK
<1> HIDE DEF n
<1>5. pending => n < Debouncing /\ Armed /\ diag' = diag
  BY <1>1, <1>3 DEF PhaseInv, CheckPending
<1>6. WellUnderWay(d) /\ d \in DiagType
  <2>1. CASE diag.st = "WAITING_TO_CHECK"
    <3>1. Samples(diag) = 0
      BY <1>1, <2>1 DEF PhaseInv, SlotInv, CleanStart
    <3> QED
      BY <1>4, <2>1, <3>1, EnableLeft DEF PhaseInv, TypeOK
  <2>2. CASE diag.st # "WAITING_TO_CHECK"
    BY <1>4, <2>2 DEF EnableDiagnostic, PhaseInv, TypeOK
  <2> QED
    BY <2>1, <2>2
<1> HIDE DEF d
<1>7. WellUnderWay(diag')
  BY <1>1, <1>6, ReadLeaves
<1>8. answer = "PERIPHERAL_SAFE" => Armed'
  <2>1. ASSUME answer = "PERIPHERAL_SAFE"
        PROVE  n >= Debouncing /\ d.st = "FEEDBACK_UPDATED" /\ d.errors = {}
    BY <2>1 DEF DiagFeedback
  <2>2. ASSUME answer = "PERIPHERAL_SAFE"
        PROVE  diag'.st = "WAITING_TO_CHECK" /\ diag'.thr = "NORMAL"
    BY <1>1, <1>6, <2>1, <2>2, ReadLeaves DEF WellUnderWay
  <2> QED
    BY <2>2 DEF Armed
<1>9. pending => Armed'
  BY <1>5 DEF Armed
<1>10. SlotInv'
  BY <1>1, SafetyConstants DEF SlotInv
<1>11. CleanStart'
  BY <1>1 DEF CleanStart
<1> HIDE DEF answer
<1>12. CheckPending' /\ ArmedPlaces'
  BY <1>1, <1>2, <1>8, <1>9 DEF CheckPending, ArmedPlaces
<1> QED
  BY <1>7, <1>10, <1>11, <1>12 DEF PhaseInv

\* The slot in PRERUN_TESTS: the test of a start is a fresh one.
LEMMA PhasePrerun ==
    ASSUME TypeOK, DoorInv, PhaseInv, Prerun
    PROVE  PhaseInv'
<1>1. /\ state = "PRERUN_TESTS" /\ mainLoop = "dispatch"
      /\ mainLoop' = "waiting" /\ pwmTicks' = 0
      /\ state' \notin {"IDLE", "UNLOCK_DOOR_CHECK"}
  BY DEF Prerun, SlotEnds
<1>2. "REQUESTED_TO_START" \notin flags'
  BY DEF Prerun, MotorMoves, TestsRestart
<1>3. "UNLOCK_DOOR_SPEED_CHECK_REQUESTED" \notin flags'
  BY <1>1 DEF DoorInv, CheckPlaces, Prerun, MotorMoves, TestsRestart
<1>4. diag' = IF "REQUESTED_TO_START" \in flags THEN EnableDiagnostic(diag) ELSE diag
  BY DEF Prerun
<1>5. WellUnderWay(diag')
  <2>1. CASE "REQUESTED_TO_START" \in flags
    <3>1. diag.st = "WAITING_TO_CHECK"
      BY <1>1, <2>1 DEF PhaseInv, ArmedPlaces, Armed
    <3>2. Samples(diag) = 0
      BY <1>1, <2>1, <3>1 DEF PhaseInv, SlotInv, CleanStart
    <3> QED
      BY <1>4, <2>1, <3>1, <3>2, EnableLeft DEF TypeOK
  <2>2. CASE "REQUESTED_TO_START" \notin flags
    BY <1>4, <2>2 DEF PhaseInv
  <2> QED
    BY <2>1, <2>2
<1> QED
  BY <1>1, <1>2, <1>3, <1>5, SafetyConstants
     DEF PhaseInv, SlotInv, CleanStart, CheckPending, ArmedPlaces

\* The slot in IDLE: the comparator stays as it is.
LEMMA PhaseIdle ==
    ASSUME TypeOK, PhaseInv, NEW pin \in BOOLEAN, Idle(pin)
    PROVE  PhaseInv'
<1>1. /\ state = "IDLE" /\ mainLoop' = "waiting" /\ pwmTicks' = 0
      /\ state' \in {"IDLE", "PRERUN_TESTS", "UNLOCK_DOOR_CHECK"}
  BY DEF Idle, SlotEnds
<1>2. diag' = ClearFaultFlag(diag, pin)
  BY DEF Idle
<1>3. WellUnderWay(diag') /\ Armed'
  BY <1>1, <1>2, LatchLeaves DEF TypeOK, PhaseInv, ArmedPlaces, Armed
<1> QED
  BY <1>1, <1>3, SafetyConstants DEF PhaseInv, SlotInv, CleanStart, CheckPending, ArmedPlaces

\* The slot in ERROR_FOUND: the debouncing starts anew with the retry.
LEMMA PhaseErrorFound ==
    ASSUME TypeOK, PhaseInv, NEW pin \in BOOLEAN, ErrorFound(pin)
    PROVE  PhaseInv'
<1>1. /\ mainLoop' = "waiting" /\ pwmTicks' = 0
      /\ state' = "POSTRUN_TESTS" => moving'.debouncer = 0
      /\ state' \in {"ERROR_FOUND", "POSTRUN_TESTS"}
      /\ "UNLOCK_DOOR_SPEED_CHECK_REQUESTED" \in flags'
            <=> "UNLOCK_DOOR_SPEED_CHECK_REQUESTED" \in flags
  BY DEF ErrorFound, SlotEnds, MovingReset, MotorMoves
<1>2. diag' \in {diag, ClearFaultFlag(diag, pin)}
  BY DEF ErrorFound
<1>3. WellUnderWay(diag') /\ (Armed => Armed')
  BY <1>2, LatchLeaves DEF TypeOK, PhaseInv, Armed
<1> QED
  BY <1>1, <1>3, SafetyConstants DEF PhaseInv, SlotInv, CleanStart, CheckPending, ArmedPlaces

\* Steps that leave the driver alone.
LEMMA PhaseElsewhere ==
    ASSUME TypeOK, DoorInv, PhaseInv, [Next]_vars, UNCHANGED diag, ~PwmInterrupt,
           ~(\E noCurrent \in StopCurrents : Postrun(noCurrent)), ~Prerun,
           ~(\E pin \in FaultInput : Idle(pin)), ~(\E pin \in FaultInput : ErrorFound(pin))
    PROVE  PhaseInv'
<1>1. (WellUnderWay(diag) => WellUnderWay(diag)') /\ (Armed => Armed') /\ Samples(diag)' = Samples(diag)
  BY DEF WellUnderWay, Armed, Samples
<1> USE <1>1 DEF PhaseInv, SlotInv, CleanStart, CheckPending, ArmedPlaces
<1>2. CASE Handler250us
  BY <1>2 DEF Handler250us, timers
<1>3. CASE Handler5ms_Check
  <2>1. /\ mainLoop' = "dispatch" /\ UNCHANGED <<pwmTicks, flags, moving>>
        /\ fault \subseteq fault' /\ pwmTicks > 0
        /\ (state' = state /\ fault' = {}) \/ state' \in {"ERROR_FOUND", "INITIALIZE"}
        /\ state' \in {state, "ERROR_FOUND"}
    BY <1>3, PwmRunsEverySlot DEF Handler5ms_Check, timers, TypeOK
  <2> QED
    BY <2>1
<1>4. ASSUME NEW rms \in PhaseCurrents, Running(rms) PROVE PhaseInv'
  <2>1. /\ mainLoop' = "waiting" /\ pwmTicks' = 0
        /\ state = "RUNNING" /\ state' \in {"RUNNING", "POSTRUN_TESTS"}
        /\ "UNLOCK_DOOR_SPEED_CHECK_REQUESTED" \in flags'
              <=> "UNLOCK_DOOR_SPEED_CHECK_REQUESTED" \in flags
    BY <1>4 DEF Running, SlotEnds, PhaseLostFlags
  <2> QED
    BY <2>1, SafetyConstants DEF DoorInv, CheckPlaces
<1>5. ASSUME NEW answered \in InjectionAnswers, UnlockDoorCheck(answered) PROVE PhaseInv'
  <2>1. /\ mainLoop' = "waiting" /\ pwmTicks' = 0
        /\ state = "UNLOCK_DOOR_CHECK" /\ state' \in {"IDLE", "UNLOCK_DOOR_CHECK"}
        /\ "UNLOCK_DOOR_SPEED_CHECK_REQUESTED" \in flags'
              <=> "UNLOCK_DOOR_SPEED_CHECK_REQUESTED" \in flags
    BY <1>5 DEF UnlockDoorCheck, SlotEnds
  <2> QED
    BY <2>1, SafetyConstants
<1>6. ASSUME NEW noCurrent \in StopCurrents, Initialize(noCurrent) PROVE PhaseInv'
  <2>1. /\ mainLoop' = "waiting" /\ pwmTicks' = 0
        /\ state = "INITIALIZE" /\ state' \in {"INITIALIZE", "POSTRUN_TESTS"}
        /\ "UNLOCK_DOOR_SPEED_CHECK_REQUESTED" \in flags'
              <=> "UNLOCK_DOOR_SPEED_CHECK_REQUESTED" \in flags
    BY <1>6 DEF Initialize, SlotEnds
  <2> QED
    BY <2>1, SafetyConstants DEF DoorInv, CheckPlaces
<1>7. ASSUME NEW temp \in Temperatures, SlowHandler(temp) PROVE PhaseInv'
  BY <1>7 DEF SlowHandler, timers
<1>8. ASSUME NEW crcOk \in ParamsCrc, SetParams(crcOk) PROVE PhaseInv'
  BY <1>8 DEF SetParams, timers
<1>9. CASE ForceStop
  BY <1>9 DEF ForceStop, Requested, timers
<1>10. CASE UNCHANGED vars
  BY <1>10 DEF vars, timers
<1> QED
  BY <1>2, <1>3, <1>4, <1>5, <1>6, <1>7, <1>8, <1>9, <1>10 DEF Next, Handler5ms_Dispatch

\* Only six actions touch the driver's record.
LEMMA PhaseStep == TypeOK /\ DoorInv /\ PhaseInv /\ [Next]_vars => PhaseInv'
<1> SUFFICES ASSUME TypeOK, DoorInv, PhaseInv, [Next]_vars PROVE PhaseInv'
  OBVIOUS
<1>1. CASE PwmInterrupt
  BY <1>1, PhasePwm, InputTypes DEF PwmInterrupt
<1>2. ASSUME NEW noCurrent \in StopCurrents, Postrun(noCurrent) PROVE PhaseInv'
  BY <1>2, PhasePostrun
<1>3. CASE Prerun
  BY <1>3, PhasePrerun
<1>4. ASSUME NEW pin \in FaultInput, Idle(pin) PROVE PhaseInv'
  BY <1>4, PhaseIdle, InputTypes
<1>5. ASSUME NEW pin \in FaultInput, ErrorFound(pin) PROVE PhaseInv'
  BY <1>5, PhaseErrorFound, InputTypes
<1>6. ASSUME ~PwmInterrupt, ~(\E noCurrent \in StopCurrents : Postrun(noCurrent)), ~Prerun,
             ~(\E pin \in FaultInput : Idle(pin)), ~(\E pin \in FaultInput : ErrorFound(pin))
      PROVE  PhaseInv'
  <2>1. UNCHANGED diag
    BY <1>6 DEF Next, Handler5ms_Dispatch, Handler250us, Handler5ms_Check, Running,
                UnlockDoorCheck, Initialize, SlowHandler, SetParams, ForceStop, vars, driverVars
  <2> QED
    BY <1>6, <2>1, PhaseElsewhere
<1> QED
  BY <1>1, <1>2, <1>3, <1>4, <1>5, <1>6

LEMMA PhaseInit == Init => PhaseInv
BY SafetyConstants
   DEF Init, PhaseInv, SlotInv, CleanStart, CheckPending, ArmedPlaces, WellUnderWay, Armed,
       DiagInit, Phases, Samples

(* The phases of the self tests fit the states of the manager, however     *)
(* late the main loop is.                                                  *)
THEOREM PhasesFit == Spec => []PhaseInv
<1>1. Init => TypeOK /\ DoorInv /\ PhaseInv
  BY InitType, InitDoor, PhaseInit
<1>2. TypeOK /\ DoorInv /\ PhaseInv /\ [Next]_vars => PhaseInv'
  BY PhaseStep
<1> QED
  BY <1>1, <1>2, TypeCorrect, DoorSafe, PTL DEF Spec

(* TestStartsClean for every value of the constants: no caller starts the  *)
(* shut-down test on the samples of an earlier one.                        *)
THEOREM StartsClean == Spec => TestStartsClean
<1> DEFINE Clean == diag.st = "WAITING_TO_CHECK" /\ diag'.st = "CHECK_SIGNAL_POL"
                      => diag.active + diag.default = 0
<1>1. TypeOK /\ PhaseInv /\ [Next]_vars => [Clean]_vars
  <2> SUFFICES ASSUME TypeOK, PhaseInv, [Next]_vars,
                      diag.st = "WAITING_TO_CHECK", diag'.st = "CHECK_SIGNAL_POL"
               PROVE  Samples(diag) = 0
    BY DEF Samples
  <2>1. CASE PwmInterrupt
    BY <2>1, PwmDiag, InputTypes DEF PwmInterrupt, PhaseInv
  <2>2. ASSUME NEW noCurrent \in StopCurrents, Postrun(noCurrent) PROVE Samples(diag) = 0
    BY <2>2 DEF Postrun, SlotEnds, PhaseInv, SlotInv, CleanStart
  <2>3. CASE Prerun
    <3>1. "REQUESTED_TO_START" \in flags /\ state = "PRERUN_TESTS" /\ mainLoop = "dispatch"
      BY <2>3 DEF Prerun, SlotEnds
    <3> QED
      BY <3>1 DEF PhaseInv, SlotInv, CleanStart
  <2>4. ASSUME NEW pin \in FaultInput, Idle(pin) \/ ErrorFound(pin) PROVE diag'.st = diag.st
    <3>1. diag' = diag \/ diag' = ClearFaultFlag(diag, pin)
      BY <2>4 DEF Idle, ErrorFound
    <3> QED
      BY <3>1, LatchLeaves, InputTypes DEF TypeOK
  <2>5. ASSUME ~PwmInterrupt, ~(\E noCurrent \in StopCurrents : Postrun(noCurrent)), ~Prerun,
               ~(\E pin \in FaultInput : Idle(pin) \/ ErrorFound(pin))
        PROVE  UNCHANGED diag
    BY <2>5 DEF Next, Handler5ms_Dispatch, Handler250us, Handler5ms_Check, Running,
                UnlockDoorCheck, Initialize, SlowHandler, SetParams, ForceStop, vars, driverVars
  <2> QED
    BY <2>1, <2>2, <2>3, <2>4, <2>5
<1> QED
  BY <1>1, TypeCorrect, PhasesFit, PTL DEF Spec, TestStartsClean

--------------------------------------------------------------------------------
(* With the main loop on time a start runs on its own results only.        *)

\* The converter test: a call less to go, or its result.
LEMMA AdcProceeds ==
    ASSUME NEW a \in AtodType, NEW ok, AdcLeft(a) > 0
    PROVE  LET h == AtodHandler(a, ok)
           IN  \/ /\ AdcLeft(h) > 0 /\ AdcLeft(h) = AdcLeft(a) - 1
                  /\ AtodFeedbackRead(h) = h
                  /\ AtodFeedback(h) \notin {"SAFE", "NOT_SAFE"}
               \/ /\ AtodFeedback(h) \in {"SAFE", "NOT_SAFE"}
                  /\ AtodFeedbackRead(h) = [st |-> "FEEDBACK_UPDATED", holder |-> "TEST_NOT_INITIALIZED"]
<1> DEFINE h == AtodHandler(a, ok)
<1>1. a.st \in {"START_EVAL", "CHECK_STUCK_AT_1", "CHECK_STUCK_AT_0", "CHECK_CONVERTER_ERROR"}
  BY DEF AdcLeft
<1>2. \/ /\ a.st = "START_EVAL"
         /\ h = [st |-> "CHECK_STUCK_AT_1", holder |-> "TEST_NOT_PERFORMED"]
      \/ a.st = "CHECK_STUCK_AT_1" /\ h = [st |-> "CHECK_STUCK_AT_0", holder |-> "SAFE"]
      \/ a.st = "CHECK_STUCK_AT_0" /\ h = [st |-> "CHECK_CONVERTER_ERROR", holder |-> "SAFE"]
      \/ h = [st |-> "FEEDBACK_UPDATED", holder |-> "SAFE"]
      \/ h = [st |-> "FEEDBACK_UPDATED", holder |-> "NOT_SAFE"]
  BY <1>1 DEF AtodHandler, AtodPhase
<1> HIDE DEF h
<1> QED
  BY <1>2 DEF AdcLeft, AtodFeedback, AtodFeedbackRead, h

\* A result that was read says nothing any more.
LEMMA AdcRead ==
    ASSUME NEW ok
    PROVE  LET a == [st |-> "FEEDBACK_UPDATED", holder |-> "TEST_NOT_INITIALIZED"]
           IN  /\ AtodHandler(a, ok) = a /\ AtodFeedbackRead(a) = a
               /\ AtodFeedback(a) \notin {"SAFE", "NOT_SAFE"}
BY DEF AtodHandler, AtodFeedbackRead, AtodFeedback

\* The converter test of a start has at most four calls to make.
LEMMA AdcStarts ==
    ASSUME NEW a \in AtodType
    PROVE  AdcLeft(AtodEnable(a)) \in 1..4
BY DEF AdcLeft, AtodEnable, AtodType, AtodStates

\* What an interrupt of the pre-run tests makes of the two answers.
LEMMA StartAnswers ==
    ASSUME TypeOK, "SHUTDOWN_PLAUSIB_CHECK_OK" \notin flags, state = "PRERUN_TESTS",
           NEW pin, NEW ok, NEW analog \in {"CORRECT", "CURR_FAIL", "VBUS_FAIL"},
           NEW vbus, NEW req, NEW out, MCPwmHandler(pin, ok, analog, vbus, req, out)
    PROVE  LET adc == AtodFeedback(AtodHandler(atod, ok))
               finished == "PRERUN_TESTS_FINISHED" \in flags
           IN  /\ fault \subseteq fault' /\ tested \subseteq tested'
               /\ atod' = AtodFeedbackRead(AtodHandler(atod, ok))
               /\ "REQUESTED_TO_START" \in flags' <=> "REQUESTED_TO_START" \in flags
               /\ adc = "SAFE" => "adc" \in tested'
               /\ adc = "NOT_SAFE" => "CURRENT_SENSOR_FAILED" \in fault'
               /\ PwmAnswer(pin) = "PERIPHERAL_NOT_SAFE" => "PWM_SHUTDOWN_FAILED" \in fault'
               /\ PwmAnswer(pin) # "PERIPHERAL_SAFE" =>
                     /\ "SHUTDOWN_PLAUSIB_CHECK_OK" \notin flags'
                     /\ "ADC_PLAUSIB_CHECK_OK" \in flags'
                           <=> "ADC_PLAUSIB_CHECK_OK" \in flags \/ adc = "SAFE"
                     /\ "PRERUN_TESTS_FINISHED" \in flags' <=> finished
               /\ PwmAnswer(pin) = "PERIPHERAL_SAFE" /\ "ADC_PLAUSIB_CHECK_OK" \in flags =>
                     /\ "SHUTDOWN_PLAUSIB_CHECK_OK" \notin flags'
                     /\ "PRERUN_TESTS_FINISHED" \in flags' <=> finished \/ analog = "CORRECT"
                     /\ analog = "CORRECT" => {"shutdown", "analog"} \subseteq tested'
                     /\ analog # "CORRECT" => fault' \cap SensorFaults # {}
<1> DEFINE p == PeripheralDiagnostic(pin, ok, analog)
           fl == ClassAPwmAccess(p.flags, fault \cup p.faults)
           adc == AtodFeedback(AtodHandler(atod, ok))
<1>1. /\ fault' = fault \cup p.faults /\ tested' = tested \cup p.passed
      /\ atod' = p.atod /\ flags' = Requested(fl, req)
  BY DEF MCPwmHandler
<1>2. p = PrerunDiagnostic(DiagnosticHandler(Latch(diag, pin), pin), AtodHandler(atod, ok), analog)
  BY DEF PeripheralDiagnostic
<1> HIDE DEF p
<1>3. fl \in {p.flags \cup {"CLASS_A_PWM_ACCESS"}, p.flags \ {"CLASS_A_PWM_ACCESS"}}
  BY DEF ClassAPwmAccess
<1> HIDE DEF fl
<1>4. \A f \in {"REQUESTED_TO_START", "ADC_PLAUSIB_CHECK_OK", "SHUTDOWN_PLAUSIB_CHECK_OK",
                "PRERUN_TESTS_FINISHED"} : f \in flags' <=> f \in p.flags
  BY <1>1, <1>3 DEF Requested
<1>5. /\ p.atod = AtodFeedbackRead(AtodHandler(atod, ok))
      /\ "REQUESTED_TO_START" \in p.flags <=> "REQUESTED_TO_START" \in flags
      /\ adc = "SAFE" => "adc" \in p.passed
      /\ adc = "NOT_SAFE" => "CURRENT_SENSOR_FAILED" \in p.faults
      /\ PwmAnswer(pin) = "PERIPHERAL_NOT_SAFE" => "PWM_SHUTDOWN_FAILED" \in p.faults
  BY <1>2 DEF PrerunDiagnostic, PwmAnswer
<1>6. ASSUME PwmAnswer(pin) # "PERIPHERAL_SAFE"
      PROVE  /\ "SHUTDOWN_PLAUSIB_CHECK_OK" \notin p.flags
             /\ "ADC_PLAUSIB_CHECK_OK" \in p.flags
                   <=> "ADC_PLAUSIB_CHECK_OK" \in flags \/ adc = "SAFE"
             /\ "PRERUN_TESTS_FINISHED" \in p.flags <=> "PRERUN_TESTS_FINISHED" \in flags
  BY <1>2, <1>6 DEF PrerunDiagnostic, PwmAnswer
<1>7. ASSUME PwmAnswer(pin) = "PERIPHERAL_SAFE", "ADC_PLAUSIB_CHECK_OK" \in flags
      PROVE  /\ "SHUTDOWN_PLAUSIB_CHECK_OK" \notin p.flags
             /\ "PRERUN_TESTS_FINISHED" \in p.flags
                   <=> "PRERUN_TESTS_FINISHED" \in flags \/ analog = "CORRECT"
             /\ analog = "CORRECT" => {"shutdown", "analog"} \subseteq p.passed
             /\ analog # "CORRECT" => p.faults \cap SensorFaults # {}
  BY <1>2, <1>7 DEF PrerunDiagnostic, PwmAnswer, SensorFaults
<1> HIDE DEF adc
<1> QED
  BY <1>1, <1>4, <1>5, <1>6, <1>7 DEF adc

\* The PWM interrupt in the pre-run tests.
LEMMA StartPwm ==
    ASSUME TypeOK, PhaseInv, StartInv, state = "PRERUN_TESTS",
           NEW pin \in BOOLEAN, NEW ok, NEW analog \in {"CORRECT", "CURR_FAIL", "VBUS_FAIL"},
           NEW vbus, NEW req, NEW out, MCPwmHandler(pin, ok, analog, vbus, req, out)
    PROVE  StartInv'
<1> DEFINE adc == AtodFeedback(AtodHandler(atod, ok))
           finished == "PRERUN_TESTS_FINISHED" \in flags
           pwm == PwmAnswer(pin)
<1>1. "SHUTDOWN_PLAUSIB_CHECK_OK" \notin flags
  BY DEF StartInv
<1>2. /\ fault \subseteq fault' /\ tested \subseteq tested' /\ tested' \subseteq AllTests
      /\ atod' = AtodFeedbackRead(AtodHandler(atod, ok))
      /\ "REQUESTED_TO_START" \in flags' <=> "REQUESTED_TO_START" \in flags
      /\ adc = "SAFE" => "adc" \in tested'
      /\ adc = "NOT_SAFE" => "CURRENT_SENSOR_FAILED" \in fault'
      /\ pwm = "PERIPHERAL_NOT_SAFE" => "PWM_SHUTDOWN_FAILED" \in fault'
  <2>1. tested' \subseteq AllTests
    BY DEF MCPwmHandler, PeripheralDiagnostic, PrerunDiagnostic, TypeOK, AllTests
  <2> QED
    BY <1>1, <2>1, StartAnswers
<1>3. pwm # "PERIPHERAL_SAFE" =>
         /\ "SHUTDOWN_PLAUSIB_CHECK_OK" \notin flags'
         /\ "ADC_PLAUSIB_CHECK_OK" \in flags'
               <=> "ADC_PLAUSIB_CHECK_OK" \in flags \/ adc = "SAFE"
         /\ "PRERUN_TESTS_FINISHED" \in flags' <=> finished
  BY <1>1, StartAnswers
<1>4. pwm = "PERIPHERAL_SAFE" /\ "ADC_PLAUSIB_CHECK_OK" \in flags =>
         /\ "SHUTDOWN_PLAUSIB_CHECK_OK" \notin flags'
         /\ "PRERUN_TESTS_FINISHED" \in flags' <=> finished \/ analog = "CORRECT"
         /\ analog = "CORRECT" => {"shutdown", "analog"} \subseteq tested'
         /\ analog # "CORRECT" => fault' \cap SensorFaults # {}
  BY <1>1, StartAnswers
<1>5. /\ state' = state /\ mainLoop' = mainLoop
      /\ pwmTicks < MaxPwmPerSlot /\ pwmTicks' = pwmTicks + 1
  BY DEF MCPwmHandler
<1>6. /\ diag.st = "WAITING_TO_CHECK" =>
            diag'.st = diag.st /\ diag'.thr = diag.thr /\ pwm = "WAITING_START_TRIGGER"
      /\ diag.st \in Phases =>
            \/ /\ diag'.st \in Phases /\ Left(diag') = Left(diag) - 1
               /\ pwm = "CHECKING"
            \/ /\ diag'.st = "WAITING_TO_CHECK"
               /\ pwm \in {"PERIPHERAL_SAFE", "PERIPHERAL_NOT_SAFE"}
               /\ pwm = "PERIPHERAL_SAFE" => Left(diag) = 1 /\ diag'.thr = "NORMAL"
  <2>1. diag.st = "WAITING_TO_CHECK" => PwmAnswer(pin) = "WAITING_START_TRIGGER"
    <3>1. /\ Latch(diag, pin) \in DiagType /\ WellUnderWay(Latch(diag, pin))
          /\ Latch(diag, pin).st = diag.st
      BY DiagLatchType, LatchLeaves DEF TypeOK, PhaseInv
    <3> QED
      BY <3>1, HandlerProceeds DEF PwmAnswer, DiagFeedback
  <2> QED
    BY <2>1, PwmDiag DEF PhaseInv
<1>7. /\ MaxPwmPerSlot \in Nat /\ MaxPwmPerSlot >= 1 /\ pwmTicks \in Nat
      /\ Slack \in Nat /\ Slack >= 1 /\ Slack' = Slack - 1 /\ Slack <= 2 * MaxPwmPerSlot
  <2>1. Slack' = (MaxPwmPerSlot - (pwmTicks + 1))
                    + (IF mainLoop = "dispatch" THEN MaxPwmPerSlot ELSE 0)
    BY <1>5 DEF Slack
  <2> QED
    BY <1>5, <2>1, SafetyConstants DEF Slack, TypeOK
<1> HIDE DEF adc, pwm
<1>8. CASE "REQUESTED_TO_START" \in flags
  <2>1. diag.st = "WAITING_TO_CHECK"
    BY <1>8 DEF PhaseInv, ArmedPlaces, Armed
  <2> QED
    BY <1>2, <1>3, <1>5, <1>6, <1>8, <2>1 DEF StartInv
<1>9. CASE "REQUESTED_TO_START" \notin flags /\ Passed
  BY <1>2, <1>3, <1>5, <1>6, <1>9 DEF StartInv, Passed, Armed
<1>10. CASE "REQUESTED_TO_START" \notin flags /\ FailedInTime
  <2>1. fault' \cap SensorFaults # {} /\ ~finished
    BY <1>2, <1>10 DEF FailedInTime
  <2>2. pwm # "PERIPHERAL_SAFE"
    BY <1>6, <1>7, <1>10 DEF FailedInTime
  <2>3. diag'.st = "WAITING_TO_CHECK" \/ (diag'.st \in Phases /\ Left(diag') > Slack')
    <3>1. diag.st \in Phases => Left(diag) \in Nat
      BY DiagConstants DEF Left, Samples, TypeOK, DiagType, PhaseInv, WellUnderWay
    <3> QED
      BY <1>6, <1>7, <1>10, <3>1 DEF FailedInTime
  <2> QED
    BY <1>2, <1>3, <1>5, <2>1, <2>2, <2>3 DEF StartInv, FailedInTime
<1>11. CASE "REQUESTED_TO_START" \notin flags /\ GoingOn
  <2>1. ~finished /\ diag.st \in Phases /\ Left(diag) \in Nat
    BY <1>11, DiagConstants DEF GoingOn, Left, Samples, TypeOK, DiagType, PhaseInv, WellUnderWay
  <2>2. CASE AdcLeft(atod) > 0 /\ Left(diag) >= AdcLeft(atod) + 2 * MaxPwmPerSlot
    <3>1. AdcLeft(atod) \in Nat
      BY DEF AdcLeft
    <3>2. pwm # "PERIPHERAL_SAFE"
      BY <1>6, <1>7, <2>1, <2>2, <3>1
    <3>3. \/ /\ AdcLeft(atod') > 0 /\ AdcLeft(atod') = AdcLeft(atod) - 1
             /\ adc \notin {"SAFE", "NOT_SAFE"}
          \/ /\ adc \in {"SAFE", "NOT_SAFE"}
             /\ atod' = [st |-> "FEEDBACK_UPDATED", holder |-> "TEST_NOT_INITIALIZED"]
      BY <1>2, <2>2, AdcProceeds DEF TypeOK, adc
    <3>4. CASE pwm = "PERIPHERAL_NOT_SAFE"
      <4>1. diag'.st = "WAITING_TO_CHECK" /\ fault' \cap SensorFaults # {}
        BY <1>2, <1>6, <2>1, <3>4 DEF SensorFaults
      <4> QED
        BY <1>2, <1>3, <1>5, <2>1, <3>2, <4>1 DEF StartInv, FailedInTime
    <3>5. CASE pwm = "CHECKING"
      <4>1. diag'.st \in Phases /\ Left(diag') = Left(diag) - 1
        BY <1>6, <2>1, <3>5
      <4>2. CASE adc = "NOT_SAFE"
        <5>1. Left(diag') > Slack' /\ fault' \cap SensorFaults # {}
          BY <1>2, <1>7, <2>1, <2>2, <3>1, <4>1, <4>2 DEF SensorFaults
        <5> QED
          BY <1>2, <1>3, <1>5, <2>1, <3>2, <4>1, <5>1 DEF StartInv, FailedInTime
      <4>3. CASE adc = "SAFE"
        BY <1>2, <1>3, <1>5, <2>1, <3>2, <3>3, <4>1, <4>3 DEF StartInv, GoingOn
      <4>4. CASE adc \notin {"SAFE", "NOT_SAFE"}
        <5>1. AdcLeft(atod') > 0 /\ Left(diag') >= AdcLeft(atod') + 2 * MaxPwmPerSlot
          BY <1>7, <2>1, <2>2, <3>1, <3>3, <4>1, <4>4
        <5> QED
          BY <1>2, <1>3, <1>5, <2>1, <3>2, <4>1, <5>1 DEF StartInv, GoingOn
      <4> QED
        BY <4>2, <4>3, <4>4
    <3> QED
      BY <1>6, <2>1, <3>2, <3>4, <3>5
  <2>3. CASE /\ "adc" \in tested /\ "ADC_PLAUSIB_CHECK_OK" \in flags
             /\ atod = [st |-> "FEEDBACK_UPDATED", holder |-> "TEST_NOT_INITIALIZED"]
    <3>1. atod' = atod /\ adc \notin {"SAFE", "NOT_SAFE"}
      BY <1>2, <2>3, AdcRead DEF adc
    <3>2. CASE pwm = "CHECKING"
      BY <1>2, <1>3, <1>5, <1>6, <2>1, <2>3, <3>1, <3>2 DEF StartInv, GoingOn
    <3>3. CASE pwm = "PERIPHERAL_NOT_SAFE"
      <4>1. diag'.st = "WAITING_TO_CHECK" /\ fault' \cap SensorFaults # {}
        BY <1>2, <1>6, <2>1, <3>3 DEF SensorFaults
      <4> QED
        BY <1>2, <1>3, <1>5, <2>1, <3>3, <4>1 DEF StartInv, FailedInTime
    <3>4. CASE pwm = "PERIPHERAL_SAFE" /\ analog = "CORRECT"
      <4>1. Armed' /\ tested' = AllTests /\ "PRERUN_TESTS_FINISHED" \in flags'
        BY <1>2, <1>4, <1>6, <2>1, <2>3, <3>4 DEF Armed, AllTests
      <4> QED
        BY <1>2, <1>4, <1>5, <2>3, <3>4, <4>1 DEF StartInv, Passed
    <3>5. CASE pwm = "PERIPHERAL_SAFE" /\ analog # "CORRECT"
      <4>1. diag'.st = "WAITING_TO_CHECK" /\ fault' \cap SensorFaults # {}
        BY <1>4, <1>6, <2>1, <2>3, <3>5
      <4> QED
        BY <1>2, <1>4, <1>5, <2>1, <2>3, <3>5, <4>1 DEF StartInv, FailedInTime
    <3> QED
      BY <1>6, <2>1, <3>2, <3>3, <3>4, <3>5
  <2> QED
    BY <1>11, <2>2, <2>3 DEF GoingOn
<1> QED
  BY <1>8, <1>9, <1>10, <1>11 DEF StartInv

\* The PWM interrupt everywhere else.
LEMMA StartPwmElsewhere ==
    ASSUME TypeOK, PhaseInv, StartInv, state # "PRERUN_TESTS",
           NEW pin \in BOOLEAN, NEW ok, NEW analog, NEW vbus, NEW req, NEW out,
           MCPwmHandler(pin, ok, analog, vbus, req, out)
    PROVE  StartInv'
<1> DEFINE p == PeripheralDiagnostic(pin, ok, analog)
           fl == ClassAPwmAccess(p.flags, fault \cup p.faults)
<1>1. p.flags = flags /\ p.passed = {}
  BY DEF PeripheralDiagnostic
<1>2. flags' = Requested(fl, req) /\ state' = state /\ tested' = tested \cup p.passed
  BY DEF MCPwmHandler
<1> HIDE DEF p
<1>3. "SHUTDOWN_PLAUSIB_CHECK_OK" \in flags' <=> "SHUTDOWN_PLAUSIB_CHECK_OK" \in flags
  BY <1>1, <1>2 DEF ClassAPwmAccess, Requested
<1> HIDE DEF fl
<1>4. state = "RUNNING" => diag'.st = diag.st /\ diag'.thr = diag.thr
  BY PwmDiag DEF PhaseInv
<1> QED
  BY <1>1, <1>2, <1>3, <1>4 DEF StartInv, Armed

\* The slot in PRERUN_TESTS: with the main loop on time, a start begins with
\* more calls of the shut-down test to make than interrupts can come.
LEMMA StartPrerun ==
    ASSUME TypeOK, PhaseInv, StartInv, MainLoopOnTime, Prerun
    PROVE  StartInv'
<1>1. /\ state = "PRERUN_TESTS" /\ mainLoop = "dispatch"
      /\ mainLoop' = "waiting" /\ pwmTicks' = 0 /\ fault \subseteq fault'
      /\ "REQUESTED_TO_START" \notin flags'
      /\ "SHUTDOWN_PLAUSIB_CHECK_OK" \notin flags'
  BY DEF Prerun, SlotEnds, StartInv, MotorMoves, TestsRestart
<1>2. MaxPwmPerSlot \in Nat /\ pwmTicks \in Nat /\ pwmTicks <= MaxPwmPerSlot
  BY SafetyConstants DEF PhaseInv, SlotInv, TypeOK
<1>3. CASE "REQUESTED_TO_START" \in flags
  <2>1. /\ state' = "PRERUN_TESTS" /\ "PRERUN_TESTS_FINISHED" \notin flags'
        /\ diag' = EnableDiagnostic(diag) /\ atod' = AtodEnable(atod)
    BY <1>1, <1>3 DEF Prerun, TestsRestart
  <2>2. diag.st = "WAITING_TO_CHECK" /\ Samples(diag) = 0
    BY <1>1, <1>3 DEF PhaseInv, ArmedPlaces, Armed, SlotInv, CleanStart
  <2>3. diag'.st \in Phases /\ Left(diag') = 3 * TotalSamples + ZeroTime + OneTime
    BY <2>1, <2>2, EnableLeft DEF TypeOK, Phases
  <2>4. AdcLeft(atod') \in 1..4
    BY <2>1, AdcStarts DEF TypeOK
  <2>5. GoingOn'
    BY <1>2, <2>1, <2>3, <2>4, DiagConstants DEF GoingOn, MainLoopOnTime
  <2> QED
    BY <1>1, <2>1, <2>5 DEF StartInv
<1>4. CASE "REQUESTED_TO_START" \notin flags /\ "PRERUN_TESTS_FINISHED" \in flags
  <2>1. state' \in {"POSTRUN_TESTS", "RUNNING"} /\ diag' = diag /\ tested' = tested
    BY <1>4 DEF Prerun
  <2>2. Armed /\ tested = AllTests
    BY <1>1, <1>4 DEF StartInv, Passed, FailedInTime, GoingOn
  <2> QED
    BY <1>1, <2>1, <2>2 DEF StartInv, Armed
<1>5. CASE "REQUESTED_TO_START" \notin flags /\ "PRERUN_TESTS_FINISHED" \notin flags
  <2>1. state' = state /\ UNCHANGED <<diag, atod, flags, tested>>
    BY <1>5 DEF Prerun
  <2>2. CASE FailedInTime
    <3>1. Slack = (MaxPwmPerSlot - pwmTicks) + MaxPwmPerSlot /\ Slack' = MaxPwmPerSlot
      BY <1>1, <1>2 DEF Slack
    <3>2. diag.st \in Phases => Left(diag) \in Nat
      BY DiagConstants DEF Left, Samples, TypeOK, DiagType, PhaseInv, WellUnderWay
    <3>3. FailedInTime'
      BY <1>1, <1>2, <2>1, <2>2, <3>1, <3>2 DEF FailedInTime, Left, Samples
    <3> QED
      BY <1>1, <2>1, <3>3 DEF StartInv
  <2>3. CASE GoingOn
    BY <1>1, <2>1, <2>3 DEF StartInv, GoingOn, Left, Samples, AdcLeft
  <2> QED
    BY <1>1, <1>5, <2>2, <2>3 DEF StartInv, Passed
<1> QED
  BY <1>3, <1>4, <1>5

\* The look for faults ends the pre-run of a start that has failed.
LEMMA StartCheck ==
    ASSUME TypeOK, PhaseInv, StartInv, Handler5ms_Check
    PROVE  StartInv'
<1>1. /\ fault \subseteq fault' /\ UNCHANGED <<flags, diag, atod, tested>>
      /\ state' \in {state, "ERROR_FOUND"}
      /\ state' = "PRERUN_TESTS" => fault' = {}
  BY DEF Handler5ms_Check, driverVars, history
<1>2. state' = "PRERUN_TESTS" => state = "PRERUN_TESTS" /\ ~FailedInTime
  BY <1>1 DEF FailedInTime
<1> QED
  BY <1>1, <1>2 DEF StartInv, Passed, GoingOn, Armed, Left, Samples, AdcLeft

\* Every step.
LEMMA StartStep == TypeOK /\ PhaseInv /\ StartInv /\ MainLoopOnTime /\ [Next]_vars => StartInv'
<1> SUFFICES ASSUME TypeOK, PhaseInv, StartInv, MainLoopOnTime, [Next]_vars PROVE StartInv'
  OBVIOUS
<1>1. CASE PwmInterrupt
  <2>1. AnalogChecks \subseteq {"CORRECT", "CURR_FAIL", "VBUS_FAIL"}
    BY DEF AnalogChecks
  <2> QED
    BY <1>1, <2>1, StartPwm, StartPwmElsewhere, InputTypes DEF PwmInterrupt
<1>2. CASE Handler250us
  BY <1>2 DEF Handler250us, StartInv, Armed, driverVars, history
<1>3. CASE Handler5ms_Check
  BY <1>3, StartCheck
<1>4. ASSUME NEW rms \in PhaseCurrents, Running(rms) PROVE StartInv'
  BY <1>4 DEF Running, PhaseLostFlags, StartInv, Armed, driverVars, history
<1>5. ASSUME NEW noCurrent \in StopCurrents, Postrun(noCurrent) PROVE StartInv'
  <2>1. /\ state' \notin {"PRERUN_TESTS", "RUNNING"}
        /\ "SHUTDOWN_PLAUSIB_CHECK_OK" \in flags' => "SHUTDOWN_PLAUSIB_CHECK_OK" \in flags
    BY <1>5 DEF Postrun
  <2> QED
    BY <2>1 DEF StartInv
<1>6. CASE Prerun
  BY <1>6, StartPrerun
<1>7. ASSUME NEW pin \in FaultInput, Idle(pin) PROVE StartInv'
  <2>1. /\ state' = "PRERUN_TESTS" => "REQUESTED_TO_START" \in flags'
        /\ "SHUTDOWN_PLAUSIB_CHECK_OK" \in flags' => "SHUTDOWN_PLAUSIB_CHECK_OK" \in flags
    BY <1>7 DEF Idle, StartTaken
  <2>2. state' # "RUNNING"
    BY <1>7 DEF Idle
  <2> QED
    BY <2>1, <2>2 DEF StartInv
<1>8. ASSUME NEW answered \in InjectionAnswers, UnlockDoorCheck(answered) PROVE StartInv'
  BY <1>8 DEF UnlockDoorCheck, StartInv
<1>9. ASSUME NEW noCurrent \in StopCurrents, Initialize(noCurrent) PROVE StartInv'
  BY <1>9 DEF Initialize, StartInv
<1>10. ASSUME NEW pin \in FaultInput, ErrorFound(pin) PROVE StartInv'
  BY <1>10 DEF ErrorFound, MotorMoves, StartInv
<1>11. ASSUME UNCHANGED <<state, diag, atod, mainLoop, pwmTicks, tested>>,
              \A f \in {"SHUTDOWN_PLAUSIB_CHECK_OK", "ADC_PLAUSIB_CHECK_OK",
                        "PRERUN_TESTS_FINISHED", "REQUESTED_TO_START"} : f \in flags' <=> f \in flags,
              fault \cap SensorFaults \subseteq fault'
       PROVE  StartInv'
  BY <1>11 DEF StartInv, Passed, FailedInTime, GoingOn, Armed, Slack, Left, Samples, AdcLeft
<1>12. ASSUME NEW temp \in Temperatures, SlowHandler(temp) PROVE StartInv'
  BY <1>11, <1>12 DEF SlowHandler, SensorFaults, driverVars, history
<1>13. ASSUME NEW crcOk \in ParamsCrc, SetParams(crcOk) PROVE StartInv'
  BY <1>11, <1>13 DEF SetParams, driverVars, history
<1>14. CASE ForceStop
  BY <1>11, <1>14 DEF ForceStop, Requested, driverVars, history
<1>15. CASE UNCHANGED vars
  BY <1>11, <1>15 DEF vars, driverVars, history
<1> QED
  BY <1>1, <1>2, <1>3, <1>4, <1>5, <1>6, <1>7, <1>8, <1>9, <1>10, <1>12, <1>13, <1>14, <1>15
     DEF Next, Handler5ms_Dispatch

(* With the main loop on time, every start passes or fails on the results  *)
(* of its own tests.                                                       *)
THEOREM StartsOnTime == Spec => []OnTimeInv
<1>1. Init => OnTimeInv
  BY DEF Init, OnTimeInv, StartInv
<1>2. TypeOK /\ PhaseInv /\ OnTimeInv /\ [Next]_vars => OnTimeInv'
  BY StartStep DEF OnTimeInv, MainLoopOnTime
<1> QED
  BY <1>1, <1>2, TypeCorrect, PhasesFit, PTL DEF Spec

(* DriveOnlyTested for every value of the constants: no result of another  *)
(* start lets the motor run.                                               *)
THEOREM TestedDrive == Spec => []DriveOnlyTested
<1>1. OnTimeInv => DriveOnlyTested
  BY DEF OnTimeInv, StartInv, DriveOnlyTested
<1> QED
  BY <1>1, StartsOnTime, PTL

(* ProtectionArmed for every value of the constants: the comparator is at  *)
(* its working threshold wherever the motor may be started and, with the   *)
(* main loop on time, wherever it runs.                                    *)
THEOREM AlwaysArmed == Spec => []ProtectionArmed
<1>1. PhaseInv /\ OnTimeInv => ProtectionArmed
  BY DEF PhaseInv, ArmedPlaces, OnTimeInv, StartInv, ProtectionArmed
<1> QED
  BY <1>1, PhasesFit, StartsOnTime, PTL

--------------------------------------------------------------------------------
(* SafetyMgr implements MotorPermit.                                       *)
LEMMA PermitInit == Init => Permit!Init
BY DEF Init, Permit!Init, PermitPhase

\* What the PWM interrupt does to the permission: the access flag only.
LEMMA PermitPwm ==
    ASSUME NEW pin, NEW ok, NEW analog, NEW vbus, NEW req, NEW out,
           MCPwmHandler(pin, ok, analog, vbus, req, out)
    PROVE  /\ state' = state
           /\ "UNLOCK_DOOR_SPEED" \in flags' <=> "UNLOCK_DOOR_SPEED" \in flags
           /\ "CLASS_A_PWM_ACCESS" \in flags' => state = "RUNNING"
<1> DEFINE p == PeripheralDiagnostic(pin, ok, analog)
           fl == ClassAPwmAccess(p.flags, fault \cup p.faults)
<1>1. "UNLOCK_DOOR_SPEED" \in p.flags <=> "UNLOCK_DOOR_SPEED" \in flags
  BY FlagsOfDiagnostic
<1>2. flags' = Requested(fl, req) /\ state' = state
  BY DEF MCPwmHandler
<1> HIDE DEF p
<1>3. "UNLOCK_DOOR_SPEED" \in fl <=> "UNLOCK_DOOR_SPEED" \in flags
  BY <1>1 DEF ClassAPwmAccess
<1>4. "CLASS_A_PWM_ACCESS" \in fl => state = "RUNNING"
  BY DEF ClassAPwmAccess, AccessGranted
<1> HIDE DEF fl
<1> QED
  BY <1>2, <1>3, <1>4, FlagsOfRequest

\* Every step is a step of MotorPermit or leaves its three variables alone.
LEMMA PermitStep == DoorInv /\ [Next]_vars => [Permit!Next]_(Permit!vars)
<1> SUFFICES ASSUME DoorInv, [Next]_vars PROVE [Permit!Next]_(Permit!vars)
  OBVIOUS
<1> USE DEF PermitPhase, Permit!vars
<1>1. ASSUME NEW pin, NEW ok, NEW analog, NEW vbus, NEW req, NEW out,
             MCPwmHandler(pin, ok, analog, vbus, req, out)
      PROVE  [Permit!Next]_(Permit!vars)
  <2>1. CASE "CLASS_A_PWM_ACCESS" \in flags'
    BY <1>1, <2>1, PermitPwm DEF Permit!Next, Permit!Grant
  <2>2. CASE "CLASS_A_PWM_ACCESS" \notin flags'
    BY <1>1, <2>2, PermitPwm DEF Permit!Next, Permit!Revoke
  <2> QED
    BY <2>1, <2>2
<1>2. CASE Handler5ms_Check
  BY <1>2 DEF Handler5ms_Check, Permit!Next, Permit!Lock
<1>3. CASE Handler5ms_Dispatch
  <2>1. ASSUME NEW rms \in PhaseCurrents, Running(rms) PROVE [Permit!Next]_(Permit!vars)
    <3>1. /\ "UNLOCK_DOOR_SPEED" \in flags' <=> "UNLOCK_DOOR_SPEED" \in flags
          /\ "CLASS_A_PWM_ACCESS" \in flags' <=> "CLASS_A_PWM_ACCESS" \in flags
      BY <2>1 DEF Running, PhaseLostFlags
    <3>2. state = "RUNNING" /\ state' \in {"RUNNING", "POSTRUN_TESTS"}
      BY <2>1 DEF Running
    <3> QED
      BY <3>1, <3>2 DEF Permit!Next, Permit!Lock
  <2>2. ASSUME NEW noCurrent \in StopCurrents, Postrun(noCurrent) PROVE [Permit!Next]_(Permit!vars)
    <3>1. /\ "UNLOCK_DOOR_SPEED" \in flags' <=> "UNLOCK_DOOR_SPEED" \in flags
          /\ "CLASS_A_PWM_ACCESS" \in flags' <=> "CLASS_A_PWM_ACCESS" \in flags
      BY <2>2 DEF Postrun
    <3>2. state = "POSTRUN_TESTS" /\ state' \in {"IDLE", "POSTRUN_TESTS"}
      BY <2>2 DEF Postrun
    <3>3. "CLASS_A_PWM_ACCESS" \notin flags
      BY <2>2 DEF Postrun, SlotEnds, DoorInv, AccessPlaces
    <3> QED
      BY <3>1, <3>2, <3>3 DEF Permit!Next, Permit!Settle
  <2>3. ASSUME Prerun PROVE [Permit!Next]_(Permit!vars)
    <3>1. "CLASS_A_PWM_ACCESS" \in flags' <=> "CLASS_A_PWM_ACCESS" \in flags
      BY <2>3 DEF Prerun, MotorMoves, TestsRestart
    <3>2. CASE state' = state
      <4>1. state = "PRERUN_TESTS"
        BY <2>3 DEF Prerun
      <4>2. "UNLOCK_DOOR_SPEED" \in flags' <=> "UNLOCK_DOOR_SPEED" \in flags
        BY <2>3, <3>2, <4>1 DEF Prerun, MotorMoves, TestsRestart
      <4> QED
        BY <3>1, <3>2, <4>2
    <3>3. CASE state' # state
      <4>1. /\ state = "PRERUN_TESTS"
            /\ state' \in {"RUNNING", "POSTRUN_TESTS"}
            /\ "UNLOCK_DOOR_SPEED" \notin flags'
        BY <2>3, <3>3 DEF Prerun, MotorMoves, TestsRestart
      <4> QED
        BY <3>1, <4>1 DEF Permit!Next, Permit!Drive, Permit!GiveUp
    <3> QED
      BY <3>2, <3>3
  <2>4. ASSUME NEW pin \in FaultInput, Idle(pin) PROVE [Permit!Next]_(Permit!vars)
    <3>1. /\ "UNLOCK_DOOR_SPEED" \in flags' <=> "UNLOCK_DOOR_SPEED" \in flags
          /\ "CLASS_A_PWM_ACCESS" \in flags' <=> "CLASS_A_PWM_ACCESS" \in flags
          /\ state = "IDLE"
          /\ \/ state' \in {"IDLE", "PRERUN_TESTS"}
             \/ state' = "UNLOCK_DOOR_CHECK" /\ "UNLOCK_DOOR_SPEED" \notin flags
      BY <2>4 DEF Idle, StartTaken
    <3> QED
      BY <3>1 DEF Permit!Next, Permit!Start, Permit!Prove
  <2>5. ASSUME NEW answered \in InjectionAnswers, UnlockDoorCheck(answered) PROVE [Permit!Next]_(Permit!vars)
    BY <2>5 DEF UnlockDoorCheck, Permit!Next, Permit!Release
  <2>6. ASSUME NEW noCurrent \in StopCurrents, Initialize(noCurrent) PROVE [Permit!Next]_(Permit!vars)
    BY <2>6 DEF Initialize
  <2>7. ASSUME NEW pin \in FaultInput, ErrorFound(pin) PROVE [Permit!Next]_(Permit!vars)
    <3>1. /\ "CLASS_A_PWM_ACCESS" \in flags' <=> "CLASS_A_PWM_ACCESS" \in flags
          /\ "UNLOCK_DOOR_SPEED" \notin flags' \/ flags' = flags
          /\ state = "ERROR_FOUND"
          /\ state' \in {"ERROR_FOUND", "POSTRUN_TESTS"}
      BY <2>7 DEF ErrorFound, MotorMoves
    <3> QED
      BY <3>1 DEF Permit!Next, Permit!Retry
  <2> QED
    BY <1>3, <2>1, <2>2, <2>3, <2>4, <2>5, <2>6, <2>7 DEF Handler5ms_Dispatch
<1>4. CASE Handler250us
  BY <1>4 DEF Handler250us
<1>5. ASSUME NEW temp \in Temperatures, SlowHandler(temp) PROVE [Permit!Next]_(Permit!vars)
  BY <1>5 DEF SlowHandler
<1>6. ASSUME NEW crcOk \in ParamsCrc, SetParams(crcOk) PROVE [Permit!Next]_(Permit!vars)
  BY <1>6 DEF SetParams
<1>7. CASE ForceStop
  BY <1>7 DEF ForceStop, Requested
<1>8. CASE UNCHANGED vars
  BY <1>8 DEF vars
<1> QED
  BY <1>1, <1>2, <1>3, <1>4, <1>5, <1>6, <1>7, <1>8 DEF Next, PwmInterrupt

(* The permission to drive and the release of the door change hands as     *)
(* MotorPermit says, for every value of the constants.                     *)
THEOREM ImplementsPermit == Spec => PermitSpec
<1>1. Init => Permit!Init
  BY PermitInit
<1>2. DoorInv /\ [Next]_vars => [Permit!Next]_(Permit!vars)
  BY PermitStep
<1> QED
  BY <1>1, <1>2, DoorSafe, PTL DEF Spec, PermitSpec, Permit!Spec
================================================================================
