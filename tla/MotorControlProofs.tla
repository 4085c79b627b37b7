--------------------------- MODULE MotorControlProofs ---------------------------
(***************************************************************************)
(* What holds of the composition MotorControl for every value of its       *)
(* constants: it implements SafetyMgr, so the theorems about class B hold  *)
(* of it, and class A reports IDLE only when the motor is released.        *)
(***************************************************************************)
EXTENDS MotorControl, SafetyMgrProofs, MciProofs

\* The requests and outputs of class A's interrupt handler.
AllRequests == {"none", "start", "stop"}
AllOutputs  == {"none", "duty", "lowers", "off"}

\* Class A asks class B for nothing but a start or a stop, and writes only
\* what Mcl gave it or the lower gates.
LEMMA WhatClassAAsks ==
    ASSUME NEW m, NEW idle, NEW access, NEW over, NEW done, NEW output \in MclOutputs
    PROVE  LET a == MciPwmHandler(m, idle, access, over, done, output)
           IN  a.req \in AllRequests /\ a.out \in AllOutputs
<1> DEFINE r == Prologue(m, over)
<1>1. Drives(r, output) \in AllOutputs
    BY ControlConstants DEF Drives, AllOutputs
<1>2. QED
    BY <1>1 DEF MciPwmHandler, RunningStep, StartingStep, ClassBStartingStep, StoppingStep,
        ClassBStoppingStep, InitializingStep, IdleStep, ManualStep, FvtStep, FailedStep, Step,
        AllRequests, AllOutputs

\* A request that class B does not take in its state is no request, and an
\* output without access to the inverter is no output.
LEMMA PwmAsAllowed ==
    ASSUME NEW pin \in FaultInput, NEW ok \in Converters, NEW analog \in AnalogChecks,
           NEW vbus \in VbusLevels, NEW req \in AllRequests, NEW out \in AllOutputs,
           MCPwmHandler(pin, ok, analog, vbus, req, out)
    PROVE  PwmInterrupt
<1> DEFINE r  == IF req \in Requests THEN req ELSE "none"
           o  == IF state = "RUNNING" THEN out ELSE "none"
           p  == PeripheralDiagnostic(pin, ok, analog)
           fl == ClassAPwmAccess(p.flags, fault \cup p.faults)
           g  == GatesByClassB(p.flags, fault \cup p.faults)
<1>1. r \in Requests /\ o \in Outputs
    BY DEF Requests, Outputs, AllOutputs
<1>2. Requested(fl, req) = Requested(fl, r)
    BY DEF Requested, Requests, AllRequests
<1>3. state # "RUNNING" => "CLASS_A_PWM_ACCESS" \notin fl
    BY DEF ClassAPwmAccess, AccessGranted
<1>4. GatesByClassA(fl, g, out) = GatesByClassA(fl, g, o)
    BY <1>3 DEF GatesByClassA
<1>5. ("CLASS_A_PWM_ACCESS" \in fl /\ out = "off") <=> ("CLASS_A_PWM_ACCESS" \in fl /\ o = "off")
    BY <1>3
<1>6. MCPwmHandler(pin, ok, analog, vbus, r, o)
    BY <1>2, <1>4, <1>5 DEF MCPwmHandler
<1>7. QED
    BY <1>1, <1>6 DEF PwmInterrupt

\* What a stop does to class B is one of its own steps.
LEMMA StopStep == StopsClassB => [Next]_vars
BY DEF StopsClassB, Next

\* Every step of the composition is a step of class B or leaves it alone.
LEMMA ControlStep == [ControlNext]_controlVars => [Next]_vars
<1> SUFFICES ASSUME [ControlNext]_controlVars PROVE [Next]_vars
    OBVIOUS
<1>1. CASE ControlPwm
    <2>1. PICK pin \in FaultInput, ok \in Converters, analog \in AnalogChecks,
               vbus \in VbusLevels, req \in AllRequests, out \in AllOutputs :
              MCPwmHandler(pin, ok, analog, vbus, req, out)
        BY <1>1, WhatClassAAsks DEF ControlPwm
    <2>2. PwmInterrupt
        BY <2>1, PwmAsAllowed
    <2>3. QED
        BY <2>2 DEF Next
<1>2. CASE ClassBCheck
    BY <1>2 DEF ClassBCheck, Next
<1>3. CASE ClassBDispatch
    BY <1>3 DEF ClassBDispatch, Next
<1>4. CASE ClassB250us
    BY <1>4 DEF ClassB250us, Next
<1>5. CASE ClassB25ms
    BY <1>5 DEF ClassB25ms, Next
<1>6. CASE ClassA5ms
    BY <1>6 DEF ClassA5ms
<1>7. CASE LoadParameters
    BY <1>7 DEF LoadParameters, LoadClassB, Next
<1>8. CASE RevealCommand
    BY <1>8, StopStep DEF RevealCommand, Starts, Stops, FvtStops
<1>9. CASE ToolWrites
    BY <1>9 DEF ToolWrites
<1>10. CASE ToolRuns
    BY <1>10 DEF ToolRuns, Starts
<1>11. CASE ToolLooks
    BY <1>11 DEF ToolLooks
<1>12. CASE ToolGives
    BY <1>12, StopStep DEF ToolGives, Starts, Stops
<1>13. CASE UNCHANGED controlVars
    BY <1>13 DEF controlVars
<1>14. QED
    BY <1>1, <1>2, <1>3, <1>4, <1>5, <1>6, <1>7, <1>8, <1>9, <1>10, <1>11, <1>12, <1>13
       DEF ControlNext

(* The composition implements class B's specification: nothing class A,    *)
(* the loader or a command does reaches past the interface.                *)
THEOREM ImplementsSafetyMgr == ControlSpec => SafetySpec
<1>1. ControlInit => Init
    BY DEF ControlInit
<1>2. QED
    BY <1>1, ControlStep, PTL DEF ControlSpec, SafetySpec, Spec

(* With class A's state machine and the commands in place, the door is     *)
(* never announced as released while somebody may drive the motor.         *)
THEOREM ControlledDoor == ControlSpec => []UnlockExcludesDrive
BY ImplementsSafetyMgr, NeverBoth, PTL DEF SafetySpec

--------------------------------------------------------------------------------
(* Class A and its callers.                                                *)

SlotNames == {"classA", "reveal", "tasks", "tool"}

\* The variables of the tool's handler, field by field.
ScTyped(s) ==
    /\ s.flag \in 0..2 /\ s.old \in 0..2 /\ s.force \in BOOLEAN /\ s.run \in BOOLEAN
    /\ s.tool \in {"off", "injects", "drives"}
    /\ s = [flag |-> s.flag, old |-> s.old, force |-> s.force, run |-> s.run, tool |-> s.tool]

LEMMA ScFields ==
    ASSUME NEW flag \in 0..2, NEW old \in 0..2, NEW force \in BOOLEAN, NEW run \in BOOLEAN,
           NEW tool \in {"off", "injects", "drives"},
           NEW s, s = [flag |-> flag, old |-> old, force |-> force, run |-> run, tool |-> tool]
    PROVE  /\ ScTyped(s)
           /\ s.flag = flag /\ s.old = old /\ s.force = force /\ s.run = run /\ s.tool = tool
<1>1. s.flag = flag /\ s.old = old /\ s.force = force /\ s.run = run /\ s.tool = tool
  OBVIOUS
<1> QED
  BY <1>1 DEF ScTyped

ClassATypes ==
    /\ mci \in MciType
    /\ ScTyped(sc)
    /\ slot \in SlotNames
    /\ wanted \subseteq {"run", "fvt", "manual"}

\* What the interrupt does to class A.
LEMMA PwmOutcome ==
    ASSUME ClassATypes, ControlPwm
    PROVE  \E over \in BOOLEAN : \E fl :
              LET p == Prologue(mci, over)
              IN  /\ p \in MciType /\ PrologueMoves(mci, p)
                  /\ mci' \in MciType /\ StepMoves(p, mci', IsInIdle(fl), HasAccess(fl))
                  /\ state' = state
                  /\ HasAccess(fl) => state = "RUNNING"
                  /\ flags' \subseteq fl \cup {"REQUESTED_TO_START", "REQUESTED_TO_STOP"}
                  /\ "REQUESTED_TO_START" \in flags' \ fl => p.st = "CLASS_B_STARTING"
                  /\ "REQUESTED_TO_START" \in fl => "REQUESTED_TO_START" \in flags
                  /\ wanted' = IF mci'.st = "FAILED" THEN {} ELSE wanted
                  /\ UNCHANGED <<sc, slot>>
<1>1. PICK pin \in FaultInput, ok \in Converters, analog \in AnalogChecks, vbus \in VbusLevels,
           over \in OverCurrents, done \in FvtAnswers, output \in MclOutputs :
        LET p  == PeripheralDiagnostic(pin, ok, analog)
            fl == ClassAPwmAccess(p.flags, fault \cup p.faults)
            a  == MciPwmHandler(mci, IsInIdle(fl), HasAccess(fl), over, done, output)
        IN  /\ MCPwmHandler(pin, ok, analog, vbus, a.req, a.out)
            /\ mci' = a.mci
            /\ wanted' = IF a.mci.st = "FAILED" THEN {} ELSE wanted
            /\ UNCHANGED <<sc, slot>>
  BY DEF ControlPwm
<1> DEFINE d  == PeripheralDiagnostic(pin, ok, analog)
           fl == ClassAPwmAccess(d.flags, fault \cup d.faults)
           a  == MciPwmHandler(mci, IsInIdle(fl), HasAccess(fl), over, done, output)
           p  == Prologue(mci, over)
<1>2. over \in BOOLEAN
  BY ControlConstants
<1>3. flags' = Requested(fl, a.req) /\ state' = state
  BY <1>1 DEF MCPwmHandler
<1>4. "REQUESTED_TO_START" \in fl => "REQUESTED_TO_START" \in flags
  BY DEF ClassAPwmAccess, PeripheralDiagnostic, PrerunDiagnostic
<1>5. HasAccess(fl) => state = "RUNNING"
  BY DEF HasAccess, ClassAPwmAccess, AccessGranted
<1>6. a.req = "start" => p.st = "CLASS_B_STARTING"
  BY HandlerAsks
<1>7. /\ p \in MciType /\ PrologueMoves(mci, p)
      /\ a.mci \in MciType /\ StepMoves(p, a.mci, IsInIdle(fl), HasAccess(fl))
  BY <1>2, HandlerOutcome DEF ClassATypes
<1>8. mci' = a.mci /\ wanted' = (IF a.mci.st = "FAILED" THEN {} ELSE wanted) /\ UNCHANGED <<sc, slot>>
  BY <1>1
<1> HIDE DEF fl, a, p
<1>9. /\ flags' \subseteq fl \cup {"REQUESTED_TO_START", "REQUESTED_TO_STOP"}
      /\ "REQUESTED_TO_START" \in flags' \ fl => p.st = "CLASS_B_STARTING"
  BY <1>3, <1>6 DEF Requested
<1>10. /\ p \in MciType /\ PrologueMoves(mci, p)
       /\ mci' \in MciType /\ StepMoves(p, mci', IsInIdle(fl), HasAccess(fl))
       /\ state' = state
       /\ HasAccess(fl) => state = "RUNNING"
       /\ flags' \subseteq fl \cup {"REQUESTED_TO_START", "REQUESTED_TO_STOP"}
       /\ "REQUESTED_TO_START" \in flags' \ fl => p.st = "CLASS_B_STARTING"
       /\ "REQUESTED_TO_START" \in fl => "REQUESTED_TO_START" \in flags
       /\ wanted' = IF mci'.st = "FAILED" THEN {} ELSE wanted
       /\ UNCHANGED <<sc, slot>>
  BY <1>3, <1>4, <1>5, <1>7, <1>8, <1>9
<1> QED
  BY <1>2, <1>10 DEF p

\* A command changes the flow word and no state, and class B by a stop only.
CommandGiven ==
    /\ mci' \in MciType /\ mci'.st = mci.st
    /\ "REQUESTED_START" \in mci'.flow => "REQUESTED_START" \in mci.flow \/ "run" \in wanted'
    /\ wanted' \subseteq {"run", "fvt", "manual"}
    /\ "run" \in wanted => "run" \in wanted' \/ "REQUESTED_START" \notin mci'.flow
    /\ state' = state
    /\ flags' \subseteq flags \cup {"FORCE_TO_STOP", "REQUESTED_TO_STOP"}

LEMMA StartGiven ==
    ASSUME ClassATypes, NEW command \in {"run", "fvt", "manual"}, Starts(command)
    PROVE  CommandGiven
<1> DEFINE m == mci'
<1>1. mci \in MciType /\ wanted \subseteq {"run", "fvt", "manual"}
  BY DEF ClassATypes
<1>2. state' = state /\ flags' = flags
  BY DEF Starts, vars
<1>3. wanted' = IF Accepted(command) THEN wanted \cup {command} ELSE wanted
  BY DEF Starts
<1>4. CASE command = "run"
  <2>1. m = MciRun(mci) /\ (Accepted(command) <=> RunAccepted(mci))
    BY <1>4 DEF Starts, Accepted
  <2>2. m \in MciType /\ m.st = mci.st /\ (m = mci \/ RunAccepted(mci))
    BY <1>1, <2>1, CommandOutcome
  <2> QED
    BY <1>1, <1>2, <1>3, <1>4, <2>1, <2>2 DEF CommandGiven
<1>5. CASE command = "fvt"
  <2>1. m = MciFvtStart(mci)
    BY <1>5 DEF Starts
  <2>2. m \in MciType /\ m.st = mci.st /\ m.flow \subseteq mci.flow \cup {"REQUESTED_FVT_MODE"}
    BY <1>1, <2>1, CommandOutcome
  <2> QED
    BY <1>1, <1>2, <1>3, <1>5, <2>2 DEF CommandGiven
<1>6. CASE command = "manual"
  <2>1. m = MciManualInjection(mci)
    BY <1>6 DEF Starts
  <2>2. m \in MciType /\ m.st = mci.st /\ m.flow \subseteq mci.flow \cup {"REQUESTED_MANUAL"}
    BY <1>1, <2>1, CommandOutcome
  <2> QED
    BY <1>1, <1>2, <1>3, <1>6, <2>2 DEF CommandGiven
<1> QED
  BY <1>4, <1>5, <1>6

LEMMA StopGiven ==
    ASSUME ClassATypes, Stops \/ FvtStops
    PROVE  CommandGiven
<1>1. mci \in MciType /\ wanted \subseteq {"run", "fvt", "manual"}
  BY DEF ClassATypes
<1>2. StopsClassB
  BY DEF Stops, FvtStops
<1>3. state' = state /\ flags' \subseteq flags \cup {"FORCE_TO_STOP", "REQUESTED_TO_STOP"}
  BY <1>2 DEF StopsClassB, ForceStop, Requested, vars
<1>4. CASE Stops
  <2>1. mci' = MciStop(mci) /\ wanted' = {}
    BY <1>4 DEF Stops
  <2>2. mci' \in MciType /\ mci'.st = mci.st /\ "REQUESTED_START" \notin mci'.flow
    BY <1>1, <2>1, CommandOutcome
  <2> QED
    BY <1>3, <2>1, <2>2 DEF CommandGiven
<1>5. CASE FvtStops
  <2>1. mci' = MciFvtStop(mci) /\ wanted' = wanted \ {"fvt"}
    BY <1>5 DEF FvtStops
  <2>2. mci' \in MciType /\ mci'.st = mci.st /\ mci'.flow \subseteq mci.flow \cup {"REQUESTED_STOP"}
    BY <1>1, <2>1, CommandOutcome
  <2> QED
    BY <1>1, <1>3, <2>1, <2>2 DEF CommandGiven
<1> QED
  BY <1>4, <1>5

\* One step of class A and its callers, as far as the state, the run that is
\* asked for and the history go; the interrupt aside.
MainLoopStep ==
    /\ mci'.st = mci.st
    /\ "REQUESTED_START" \in mci'.flow => "REQUESTED_START" \in mci.flow \/ "run" \in wanted'
    /\ "run" \in wanted => "run" \in wanted' \/ "REQUESTED_START" \notin mci'.flow
    /\ state' # state => \/ state' \notin {"PRERUN_TESTS", "RUNNING"}
                         \/ state = "PRERUN_TESTS" \/ "REQUESTED_TO_START" \in flags
    /\ flags' \cap {"REQUESTED_TO_START", "CLASS_A_PWM_ACCESS"} \subseteq flags

LEMMA MainLoopSteps ==
    ASSUME ClassATypes, [ControlNext]_controlVars
    PROVE  ControlPwm \/ (ClassATypes' /\ MainLoopStep)
<1> DEFINE goal == ClassATypes' /\ MainLoopStep
<1> USE DEF SlotNames
<1>1. ASSUME CommandGiven, ScTyped(sc'), slot' \in SlotNames
      PROVE  goal
  BY <1>1 DEF CommandGiven, ClassATypes, MainLoopStep
<1>2. ASSUME UNCHANGED <<mci, sc, wanted>>, slot' \in SlotNames,
             state' # state => \/ state' \notin {"PRERUN_TESTS", "RUNNING"}
                               \/ state = "PRERUN_TESTS" \/ "REQUESTED_TO_START" \in flags,
             flags' \cap {"REQUESTED_TO_START", "CLASS_A_PWM_ACCESS"} \subseteq flags
      PROVE  goal
  BY <1>2 DEF ClassATypes, MainLoopStep
<1>3. CASE ClassBCheck
  <2>1. flags' = flags /\ UNCHANGED classAVars /\ state' \in {state, "ERROR_FOUND"}
    BY <1>3 DEF ClassBCheck, Handler5ms_Check
  <2> QED
    BY <1>2, <2>1 DEF classAVars, ClassATypes
<1>4. CASE ClassBDispatch
  <2>1. slot' = "classA" /\ UNCHANGED <<mci, sc, wanted>> /\ Handler5ms_Dispatch
    BY <1>4 DEF ClassBDispatch
  <2>2. CASE \E rms \in PhaseCurrents : Running(rms)
    <3>1. state = "RUNNING" /\ flags' \subseteq flags \cup {"DETECTION_PHASE_LOST"}
          /\ state' \in {"POSTRUN_TESTS", "RUNNING"}
      BY <2>2 DEF Running, PhaseLostFlags
    <3> QED
      BY <1>2, <2>1, <3>1
  <2>3. CASE \E noCurrent \in StopCurrents : Postrun(noCurrent)
    <3>1. state = "POSTRUN_TESTS" /\ flags' \subseteq flags \cup {"UNLOCK_DOOR_SPEED_CHECK_REQUESTED"}
          /\ state' \in {"POSTRUN_TESTS", "IDLE"}
      BY <2>3 DEF Postrun
    <3> QED
      BY <1>2, <2>1, <3>1
  <2>4. CASE Prerun
    <3>1. state = "PRERUN_TESTS" /\ flags' \subseteq flags
      BY <2>4 DEF Prerun, TestsRestart, MotorMoves
    <3> QED
      BY <1>2, <2>1, <3>1
  <2>5. CASE \E pin \in FaultInput : Idle(pin)
    <3>1. flags' \subseteq flags
          /\ (state' \in {"IDLE", "UNLOCK_DOOR_CHECK"} \/ "REQUESTED_TO_START" \in flags)
      BY <2>5 DEF Idle, StartTaken
    <3> QED
      BY <1>2, <2>1, <3>1
  <2>6. CASE \E answered \in InjectionAnswers : UnlockDoorCheck(answered)
    <3>1. flags' \subseteq flags \cup {"UNLOCK_DOOR_SPEED"} /\ state' \in {state, "IDLE"}
      BY <2>6 DEF UnlockDoorCheck
    <3> QED
      BY <1>2, <2>1, <3>1
  <2>7. CASE \E noCurrent \in StopCurrents : Initialize(noCurrent)
    <3>1. flags' \subseteq flags /\ state' \in {state, "POSTRUN_TESTS"}
      BY <2>7 DEF Initialize
    <3> QED
      BY <1>2, <2>1, <3>1
  <2>8. CASE \E pin \in FaultInput : ErrorFound(pin)
    <3>1. flags' \subseteq flags /\ state' \in {state, "POSTRUN_TESTS"}
      BY <2>8 DEF ErrorFound, MotorMoves
    <3> QED
      BY <1>2, <2>1, <3>1
  <2> QED
    BY <2>1, <2>2, <2>3, <2>4, <2>5, <2>6, <2>7, <2>8 DEF Handler5ms_Dispatch
<1>5. CASE ClassB250us
  <2>1. UNCHANGED classAVars /\ state' = state /\ flags' = flags
    BY <1>5 DEF ClassB250us, Handler250us
  <2> QED
    BY <1>2, <2>1 DEF classAVars, ClassATypes
<1>6. CASE ClassB25ms
  <2>1. UNCHANGED classAVars /\ state' = state /\ flags' = flags
    BY <1>6 DEF ClassB25ms, SlowHandler
  <2> QED
    BY <1>2, <2>1 DEF classAVars, ClassATypes
<1>7. CASE ClassA5ms
  <2>1. PICK ready \in RelayAnswers, mclError \in MclErrors :
           mci' = Mci5msHandler(mci, fault, HasAccess(flags), "MC_PARAMETERS_LOADED" \in flags,
                                ready, mclError)
    BY <1>7 DEF ClassA5ms
  <2>2. mci' \in MciType /\ mci'.st = mci.st /\ mci'.flow = mci.flow
    BY <2>1, FiveMsOutcome DEF ClassATypes
  <2>3. slot' = "reveal" /\ UNCHANGED <<sc, wanted>> /\ state' = state /\ flags' = flags
    BY <1>7 DEF ClassA5ms, vars
  <2> QED
    BY <2>2, <2>3 DEF ClassATypes, MainLoopStep
<1>8. CASE LoadParameters
  <2>1. mci' \in MciType /\ mci'.st = mci.st /\ mci'.flow = mci.flow
    BY <1>8, CommandOutcome DEF LoadParameters, ClassATypes
  <2>2. slot' = "tasks" /\ UNCHANGED <<sc, wanted>> /\ state' = state
        /\ flags' \subseteq flags \cup {"MC_PARAMETERS_LOADED"}
    BY <1>8 DEF LoadParameters, LoadClassB, SetParams
  <2> QED
    BY <2>1, <2>2 DEF ClassATypes, MainLoopStep
<1>9. CASE RevealCommand
  <2>1. slot' = "tasks" /\ sc' = sc
        /\ ((\E command \in Commands : Starts(command)) \/ Stops \/ FvtStops)
    BY <1>9 DEF RevealCommand
  <2>2. CommandGiven
    BY <2>1, StartGiven, StopGiven, ControlConstants
  <2> QED
    BY <1>1, <2>1, <2>2 DEF ClassATypes
<1>10. ASSUME ScTyped(sc'), slot' \in SlotNames, UNCHANGED <<vars, mci, wanted>>
       PROVE  goal
  <2>1. state' = state /\ flags' = flags
    BY <1>10 DEF vars
  <2> QED
    BY <1>10, <2>1 DEF ClassATypes, MainLoopStep
<1>11. CASE ToolWrites
  <2>1. UNCHANGED <<vars, mci, slot, wanted>> /\ (ToolInjects \/ ToolDrives)
    BY <1>11 DEF ToolWrites
  <2>2. \E flag \in 0..2, force \in BOOLEAN, run \in BOOLEAN, tool \in {"off", "injects", "drives"} :
           sc' = [flag |-> flag, old |-> sc.old, force |-> force, run |-> run, tool |-> tool]
    <3>1. /\ sc.flag \in 0..2 /\ sc.force \in BOOLEAN /\ sc.run \in BOOLEAN
          /\ sc.tool \in {"off", "injects", "drives"}
          /\ sc = [flag |-> sc.flag, old |-> sc.old, force |-> sc.force, run |-> sc.run, tool |-> sc.tool]
      BY DEF ClassATypes, ScTyped
    <3>2. ASSUME NEW f \in 0..2, sc' = [sc EXCEPT !.flag = f]
          PROVE  sc' = [flag |-> f, old |-> sc.old, force |-> sc.force, run |-> sc.run, tool |-> sc.tool]
      BY <3>1, <3>2
    <3>3. CASE sc' = [sc EXCEPT !.flag = 1]
      BY <3>1, <3>2, <3>3
    <3>4. CASE sc' = [sc EXCEPT !.flag = 2]
      BY <3>1, <3>2, <3>4
    <3>5. CASE sc' = [sc EXCEPT !.flag = 0, !.tool = "off"]
      <4>1. sc' = [flag |-> 0, old |-> sc.old, force |-> sc.force, run |-> sc.run, tool |-> "off"]
        BY <3>1, <3>5
      <4> QED
        BY <3>1, <4>1
    <3>6. CASE sc' = [sc EXCEPT !.run = TRUE]
      <4>1. sc' = [flag |-> sc.flag, old |-> sc.old, force |-> sc.force, run |-> TRUE, tool |-> sc.tool]
        BY <3>1, <3>6
      <4> QED
        BY <3>1, <4>1
    <3>7. CASE sc' = [sc EXCEPT !.force = TRUE]
      <4>1. sc' = [flag |-> sc.flag, old |-> sc.old, force |-> TRUE, run |-> sc.run, tool |-> sc.tool]
        BY <3>1, <3>7
      <4> QED
        BY <3>1, <4>1
    <3> QED
      BY <2>1, <3>3, <3>4, <3>5, <3>6, <3>7 DEF ToolInjects, ToolDrives
  <2>3. PICK flag \in 0..2, force \in BOOLEAN, run \in BOOLEAN, tool \in {"off", "injects", "drives"} :
           sc' = [flag |-> flag, old |-> sc.old, force |-> force, run |-> run, tool |-> tool]
    BY <2>2
  <2>4. ScTyped(sc')
    BY <2>3, ScFields DEF ClassATypes, ScTyped
  <2>5. slot' \in SlotNames
    BY <2>1 DEF ClassATypes
  <2> QED
    BY <1>10, <2>1, <2>4, <2>5
<1>12. ASSUME NEW force \in BOOLEAN, NEW run \in BOOLEAN,
              sc' = [sc EXCEPT !.old = sc.flag, !.run = run, !.force = force]
       PROVE  ScTyped(sc')
  <2>1. sc' = [flag |-> sc.flag, old |-> sc.flag, force |-> force, run |-> run, tool |-> sc.tool]
    BY <1>12 DEF ClassATypes, ScTyped
  <2> QED
    BY <2>1, ScFields DEF ClassATypes, ScTyped
<1>13. (~RunAccepted(mci)) \in BOOLEAN
  BY DEF RunAccepted
<1>14. CASE ToolRuns
  <2>1. slot' = "tasks" /\ Starts("run")
        /\ sc' = [sc EXCEPT !.old = sc.flag, !.run = TRUE, !.force = ~RunAccepted(mci)]
    BY <1>14 DEF ToolRuns
  <2>2. CommandGiven
    BY <2>1, StartGiven
  <2>3. ScTyped(sc')
    BY <1>12, <1>13, <2>1
  <2> QED
    BY <1>1, <2>1, <2>2, <2>3
<1>15. CASE ToolLooks
  <2>1. slot' = "tool" /\ UNCHANGED <<vars, mci, wanted>>
        /\ (sc' = sc \/ sc' = [sc EXCEPT !.force = TRUE, !.run = FALSE])
    BY <1>15 DEF ToolLooks
  <2>2. ScTyped(sc')
    <3>1. CASE sc' = sc
      BY <3>1 DEF ClassATypes
    <3>2. CASE sc' = [sc EXCEPT !.force = TRUE, !.run = FALSE]
      <4>1. sc' = [flag |-> sc.flag, old |-> sc.old, force |-> TRUE, run |-> FALSE, tool |-> sc.tool]
        BY <3>2 DEF ClassATypes, ScTyped
      <4> QED
        BY <4>1, ScFields DEF ClassATypes, ScTyped
    <3> QED
      BY <2>1, <3>1, <3>2
  <2> QED
    BY <1>10, <2>1, <2>2
<1>16. CASE ToolGives
  <2> DEFINE seen == [sc EXCEPT !.old = sc.flag]
  <2>1. slot' = "tasks"
        /\ \/ Starts("run") /\ sc' = [seen EXCEPT !.force = ~RunAccepted(mci)]
           \/ Stops /\ sc' = [seen EXCEPT !.force = FALSE]
           \/ sc' = seen /\ UNCHANGED <<vars, mci, wanted>>
    BY <1>16 DEF ToolGives
  <2>2. ASSUME NEW b \in BOOLEAN, sc' = [seen EXCEPT !.force = b]
        PROVE  ScTyped(sc')
    <3>1. sc' = [sc EXCEPT !.old = sc.flag, !.run = sc.run, !.force = b]
      BY <2>2 DEF ClassATypes, ScTyped
    <3> QED
      BY <1>12, <3>1 DEF ClassATypes, ScTyped
  <2>3. CASE Starts("run") /\ sc' = [seen EXCEPT !.force = ~RunAccepted(mci)]
    <3>1. CommandGiven
      BY <2>3, StartGiven
    <3>2. ScTyped(sc')
      BY <1>13, <2>2, <2>3
    <3> QED
      BY <1>1, <2>1, <3>1, <3>2
  <2>4. CASE Stops /\ sc' = [seen EXCEPT !.force = FALSE]
    <3>1. CommandGiven
      BY <2>4, StopGiven
    <3>2. ScTyped(sc')
      BY <2>2, <2>4
    <3> QED
      BY <1>1, <2>1, <3>1, <3>2
  <2>5. CASE sc' = seen /\ UNCHANGED <<vars, mci, wanted>>
    <3>1. sc' = [sc EXCEPT !.old = sc.flag, !.run = sc.run, !.force = sc.force]
      BY <2>5 DEF ClassATypes, ScTyped
    <3>2. ScTyped(sc')
      BY <1>12, <3>1 DEF ClassATypes, ScTyped
    <3> QED
      BY <1>10, <2>1, <2>5, <3>2
  <2> QED
    BY <2>1, <2>3, <2>4, <2>5
<1>17. CASE UNCHANGED controlVars
  <2>1. UNCHANGED classAVars /\ state' = state /\ flags' = flags
    BY <1>17 DEF controlVars, vars
  <2> QED
    BY <1>2, <2>1 DEF classAVars, ClassATypes
<1> QED
  BY <1>3, <1>4, <1>5, <1>6, <1>7, <1>8, <1>9, <1>11, <1>14, <1>15, <1>16, <1>17 DEF ControlNext

\* The run that is asked for was accepted, unless class A has failed: then it
\* is cleared before class A is idle again.
RunKnown == "REQUESTED_START" \in mci.flow => "run" \in wanted \/ mci.st = "FAILED"

ControlInv == ClassATypes /\ IdleMeansReleased /\ RunKnown

LEMMA InitControl == ControlInit => ControlInv
<1> SUFFICES ASSUME ControlInit PROVE ControlInv
  OBVIOUS
<1>1. mci = MciInit /\ slot = "tasks" /\ wanted = {}
      /\ state = "INITIALIZE" /\ flags = {"MICRO_POWERING_UP"}
      /\ \E part \in (Commanders \ {"reveal"}) \cup {"off"} :
            sc = [flag |-> 0, old |-> 0, force |-> FALSE, run |-> FALSE, tool |-> part]
  BY DEF ControlInit, Init
<1>2. mci \in MciType /\ mci.flow = {}
  BY <1>1 DEF MciInit, MciType, MciStates, MciErrors
<1>3. ScTyped(sc)
  <2>1. PICK part \in {"off", "injects", "drives"} :
           sc = [flag |-> 0, old |-> 0, force |-> FALSE, run |-> FALSE, tool |-> part]
    BY <1>1, ControlConstants
  <2>2. 0 \in 0..2 /\ FALSE \in BOOLEAN
    OBVIOUS
  <2> QED
    BY <2>1, <2>2 DEF ScTyped
<1> QED
  BY <1>1, <1>2, <1>3 DEF ControlInv, ClassATypes, IdleMeansReleased, RunKnown, SlotNames

LEMMA ControlInvStep == ControlInv /\ [ControlNext]_controlVars => ControlInv'
<1> SUFFICES ASSUME ControlInv, [ControlNext]_controlVars PROVE ControlInv'
  OBVIOUS
<1>1. ClassATypes
  BY DEF ControlInv
<1>2. CASE ControlPwm
  <2>1. PICK over \in BOOLEAN : \E fl :
           LET p == Prologue(mci, over)
           IN  /\ p \in MciType /\ PrologueMoves(mci, p)
               /\ mci' \in MciType /\ StepMoves(p, mci', IsInIdle(fl), HasAccess(fl))
               /\ state' = state
               /\ HasAccess(fl) => state = "RUNNING"
               /\ flags' \subseteq fl \cup {"REQUESTED_TO_START", "REQUESTED_TO_STOP"}
               /\ "REQUESTED_TO_START" \in flags' \ fl => p.st = "CLASS_B_STARTING"
               /\ "REQUESTED_TO_START" \in fl => "REQUESTED_TO_START" \in flags
               /\ wanted' = IF mci'.st = "FAILED" THEN {} ELSE wanted
               /\ UNCHANGED <<sc, slot>>
    BY <1>1, <1>2, PwmOutcome
  <2> DEFINE p == Prologue(mci, over)
  <2>2. PICK fl :
            /\ p \in MciType /\ PrologueMoves(mci, p)
            /\ mci' \in MciType /\ StepMoves(p, mci', IsInIdle(fl), HasAccess(fl))
            /\ state' = state
            /\ HasAccess(fl) => state = "RUNNING"
            /\ flags' \subseteq fl \cup {"REQUESTED_TO_START", "REQUESTED_TO_STOP"}
            /\ "REQUESTED_TO_START" \in flags' \ fl => p.st = "CLASS_B_STARTING"
            /\ "REQUESTED_TO_START" \in fl => "REQUESTED_TO_START" \in flags
            /\ wanted' = IF mci'.st = "FAILED" THEN {} ELSE wanted
            /\ UNCHANGED <<sc, slot>>
    BY <2>1
  <2> HIDE DEF p
  <2>3. ClassATypes'
    BY <1>1, <2>2 DEF ClassATypes
  <2>4. IdleMeansReleased'
    <3> SUFFICES ASSUME mci'.st \in {"IDLE", "INITIALIZING"}
                 PROVE  /\ state \notin {"PRERUN_TESTS", "RUNNING"}
                        /\ "REQUESTED_TO_START" \notin flags' /\ "CLASS_A_PWM_ACCESS" \notin flags'
      BY <2>2 DEF IdleMeansReleased
    <3>1. p.st # "CLASS_B_STARTING" /\ (p.st = mci.st \/ p.st = "FAILED")
      BY <2>2 DEF StepMoves, PrologueMoves
    <3>2. /\ state \notin {"PRERUN_TESTS", "RUNNING"}
          /\ "REQUESTED_TO_START" \notin fl
      <4>1. CASE IsInIdle(fl)
        BY <4>1 DEF IsInIdle
      <4>2. CASE ~IsInIdle(fl)
        <5>1. mci.st \in {"IDLE", "INITIALIZING"}
          BY <2>2, <3>1, <4>2 DEF StepMoves
        <5> QED
          BY <2>2, <5>1 DEF ControlInv, IdleMeansReleased
      <4> QED
        BY <4>1, <4>2
    <3>3. "CLASS_A_PWM_ACCESS" \notin fl
      BY <2>2, <3>2 DEF HasAccess
    <3> QED
      BY <2>2, <3>1, <3>2, <3>3
  <2>5. RunKnown'
    <3> SUFFICES ASSUME "REQUESTED_START" \in mci'.flow, mci'.st # "FAILED" PROVE "run" \in wanted'
      BY DEF RunKnown
    <3>1. "REQUESTED_START" \in p.flow /\ "REQUESTED_START" \in mci.flow
      BY <2>2 DEF StepMoves, PrologueMoves
    <3>2. mci.st # "FAILED"
      <4> SUFFICES ASSUME mci.st = "FAILED" PROVE FALSE
        OBVIOUS
      <4>1. p.st = "FAILED"
        BY <2>2 DEF PrologueMoves
      <4> QED
        BY <2>2, <4>1 DEF StepMoves
    <3> QED
      BY <2>2, <3>1, <3>2 DEF ControlInv, RunKnown
  <2> QED
    BY <2>3, <2>4, <2>5 DEF ControlInv
<1>3. CASE ClassATypes' /\ MainLoopStep
  <2>1. IdleMeansReleased'
    BY <1>3 DEF ControlInv, IdleMeansReleased, MainLoopStep
  <2>2. RunKnown'
    BY <1>3 DEF ControlInv, RunKnown, MainLoopStep
  <2> QED
    BY <1>3, <2>1, <2>2 DEF ControlInv
<1> QED
  BY <1>1, <1>2, <1>3, MainLoopSteps

(* Every variable of class A, of the tool's handler and of class B stays   *)
(* within its type, whatever is commanded.                                 *)
THEOREM ControlTyped == ControlSpec => []ControlTypeOK
<1>1. ClassATypes /\ TypeOK => ControlTypeOK
  <2> SUFFICES ASSUME ClassATypes, TypeOK PROVE ControlTypeOK
    OBVIOUS
  <2>1. sc \in [flag : 0..2, old : 0..2, force : BOOLEAN, run : BOOLEAN,
                tool : {"off", "injects", "drives"}]
    BY DEF ClassATypes, ScTyped
  <2> QED
    BY <2>1 DEF ClassATypes, ControlTypeOK, SlotNames
<1>2. ControlInv => ClassATypes
  BY DEF ControlInv
<1> QED
  BY <1>1, <1>2, InitControl, ControlInvStep, ImplementsSafetyMgr, TypeCorrect, PTL
     DEF ControlSpec, SafetySpec

(* Class A reports IDLE only when class B has released the motor and has   *)
(* no start of it left to take.                                            *)
THEOREM IdleReleased == ControlSpec => []IdleMeansReleased
<1>1. ControlInv => IdleMeansReleased
  BY DEF ControlInv
<1> QED
  BY <1>1, InitControl, ControlInvStep, PTL DEF ControlSpec

(* The control algorithm starts only for a run that was accepted after the *)
(* last stop and after the last failure.                                   *)
THEOREM RunsWanted == ControlSpec => RunOnlyWanted
<1>1. ASSUME ControlInv, [ControlNext]_controlVars,
             mci.st = "CLASS_B_STARTING", mci'.st = "STARTING"
      PROVE  "run" \in wanted
  <2>1. ClassATypes
    BY <1>1 DEF ControlInv
  <2>2. ControlPwm
    BY <1>1, <2>1, MainLoopSteps DEF MainLoopStep
  <2>3. PICK over \in BOOLEAN : \E fl :
           LET p == Prologue(mci, over)
           IN  PrologueMoves(mci, p) /\ StepMoves(p, mci', IsInIdle(fl), HasAccess(fl))
    BY <2>1, <2>2, PwmOutcome
  <2> DEFINE p == Prologue(mci, over)
  <2>4. PICK fl : PrologueMoves(mci, p) /\ StepMoves(p, mci', IsInIdle(fl), HasAccess(fl))
    BY <2>3
  <2> HIDE DEF p
  <2>5. "REQUESTED_START" \in p.flow
    BY <1>1, <2>4 DEF StepMoves, PrologueMoves
  <2>6. "REQUESTED_START" \in mci.flow
    BY <2>4, <2>5 DEF PrologueMoves
  <2> QED
    BY <1>1, <2>6 DEF ControlInv, RunKnown
<1> QED
  BY <1>1, InitControl, ControlInvStep, PTL DEF ControlSpec, RunOnlyWanted

(* What is proved of class B holds under class A's commands: the motor is  *)
(* driven only after the tests of its own start, with the protections      *)
(* armed, and the door is opened only after every proof of standstill.     *)
THEOREM ControlledSafety ==
    ControlSpec => [](UnlockOnlyStopped /\ DriveOnlyTested /\ ProtectionArmed)
BY ImplementsSafetyMgr, UnlockProved, TestedDrive, AlwaysArmed, PTL DEF SafetySpec
================================================================================
