------------------------------ MODULE MotorControl ------------------------------
(***************************************************************************)
(* The whole chain from a command to the inverter: the class B safety      *)
(* manager (SafetyMgr), the class A interface that runs inside its PWM     *)
(* interrupt (Mci), the loader of their parameters (MciParametersLoader.c) *)
(* and the two that give commands, the Reveal API and the handler of the   *)
(* self commissioning tool (SelfCommissioning.c), whose variables the tool *)
(* itself writes over the serial line (self_commissioning.py).             *)
(*                                                                         *)
(* In every slot the main loop runs class B's tasks, class A's 5 ms        *)
(* handler, the Reveal bus with at most one message, and the 25 ms tasks   *)
(* of class A, in this order; the interrupts fall anywhere.                *)
(***************************************************************************)
EXTENDS SafetyMgr, Mci

CONSTANTS
    Commanders,     \* who may give commands: the Reveal API, the tool's
                    \*  injections, the tool's drive of the motor
    Commands,       \* the starts the Reveal API asks for
    MclOutputs,     \* what Mcl may ask of the inverter
    OverCurrents,   \* what class A's own over current check may find
    MclErrors,      \* what Mcl's checks may find
    FvtAnswers,     \* what MclFvt__GuardCondition may answer
    RelayAnswers    \* whether the surge relay may be open: SURGE_RELAY_READY

ASSUME ControlConstants ==
    /\ Commanders \subseteq {"reveal", "injects", "drives"}
    /\ Commands \subseteq {"run", "fvt", "manual"}
    /\ MclOutputs \subseteq {"duty", "lowers", "off"}
    /\ OverCurrents \cup MclErrors \cup FvtAnswers \cup RelayAnswers \subseteq BOOLEAN

VARIABLES
    mci,        \* the variables of Mci.c
    sc,         \* [flag |-> Sc_Injection_Flag, old |-> Sc_Injection_Flag_Old,
                \*  force |-> Sc_Master_Cmd_Force, run |-> Sc_Master_Cmd_Speed # 0,
                \*  tool |-> what the tool does since the last reset]
    slot,       \* the main loop's next task that is not class B's
    wanted      \* history: the commands accepted since the last stop or failure

classAVars == <<mci, sc, slot, wanted>>
controlVars == <<vars, classAVars>>

ControlTypeOK ==
    /\ TypeOK
    /\ mci \in MciType
    /\ sc \in [flag : 0..2, old : 0..2, force : BOOLEAN, run : BOOLEAN,
               tool : {"off", "injects", "drives"}]
    /\ slot \in {"classA", "reveal", "tasks", "tool"}
    /\ wanted \subseteq {"run", "fvt", "manual"}

ControlInit ==
    /\ Init
    /\ mci = MciInit
    /\ \E part \in (Commanders \ {"reveal"}) \cup {"off"} :
          sc = [flag |-> 0, old |-> 0, force |-> FALSE, run |-> FALSE, tool |-> part]
    /\ slot = "tasks"
    /\ wanted = {}

HasAccess(fl) == "CLASS_A_PWM_ACCESS" \in fl
--------------------------------------------------------------------------------
(* The PWM interrupt: class A's handler runs last in class B's.            *)

\* Faulty variant: a start that class B has not taken yet is overlooked.
BadIsInIdle(fl) == state = "IDLE"

\* SRMotorSafetyMgr__IsInIdle.
IsInIdle(fl) == state = "IDLE" /\ "REQUESTED_TO_START" \notin fl

ControlPwm ==
    \E pin \in FaultInput, ok \in Converters, analog \in AnalogChecks, vbus \in VbusLevels,
       over \in OverCurrents, done \in FvtAnswers, output \in MclOutputs :
        LET p  == PeripheralDiagnostic(pin, ok, analog)
            fl == ClassAPwmAccess(p.flags, fault \cup p.faults)
            a  == MciPwmHandler(mci, IsInIdle(fl), HasAccess(fl), over, done, output)
        IN  /\ MCPwmHandler(pin, ok, analog, vbus, a.req, a.out)
            /\ mci' = a.mci
            /\ wanted' = IF a.mci.st = "FAILED" THEN {} ELSE wanted
            /\ UNCHANGED <<sc, slot>>
--------------------------------------------------------------------------------
(* The main loop.                                                          *)

ClassBCheck ==
    /\ slot \notin {"classA", "tool"}
    /\ Handler5ms_Check
    /\ UNCHANGED classAVars

ClassBDispatch ==
    /\ Handler5ms_Dispatch
    /\ slot' = "classA"
    /\ UNCHANGED <<mci, sc, wanted>>

ClassB250us ==
    /\ "currents" \in Failing
    /\ Handler250us
    /\ UNCHANGED classAVars

ClassB25ms ==
    /\ slot = "classA"
    /\ \E temp \in Temperatures : SlowHandler(temp)
    /\ UNCHANGED classAVars

ClassA5ms ==
    /\ slot = "classA"
    /\ slot' = "reveal"
    /\ \E ready \in RelayAnswers, mclError \in MclErrors :
          mci' = Mci5msHandler(mci, fault, HasAccess(flags), "MC_PARAMETERS_LOADED" \in flags,
                               ready, mclError)
    /\ UNCHANGED <<vars, sc, wanted>>

\* Faulty variant: the flag is stored over the others.
BadLoadClassB(crcOk) ==
    /\ mainLoop = "waiting"
    /\ flags' = IF crcOk THEN {"MC_PARAMETERS_LOADED"} ELSE {}
    /\ UNCHANGED <<state, fault, retry, timers, dcbus, driverVars, gates, mainLoop, pwmTicks, history>>

LoadClassB(crcOk) == SetParams(crcOk)

\* MciParametersLoader__25msHandler, when no programming is going on.
LoadParameters ==
    /\ slot \notin {"classA", "tool"}
    /\ slot' = "tasks"
    /\ ~mci.loaded
    /\ mci.st \notin {"FVT_MODE", "INITIALIZING"}
    /\ mci' = MciSetParams(mci)
    /\ \E crcOk \in ParamsCrc : LoadClassB(crcOk)
    /\ UNCHANGED <<sc, wanted>>
--------------------------------------------------------------------------------
(* The commands.                                                           *)

Accepted(command) ==
    IF command = "run" THEN RunAccepted(mci)
    ELSE IF command = "fvt" THEN FvtAccepted(mci) ELSE ManualAccepted(mci)

Starts(command) ==
    /\ mainLoop = "waiting"
    /\ mci' = IF command = "run" THEN MciRun(mci)
              ELSE IF command = "fvt" THEN MciFvtStart(mci) ELSE MciManualInjection(mci)
    /\ wanted' = IF Accepted(command) THEN wanted \cup {command} ELSE wanted
    /\ UNCHANGED vars

\* What a stop does to class B.
StopsClassB ==
    /\ mainLoop = "waiting"
    /\ IF StopIsForced(mci) THEN ForceStop ELSE UNCHANGED vars

Stops == StopsClassB /\ mci' = MciStop(mci) /\ wanted' = {}

FvtStops == StopsClassB /\ mci' = MciFvtStop(mci) /\ wanted' = wanted \ {"fvt"}

\* APIMotorControl.c, one message per slot.
RevealCommand ==
    /\ "reveal" \in Commanders
    /\ slot = "reveal"
    /\ slot' = "tasks"
    /\ (\E command \in Commands : Starts(command)) \/ Stops \/ FvtStops
    /\ UNCHANGED sc

\* What the tool writes between two resets of the board.  It injects: the flag
\* is 1 for the resistance, then 2 for the inductance, each many times, and at
\* last 0, once.  Or it drives the motor: a speed, then the order to take it,
\* again and again.
ToolInjects ==
    /\ sc.tool = "injects"
    /\ \/ sc.flag = 0 /\ sc' = [sc EXCEPT !.flag = 1]
       \/ sc.flag = 1 /\ sc' = [sc EXCEPT !.flag = 2]
       \/ sc.flag = 2 /\ sc' = [sc EXCEPT !.flag = 0, !.tool = "off"]

ToolDrives ==
    /\ sc.tool = "drives"
    /\ \/ sc' = [sc EXCEPT !.run = TRUE]
       \/ sc.run /\ sc' = [sc EXCEPT !.force = TRUE]

ToolWrites ==
    /\ ToolInjects \/ ToolDrives
    /\ UNCHANGED <<vars, mci, slot, wanted>>

\* SelfCommissioning__25msHandler.  A new flag that asks for a run is loaded
\* once, and the run asked for at once.
ToolRuns ==
    /\ slot \notin {"classA", "tool"}
    /\ sc.flag # sc.old /\ sc.flag # 0
    /\ Starts("run")
    /\ sc' = [sc EXCEPT !.old = sc.flag, !.run = TRUE, !.force = ~RunAccepted(mci)]
    /\ slot' = "tasks"

\* Any other flag is compared first; a new 0 becomes a stop while class A has
\* access.
ToolLooks ==
    /\ slot \notin {"classA", "tool"}
    /\ mainLoop = "waiting"
    /\ sc.flag = sc.old \/ sc.flag = 0
    /\ sc' = IF sc.flag # sc.old /\ HasAccess(flags)
             THEN [sc EXCEPT !.force = TRUE, !.run = FALSE] ELSE sc
    /\ slot' = "tool"
    /\ UNCHANGED <<vars, mci, wanted>>

\* Then it is loaded again to be remembered, and the pending command is given:
\* a run until it is accepted, a stop once.
ToolGives ==
    LET seen == [sc EXCEPT !.old = sc.flag]
    IN  /\ slot = "tool"
        /\ slot' = "tasks"
        /\ IF sc.force /\ sc.run
           THEN Starts("run") /\ sc' = [seen EXCEPT !.force = ~RunAccepted(mci)]
           ELSE IF sc.force
           THEN Stops /\ sc' = [seen EXCEPT !.force = FALSE]
           ELSE sc' = seen /\ UNCHANGED <<vars, mci, wanted>>

ControlNext ==
    \/ ControlPwm
    \/ ClassBCheck
    \/ ClassBDispatch
    \/ ClassB250us
    \/ ClassB25ms
    \/ ClassA5ms
    \/ LoadParameters
    \/ RevealCommand
    \/ ToolWrites
    \/ ToolRuns
    \/ ToolLooks
    \/ ToolGives

ControlSpec == ControlInit /\ [][ControlNext]_controlVars

(* The interrupt comes and the main loop goes round; each 25 ms task has   *)
(* its slot in five, so it runs again and again between the others, and    *)
(* none of them keeps class B's tasks from their slot.                     *)
ControlFairness ==
    /\ WF_controlVars(ControlPwm)
    /\ SF_controlVars(ClassBCheck)
    /\ WF_controlVars(ClassBDispatch)
    /\ WF_controlVars(ClassA5ms)
    /\ SF_controlVars(LoadParameters)
    /\ SF_controlVars(ToolRuns \/ ToolLooks)
    /\ WF_controlVars(ToolGives)

FairControlSpec == ControlSpec /\ ControlFairness
--------------------------------------------------------------------------------
(* Class A and its callers use class B only as SafetyMgr's Requests and    *)
(* Outputs allow, so whatever holds of SafetyMgr holds of the composition. *)
SafetySpec == Spec

(* When class A reports IDLE the motor is released for good: class B       *)
(* neither tests nor drives, nor has it a start left to take, and class A  *)
(* has no access.  The two state machines hand the start and the stop over *)
(* through request flags, each at its own pace.                            *)
IdleMeansReleased ==
    mci.st \in {"IDLE", "INITIALIZING"} =>
        /\ state \notin {"PRERUN_TESTS", "RUNNING"}
        /\ flags \cap {"REQUESTED_TO_START", "CLASS_A_PWM_ACCESS"} = {}

(* The control algorithm starts only for a run command accepted after the  *)
(* last stop and after the last failure: neither revives an old command.   *)
RunOnlyWanted ==
    [][mci.st = "CLASS_B_STARTING" /\ mci'.st = "STARTING" => "run" \in wanted]_controlVars

(* A start is either granted or given up, and a stop always ends, whatever *)
(* class B finds on the way.                                               *)
StartEnds == (mci.st = "CLASS_B_STARTING") ~> (mci.st # "CLASS_B_STARTING")
StopEnds == (mci.st \in {"STOPPING", "CLASS_B_STOPPING"}) ~> (mci.st \in {"IDLE", "FAILED"})

(* The tool's pending run is served, unless class A fails.                 *)
RunServed == sc.force ~> (~sc.force \/ mci.st = "FAILED")

(* Mci.c:1287, "Stop the motor regardless its speed with a desired rate.   *)
(* This command is always accepted": once a stop has been carried out,     *)
(* nothing asked for before it is still pending.                           *)
StopForgetsStarts ==
    [][mci.st = "CLASS_B_STOPPING" /\ mci'.st = "IDLE" /\ wanted = {}
         => mci'.flow \cap {"REQUESTED_START", "REQUESTED_FVT_MODE", "REQUESTED_MANUAL"} = {}]_controlVars
================================================================================
