---------------------------------- MODULE Mci ----------------------------------
(***************************************************************************)
(* The motor control interface (Hbl/Mci/Mci.c), class A, in the build with *)
(* SELF_COMMISSIONING: the state machine that asks class B for the         *)
(* inverter, drives it, and answers the commands of the applications.      *)
(* Its variables are one record, and each of its routines an operator:     *)
(* MotorControl gives them the class B they talk to.                       *)
(*                                                                         *)
(*   st      Mci_Control_State          flow    Mci_Flow_Control           *)
(*   errors  Mci_Error.  The bits that copy class B faults are set one by  *)
(*           one but cleared all together: they are "CLASS_B" here, and    *)
(*           the conditions found by Mcl are "MCL".                        *)
(*   timer   Mci_GP_Timer               odd     pwm_post_scaler & 1        *)
(*   scaler  time_postscaler            loaded  MCI_DI_PARAMETERS_LOADED   *)
(*   params  Mci_Parameters_Loaded, set together with Mcl's own flag       *)
(*                                                                         *)
(* MCI_ALL_DEVICES_OFF is left out: it is cleared here, and set nowhere.   *)
(***************************************************************************)
EXTENDS Naturals

CONSTANTS
    CheckErrorPostscaler,   \* MCI_CHECKERR_POSTSCALER, in calls of 5 ms (60)
    InitErrorThreshold,     \* MCI_INIT_ERROR_THRES, in postscaled calls (833)
    ClassBStartupThreshold  \* MCI_CLASS_B_STARTUP_THRES (33)

ASSUME MciConstants ==
    {CheckErrorPostscaler, InitErrorThreshold, ClassBStartupThreshold} \subseteq Nat

MciStates == {"FVT_MODE", "INITIALIZING", "IDLE", "CLASS_B_STARTING", "CLASS_B_STOPPING",
              "FAILED", "STARTING", "RUNNING", "STOPPING", "MANUAL_CONTROL"}
MciFlows  == {"FORCE_LOWERS_ON", "REQUESTED_STOP", "REQUESTED_START", "REQUESTED_MANUAL",
              "REQUESTED_FVT_MODE"}
MciErrors == {"CLASS_B", "MCL", "HW_OVER_CURRENT", "SW_OVER_CURRENT", "SURGE_RELAY_OPEN",
              "CLASS_B_FORCE2STOP", "INITIALIZATION_FAILED"}

\* The enumeration's order is used in the code: states from MCI_STARTING on.
\* FVT_MODE, its first value, is below them all.
FromStarting == {"STARTING", "RUNNING", "STOPPING", "MANUAL_CONTROL"}

MciType == [st : MciStates, flow : SUBSET MciFlows, errors : SUBSET MciErrors, timer : Nat,
            odd : 0..1, scaler : Nat, loaded : BOOLEAN, params : BOOLEAN]

\* Mci__Initialize: the power up errors are copies of class B faults.
MciInit == [st |-> "INITIALIZING", flow |-> {}, errors |-> {"CLASS_B"}, timer |-> 0,
            odd |-> 0, scaler |-> 0, loaded |-> FALSE, params |-> FALSE]
--------------------------------------------------------------------------------
(* Mci__PwmHandler, one call.  Each step returns the record, the request   *)
(* it makes of class B and what it writes to the inverter.                 *)

Step(m, req, out) == [mci |-> m, req |-> req, out |-> out]

Goes(m, st) == [m EXCEPT !.st = st]
Drops(m, flows) == [m EXCEPT !.flow = @ \ flows]
Raises(m, flows) == [m EXCEPT !.flow = @ \cup flows]

\* Check_Errors_Pwm_Handler.
PwmErrors(m, overCurrent) ==
    IF m.st \in FromStarting /\ overCurrent
    THEN [m EXCEPT !.errors = @ \cup {"SW_OVER_CURRENT"}]
    ELSE [m EXCEPT !.errors = @ \ {"SW_OVER_CURRENT"}]

\* Any error, once initialised, and MCI_DEFAULT_ERROR_REACTION.  The test is
\* "state > MCI_INITIALIZING", so it leaves the functional test alone.
Reaction(m) ==
    IF \/ m.errors # {} /\ m.st \notin {"INITIALIZING", "FVT_MODE"}
       \/ "INITIALIZATION_FAILED" \in m.errors /\ m.st = "INITIALIZING"
    THEN Raises(Goes(m, "FAILED"), {"FORCE_LOWERS_ON"})
    ELSE m

\* Drive_The_Motor, with what Mcl has worked out.
Drives(m, output) == IF "FORCE_LOWERS_ON" \in m.flow THEN "lowers" ELSE output

\* What every call begins with: the postscaler, the errors, the reaction.
Prologue(m, overCurrent) == Reaction(PwmErrors([m EXCEPT !.odd = 1 - @], overCurrent))

RunningStep(m, output) ==
    Step(IF "REQUESTED_STOP" \in m.flow THEN Goes(m, "STOPPING") ELSE m, "none", Drives(m, output))

StartingStep(m, output) ==
    Step(Goes(m, IF "REQUESTED_STOP" \in m.flow THEN "CLASS_B_STOPPING" ELSE "RUNNING"),
         "none", Drives(m, output))

StoppingStep(m, output) ==
    Step(IF m.odd = 1 THEN Goes(m, "CLASS_B_STOPPING") ELSE m, "none", Drives(m, output))

Granted(m) ==
    LET st == IF "REQUESTED_MANUAL" \in m.flow THEN "MANUAL_CONTROL"
              ELSE IF "REQUESTED_START" \in m.flow THEN "STARTING"
              ELSE IF "REQUESTED_FVT_MODE" \in m.flow THEN "FVT_MODE"
              ELSE m.st
    IN  Drops(Goes(m, st), {"REQUESTED_START"})

ClassBStartingStep(m, access) ==
    Step(IF "REQUESTED_STOP" \in m.flow THEN Goes(m, "CLASS_B_STOPPING")
         ELSE IF access THEN Granted(m) ELSE m,
         "start", "none")

\* Faulty variant: class B is not told.
BadClassBStoppingStep(m, idle) == Step(IF idle THEN Goes(m, "IDLE") ELSE m, "none", "none")

ClassBStoppingStep(m, idle) ==
    Step(IF idle THEN Goes(m, "IDLE") ELSE m, "stop", "none")

InitializingStep(m, idle) ==
    Step(IF m.errors = {} /\ idle THEN Goes(m, "IDLE") ELSE m, "none", "none")

IdleStep(m) ==
    LET c == Drops(m, {"REQUESTED_STOP", "FORCE_LOWERS_ON"})
    IN  Step(IF c.flow # {} THEN [Goes(c, "CLASS_B_STARTING") EXCEPT !.timer = 0] ELSE c,
             "none", "none")

ManualStep(m, output) ==
    Step(IF "REQUESTED_STOP" \in m.flow
         THEN Goes(Drops(m, {"REQUESTED_MANUAL"}), "CLASS_B_STOPPING") ELSE m,
         "none", Drives(m, output))

\* "done" is MclFvt__GuardCondition.
FvtStep(m, done, output) ==
    Step(IF (done \/ "REQUESTED_STOP" \in m.flow) /\ m.errors = {}
         THEN Goes(Drops(m, {"REQUESTED_FVT_MODE"}), "CLASS_B_STOPPING") ELSE m,
         "none", Drives(m, output))

FailedStep(m, idle) ==
    LET c == [m EXCEPT !.timer = 0]
    IN  Step(IF ~idle THEN m
             ELSE IF m.errors # {} THEN c
             ELSE Goes(Drops(c, {"REQUESTED_START", "REQUESTED_FVT_MODE", "REQUESTED_MANUAL"}), "IDLE"),
             "stop", "none")

\* "idle" and "access" are MotorSafetyMgr__IsInIdle and
\* __DoesClassAHaveAccessToPwm.
MciPwmHandler(mci0, idle, access, overCurrent, done, output) ==
    LET m == Prologue(mci0, overCurrent)
    IN  IF m.st = "RUNNING" THEN RunningStep(m, output)
        ELSE IF m.st = "STARTING" THEN StartingStep(m, output)
        ELSE IF m.st = "CLASS_B_STARTING" THEN ClassBStartingStep(m, access)
        ELSE IF m.st = "STOPPING" THEN StoppingStep(m, output)
        ELSE IF m.st = "CLASS_B_STOPPING" THEN ClassBStoppingStep(m, idle)
        ELSE IF m.st = "INITIALIZING" THEN InitializingStep(m, idle)
        ELSE IF m.st = "IDLE" THEN IdleStep(m)
        ELSE IF m.st = "MANUAL_CONTROL" THEN ManualStep(m, output)
        ELSE IF m.st = "FVT_MODE" THEN FvtStep(m, done, output)
        ELSE FailedStep(m, idle)
--------------------------------------------------------------------------------
(* Mci__5msHandler: Check_Errors_5ms_Handler, then Update_Status.          *)

\* The errors that are looked at in every call.
FastErrors(errors, faults, busReady) ==
    (errors \ {"SURGE_RELAY_OPEN", "HW_OVER_CURRENT"})
        \cup (IF busReady THEN {} ELSE {"SURGE_RELAY_OPEN"})
        \cup (IF "OVER_CURRENT" \in faults THEN {"HW_OVER_CURRENT"} ELSE {})

\* The copies of the class B faults: none of them is cleared while any fault
\* stands.
CopiedErrors(errors, faults) ==
    IF faults = {} THEN errors \ {"CLASS_B"}
    ELSE IF faults = {"OVER_CURRENT"} THEN errors
    ELSE errors \cup {"CLASS_B"}

\* What the state asks for.
StateErrors(m, faults, access) ==
    LET lost == m.st \in {"RUNNING", "STARTING"} /\ ~access /\ faults = {}
        late == m.st = "CLASS_B_STARTING" /\ m.timer >= ClassBStartupThreshold
        never == m.st = "INITIALIZING" /\ m.timer >= InitErrorThreshold
        unloaded == m.st \in FromStarting /\ ~m.loaded
    IN  (IF m.st = "FAILED" THEN m.errors \ {"INITIALIZATION_FAILED", "CLASS_B_FORCE2STOP"}
                            ELSE m.errors)
            \cup (IF lost \/ late THEN {"CLASS_B_FORCE2STOP"} ELSE {})
            \cup (IF never \/ unloaded THEN {"INITIALIZATION_FAILED"} ELSE {})

\* Faulty variant: the wait for class B is not timed.
BadStateTimer(m) ==
    IF m.st = "INITIALIZING" /\ m.timer < InitErrorThreshold THEN m.timer + 1 ELSE m.timer

StateTimer(m) ==
    IF \/ m.st = "INITIALIZING" /\ m.timer < InitErrorThreshold
       \/ m.st = "CLASS_B_STARTING" /\ m.timer < ClassBStartupThreshold
    THEN m.timer + 1 ELSE m.timer

\* "mclError": Mcl sees a locked rotor, a hot or a disconnected motor.
SlowErrors(m, faults, access, mclError) ==
    LET c == [m EXCEPT !.errors = CopiedErrors(@, faults)]
    IN  [c EXCEPT !.errors = (StateErrors(c, faults, access) \ {"MCL"})
                                 \cup (IF mclError THEN {"MCL"} ELSE {}),
                  !.timer = StateTimer(c)]

\* Faulty variant: the postscaler is not loaded again.
BadPostscaled(scaler) == scaler - 1

Postscaled(scaler) == IF scaler > 0 THEN scaler - 1 ELSE CheckErrorPostscaler

CheckErrors5ms(m, faults, access, busReady, mclError) ==
    LET c == [m EXCEPT !.errors = FastErrors(@, faults, busReady), !.scaler = Postscaled(@)]
    IN  IF m.scaler > 0 THEN c ELSE SlowErrors(c, faults, access, mclError)

\* "crcLoaded" is the flag SR_FLAG_MC_PARAMETERS_LOADED of class B.
Mci5msHandler(m, faults, access, crcLoaded, busReady, mclError) ==
    [CheckErrors5ms(m, faults, access, busReady, mclError)
        EXCEPT !.loaded = crcLoaded /\ m.params]
--------------------------------------------------------------------------------
(* The commands, with values in range.                                     *)

RunAccepted(m) == m.loaded /\ "REQUESTED_STOP" \notin m.flow /\ m.st \in {"IDLE", "RUNNING"}

MciRun(m) == IF RunAccepted(m) /\ m.st = "IDLE" THEN Raises(m, {"REQUESTED_START"}) ELSE m

\* Faulty variant: a run that has not begun is not called off.
BadMciStop(m) ==
    IF /\ m.loaded
       /\ "REQUESTED_STOP" \notin m.flow
       /\ m.st \in {"RUNNING", "STARTING", "CLASS_B_STARTING", "MANUAL_CONTROL"}
    THEN Raises(m, {"REQUESTED_STOP"})
    ELSE m

\* Mci__Stop; a stop that comes with no parameters loaded goes to class B
\* (StopIsForced).
MciStop(m) ==
    LET c == Drops(m, {"REQUESTED_START"})
    IN  IF /\ c.loaded
           /\ "REQUESTED_STOP" \notin c.flow
           /\ c.st \in {"RUNNING", "STARTING", "CLASS_B_STARTING", "MANUAL_CONTROL"}
        THEN Raises(c, {"REQUESTED_STOP"})
        ELSE c

StopIsForced(m) == ~m.loaded

FvtAccepted(m) == m.loaded /\ "REQUESTED_STOP" \notin m.flow /\ m.st = "IDLE"

MciFvtStart(m) == IF FvtAccepted(m) THEN Raises(m, {"REQUESTED_FVT_MODE"}) ELSE m

MciFvtStop(m) ==
    IF m.loaded /\ m.st \in {"FVT_MODE", "STARTING", "CLASS_B_STARTING"}
    THEN Raises(Drops(m, {"REQUESTED_START", "REQUESTED_FVT_MODE"}), {"REQUESTED_STOP"})
    ELSE m

ManualAccepted(m) ==
    m.loaded /\ "REQUESTED_STOP" \notin m.flow /\ m.st \in {"IDLE", "MANUAL_CONTROL"}

MciManualInjection(m) == IF ManualAccepted(m) THEN Raises(m, {"REQUESTED_MANUAL"}) ELSE m

\* Faulty variant: the address is stored, the flag is not set.
BadMciSetParams(m) == m

\* Mci__SetParams.
MciSetParams(m) == [m EXCEPT !.params = TRUE]
================================================================================
