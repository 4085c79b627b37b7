------------------------------ MODULE SharedWords ------------------------------
(***************************************************************************)
(* The two words the main loop and the interrupts of the safety manager    *)
(* share, SR_Motor_Flags and SR_Motor_Fault, at the grain of loads and     *)
(* stores.  SRData__UpdateShort stores a word and its complement with the  *)
(* interrupts masked, but the main loop has loaded the word before that:   *)
(* what an interrupt writes in between is lost.                            *)
(*                                                                         *)
(* SafetyMgr models what the manager computes, with every change of a word *)
(* in one step.  Here the outcome of its tests and timers is left open,    *)
(* and the main loop is a list of operations on the words: a bit that only *)
(* the main loop uses is left out, its write-back is not.  The interrupts  *)
(* run to completion over the main loop, so each is one step; the 250 us   *)
(* interrupt and the PWM interrupt never both set faults in one state.     *)
(***************************************************************************)
EXTENDS Naturals, Sequences

CONSTANT ErrorSlots   \* the 5 ms slots an error lasts, at least

ASSUME SharedConstants == ErrorSlots \in Nat \ {0}

MgrStates == {"INITIALIZE", "IDLE", "PRERUN_TESTS", "POSTRUN_TESTS", "RUNNING",
              "ERROR_FOUND", "UNLOCK_DOOR_CHECK"}
MgrFlags == {"UNLOCK_DOOR_SPEED", "CLASS_A_PWM_ACCESS", "REQUESTED_TO_START",
             "REQUESTED_TO_STOP", "PRERUN_TESTS_FINISHED", "ADC_PLAUSIB_CHECK_OK",
             "SHUTDOWN_PLAUSIB_CHECK_OK", "MC_PARAMETERS_LOADED",
             "UNLOCK_DOOR_SPEED_CHECK_REQUESTED"}

\* The faults by who sets them, and the one that is cleared by itself.
MgrFaults == {"BY_INTERRUPT", "BY_MAIN_LOOP", "OVER_LOAD"}

VARIABLES
    mgr,      \* SR_SafetyMngr_State
    words,    \* [flags |-> SR_Motor_Flags, fault |-> SR_Motor_Fault], sets of bits
    wait,     \* SR_Timeout_Failure_Retry
    main,     \* [pc, ops, goal: where the main loop is, what it still has to do
              \*  to the words, the state it stores then; busy, held: the word it
              \*  has loaded and not yet stored]
    due,      \* the self tests of this start that have not given their result
    asks,     \* class A: "idle", "start", "runs" or "stop"
    loaded,   \* class A knows that the parameters are loaded
    pwm,      \* the PWM interrupt came since the last slot
    pending   \* history: an interrupt has set a fault that led to no error yet

sharedVars == <<mgr, words, wait, main, due, asks, loaded, pwm, pending>>

\* One read-modify-write of a word.
Op(word, set, clr) == [word |-> word, set |-> set, clr |-> clr]
SetFlag(b) == Op("flags", {b}, {})
ClearFlag(b) == Op("flags", {}, {b})
OtherFlag == Op("flags", {}, {})
SetFault(b) == Op("fault", {b}, {})
ClearFault(b) == Op("fault", {}, {b})

Waiting == [pc |-> "waiting", ops |-> <<>>, goal |-> "INITIALIZE", busy |-> FALSE, held |-> {}]

SharedTypeOK ==
    /\ mgr \in MgrStates
    /\ words.flags \subseteq MgrFlags /\ words.fault \subseteq MgrFaults
    /\ wait \in 0..ErrorSlots
    /\ main.pc \in {"waiting", "judge", "dispatch", "enable", "finish", "decide", "shutdown",
                    "settle", "force", "move", "end", "slow", "back"}
    /\ main.goal \in MgrStates /\ Len(main.ops) <= 2
    /\ due \subseteq {"adc", "shutdown"}
    /\ asks \in {"idle", "start", "runs", "stop"}
    /\ loaded \in BOOLEAN /\ pwm \in BOOLEAN /\ pending \in BOOLEAN

SharedInit ==
    /\ mgr = "INITIALIZE"
    /\ words = [flags |-> {}, fault |-> {}]
    /\ wait = 0
    /\ main = Waiting
    /\ due = {}
    /\ asks = "idle"
    /\ loaded = FALSE
    /\ pwm = FALSE
    /\ pending = FALSE

Has(b) == b \in words.flags
--------------------------------------------------------------------------------
(* The loads and stores of the main loop.                                  *)

Load ==
    /\ main.ops # <<>> /\ ~main.busy
    /\ main' = [main EXCEPT !.busy = TRUE, !.held = words[Head(main.ops).word]]
    /\ UNCHANGED <<mgr, words, wait, due, asks, loaded, pwm, pending>>

\* A new fault but the overload also loads the time of the error.
Store ==
    /\ main.busy
    /\ LET op == Head(main.ops)
       IN  /\ words' = [words EXCEPT ![op.word] = (main.held \cup op.set) \ op.clr]
           /\ wait' = IF op = SetFault("BY_MAIN_LOOP") THEN ErrorSlots ELSE wait
    /\ main' = [main EXCEPT !.busy = FALSE, !.held = {}, !.ops = Tail(@)]
    /\ UNCHANGED <<mgr, due, asks, loaded, pwm, pending>>

AtPc(pc) == main.pc = pc /\ main.ops = <<>>
Then(pc, ops) == main' = [main EXCEPT !.pc = pc, !.ops = ops]
ThenState(ops, st) == main' = [main EXCEPT !.pc = "move", !.ops = ops, !.goal = st]
--------------------------------------------------------------------------------
(* The 5 ms slot.  Each action goes as far as the next write to a word.    *)

\* OverVoltageCheck.
Check ==
    /\ AtPc("waiting") /\ pwm
    /\ \/ Then("judge", <<>>)
       \/ mgr \notin {"PRERUN_TESTS", "ERROR_FOUND"} /\ Then("judge", <<SetFault("BY_MAIN_LOOP")>>)
    /\ UNCHANGED <<mgr, words, wait, due, asks, loaded, pwm, pending>>

\* Any fault makes an error once the initialisation is over.
Judge ==
    /\ AtPc("judge")
    /\ mgr' = IF words.fault # {} /\ mgr # "INITIALIZE" THEN "ERROR_FOUND" ELSE mgr
    /\ pending' = (pending /\ mgr' # "ERROR_FOUND")
    /\ Then("dispatch", <<>>)
    /\ UNCHANGED <<words, wait, due, asks, loaded, pwm>>

RunningSlot ==
    /\ AtPc("dispatch") /\ mgr = "RUNNING"
    /\ \E lost \in {<<>>, <<OtherFlag>>, <<OtherFlag, SetFault("BY_MAIN_LOOP")>>} :
          Then("shutdown", lost)
    /\ UNCHANGED <<mgr, words, wait, due, asks, loaded, pwm, pending>>

\* CheckHwFaultStatus, and without a fault the request to stop.
ShutdownChecked ==
    /\ AtPc("shutdown")
    /\ \/ Then("end", <<SetFault("BY_MAIN_LOOP")>>)
       \/ IF Has("REQUESTED_TO_STOP") THEN ThenState(<<>>, "POSTRUN_TESTS") ELSE Then("end", <<>>)
    /\ UNCHANGED <<mgr, words, wait, due, asks, loaded, pwm, pending>>

\* MotorMovingHandlerBpm: a shut-down fault, the tests passed, or neither;
\* "failed" is SR_FAULT_UNLOCK_DOOR_SPEED_FAILED.
PostrunSlot ==
    /\ AtPc("dispatch") /\ mgr = "POSTRUN_TESTS"
    /\ \/ Then("end", <<SetFault("BY_MAIN_LOOP")>>)
       \/ LET hw == SetFault("BY_MAIN_LOOP")
              passed == SetFlag("UNLOCK_DOOR_SPEED_CHECK_REQUESTED")
          IN  \E ops \in {<<>>, <<hw>>, <<passed>>, <<hw, passed>>} : Then("settle", ops)
    /\ UNCHANGED <<mgr, words, wait, due, asks, loaded, pwm, pending>>

Settles ==
    /\ AtPc("settle")
    /\ IF Has("UNLOCK_DOOR_SPEED_CHECK_REQUESTED")
       THEN ThenState(<<ClearFlag("REQUESTED_TO_START")>>, "IDLE")
       ELSE Then("end", <<>>)
    /\ UNCHANGED <<mgr, words, wait, due, asks, loaded, pwm, pending>>

PrerunSlot ==
    /\ AtPc("dispatch") /\ mgr = "PRERUN_TESTS"
    /\ IF Has("REQUESTED_TO_START")
       THEN Then("enable", <<ClearFlag("REQUESTED_TO_START"), ClearFlag("PRERUN_TESTS_FINISHED")>>)
       ELSE Then("finish", <<>>)
    /\ UNCHANGED <<mgr, words, wait, due, asks, loaded, pwm, pending>>

\* SRMCAtod__EnableDiagnostic and SRMCPwm__EnableDiagnostic.
Enables ==
    /\ AtPc("enable")
    /\ due' = {"adc", "shutdown"}
    /\ Then("finish", <<>>)
    /\ UNCHANGED <<mgr, words, wait, asks, loaded, pwm, pending>>

\* InitMotorMovingHandlerBpm.
MovingOps == <<ClearFlag("UNLOCK_DOOR_SPEED")>>

Finishes ==
    /\ AtPc("finish")
    /\ \/ Has("PRERUN_TESTS_FINISHED") /\ Then("decide", MovingOps)
       \/ ~Has("PRERUN_TESTS_FINISHED") /\ Then("end", <<>>)
       \/ ~Has("PRERUN_TESTS_FINISHED") /\ Then("end", <<SetFault("BY_MAIN_LOOP")>>)
    /\ UNCHANGED <<mgr, words, wait, due, asks, loaded, pwm, pending>>

\* The state is stored before the hardware fault is looked at.
Decides ==
    /\ AtPc("decide")
    /\ mgr' = IF Has("REQUESTED_TO_STOP") THEN "POSTRUN_TESTS" ELSE "RUNNING"
    /\ \E hw \in {<<>>, <<SetFault("BY_MAIN_LOOP")>>} : Then("end", hw)
    /\ UNCHANGED <<words, wait, due, asks, loaded, pwm, pending>>

\* A start is taken, or the pending check of the door begins when its time
\* has come.
IdleSlot ==
    /\ AtPc("dispatch") /\ mgr = "IDLE"
    /\ LET start == <<OtherFlag, ClearFlag("UNLOCK_DOOR_SPEED_CHECK_REQUESTED")>>
           waits == Has("UNLOCK_DOOR_SPEED_CHECK_REQUESTED") /\ ~Has("UNLOCK_DOOR_SPEED")
       IN  IF Has("REQUESTED_TO_START") THEN ThenState(start, "PRERUN_TESTS")
           ELSE \/ Then("end", <<>>)
                \/ /\ waits
                   /\ ThenState(<<ClearFlag("UNLOCK_DOOR_SPEED_CHECK_REQUESTED")>>,
                                "UNLOCK_DOOR_CHECK")
    /\ UNCHANGED <<mgr, words, wait, due, asks, loaded, pwm, pending>>

DoorSlot ==
    /\ AtPc("dispatch") /\ mgr = "UNLOCK_DOOR_CHECK"
    /\ \/ Then("end", <<>>)
       \/ ThenState(<<SetFlag("UNLOCK_DOOR_SPEED")>>, "IDLE")
       \/ Then("end", <<SetFault("BY_MAIN_LOOP")>>)
    /\ UNCHANGED <<mgr, words, wait, due, asks, loaded, pwm, pending>>

\* PowerUpSensors.
InitializeSlot ==
    /\ AtPc("dispatch") /\ mgr = "INITIALIZE"
    /\ Then("end", <<>>) \/ ThenState(<<OtherFlag>>, "POSTRUN_TESTS")
    /\ UNCHANGED <<mgr, words, wait, due, asks, loaded, pwm, pending>>

\* Faulty variant: the time is counted once more when it is over.
BadErrorLasts == wait >= 0

\* Faulty variant: the last slot of the error does not count.
HastyErrorLasts == wait > 1

ErrorLasts == wait > 0

\* The retry stores zero over the faults, without a load.
ErrorSlot ==
    /\ AtPc("dispatch") /\ mgr = "ERROR_FOUND"
    /\ IF "OVER_LOAD" \in words.fault
       THEN Then("end", <<>>) /\ UNCHANGED <<words, wait>>
       ELSE IF ErrorLasts
       THEN Then("end", <<>>) /\ wait' = wait - 1 /\ UNCHANGED words
       ELSE /\ words' = [words EXCEPT !.fault = {}]
            /\ ThenState(MovingOps, "POSTRUN_TESTS")
            /\ UNCHANGED wait
    /\ UNCHANGED <<mgr, due, asks, loaded, pwm, pending>>

Moves ==
    /\ AtPc("move")
    /\ mgr' = main.goal
    /\ main' = [Waiting EXCEPT !.pc = "slow"]
    /\ pwm' = FALSE
    /\ UNCHANGED <<words, wait, due, asks, loaded, pending>>

Ends ==
    /\ AtPc("end")
    /\ main' = [Waiting EXCEPT !.pc = "slow"]
    /\ pwm' = FALSE
    /\ UNCHANGED <<mgr, words, wait, due, asks, loaded, pending>>

Dispatch ==
    \/ RunningSlot \/ ShutdownChecked
    \/ PostrunSlot \/ Settles
    \/ PrerunSlot \/ Enables \/ Finishes \/ Decides
    \/ IdleSlot
    \/ DoorSlot
    \/ InitializeSlot
    \/ ErrorSlot
    \/ Moves \/ Ends
--------------------------------------------------------------------------------
(* The rest of the main loop, until the next slot.                         *)

\* Faulty variant: the overload is cleared whether it stands or not.
BadOverloadOps == {<<SetFault("OVER_LOAD")>>, <<ClearFault("OVER_LOAD")>>}

\* OverLoadProtection.
OverloadOps ==
    IF "OVER_LOAD" \in words.fault THEN {<<ClearFault("OVER_LOAD")>>} ELSE {<<SetFault("OVER_LOAD")>>}

\* SRMotorSafetyMgr__SlowHandler, after every fifth slot.
Overload ==
    /\ AtPc("slow")
    /\ \/ Then("back", <<>>)
       \/ /\ mgr # "INITIALIZE" /\ Has("MC_PARAMETERS_LOADED")
          /\ \E ops \in OverloadOps : Then("back", ops)
    /\ UNCHANGED <<mgr, words, wait, due, asks, loaded, pwm, pending>>

\* SRMotorSafetyMgr__SetParams, as long as class A has no parameters.
LoadsParams ==
    /\ AtPc("waiting") /\ ~loaded
    /\ \E op \in {SetFlag("MC_PARAMETERS_LOADED"), ClearFlag("MC_PARAMETERS_LOADED")} :
          Then("back", <<op>>)
    /\ UNCHANGED <<mgr, words, wait, due, asks, loaded, pwm, pending>>

\* Faulty variant: every stop goes through class B.
BadMayForce == TRUE

\* Mci__Stop turns to class B only when no parameters are loaded.
MayForce == ~loaded

\* SRMotorSafetyMgr__ForceStop: a bit of its own, then Prepare2StopMotor,
\* which masks the interrupts around its load and store.
Forces ==
    /\ AtPc("waiting") /\ MayForce
    /\ Then("force", <<OtherFlag>>)
    /\ UNCHANGED <<mgr, words, wait, due, asks, loaded, pwm, pending>>

Forced ==
    /\ AtPc("force")
    /\ words' = IF mgr \in {"RUNNING", "PRERUN_TESTS"}
                THEN [words EXCEPT !.flags = @ \cup {"REQUESTED_TO_STOP"}] ELSE words
    /\ Then("waiting", <<>>)
    /\ UNCHANGED <<mgr, wait, due, asks, loaded, pwm, pending>>

GoesBack ==
    /\ AtPc("back")
    /\ Then("waiting", <<>>)
    /\ UNCHANGED <<mgr, words, wait, due, asks, loaded, pwm, pending>>

\* Mci__5msHandler: Update_Status.
ClassALoaded ==
    /\ AtPc("waiting")
    /\ loaded' = Has("MC_PARAMETERS_LOADED")
    /\ UNCHANGED <<mgr, words, wait, main, due, asks, pwm, pending>>
--------------------------------------------------------------------------------
(* The interrupts.                                                         *)

\* PeripheralDiagnostic in PRERUN_TESTS: the tests in got give their results,
\* those in bad a wrong one; once both are right the analog circuit counts.
Diagnosed(got, bad, analog) ==
    LET right == got \ bad
        both == {"ADC_PLAUSIB_CHECK_OK", "SHUTDOWN_PLAUSIB_CHECK_OK"}
        ok == words.flags \cup (IF "adc" \in right THEN {"ADC_PLAUSIB_CHECK_OK"} ELSE {})
                          \cup (IF "shutdown" \in right THEN {"SHUTDOWN_PLAUSIB_CHECK_OK"} ELSE {})
        all == both \subseteq ok
    IN  [flags |-> (IF all THEN ok \ both ELSE ok)
                       \cup (IF all /\ analog THEN {"PRERUN_TESTS_FINISHED"} ELSE {}),
         fault |-> words.fault \cup (IF bad # {} \/ (all /\ ~analog) THEN {"BY_INTERRUPT"} ELSE {})]

\* ClassAPwmAccess, worked out anew by every interrupt.
Access(w) ==
    IF mgr = "RUNNING" /\ w.fault = {} /\ "REQUESTED_TO_STOP" \notin w.flags
    THEN w.flags \cup {"CLASS_A_PWM_ACCESS"} ELSE w.flags \ {"CLASS_A_PWM_ACCESS"}

\* SRMotorSafetyMgr__Prepare2StartMotor and __Prepare2StopMotor, called by
\* Mci__PwmHandler as long as class A waits for class B.
Asked(fl) ==
    IF asks = "start" /\ mgr = "IDLE" /\ "MC_PARAMETERS_LOADED" \in fl
    THEN (fl \cup {"REQUESTED_TO_START"}) \ {"REQUESTED_TO_STOP"}
    ELSE IF asks = "stop" /\ mgr \in {"RUNNING", "PRERUN_TESTS"}
    THEN fl \cup {"REQUESTED_TO_STOP"}
    ELSE fl

\* Faulty variant: a stop that was accepted is not asked for again.
BadClassAGoes(fl) ==
    IF asks = "idle" THEN {"idle"} \cup (IF loaded THEN {"start"} ELSE {})
    ELSE IF asks = "start" THEN {"stop"} \cup (IF "CLASS_A_PWM_ACCESS" \in fl THEN {"runs"} ELSE {"start"})
    ELSE IF asks = "runs" THEN {"runs", "stop"}
    ELSE {"idle"}

\* What class A may do next: a command, the access it waits for, an error.
ClassAGoes(fl) ==
    IF asks = "idle" THEN {"idle"} \cup (IF loaded THEN {"start"} ELSE {})
    ELSE IF asks = "start" THEN {"stop"} \cup (IF "CLASS_A_PWM_ACCESS" \in fl THEN {"runs"} ELSE {"start"})
    ELSE IF asks = "runs" THEN {"runs", "stop"}
    ELSE IF mgr = "IDLE" /\ "REQUESTED_TO_START" \notin fl THEN {"idle"} ELSE {"stop"}

PwmHandler(got, bad, analog) ==
    LET w == IF mgr = "PRERUN_TESTS" THEN Diagnosed(got, bad, analog) ELSE words
        found == w.fault # words.fault
        fl == Asked(Access(w))
    IN  /\ words' = [w EXCEPT !.flags = fl]
        /\ due' = due \ got
        /\ wait' = IF found THEN ErrorSlots ELSE wait
        /\ pending' = (pending \/ found)
        /\ asks' \in ClassAGoes(fl)
        /\ pwm' = TRUE
        /\ UNCHANGED <<mgr, main, loaded>>

\* The self tests whose results this interrupt may look at.
Testing == IF mgr = "PRERUN_TESTS" THEN due ELSE {}

PwmTick ==
    \E got \in SUBSET Testing : \E bad \in SUBSET got, analog \in {TRUE, mgr # "PRERUN_TESTS"} :
        PwmHandler(got, bad, analog)

\* The interrupt in which the self tests come to their ends.
TestsGiveResults == Testing # {} /\ \E bad \in SUBSET due, analog \in BOOLEAN :
                                      PwmHandler(due, bad, analog)

\* CheckCurrentsPlausibility in the 250 us interrupt.
CurrentsWrong ==
    /\ mgr = "RUNNING"
    /\ words' = [words EXCEPT !.fault = @ \cup {"BY_INTERRUPT"}]
    /\ wait' = ErrorSlots
    /\ pending' = TRUE
    /\ UNCHANGED <<mgr, main, due, asks, loaded, pwm>>
--------------------------------------------------------------------------------
SharedNext ==
    \/ Load \/ Store
    \/ Check \/ Judge
    \/ Dispatch
    \/ Overload \/ LoadsParams \/ Forces \/ Forced \/ GoesBack \/ ClassALoaded
    \/ PwmTick
    \/ CurrentsWrong

\* What the main loop is in the middle of.
MainLoopGoesOn == Load \/ Store \/ Judge \/ Dispatch \/ Overload \/ Forced \/ GoesBack

SharedSpec == SharedInit /\ [][SharedNext]_sharedVars
--------------------------------------------------------------------------------
(* Whatever a late store brings back, the door is never released while     *)
(* class A has the inverter (UnlockExcludesDrive at the grain of stores,   *)
(* and what WordsPermitSpec below comes to for the door).                  *)
DoorShutWhileDriven == ~({"UNLOCK_DOOR_SPEED", "CLASS_A_PWM_ACCESS"} \subseteq words.flags)

(* A fault that an interrupt has set may be lost to a store of the main    *)
(* loop, but not without another fault in its place, until the error it    *)
(* called for is there: class A is not given the inverter as if nothing    *)
(* had happened.                                                           *)
NoFaultForgotten == pending => words.fault # {}

(* A stop that class A asks for is taken while the motor runs, although a  *)
(* store of the main loop can undo the request.                            *)
StopTaken == (asks = "stop" /\ mgr = "RUNNING") ~> (mgr # "RUNNING")

(* No result of the pre-run tests is lost: the manager always leaves them, *)
(* to run, to stop or with an error.  Every result is given once only.     *)
PrerunEnds == (mgr = "PRERUN_TESTS") ~> (mgr # "PRERUN_TESTS")
--------------------------------------------------------------------------------
(* The abstract specification, as SafetyMgr implements it with every       *)
(* change of a word in one step.  Here a store of a word and the store of  *)
(* the state that belongs to it are apart: the phase changes with the one  *)
(* that opens or locks the door.                                           *)
WordsPhase ==
    IF mgr = "IDLE" \/ (mgr = "UNLOCK_DOOR_CHECK" /\ AtPc("move")) THEN "ready"
    ELSE IF mgr = "UNLOCK_DOOR_CHECK" THEN "proving"
    ELSE IF mgr = "RUNNING" \/ AtPc("decide") THEN "driving"
    ELSE IF mgr = "PRERUN_TESTS" THEN "testing"
    ELSE "locked"

WordsPermit == INSTANCE MotorPermit WITH
                   phase <- WordsPhase,
                   unlock <- Has("UNLOCK_DOOR_SPEED"),
                   access <- Has("CLASS_A_PWM_ACCESS")

(* Whatever the late stores of the main loop bring back, and wherever the  *)
(* interrupts fall, the permission to drive and the release of the door    *)
(* change hands as MotorPermit says: no store gives class A an access that *)
(* was revoked with the run, or releases a door that was locked again.     *)
WordsPermitSpec == WordsPermit!Spec
================================================================================
