----------------------------- MODULE MCSafetyRepair -----------------------------
(***************************************************************************)
(* The safety manager on hardware that is faulty until it is repaired: in  *)
(* any reachable state all of it may begin to read as it should, and does  *)
(* so from then on.  What a passing fault leaves behind in the manager and *)
(* in the drivers' self tests stays there.                                 *)
(*                                                                         *)
(*   MCSafetyRepair   the tests end, every error is retried, and the door  *)
(*                    is released again, with one exception                *)
(*   MCSafetyLockOut  the exception: the comparator left tripped           *)
(***************************************************************************)
EXTENDS SafetyMgr

VARIABLE repaired   \* the hardware is in order from now on

repairVars == <<vars, repaired>>

Healthy == INSTANCE SafetyMgr WITH Failing <- {}, InjectionAnswers <- {TRUE}

RepairInit == Init /\ repaired = FALSE

Faulty ==
    /\ ~repaired
    /\ \/ PwmInterrupt
       \/ "currents" \in Failing /\ Handler250us
       \/ Handler5ms_Check
       \/ Handler5ms_Dispatch

InOrder ==
    /\ repaired
    /\ \/ Healthy!PwmInterrupt
       \/ Healthy!Handler5ms_Check
       \/ Healthy!Handler5ms_Dispatch

(* The rest of the main loop.  The motor gets too hot only while it runs,  *)
(* and cools down while it stands.                                         *)
Slow ==
    \/ state = "RUNNING" /\ SlowHandler("above_high")
    \/ state # "RUNNING" /\ SlowHandler("below_low")
    \/ \E crcOk \in ParamsCrc : SetParams(crcOk)
    \/ ForceStop

RepairNext ==
    \/ (Faulty \/ InOrder \/ Slow) /\ UNCHANGED repaired
    \/ ~repaired /\ repaired' = TRUE /\ UNCHANGED vars

(* SafetyMgr's fairness, before the repair and after.                      *)
RepairFairness ==
    /\ WF_vars(~repaired /\ PwmInterrupt)
    /\ WF_vars(repaired /\ Healthy!PwmInterrupt)
    /\ WF_vars(Handler5ms_Check)
    /\ WF_vars(Handler5ms_Dispatch)

RepairSpec == RepairInit /\ [][RepairNext]_repairVars /\ RepairFairness

(* SRMotorSafetyMgr.c:795, on the way back from a fault: "The goal is to   *)
(* prevent a dead lock when verifying any condition after running the      *)
(* motor".  Whatever the hardware did to the manager before, once it is in *)
(* order the door is released (DoorUnlocks).                               *)
DoorUnlocksRepaired == <>repaired => DoorUnlocks

(* The same with the one exception that the code has: a comparator that a  *)
(* shut-down test has left at its test threshold for ever.                 *)
DoorUnlocksUnlessTripped ==
    (<>repaired /\ []<>(diag.thr = "NORMAL")) => DoorUnlocks
================================================================================
