------------------------------ MODULE MotorPermit ------------------------------
(***************************************************************************)
(* What the safety manager promises, whatever its tests and timers do:     *)
(* who may drive the inverter and when the door may be released.           *)
(*                                                                         *)
(*   locked    nothing is known about the motor                            *)
(*   ready     it carries no current, a start would be considered          *)
(*   proving   a voltage is injected to prove the current sensing          *)
(*   testing   a start was accepted, the inverter is under test            *)
(*   driving   class A may be given the inverter                           *)
(*                                                                         *)
(* SafetyMgr implements this specification (SafetyMgr!Permit), and so does *)
(* SharedWords (SharedWords!WordsPermit).                                  *)
(***************************************************************************)

VARIABLES phase, unlock, access

vars == <<phase, unlock, access>>

Init ==
    /\ phase = "locked"
    /\ ~unlock
    /\ ~access

\* The motor was found at rest while nobody had access to the inverter.
Settle ==
    /\ phase = "locked"
    /\ ~access
    /\ phase' = "ready"
    /\ UNCHANGED <<unlock, access>>

Prove ==
    /\ phase = "ready"
    /\ ~unlock
    /\ phase' = "proving"
    /\ UNCHANGED <<unlock, access>>

\* The only step that releases the door.
Release ==
    /\ phase = "proving"
    /\ phase' = "ready"
    /\ unlock' = TRUE
    /\ UNCHANGED access

Start ==
    /\ phase = "ready"
    /\ phase' = "testing"
    /\ UNCHANGED <<unlock, access>>

\* The only way to the inverter; the door is locked in the same step.
Drive ==
    /\ phase = "testing"
    /\ phase' = "driving"
    /\ unlock' = FALSE
    /\ UNCHANGED access

\* A start given up: the door is locked, and all has to be proved again.
GiveUp ==
    /\ phase = "testing"
    /\ phase' = "locked"
    /\ unlock' = FALSE
    /\ UNCHANGED access

Grant ==
    /\ phase = "driving"
    /\ access' = TRUE
    /\ UNCHANGED <<phase, unlock>>

Revoke ==
    /\ access' = FALSE
    /\ UNCHANGED <<phase, unlock>>

\* A stop or an error.
Lock ==
    /\ phase' = "locked"
    /\ UNCHANGED <<unlock, access>>

\* The retry after an error.
Retry ==
    /\ phase = "locked"
    /\ unlock' = FALSE
    /\ UNCHANGED <<phase, access>>

Next ==
    \/ Settle
    \/ Prove
    \/ Release
    \/ Start
    \/ Drive
    \/ GiveUp
    \/ Grant
    \/ Revoke
    \/ Lock
    \/ Retry

Spec == Init /\ [][Next]_vars
--------------------------------------------------------------------------------
(* The door is never released while class A has the inverter.              *)
DoorExcludesAccess == ~(unlock /\ access)
================================================================================
