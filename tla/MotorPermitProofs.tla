--------------------------- MODULE MotorPermitProofs ---------------------------
(***************************************************************************)
(* The abstract specification keeps its own promise.  With ImplementsPermit*)
(* (SafetyMgrProofs) the promise carries over to the safety manager.       *)
(***************************************************************************)
EXTENDS MotorPermit, TLAPS

(* The inductive invariant: the inverter is given out in "driving", where  *)
(* the door is locked, and an access that outlives that phase is found in  *)
(* "locked" only.                                                          *)
PermitInv ==
    /\ access => phase \in {"driving", "locked"} /\ ~unlock
    /\ unlock => phase # "driving"

(* The door is never released while class A has the inverter.              *)
THEOREM DoorSafety == Spec => []DoorExcludesAccess
<1>1. Init => PermitInv
  BY DEF Init, PermitInv
<1>2. PermitInv /\ [Next]_vars => PermitInv'
  <2> SUFFICES ASSUME PermitInv, [Next]_vars PROVE PermitInv'
    OBVIOUS
  <2>1. CASE Settle \/ Prove \/ Release
    BY <2>1 DEF PermitInv, Settle, Prove, Release
  <2>2. CASE Start \/ Drive \/ GiveUp
    BY <2>2 DEF PermitInv, Start, Drive, GiveUp
  <2>3. CASE Grant \/ Revoke
    BY <2>3 DEF PermitInv, Grant, Revoke
  <2>4. CASE Lock \/ Retry
    BY <2>4 DEF PermitInv, Lock, Retry
  <2>5. CASE UNCHANGED vars
    BY <2>5 DEF PermitInv, vars
  <2> QED
    BY <2>1, <2>2, <2>3, <2>4, <2>5 DEF Next
<1>3. PermitInv => DoorExcludesAccess
  BY DEF PermitInv, DoorExcludesAccess
<1> QED
  BY <1>1, <1>2, <1>3, PTL DEF Spec
================================================================================
