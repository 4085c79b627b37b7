------------------------------ MODULE MCSafetyMgr ------------------------------
(***************************************************************************)
(* SafetyMgr on its own, against what two comments of the code say.  Every *)
(* constant gets its value in a .cfg, one per comment:                     *)
(*                                                                         *)
(*   MCSafetyReaction   what the error state does to the outputs           *)
(*   MCSafetyHwWait     the wait after a hardware fault                    *)
(*                                                                         *)
(* The safety of the component is checked in MCSafetyBench, its liveness   *)
(* in MCSafetyRepair.                                                      *)
(*                                                                         *)
(* The times keep their order and not their length; README.md names each   *)
(* bound and why the case it stands for still happens.                     *)
(***************************************************************************)
EXTENDS SafetyMgr
================================================================================
