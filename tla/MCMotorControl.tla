---------------------------- MODULE MCMotorControl -----------------------------
(***************************************************************************)
(* The instance of MotorControl that TLC checks: class B with the shortest *)
(* self tests and little that fails, so that the interleavings of class A, *)
(* the loader and the commanders stay within reach.                        *)
(*                                                                         *)
(*   MCMotorControl      every commander, safety and the refinement        *)
(*   MCMotorControlEnds  the tool alone, under fair scheduling             *)
(*   MCMotorControlStop  what the comment on Mci__Stop says                *)
(***************************************************************************)
EXTENDS MotorControl
================================================================================
