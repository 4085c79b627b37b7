----------------------------- MODULE MCSafetyBench -----------------------------
(***************************************************************************)
(* The safety of SafetyMgr, on two instances in one.  On the first, bench  *)
(* = "hardware", every part of the hardware may fail and the main loop may *)
(* be late; on the second, bench = "inputs", the hardware is in order, the *)
(* main loop is on time and every request, parameter set, bus voltage and  *)
(* phase current occurs.  All at once would multiply the two.              *)
(***************************************************************************)
EXTENDS SafetyMgr

VARIABLE bench

benchVars == <<vars, bench>>

Inputs == INSTANCE SafetyMgr WITH
              Failing <- {}, MaxPwmPerSlot <- MinPwmPerSlot,
              OneTime <- OneTime - 2, FailTimer <- FailTimer + 1,
              VbusLevels <- {"low", "ok", "high"},
              PhaseCurrents <- {"balanced", "unclear", "one_lost"},
              ParamsCrc <- BOOLEAN

BenchInit == Init /\ bench \in {"hardware", "inputs"}

BenchNext ==
    /\ UNCHANGED bench
    /\ \/ bench = "hardware" /\ Next
       \/ bench = "inputs" /\ Inputs!Next

BenchSpec == BenchInit /\ [][BenchNext]_benchVars
================================================================================
