------------------------------- MODULE SurgeRelay -------------------------------
(***************************************************************************)
(* The surge relay (Hbl/Mci/SurgeRelay/SurgeRelay.c): it bridges the       *)
(* resistor that charges the DC bus, once the bus is up and steady, and    *)
(* Mci.c lets no motor start before.  The handler runs with every eighth   *)
(* call of the 25 ms slot, 200 ms apart: one action here.  The board that  *)
(* is selected does not ask the safety channel (SRAPI20_CHECK is TRUE).    *)
(*                                                                         *)
(* A voltage is a small number; the bus does what it likes until it is     *)
(* steady, and stays where it is from then on.                             *)
(***************************************************************************)
EXTENDS Naturals

CONSTANTS
    OpenVoltage,    \* VBUS_RELAY_OPEN_VOLTAGE (140)
    MinWait,        \* VBUS_RELAY_MIN_WAIT_VOLTAGE (200)
    CloseVoltage,   \* VBUS_RELAY_CLOSE_VOLTAGE (200)
    Tolerance,      \* VBUS_DV_DT: 12 V/s over 200 ms, 2 in whole numbers
    MaxVoltage      \* the highest reading of the bus

ASSUME RelayConstants ==
    /\ {OpenVoltage, MinWait, CloseVoltage, Tolerance, MaxVoltage} \subseteq Nat
    /\ OpenVoltage <= MinWait /\ MinWait <= CloseVoltage /\ CloseVoltage < MaxVoltage

VARIABLES
    surge,      \* Surge_State
    previous,   \* Bus_Voltage_Previous
    relay,      \* what the relay's pin was last set to
    bus,        \* the voltage of the bus
    steady      \* the bus stays at its voltage from now on

relayVars == <<surge, previous, relay, bus, steady>>

RelayTypeOK ==
    /\ surge \in {"WAITING", "CLOSE", "OPEN", "MANUAL_MODE"}
    /\ previous \in 0..MaxVoltage
    /\ relay \in {"open", "closed"}
    /\ bus \in 0..MaxVoltage
    /\ steady \in BOOLEAN

(* SurgeRelay__Initialize.                                                 *)
RelayInit ==
    /\ surge = "WAITING"
    /\ previous = 0
    /\ relay = "open"
    /\ bus = 0
    /\ steady = FALSE

\* IsdVbusdtStable.
Distance(v, w) == IF v >= w THEN v - w ELSE w - v
Stable(v) == Distance(v, previous) <= Tolerance

\* Faulty variant: the sample that comes next is compared with the first.
BadNoted(v) == IF previous = 0 THEN v ELSE previous

Noted(v) == v

(* SurgeRelay__25msHandler reads the bus, and IsdVbusdtStable once more:   *)
(* the PWM interrupt measures it in between.                               *)
Waiting(again) ==
    /\ surge = "WAITING"
    /\ bus' = again
    /\ previous' = Noted(again)
    /\ IF Stable(again) /\ bus >= MinWait
       THEN surge' = "CLOSE" /\ relay' = "closed"
       ELSE UNCHANGED <<surge, relay>>

Closed ==
    /\ surge = "CLOSE"
    /\ IF bus < OpenVoltage
       THEN surge' = "OPEN" /\ relay' = "open"
       ELSE relay' = "closed" /\ UNCHANGED surge
    /\ UNCHANGED <<previous, bus>>

Open ==
    /\ surge = "OPEN"
    /\ surge' = IF bus > CloseVoltage THEN "WAITING" ELSE surge
    /\ UNCHANGED <<previous, relay, bus>>

RelayHandler ==
    /\ \/ \E again \in IF steady THEN {bus} ELSE 0..MaxVoltage : Waiting(again)
       \/ Closed
       \/ Open
    /\ UNCHANGED steady

(* SurgeRelay__Action, from the functional test.                           *)
RelayAction(action) ==
    /\ CASE action = "OPEN"   -> surge' = "MANUAL_MODE" /\ relay' = "open"
         [] action = "CLOSE"  -> surge' = "MANUAL_MODE" /\ relay' = "closed"
         [] action = "NORMAL" -> /\ surge = "MANUAL_MODE"
                                 /\ surge' = "WAITING" /\ relay' = "open"
    /\ UNCHANGED <<previous, bus, steady>>

(* The bus moves, and is steady in the end.                                *)
BusMoves == ~steady /\ bus' \in 0..MaxVoltage /\ UNCHANGED <<surge, previous, relay, steady>>
BusSteady == ~steady /\ steady' = TRUE /\ UNCHANGED <<surge, previous, relay, bus>>

RelayNext ==
    \/ RelayHandler
    \/ \E action \in {"OPEN", "CLOSE", "NORMAL"} : RelayAction(action)
    \/ BusMoves
    \/ BusSteady

\* SurgeRelay__IsBusReady.
BusReady == surge \in {"CLOSE", "MANUAL_MODE"}

(* Wherever a dip, a functional test or the sample of an earlier time left *)
(* the machine: once the bus is steady above the closing voltage and no    *)
(* test holds the relay any more, the bus is ready, with the relay closed. *)
BusReadyComes ==
    <>[](steady /\ bus > CloseVoltage /\ surge # "MANUAL_MODE")
        => <>[](BusReady /\ relay = "closed")
================================================================================
