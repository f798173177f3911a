-------------------------------- MODULE Mixture --------------------------------
(***************************************************************************)
(* The part of the ECU cycle (ECU::update) that makes the mixture: the     *)
(* sensors take the air-fuel ratio of each bank, the wideband controller   *)
(* runs, and the fuel calculation uses what they have read.  Wideband is   *)
(* enabled, with its expander and its converter.                           *)
(***************************************************************************)
EXTENDS Cj125, Fuel

CONSTANT ActiveStates   \* activeStates of the two O2 sensors

VARIABLES
    now,            \* millis()
    engine,         \* what the last cycle found the engine to do
    afrFrom         \* what the air-fuel ratio of each bank was last read from

mixtureVars == <<now, engine, cjVars, fuelVars, afrFrom>>

EngineStates == {"stopped", "cranking", "running"}

ASSUME MixtureAssumption ==
    /\ MaxGap > 0 /\ LowCap >= CondensationMs
    /\ ActiveStates \subseteq EngineStates

MixtureTypeOK ==
    /\ Cj125TypeOK /\ FuelTypeOK
    /\ now \in Time /\ engine \in EngineStates
    /\ afrFrom \in [Banks -> {"wideband", "analog", "nothing"}]

MixtureInit ==
    /\ now = 0 /\ engine = "stopped" /\ CjInit /\ FuelInit
    /\ afrFrom = [b \in Banks |-> "analog"]

(* SensorManager::update, before the cycle looks at the engine: the value  *)
(* is 0 if the sensor is not active in the state the engine was found in   *)
(* last, or the probe's of a bank that is ready; otherwise the voltage at  *)
(* the pin, which is the controller's output all the same, read as that of *)
(* a plain 0-5 V probe.                                                    *)
ReadAfr ==
    afrFrom' = [b \in Banks |-> IF engine \notin ActiveStates THEN "nothing"
                               ELSE IF Ready(b) THEN "wideband" ELSE "analog"]

(* One ECU cycle, d after the one before. *)
Update(d, e) ==
    /\ now' = Later(now, d)
    /\ ReadAfr
    /\ engine' = e.engine
    /\ UpdateCj125(now', d)
    /\ UpdateFuel(now', d, e)

MixtureNext == \E d \in 1 .. MaxGap, e \in Reading : Update(d, e)

MixtureSpec == MixtureInit /\ [][MixtureNext]_mixtureVars

(* The scheduler keeps running the cycle. *)
MixtureFairSpec == MixtureSpec /\ WF_mixtureVars(MixtureNext)

-------------------------------------------------------------------------------
(* A heater is not driven above the condensation voltage before it has     *)
(* been on at that voltage for CONDENSATION_DURATION_MS (README.md:190),   *)
(* but for the jitter of a round: the time runs from the calibration       *)
(* (CJ125Controller.cpp:176), so that a cycle that comes late right after  *)
(* it shortens the drying by as much.                                      *)
CondensationLasts ==
    \A b \in Banks : heater[b] = "high" =>
        lowFor[b] + Decimation * MaxGap >= CondensationMs + Decimation

(* No bank hangs in the middle of its warm-up: it waits for power for ever, *)
(* or gets to regulation, and there or in the error state it stays          *)
(* (CJ125Controller.cpp:139).                                               *)
BanksSettle ==
    \A b \in Banks : \/ <>[](bank[b].state = "WAIT_POWER")
                     \/ <>[](bank[b].state \in {"PID", "ERROR"})

(* Fuel is cut only after DfcoDelayMs in which every cycle found overrun   *)
(* (those that found the engine cranking aside), across the wrap of        *)
(* millis(), and not any more once a cycle has found the condition to end  *)
(* the cut (FuelManager.cpp:131-145).                                      *)
FuelCutIsEarned == pulse = "cut" => overrun = DfcoDelayMs

(* The after-start enrichment is over AseMs after the engine began to run, *)
(* whatever the coolant sensor reads meanwhile and however often the       *)
(* engine stops and cranks again (FuelManager.cpp:67, 103).                *)
EnrichmentEnds == ase.active => sinceRun < AseMs + MaxGap

(* The closed loop corrects by the wideband probes: "When disabled,        *)
(* SensorManager falls back to linear 0-5V" (README.md:185), and readings  *)
(* are valid in the PID state (README.md:191).                             *)
ClosedLoopReadsProbe == corrected => \A b \in Banks : afrFrom[b] = "wideband"
===============================================================================
