--------------------------------- MODULE Cj125 ---------------------------------
(***************************************************************************)
(* The controller of the two wideband O2 probes, CJ125Controller.  Every   *)
(* Decimation-th ECU cycle is a round, and in a round each bank takes one  *)
(* step of its heater's state machine: wait for power, calibrate, dry the  *)
(* probe at low voltage (condensation), ramp the voltage up, regulate.     *)
(*                                                                         *)
(* The heater's duty is abstracted to "off", "low" (CONDENSATION_VOLTAGE)  *)
(* and "high" (the ramp's voltages and what the PID asks for); readings    *)
(* are left out.  The 50 ms calibration waits are part of the time to the  *)
(* next cycle: the time a bank counts from was taken before them.          *)
(***************************************************************************)
EXTENDS Millis

CONSTANTS
    Banks,
    Decimation,     \* ECU cycles to a round
    CondensationMs, \* CONDENSATION_DURATION_MS
    RampSteps,      \* rounds from RAMP_START_VOLTAGE to RAMP_END_VOLTAGE
    LowCap          \* the bound on lowFor

ASSUME Cj125Assumption ==
    /\ Decimation \in Nat \ {0} /\ RampSteps \in Nat \ {0} /\ LowCap \in Nat
    /\ CondensationMs \in Time

VARIABLES
    decimation,     \* _decimationCount
    bank,           \* of each bank: heaterState; stateStartMs, 0 in the states that
                    \* do not look at it; the steps of the ramp taken, 0 outside it
    heater,         \* what each heater is driven with
    \* what has really happened, for the properties
    lowFor          \* how long each heater has been driven "low" since it was last
                    \* "off", up to LowCap

cjVars == <<decimation, bank, heater, lowFor>>

HeaterState == {"WAIT_POWER", "CALIBRATING", "CONDENSATION", "RAMP_UP", "PID", "ERROR"}

BankState == [state : HeaterState, start : Time, ramp : 0 .. RampSteps - 1]

Cj125TypeOK ==
    /\ decimation \in 0 .. Decimation - 1
    /\ bank \in [Banks -> BankState]
    /\ heater \in [Banks -> {"off", "low", "high"}]
    /\ lowFor \in [Banks -> 0 .. LowCap]

CjInit ==
    /\ decimation = 0
    /\ bank = [b \in Banks |-> [state |-> "WAIT_POWER", start |-> 0, ramp |-> 0]]
    /\ heater = [b \in Banks |-> "off"]
    /\ lowFor = [b \in Banks |-> 0]

Ready(b) == bank[b].state = "PID"

-------------------------------------------------------------------------------
(* One step of a bank in a round at time t: the bank and the heater's drive *)
(* that come of it.                                                         *)
In(state) == [state |-> state, start |-> 0, ramp |-> 0]

WaitPower(b, powered) == <<IF powered THEN In("CALIBRATING") ELSE bank[b], heater[b]>>

(* A mutant: the time of the state is not taken. *)
CalibrateUntimed(b, t) == <<In("CONDENSATION"), heater[b]>>

Calibrate(b, t) == <<[In("CONDENSATION") EXCEPT !.start = t], heater[b]>>

(* A mutant: the time begins again in every round. *)
CondenseAnew(b, t) ==
    <<IF Elapsed(t, bank[b].start) >= CondensationMs THEN In("RAMP_UP")
      ELSE [bank[b] EXCEPT !.start = t], "low">>

(* The time runs from the calibration, not from when the heater is first on. *)
Condense(b, t) ==
    <<IF Elapsed(t, bank[b].start) >= CondensationMs THEN In("RAMP_UP") ELSE bank[b], "low">>

RampUp(b) ==
    LET ramp == bank[b].ramp + 1
    IN  <<IF ramp = RampSteps THEN In("PID") ELSE [bank[b] EXCEPT !.ramp = ramp], "high">>

(* A bad diagnosis switches the heater off for good. *)
Regulate(b, bad) == IF bad THEN <<In("ERROR"), "off">> ELSE <<bank[b], "high">>

UpdateBank(b, t, powered, bad) ==
    CASE bank[b].state = "WAIT_POWER"   -> WaitPower(b, powered)
      [] bank[b].state = "CALIBRATING"  -> Calibrate(b, t)
      [] bank[b].state = "CONDENSATION" -> Condense(b, t)
      [] bank[b].state = "RAMP_UP"      -> RampUp(b)
      [] bank[b].state = "PID"          -> Regulate(b, bad)
      [] bank[b].state = "ERROR"        -> <<bank[b], "off">>

(* A round at time t; the battery is up to MIN_BATTERY_VOLTAGE if `powered', *)
(* and `bad' are the banks that find a bad diagnosis.                        *)
Round(t) ==
    \E powered \in BOOLEAN, bad \in SUBSET { b \in Banks : Ready(b) } :
        /\ bank' = [b \in Banks |-> UpdateBank(b, t, powered, b \in bad)[1]]
        /\ heater' = [b \in Banks |-> UpdateBank(b, t, powered, b \in bad)[2]]

(* update() in an ECU cycle at time t, d after the one before. *)
UpdateCj125(t, d) ==
    /\ decimation' = (decimation + 1) % Decimation
    /\ IF decimation' = 0 THEN Round(t) ELSE UNCHANGED <<bank, heater>>
    /\ lowFor' = [b \in Banks |->
                    CASE heater[b] = "off"  -> 0
                      [] heater[b] = "low"  -> Least(lowFor[b] + d, LowCap)
                      [] heater[b] = "high" -> lowFor[b]]
===============================================================================
