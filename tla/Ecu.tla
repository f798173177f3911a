--------------------------------- MODULE Ecu ----------------------------------
(***************************************************************************)
(* The 10 ms control cycle of ESP-ECU, ECU::update, composed of the fault  *)
(* rules, limp mode and the fuel pump.  The cycle is one task of a         *)
(* cooperative scheduler, so it is one step; what runs between two cycles  *)
(* (other tasks of that scheduler, which may delay it, and the web server, *)
(* which rewrites rules) appears as the time that has passed and as steps  *)
(* of its own.                                                             *)
(*                                                                         *)
(* The order of the calls matters and is kept: the rules see the run state *)
(* and the rpm of the cycle before; the pump sees this cycle's; the CLT    *)
(* rev limit is set before limp mode is decided; the advance is capped     *)
(* after it.                                                               *)
(***************************************************************************)
EXTENDS FaultRules, LimpMode, FuelPump

CONSTANTS
    Rpms,         \* the engine speeds CrankSensor::getRpm may return
    MaxGap,       \* the longest time from the end of a cycle to the next one
    MaxWork       \* the longest time within a cycle, between its clock reads

ASSUME EcuAssumption ==
    /\ Rpms \subseteq Nat
    /\ MaxGap \in Nat /\ MaxWork \in Nat
    /\ RecoveryMs + MaxGap + MaxWork < Wrap
    /\ Bits \subseteq FaultBits
    /\ RecoveryMs + MaxGap + MaxWork <= CleanCap

VARIABLES
    now,          \* millis() at the end of the last cycle
    rpm           \* EngineState::rpm

ecuVars == <<rulesVars, limpVars, pumpVars, now, rpm>>

Running(speed) == speed >= 400

TypeOK ==
    /\ RulesTypeOK
    /\ LimpTypeOK
    /\ PumpTypeOK
    /\ now \in Time
    /\ rpm \in Rpms \cup {0}

Init ==
    /\ RulesInit
    /\ LimpInit
    /\ PumpInit
    /\ now = BootTime
    /\ rpm = 0

-------------------------------------------------------------------------------
(* The mask checkLimpMode works on. *)
FaultsNow(ruleFaults, expander) == ruleFaults \cup (IF expander THEN {ExpanderFault} ELSE {})

(* Evaluation of the rules, at the start of a cycle of the given length.   *)
SenseFaults(start, step, work) ==
    \E mix \in Mixes :
        \E on \in TriggerSets(Rules \ (skipped \cup DOMAIN mix), rpm) :
            /\ EvaluateRules(start, on, mix)
            /\ TrackHeld(step, work, on, mix)

(* The rest of the cycle, up to its end; speed, limit and advance are what *)
(* the crank, the coolant and the fuel calculation supply.                 *)
Control(end, step, speed, limit, advance) ==
    LET faults == FaultsNow(sensorLimpFaults', expanderFaulty')
    IN  /\ rpm' = speed
        /\ UpdateFuelPump(end, Running(speed))
        /\ CheckExpanderHealth
        /\ CheckLimpMode(end, faults, sensorCelFaults', limit)
        /\ PushAdvance(advance, limpActive')
        /\ now' = end
        /\ TrackClean(step, faults)
        /\ TrackBoot(step, Running(speed))

(* ECU::update, gap milliseconds after the last cycle ended and work       *)
(* milliseconds long.                                                      *)
Cycle(gap, work) ==
    LET start == Later(now, gap)
    IN  /\ SenseFaults(start, gap + work, work)
        /\ \E speed \in Rpms, limit \in LimitsBeforeLimpCheck, advance \in Advances :
              Control(Later(start, work), gap + work, speed, limit, advance)

(* POST /config with a "rules" or a "sensors" array, handled on the web    *)
(* server's task.                                                          *)
WebConfig ==
    /\ \E r \in Edited : ResetRule(r) \/ MixLeaves(r, now, MaxWork) \/ SwitchSource(r)
    /\ UNCHANGED <<limpVars, pumpVars, now, rpm>>

Next ==
    \/ \E gap \in 0 .. MaxGap, work \in 0 .. MaxWork : Cycle(gap, work)
    \/ WebConfig

Spec == Init /\ [][Next]_ecuVars

(* The scheduler keeps calling the task, and time goes by. *)
FairSpec == Spec /\ WF_ecuVars(\E gap \in 1 .. MaxGap, work \in 0 .. MaxWork : Cycle(gap, work))

-------------------------------------------------------------------------------
(* While limp mode is on, all of its protections are: the rev limit is the *)
(* limp limit, the advance given to the coils is capped, the transmission  *)
(* limps and, where the lamp can be driven, it is lit.  The CLT limit, the *)
(* calculated advance and the limp decision are made in one cycle, in an   *)
(* order that has to be right on the very cycle that enters limp mode      *)
(* (ECU.cpp:457-483).                                                      *)
LimpProtects ==
    limpActive =>
        /\ revLimit = LimpRevLimit
        /\ ignAdvance <= LimpAdvanceCap
        /\ transLimp = HasTrans
        /\ I2cEnabled /\ Expander0Enabled => celPin

NormalLimits == {ConfigRevLimit} \cup { Least(c, ConfigRevLimit) : c \in CltRevLimits }

(* However often faults come and go, the limit saved on entry is a normal  *)
(* one and it is what the engine gets back (ECU.cpp:517-518, 535): the     *)
(* limp limit must never be saved over it.                                 *)
RevLimitSurvivesLimp ==
    /\ limpActive => normalRevLimit \in NormalLimits
    /\ ~limpActive => revLimit \in NormalLimits

(* "All faults must clear for a configurable recovery delay" (README.md):  *)
(* no step leaves limp mode unless every check for RecoveryMs of real time *)
(* found no fault, wherever the 32-bit clock wraps.                        *)
LimpEndsOnlyAfterRecovery ==
    [][limpActive /\ ~limpActive' => ~dirty' /\ cleanFor' >= RecoveryMs]_ecuVars

MaxStep == MaxGap + MaxWork

(* And it does not last longer than it must: by the time the checks have   *)
(* been clean for one cycle more than the recovery delay limp mode is      *)
(* over.  The extra cycle is the one lost when the clock reads 0, which    *)
(* _limpRecoveryStart uses to say "not running".                           *)
LimpEndsInTime == cleanFor >= RecoveryMs + MaxStep => ~limpActive

(* A rule is active only when, for its debounce time, no evaluation has    *)
(* found its condition untrue (SensorManager.cpp:500-577), unless the      *)
(* latest reset of the rule met an evaluation.  Time in which the sensor   *)
(* was switched off counts: its rule was not looked at.                    *)
FaultRaisedOnlyAfterDebounce ==
    \A r \in Rules : ruleActive[r] /\ seenFor[r] # Mixed => seenFor[r] >= Rule[r].debounceMs

CausesLimp(r) == Rule[r].action \in {"limp", "shutdown"}

(* The longest a rule can have been held before its bit is set: the        *)
(* debounce, a cycle to notice, and one lost when the clock reads 0.       *)
NoticeBy(r) == Rule[r].debounceMs + MaxStep + MaxWork

(* A limp condition that has held for its debounce time keeps the engine   *)
(* in limp mode for as long as it holds.  The bit itself does not last:    *)
(* `now - debounceStart' starts over every 49.7 days and the bit goes out  *)
(* for debounceMs; only a recovery delay longer than the debounce bridges  *)
(* the hole.                                                               *)
HeldFaultKeepsLimp ==
    \A r \in Rules : CausesLimp(r) /\ heldFor[r] >= NoticeBy(r) => limpActive

(* After the prime the pump runs exactly when the engine does.             *)
PumpFollowsEngine ==
    I2cEnabled /\ Expander0Enabled /\ ~pumpPriming => pumpPin = Running(rpm)

(* "Fuel pump relay -- prime on startup, then off until engine runs"       *)
(* (ECU.cpp:322).                                                          *)
PumpOffUntilEngineRuns == sinceBoot >= PrimeMs /\ ~hasRun => ~pumpPin

(* Limp mode is not a trap: if from some moment on no check finds a fault, *)
(* the engine leaves limp mode for good.                                   *)
LimpEventuallyEnds == <>[]~dirty => <>[]~limpActive

(* The whole cycle, seen by the driver, is the abstract promise. *)
Limp == INSTANCE LimpSpec WITH
            limp <- limpActive, faulty <- dirty, LeaveBy <- RecoveryMs + MaxStep

(* Limp mode implements the promise of LimpSpec. *)
LimpKeepsPromise == Limp!Spec
===============================================================================
