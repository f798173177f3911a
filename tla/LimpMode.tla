------------------------------- MODULE LimpMode -------------------------------
(***************************************************************************)
(* ECU::checkLimpMode and what feeds it: limp mode is entered in the cycle *)
(* that finds a fault, and left when no cycle has found one for            *)
(* _limpRecoveryMs.  While it lasts the rev limit is _limpRevLimit, the    *)
(* spark advance is capped and the transmission is told to limp.           *)
(***************************************************************************)
EXTENDS Millis, Peripherals

CONSTANTS
    RecoveryMs,        \* _limpRecoveryMs
    LimpRevLimit,      \* _limpRevLimit
    ConfigRevLimit,    \* IgnitionManager::_configRevLimit
    CltRevLimits,      \* the values of the CLT rev-limit table
    LimpAdvanceCap,    \* _limpAdvanceCap, degrees
    Advances,          \* the advances FuelManager may calculate
    ExpanderFault,     \* FAULT_EXPANDER
    FaultBits,         \* every bit of the 8-bit fault masks
    HealthPeriod,      \* cycles between two expander health checks (100)
    HasTrans,          \* _trans # nullptr
    CleanCap           \* bound of the history variable cleanFor

ASSUME LimpAssumption ==
    /\ RecoveryMs \in Nat /\ RecoveryMs > 0
    /\ LimpRevLimit \in Nat /\ ConfigRevLimit \in Nat
    /\ CltRevLimits \subseteq Nat
    /\ LimpAdvanceCap \in Int /\ LimpAdvanceCap >= -10
    /\ Advances \subseteq Int
    /\ ExpanderFault \in FaultBits
    /\ HealthPeriod \in Nat /\ HealthPeriod > 0
    /\ HasTrans \in BOOLEAN
    /\ CleanCap \in Nat

VARIABLES
    limpActive,        \* _limpActive
    limpFaults,        \* _limpFaults, as a set of bits
    recoveryStart,     \* _limpRecoveryStart, 0: not running
    normalRevLimit,    \* _normalRevLimit, saved on entry
    revLimit,          \* IgnitionManager::_revLimit
    ignAdvance,        \* IgnitionManager::_advance
    transLimp,         \* TransmissionManager's limp flag
    celPin,            \* level commanded on _pinCel
    healthCounter,     \* _expanderHealthCounter
    expanderFaulty,    \* _expanderFaults # 0
    dirty,             \* history: the last check found a fault
    cleanFor           \* history: time since the first of the clean checks

limpVars == <<limpActive, limpFaults, recoveryStart, normalRevLimit, revLimit, ignAdvance,
              transLimp, celPin, healthCounter, expanderFaulty, dirty, cleanFor>>

LimpTypeOK ==
    /\ limpActive \in BOOLEAN
    /\ limpFaults \subseteq FaultBits
    /\ recoveryStart \in Time
    /\ normalRevLimit \in Nat /\ revLimit \in Nat
    /\ ignAdvance \in Int
    /\ transLimp \in BOOLEAN /\ celPin \in BOOLEAN
    /\ healthCounter \in 0 .. HealthPeriod - 1
    /\ expanderFaulty \in BOOLEAN
    /\ dirty \in BOOLEAN
    /\ cleanFor \in 0 .. CleanCap

(* The member initialisers of ECU.h and the limit set by ECU::configure. *)
LimpInit ==
    /\ limpActive = FALSE
    /\ limpFaults = {}
    /\ recoveryStart = 0
    /\ normalRevLimit = 6000
    /\ revLimit = ConfigRevLimit
    /\ ignAdvance = 10
    /\ transLimp = FALSE
    /\ celPin = FALSE
    /\ healthCounter = 0
    /\ expanderFaulty = FALSE
    /\ dirty = FALSE
    /\ cleanFor = 0

-------------------------------------------------------------------------------
(* Mutant: the cycle counter is not reset. *)
HealthCounterRunsOn ==
    /\ healthCounter' = healthCounter + 1
    /\ IF healthCounter + 1 >= HealthPeriod THEN expanderFaulty' \in BOOLEAN
                                            ELSE UNCHANGED expanderFaulty

(* Every HealthPeriod-th cycle reads IOCON back from the expanders. *)
CheckExpanderHealth ==
    \/ /\ healthCounter + 1 < HealthPeriod
       /\ healthCounter' = healthCounter + 1
       /\ UNCHANGED expanderFaulty
    \/ /\ healthCounter + 1 >= HealthPeriod
       /\ healthCounter' = 0
       /\ expanderFaulty' \in BOOLEAN

(* Mutant: the CLT limit is set in limp mode too. *)
CltLimitAlways == { Least(c, ConfigRevLimit) : c \in CltRevLimits }

(* The rev limits that may be in force when the cycle reaches              *)
(* checkLimpMode: outside limp mode the CLT table has just set it.         *)
LimitsBeforeLimpCheck ==
    IF limpActive THEN {revLimit} ELSE { Least(c, ConfigRevLimit) : c \in CltRevLimits }

EnterLimp(faults, limit) ==
    /\ faults # {}
    /\ ~limpActive
    /\ limpActive' = TRUE
    /\ normalRevLimit' = limit
    /\ revLimit' = LimpRevLimit
    /\ transLimp' = HasTrans
    /\ limpFaults' = faults
    /\ recoveryStart' = 0

(* Mutants: every faulty cycle saves the rev limit; only the cycle that    *)
(* enters limp mode clears the recovery timer.                             *)
StayInLimpSaving(faults, limit) ==
    /\ faults # {}
    /\ limpActive
    /\ limpFaults' = faults
    /\ recoveryStart' = 0
    /\ normalRevLimit' = limit
    /\ revLimit' = limit
    /\ UNCHANGED <<limpActive, transLimp>>

StayInLimpTiming(faults, limit) ==
    /\ faults # {}
    /\ limpActive
    /\ limpFaults' = faults
    /\ revLimit' = limit
    /\ UNCHANGED <<limpActive, recoveryStart, normalRevLimit, transLimp>>

StayInLimp(faults, limit) ==
    /\ faults # {}
    /\ limpActive
    /\ limpFaults' = faults
    /\ recoveryStart' = 0
    /\ revLimit' = limit
    /\ UNCHANGED <<limpActive, normalRevLimit, transLimp>>

StartRecovery(t, faults, limit) ==
    /\ faults = {}
    /\ limpActive /\ recoveryStart = 0
    /\ recoveryStart' = t
    /\ revLimit' = limit
    /\ UNCHANGED <<limpActive, limpFaults, normalRevLimit, transLimp>>

(* Mutant: every clean cycle starts the recovery timer again. *)
AwaitRecoveryAnew(t, faults, limit) ==
    /\ faults = {}
    /\ limpActive /\ recoveryStart # 0
    /\ Elapsed(t, recoveryStart) < RecoveryMs
    /\ recoveryStart' = t
    /\ revLimit' = limit
    /\ UNCHANGED <<limpActive, limpFaults, normalRevLimit, transLimp>>

AwaitRecovery(t, faults, limit) ==
    /\ faults = {}
    /\ limpActive /\ recoveryStart # 0
    /\ Elapsed(t, recoveryStart) < RecoveryMs
    /\ revLimit' = limit
    /\ UNCHANGED <<limpActive, limpFaults, recoveryStart, normalRevLimit, transLimp>>

(* The recovery timer is left as it is; the next fault clears it. *)
ExitLimp(t, faults) ==
    /\ faults = {}
    /\ limpActive /\ recoveryStart # 0
    /\ Elapsed(t, recoveryStart) >= RecoveryMs
    /\ limpActive' = FALSE
    /\ limpFaults' = {}
    /\ revLimit' = normalRevLimit
    /\ transLimp' = FALSE
    /\ UNCHANGED <<recoveryStart, normalRevLimit>>

NoLimp(faults, limit) ==
    /\ faults = {}
    /\ ~limpActive
    /\ revLimit' = limit
    /\ UNCHANGED <<limpActive, limpFaults, recoveryStart, normalRevLimit, transLimp>>

(* ECU::checkLimpMode at time t: the limp decision, then the CEL, which    *)
(* sits on the expander and is only written when I2C is enabled as well.   *)
CheckLimpMode(t, faults, cel, limit) ==
    /\ \/ EnterLimp(faults, limit)
       \/ StayInLimp(faults, limit)
       \/ StartRecovery(t, faults, limit)
       \/ AwaitRecovery(t, faults, limit)
       \/ ExitLimp(t, faults)
       \/ NoLimp(faults, limit)
    /\ celPin' = IF I2cEnabled /\ Expander0Enabled THEN limpActive' \/ cel # {} ELSE celPin

(* FuelManager's advance, constrained when limp mode is on by now. *)
PushAdvance(advance, limp) ==
    ignAdvance' = IF ~limp THEN advance
                  ELSE IF advance > LimpAdvanceCap THEN LimpAdvanceCap
                  ELSE IF advance < -10 THEN -10 ELSE advance

(* History: how long the checks have been finding no fault. *)
TrackClean(step, faults) ==
    /\ dirty' = (faults # {})
    /\ cleanFor' = IF faults # {} \/ dirty THEN 0 ELSE Least(cleanFor + step, CleanCap)
===============================================================================
