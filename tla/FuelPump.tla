------------------------------- MODULE FuelPump -------------------------------
(***************************************************************************)
(* The fuel pump relay: primed by ECU::begin, then switched by             *)
(* ECU::updateFuelPump each cycle.  The two are guarded by different       *)
(* configuration flags.                                                    *)
(***************************************************************************)
EXTENDS Millis, Peripherals

CONSTANTS
    PrimeMs,           \* _fuelPumpPrimeMs
    BootTime,          \* millis() when ECU::begin runs
    SinceBootCap       \* bound of the history variable sinceBoot

ASSUME PumpAssumption ==
    /\ PrimeMs \in Nat /\ PrimeMs > 0
    /\ BootTime \in Time
    /\ SinceBootCap \in Nat

VARIABLES
    pumpPin,           \* level commanded on _pinFuelPump
    pumpRunning,       \* _fuelPumpRunning
    pumpPriming,       \* _fuelPumpPriming
    primeStart,        \* _fuelPumpPrimeStart
    sinceBoot,         \* history: time since begin()
    hasRun             \* history: the engine has run since begin()

pumpVars == <<pumpPin, pumpRunning, pumpPriming, primeStart, sinceBoot, hasRun>>

PumpTypeOK ==
    /\ {pumpPin, pumpRunning, pumpPriming, hasRun} \subseteq BOOLEAN
    /\ primeStart \in Time
    /\ sinceBoot \in 0 .. SinceBootCap

(* ECU::begin *)
PumpInit ==
    LET primes == SpiExpandersEnabled /\ Expander0Enabled
    IN  /\ pumpPin = primes
        /\ pumpRunning = primes
        /\ pumpPriming = primes
        /\ primeStart = IF primes THEN BootTime ELSE 0
        /\ sinceBoot = 0
        /\ hasRun = FALSE

-------------------------------------------------------------------------------
SwitchPump(on) == pumpPin' = on /\ pumpRunning' = on

(* Mutants: the end of the prime switches the pump off whatever the engine *)
(* does; the end of the prime leaves the relay to the next cycle.          *)
PrimeEndsOff(t, engineRunning) ==
    LET primed   == pumpPriming /\ Elapsed(t, primeStart) >= PrimeMs
        enabled  == I2cEnabled /\ Expander0Enabled
    IN  /\ IF enabled /\ primed THEN SwitchPump(FALSE)
           ELSE IF enabled /\ ~pumpPriming THEN SwitchPump(engineRunning)
           ELSE UNCHANGED <<pumpPin, pumpRunning>>
        /\ pumpPriming' = (pumpPriming /\ ~(enabled /\ primed))
        /\ UNCHANGED primeStart

PrimeEndsLate(t, engineRunning) ==
    LET primed   == pumpPriming /\ Elapsed(t, primeStart) >= PrimeMs
        enabled  == I2cEnabled /\ Expander0Enabled
    IN  /\ IF enabled /\ ~pumpPriming THEN SwitchPump(engineRunning)
                                      ELSE UNCHANGED <<pumpPin, pumpRunning>>
        /\ pumpPriming' = (pumpPriming /\ ~(enabled /\ primed))
        /\ UNCHANGED primeStart

(* ECU::updateFuelPump at time t *)
UpdateFuelPump(t, engineRunning) ==
    LET primed   == pumpPriming /\ Elapsed(t, primeStart) >= PrimeMs
        enabled  == I2cEnabled /\ Expander0Enabled
        switched == IF pumpPriming THEN primed /\ ~engineRunning
                                   ELSE engineRunning # pumpRunning
    IN  /\ IF enabled /\ switched THEN SwitchPump(engineRunning)
                                  ELSE UNCHANGED <<pumpPin, pumpRunning>>
        /\ pumpPriming' = (pumpPriming /\ ~(enabled /\ primed))
        /\ UNCHANGED primeStart

TrackBoot(step, engineRunning) ==
    /\ sinceBoot' = Least(sinceBoot + step, SinceBootCap)
    /\ hasRun' = (hasRun \/ engineRunning)
===============================================================================
