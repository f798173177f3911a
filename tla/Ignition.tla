-------------------------------- MODULE Ignition ------------------------------
(***************************************************************************)
(* IgnitionManager::update: given a speed and a tooth position, start to   *)
(* charge a coil when the crank is at its dwell angle, fire it at its      *)
(* spark angle, and let go of it when it has been charging for too long.   *)
(*                                                                         *)
(* Angles are in half teeth, a revolution is FullTurn of them; a crank     *)
(* position is "in the window" of an angle for a tooth and a half after    *)
(* it, which is what the code tests instead of equality.                   *)
(***************************************************************************)
EXTENDS Integers

CONSTANTS
    Cylinders,      \* _numCylinders
    FullTurn,       \* 360 degrees
    Advance,        \* _advanceDeg
    Dwell,          \* _dwellMs, in slots' worth of time
    MaxDwell,       \* _maxDwellMs, in slots' worth of time
    RatedSpeed,     \* the rpm at which a slot takes its worth of time
    ChargeCap       \* bound of chargedFor

Cyls == 0 .. Cylinders - 1      \* in firing order, which is taken to be 1, 2, ...

ASSUME IgnitionAssumption ==
    /\ Cylinders \in Nat \ {0}
    /\ FullTurn \in Nat \ {0} /\ (2 * FullTurn) % Cylinders = 0
    /\ Advance \in Int
    /\ RatedSpeed \in Nat \ {0} /\ Dwell \in Nat
    /\ MaxDwell \in Nat /\ ChargeCap \in Nat /\ ChargeCap > MaxDwell

VARIABLES
    charging,       \* _coilState[c].charging, which is also the level of its pin
    chargedFor,     \* nowUs - _coilState[c].dwellStartUs of a coil that is charging, or 0
    revLimiting     \* _revLimiting

ignVars == <<charging, chargedFor, revLimiting>>

IgnTypeOK ==
    /\ charging \in [Cyls -> BOOLEAN]
    /\ chargedFor \in [Cyls -> 0 .. ChargeCap]
    /\ revLimiting \in BOOLEAN

IgnInit ==
    /\ charging = [c \in Cyls |-> FALSE]
    /\ chargedFor = [c \in Cyls |-> 0]
    /\ revLimiting = FALSE

-------------------------------------------------------------------------------
(* How far `at' is past `angle'.  Wasted spark counts modulo a revolution; *)
(* sequential mode only corrects a negative difference, by two.            *)
Past(at, angle, sequential) ==
    IF ~sequential THEN (at - angle) % FullTurn
    ELSE IF at < angle THEN at - angle + 2 * FullTurn ELSE at - angle

(* Mutant: a window of three teeth. *)
InWideWindow(at, angle, sequential) == Past(at, angle, sequential) < 6

InWindow(at, angle, sequential) == Past(at, angle, sequential) < 3

(* dwellDeg: how far the crank turns in _dwellMs *)
DwellAngle(rpm) == (2 * Dwell * rpm) \div RatedSpeed

SparkAngle(c, sequential) ==
    (c * ((2 * FullTurn) \div Cylinders) - Advance) % (IF sequential THEN 2 * FullTurn ELSE FullTurn)

DwellStartAngle(c, rpm, sequential) ==
    (SparkAngle(c, sequential) - DwellAngle(rpm)) % (IF sequential THEN 2 * FullTurn ELSE FullTurn)

(* Mutant: the safety cut-off is left out. *)
EventWithoutCutoff(c, rpm, at, sequential) ==
    LET starts == ~charging[c] /\ InWindow(at, DwellStartAngle(c, rpm, sequential), sequential)
        fires  == InWindow(at, SparkAngle(c, sequential), sequential)
    IN  CASE starts /\ fires -> "flash"
          [] charging[c] /\ fires -> "spark"
          [] starts /\ ~fires -> "charge"
          [] OTHER -> "none"

(* What one pass of the loop does with coil c at crank angle `at'.  A coil *)
(* whose dwell window and spark window overlap is charged and fired in the *)
(* same pass: a "flash", which gives no spark.                             *)
EventOf(c, rpm, at, sequential) ==
    LET starts == ~charging[c] /\ InWindow(at, DwellStartAngle(c, rpm, sequential), sequential)
        fires  == InWindow(at, SparkAngle(c, sequential), sequential)
        over   == charging[c] /\ chargedFor[c] > MaxDwell
    IN  CASE starts /\ fires -> "flash"
          [] charging[c] /\ fires -> "spark"
          [] over /\ ~fires -> "overdwell"
          [] starts /\ ~fires -> "charge"
          [] OTHER -> "none"

(* Mutant: coils that are charging when the limit is passed stay so. *)
LimitRevsLater == revLimiting' = TRUE /\ UNCHANGED <<charging, chargedFor>>

(* Rev limiter: all coils are released once, and then left alone. *)
LimitRevs ==
    /\ revLimiting' = TRUE
    /\ IF revLimiting THEN UNCHANGED <<charging, chargedFor>>
       ELSE /\ charging' = [c \in Cyls |-> FALSE]
            /\ chargedFor' = [c \in Cyls |-> 0]

FireCoils(rpm, at, sequential) ==
    LET event == [c \in Cyls |-> EventOf(c, rpm, at, sequential)]
        keeps(c) == event[c] = "none" /\ charging[c]
    IN  /\ revLimiting' = FALSE
        /\ charging' = [c \in Cyls |-> event[c] = "charge" \/ keeps(c)]
        /\ chargedFor' = [c \in Cyls |-> IF keeps(c) THEN chargedFor[c] ELSE 0]

(* IgnitionManager::update; pos is a tooth position, rpm is not 0. *)
UpdateIgnition(rpm, pos, sequential, limit) ==
    IF rpm > limit THEN LimitRevs ELSE FireCoils(rpm, 2 * pos, sequential)

(* Time goes by, one slot's worth of it. *)
ChargeOn ==
    chargedFor' = [c \in Cyls |-> IF charging[c] /\ chargedFor[c] < ChargeCap
                                  THEN chargedFor[c] + 1 ELSE chargedFor[c]]
===============================================================================
