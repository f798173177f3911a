----------------------------- MODULE Transmission -----------------------------
(***************************************************************************)
(* The Ford 4R70W/4R100 controller, TransmissionManager.  ECU::update      *)
(* calls update() every 10 ms with the engine speed, and setLimpMode()     *)
(* when limp mode begins or ends, later in the same cycle.  The lever and  *)
(* the fluid temperature are sampled less often than the gears are         *)
(* decided, the gears less often than the engine is checked for a stall,   *)
(* so each decision is made on readings of several ages.                   *)
(*                                                                         *)
(* Temperatures and speeds are abstracted to the comparisons made of them; *)
(* the duty of the converter clutch is kept, since it is ramped.           *)
(***************************************************************************)
EXTENDS Millis

CONSTANTS
    Type,           \* _type: "4R70W" or "4R100"
    Levers,         \* the positions the lever sensor is read in
    UpshiftRpm,     \* _upshift12Rpm, _upshift23Rpm, _upshift34Rpm
    DownshiftRpm,   \* _downshift21Rpm, _downshift32Rpm, _downshift43Rpm
    TccLockGear,    \* _tccLockGear
    TccLockRpm,     \* _tccLockRpm
    TccApplyRate,   \* _tccApplyRate, percent for each gear decision
    ShiftTimeMs,    \* _shiftTimeMs
    GearEvery,      \* updates from one gear decision to the next, 10
    LeverEvery,     \* updates from one reading of the lever to the next, 20
    CounterLap,     \* where _updateCounter, a uint8_t, wraps: 256
    Speeds,         \* the engine speeds update() is called with
    MaxUpdateGap,   \* the longest time between two updates
    ReleaseTicks    \* how far openFor counts

ForwardGears == 3 .. 6
PARK == 0
REVERSE == 1
NEUTRAL == 2
DRIVE_1 == 3
DRIVE_4 == 6
Gears == {PARK, REVERSE, NEUTRAL} \cup ForwardGears

(* Gears a lever position selects by itself. *)
NonDrive == [PARK |-> PARK, REVERSE |-> REVERSE, NEUTRAL |-> NEUTRAL]
ForwardLevers == {"OD", "DRIVE", "LOW2", "LOW1", "UNKNOWN"}

ASSUME TransmissionAssumption ==
    /\ Type \in {"4R70W", "4R100"}
    /\ Levers \subseteq DOMAIN NonDrive \cup ForwardLevers
    /\ UpshiftRpm \in [3 .. 5 -> Nat] /\ DownshiftRpm \in [4 .. 6 -> Nat]
    /\ Speeds \subseteq Nat /\ TccLockGear \in Nat /\ TccLockRpm \in Nat
    /\ TccApplyRate \in Nat \ {0} /\ ShiftTimeMs \in Nat \ {0}
    /\ GearEvery \in Nat \ {0} /\ LeverEvery \in Nat \ {0} /\ CounterLap \in Nat \ {0}
    /\ MaxUpdateGap \in Nat /\ ShiftTimeMs + MaxUpdateGap < Wrap
    /\ ReleaseTicks \in Nat

(* Enough decisions to ramp from 100 down to 0. *)
ASSUME ReleaseAssumption == 2 * ReleaseTicks * TccApplyRate >= 100

VARIABLES
    now,            \* millis() in the last update
    counter,        \* _updateCounter
    lever,          \* _state.mlpsPosition
    hot,            \* _state.tftTempF > _maxTftTempF
    currentGear, targetGear, shifting,
    shiftStart,     \* _shiftStartMs
    solenoids,      \* those of ssA .. ssD that are on
    tccDuty,
    epc,            \* what _state.epcDuty starts from: "off", "base", "boost"
    limp,           \* _limpMode
    \* what has really happened, for the properties
    sinceShift,     \* time since a shift began, in forward gears, up to ShiftTimeMs
    openFor         \* gear decisions in a row that had to open the clutch

gearVars == <<currentGear, targetGear, shifting, shiftStart>>
transVars == <<now, counter, lever, hot, gearVars, solenoids, tccDuty, epc, limp,
               sinceShift, openFor>>

TransTypeOK ==
    /\ now \in Time /\ shiftStart \in Time
    /\ counter \in 0 .. CounterLap - 1
    /\ lever \in Levers \cup {"PARK"}
    /\ hot \in BOOLEAN /\ shifting \in BOOLEAN /\ limp \in BOOLEAN
    /\ currentGear \in Gears /\ targetGear \in Gears
    /\ solenoids \subseteq {"A", "B", "C", "D"}
    /\ tccDuty \in 0 .. 100
    /\ epc \in {"off", "base", "boost"}
    /\ sinceShift \in 0 .. ShiftTimeMs
    /\ openFor \in 0 .. ReleaseTicks

TransInit ==
    /\ now = 0 /\ shiftStart = 0 /\ counter = 0
    /\ lever = "PARK" /\ hot = FALSE
    /\ currentGear = PARK /\ targetGear = PARK /\ shifting = FALSE
    /\ solenoids = {} /\ tccDuty = 0 /\ epc = "off"
    /\ limp = FALSE
    /\ sinceShift = ShiftTimeMs /\ openFor = ReleaseTicks

-------------------------------------------------------------------------------
(* The gear the solenoids hold. *)
Engaged == IF shifting THEN targetGear ELSE currentGear

(* The gears each solenoid is on in, applyShiftSolenoids; C and D are only *)
(* in the 4R100.                                                           *)
OnIn == [A |-> {3, 6}, B |-> {5, 6},
         C |-> IF Type = "4R100" THEN {4, 5, 6} ELSE {},
         D |-> IF Type = "4R100" THEN {REVERSE} ELSE {}]

Pattern(g) == { s \in DOMAIN OnIn : g \in OnIn[s] }

MaxGear(position) ==
    CASE position = "DRIVE" -> 5 [] position = "LOW2" -> 4 [] position = "LOW1" -> 3
      [] OTHER -> DRIVE_4

(* A mutant: the lever's limit is not enforced on the way down. *)
TargetUncapped(cur, position, speed, overspeed) ==
    IF cur < DRIVE_4 /\ MaxGear(position) > cur /\ (speed >= UpshiftRpm[cur] \/ overspeed)
        THEN cur + 1
    ELSE IF cur > DRIVE_1 /\ speed <= DownshiftRpm[cur] THEN cur - 1 ELSE cur

(* The gear to be in, from gear cur: one up, one down, no higher than the *)
(* lever allows; an output shaft over 6000 rpm forces one up.             *)
Target(cur, position, speed, overspeed) ==
    LET maxGear == MaxGear(position)
        up == cur < DRIVE_4 /\ speed >= UpshiftRpm[cur] /\ maxGear > cur
        down == cur > DRIVE_1 /\ speed <= DownshiftRpm[cur]
    IN  IF overspeed /\ cur < DRIVE_4 /\ maxGear = DRIVE_4 THEN cur + 1
        ELSE Least(IF up THEN cur + 1 ELSE IF down THEN cur - 1 ELSE cur, maxGear)

-------------------------------------------------------------------------------
(* updateGearLogic, a case an action. *)
FollowLever ==
    /\ lever' \in DOMAIN NonDrive
    /\ currentGear' = NonDrive[lever']
    /\ targetGear' = NonDrive[lever']
    /\ shifting' = FALSE
    /\ UNCHANGED shiftStart

HoldInLimp ==
    /\ lever' \in ForwardLevers
    /\ limp
    /\ UNCHANGED gearVars

(* A mutant: every look at the timer restarts it. *)
AwaitShiftRestarting ==
    /\ lever' \in ForwardLevers
    /\ ~limp /\ shifting
    /\ Elapsed(now', shiftStart) < ShiftTimeMs
    /\ shiftStart' = now'
    /\ UNCHANGED <<currentGear, targetGear, shifting>>

AwaitShift ==
    /\ lever' \in ForwardLevers
    /\ ~limp /\ shifting
    /\ Elapsed(now', shiftStart) < ShiftTimeMs
    /\ UNCHANGED gearVars

FinishShift ==
    /\ lever' \in ForwardLevers
    /\ ~limp /\ shifting
    /\ Elapsed(now', shiftStart) >= ShiftTimeMs
    /\ currentGear' = targetGear
    /\ shifting' = FALSE
    /\ UNCHANGED <<targetGear, shiftStart>>

(* A mutant: the shift timer is not restarted. *)
ChooseGearNoTimer(speed, overspeed) ==
    /\ lever' \in ForwardLevers
    /\ ~limp /\ ~shifting
    /\ LET cur == IF currentGear < DRIVE_1 THEN DRIVE_1 ELSE currentGear
           new == Target(cur, lever', speed, overspeed)
       IN  /\ currentGear' = cur
           /\ targetGear' = IF new # cur THEN new ELSE targetGear
           /\ shifting' = (new # cur)
           /\ UNCHANGED shiftStart

(* A mutant: limp mode does not stop it. *)
ChooseGearInLimp(speed, overspeed) ==
    /\ lever' \in ForwardLevers
    /\ ~shifting
    /\ LET cur == IF currentGear < DRIVE_1 THEN DRIVE_1 ELSE currentGear
           new == Target(cur, lever', speed, overspeed)
       IN  /\ currentGear' = cur
           /\ targetGear' = IF new # cur THEN new ELSE targetGear
           /\ shifting' = (new # cur)
           /\ shiftStart' = IF new # cur THEN now' ELSE shiftStart

ChooseGear(speed, overspeed) ==
    /\ lever' \in ForwardLevers
    /\ ~limp /\ ~shifting
    /\ LET cur == IF currentGear < DRIVE_1 THEN DRIVE_1 ELSE currentGear
           new == Target(cur, lever', speed, overspeed)
       IN  /\ currentGear' = cur
           /\ targetGear' = IF new # cur THEN new ELSE targetGear
           /\ shifting' = (new # cur)
           /\ shiftStart' = IF new # cur THEN now' ELSE shiftStart

UpdateGearLogic(speed, overspeed) ==
    \/ FollowLever
    \/ HoldInLimp
    \/ AwaitShift
    \/ FinishShift
    \/ ChooseGear(speed, overspeed)

-------------------------------------------------------------------------------
(* A mutant: limp mode is forgotten. *)
ShouldLockInLimp(speed) ==
    /\ ~shifting' /\ ~hot'
    /\ currentGear' >= DRIVE_1
    /\ currentGear' >= TccLockGear + DRIVE_1 - 1
    /\ speed >= TccLockRpm

(* Whether the clutch may be locked. *)
ShouldLock(speed) ==
    /\ ~shifting' /\ ~hot' /\ ~limp
    /\ currentGear' >= DRIVE_1
    /\ currentGear' >= TccLockGear + DRIVE_1 - 1
    /\ speed >= TccLockRpm

(* The duty once ramped towards 100 or 0, twice as fast on the way down. *)
Ramped(duty, lock) ==
    IF lock THEN Least(duty + TccApplyRate, 100)
    ELSE IF duty > 2 * TccApplyRate THEN duty - 2 * TccApplyRate ELSE 0

(* Reasons that need no other to open the clutch. *)
MustOpen == shifting' \/ hot' \/ limp

TrackOpen == openFor' = IF ~MustOpen THEN 0 ELSE Least(openFor + 1, ReleaseTicks)

GearTick(speed, overspeed) ==
    /\ UpdateGearLogic(speed, overspeed)
    /\ solenoids' = Pattern(IF shifting' THEN targetGear' ELSE currentGear')
    /\ tccDuty' = Ramped(tccDuty, ShouldLock(speed))
    /\ epc' = IF shifting' THEN "boost" ELSE "base"
    /\ TrackOpen

(* A mutant: a stall leaves the shift under way. *)
EngineOffMidShift ==
    /\ currentGear' = PARK /\ targetGear' = PARK
    /\ solenoids' = {} /\ tccDuty' = 0 /\ epc' = "off"
    /\ openFor' = ReleaseTicks
    /\ UNCHANGED <<shifting, shiftStart>>

(* "Engine off protection -- all solenoids off". *)
EngineOff ==
    /\ currentGear' = PARK /\ targetGear' = PARK /\ shifting' = FALSE
    /\ solenoids' = {} /\ tccDuty' = 0 /\ epc' = "off"
    /\ openFor' = ReleaseTicks
    /\ UNCHANGED shiftStart

Idle == UNCHANGED <<gearVars, solenoids, tccDuty, epc, openFor>>

-------------------------------------------------------------------------------
ReadLever ==
    IF counter' % LeverEvery = 0
    THEN lever' \in Levers /\ hot' \in BOOLEAN
    ELSE UNCHANGED <<lever, hot>>

(* Time in forward gears since the last shift began. *)
TrackShift(gap) ==
    sinceShift' = IF currentGear' \notin ForwardGears THEN ShiftTimeMs
                  ELSE IF shifting' /\ ~shifting THEN 0
                  ELSE Least(sinceShift + gap, ShiftTimeMs)

(* TransmissionManager::update, gap milliseconds after the last one. *)
Update(gap, speed) ==
    /\ now' = Later(now, gap)
    /\ counter' = (counter + 1) % CounterLap
    /\ ReadLever
    /\ \/ speed = 0 /\ EngineOff
       \/ speed # 0 /\ counter' % GearEvery = 0 /\ \E overspeed \in BOOLEAN : GearTick(speed, overspeed)
       \/ speed # 0 /\ counter' % GearEvery # 0 /\ Idle
    /\ TrackShift(gap)
    /\ UNCHANGED limp

(* The two calls of checkLimpMode, on entering and on leaving limp mode. *)
SetLimpMode(active) ==
    /\ limp # active
    /\ limp' = active
    /\ UNCHANGED <<now, counter, lever, hot, gearVars, solenoids, tccDuty, epc, sinceShift, openFor>>

TransNext ==
    \/ \E gap \in 1 .. MaxUpdateGap, speed \in Speeds : Update(gap, speed)
    \/ \E active \in BOOLEAN : SetLimpMode(active)

TransSpec == TransInit /\ [][TransNext]_transVars

(* ECU::update keeps being called. *)
TransFairSpec ==
    TransSpec /\ WF_transVars(\E gap \in 1 .. MaxUpdateGap, speed \in Speeds : Update(gap, speed))

-------------------------------------------------------------------------------
(* The solenoids hold the gear the controller believes engaged, and line   *)
(* pressure is boosted exactly during a shift, whichever reading changed   *)
(* in between (TransmissionManager.cpp:125-157, 274-321, 357-371).         *)
OutputsMatchGear ==
    /\ solenoids = Pattern(Engaged)
    /\ epc = "boost" <=> shifting

(* Limp mode "locks the current transmission gear" (README.md:406): as     *)
(* long as it lasts and the lever is in a forward position, the gear       *)
(* engaged changes only if the engine stalls.                              *)
GearLockedInLimp ==
    [][limp /\ limp' /\ lever' \in ForwardLevers => Engaged' \in {Engaged, PARK}]_transVars

(* The converter clutch, once it has to open -- a shift, hot fluid, limp   *)
(* mode -- is fully open ReleaseTicks decisions later, however the reasons *)
(* follow one another (TransmissionManager.cpp:323-348).                   *)
TccReleased == openFor >= ReleaseTicks => tccDuty = 0

(* The box goes up one gear at a time, and never changes between forward   *)
(* gears before the shift before it has had ShiftTimeMs                    *)
(* (TransmissionManager.cpp:219-272), wherever the clock wraps.            *)
ShiftsInSequence ==
    [][(Engaged \in ForwardGears) /\ Engaged' \in ForwardGears /\ Engaged' # Engaged =>
         Engaged' <= Engaged + 1 /\ sinceShift >= ShiftTimeMs]_transVars

(* A gear above what the lever allows is not kept: the lever may be moved  *)
(* in the middle of a shift, but the shift ends and the next decision      *)
(* obeys it.  In limp mode the gear is locked instead.                     *)
LeverObeyed ==
    (Engaged \in ForwardGears /\ Engaged > MaxGear(lever)) ~> (Engaged <= MaxGear(lever) \/ limp)

(* A shift ends, unless limp mode freezes it. *)
ShiftEnds == shifting ~> (~shifting \/ limp)
===============================================================================
