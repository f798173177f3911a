-------------------------- MODULE TransmissionProofs --------------------------
(***************************************************************************)
(* Machine-checked proofs about Transmission, for every table of speeds,   *)
(* shift time, ramp rate, decimation and width of the clock that satisfies *)
(* the named assumptions.                                                  *)
(***************************************************************************)
EXTENDS Transmission, MillisProofs

(* What the assumptions say of the numbers. *)
LEMMA Numbers ==
    /\ TccApplyRate \in Nat /\ ShiftTimeMs \in Nat /\ CounterLap \in Nat /\ CounterLap > 0
    /\ MaxUpdateGap \in Nat /\ ReleaseTicks \in Nat /\ Wrap \in Nat
    /\ ShiftTimeMs + MaxUpdateGap < Wrap
BY TransmissionAssumption, WrapAssumption

(* The gear chosen is a forward gear the lever allows, at most one up. *)
LEMMA TargetIs ==
    ASSUME NEW cur \in ForwardGears, NEW position, NEW speed, NEW overspeed
    PROVE  /\ Target(cur, position, speed, overspeed) \in ForwardGears
           /\ Target(cur, position, speed, overspeed) <= cur + 1
<1>1. MaxGear(position) \in 3 .. 6
  BY DEF MaxGear, DRIVE_4
<1>. QED  BY <1>1 DEF Target, Least, ForwardGears, DRIVE_1, DRIVE_4

(* The duty stays a percentage while it is ramped. *)
LEMMA RampedIs ==
    ASSUME NEW duty \in 0 .. 100, NEW lock \in BOOLEAN
    PROVE  Ramped(duty, lock) \in 0 .. 100
BY Numbers DEF Ramped, Least

-------------------------------------------------------------------------------
(* The type invariant.                                                     *)

(* PARK is a gear, but no forward gear.                                    *)
LEMMA ParkIsGear == PARK \in Gears /\ PARK \notin ForwardGears
BY DEF Gears, PARK, ForwardGears

(* The gears are numbers; what P, R and N select is no forward gear.       *)
LEMMA GearTypes ==
    /\ ForwardGears \subseteq Gears
    /\ \A l \in DOMAIN NonDrive : NonDrive[l] \in Gears /\ NonDrive[l] \notin ForwardGears
    /\ Gears \subseteq Nat
BY DEF ForwardGears, Gears, PARK, REVERSE, NEUTRAL, NonDrive

(* The forward positions of the lever are not P, R or N.                   *)
LEMMA LeversDiffer == \A l \in ForwardLevers : l \notin DOMAIN NonDrive
BY DEF ForwardLevers, NonDrive

(* A gear decision keeps the types of the gears. *)
LEMMA GearLogicTypes ==
    ASSUME TransTypeOK, now' \in Time, NEW speed, NEW overspeed,
           UpdateGearLogic(speed, overspeed)
    PROVE  /\ currentGear' \in Gears /\ targetGear' \in Gears
           /\ shifting' \in BOOLEAN /\ shiftStart' \in Time
<1>1. CASE FollowLever
  BY <1>1, GearTypes DEF FollowLever, TransTypeOK
<1>2. CASE HoldInLimp \/ AwaitShift \/ FinishShift
  BY <1>2 DEF HoldInLimp, AwaitShift, FinishShift, TransTypeOK, gearVars
<1>3. CASE ChooseGear(speed, overspeed)
  <2>. DEFINE cur == IF currentGear < DRIVE_1 THEN DRIVE_1 ELSE currentGear
              new == Target(cur, lever', speed, overspeed)
  <2>1. cur \in ForwardGears
    BY DEF TransTypeOK, Gears, ForwardGears, DRIVE_1, PARK, REVERSE, NEUTRAL
  <2>2. new \in ForwardGears
    BY <2>1, TargetIs
  <2>3. /\ currentGear' = cur
        /\ targetGear' = IF new # cur THEN new ELSE targetGear
        /\ shifting' = (new # cur)
        /\ shiftStart' = IF new # cur THEN now' ELSE shiftStart
    BY <1>3 DEF ChooseGear
  <2>. HIDE DEF cur, new
  <2>. QED  BY <2>1, <2>2, <2>3, GearTypes DEF TransTypeOK
<1>. QED  BY <1>1, <1>2, <1>3 DEF UpdateGearLogic

(* Every variable of the controller keeps its type. *)
THEOREM TransTypeCorrect == TransSpec => []TransTypeOK
<1>1. TransInit => TransTypeOK
  <2>. SUFFICES ASSUME TransInit PROVE TransTypeOK
    OBVIOUS
  <2>1. /\ now \in Time /\ shiftStart \in Time /\ counter \in 0 .. CounterLap - 1
        /\ tccDuty \in 0 .. 100 /\ sinceShift \in 0 .. ShiftTimeMs
        /\ openFor \in 0 .. ReleaseTicks
    BY Numbers DEF TransInit, Time
  <2>2. currentGear \in Gears /\ targetGear \in Gears
    BY ParkIsGear DEF TransInit
  <2>3. /\ lever \in Levers \cup {"PARK"} /\ hot \in BOOLEAN /\ shifting \in BOOLEAN
        /\ limp \in BOOLEAN /\ epc \in {"off", "base", "boost"}
        /\ solenoids \subseteq {"A", "B", "C", "D"}
    BY DEF TransInit
  <2>. QED  BY <2>1, <2>2, <2>3 DEF TransTypeOK
<1>2. TransTypeOK /\ [TransNext]_transVars => TransTypeOK'
  <2>. SUFFICES ASSUME TransTypeOK, [TransNext]_transVars PROVE TransTypeOK'
    OBVIOUS
  <2>1. ASSUME NEW gap \in 1 .. MaxUpdateGap, NEW speed \in Speeds, Update(gap, speed)
        PROVE  TransTypeOK'
    <3>1. now' \in Time /\ counter' \in 0 .. CounterLap - 1
      BY <2>1, ElapsedGrows, Numbers DEF Update, TransTypeOK
    <3>2. lever' \in Levers \cup {"PARK"} /\ hot' \in BOOLEAN /\ limp' \in BOOLEAN
      BY <2>1 DEF Update, ReadLever, TransTypeOK
    <3>3. sinceShift' \in 0 .. ShiftTimeMs
      <4>1. /\ ShiftTimeMs \in Nat /\ sinceShift \in 0 .. ShiftTimeMs /\ gap \in Nat
        BY Numbers DEF TransTypeOK
      <4>. QED  BY <2>1, <4>1 DEF Update, TrackShift, Least
    <3>4. /\ currentGear' \in Gears /\ targetGear' \in Gears
          /\ shifting' \in BOOLEAN /\ shiftStart' \in Time
          /\ solenoids' \subseteq {"A", "B", "C", "D"} /\ tccDuty' \in 0 .. 100
          /\ epc' \in {"off", "base", "boost"} /\ openFor' \in 0 .. ReleaseTicks
      <4>1. CASE EngineOff
        <5>1. tccDuty' \in 0 .. 100 /\ openFor' \in 0 .. ReleaseTicks
          BY <4>1, Numbers DEF EngineOff
        <5>2. currentGear' \in Gears /\ targetGear' \in Gears /\ shifting' \in BOOLEAN
          BY <4>1, ParkIsGear DEF EngineOff
        <5>3. shiftStart' \in Time
          BY <4>1 DEF EngineOff, TransTypeOK
        <5>4. solenoids' \subseteq {"A", "B", "C", "D"} /\ epc' \in {"off", "base", "boost"}
          BY <4>1 DEF EngineOff
        <5>. QED  BY <5>1, <5>2, <5>3, <5>4
      <4>2. ASSUME NEW overspeed \in BOOLEAN, GearTick(speed, overspeed)
            PROVE  /\ currentGear' \in Gears /\ targetGear' \in Gears
                   /\ shifting' \in BOOLEAN /\ shiftStart' \in Time
                   /\ solenoids' \subseteq {"A", "B", "C", "D"} /\ tccDuty' \in 0 .. 100
                   /\ epc' \in {"off", "base", "boost"} /\ openFor' \in 0 .. ReleaseTicks
        <5>1. /\ currentGear' \in Gears /\ targetGear' \in Gears
              /\ shifting' \in BOOLEAN /\ shiftStart' \in Time
          BY <3>1, <4>2, GearLogicTypes DEF GearTick
        <5>2. solenoids' \subseteq {"A", "B", "C", "D"}
          BY <4>2 DEF GearTick, Pattern, OnIn
        <5>3. tccDuty' \in 0 .. 100
          BY <4>2, RampedIs DEF GearTick, ShouldLock, TransTypeOK
        <5>4. openFor' \in 0 .. ReleaseTicks
          BY <4>2, Numbers DEF GearTick, TrackOpen, Least, TransTypeOK
        <5>. QED  BY <4>2, <5>1, <5>2, <5>3, <5>4 DEF GearTick
      <4>3. CASE Idle
        BY <4>3 DEF Idle, gearVars, TransTypeOK
      <4>. QED  BY <2>1, <4>1, <4>2, <4>3 DEF Update
    <3>. QED  BY <3>1, <3>2, <3>3, <3>4 DEF TransTypeOK
  <2>2. ASSUME NEW active \in BOOLEAN, SetLimpMode(active) PROVE TransTypeOK'
    BY <2>2 DEF SetLimpMode, TransTypeOK, gearVars
  <2>3. CASE UNCHANGED transVars
    BY <2>3 DEF transVars, gearVars, TransTypeOK
  <2>. QED  BY <2>1, <2>2, <2>3 DEF TransNext
<1>. QED  BY <1>1, <1>2, PTL DEF TransSpec

-------------------------------------------------------------------------------
(* Outputs.                                                                *)

(* No shift solenoid is energised in PARK.                                 *)
LEMMA NothingInPark == Pattern(PARK) = {}
BY DEF Pattern, OnIn, PARK, REVERSE

(* The solenoids hold the gear the controller believes engaged: each of    *)
(* the ways a call of update ends keeps both in step.                      *)
THEOREM OutputsCorrect == TransSpec => []OutputsMatchGear
<1>1. TransInit => OutputsMatchGear
  BY NothingInPark DEF TransInit, OutputsMatchGear, Engaged
<1>2. OutputsMatchGear /\ [TransNext]_transVars => OutputsMatchGear'
  <2>. SUFFICES ASSUME OutputsMatchGear, [TransNext]_transVars PROVE OutputsMatchGear'
    OBVIOUS
  <2>1. ASSUME NEW gap \in 1 .. MaxUpdateGap, NEW speed \in Speeds, Update(gap, speed)
        PROVE  OutputsMatchGear'
    <3>1. CASE EngineOff
      BY <3>1, NothingInPark DEF EngineOff, OutputsMatchGear, Engaged
    <3>2. ASSUME NEW overspeed \in BOOLEAN, GearTick(speed, overspeed)
          PROVE  OutputsMatchGear'
      BY <3>2 DEF GearTick, OutputsMatchGear, Engaged
    <3>3. CASE Idle
      BY <3>3 DEF Idle, gearVars, OutputsMatchGear, Engaged
    <3>. QED  BY <2>1, <3>1, <3>2, <3>3 DEF Update
  <2>2. ASSUME NEW active \in BOOLEAN, SetLimpMode(active) PROVE OutputsMatchGear'
    BY <2>2 DEF SetLimpMode, gearVars, OutputsMatchGear, Engaged
  <2>3. CASE UNCHANGED transVars
    BY <2>3 DEF transVars, gearVars, OutputsMatchGear, Engaged
  <2>. QED  BY <2>1, <2>2, <2>3 DEF TransNext
<1>. QED  BY <1>1, <1>2, PTL DEF TransSpec

-------------------------------------------------------------------------------
(* Shifts.                                                                 *)

(* While a shift is under way the time since it began is at least what the *)
(* clock shows, wraps and all; once it is over it has had all its time.    *)
ShiftInv ==
    /\ shifting => /\ currentGear \in ForwardGears /\ targetGear \in ForwardGears
                   /\ sinceShift = ShiftTimeMs \/ Elapsed(now, shiftStart) <= sinceShift
    /\ ~shifting => sinceShift = ShiftTimeMs

(* A call of update that leaves a shift as it was only makes it older. *)
LEMMA ShiftAges ==
    ASSUME TransTypeOK, ShiftInv, NEW gap \in 1 .. MaxUpdateGap,
           now' = Later(now, gap), TrackShift(gap),
           shifting' = shifting, currentGear' = currentGear, targetGear' = targetGear,
           shiftStart' = shiftStart
    PROVE  ShiftInv'
<1>1. /\ gap \in 0 .. Wrap - 1 /\ gap \in Nat /\ ShiftTimeMs \in Nat
      /\ now \in Time /\ shiftStart \in Time /\ sinceShift \in 0 .. ShiftTimeMs
  BY Numbers DEF TransTypeOK
<1>2. /\ Elapsed(now, shiftStart) \in Nat /\ Elapsed(now', shiftStart) \in Nat
      /\ Elapsed(now', shiftStart) <= Elapsed(now, shiftStart) + gap
  BY <1>1, ElapsedGrows
<1>3. sinceShift' = IF currentGear \notin ForwardGears THEN ShiftTimeMs
                    ELSE Least(sinceShift + gap, ShiftTimeMs)
  BY DEF TrackShift
<1>4. CASE shifting
  <2>1. sinceShift' = Least(sinceShift + gap, ShiftTimeMs)
    BY <1>3, <1>4 DEF ShiftInv
  <2>2. sinceShift' = ShiftTimeMs \/ Elapsed(now', shiftStart) <= sinceShift'
    BY <1>1, <1>2, <1>4, <2>1 DEF ShiftInv, Least
  <2>. QED  BY <1>4, <2>2 DEF ShiftInv
<1>5. CASE ~shifting
  BY <1>1, <1>3, <1>5 DEF ShiftInv, Least
<1>. QED  BY <1>4, <1>5 DEF TransTypeOK

(* The invariant through a gear decision. *)
LEMMA DecisionKeepsShiftInv ==
    ASSUME TransTypeOK, ShiftInv, NEW gap \in 1 .. MaxUpdateGap,
           now' = Later(now, gap), TrackShift(gap), NEW speed, NEW overspeed,
           UpdateGearLogic(speed, overspeed)
    PROVE  ShiftInv'
<1>1. CASE FollowLever
  BY <1>1, GearTypes DEF FollowLever, TrackShift, ShiftInv
<1>2. CASE HoldInLimp
  BY <1>2, ShiftAges DEF HoldInLimp, gearVars
<1>3. CASE AwaitShift
  BY <1>3, ShiftAges DEF AwaitShift, gearVars
<1>4. CASE FinishShift
  <2>1. /\ gap \in 0 .. Wrap - 1 /\ gap \in Nat /\ ShiftTimeMs \in Nat
        /\ now \in Time /\ shiftStart \in Time /\ sinceShift \in 0 .. ShiftTimeMs
    BY Numbers DEF TransTypeOK
  <2>2. /\ Elapsed(now, shiftStart) \in Nat /\ Elapsed(now', shiftStart) \in Nat
        /\ Elapsed(now', shiftStart) <= Elapsed(now, shiftStart) + gap
    BY <2>1, ElapsedGrows
  <2>3. /\ Elapsed(now', shiftStart) >= ShiftTimeMs
        /\ sinceShift = ShiftTimeMs \/ Elapsed(now, shiftStart) <= sinceShift
    BY <1>4 DEF FinishShift, ShiftInv
  <2>4. sinceShift' = Least(sinceShift + gap, ShiftTimeMs)
    BY <1>4 DEF FinishShift, ShiftInv, TrackShift
  <2>5. sinceShift' = ShiftTimeMs
    BY <2>1, <2>2, <2>3, <2>4 DEF Least
  <2>. QED  BY <1>4, <2>5 DEF FinishShift, ShiftInv
<1>5. CASE ChooseGear(speed, overspeed)
  <2>. DEFINE cur == IF currentGear < DRIVE_1 THEN DRIVE_1 ELSE currentGear
              new == Target(cur, lever', speed, overspeed)
  <2>1. cur \in ForwardGears
    BY DEF TransTypeOK, Gears, ForwardGears, DRIVE_1, PARK, REVERSE, NEUTRAL
  <2>2. new \in ForwardGears
    BY <2>1, TargetIs
  <2>3. /\ ~shifting /\ currentGear' = cur
        /\ targetGear' = IF new # cur THEN new ELSE targetGear
        /\ shifting' = (new # cur)
        /\ shiftStart' = IF new # cur THEN now' ELSE shiftStart
    BY <1>5 DEF ChooseGear
  <2>. HIDE DEF cur, new
  <2>4. /\ gap \in 0 .. Wrap - 1 /\ gap \in Nat /\ ShiftTimeMs \in Nat
        /\ now \in Time /\ sinceShift = ShiftTimeMs
    BY <2>3, Numbers DEF TransTypeOK, ShiftInv
  <2>5. CASE new # cur
    <3>1. sinceShift' = 0
      BY <2>1, <2>3, <2>5 DEF TrackShift
    <3>2. Elapsed(now', now') = 0
      BY <2>4, ElapsedGrows
    <3>3. shifting' /\ currentGear' = cur /\ targetGear' = new /\ shiftStart' = now'
      BY <2>3, <2>5
    <3>. QED  BY <2>1, <2>2, <3>1, <3>2, <3>3 DEF ShiftInv
  <2>6. CASE new = cur
    <3>1. sinceShift' = Least(sinceShift + gap, ShiftTimeMs)
      BY <2>1, <2>3, <2>6 DEF TrackShift
    <3>2. sinceShift' = ShiftTimeMs
      BY <2>4, <3>1 DEF Least
    <3>3. ~shifting'
      BY <2>3, <2>6
    <3>. QED  BY <3>2, <3>3 DEF ShiftInv
  <2>. QED  BY <2>5, <2>6
<1>. QED  BY <1>1, <1>2, <1>3, <1>4, <1>5 DEF UpdateGearLogic

(* Every step keeps the invariant of the shift timer.                      *)
LEMMA ShiftInvStep ==
    TransTypeOK /\ ShiftInv /\ [TransNext]_transVars => ShiftInv'
<1>. SUFFICES ASSUME TransTypeOK, ShiftInv, [TransNext]_transVars PROVE ShiftInv'
  OBVIOUS
<1>1. ASSUME NEW gap \in 1 .. MaxUpdateGap, NEW speed \in Speeds, Update(gap, speed)
      PROVE  ShiftInv'
  <2>0. now' = Later(now, gap) /\ TrackShift(gap)
    BY <1>1 DEF Update
  <2>1. CASE EngineOff
    BY <2>0, <2>1, ParkIsGear DEF EngineOff, TrackShift, ShiftInv
  <2>2. ASSUME NEW overspeed \in BOOLEAN, GearTick(speed, overspeed) PROVE ShiftInv'
    BY <2>0, <2>2, DecisionKeepsShiftInv DEF GearTick
  <2>3. CASE Idle
    BY <2>0, <2>3, ShiftAges DEF Idle, gearVars
  <2>. QED  BY <1>1, <2>1, <2>2, <2>3 DEF Update
<1>2. ASSUME NEW active \in BOOLEAN, SetLimpMode(active) PROVE ShiftInv'
  BY <1>2 DEF SetLimpMode, gearVars, ShiftInv
<1>3. CASE UNCHANGED transVars
  BY <1>3 DEF transVars, gearVars, ShiftInv
<1>. QED  BY <1>1, <1>2, <1>3 DEF TransNext

(* A shift under way has its timer on the clock or is older than its time  *)
(* (TransmissionManager::shiftTo and updateGearLogic).                     *)
THEOREM ShiftInvCorrect == TransSpec => []ShiftInv
<1>1. TransInit => ShiftInv
  BY DEF TransInit, ShiftInv
<1>. QED  BY <1>1, ShiftInvStep, TransTypeCorrect, PTL DEF TransSpec

(* The property of a step: up one gear at most, and only when the shift    *)
(* before it has had its time.                                             *)
LEMMA StepIsInSequence ==
    ASSUME TransTypeOK, ShiftInv, [TransNext]_transVars,
           Engaged \in ForwardGears, Engaged' \in ForwardGears, Engaged' # Engaged
    PROVE  Engaged' <= Engaged + 1 /\ sinceShift >= ShiftTimeMs
<1>1. ASSUME NEW gap \in 1 .. MaxUpdateGap, NEW speed \in Speeds, Update(gap, speed)
      PROVE  Engaged' <= Engaged + 1 /\ sinceShift >= ShiftTimeMs
  <2>1. CASE EngineOff
    BY <2>1, ParkIsGear DEF EngineOff, Engaged
  <2>2. ASSUME NEW overspeed \in BOOLEAN, GearTick(speed, overspeed)
        PROVE  Engaged' <= Engaged + 1 /\ sinceShift >= ShiftTimeMs
    <3>1. CASE FollowLever
      BY <3>1, GearTypes DEF FollowLever, Engaged
    <3>2. CASE HoldInLimp \/ AwaitShift \/ FinishShift
      BY <3>2 DEF HoldInLimp, AwaitShift, FinishShift, gearVars, Engaged
    <3>3. CASE ChooseGear(speed, overspeed)
      <4>. DEFINE new == Target(currentGear, lever', speed, overspeed)
      <4>1. ~shifting /\ Engaged = currentGear /\ sinceShift = ShiftTimeMs
        BY <3>3 DEF ChooseGear, Engaged, ShiftInv
      <4>2. ~(currentGear < DRIVE_1)
        BY <4>1 DEF ForwardGears, DRIVE_1
      <4>3. /\ currentGear' = currentGear
            /\ targetGear' = IF new # currentGear THEN new ELSE targetGear
            /\ shifting' = (new # currentGear)
        BY <3>3, <4>2 DEF ChooseGear
      <4>. HIDE DEF new
      <4>4. Engaged' = new
        BY <4>3 DEF Engaged
      <4>5. Target(currentGear, lever', speed, overspeed) <= currentGear + 1
        BY <4>1, TargetIs
      <4>. QED  BY <4>1, <4>4, <4>5, Numbers DEF new
    <3>. QED  BY <2>2, <3>1, <3>2, <3>3 DEF GearTick, UpdateGearLogic
  <2>3. CASE Idle
    BY <2>3 DEF Idle, gearVars, Engaged
  <2>. QED  BY <1>1, <2>1, <2>2, <2>3 DEF Update
<1>2. ASSUME NEW active \in BOOLEAN, SetLimpMode(active) PROVE Engaged' = Engaged
  BY <1>2 DEF SetLimpMode, gearVars, Engaged
<1>3. CASE UNCHANGED transVars
  BY <1>3 DEF transVars, gearVars, Engaged
<1>. QED  BY <1>1, <1>2, <1>3 DEF TransNext

(* Forward gears change one up at a time, each after ShiftTimeMs of real   *)
(* time, wherever the clock wraps and however long limp mode froze a shift. *)
THEOREM ShiftSequence == TransSpec => ShiftsInSequence
<1>1. TransTypeOK /\ ShiftInv /\ [TransNext]_transVars =>
        [(Engaged \in ForwardGears) /\ Engaged' \in ForwardGears /\ Engaged' # Engaged =>
            Engaged' <= Engaged + 1 /\ sinceShift >= ShiftTimeMs]_transVars
  BY StepIsInSequence
<1>. QED  BY <1>1, TransTypeCorrect, ShiftInvCorrect, PTL DEF TransSpec, ShiftsInSequence

-------------------------------------------------------------------------------
(* Limp mode.                                                              *)

(* While limp mode lasts, a gear engaged with the lever forward changes    *)
(* only by a stall.                                                        *)
THEOREM GearIsLocked == TransSpec => GearLockedInLimp
<1>1. [TransNext]_transVars =>
        [limp /\ limp' /\ lever' \in ForwardLevers => Engaged' \in {Engaged, PARK}]_transVars
  <2>. SUFFICES ASSUME TransNext, limp, limp', lever' \in ForwardLevers
                PROVE  Engaged' \in {Engaged, PARK}
    OBVIOUS
  <2>1. ASSUME NEW gap \in 1 .. MaxUpdateGap, NEW speed \in Speeds, Update(gap, speed)
        PROVE  Engaged' \in {Engaged, PARK}
    <3>1. CASE EngineOff
      BY <3>1 DEF EngineOff, Engaged
    <3>2. ASSUME NEW overspeed \in BOOLEAN, GearTick(speed, overspeed)
          PROVE  Engaged' = Engaged
      <4>1. HoldInLimp
        BY <3>2, LeversDiffer DEF GearTick, UpdateGearLogic, FollowLever, AwaitShift,
           FinishShift, ChooseGear
      <4>. QED  BY <4>1 DEF HoldInLimp, gearVars, Engaged
    <3>3. CASE Idle
      BY <3>3 DEF Idle, gearVars, Engaged
    <3>. QED  BY <2>1, <3>1, <3>2, <3>3 DEF Update
  <2>2. ASSUME NEW active \in BOOLEAN, SetLimpMode(active) PROVE Engaged' = Engaged
    BY <2>2 DEF SetLimpMode, gearVars, Engaged
  <2>. QED  BY <2>1, <2>2 DEF TransNext
<1>. QED  BY <1>1, PTL DEF TransSpec, GearLockedInLimp

-------------------------------------------------------------------------------
(* The converter clutch.                                                   *)

(* Each decision that has to open the clutch takes twice the apply rate    *)
(* off its duty.                                                           *)
ReleaseInv == tccDuty = 0 \/ tccDuty + 2 * TccApplyRate * openFor <= 100

(* ReleaseTicks decisions of twice the apply rate take off a whole duty.   *)
LEMMA EnoughTicks == 2 * TccApplyRate * ReleaseTicks >= 100
<1>1. TccApplyRate \in Nat /\ ReleaseTicks \in Nat
  BY Numbers
<1>. QED  BY <1>1, ReleaseAssumption

(* A gear decision keeps the release invariant: each one that has to open  *)
(* the clutch takes two apply rates off its duty (updateTCCLogic).         *)
LEMMA ReleaseStep ==
    ASSUME TransTypeOK, ReleaseInv, NEW speed, NEW overspeed, GearTick(speed, overspeed)
    PROVE  ReleaseInv'
<1>. DEFINE rate == 2 * TccApplyRate
<1>1. /\ tccDuty \in 0 .. 100 /\ openFor \in 0 .. ReleaseTicks /\ ReleaseTicks \in Nat
      /\ TccApplyRate \in Nat /\ rate \in Nat
  BY Numbers DEF TransTypeOK
<1>2. CASE ~MustOpen
  <2>1. openFor' = 0
    BY <1>2 DEF GearTick, TrackOpen
  <2>2. tccDuty' \in 0 .. 100
    BY <1>1, RampedIs DEF GearTick, ShouldLock
  <2>. HIDE DEF rate
  <2>3. rate * openFor' = 0
    BY <1>1, <2>1
  <2>4. tccDuty' + rate * openFor' <= 100
    BY <2>2, <2>3
  <2>. QED  BY <2>4 DEF ReleaseInv, rate
<1>3. CASE MustOpen
  <2>1. tccDuty' = IF tccDuty > rate THEN tccDuty - rate ELSE 0
    BY <1>3 DEF GearTick, ShouldLock, MustOpen, Ramped
  <2>2. openFor' = Least(openFor + 1, ReleaseTicks)
    BY <1>3 DEF GearTick, TrackOpen
  <2>3. rate * openFor \in Nat /\ rate * (openFor + 1) = rate * openFor + rate
    BY <1>1
  <2>4. tccDuty = 0 \/ tccDuty + rate * openFor <= 100
    BY DEF ReleaseInv
  <2>. HIDE DEF rate
  <2>5. CASE openFor < ReleaseTicks
    <3>1. openFor' = openFor + 1
      BY <1>1, <2>2, <2>5 DEF Least
    <3>2. tccDuty' = 0 \/ tccDuty' + rate * openFor' <= 100
      BY <1>1, <2>1, <2>3, <2>4, <3>1
    <3>. QED  BY <3>2 DEF ReleaseInv, rate
  <2>6. CASE openFor = ReleaseTicks
    <3>1. tccDuty = 0
      BY <1>1, <2>3, <2>4, <2>6, EnoughTicks DEF rate
    <3>. QED  BY <1>1, <2>1, <3>1 DEF ReleaseInv
  <2>. QED  BY <1>1, <2>5, <2>6
<1>. QED  BY <1>2, <1>3

(* A clutch that has had to open for ReleaseTicks decisions in a row is    *)
(* open, in whatever order the reasons to open it came and went.           *)
THEOREM ClutchReleased == TransSpec => []TccReleased
<1>1. TransInit => ReleaseInv
  BY DEF TransInit, ReleaseInv
<1>2. TransTypeOK /\ ReleaseInv /\ [TransNext]_transVars => ReleaseInv'
  <2>. SUFFICES ASSUME TransTypeOK, ReleaseInv, [TransNext]_transVars PROVE ReleaseInv'
    OBVIOUS
  <2>1. ASSUME NEW gap \in 1 .. MaxUpdateGap, NEW speed \in Speeds, Update(gap, speed)
        PROVE  ReleaseInv'
    <3>1. CASE EngineOff
      BY <3>1 DEF EngineOff, ReleaseInv
    <3>2. CASE Idle
      BY <3>2 DEF Idle, ReleaseInv
    <3>. QED  BY <2>1, <3>1, <3>2, ReleaseStep DEF Update
  <2>2. ASSUME NEW active \in BOOLEAN, SetLimpMode(active) PROVE ReleaseInv'
    BY <2>2 DEF SetLimpMode, ReleaseInv
  <2>3. CASE UNCHANGED transVars
    BY <2>3 DEF transVars, ReleaseInv
  <2>. QED  BY <2>1, <2>2, <2>3 DEF TransNext
<1>3. TransTypeOK /\ ReleaseInv => TccReleased
  <2>. SUFFICES ASSUME TransTypeOK, ReleaseInv, openFor >= ReleaseTicks PROVE tccDuty = 0
    BY DEF TccReleased
  <2>1. /\ tccDuty \in 0 .. 100 /\ openFor = ReleaseTicks
        /\ TccApplyRate \in Nat /\ ReleaseTicks \in Nat
    BY Numbers DEF TransTypeOK
  <2>. QED  BY <2>1, EnoughTicks DEF ReleaseInv
<1>. QED  BY <1>1, <1>2, <1>3, TransTypeCorrect, PTL DEF TransSpec
===============================================================================
