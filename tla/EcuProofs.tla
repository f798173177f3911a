------------------------------ MODULE EcuProofs -------------------------------
(***************************************************************************)
(* Machine-checked proofs about Ecu, for every set of rules, every delay   *)
(* and every width of the clock that satisfies the named assumptions.      *)
(***************************************************************************)
EXTENDS Ecu, MillisProofs

-------------------------------------------------------------------------------
(* The type invariant.                                                     *)

(* What the choices of a cycle range over. *)
LEMMA CycleTypes ==
    ASSUME TypeOK, NEW gap \in 0 .. MaxGap, NEW work \in 0 .. MaxWork
    PROVE  /\ gap \in 0 .. Wrap - 1 /\ work \in 0 .. Wrap - 1
           /\ gap + work \in 0 .. Wrap - 1 /\ gap + work \in 0 .. MaxStep
           /\ gap + work < Wrap
           /\ Later(now, gap) \in Time
           /\ Later(Later(now, gap), work) \in Time
           /\ Later(Later(now, gap), work) = Later(now, gap + work)
<1>1. /\ gap \in 0 .. Wrap - 1 /\ work \in 0 .. Wrap - 1
      /\ gap + work \in 0 .. Wrap - 1 /\ gap + work \in 0 .. MaxStep
      /\ gap \in Nat /\ work \in Nat /\ gap + work < Wrap
  BY EcuAssumption, WrapAssumption, LimpAssumption DEF MaxStep
<1>2. now \in Time
  BY DEF TypeOK
<1>3. Later(now, gap) \in Time
  BY <1>1, <1>2, LaterIsTime
<1>4. Later(Later(now, gap), work) \in Time
  BY <1>1, <1>3, LaterIsTime
<1>5. Later(Later(now, gap), work) = Later(now, gap + work)
  BY <1>1, <1>2, LaterLater
<1>. QED  BY <1>1, <1>3, <1>4, <1>5

(* The rules a cycle looks at, and the one it meets in a rewrite.          *)
LEMMA Sensed ==
    ASSUME NEW start, NEW step, NEW work, SenseFaults(start, step, work)
    PROVE  \E mix \in Mixes : \E on \in SUBSET Rules :
              /\ EvaluateRules(start, on, mix) /\ TrackHeld(step, work, on, mix)
              /\ on \cap (skipped \cup DOMAIN mix) = {}
<1>1. PICK mix \in Mixes : \E on \in TriggerSets(Rules \ (skipped \cup DOMAIN mix), rpm) :
               EvaluateRules(start, on, mix) /\ TrackHeld(step, work, on, mix)
  BY DEF SenseFaults
<1>2. PICK on \in TriggerSets(Rules \ (skipped \cup DOMAIN mix), rpm) :
               EvaluateRules(start, on, mix) /\ TrackHeld(step, work, on, mix)
  BY <1>1
<1>3. on \subseteq Rules \ (skipped \cup DOMAIN mix)
  BY DEF TriggerSets, MustTrigger, MayTrigger
<1>. QED  BY <1>2, <1>3

(* One more cycle keeps a history within its bound.                        *)
LEMMA LongerIs ==
    ASSUME NEW held \in Int, held >= NotHeld, NEW step \in Nat, NEW work \in Nat, work <= step,
           NEW cap \in Nat
    PROVE  /\ Longer(held, step, work, cap) \in 0 .. cap
           /\ Longer(held, step, work, cap) \in Nat
           /\ Longer(held, step, work, cap) <= IF held = NotHeld THEN work ELSE held + step
           /\ Longer(held, step, work, cap) = cap \/ Longer(held, step, work, cap) >= work
           /\ Longer(held, step, work, cap) = cap \/ Longer(held, step, work, cap) >= held
BY DEF Longer, Least, NotHeld

(* An evaluation of the rules keeps the types of their debounce timers.    *)
LEMMA RulesTypePreserved ==
    ASSUME TypeOK, NEW gap \in 0 .. MaxGap, NEW work \in 0 .. MaxWork, NEW t \in Time,
           SenseFaults(t, gap + work, work)
    PROVE  RulesTypeOK'
<1>. USE DEF TypeOK, RulesTypeOK
<1>1. PICK mix \in Mixes : \E on \in SUBSET Rules :
              EvaluateRules(t, on, mix) /\ TrackHeld(gap + work, work, on, mix)
  BY Sensed
<1>2. PICK on \in SUBSET Rules :
              EvaluateRules(t, on, mix) /\ TrackHeld(gap + work, work, on, mix)
  BY <1>1
<1>3. DOMAIN mix \subseteq Rules
  <2>1. \A e, a : DOMAIN [r \in e |-> a] = e
    OBVIOUS
  <2>. QED  BY <2>1, RulesAssumption DEF Mixes
<1>4. debounceStart' \in [Rules -> Time]
  <2>1. 0 \in Time
    BY WrapAssumption DEF Time
  <2>2. \A r \in Rules : DebounceStartAfter(r, t, on) \in Time
    BY <2>1 DEF DebounceStartAfter
  <2>. QED  BY <1>2, <2>2 DEF EvaluateRules
<1>5. ruleActive' \in [Rules -> BOOLEAN]
  BY <1>2 DEF EvaluateRules
<1>6. sensorLimpFaults' \subseteq Bits /\ sensorCelFaults' \subseteq Bits /\ skipped' \subseteq Rules
  BY <1>2, <1>3 DEF EvaluateRules, BitsOf, Bits
<1>7. /\ gap + work \in Nat /\ work \in Nat /\ work <= gap + work
  BY EcuAssumption
<1>8. ASSUME NEW r \in Rules
      PROVE  /\ Longer(heldFor[r], gap + work, work, HoldCap[r]) \in 0 .. HoldCap[r]
             /\ seenFor[r] # Mixed =>
                  Longer(seenFor[r], gap + work, work, Rule[r].debounceMs) \in 0 .. Rule[r].debounceMs
             /\ HoldCap[r] \in Nat /\ Rule[r].debounceMs \in Nat
             /\ heldFor[r] \in Int /\ seenFor[r] \in Mixed .. Rule[r].debounceMs
  <2>1. HoldCap[r] \in Nat /\ Rule[r].debounceMs \in Nat
    BY RulesAssumption DEF RuleConfig
  <2>2. heldFor[r] \in Int /\ heldFor[r] >= NotHeld /\ seenFor[r] \in Mixed .. Rule[r].debounceMs
        /\ seenFor[r] \in Int /\ (seenFor[r] # Mixed => seenFor[r] >= NotHeld)
    BY DEF NotHeld, Mixed
  <2>. QED  BY <1>7, <2>1, <2>2, LongerIs
<1>9. ASSUME NEW r \in Rules
      PROVE  heldFor'[r] \in NotHeld .. HoldCap[r] /\ heldFor'[r] \in Int
  <2>1. heldFor'[r] \in {NotHeld, Longer(heldFor[r], gap + work, work, HoldCap[r])}
    BY <1>2 DEF TrackHeld
  <2>. QED  BY <1>8, <2>1 DEF NotHeld
<1>10. ASSUME NEW r \in Rules
       PROVE  seenFor'[r] \in Mixed .. Rule[r].debounceMs /\ seenFor'[r] \in Int
  <2>1. \/ seenFor'[r] \in {Mixed, NotHeld, seenFor[r]}
        \/ /\ seenFor[r] # Mixed
           /\ seenFor'[r] = Longer(seenFor[r], gap + work, work, Rule[r].debounceMs)
    BY <1>2 DEF TrackHeld
  <2>. QED  BY <1>8, <2>1 DEF Mixed, NotHeld
<1>11. heldFor' = [r \in Rules |-> heldFor'[r]] /\ seenFor' = [r \in Rules |-> seenFor'[r]]
  BY <1>2 DEF TrackHeld
<1>12. heldFor' \in [Rules -> Int] /\ seenFor' \in [Rules -> Int]
  BY <1>9, <1>10, <1>11
<1>. QED  BY <1>4, <1>5, <1>6, <1>9, <1>10, <1>12

(* The web server's task keeps them too.                                   *)
LEMMA WebConfigTyped ==
    ASSUME TypeOK, NEW q \in Rules,
           ResetRule(q) \/ MixLeaves(q, now, MaxWork) \/ SwitchSource(q)
    PROVE  RulesTypeOK'
<1>. USE DEF TypeOK, RulesTypeOK
<1>1. 0 \in Time /\ \A d \in 0 .. MaxWork : Earlier(now, d) \in Time
  BY WrapAssumption, EcuAssumption, LimpAssumption DEF Earlier, Time
<1>2. \A r \in Rules : HoldCap[r] \in Nat /\ Rule[r].debounceMs \in Nat
  BY RulesAssumption DEF RuleConfig
<1>3. /\ heldFor' \in [Rules -> Int] /\ seenFor' \in [Rules -> Int]
      /\ \A r \in Rules : heldFor'[r] \in {NotHeld, heldFor[r]} /\ seenFor'[r] \in {NotHeld, seenFor[r]}
  BY DEF ResetRule, MixLeaves, SwitchSource, NotHeld
<1>4. ASSUME NEW r \in Rules
      PROVE  heldFor'[r] \in NotHeld .. HoldCap[r] /\ seenFor'[r] \in Mixed .. Rule[r].debounceMs
  BY <1>2, <1>3 DEF NotHeld, Mixed
<1>5. /\ debounceStart' \in [Rules -> Time] /\ ruleActive' \in [Rules -> BOOLEAN]
      /\ sensorLimpFaults' \subseteq Bits /\ sensorCelFaults' \subseteq Bits
      /\ skipped' \subseteq Rules
  <2>1. CASE ResetRule(q)
    BY <1>1, <2>1 DEF ResetRule
  <2>2. CASE MixLeaves(q, now, MaxWork)
    BY <1>1, <2>2 DEF MixLeaves
  <2>3. CASE SwitchSource(q)
    BY <2>3 DEF SwitchSource
  <2>. QED  BY <2>1, <2>2, <2>3
<1>. QED  BY <1>3, <1>4, <1>5

(* An engine speed, a rev limit or an advance the environment supplies is  *)
(* one the type invariant allows.                                          *)
LEMMA LimpTypePreserved ==
    ASSUME TypeOK, NEW gap \in 0 .. MaxGap, NEW work \in 0 .. MaxWork,
           NEW t \in Time, NEW faults \in SUBSET FaultBits, NEW cel,
           NEW limit \in LimitsBeforeLimpCheck, NEW advance \in Advances,
           CheckExpanderHealth, CheckLimpMode(t, faults, cel, limit),
           PushAdvance(advance, limpActive'), TrackClean(gap + work, faults)
    PROVE  LimpTypeOK'
<1>. USE DEF TypeOK, LimpTypeOK
<1>1. limit \in Nat /\ LimpRevLimit \in Nat
  <2>1. CASE limpActive
    BY <2>1, LimpAssumption DEF LimitsBeforeLimpCheck
  <2>2. CASE ~limpActive
    BY <2>2, LimpAssumption DEF LimitsBeforeLimpCheck, Least
  <2>. QED  BY <2>1, <2>2
<1>2. /\ limpActive' \in BOOLEAN
      /\ limpFaults' \subseteq FaultBits
      /\ transLimp' \in BOOLEAN
  BY LimpAssumption DEF CheckLimpMode, EnterLimp, StayInLimp, StartRecovery, AwaitRecovery,
        ExitLimp, NoLimp
<1>3. /\ recoveryStart' \in Time
      /\ normalRevLimit' \in Nat /\ revLimit' \in Nat
  BY <1>1, WrapAssumption DEF CheckLimpMode, EnterLimp, StayInLimp, StartRecovery,
        AwaitRecovery, ExitLimp, NoLimp, Time
<1>4. celPin' \in BOOLEAN
  BY <1>2, PeripheralsAssumption DEF CheckLimpMode
<1>5. ignAdvance' \in Int
  BY LimpAssumption DEF PushAdvance
<1>6. healthCounter' \in 0 .. HealthPeriod - 1 /\ expanderFaulty' \in BOOLEAN
  BY LimpAssumption DEF CheckExpanderHealth
<1>7. dirty' \in BOOLEAN
  BY DEF TrackClean
<1>8. cleanFor' \in 0 .. CleanCap
  BY LimpAssumption, EcuAssumption DEF TrackClean, Least
<1>. QED  BY <1>2, <1>3, <1>4, <1>5, <1>6, <1>7, <1>8

(* A call of updateFuelPump keeps the types of the pump variables.         *)
LEMMA PumpTypePreserved ==
    ASSUME TypeOK, NEW gap \in 0 .. MaxGap, NEW work \in 0 .. MaxWork,
           NEW t \in Time, NEW running \in BOOLEAN,
           UpdateFuelPump(t, running), TrackBoot(gap + work, running)
    PROVE  PumpTypeOK'
<1>. USE DEF TypeOK, PumpTypeOK
<1>1. pumpPin' \in BOOLEAN /\ pumpRunning' \in BOOLEAN /\ primeStart' \in Time
  BY DEF UpdateFuelPump, SwitchPump
<1>2. pumpPriming' \in BOOLEAN
  BY DEF UpdateFuelPump
<1>3. hasRun' \in BOOLEAN
  BY DEF TrackBoot
<1>4. sinceBoot' \in 0 .. SinceBootCap
  BY PumpAssumption, EcuAssumption DEF TrackBoot, Least
<1>. QED  BY <1>1, <1>2, <1>3, <1>4

(* Every step of the system keeps the type invariant.                      *)
LEMMA TypeStep == TypeOK /\ [Next]_ecuVars => TypeOK'
<1>. SUFFICES ASSUME TypeOK, [Next]_ecuVars PROVE TypeOK'
  OBVIOUS
<1>1. ASSUME NEW gap \in 0 .. MaxGap, NEW work \in 0 .. MaxWork, Cycle(gap, work)
      PROVE  TypeOK'
  <2>1. PICK speed \in Rpms, limit \in LimitsBeforeLimpCheck, advance \in Advances :
             Control(Later(Later(now, gap), work), gap + work, speed, limit, advance)
    BY <1>1 DEF Cycle
  <2>2. RulesTypeOK'
    BY <1>1, CycleTypes, RulesTypePreserved DEF Cycle
  <2>3. FaultsNow(sensorLimpFaults', expanderFaulty') \in SUBSET FaultBits
    BY <2>2, EcuAssumption, LimpAssumption DEF FaultsNow, RulesTypeOK
  <2>4. LimpTypeOK'
    BY <2>1, <2>3, CycleTypes, LimpTypePreserved DEF Control
  <2>5. PumpTypeOK'
    <3>1. Running(speed) \in BOOLEAN
      BY DEF Running
    <3>. QED  BY <2>1, <3>1, CycleTypes, PumpTypePreserved DEF Control
  <2>6. now' \in Time /\ rpm' \in Rpms \cup {0}
    BY <2>1, CycleTypes DEF Control
  <2>. QED  BY <2>2, <2>4, <2>5, <2>6 DEF TypeOK
<1>2. CASE WebConfig
  <2>1. PICK r \in Rules : ResetRule(r) \/ MixLeaves(r, now, MaxWork) \/ SwitchSource(r)
    BY <1>2, RulesAssumption DEF WebConfig
  <2>2. RulesTypeOK'
    BY <2>1, WebConfigTyped
  <2>. QED  BY <1>2, <2>2 DEF WebConfig, TypeOK, LimpTypeOK, PumpTypeOK, limpVars, pumpVars
<1>3. CASE UNCHANGED ecuVars
  BY <1>3 DEF ecuVars, rulesVars, limpVars, pumpVars, TypeOK, RulesTypeOK, LimpTypeOK, PumpTypeOK
<1>. QED  BY <1>1, <1>2, <1>3 DEF Next

(* Every variable keeps the type the code declares for it. *)
THEOREM TypeCorrect == Spec => []TypeOK
<1>1. ASSUME Init PROVE TypeOK
  <2>1. RulesTypeOK
    <3>1. \A r \in Rules : HoldCap[r] \in Nat /\ Rule[r].debounceMs \in Nat
      BY RulesAssumption DEF RuleConfig
    <3>. QED  BY <1>1, <3>1, WrapAssumption DEF Init, RulesInit, RulesTypeOK, NotHeld, Mixed, Time
  <2>2. LimpTypeOK
    <3>1. 0 \in Time /\ 0 \in 0 .. HealthPeriod - 1 /\ 0 \in 0 .. CleanCap
      BY WrapAssumption, LimpAssumption DEF Time
    <3>2. LimpInit
      BY <1>1 DEF Init
    <3>3. /\ {limpActive, transLimp, celPin, expanderFaulty, dirty} \subseteq BOOLEAN
          /\ limpFaults \subseteq FaultBits
      BY <3>2 DEF LimpInit
    <3>4. normalRevLimit \in Nat /\ revLimit \in Nat /\ ignAdvance \in Int
      BY <3>2, LimpAssumption DEF LimpInit
    <3>5. recoveryStart \in Time /\ healthCounter \in 0 .. HealthPeriod - 1
          /\ cleanFor \in 0 .. CleanCap
      BY <3>1, <3>2 DEF LimpInit
    <3>. QED  BY <3>3, <3>4, <3>5 DEF LimpTypeOK
  <2>3. PumpTypeOK
    <3>1. 0 \in Time /\ 0 \in 0 .. SinceBootCap
      BY WrapAssumption, PumpAssumption DEF Time
    <3>2. (SpiExpandersEnabled /\ Expander0Enabled) \in BOOLEAN
      BY PeripheralsAssumption
    <3>3. /\ pumpPin \in BOOLEAN /\ pumpRunning \in BOOLEAN /\ pumpPriming \in BOOLEAN
          /\ hasRun \in BOOLEAN
      BY <1>1, <3>2 DEF Init, PumpInit
    <3>4. primeStart \in Time /\ sinceBoot \in 0 .. SinceBootCap
      BY <1>1, <3>1, PumpAssumption DEF Init, PumpInit
    <3>. QED  BY <3>3, <3>4 DEF PumpTypeOK
  <2>4. now \in Time /\ rpm \in Rpms \cup {0}
    BY <1>1, PumpAssumption DEF Init
  <2>. QED  BY <2>1, <2>2, <2>3, <2>4 DEF TypeOK
<1>. QED  BY <1>1, TypeStep, PTL DEF Spec

-------------------------------------------------------------------------------
(* The recovery timer.                                                     *)

(* What the timer means in real time.  After a faulty check it is off.     *)
(* After a clean one it is either still off, because the clock read 0, or  *)
(* it started at most one step after the first clean check and has not run *)
(* out.  The bounds rule out that `now - _limpRecoveryStart' ever wraps.   *)
RecoveryInv ==
    /\ dirty => limpActive /\ recoveryStart = 0 /\ cleanFor = 0
    /\ limpActive /\ ~dirty /\ recoveryStart = 0 => now = 0 /\ cleanFor = 0
    /\ limpActive /\ ~dirty /\ recoveryStart # 0 =>
          /\ Elapsed(now, recoveryStart) < RecoveryMs
          /\ Elapsed(now, recoveryStart) <= cleanFor
          /\ cleanFor <= Elapsed(now, recoveryStart) + MaxStep

(* What a cycle means to limp mode: a check of some mask, some step after  *)
(* the last one.                                                           *)
LEMMA CycleIsCheck ==
    ASSUME TypeOK, NEW gap \in 0 .. MaxGap, NEW work \in 0 .. MaxWork, Cycle(gap, work)
    PROVE  \E faults, cel : \E step \in 0 .. MaxStep, limit \in LimitsBeforeLimpCheck :
              /\ step < Wrap
              /\ now' = Later(now, step) /\ now' \in Time
              /\ CheckLimpMode(now', faults, cel, limit)
              /\ TrackClean(step, faults)
<1>1. PICK speed \in Rpms, limit \in LimitsBeforeLimpCheck, advance \in Advances :
           Control(Later(Later(now, gap), work), gap + work, speed, limit, advance)
  BY DEF Cycle
<1>. DEFINE faults == FaultsNow(sensorLimpFaults', expanderFaulty')
<1>2. /\ gap + work \in 0 .. MaxStep /\ gap + work < Wrap
      /\ Later(Later(now, gap), work) = Later(now, gap + work)
      /\ Later(Later(now, gap), work) \in Time
  BY CycleTypes
<1>3. /\ now' = Later(now, gap + work) /\ now' \in Time
      /\ CheckLimpMode(now', faults, sensorCelFaults', limit)
      /\ TrackClean(gap + work, faults)
  BY <1>1, <1>2 DEF Control
<1>. WITNESS faults, sensorCelFaults'
<1>. QED  BY <1>2, <1>3

(* One check preserves the meaning of the timer, and never leaves limp     *)
(* mode early.                                                             *)
LEMMA CheckStep ==
    ASSUME TypeOK, RecoveryInv, NEW step \in 0 .. MaxStep, step < Wrap,
           NEW faults, NEW cel, NEW limit,
           now' = Later(now, step), now' \in Time,
           CheckLimpMode(now', faults, cel, limit), TrackClean(step, faults)
    PROVE  /\ RecoveryInv'
           /\ limpActive /\ ~limpActive' => ~dirty' /\ cleanFor' >= RecoveryMs
<1>1. /\ now \in Time /\ recoveryStart \in Time /\ cleanFor \in 0 .. CleanCap
      /\ limpActive \in BOOLEAN /\ dirty \in BOOLEAN
      /\ step \in Nat /\ MaxStep \in Nat /\ RecoveryMs \in Nat /\ RecoveryMs > 0
      /\ CleanCap \in Nat /\ RecoveryMs + MaxStep <= CleanCap /\ RecoveryMs + MaxStep < Wrap
      /\ step \in 0 .. Wrap - 1 /\ Wrap \in Nat
  BY LimpAssumption, EcuAssumption, WrapAssumption DEF TypeOK, LimpTypeOK, MaxStep
<1>2. CASE EnterLimp(faults, limit) \/ StayInLimp(faults, limit)
  <2>1. faults # {} /\ limpActive' /\ recoveryStart' = 0
    BY <1>2 DEF EnterLimp, StayInLimp
  <2>2. cleanFor' = 0
    BY <2>1 DEF TrackClean
  <2>. QED  BY <2>1, <2>2 DEF RecoveryInv, TrackClean
<1>3. CASE StartRecovery(now', faults, limit)
  <2>1. /\ limpActive /\ limpActive' /\ recoveryStart = 0 /\ recoveryStart' = now' /\ ~dirty'
        /\ cleanFor' = IF dirty THEN 0 ELSE Least(cleanFor + step, CleanCap)
    BY <1>3 DEF StartRecovery, TrackClean
  <2>2. cleanFor = 0
    BY <1>1, <2>1 DEF RecoveryInv
  <2>3. Elapsed(now', now') = 0
    BY <1>1 DEF Elapsed, Time
  <2>4. cleanFor' \in 0 .. MaxStep
    BY <1>1, <2>1, <2>2 DEF Least
  <2>5. recoveryStart' = 0 => now' = 0 /\ cleanFor' = 0
    <3>1. now' = 0 /\ ~dirty => now = 0
      BY <1>1, <2>1 DEF RecoveryInv
    <3>2. now' = 0 /\ now = 0 => step = 0
      BY <1>1 DEF Later, Time
    <3>. QED  BY <1>1, <2>1, <2>2, <3>1, <3>2 DEF Least
  <2>. QED  BY <1>1, <2>1, <2>3, <2>4, <2>5 DEF RecoveryInv
<1>4. CASE AwaitRecovery(now', faults, limit) \/ ExitLimp(now', faults)
  <2>1. /\ limpActive /\ recoveryStart # 0 /\ recoveryStart' = recoveryStart
        /\ faults = {} /\ ~dirty'
        /\ cleanFor' = IF dirty THEN 0 ELSE Least(cleanFor + step, CleanCap)
    BY <1>4 DEF AwaitRecovery, ExitLimp, TrackClean
  <2>2. ~dirty
    BY <1>1, <2>1 DEF RecoveryInv
  <2>3. /\ Elapsed(now, recoveryStart) \in Nat
        /\ Elapsed(now, recoveryStart) < RecoveryMs
        /\ Elapsed(now, recoveryStart) <= cleanFor
        /\ cleanFor <= Elapsed(now, recoveryStart) + MaxStep
    BY <1>1, <2>1, <2>2, ElapsedIsTime DEF RecoveryInv, Time
  <2>4. Elapsed(now', recoveryStart) = Elapsed(now, recoveryStart) + step
    BY <1>1, <2>3, ElapsedExact
  <2>5. CASE AwaitRecovery(now', faults, limit)
    <3>1. limpActive' /\ Elapsed(now', recoveryStart) < RecoveryMs
      BY <2>5 DEF AwaitRecovery
    <3>2. /\ Elapsed(now', recoveryStart') <= cleanFor'
          /\ cleanFor' <= Elapsed(now', recoveryStart') + MaxStep
      BY <1>1, <2>1, <2>2, <2>3, <2>4, <3>1 DEF Least
    <3>. QED  BY <2>1, <3>1, <3>2 DEF RecoveryInv
  <2>6. CASE ExitLimp(now', faults)
    <3>1. ~limpActive' /\ Elapsed(now', recoveryStart) >= RecoveryMs
      BY <2>6 DEF ExitLimp
    <3>2. cleanFor' >= RecoveryMs
      BY <1>1, <2>1, <2>2, <2>3, <2>4, <3>1 DEF Least
    <3>. QED  BY <2>1, <3>1, <3>2 DEF RecoveryInv
  <2>. QED  BY <1>4, <2>5, <2>6
<1>5. CASE NoLimp(faults, limit)
  <2>1. ~limpActive' /\ ~limpActive /\ ~dirty'
    BY <1>5 DEF NoLimp, TrackClean
  <2>. QED  BY <2>1 DEF RecoveryInv
<1>. QED  BY <1>2, <1>3, <1>4, <1>5 DEF CheckLimpMode

(* Rewriting a rule, or switching its sensor, leaves limp mode and the clock alone. *)
LEMMA WebKeepsLimp ==
    WebConfig \/ UNCHANGED ecuVars => UNCHANGED <<limpVars, now>>
BY DEF WebConfig, ecuVars

(* Every step keeps the recovery invariant, and a step that leaves limp    *)
(* mode comes after a clean recovery delay.                                *)
LEMMA RecoveryStep ==
    ASSUME TypeOK, RecoveryInv, [Next]_ecuVars
    PROVE  /\ RecoveryInv'
           /\ limpActive /\ ~limpActive' => ~dirty' /\ cleanFor' >= RecoveryMs
<1>1. ASSUME NEW gap \in 0 .. MaxGap, NEW work \in 0 .. MaxWork, Cycle(gap, work)
      PROVE  /\ RecoveryInv'
             /\ limpActive /\ ~limpActive' => ~dirty' /\ cleanFor' >= RecoveryMs
  BY <1>1, CycleIsCheck, CheckStep
<1>2. CASE WebConfig \/ UNCHANGED ecuVars
  BY <1>2, WebKeepsLimp DEF limpVars, RecoveryInv
<1>. QED  BY <1>1, <1>2 DEF Next

(* The recovery timer never claims more clean time than there was, and     *)
(* runs whenever limp mode could end (ECU::checkLimpMode).                 *)
THEOREM RecoveryCorrect == Spec => []RecoveryInv
<1>1. Init => RecoveryInv
  BY DEF Init, LimpInit, RecoveryInv
<1>2. TypeOK /\ RecoveryInv /\ [Next]_ecuVars => RecoveryInv'
  BY RecoveryStep
<1>. QED  BY <1>1, <1>2, TypeCorrect, PTL DEF Spec

(* Limp mode is left only after RecoveryMs of real time without a fault. *)
THEOREM LimpExitIsLate == Spec => LimpEndsOnlyAfterRecovery
<1>1. TypeOK /\ RecoveryInv /\ [Next]_ecuVars =>
         [limpActive /\ ~limpActive' => ~dirty' /\ cleanFor' >= RecoveryMs]_ecuVars
  BY RecoveryStep
<1>. QED  BY <1>1, TypeCorrect, RecoveryCorrect, PTL DEF Spec, LimpEndsOnlyAfterRecovery

(* The recovery invariant bounds how long limp mode outlasts its cause.    *)
LEMMA RecoveryIsPrompt == TypeOK /\ RecoveryInv => LimpEndsInTime
<1>. SUFFICES ASSUME TypeOK, RecoveryInv, limpActive, cleanFor >= RecoveryMs + MaxStep
              PROVE  FALSE
  BY DEF LimpEndsInTime
<1>1. /\ now \in Time /\ recoveryStart \in Time /\ RecoveryMs \in Nat /\ MaxStep \in Nat
      /\ RecoveryMs > 0 /\ cleanFor \in Nat
  BY LimpAssumption, EcuAssumption DEF TypeOK, LimpTypeOK, MaxStep
<1>2. Elapsed(now, recoveryStart) \in Nat
  BY <1>1, ElapsedIsTime DEF Time
<1>. QED  BY <1>1, <1>2 DEF RecoveryInv

(* And it is left, at the latest, one step after RecoveryMs. *)
THEOREM LimpExitIsPrompt == Spec => []LimpEndsInTime
BY RecoveryIsPrompt, TypeCorrect, RecoveryCorrect, PTL

-------------------------------------------------------------------------------
(* Limp mode implements LimpSpec.                                          *)

(* A call of checkLimpMode is a step of the abstract limp mode.            *)
LEMMA CheckRefines ==
    ASSUME TypeOK, RecoveryInv, TypeOK', RecoveryInv',
           NEW step \in 0 .. MaxStep, step < Wrap, NEW faults, NEW cel, NEW limit,
           now' = Later(now, step), now' \in Time,
           CheckLimpMode(now', faults, cel, limit), TrackClean(step, faults)
    PROVE  Limp!Next
<1>1. CASE faults # {}
  <2>1. limpActive' = TRUE
    <3>1. limpActive'
      BY <1>1 DEF CheckLimpMode, EnterLimp, StayInLimp, StartRecovery, AwaitRecovery, ExitLimp,
                  NoLimp
    <3>. QED  BY <3>1 DEF TypeOK, LimpTypeOK
  <2>2. dirty' = TRUE /\ cleanFor' = 0
    BY <1>1 DEF TrackClean
  <2>. QED  BY <2>1, <2>2 DEF Limp!Next, Limp!FaultFound
<1>2. CASE faults = {}
  <2>1. dirty' = FALSE
    BY <1>2 DEF TrackClean
  <2>2. cleanFor' = IF dirty THEN 0
                    ELSE IF cleanFor + step < CleanCap THEN cleanFor + step ELSE CleanCap
    <3>1. CASE dirty
      BY <1>2, <3>1 DEF TrackClean
    <3>2. CASE ~dirty
      <4>1. cleanFor' = Least(cleanFor + step, CleanCap)
        BY <1>2, <3>2 DEF TrackClean
      <4>2. cleanFor + step \in Int /\ CleanCap \in Int
        BY LimpAssumption, EcuAssumption DEF TypeOK, LimpTypeOK
      <4>. QED  BY <3>2, <4>1, <4>2 DEF Least
    <3>. QED  BY <3>1, <3>2
  <2>3. limpActive' = limpActive \/ (limpActive /\ cleanFor' >= RecoveryMs /\ limpActive' = FALSE)
    <3>1. (limpActive /\ ~limpActive') => cleanFor' >= RecoveryMs
      BY CheckStep
    <3>2. ~limpActive => ~limpActive'
      BY <1>2 DEF CheckLimpMode, EnterLimp, StayInLimp, StartRecovery, AwaitRecovery, ExitLimp,
                  NoLimp
    <3>. QED  BY <3>1, <3>2 DEF TypeOK, LimpTypeOK
  <2>4. cleanFor' >= RecoveryMs + MaxStep => ~limpActive'
    <3>1. (TypeOK /\ RecoveryInv => LimpEndsInTime)'
      BY RecoveryIsPrompt, PTL
    <3>. QED  BY <3>1 DEF LimpEndsInTime
  <2>5. Limp!CleanCheck(step)
    BY <2>1, <2>2, <2>3, <2>4 DEF Limp!CleanCheck
  <2>. QED  BY <2>5 DEF Limp!Next
<1>. QED  BY <1>1, <1>2

(* Every behaviour of the ECU cycle, with its timers, rules, wrapping      *)
(* clock and web server, is one LimpSpec allows.                           *)
THEOREM LimpRefines == Spec => LimpKeepsPromise
<1>1. Init => Limp!Init
  BY DEF Init, LimpInit, Limp!Init
<1>2. TypeOK /\ RecoveryInv /\ TypeOK' /\ RecoveryInv' /\ [Next]_ecuVars
         => [Limp!Next]_<<limpActive, dirty, cleanFor>>
  <2>. SUFFICES ASSUME TypeOK, RecoveryInv, TypeOK', RecoveryInv', [Next]_ecuVars
                PROVE  [Limp!Next]_<<limpActive, dirty, cleanFor>>
    OBVIOUS
  <2>1. ASSUME NEW gap \in 0 .. MaxGap, NEW work \in 0 .. MaxWork, Cycle(gap, work)
        PROVE  Limp!Next
    BY <2>1, CycleIsCheck, CheckRefines
  <2>2. CASE WebConfig \/ UNCHANGED ecuVars
    BY <2>2, WebKeepsLimp DEF limpVars
  <2>. QED  BY <2>1, <2>2 DEF Next
<1>. QED
  BY <1>1, <1>2, TypeCorrect, RecoveryCorrect, PTL
  DEF Spec, LimpKeepsPromise, Limp!Spec, Limp!limpSpecVars

-------------------------------------------------------------------------------
(* The protections of limp mode.                                           *)

(* Every step keeps the protections of limp mode and the saved rev limit.  *)
LEMMA ProtectStep ==
    ASSUME TypeOK, LimpProtects, RevLimitSurvivesLimp, [Next]_ecuVars
    PROVE  LimpProtects' /\ RevLimitSurvivesLimp'
<1>1. ASSUME NEW gap \in 0 .. MaxGap, NEW work \in 0 .. MaxWork, Cycle(gap, work)
      PROVE  LimpProtects' /\ RevLimitSurvivesLimp'
  <2>1. PICK speed \in Rpms, limit \in LimitsBeforeLimpCheck, advance \in Advances :
             Control(Later(Later(now, gap), work), gap + work, speed, limit, advance)
    BY <1>1 DEF Cycle
  <2>2. PICK faults, t, cel : CheckLimpMode(t, faults, cel, limit)
    BY <2>1 DEF Control
  <2>3. PushAdvance(advance, limpActive')
    BY <2>1 DEF Control
  <2>4. /\ limpActive => limit = revLimit
        /\ ~limpActive => limit \in NormalLimits
    BY DEF LimitsBeforeLimpCheck, NormalLimits
  <2>5. limpActive' => ignAdvance' <= LimpAdvanceCap
    BY <2>3, LimpAssumption DEF PushAdvance
  <2>6. limpActive' /\ I2cEnabled /\ Expander0Enabled => celPin'
    BY <2>2 DEF CheckLimpMode
  <2>7. /\ limpActive' => revLimit' = LimpRevLimit /\ transLimp' = HasTrans
        /\ limpActive' => normalRevLimit' \in NormalLimits
        /\ ~limpActive' => revLimit' \in NormalLimits
    BY <2>2, <2>4 DEF CheckLimpMode, EnterLimp, StayInLimp, StartRecovery, AwaitRecovery,
          ExitLimp, NoLimp, LimpProtects, RevLimitSurvivesLimp
  <2>. QED  BY <2>5, <2>6, <2>7 DEF LimpProtects, RevLimitSurvivesLimp, NormalLimits
<1>2. CASE WebConfig \/ UNCHANGED ecuVars
  BY <1>2, WebKeepsLimp DEF limpVars, LimpProtects, RevLimitSurvivesLimp, NormalLimits
<1>. QED  BY <1>1, <1>2 DEF Next

(* In limp mode every protection is on, and the limit the engine had       *)
(* before, or gets back after, is a normal one: each needs the other.      *)
LEMMA ProtectionTogether == Spec => [](LimpProtects /\ RevLimitSurvivesLimp)
<1>1. Init => LimpProtects /\ RevLimitSurvivesLimp
  BY DEF Init, LimpInit, LimpProtects, RevLimitSurvivesLimp, NormalLimits
<1>2. TypeOK /\ LimpProtects /\ RevLimitSurvivesLimp /\ [Next]_ecuVars
         => LimpProtects' /\ RevLimitSurvivesLimp'
  BY ProtectStep
<1>. QED  BY <1>1, <1>2, TypeCorrect, PTL DEF Spec

(* While limp mode is on (ECU::checkLimpMode), all of its protections are. *)
THEOREM LimpProtection == Spec => []LimpProtects
BY ProtectionTogether, PTL

(* The rev limit the engine had before limp mode is never lost.            *)
THEOREM RevLimitKept == Spec => []RevLimitSurvivesLimp
BY ProtectionTogether, PTL

-------------------------------------------------------------------------------
(* The debounce timers.                                                    *)

(* A running timer has seen no more time than has gone by since its rule   *)
(* was last found untrue, and an active rule has had its debounce time.    *)
Debounced(r) ==
    /\ debounceStart[r] # 0 =>
          /\ seenFor[r] >= 0
          /\ seenFor[r] = Rule[r].debounceMs \/ Elapsed(now, debounceStart[r]) <= seenFor[r]
    /\ ruleActive[r] => seenFor[r] >= Rule[r].debounceMs

(* So it is for every rule whose latest reset has met no evaluation.       *)
DebounceInv == \A r \in Rules : seenFor[r] # Mixed => Debounced(r)

(* A timer that was running at the evaluation, or has been started by it,  *)
(* is at the end of the cycle no older than the history says.              *)
LEMMA AgeStep ==
    ASSUME TypeOK, NEW gap \in 0 .. MaxGap, NEW work \in 0 .. MaxWork, NEW r \in Rules,
           debounceStart[r] # 0, seenFor[r] # Mixed, Debounced(r)
    PROVE  LET held == Longer(seenFor[r], gap + work, work, Rule[r].debounceMs)
           IN  /\ \/ held = Rule[r].debounceMs
                  \/ Elapsed(Later(now, gap), debounceStart[r]) <= held
               /\ \/ held = Rule[r].debounceMs
                  \/ Elapsed(Later(now, gap + work), debounceStart[r]) <= held
<1>. DEFINE d == Rule[r].debounceMs
            h == seenFor[r]
<1>1. /\ now \in Time /\ debounceStart[r] \in Time /\ h \in Int /\ h >= 0 /\ d \in Nat
      /\ h = d \/ Elapsed(now, debounceStart[r]) <= h
  BY RulesAssumption DEF TypeOK, RulesTypeOK, RuleConfig, Debounced
<1>2. /\ gap \in 0 .. Wrap - 1 /\ gap + work \in 0 .. Wrap - 1
      /\ gap \in Nat /\ work \in Nat
  BY CycleTypes
<1>3. PICK age \in Nat, mid \in Nat, end \in Nat :
         /\ age = Elapsed(now, debounceStart[r])
         /\ mid = Elapsed(Later(now, gap), debounceStart[r]) /\ mid <= age + gap
         /\ end = Elapsed(Later(now, gap + work), debounceStart[r]) /\ end <= age + (gap + work)
  BY <1>1, <1>2, ElapsedGrows
<1>4. Longer(h, gap + work, work, d) = IF h + (gap + work) < d THEN h + (gap + work) ELSE d
  BY <1>1, <1>2 DEF Longer, Least, NotHeld
<1>. QED  BY <1>1, <1>2, <1>3, <1>4

(* What one evaluation (SensorManager::evaluateRules) does to the debounce *)
(* of a rule it looks at, or passes over.                                  *)
LEMMA EvaluationStep ==
    ASSUME TypeOK, DebounceInv, NEW gap \in 0 .. MaxGap, NEW work \in 0 .. MaxWork,
           NEW mix \in Mixes, NEW on \in SUBSET Rules, on \cap (skipped \cup DOMAIN mix) = {},
           EvaluateRules(Later(now, gap), on, mix), TrackHeld(gap + work, work, on, mix),
           now' = Later(Later(now, gap), work), NEW r \in Rules, seenFor'[r] # Mixed
    PROVE  Debounced(r)'
<1>. DEFINE start == Later(now, gap)
            d == Rule[r].debounceMs
            held == Longer(seenFor[r], gap + work, work, d)
<1>1. /\ now \in Time /\ debounceStart[r] \in Time /\ ruleActive[r] \in BOOLEAN
      /\ seenFor[r] \in Int /\ seenFor[r] >= Mixed /\ d \in Nat
  BY RulesAssumption DEF TypeOK, RulesTypeOK, RuleConfig, Mixed
<1>2. /\ start \in Time /\ now' \in Time /\ now' = Later(now, gap + work)
      /\ work \in 0 .. Wrap - 1
      /\ gap \in Nat /\ work \in Nat /\ gap + work \in Nat /\ work <= gap + work
  BY CycleTypes
<1>3. r \notin DOMAIN mix
  BY DEF TrackHeld
<1>4. CASE r \notin on \cup skipped
  <2>1. debounceStart'[r] = 0 /\ ruleActive'[r] = FALSE
    BY <1>3, <1>4 DEF EvaluateRules, DebounceStartAfter
  <2>. QED  BY <2>1 DEF Debounced
<1>5. CASE r \in on \cup skipped
  <2>1. seenFor[r] # Mixed /\ Debounced(r)
    BY <1>3, <1>5 DEF TrackHeld, DebounceInv
  <2>2. /\ held \in Nat /\ held <= d /\ seenFor[r] >= NotHeld
        /\ (held = d \/ held >= work) /\ (held = d \/ held >= seenFor[r])
    <3>1. seenFor[r] >= NotHeld
      BY <1>1, <2>1 DEF NotHeld, Mixed
    <3>2. held \in 0 .. d /\ held \in Nat
          /\ (held = d \/ held >= work) /\ (held = d \/ held >= seenFor[r])
      BY <1>1, <1>2, <3>1, LongerIs
    <3>. QED  BY <1>1, <3>1, <3>2
  <2>3. debounceStart[r] # 0 =>
           /\ held = d \/ Elapsed(start, debounceStart[r]) <= held
           /\ held = d \/ Elapsed(now', debounceStart[r]) <= held
    BY <1>2, <2>1, AgeStep
  <2>4. ruleActive[r] => seenFor[r] >= d /\ seenFor[r] >= 0
    BY <1>1, <2>1 DEF Debounced
  <2>. HIDE DEF held
  <2>5. PICK h2 \in Int : h2 = held
    BY <2>2
  <2>6. CASE r \in on
    <3>1. /\ debounceStart'[r] = DebounceStartAfter(r, start, on)
          /\ ruleActive'[r] => Confirmed(r, start) \/ ruleActive[r]
          /\ seenFor'[r] = h2
      BY <1>3, <2>1, <2>5, <2>6 DEF EvaluateRules, TrackHeld, held
    <3>2. Elapsed(now', start) = work
      <4>1. Elapsed(Later(start, work), start) = work
        BY <1>2, ElapsedSince
      <4>. QED  BY <4>1
    <3>3. debounceStart'[r] # 0 => h2 = d \/ Elapsed(now', debounceStart'[r]) <= h2
      BY <1>1, <1>2, <2>2, <2>3, <2>5, <2>6, <3>1, <3>2 DEF DebounceStartAfter
    <3>4. Confirmed(r, start) => h2 >= d
      <4>1. debounceStart[r] # 0 => Elapsed(start, debounceStart[r]) \in Int
        BY <1>1, <1>2, ElapsedIsInt
      <4>. QED  BY <1>1, <2>2, <2>3, <2>5, <4>1 DEF Confirmed
    <3>5. ruleActive[r] => h2 >= d
      BY <1>1, <2>2, <2>4, <2>5
    <3>. QED  BY <2>2, <2>5, <3>1, <3>3, <3>4, <3>5 DEF Debounced
  <2>7. CASE r \notin on
    <3>1. debounceStart'[r] = debounceStart[r] /\ ruleActive'[r] = ruleActive[r]
      BY <1>5, <2>7 DEF EvaluateRules
    <3>2. CASE seenFor[r] = NotHeld
      <4>1. seenFor'[r] = seenFor[r]
        BY <1>3, <1>5, <2>7, <3>2 DEF TrackHeld
      <4>2. debounceStart[r] = 0
        BY <2>1, <3>2 DEF Debounced, NotHeld
      <4>. QED  BY <2>1, <3>1, <4>1, <4>2 DEF Debounced
    <3>3. CASE seenFor[r] # NotHeld
      <4>1. seenFor'[r] = h2
        BY <1>3, <1>5, <2>1, <2>5, <2>7, <3>3 DEF TrackHeld, held
      <4>2. ruleActive[r] => h2 >= d
        BY <1>1, <2>2, <2>4, <2>5
      <4>. QED  BY <2>2, <2>3, <2>5, <3>1, <4>1, <4>2 DEF Debounced
    <3>. QED  BY <3>2, <3>3
  <2>. QED  BY <2>6, <2>7
<1>. QED  BY <1>4, <1>5

(* No debounce timer is older than the time since its condition was last   *)
(* found untrue, and an active rule has had its debounce time.             *)
THEOREM DebounceCorrect == Spec => []DebounceInv
<1>1. Init => DebounceInv
  BY DEF Init, RulesInit, DebounceInv, Debounced
<1>2. TypeOK /\ DebounceInv /\ [Next]_ecuVars => DebounceInv'
  <2>. SUFFICES ASSUME TypeOK, DebounceInv, [Next]_ecuVars PROVE DebounceInv'
    OBVIOUS
  <2>1. ASSUME NEW gap \in 0 .. MaxGap, NEW work \in 0 .. MaxWork, Cycle(gap, work)
        PROVE  DebounceInv'
    <3>1. /\ SenseFaults(Later(now, gap), gap + work, work)
          /\ now' = Later(Later(now, gap), work)
      BY <2>1 DEF Cycle, Control
    <3>2. PICK mix \in Mixes : \E on \in SUBSET Rules :
              /\ EvaluateRules(Later(now, gap), on, mix) /\ TrackHeld(gap + work, work, on, mix)
              /\ on \cap (skipped \cup DOMAIN mix) = {}
      BY <3>1, Sensed
    <3>. QED  BY <3>1, <3>2, EvaluationStep DEF DebounceInv
  <2>2. CASE WebConfig
    <3>1. PICK q \in Rules : ResetRule(q) \/ MixLeaves(q, now, MaxWork) \/ SwitchSource(q)
      BY <2>2, RulesAssumption DEF WebConfig
    <3>2. now' = now
      BY <2>2 DEF WebConfig
    <3>3. ASSUME NEW r \in Rules
          PROVE  \/ debounceStart'[r] = 0 /\ ~ruleActive'[r]
                 \/ seenFor'[r] = Mixed
                 \/ /\ debounceStart'[r] = debounceStart[r] /\ ruleActive'[r] = ruleActive[r]
                    /\ seenFor'[r] = seenFor[r]
      BY <3>1 DEF ResetRule, MixLeaves, SwitchSource, TypeOK, RulesTypeOK
    <3>. QED  BY <3>2, <3>3 DEF DebounceInv, Debounced
  <2>3. CASE UNCHANGED ecuVars
    BY <2>3 DEF ecuVars, rulesVars, DebounceInv, Debounced
  <2>. QED  BY <2>1, <2>2, <2>3 DEF Next
<1>. QED  BY <1>1, <1>2, TypeCorrect, PTL DEF Spec

(* No rule becomes active before its condition has gone undenied for its   *)
(* debounce, however often its sensor is switched off and on meanwhile.    *)
THEOREM FaultsAreDebounced == Spec => []FaultRaisedOnlyAfterDebounce
<1>1. DebounceInv => FaultRaisedOnlyAfterDebounce
  BY DEF DebounceInv, Debounced, FaultRaisedOnlyAfterDebounce
<1>. QED  BY <1>1, DebounceCorrect, PTL

-------------------------------------------------------------------------------
(* The fuel pump.                                                          *)

(* While the prime lasts the pump is on, so its end has nothing to switch  *)
(* when the engine already runs.                                           *)
PumpInv ==
    /\ pumpPin = pumpRunning
    /\ pumpPriming => pumpPin = TRUE
    /\ PumpFollowsEngine

(* Where the relay is under control, it follows the engine once primed. *)
THEOREM PumpCorrect == Spec => []PumpFollowsEngine
<1>1. Init => PumpInv
  <2>. SUFFICES ASSUME Init PROVE PumpInv
    OBVIOUS
  <2>. DEFINE primes == SpiExpandersEnabled /\ Expander0Enabled
  <2>1. primes \in BOOLEAN
    BY PeripheralsAssumption
  <2>2. pumpPin = primes /\ pumpRunning = primes /\ pumpPriming = primes /\ rpm = 0
    BY DEF Init, PumpInit
  <2>3. Running(rpm) = FALSE
    BY <2>2 DEF Running
  <2>. HIDE DEF primes
  <2>. QED  BY <2>1, <2>2, <2>3 DEF PumpInv, PumpFollowsEngine
<1>2. TypeOK /\ PumpInv /\ [Next]_ecuVars => PumpInv'
  <2>. SUFFICES ASSUME TypeOK, PumpInv, [Next]_ecuVars PROVE PumpInv'
    OBVIOUS
  <2>1. ASSUME NEW gap \in 0 .. MaxGap, NEW work \in 0 .. MaxWork, Cycle(gap, work)
        PROVE  PumpInv'
    <3>. DEFINE t == Later(Later(now, gap), work)
    <3>1. PICK speed \in Rpms : UpdateFuelPump(t, Running(speed)) /\ rpm' = speed
      BY <2>1 DEF Cycle, Control
    <3>2. Running(speed) \in BOOLEAN /\ pumpRunning \in BOOLEAN
      BY DEF Running, TypeOK, PumpTypeOK
    <3>. HIDE DEF t
    <3>3. pumpPin' = pumpRunning'
      BY <3>1 DEF UpdateFuelPump, SwitchPump, PumpInv
    <3>4. ASSUME I2cEnabled, Expander0Enabled, ~pumpPriming'
          PROVE  pumpPin' = Running(speed)
      <4>1. /\ pumpPriming /\ Elapsed(t, primeStart) >= PrimeMs /\ ~Running(speed)
                  => pumpPin' = Running(speed)
            /\ pumpPriming /\ Running(speed) => pumpPin' = pumpPin
            /\ pumpPriming => Elapsed(t, primeStart) >= PrimeMs
            /\ ~pumpPriming /\ Running(speed) # pumpRunning => pumpPin' = Running(speed)
            /\ ~pumpPriming /\ Running(speed) = pumpRunning => pumpPin' = pumpPin
        BY <3>1, <3>4 DEF UpdateFuelPump, SwitchPump
      <4>. QED  BY <3>2, <4>1 DEF PumpInv
    <3>5. pumpPriming' => pumpPin' = TRUE
      BY <3>1 DEF UpdateFuelPump, SwitchPump, PumpInv
    <3>. QED  BY <3>1, <3>3, <3>4, <3>5 DEF PumpInv, PumpFollowsEngine
  <2>2. CASE WebConfig \/ UNCHANGED ecuVars
    BY <2>2 DEF WebConfig, ecuVars, pumpVars, PumpInv, PumpFollowsEngine, Running
  <2>. QED  BY <2>1, <2>2 DEF Next
<1>. QED  BY <1>1, <1>2, TypeCorrect, PTL DEF Spec, PumpInv


(* The prime is over before the clock has made a lap of it, and the bound  *)
(* of the history does not hide its end.                                   *)
PrimeFits == PrimeMs + MaxStep <= Wrap /\ PrimeMs <= SinceBootCap

(* What primes the pump can also switch it off.  The flags are separate    *)
(* check boxes; without I2C the prime never ends, a finding of its own.    *)
PrimeCanEnd == SpiExpandersEnabled /\ Expander0Enabled => I2cEnabled

(* The prime lasts as long as the clock says, and an engine that runs has. *)
PrimeInv ==
    /\ Running(rpm) => hasRun
    /\ pumpPriming => /\ sinceBoot < PrimeMs
                      /\ primeStart = BootTime /\ Elapsed(now, primeStart) = sinceBoot
    /\ ~(I2cEnabled /\ Expander0Enabled) => ~pumpPin /\ ~pumpPriming

(* A cycle in the prime ends it when its time is up. *)
LEMMA PrimeStep ==
    ASSUME TypeOK, PrimeInv, PrimeFits, NEW gap \in 0 .. MaxGap, NEW work \in 0 .. MaxWork,
           NEW speed \in Rpms, rpm' = speed, now' = Later(Later(now, gap), work),
           UpdateFuelPump(now', Running(speed)), TrackBoot(gap + work, Running(speed))
    PROVE  PrimeInv'
<1>1. Running(rpm)' => hasRun'
  BY DEF TrackBoot, Running
<1>2. ~(I2cEnabled /\ Expander0Enabled) => ~pumpPin' /\ ~pumpPriming'
  BY DEF UpdateFuelPump, PrimeInv
<1>3. ASSUME pumpPriming' PROVE /\ sinceBoot' < PrimeMs
                                /\ primeStart' = BootTime /\ Elapsed(now', primeStart') = sinceBoot'
  <2>1. pumpPriming /\ primeStart' = primeStart /\ I2cEnabled /\ Expander0Enabled
    BY <1>3 DEF UpdateFuelPump, PrimeInv
  <2>2. ~(Elapsed(now', primeStart) >= PrimeMs)
    BY <1>3, <2>1 DEF UpdateFuelPump
  <2>3. sinceBoot < PrimeMs /\ primeStart = BootTime /\ Elapsed(now, primeStart) = sinceBoot
    BY <2>1 DEF PrimeInv
  <2>4. /\ sinceBoot \in Nat /\ PrimeMs \in Nat /\ gap + work \in 0 .. MaxStep /\ MaxStep \in Nat
        /\ PrimeMs + MaxStep <= Wrap /\ PrimeMs <= SinceBootCap /\ SinceBootCap \in Nat
        /\ now \in Time /\ primeStart \in Time /\ gap + work \in 0 .. Wrap - 1
        /\ now' = Later(now, gap + work) /\ Wrap \in Nat
    BY CycleTypes, PumpAssumption, EcuAssumption, WrapAssumption
       DEF TypeOK, PumpTypeOK, PrimeFits, MaxStep
  <2>5. Elapsed(now', primeStart) = sinceBoot + (gap + work)
    <3>1. Elapsed(now, primeStart) + (gap + work) < Wrap
      BY <2>3, <2>4
    <3>. QED  BY <2>3, <2>4, <3>1, ElapsedExact
  <2>6. sinceBoot + (gap + work) < PrimeMs
    BY <2>2, <2>4, <2>5
  <2>7. sinceBoot' = sinceBoot + (gap + work)
    BY <2>4, <2>6 DEF TrackBoot, Least
  <2>. QED  BY <2>1, <2>3, <2>5, <2>6, <2>7
<1>. QED  BY <1>1, <1>2, <1>3 DEF PrimeInv

(* "Fuel pump relay -- prime on startup, then off until engine runs", for  *)
(* every prime time, wherever the clock wraps, as long as the flags that   *)
(* switch the pump on include those that switch it off.                    *)
THEOREM PumpWaitsForEngine == PrimeFits /\ PrimeCanEnd /\ Spec => []PumpOffUntilEngineRuns
<1>1. PrimeFits /\ PrimeCanEnd /\ Init => PrimeInv
  <2>. SUFFICES ASSUME PrimeFits, PrimeCanEnd, Init PROVE PrimeInv
    OBVIOUS
  <2>1. /\ rpm = 0 /\ sinceBoot = 0 /\ now = BootTime
        /\ pumpPin = (SpiExpandersEnabled /\ Expander0Enabled)
        /\ pumpPriming = (SpiExpandersEnabled /\ Expander0Enabled)
        /\ pumpPriming => primeStart = BootTime
    BY DEF Init, PumpInit
  <2>2. ~Running(rpm)
    BY <2>1 DEF Running
  <2>3. Elapsed(BootTime, BootTime) = 0 /\ 0 < PrimeMs
    BY PumpAssumption, WrapAssumption DEF Elapsed, Time
  <2>. QED  BY <2>1, <2>2, <2>3 DEF PrimeInv, PrimeCanEnd
<1>2. PrimeFits /\ TypeOK /\ PrimeInv /\ [Next]_ecuVars => PrimeInv'
  <2>. SUFFICES ASSUME PrimeFits, TypeOK, PrimeInv, [Next]_ecuVars PROVE PrimeInv'
    OBVIOUS
  <2>1. ASSUME NEW gap \in 0 .. MaxGap, NEW work \in 0 .. MaxWork, Cycle(gap, work)
        PROVE  PrimeInv'
    <3>1. PICK speed \in Rpms :
             /\ rpm' = speed /\ now' = Later(Later(now, gap), work)
             /\ UpdateFuelPump(now', Running(speed)) /\ TrackBoot(gap + work, Running(speed))
      BY <2>1 DEF Cycle, Control
    <3>. QED  BY <3>1, PrimeStep
  <2>2. CASE WebConfig \/ UNCHANGED ecuVars
    BY <2>2 DEF WebConfig, ecuVars, pumpVars, PrimeInv, Running
  <2>. QED  BY <2>1, <2>2 DEF Next
<1>3. TypeOK /\ PrimeInv /\ PumpFollowsEngine => PumpOffUntilEngineRuns
  <2>. SUFFICES ASSUME TypeOK, PrimeInv, PumpFollowsEngine, sinceBoot >= PrimeMs, ~hasRun
                PROVE  ~pumpPin
    BY DEF PumpOffUntilEngineRuns
  <2>1. ~(sinceBoot < PrimeMs)
    BY PumpAssumption DEF TypeOK, PumpTypeOK
  <2>2. ~pumpPriming /\ ~Running(rpm)
    BY <2>1 DEF PrimeInv
  <2>. QED  BY <2>2 DEF PrimeInv, PumpFollowsEngine
<1>4. PrimeFits => PrimeFits'
  BY DEF PrimeFits, MaxStep
<1>. QED  BY <1>1, <1>2, <1>3, <1>4, TypeCorrect, PumpCorrect, PTL DEF Spec

-------------------------------------------------------------------------------
(* A fault that lasts.                                                     *)

(* What the debounce timer of r shows.                                     *)
Age(r) == Elapsed(now, debounceStart[r])

(* What the cycles in which r has been triggering have brought.  A timer   *)
(* past the debounce has been noticed.  One that is not is either in its   *)
(* first lap, and as old as the condition but for the cycle that is lost   *)
(* when the clock reads 0, or back at 0 after a lap; then the engine is in *)
(* limp mode and has had no clean check before that.                       *)
HeldRule(r) ==
    heldFor[r] # NotHeld =>
        /\ Rule[r].debounceMs = 0 => limpActive /\ dirty
        /\ Rule[r].debounceMs > 0 /\ debounceStart[r] = 0 => heldFor[r] <= now /\ now <= MaxWork
        /\ Rule[r].debounceMs > 0 /\ debounceStart[r] # 0 =>
              /\ Age(r) >= Rule[r].debounceMs + MaxWork => limpActive /\ dirty
              /\ \/ heldFor[r] <= Age(r) + MaxStep
                 \/ limpActive /\ (dirty \/ cleanFor <= Age(r))

HeldInv == \A r \in Rules : CausesLimp(r) => HeldRule(r)

(* The recovery delay is longer than any limp rule's debounce, by the time *)
(* a check comes after the evaluation.  The defaults keep it far (5 s and  *)
(* at most 3 s), but the code does not enforce it.                         *)
RecoveryBridgesDebounce ==
    \A r \in Rules : CausesLimp(r) => Rule[r].debounceMs + MaxWork <= RecoveryMs

(* What limp mode makes of a cycle: a confirmed limp rule is a fault, a    *)
(* clean check takes at most the time since the last one.                  *)
LEMMA CycleHeeds ==
    ASSUME TypeOK, RecoveryInv, NEW gap \in 0 .. MaxGap, NEW work \in 0 .. MaxWork,
           Cycle(gap, work), NEW mix \in Mixes, NEW on \in SUBSET Rules,
           EvaluateRules(Later(now, gap), on, mix), NEW r \in Rules, CausesLimp(r)
    PROVE  /\ r \in on /\ Confirmed(r, Later(now, gap)) => limpActive' /\ dirty'
           /\ dirty' => limpActive'
           /\ ~dirty' /\ dirty => cleanFor' = 0
           /\ ~dirty' /\ ~dirty => cleanFor' <= cleanFor + (gap + work)
           /\ limpActive /\ ~limpActive' => ~dirty' /\ cleanFor' >= RecoveryMs
           /\ cleanFor' \in Int
<1>1. [Next]_ecuVars
  BY DEF Next
<1>2. RecoveryInv' /\ TypeOK' /\ (limpActive /\ ~limpActive' => ~dirty' /\ cleanFor' >= RecoveryMs)
  BY <1>1, RecoveryStep, TypeStep
<1>3. dirty' => limpActive'
  BY <1>2 DEF RecoveryInv
<1>4. cleanFor' \in Int /\ cleanFor \in Int /\ CleanCap \in Int
  BY <1>2, LimpAssumption DEF TypeOK, LimpTypeOK
<1>5. TrackClean(gap + work, FaultsNow(sensorLimpFaults', expanderFaulty'))
  BY DEF Cycle, Control
<1>6. cleanFor + (gap + work) \in Int
  BY <1>4, EcuAssumption
<1>7. ASSUME ~dirty' PROVE cleanFor' = IF dirty THEN 0 ELSE Least(cleanFor + (gap + work), CleanCap)
  BY <1>5, <1>7 DEF TrackClean
<1>8. Least(cleanFor + (gap + work), CleanCap) <= cleanFor + (gap + work)
  BY <1>4, <1>6, LeastIs
<1>9. ASSUME r \in on, Confirmed(r, Later(now, gap)) PROVE dirty'
  <2>1. Rule[r].bit \in sensorLimpFaults'
    BY <1>9 DEF EvaluateRules, BitsOf, CausesLimp
  <2>2. FaultsNow(sensorLimpFaults', expanderFaulty') # {}
    BY <2>1 DEF FaultsNow
  <2>. QED  BY <1>5, <2>2 DEF TrackClean
<1>. QED  BY <1>2, <1>3, <1>4, <1>7, <1>8, <1>9

(* A cycle keeps the promise of a rule that causes limp mode. *)
LEMMA HeldCycle ==
    ASSUME TypeOK, RecoveryInv, HeldInv, RecoveryBridgesDebounce,
           NEW gap \in 0 .. MaxGap, NEW work \in 0 .. MaxWork,
           Cycle(gap, work), NEW mix \in Mixes, NEW on \in SUBSET Rules,
           on \cap (skipped \cup DOMAIN mix) = {},
           EvaluateRules(Later(now, gap), on, mix), TrackHeld(gap + work, work, on, mix),
           NEW r \in Rules, CausesLimp(r)
    PROVE  HeldRule(r)'
<1>. DEFINE start == Later(now, gap)
            d == Rule[r].debounceMs
            h == heldFor[r]
            s == debounceStart[r]
<1>1. /\ now \in Time /\ s \in Time /\ h \in Int /\ h >= NotHeld /\ cleanFor \in Int
      /\ d \in Nat /\ d + MaxWork <= RecoveryMs /\ HoldCap[r] \in Int
      /\ MaxWork \in Nat /\ MaxGap \in Nat /\ MaxStep = MaxGap + MaxWork
      /\ RecoveryMs \in Nat /\ RecoveryMs > 0 /\ RecoveryMs + MaxGap + MaxWork < Wrap /\ Wrap \in Nat
      /\ gap \in Nat /\ work \in Nat /\ gap <= MaxGap /\ work <= MaxWork
  BY RulesAssumption, LimpAssumption, EcuAssumption, WrapAssumption
     DEF TypeOK, RulesTypeOK, LimpTypeOK, RuleConfig, NotHeld, RecoveryBridgesDebounce, MaxStep
<1>2. /\ start \in Time /\ now' = Later(start, work) /\ Later(start, work) \in Time
      /\ gap \in 0 .. Wrap - 1 /\ work \in 0 .. Wrap - 1
  BY CycleTypes DEF Cycle, Control
<1>3. /\ r \in on => /\ debounceStart'[r] = DebounceStartAfter(r, start, on)
                     /\ heldFor'[r] = Longer(h, gap + work, work, HoldCap[r])
      /\ r \notin on => heldFor'[r] = NotHeld
  BY DEF EvaluateRules, TrackHeld
<1>4. /\ r \in on /\ Confirmed(r, start) => limpActive' /\ dirty'
      /\ dirty' => limpActive'
      /\ ~dirty' /\ dirty => cleanFor' = 0
      /\ ~dirty' /\ ~dirty => cleanFor' <= cleanFor + (gap + work)
      /\ limpActive /\ ~limpActive' => ~dirty' /\ cleanFor' >= RecoveryMs
      /\ cleanFor' \in Int
  BY CycleHeeds
<1>5. HeldRule(r)
  BY DEF HeldInv
<1>6. PICK c2 \in Int : cleanFor' = c2
  BY <1>4
<1>7. CASE r \notin on
  BY <1>3, <1>7 DEF HeldRule
<1>8. CASE r \in on /\ d = 0
  <2>1. limpActive' /\ dirty'
    BY <1>4, <1>8 DEF Confirmed
  <2>. QED  BY <1>8, <2>1 DEF HeldRule
<1>9. CASE r \in on /\ d > 0
  <2>1. PICK h2 \in Int : heldFor'[r] = h2 /\ h2 <= IF h = NotHeld THEN work ELSE h + (gap + work)
    <3>1. gap + work \in Nat /\ work <= gap + work /\ HoldCap[r] \in Nat
      BY <1>1, RulesAssumption
    <3>2. /\ Longer(h, gap + work, work, HoldCap[r]) \in Nat
          /\ Longer(h, gap + work, work, HoldCap[r]) <= IF h = NotHeld THEN work ELSE h + (gap + work)
      BY <1>1, <3>1, LongerIs
    <3>. QED  BY <1>3, <1>9, <3>2
  <2>2. CASE s = 0
    <3>1. debounceStart'[r] = start
      BY <1>3, <1>9, <2>2 DEF DebounceStartAfter
    <3>2. h # NotHeld => h <= now /\ now <= MaxWork
      BY <1>5, <1>9, <2>2 DEF HeldRule
    <3>3. CASE start = 0
      <4>1. now' = work
        BY <1>1, <1>2, <3>3 DEF Later
      <4>2. h # NotHeld => h <= 0 /\ gap = 0
        BY <1>1, <3>2, <3>3 DEF Later, Time
      <4>3. h2 <= work
        BY <1>1, <2>1, <4>2
      <4>. QED  BY <1>1, <1>9, <2>1, <3>1, <3>3, <4>1, <4>3 DEF HeldRule
    <3>4. CASE start # 0
      <4>1. Age(r)' = work
        <5>1. Elapsed(Later(start, work), start) = work
          BY <1>2, ElapsedSince
        <5>. QED  BY <1>2, <3>1, <5>1 DEF Age
      <4>2. h2 <= work + MaxStep
        BY <1>1, <2>1, <3>2 DEF Time
      <4>3. ~(work >= d + MaxWork)
        BY <1>1, <1>9
      <4>. QED  BY <1>9, <2>1, <3>1, <3>4, <4>1, <4>2, <4>3 DEF HeldRule
    <3>. QED  BY <3>3, <3>4
  <2>3. CASE s # 0
    <3>1. debounceStart'[r] = s
      BY <1>3, <1>9, <2>3 DEF DebounceStartAfter
    <3>2. CASE Elapsed(start, s) >= d
      <4>1. limpActive' /\ dirty'
        BY <1>4, <1>9, <2>3, <3>2 DEF Confirmed
      <4>. QED  BY <1>9, <2>3, <3>1, <4>1 DEF HeldRule
    <3>3. CASE ~(Elapsed(start, s) >= d)
      <4>1. PICK a \in 0 .. Wrap - 1, b \in 0 .. Wrap - 1 :
               /\ a = Elapsed(now, s) /\ b = Elapsed(start, s)
               /\ b = a + gap \/ b = a + gap - Wrap
        <5>1. Elapsed(now, s) \in 0 .. Wrap - 1 /\ Elapsed(start, s) \in 0 .. Wrap - 1
          BY <1>1, <1>2, ElapsedIsTime DEF Time
        <5>2. \/ Elapsed(start, s) = Elapsed(now, s) + gap
              \/ Elapsed(start, s) = Elapsed(now, s) + gap - Wrap
          BY <1>1, <1>2, ElapsedLater
        <5>. QED  BY <5>1, <5>2
      <4>2. Age(r)' = b + work
        <5>1. Elapsed(Later(start, work), s) = b + work
          BY <1>1, <1>2, <3>3, <4>1, ElapsedExact
        <5>. QED  BY <1>2, <3>1, <5>1 DEF Age
      <4>3. b < d /\ b + work < RecoveryMs /\ ~(b + work >= d + MaxWork)
        BY <1>1, <3>3, <4>1
      <4>4. h # NotHeld =>
               /\ a >= d + MaxWork => limpActive /\ dirty
               /\ h <= a + MaxStep \/ (limpActive /\ (dirty \/ cleanFor <= a))
        BY <1>5, <1>9, <2>3, <4>1 DEF HeldRule, Age
      <4>5. h2 <= b + work + MaxStep \/ (limpActive' /\ (dirty' \/ c2 <= b + work))
        <5>0. CASE h = NotHeld
          BY <1>1, <2>1, <4>1, <5>0
        <5>1. CASE dirty'
          BY <1>4, <5>1
        <5>2. CASE ~dirty' /\ limpActive /\ dirty
          BY <1>1, <1>4, <1>6, <4>1, <5>2
        <5>3. CASE h # NotHeld /\ ~dirty' /\ limpActive /\ ~dirty /\ cleanFor <= a
          <6>1. b = a + gap
            BY <1>1, <4>1, <4>4, <5>3
          <6>2. c2 <= b + work
            BY <1>1, <1>4, <1>6, <5>3, <6>1
          <6>3. ~(c2 >= RecoveryMs)
            BY <1>1, <4>1, <4>3, <6>2
          <6>4. limpActive'
            BY <1>4, <1>6, <5>3, <6>3
          <6>. QED  BY <6>2, <6>4
        <5>4. CASE h # NotHeld /\ ~(limpActive /\ dirty) /\ h <= a + MaxStep
          <6>1. b = a + gap
            BY <1>1, <4>1, <4>4, <5>4
          <6>. QED  BY <1>1, <2>1, <4>1, <4>4, <5>4, <6>1
        <5>. QED  BY <4>4, <5>0, <5>1, <5>2, <5>3, <5>4
      <4>. QED  BY <1>6, <1>9, <2>1, <2>3, <3>1, <4>2, <4>3, <4>5 DEF HeldRule
    <3>. QED  BY <3>2, <3>3
  <2>. QED  BY <2>2, <2>3
<1>. QED  BY <1>1, <1>7, <1>8, <1>9

(* A limp condition keeps the engine in limp mode from the moment it has   *)
(* held for its debounce time, through every wrap of the clock, provided   *)
(* that the recovery delay is longer than the debounce.                    *)
THEOREM HeldFaultIsHeeded == RecoveryBridgesDebounce /\ Spec => []HeldFaultKeepsLimp
<1>1. Init => HeldInv
  BY DEF Init, RulesInit, HeldInv, HeldRule
<1>2. RecoveryBridgesDebounce /\ TypeOK /\ RecoveryInv /\ HeldInv
         /\ [Next]_ecuVars => HeldInv'
  <2>. SUFFICES ASSUME RecoveryBridgesDebounce, TypeOK, RecoveryInv, HeldInv,
                       [Next]_ecuVars
                PROVE  HeldInv'
    OBVIOUS
  <2>1. ASSUME NEW gap \in 0 .. MaxGap, NEW work \in 0 .. MaxWork, Cycle(gap, work)
        PROVE  HeldInv'
    <3>1. SenseFaults(Later(now, gap), gap + work, work)
      BY <2>1 DEF Cycle
    <3>2. PICK mix \in Mixes : \E on \in SUBSET Rules :
              /\ EvaluateRules(Later(now, gap), on, mix) /\ TrackHeld(gap + work, work, on, mix)
              /\ on \cap (skipped \cup DOMAIN mix) = {}
      BY <3>1, Sensed
    <3>. QED  BY <2>1, <3>2, HeldCycle DEF HeldInv, CausesLimp
  <2>2. CASE WebConfig
    <3>1. PICK q \in Rules : ResetRule(q) \/ MixLeaves(q, now, MaxWork) \/ SwitchSource(q)
      BY <2>2, RulesAssumption DEF WebConfig
    <3>2. UNCHANGED <<now, limpActive, dirty, cleanFor>>
      BY <2>2 DEF WebConfig, limpVars
    <3>3. ASSUME NEW r \in Rules
          PROVE  \/ heldFor'[r] = NotHeld
                 \/ debounceStart'[r] = debounceStart[r] /\ heldFor'[r] = heldFor[r]
      BY <3>1 DEF ResetRule, MixLeaves, SwitchSource, TypeOK, RulesTypeOK
    <3>4. ASSUME NEW r \in Rules, HeldRule(r) PROVE HeldRule(r)'
      BY <3>2, <3>3, <3>4 DEF HeldRule, Age
    <3>. QED  BY <3>4 DEF HeldInv, CausesLimp
  <2>3. CASE UNCHANGED ecuVars
    BY <2>3 DEF ecuVars, rulesVars, limpVars, HeldInv, HeldRule, Age, CausesLimp
  <2>. QED  BY <2>1, <2>2, <2>3 DEF Next
<1>3. TypeOK /\ HeldInv => HeldFaultKeepsLimp
  <2>. SUFFICES ASSUME TypeOK, HeldInv, NEW r \in Rules, CausesLimp(r),
                       heldFor[r] >= NoticeBy(r)
                PROVE  limpActive
    BY DEF HeldFaultKeepsLimp
  <2>1. /\ Rule[r].debounceMs \in Nat /\ heldFor[r] \in Int /\ MaxWork \in Nat /\ MaxStep \in Nat
        /\ now \in Time /\ debounceStart[r] \in Time
    BY RulesAssumption, EcuAssumption DEF TypeOK, RulesTypeOK, RuleConfig, MaxStep
  <2>2. heldFor[r] >= Rule[r].debounceMs + MaxStep + MaxWork /\ heldFor[r] # NotHeld
    BY <2>1 DEF NoticeBy, NotHeld
  <2>3. PICK a \in Int : Age(r) = a
    BY <2>1, ElapsedIsInt DEF Age
  <2>4. HeldRule(r)
    BY DEF HeldInv
  <2>5. CASE Rule[r].debounceMs = 0
    BY <2>2, <2>4, <2>5 DEF HeldRule
  <2>6. CASE Rule[r].debounceMs > 0 /\ debounceStart[r] = 0
    <3>1. heldFor[r] <= now /\ now <= MaxWork
      BY <2>2, <2>4, <2>6 DEF HeldRule
    <3>. QED  BY <2>1, <2>2, <2>6, <3>1, WrapAssumption DEF Time
  <2>7. CASE Rule[r].debounceMs > 0 /\ debounceStart[r] # 0
    <3>1. /\ a >= Rule[r].debounceMs + MaxWork => limpActive
          /\ heldFor[r] <= a + MaxStep \/ limpActive
      BY <2>2, <2>3, <2>4, <2>7 DEF HeldRule
    <3>. QED  BY <2>1, <2>2, <3>1
  <2>. QED  BY <2>1, <2>5, <2>6, <2>7
<1>4. RecoveryBridgesDebounce => RecoveryBridgesDebounce'
  BY DEF RecoveryBridgesDebounce, CausesLimp
<1>. QED  BY <1>1, <1>2, <1>3, <1>4, TypeCorrect, RecoveryCorrect, PTL DEF Spec
===============================================================================
