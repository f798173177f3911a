---------------------------- MODULE MixtureProofs -----------------------------
(***************************************************************************)
(* Machine-checked proofs about Mixture, for every number of banks, every  *)
(* decimation, delay and step of the ramp, and every width of the clock    *)
(* that satisfies the named assumptions.                                   *)
(***************************************************************************)
EXTENDS Mixture, MillisProofs

-------------------------------------------------------------------------------
(* The type invariant.                                                     *)

(* What the assumptions say of the numbers. *)
LEMMA Numbers ==
    /\ Wrap \in Nat /\ Decimation \in Nat /\ Decimation > 0 /\ RampSteps \in Nat /\ RampSteps > 0
    /\ LowCap \in Nat /\ CondensationMs \in Nat /\ LowCap >= CondensationMs
    /\ AseMs \in Nat /\ DfcoDelayMs \in Nat /\ MaxGap \in Nat /\ MaxGap > 0 /\ MaxGap < Wrap
    /\ AseMs + MaxGap <= Wrap
BY WrapAssumption, Cj125Assumption, FuelAssumption, MixtureAssumption DEF Time

(* The decimation counts up, and starts again at a round.                  *)
LEMMA DecimationIs ==
    ASSUME NEW n \in 0 .. Decimation - 1
    PROVE  (n + 1) % Decimation = IF n + 1 = Decimation THEN 0 ELSE n + 1
BY Numbers

(* ASE and DFCO: whether it is active, and since when.                     *)
Timer == [active : BOOLEAN, start : Time]

(* What a timer is set to is a timer.                                      *)
LEMMA TimerIs ==
    /\ \A a \in BOOLEAN, t \in Time : [active |-> a, start |-> t] \in Timer
    /\ 0 \in Time
BY WrapAssumption DEF Timer, Time

(* A bank's step in a round gives a bank and a drive of its heater.        *)
LEMMA BankTyped ==
    ASSUME Cj125TypeOK, NEW b \in Banks, NEW t \in Time, NEW powered \in BOOLEAN, NEW bad \in BOOLEAN
    PROVE  UpdateBank(b, t, powered, bad) \in BankState \X {"off", "low", "high"}
<1>1. /\ bank[b] \in BankState /\ bank[b].state \in HeaterState /\ bank[b].start \in Time
      /\ bank[b].ramp \in 0 .. RampSteps - 1 /\ heater[b] \in {"off", "low", "high"}
  BY DEF Cj125TypeOK, BankState
<1>2. \A s \in HeaterState : In(s) \in BankState
  BY Numbers, WrapAssumption DEF In, BankState, Time
<1>3. [In("CONDENSATION") EXCEPT !.start = t] \in BankState
  BY Numbers DEF In, BankState, HeaterState
<1>4. ASSUME bank[b].ramp + 1 # RampSteps PROVE [bank[b] EXCEPT !.ramp = bank[b].ramp + 1] \in BankState
  BY <1>1, <1>4, Numbers DEF BankState
<1>. QED
  BY <1>1, <1>2, <1>3, <1>4
  DEF UpdateBank, WaitPower, Calibrate, Condense, RampUp, Regulate, HeaterState

(* One ECU cycle keeps the types.                                          *)
LEMMA TypeStep == MixtureTypeOK /\ [MixtureNext]_mixtureVars => MixtureTypeOK'
<1>. SUFFICES ASSUME MixtureTypeOK, [MixtureNext]_mixtureVars PROVE MixtureTypeOK'
  OBVIOUS
<1>1. ASSUME NEW d \in 1 .. MaxGap, NEW e \in Reading, Update(d, e) PROVE MixtureTypeOK'
  <2>1. d \in 0 .. Wrap - 1 /\ d \in Nat /\ now' = Later(now, d) /\ now' \in Time
    BY <1>1, Numbers, LaterIsTime DEF Update, MixtureTypeOK
  <2>2. Cj125TypeOK'
    <3>. USE DEF MixtureTypeOK, Cj125TypeOK
    <3>1. decimation' \in 0 .. Decimation - 1
      BY <1>1, DecimationIs, Numbers DEF Update, UpdateCj125
    <3>2. bank' \in [Banks -> BankState] /\ heater' \in [Banks -> {"off", "low", "high"}]
      <4>1. CASE Round(now')
        <5>1. PICK powered \in BOOLEAN, bad \in SUBSET { b \in Banks : Ready(b) } :
                /\ bank' = [b \in Banks |-> UpdateBank(b, now', powered, b \in bad)[1]]
                /\ heater' = [b \in Banks |-> UpdateBank(b, now', powered, b \in bad)[2]]
          BY <4>1 DEF Round
        <5>2. ASSUME NEW b \in Banks
              PROVE  UpdateBank(b, now', powered, b \in bad) \in BankState \X {"off", "low", "high"}
          <6>1. (b \in bad) \in BOOLEAN
            OBVIOUS
          <6>. QED  BY <2>1, <6>1, BankTyped, Zenon DEF MixtureTypeOK
        <5>. QED  BY <5>1, <5>2
      <4>2. CASE UNCHANGED <<bank, heater>>
        BY <4>2
      <4>. QED  BY <1>1, <4>1, <4>2 DEF Update, UpdateCj125
    <3>3. lowFor' \in [Banks -> 0 .. LowCap]
      <4>1. \A b \in Banks : Least(lowFor[b] + d, LowCap) \in 0 .. LowCap
        BY <2>1, Numbers DEF Least
      <4>. QED  BY <1>1, <4>1, Numbers DEF Update, UpdateCj125
    <3>. QED  BY <3>1, <3>2, <3>3
  <2>3. FuelTypeOK'
    <3>. USE DEF MixtureTypeOK, FuelTypeOK
    <3>1. e.engine \in {"stopped", "cranking", "running"} /\ e.enterCut \in BOOLEAN
          /\ e.leaveCut \in BOOLEAN /\ e.window \in BOOLEAN /\ e.cold \in BOOLEAN
      BY DEF Reading
    <3>0. ase \in Timer /\ dfco \in Timer
      BY DEF Timer
    <3>2. /\ wasCranking' \in BOOLEAN /\ corrected' \in BOOLEAN
          /\ pulse' \in {"cranking", "running", "cut"}
      BY <1>1, <3>1 DEF Update, UpdateFuel, CrankingFuel, RunningFuel, EndCranking, StartsAse
    <3>3. ase' \in Timer
      <4>1. ase' \in {NoAse, ase, [active |-> TRUE, start |-> now']}
        BY <1>1 DEF Update, UpdateFuel, CrankingFuel, RunningFuel, UpdateAse
      <4>. QED  BY <4>1, <2>1, <3>0, TimerIs DEF NoAse
    <3>4. dfco' \in Timer
      <4>. DEFINE start == IF dfco.start = 0 THEN now' ELSE dfco.start
      <4>1. start \in Time
        BY <2>1, <3>0 DEF Timer
      <4>2. (Elapsed(now', start) >= DfcoDelayMs) \in BOOLEAN
        OBVIOUS
      <4>3. dfco' \in {[active |-> FALSE, start |-> 0], dfco,
                       [active |-> Elapsed(now', start) >= DfcoDelayMs, start |-> start]}
        BY <1>1 DEF Update, UpdateFuel, CrankingFuel, RunningFuel, UpdateDfco
      <4>. HIDE DEF start
      <4>. QED  BY <4>1, <4>2, <4>3, <3>0, TimerIs
    <3>5. overrun' \in {NoOverrun} \cup 0 .. DfcoDelayMs
      BY <1>1, <2>1, Numbers DEF Update, UpdateFuel, Least, NoOverrun
    <3>6. sinceRun' \in 0 .. AseMs + MaxGap
      BY <1>1, <2>1, Numbers DEF Update, UpdateFuel, Least
    <3>. QED  BY <3>2, <3>3, <3>4, <3>5, <3>6 DEF Timer
  <2>4. afrFrom' \in [Banks -> {"wideband", "analog", "nothing"}]
    BY <1>1 DEF Update, ReadAfr
  <2>5. engine' \in EngineStates
    BY <1>1 DEF Update, Reading, EngineStates
  <2>. QED  BY <2>1, <2>2, <2>3, <2>4, <2>5 DEF MixtureTypeOK
<1>2. CASE UNCHANGED mixtureVars
  BY <1>2 DEF mixtureVars, cjVars, fuelVars, MixtureTypeOK, Cj125TypeOK, FuelTypeOK
<1>. QED  BY <1>1, <1>2 DEF MixtureNext

(* Heater state, timers and histories keep their types in every cycle.     *)
THEOREM MixtureTypeCorrect == MixtureSpec => []MixtureTypeOK
<1>1. MixtureInit => MixtureTypeOK
  <2>. SUFFICES ASSUME MixtureInit PROVE MixtureTypeOK
    OBVIOUS
  <2>1. 0 \in Time /\ 0 \in 0 .. RampSteps - 1 /\ 0 \in 0 .. Decimation - 1
    BY Numbers, WrapAssumption DEF Time
  <2>2. Cj125TypeOK
    BY <2>1, Numbers DEF MixtureInit, CjInit, Cj125TypeOK, BankState, HeaterState
  <2>3. FuelTypeOK
    <3>1. ase \in Timer /\ dfco \in Timer
      BY TimerIs DEF MixtureInit, FuelInit, NoAse
    <3>2. overrun \in {NoOverrun} \cup 0 .. DfcoDelayMs /\ sinceRun \in 0 .. AseMs + MaxGap
      BY Numbers DEF MixtureInit, FuelInit
    <3>. QED  BY <3>1, <3>2 DEF MixtureInit, FuelInit, FuelTypeOK, Timer
  <2>. QED  BY <2>1, <2>2, <2>3 DEF MixtureInit, MixtureTypeOK, EngineStates
<1>. QED  BY <1>1, TypeStep, PTL DEF MixtureSpec

-------------------------------------------------------------------------------
(* The timers of the fuel calculation.                                     *)

(* What time does in a cycle: it goes on by d, and no more for any timer.  *)
LEMMA CycleTime ==
    ASSUME MixtureTypeOK, NEW d \in 1 .. MaxGap, now' = Later(now, d)
    PROVE  /\ d \in Nat /\ d \in 0 .. Wrap - 1 /\ now \in Time /\ now' \in Time
           /\ \A s \in Time : /\ Elapsed(now, s) \in Nat /\ Elapsed(now', s) \in Nat
                              /\ Elapsed(now', s) <= Elapsed(now, s) + d
                              /\ Elapsed(now, s) + d < Wrap => Elapsed(now', s) = Elapsed(now, s) + d
           /\ Elapsed(now', now') = 0
<1>1. d \in Nat /\ d \in 0 .. Wrap - 1 /\ now \in Time
  BY Numbers DEF MixtureTypeOK
<1>2. now' \in Time /\ Elapsed(now', now') = 0
  BY <1>1, ElapsedGrows
<1>3. ASSUME NEW s \in Time
      PROVE  /\ Elapsed(now, s) \in Nat /\ Elapsed(now', s) \in Nat
             /\ Elapsed(now', s) <= Elapsed(now, s) + d
             /\ Elapsed(now, s) + d < Wrap => Elapsed(now', s) = Elapsed(now, s) + d
  BY <1>1, <1>3, ElapsedGrows, ElapsedExact
<1>. QED  BY <1>1, <1>2, <1>3

(* An enrichment in progress is no older than its duration, and the engine *)
(* has not run longer than that and the cycle it began in.  One that is to *)
(* come begins with an engine that has not run at all.                     *)
AseInv ==
    /\ wasCranking => sinceRun = 0
    /\ ase.active => /\ Elapsed(now, ase.start) < AseMs
                     /\ sinceRun <= Elapsed(now, ase.start) + MaxGap

(* One ECU cycle keeps that (FuelManager.cpp:67, 103).                     *)
LEMMA AseStep ==
    ASSUME MixtureTypeOK, AseInv, [MixtureNext]_mixtureVars
    PROVE  AseInv'
<1>1. ASSUME NEW d \in 1 .. MaxGap, NEW e \in Reading, Update(d, e) PROVE AseInv'
  <2>1. now' = Later(now, d) /\ UpdateFuel(now', d, e)
    BY <1>1 DEF Update
  <2>2. sinceRun \in Nat /\ ase.start \in Time /\ sinceRun <= AseMs + MaxGap
    BY Numbers DEF MixtureTypeOK, FuelTypeOK
  <2>3. sinceRun' \in Nat /\ sinceRun' <= sinceRun + d /\ (e.engine # "running" => sinceRun' = 0)
    BY <2>1, <2>2, CycleTime, Numbers DEF UpdateFuel, Least
  <2>4. wasCranking' => sinceRun' = 0
    BY <1>1, <2>1, <2>3 DEF AseInv, UpdateFuel, RunningFuel, EndCranking, StartsAse
  <2>5. ASSUME ase'.active
        PROVE  Elapsed(now', ase'.start) < AseMs /\ sinceRun' <= Elapsed(now', ase'.start) + MaxGap
    <3>1. /\ Elapsed(now', ase'.start) < AseMs
          /\ \/ ase' = [active |-> TRUE, start |-> now'] /\ wasCranking
             \/ ase' = ase /\ ase.active
      BY <2>1, <2>5 DEF UpdateFuel, CrankingFuel, RunningFuel, UpdateAse, StartsAse, NoAse
    <3>2. CASE ase' = [active |-> TRUE, start |-> now'] /\ wasCranking
      <4>1. ase'.start = now' /\ Elapsed(now', now') = 0 /\ sinceRun = 0
        BY <2>1, <3>2, CycleTime DEF AseInv
      <4>. QED  BY <2>3, <3>1, <4>1, Numbers
    <3>3. CASE ase' = ase /\ ase.active
      <4>1. /\ Elapsed(now, ase.start) < AseMs
            /\ sinceRun <= Elapsed(now, ase.start) + MaxGap
        BY <3>3 DEF AseInv
      <4>2. Elapsed(now, ase.start) \in Nat /\ Elapsed(now, ase.start) + d < Wrap /\ d \in Nat
        BY <2>1, <2>2, <4>1, CycleTime, Numbers
      <4>3. Elapsed(now', ase.start) = Elapsed(now, ase.start) + d
        BY <2>1, <2>2, <4>2, CycleTime
      <4>. QED  BY <2>2, <2>3, <3>1, <3>3, <4>1, <4>2, <4>3, Numbers
    <3>. QED  BY <3>1, <3>2, <3>3
  <2>. QED  BY <2>4, <2>5 DEF AseInv
<1>2. CASE UNCHANGED mixtureVars
  BY <1>2 DEF mixtureVars, fuelVars, AseInv
<1>. QED  BY <1>1, <1>2 DEF MixtureNext

(* The after-start enrichment (FuelManager::update) is over AseMs after    *)
(* the engine began to run, and the cycle it did in.                       *)
THEOREM EnrichmentIsShort == MixtureSpec => []EnrichmentEnds
<1>1. MixtureInit => AseInv
  BY DEF MixtureInit, FuelInit, NoAse, AseInv
<1>2. ASSUME MixtureTypeOK, AseInv PROVE EnrichmentEnds
  <2>1. ASSUME ase.active PROVE sinceRun < AseMs + MaxGap
    <3>1. Elapsed(now, ase.start) < AseMs /\ sinceRun <= Elapsed(now, ase.start) + MaxGap
      BY <1>2, <2>1 DEF AseInv
    <3>2. sinceRun \in Nat /\ Elapsed(now, ase.start) \in Int
      BY <1>2, Numbers, ElapsedIsInt DEF MixtureTypeOK, FuelTypeOK
    <3>. QED  BY <3>1, <3>2, Numbers
  <2>. QED  BY <2>1 DEF EnrichmentEnds
<1>. QED  BY <1>1, <1>2, AseStep, MixtureTypeCorrect, PTL DEF MixtureSpec

(* While DFCO is active, or its delay runs, there has been overrun for as  *)
(* long as the delay tells.                                                *)
CutInv ==
    /\ dfco.active => overrun = DfcoDelayMs
    /\ dfco.start # 0 => /\ overrun # NoOverrun
                         /\ overrun = DfcoDelayMs \/ Elapsed(now, dfco.start) <= overrun
    /\ FuelCutIsEarned

(* One ECU cycle keeps that (FuelManager.cpp:131).                         *)
LEMMA CutStep ==
    ASSUME MixtureTypeOK, CutInv, [MixtureNext]_mixtureVars
    PROVE  CutInv'
<1>1. ASSUME NEW d \in 1 .. MaxGap, NEW e \in Reading, Update(d, e) PROVE CutInv'
  <2>. DEFINE since == IF overrun = NoOverrun THEN 0 ELSE Least(overrun + d, DfcoDelayMs)
              start == IF dfco.start = 0 THEN now' ELSE dfco.start
  <2>1. now' = Later(now, d) /\ UpdateFuel(now', d, e)
    BY <1>1 DEF Update
  <2>2. overrun \in {NoOverrun} \cup 0 .. DfcoDelayMs /\ dfco.start \in Time
    BY DEF MixtureTypeOK, FuelTypeOK
  <2>3. since \in 0 .. DfcoDelayMs /\ since # NoOverrun
    BY <2>1, <2>2, CycleTime, Numbers DEF NoOverrun, Least
  <2>4. start \in Time /\ Elapsed(now', start) \in Nat
    BY <2>1, <2>2, CycleTime
  <2>5. since = DfcoDelayMs \/ Elapsed(now', start) <= since
    <3>1. CASE dfco.start = 0
      BY <2>1, <2>3, <3>1, CycleTime
    <3>2. CASE dfco.start # 0
      <4>1. /\ overrun \in 0 .. DfcoDelayMs /\ overrun # NoOverrun
            /\ overrun = DfcoDelayMs \/ Elapsed(now, dfco.start) <= overrun
        BY <2>2, <3>2 DEF CutInv
      <4>2. /\ Elapsed(now', dfco.start) <= Elapsed(now, dfco.start) + d
            /\ Elapsed(now, dfco.start) \in Nat /\ Elapsed(now', dfco.start) \in Nat /\ d \in Nat
        BY <2>1, <2>2, CycleTime
      <4>. QED  BY <3>2, <4>1, <4>2, Numbers DEF Least
    <3>. QED  BY <3>1, <3>2
  <2>6. dfco.active => since = DfcoDelayMs
    BY <2>1, CycleTime, Numbers DEF CutInv, Least, NoOverrun
  <2>. HIDE DEF since, start
  <2>7. CASE e.engine = "cranking"
    <3>1. dfco' = dfco /\ pulse' = "cranking"
          /\ (overrun # NoOverrun => overrun' = since)
      BY <2>1, <2>7 DEF UpdateFuel, CrankingFuel, since
    <3>2. dfco.active => overrun # NoOverrun
      BY Numbers DEF CutInv, NoOverrun
    <3>3. dfco.start # 0 => overrun # NoOverrun /\ start = dfco.start
      BY DEF CutInv, start
    <3>. QED  BY <2>3, <2>5, <2>6, <3>1, <3>2, <3>3 DEF CutInv, FuelCutIsEarned
  <2>8. CASE e.engine # "cranking" /\ (IF dfco.active THEN e.leaveCut ELSE ~e.enterCut)
    <3>1. dfco' = [active |-> FALSE, start |-> 0] /\ pulse' = "running"
      BY <2>1, <2>8 DEF UpdateFuel, RunningFuel, UpdateDfco
    <3>. QED  BY <3>1 DEF CutInv, FuelCutIsEarned
  <2>9. CASE e.engine # "cranking" /\ dfco.active /\ ~e.leaveCut
    <3>1. dfco' = dfco /\ overrun' = since
      BY <2>1, <2>9 DEF UpdateFuel, RunningFuel, UpdateDfco, since
    <3>. QED  BY <2>3, <2>6, <2>9, <3>1 DEF CutInv, FuelCutIsEarned
  <2>10. CASE e.engine # "cranking" /\ ~dfco.active /\ e.enterCut
    <3>1. /\ dfco' = [active |-> Elapsed(now', start) >= DfcoDelayMs, start |-> start]
          /\ pulse' = "running" /\ overrun' = since
      BY <2>1, <2>10 DEF UpdateFuel, RunningFuel, UpdateDfco, since, start
    <3>2. dfco'.start = start /\ (dfco'.active <=> Elapsed(now', start) >= DfcoDelayMs)
      BY <3>1
    <3>3. Elapsed(now', start) >= DfcoDelayMs => since = DfcoDelayMs
      BY <2>3, <2>4, <2>5, Numbers
    <3>. QED  BY <2>3, <2>5, <3>1, <3>2, <3>3 DEF CutInv, FuelCutIsEarned
  <2>. QED  BY <2>7, <2>8, <2>9, <2>10
<1>2. CASE UNCHANGED mixtureVars
  BY <1>2 DEF mixtureVars, fuelVars, CutInv, FuelCutIsEarned
<1>. QED  BY <1>1, <1>2 DEF MixtureNext

(* FuelManager::update cuts fuel only after a full delay of overrun.       *)
THEOREM FuelCutIsLate == MixtureSpec => []FuelCutIsEarned
<1>1. MixtureInit => CutInv
  BY DEF MixtureInit, FuelInit, CutInv, FuelCutIsEarned
<1>2. CutInv => FuelCutIsEarned
  BY DEF CutInv
<1>. QED  BY <1>1, <1>2, CutStep, MixtureTypeCorrect, PTL DEF MixtureSpec

-------------------------------------------------------------------------------
(* The heaters.                                                            *)

(* A round comes Decimation cycles, and at most this time, after another.  *)
RoundMs == Decimation * MaxGap

(* Counting cycles in time.                                                *)
LEMMA RoundIs ==
    /\ RoundMs \in Nat /\ RoundMs >= Decimation
    /\ 0 * MaxGap = 0
    /\ \A n \in 0 .. Decimation - 1 : n * MaxGap \in Nat
    /\ \A n \in 0 .. Decimation - 1 : n + 1 = Decimation => n * MaxGap + MaxGap = RoundMs
    /\ \A n \in 0 .. Decimation - 1 : (n + 1) * MaxGap = n * MaxGap + MaxGap
<1>1. /\ Decimation * MaxGap >= Decimation /\ Decimation * MaxGap \in Nat /\ 0 * MaxGap = 0
      /\ \A n \in 0 .. Decimation - 1 : n * MaxGap \in Nat
      /\ \A n \in 0 .. Decimation - 1 : (n + 1) * MaxGap = n * MaxGap + MaxGap
  BY Numbers
<1>. QED  BY <1>1, Numbers DEF RoundMs

(* How a bank gets to its heater's voltage.  Before its first round in     *)
(* CONDENSATION the heater is off, and the time of the state no longer     *)
(* than the cycles since the round that calibrated.  From then on the      *)
(* heater's time at low voltage is behind the state's by one round at      *)
(* most, and the first round of the ramp comes one round later.            *)
HeatedBank(b) ==
    /\ bank[b].state \in {"WAIT_POWER", "CALIBRATING", "ERROR"} => heater[b] = "off"
    /\ bank[b].state = "CONDENSATION" =>
          \/ heater[b] = "off" /\ Elapsed(now, bank[b].start) <= decimation * MaxGap
          \/ /\ heater[b] = "low"
             /\ lowFor[b] = LowCap \/ Elapsed(now, bank[b].start) <= lowFor[b] + RoundMs
    /\ bank[b].state = "RAMP_UP" =>
          \/ heater[b] = "low" /\ lowFor[b] + RoundMs >= CondensationMs + decimation
          \/ heater[b] = "high"
    /\ bank[b].state = "PID" => heater[b] = "high"
    /\ heater[b] = "high" => lowFor[b] + RoundMs >= CondensationMs + Decimation

HeatInv == \A b \in Banks : HeatedBank(b)

(* One ECU cycle keeps that (CJ125Controller::update).                     *)
LEMMA HeatStep ==
    ASSUME MixtureTypeOK, HeatInv, [MixtureNext]_mixtureVars
    PROVE  HeatInv'
<1>1. ASSUME NEW d \in 1 .. MaxGap, NEW e \in Reading, Update(d, e), NEW b \in Banks
      PROVE  HeatedBank(b)'
  <2>1. now' = Later(now, d) /\ UpdateCj125(now', d)
    BY <1>1 DEF Update
  <2>2. /\ decimation \in 0 .. Decimation - 1 /\ bank[b] \in BankState /\ bank[b].start \in Time
        /\ heater[b] \in {"off", "low", "high"} /\ lowFor[b] \in 0 .. LowCap
        /\ bank[b].state \in HeaterState
    BY DEF MixtureTypeOK, Cj125TypeOK, BankState
  <2>3. lowFor'[b] = CASE heater[b] = "off"  -> 0
                       [] heater[b] = "low"  -> Least(lowFor[b] + d, LowCap)
                       [] heater[b] = "high" -> lowFor[b]
    BY <2>1 DEF UpdateCj125
  <2>4. /\ d \in Nat /\ d >= 1 /\ d <= MaxGap
        /\ Elapsed(now, bank[b].start) \in Nat /\ Elapsed(now', bank[b].start) \in Nat
        /\ Elapsed(now', bank[b].start) <= Elapsed(now, bank[b].start) + d
        /\ Elapsed(now', now') = 0
    BY <2>1, <2>2, CycleTime, Numbers
  <2>5. heater[b] = "low" => /\ lowFor'[b] \in 0 .. LowCap
                             /\ lowFor'[b] = LowCap \/ lowFor'[b] = lowFor[b] + d
    BY <2>2, <2>3, <2>4, Numbers DEF Least
  <2>6. /\ bank[b].state = "CONDENSATION" /\ heater[b] = "off" =>
              Elapsed(now', bank[b].start) <= decimation * MaxGap + MaxGap
        /\ bank[b].state = "CONDENSATION" /\ heater[b] = "low" =>
              lowFor'[b] = LowCap \/ Elapsed(now', bank[b].start) <= lowFor'[b] + RoundMs
        /\ bank[b].state = "RAMP_UP" /\ heater[b] = "low" =>
              lowFor'[b] + RoundMs >= CondensationMs + decimation + 1
        /\ heater[b] = "high" => lowFor'[b] + RoundMs >= CondensationMs + Decimation
    <3>1. decimation * MaxGap \in Nat /\ RoundMs \in Nat /\ RoundMs >= Decimation
      BY <2>2, RoundIs
    <3>2. CASE heater[b] = "low"
      BY <2>2, <2>4, <2>5, <3>1, <3>2, Numbers DEF HeatInv, HeatedBank
    <3>3. CASE heater[b] # "low"
      BY <2>2, <2>3, <2>4, <3>1, <3>3, Numbers DEF HeatInv, HeatedBank
    <3>. QED  BY <3>2, <3>3
  <2>7. CASE decimation + 1 # Decimation
    <3>1. decimation' = decimation + 1 /\ bank' = bank /\ heater' = heater
      BY <2>1, <2>2, <2>7, DecimationIs, Numbers DEF UpdateCj125
    <3>2. decimation' * MaxGap = decimation * MaxGap + MaxGap
      BY <2>2, <3>1, RoundIs
    <3>3. /\ bank'[b] = bank[b] /\ heater'[b] = heater[b] /\ HeatedBank(b)
          /\ decimation' = decimation + 1
          /\ Elapsed(now', bank[b].start) <= decimation * MaxGap + MaxGap =>
                Elapsed(now', bank'[b].start) <= decimation' * MaxGap
      BY <3>1, <3>2 DEF HeatInv
    <3>4. CASE bank[b].state = "CONDENSATION"
      BY <2>6, <3>3, <3>4 DEF HeatedBank
    <3>5. CASE bank[b].state = "RAMP_UP"
      <4>1. heater[b] = "low" => lowFor'[b] + RoundMs >= CondensationMs + decimation'
        BY <2>2, <2>6, <3>3, <3>5, Numbers
      <4>. QED  BY <2>6, <3>3, <3>5, <4>1 DEF HeatedBank
    <3>6. CASE bank[b].state \notin {"CONDENSATION", "RAMP_UP"}
      BY <2>6, <3>3, <3>6 DEF HeatedBank
    <3>. QED  BY <3>4, <3>5, <3>6
  <2>8. CASE decimation + 1 = Decimation
    <3>1. decimation' = 0 /\ Round(now') /\ decimation * MaxGap + MaxGap = RoundMs
      BY <2>1, <2>2, <2>8, DecimationIs, RoundIs DEF UpdateCj125
    <3>2. PICK powered \in BOOLEAN, bad \in BOOLEAN :
             /\ bank'[b] = UpdateBank(b, now', powered, bad)[1]
             /\ heater'[b] = UpdateBank(b, now', powered, bad)[2]
      <4>1. PICK powered \in BOOLEAN, bad \in SUBSET { c \in Banks : Ready(c) } :
              /\ bank' = [c \in Banks |-> UpdateBank(c, now', powered, c \in bad)[1]]
              /\ heater' = [c \in Banks |-> UpdateBank(c, now', powered, c \in bad)[2]]
        BY <3>1 DEF Round
      <4>2. (b \in bad) \in BOOLEAN
        OBVIOUS
      <4>3. /\ bank'[b] = UpdateBank(b, now', powered, b \in bad)[1]
            /\ heater'[b] = UpdateBank(b, now', powered, b \in bad)[2]
        BY <4>1
      <4>. QED  BY <4>2, <4>3, Zenon
    <3>. USE DEF UpdateBank, In
    <3>3. CASE bank[b].state \in {"WAIT_POWER", "ERROR"}
      <4>1. bank'[b].state \in {"WAIT_POWER", "CALIBRATING", "ERROR"} /\ heater'[b] = "off"
        BY <3>2, <3>3 DEF WaitPower, HeatInv, HeatedBank
      <4>. QED  BY <4>1 DEF HeatedBank
    <3>4. CASE bank[b].state = "CALIBRATING"
      <4>1. bank'[b] = [In("CONDENSATION") EXCEPT !.start = now'] /\ heater'[b] = "off"
        BY <3>2, <3>4 DEF Calibrate, HeatInv, HeatedBank
      <4>2. bank'[b].state = "CONDENSATION" /\ Elapsed(now', bank'[b].start) <= decimation' * MaxGap
        BY <2>4, <3>1, <4>1, RoundIs
      <4>. QED  BY <4>1, <4>2 DEF HeatedBank
    <3>5. CASE bank[b].state = "CONDENSATION"
      <4>1. /\ heater'[b] = "low" /\ RoundMs \in Nat /\ RoundMs >= Decimation
            /\ \/ bank'[b] = bank[b]
               \/ Elapsed(now', bank[b].start) >= CondensationMs /\ bank'[b].state = "RAMP_UP"
        BY <3>2, <3>5, RoundIs DEF Condense
      <4>2. lowFor'[b] = LowCap \/ Elapsed(now', bank[b].start) <= lowFor'[b] + RoundMs
        <5>1. CASE heater[b] = "low"
          BY <2>6, <3>5, <5>1
        <5>2. CASE heater[b] # "low"
          <6>1. heater[b] = "off" /\ lowFor'[b] = 0
            BY <2>3, <3>5, <5>2 DEF HeatInv, HeatedBank
          <6>. QED  BY <2>6, <3>1, <3>5, <4>1, <6>1
        <5>. QED  BY <5>1, <5>2
      <4>3. lowFor'[b] \in Nat
        BY <2>2, <2>3, <2>5, Numbers
      <4>4. Elapsed(now', bank[b].start) >= CondensationMs => lowFor'[b] + RoundMs >= CondensationMs
        BY <2>4, <4>1, <4>2, <4>3, Numbers
      <4>5. CASE bank'[b] = bank[b]
        BY <3>5, <4>1, <4>2, <4>5 DEF HeatedBank
      <4>6. CASE Elapsed(now', bank[b].start) >= CondensationMs /\ bank'[b].state = "RAMP_UP"
        BY <3>1, <4>1, <4>4, <4>6, Numbers DEF HeatedBank
      <4>. QED  BY <4>1, <4>5, <4>6
    <3>6. CASE bank[b].state = "RAMP_UP"
      <4>1. heater'[b] = "high" /\ bank'[b].state \in {"RAMP_UP", "PID"}
        BY <2>2, <3>2, <3>6 DEF RampUp, BankState
      <4>2. heater[b] \in {"low", "high"}
        BY <3>6 DEF HeatInv, HeatedBank
      <4>3. lowFor'[b] + RoundMs >= CondensationMs + Decimation
        BY <2>2, <2>6, <2>8, <3>6, <4>2, Numbers
      <4>. QED  BY <4>1, <4>3 DEF HeatedBank
    <3>7. CASE bank[b].state = "PID"
      <4>1. \/ heater'[b] = "off" /\ bank'[b].state = "ERROR"
            \/ heater'[b] = "high" /\ bank'[b].state = "PID"
        BY <3>2, <3>7 DEF Regulate
      <4>2. lowFor'[b] + RoundMs >= CondensationMs + Decimation
        BY <2>6, <3>7 DEF HeatInv, HeatedBank
      <4>. QED  BY <4>1, <4>2 DEF HeatedBank
    <3>. QED  BY <2>2, <3>3, <3>4, <3>5, <3>6, <3>7 DEF HeaterState
  <2>. QED  BY <2>7, <2>8
<1>2. CASE UNCHANGED mixtureVars
  BY <1>2 DEF mixtureVars, cjVars, HeatInv, HeatedBank
<1>. QED  BY <1>1, <1>2 DEF MixtureNext, HeatInv

(* No heater of the wideband controller is driven above the condensation   *)
(* voltage before the probe has been dried for the time that takes, less   *)
(* one round's jitter.                                                     *)
THEOREM ProbeIsDried == MixtureSpec => []CondensationLasts
<1>1. MixtureInit => HeatInv
  BY DEF MixtureInit, CjInit, HeatInv, HeatedBank
<1>2. HeatInv => CondensationLasts
  BY DEF HeatInv, HeatedBank, CondensationLasts, RoundMs
<1>. QED  BY <1>1, <1>2, HeatStep, MixtureTypeCorrect, PTL DEF MixtureSpec
===============================================================================
