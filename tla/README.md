# A TLA+ verification of ESP-ECU

ESP-ECU is the firmware of an engine control unit on an ESP32-S3. These modules
model its control logic as it stands in `src/src` and `src/include`, model-check
it with TLC on small instances, and prove the central results with TLAPS for
every value of the constants. All paths below are relative to the directory
that holds `src/`; line numbers are those of the sources as modelled.

    tlc -workers 2 -config MCEcu.cfg MCEcu      # one run; see the table of runs
    tlapm EcuProofs.tla                         # the proofs

## 1. The system

### 1.1 Who runs what

| context | code it runs |
|---|---|
| `loop()`, a cooperative TaskScheduler on core 0 | every 10 ms `ECU::update`; the WiFi state machine, the delayed save, the boot-stable timer, status displays |
| GPIO interrupts | crank tooth, cam edge, the shared line of the pin expanders, custom pins, output-speed pulses of the transmission |
| `realtimeTask`, meant for core 1 | polls crank and `EngineState`, drives coils and injectors. Its creation is commented out (`ECU.cpp:403`, "Phase 1") |
| the web server's task (and MQTT's) | reads all state; rewrites rules, pins and configuration, restarts the tooth log, starts an OTA, reboots |
| WiFi event task | restarts timers of the scheduler |

They share `volatile` fields and plain objects. There is next to no locking, so
the interesting behaviour is in what one of them does between two reads of
another.

### 1.2 Inventory

| component | state | operations | interacts with | hard behaviour | what makes it correct |
|---|---|---|---|---|---|
| ECU cycle (`ECU.cpp`) | `EngineState`, peripheral flags | `configure`, `begin`, `update` | calls every manager, in an order that matters | rules see the previous cycle's rpm; one cycle may be late | each part sees the decision of *this* cycle where it must |
| Fault rules (`SensorManager.cpp:496`) | debounce start, active flag per rule; limp and CEL masks | `evaluateRules`; reset by `POST /config` | read by limp mode | clock wrap, 0 as "not running", gates, an inactive sensor reads 0, a disabled one is passed over, rules rewritten field by field | raised only after the debounce; a held fault has its effect |
| Limp mode (`ECU.cpp:506`) | active, recovery start, saved rev limit, lamp | `checkLimpMode`, expander health check | rules, ignition, transmission | intermittent faults, clock wrap, two limits on one field | protections all on or all off; exit neither early nor never; limit restored |
| Fuel pump (`ECU.cpp:322`, `559`) | priming, running, relay | prime in `begin`, `updateFuelPump` | engine run state | prime ends as engine starts or stalls; two different guards | off until the engine runs, then follows it |
| Sensors (`SensorManager.cpp`) | raw, filtered, calibrated values | `update` | ADCs, expanders, rules | EMA warm-up, inactive states | plausible values only |
| Crank decoder (`CrankSensor.cpp`) | sync state, tooth count and position, period history, rpm, tooth log | interrupt handler, `startToothLog` | real-time task, ECU cycle, cam, web | missed and extra edges, gap in a moving average, nothing times out, log restarted from the other core | a claimed position is the true one; sync comes back; the log is whole |
| Cam (`CamSensor.cpp`) | phase, last edge, signal | interrupt, `update` | crank position; sequential mode | order of flag and position; phase after loss of sync | phase belongs to this revolution |
| Ignition (`IgnitionManager.cpp`) | charging, charge start per coil; limiter | `update` | real-time task, rev limit | windows and polling, mode switch, speed glitch | one charge per spark, bounded dwell, right angle |
| Injection (`InjectionManager.cpp`) | open, open since per injector | `update` | real-time task, pulse width | as above; width 0 | closes when the pulse is over |
| Fuel (`FuelManager.cpp`) | after-start, overrun cut, O2 trim | `update` | sensors, CJ125 | stall during a cut, 0 as "not running" | enrichment ends; fuel is cut only after a full delay of overrun |
| CJ125 (`CJ125Controller.cpp`) | heater state per bank, duty, calibration | `begin`, `update` | battery voltage, SPI, sensors | cycles that come late; a state that is never left | the probe is dried before it is heated; warm-up ends |
| Alternator (`AlternatorControl.cpp`) | PID, duty | `update` | battery voltage | overvoltage | field off above the limit |
| Transmission (`TransmissionManager.cpp`) | gear, target, shifting, lever, duties, solenoids | `update`, `setLimpMode` | ECU cycle | shift timer frozen by limp mode, lever sampled every 200 ms, stall in a shift | solenoids match gear; one gear at a time; lock in limp mode |
| Pin expanders (`PinExpander.cpp`) | shadow registers, interrupt enables, shared flag | `writePin`, `checkInterrupt`, `healthCheck` | every output; custom pins | one wired-OR line; four SPI reads; several writers | no change lost, no write lost |
| Custom pins, output rules (`CustomPin.cpp`) | slots, rules, debounce, hysteresis | `update`, `begin`, `stop`, `setOutput` | web task replaces and saves them | reconfigured while rules are evaluated; slots renumbered by a restart | outputs follow their rules |
| Boot, WiFi (`main.cpp`) | boot counter, safe mode, WiFi timers | `setup`, task callbacks | reset reason, configuration | crash within 30 s of a boot, or in the middle of a save | a device that crashes on its settings comes up where they can be changed |
| Configuration (`Config.cpp`) | JSON file, settings in memory | load, update, save | web task, periodic save, boot | read-modify-write without a lock; crash in a write; a limit kept in two places | a saved setting survives; memory gets to the file |
| OTA (`OtaUtils.cpp`) | backup partition image | backup, apply, revert | web task | failure of one step | there is always something to boot |
| Web, MQTT, Logger | requests, connection, files | handlers | all | other tasks | – |

`PROJECT.json` lists the same components with their status, and the hazards of
the code at their lines.

## 2. Modules

    Millis  Peripherals        clock arithmetic on uint32_t (MillisProofs); configuration flags
       |         |
    FaultRules LimpMode FuelPump          components of the ECU cycle
              \    |    /
               Ecu  ------------ refines ----> LimpSpec   (the abstract promise)
                |  \
            MCEcu   EcuProofs

    CrankSensor   Ignition   Injection
         |    \      |      /
      MCCrank   RealTime --- MCRealTime, RealTimeProofs

    Transmission --- MCTransmission, TransmissionProofs
    SharedInterrupt --- MCSharedInterrupt, SharedInterruptProofs

    PinExpander (writes)        ConfigStore         Cj125   Fuel
         |                           |                 \   /
    CustomPins --- MCPins          Boot --- MCDevice   Mixture --- MCMixture
         |                           |                   |
     PinProofs                  DeviceProofs        MixtureProofs

### 2.1 The ECU cycle

* `Millis` models `millis()` as a number modulo `Wrap` (2^32 in the program).
  `Elapsed` is the unsigned subtraction all timers use.
* `FaultRules` is `evaluateRules`. `debounceStart` and `ruleActive` are the
  fields of `FaultRule`, the masks are sets of bits. A reading is abstracted to
  the one question the rule asks of it, whether it triggers; gates, debounce,
  the masks rebuilt each cycle, and the value 0 of a sensor outside its active
  states are kept. `skipped` are the rules the code passes over
  (`SensorManager.cpp:503-507`) with debounce and verdict as they are, among them those
  whose sensor `POST /config` has switched off (`SwitchSource`). The same request rewrites
  a rule field by field and resets it last. A rewrite no evaluation meets is
  `ResetRule`; one that an evaluation meets shows that evaluation some mixture of two rules
  (`Mixes`: any outcome), and the reset, which may cross it, leaves the rule in any state
  (`MixLeaves`).
* `LimpMode` is `checkLimpMode`, with the CLT rev limit that runs before it and
  the advance cap that runs after. Each branch of the function is a definition
  (`EnterLimp`, `StayInLimp`, `StartRecovery`, `AwaitRecovery`, `ExitLimp`,
  `NoLimp`). The verdict of the expanders' health check may be anything each
  time it is made, which is more than the code allows (a failed chip stays failed).
* `FuelPump` is the prime in `begin` and `updateFuelPump`, each with the flags
  it looks at: `begin` wants SPI expanders and expander 0, `updateFuelPump`
  wants I2C and expander 0.
* `Ecu` composes them in the order of `ECU::update`. A cycle is one step: the
  scheduler is cooperative, so no other task of it runs within. It reads the
  clock at its beginning (`EvaluateRules`) and again later (limp mode, pump),
  up to `MaxWork` apart; cycles are up to `MaxGap` apart, since any other task
  of the scheduler may delay one. `SenseFaults` is the part that evaluates the rules,
  `Control` all after it, `WebConfig` what the web server's task does to rules and sensors.
* `LimpSpec` is what limp mode promises with no timer, rule or limit in it.

History variables (`heldFor`, `seenFor`, `dirty`, `cleanFor`, `sinceBoot`, `hasRun`) record real time, which
the wrapping clock of the program cannot; they saturate at constants given in
the cfg and appear in no guard of the program. `heldFor` is for how long a rule has triggered in
every cycle, `seenFor` the same with the cycles left out that passed the rule over; it is
`Mixed` from an evaluation that met a rewrite until one that finds the condition untrue, or a
reset.

### 2.2 Crank, coils and injectors

* `CrankSensor` runs the interrupt handler against a wheel it cannot see.
  `wheel` is the slot under the sensor; a slot with a tooth gives an edge
  (`Tooth`), unless it is missed (`Dropout`), and an edge may come where there
  is none (`Noise`). `clean` counts slots since the last error. Periods are in
  half slots of a steadily turning wheel; the sum and the integer division of
  the moving average are the code's. Edges less than 50 us apart, which the
  handler ignores, and changes of speed within a revolution are not modelled.
  The tooth log is shared with the web task on the other core: each access to its index and
  flags is a step, five of the handler (`LogTooth` asks for room, then `HandlerLogs`) and three
  of `startToothLog`, in any order.
* `Ignition` and `Injection` are the two `update` functions on angles counted
  in half slots, so that the window of 15 degrees is three of them for the 10
  degrees a slot stands for. (`degreesPerTooth` is written `360/36` there, and
  does not follow the configured wheel.)
* `RealTime` interleaves interrupt, ECU cycle and the task. The task reads rpm,
  sync, position and mode, each in a step of its own (`TaskReads`), sleeps if there is no
  speed or no sync (`TaskRests`), and else drives coils and injectors with what it read
  (`TaskDrives`), however much happened in between. The handler counts a gap as one more tooth
  before it resets the count; `midPos` is that position, which the task may read instead. Time is slots: `SlotPasses` lets coils charge and injectors flow.
  The advance and dwell are constants of a run. `SparkAtSparkAngle` bounds how
  far past its angle a coil fires: by the window, by the slots that passed since
  the task looked, and by those with no tooth, in which the decoder's angle
  stands still (`Blind`).

### 2.3 Transmission

`Transmission` has one action for a call of `TransmissionManager::update`: the
call counter and its decimations (lever and fluid temperature every 20th call, gear logic every 10th;
the counter is a byte, and 256 is not a multiple of 20), the stall branch, and
the gear logic with one definition per way out of it (`FollowLever`,
`HoldInLimp`, `AwaitShift`, `FinishShift`, `ChooseGear`), the solenoid pattern
of each gear and the torque converter clutch. `SetLimpMode` comes from the ECU
cycle. Temperatures and shaft speeds are abstracted to the comparisons made of
them. The 4R70W
and the 4R100 differ in their solenoids; the 4R100, which has all four, is run,
and the proofs hold for both.

### 2.4 The shared interrupt of the pin expanders

`SharedInterrupt` splits the scan in `CustomPinManager::update` at each SPI
transaction: INTF of port A, INTF of port B, INTCAP of each port that had a
flag, dispatch, next chip, and at the end the clear of the flag. Pins change at
any time and latch in the chip; a read of GPIO or INTCAP releases them (also
that of another task: `ReadGpio`). Chips whose interrupts are off are skipped,
as in the code. The MCP23S17 itself is external and modelled from its use here;
one interrupt pin per port is enough, since ports are read as a whole.

### 2.5 Output pins and their rules

* `PinExpander` is `writePin` with its shadow register, cut where two tasks
  meet: the shadow is loaded and changed (`WriteBegins`), stored
  (`WriteStores`), and the whole word goes out over SPI (`WriteSends`, which
  sends the word it stored or, as the compiler may read the shadow again, the
  one that is there by then). `wanted` and `clash` record what was last
  commanded and whether that overlapped another task's write to the chip.
* `CustomPins` is `CustomPinManager` for outputs. The ECU cycle walks the rules
  one by one (`BeginCycle`, one `Evaluate` per rule with an action for each
  way out of `evaluateRule`, `SetOutput`). The web task posts a layout
  (`Post`: stop, and the slots; `ClearRule` for each rule; `FillRule`, which fills a rule field
  by field, so that it is evaluated from its target on, whatever it still lacks; `RuleFilled`;
  `InitPin` per slot, which drives it low;
  `SaveOpens`, `SaveWrites`) or sets an output by hand, at any point of the
  cycle. An evaluation that a post writes to is `EvaluateTorn`: it has read parts of two rules,
  and its check and its stores are apart, so it may do anything `evaluateRule` can do. `Loaded` is what saving and loading does to a layout: slots not in use
  are skipped and the others renumbered, while rules keep the number of the slot
  they drive. A restart loads the file as it is at that moment.

### 2.6 The device around its configuration

* `ConfigStore` is the document on the card and the read, empty, write of
  `updateConfig` and `saveSensorConfig`, one action each, for the main loop and
  the web task. A file two tasks have open at once ends up good or torn; a
  restart in the middle leaves it empty or torn. Settings and sensors are one
  value each, but for the one-shot `safeMode.force` and for the limits: the
  thresholds that the settings and the fault rules both keep.
* `Boot` is `setup()` (boot counter, safe mode, card, defaults, the forced
  safe mode, sensors), the periodic save, the boot-stable timer, the reboot
  of `loop()`, and the requests that save: `POST /config` with and without
  sensors, `POST /sensors`, `POST /safemode/clear`, `POST /reboot`. Some
  settings crash `ECU::begin` (`BadSettings`). A restart may come at any step.
  Requests are served from `webHandler.begin` on (`main.cpp:440`), so also before `setup()` has
  configured the ECU and loaded the sensors: what such a request saves may be lost, and the
  properties do not count on it (`Unsure`). The ones of `/admin/setup` and `/wifi/test`, which save the
  settings as `POST /config` does, have no action of their own.

### 2.7 The mixture

* `Cj125` is the heater's state machine of a bank, one definition per state,
  and the decimation of `update`. The duty is off, low (condensation) or high.
  The 50 ms waits of the calibration are in the time to the next cycle, because
  a bank counts from the time taken before them.
* `Fuel` is what `FuelManager::update` decides: cranking, after-start
  enrichment, overrun cut, the closed loop. A reading of the engine is the set
  of comparisons made of it.
* `Mixture` puts the reading of the air-fuel ratio (with its `activeStates`), the wideband controller and
  the fuel calculation in the order of `ECU::update`.

## 3. What the runs check

| run | module, cfg | about |
|---|---|---|
| `ecu` | MCEcu | types; `LimpProtects`, `RevLimitSurvivesLimp`, `LimpEndsOnlyAfterRecovery`, `LimpEndsInTime`, `FaultRaisedOnlyAfterDebounce`, `HeldFaultKeepsLimp`, `PumpFollowsEngine`, `PumpOffUntilEngineRuns` |
| `ecu_live` | MCEcu, MCEcuLive | `LimpKeepsPromise`: the cycle implements `LimpSpec`; `LimpEventuallyEnds` |
| `ecu_pump_guard` | MCEcu, MCEcuPump | finding 1 |
| `crank` | MCCrank | `PositionIsTrue` two clean revolutions after any burst of errors, `SyncRecovers` after four, `LogIsWhole` |
| `realtime` | MCRealTime | `DwellBoundedWhileServed`, `PulseBoundedWhileServed`, `NoSparkAboveRevLimit`, `FlashOnlyOnOverlap`, `SparkAtSparkAngle` |
| `transmission` | MCTransmission | `OutputsMatchGear`, `TccReleased`, `GearLockedInLimp`, `ShiftsInSequence`, `LeverObeyed`, `ShiftEnds` |
| `shared_interrupt` | MCSharedInterrupt | `DispatchedOnce`, `LowLineIsFlagged`, and under fairness `QuietChangesDispatched` |
| `shared_interrupt_lost` | MCSharedInterrupt, MCSharedInterruptLost | finding 2 |
| `pins` | MCPins | `WritesReachChip` (but for writes that overlap another task's), `OutputFollowsRule`, `SwitchIsDebounced`, `DebounceEnds` |
| `device` | MCDevice | `SavedSettingsSurvive`, `ForcedSafeModeIsOneShot`, `SettingsReachFile`, `DeviceComesUp` |
| `mixture` | MCMixture | `CondensationLasts`, `FuelCutIsEarned`, `EnrichmentEnds`, `BanksSettle` |
| `mixture_probe` | MCMixture, MCMixtureProbe | finding 3 |

Every property of a passing run is broken by a mutant of the code: a definition
marked "Mutant" in the component's module, which `PROJECT.json` puts in the
place of the original. Properties of `pins` and `device` carry the exceptions
that the code needs in order to keep them: `clash`, `astray`, `Unsure` and
`Unreadable` say in the state when a write, a post or a save overlapped
another one, and what is lost then is listed under "Met on the way" below. The same holds of
`Mixed` and `torn`, for an evaluation that a post or a rewrite meets. Those properties therefore do
not catch the hazards of the overlap itself: two writes to one chip, a post halfway through a cycle, a
restart within the save that clears the forced safe mode. They say that nothing but the overlap does
harm, and for how long it can.

### Bounds, and why they are enough

* **Clock.** A lap is 6 in `ecu`, 8 in `ecu_live` and `ecu_pump_guard`, 7 for the transmission, 3
  for the pins and 9 for the mixture; each delay is shorter
  than a lap but long enough that it begins on one side of the wrap and ends on
  the other; the clock also passes through 0, which two timers take for "not
  running". A cycle may take no time, and gap and work take each value up to 1.
* **Rules.** `ecu` has a limp rule with debounce and gates, which is rewritten and whose sensor
  is switched off and on meanwhile; `ecu_live` and `ecu_pump_guard` have it next to
  an immediate CEL rule on a sensor that is active only while the engine runs. Rules do not affect
  each other but through the masks. Fault bits are a set of eight.
  In `ecu_live` nothing is rewritten, as its promise is about faults and time.
* **Rpms** are 0 and one over the gate of the limp rule, and in `ecu_pump_guard` one under it as
  well. Rev limits have a CLT limit below and one above the configured limit.
* **Errors of the crank.** Up to three missed or extra edges in a burst, which
  reaches every sync state with every wrong count; `CleanCap` lets more than
  four clean revolutions pass. The wheel has ten slots (eight in `RealTime`)
  instead of 36, one missing tooth, and a history of 8 periods: what matters is that
  the history is shorter than a revolution, so that a gap leaves it again. The log
  has three places instead of 720: it fills, and a restart falls before, between and after its last
  entries. In `RealTime` it is off.
* **RealTime.** Two coils, a revolution apart in sequential mode, one error per `CleanCap` slots,
  an advance (25 degrees) whose window contains a tooth, so that coils do fire at it,
  at most `MaxPoll` = 1 slots between two rounds of the task. An extra edge
  reads as twice the speed, which is over the rev limit; the gap reads as half
  the speed, and a gap with a missed tooth beside it as a third, at which the dwell angle is smaller
  than the window: coils are charged and fired in one pass there.
* **Transmission.** A lap of the call counter (5) is no multiple of the lever's
  decimation (4), as in the code; calls are up to 2 ms apart, a shift takes 3.
  The levers run are PARK,
  REVERSE, the whole forward range (OD) and its tightest cap (LOW1).
* **SharedInterrupt.** Three chips with the middle one skipped; pins on both
  ports of one chip.
* **Pins.** Two outputs of one chip, for the whole-word write to matter; two
  layouts, one that debounces and one that leaves a slot and a rule out and inverts
  its output; two posts, manual switches or restarts, so that one may begin while
  another is under way. The clock has 3 values, the debounce takes 2: it begins at each
  of them, 0 included, and a cycle always comes one later. A rule has its target, its values, its
  debounce and the rest, filled one after the other.
* **Device.** Settings that work and settings the ECU crashes on, two sensor
  setups; a reboot threshold of 2 instead of 3; two events from outside (requests,
  failures, restarts). Crashes in `ECU::begin` are no events, so boot loops are
  as long as they like.
* **Mixture.** One bank, since banks share nothing but the decimation (2 cycles
  to a round instead of 10). Cycles are 1 or 2 apart; drying takes 5 units, which
  is more than a round and less than a lap of the clock (9), two steps ramp up.
  The O2 sensors are active unless the engine stands. The closed loop, ASE (2) and the DFCO delay (3) come in all their orders.

Deadlock is checked in every run.

### Fairness

* ECU, mixture and transmission: the scheduler goes on calling the cycle and
  time goes by (`WF` of the cycle with a gap of at least 1). `loop()` does nothing
  else; the longest a task of it keeps it is `syncNtpTime`, ten tries of
  a bounded wait, which returns. Nothing is assumed of sensors, the web or the driver.
* `IntFairSpec`: the scan goes on. `CustomPinManager::update` is called in
  each ECU cycle.
* `PinsFairSpec`: the ECU cycle goes on, and the web task finishes what it has
  begun. No request is assumed to come.
* `DeviceFairSpec`: `setup()` goes on, each task finishes its saves, `tSaveConfig`
  comes round, and `loop()` looks at the reboot flag. The boot-stable timer is
  not assumed to run out (a device that crashes early comes up without it), nor is
  any request, failure or restart.

## 4. What is proved

The proofs hold for all rules, delays, limits, speeds, clock widths, banks,
chips, pins, tasks and settings that meet the named assumptions. Those say that each delay and
step is less than a lap of the clock, that history bounds are large enough to
tell, and that the constants have their types. `MillisProofs` has the facts about
the clock that several of them need.

| theorem | says | by |
|---|---|---|
| `TypeCorrect` | `Spec => []TypeOK` | the type invariant is inductive |
| `LimpProtection`, `RevLimitKept` | `[]LimpProtects`, `[]RevLimitSurvivesLimp` | the two are inductive together (`ProtectionTogether`): the limit saved on entry must be a normal one for the limit restored to be |
| `LimpExitIsLate`, `LimpExitIsPrompt` | `LimpEndsOnlyAfterRecovery`, `LimpEndsInTime` | `RecoveryInv`, below |
| `LimpRefines` | `Spec => LimpKeepsPromise` | initial states map to initial states, and each step to a step of `LimpSpec` or a stutter, under `RecoveryInv` |
| `FaultsAreDebounced` | `FaultRaisedOnlyAfterDebounce` | `DebounceInv`, below |
| `HeldFaultIsHeeded` | `HeldFaultKeepsLimp`, given `RecoveryBridgesDebounce` | `HeldInv`, below |
| `PumpCorrect` | `PumpFollowsEngine` | with: the relay is on while it primes, and is what `pumpRunning` says |
| `PumpWaitsForEngine` | `PumpOffUntilEngineRuns`, given `PrimeFits` and `PrimeCanEnd` | `PrimeInv`: while it primes, the timer shows the time since boot |
| `CrankTypeCorrect`, `RtTypeCorrect` | `CrankTypeOK`, `RtTypeOK` | inductive; the moving average is a number of the right size by least counterexample, below |
| `ClaimedPositionIsTrue`, `SyncComesBack` | `PositionIsTrue`, `SyncRecovers`, given `GapStandsOut` | the decoder's invariant, below |
| `LogStaysWhole` | `LogIsWhole` | inductive, with: the handler is in its part that logs only while the capture is on, and where it ends one the index is full or back at 0 |
| `DecoderUndisturbed` | `RtSpec => CrankSpec` | each step of the composition is one of the decoder or leaves it alone, so that what is proved of the decoder holds of it within |
| `DwellIsBounded`, `PulseIsBounded` | `DwellBoundedWhileServed`, `PulseBoundedWhileServed`, the second given `NeverPassedOver` | a round of the task leaves no coil or injector over its bound, and time adds as much to `unserved` |
| `RevLimitReleasesCoils` | `NoSparkAboveRevLimit` | a coil is charged only past the limiter's return |
| `SparkIsOnTime` | `SparkAtSparkAngle`, given `GapStandsOut` | `SeenIsRecent`: the position in the task's hand is at most the slots behind the crank that it has had it, or that no tooth shows; `MidIsTrue`: nor is the one that the handler went through |
| `FlashNeedsShortDwell` | `FlashOnlyOnOverlap` | two windows of three half slots have a tooth in common only if their angles are less than three apart, modulo a revolution or two |
| `TransTypeCorrect` | `TransTypeOK` | inductive |
| `OutputsCorrect` | `OutputsMatchGear` | inductive, one case per way out of `update` |
| `ShiftSequence` | `ShiftsInSequence` | `ShiftInv`, below |
| `GearIsLocked` | `GearLockedInLimp` | no branch but `HoldInLimp` can be taken with a forward lever |
| `ClutchReleased` | `TccReleased` | `ReleaseInv`: the duty and twice the rate for each decision since the clutch had to open are at most 100 |
| `MixtureTypeCorrect` | `MixtureTypeOK` | inductive |
| `EnrichmentIsShort` | `EnrichmentEnds` | `AseInv`: the time since the engine runs is the timer's and a cycle at most |
| `FuelCutIsLate` | `FuelCutIsEarned` | `CutInv`: the timer is never ahead of the overrun it times |
| `ProbeIsDried` | `CondensationLasts` | `HeatInv`, below |
| `PinTypeCorrect` | `CustomPinsTypeOK`, `PinsInUse` | inductive, with: an initialised slot has a pin, and the web task writes only where it says |
| `SwitchWaitsForDebounce` | `SwitchIsDebounced` | `StreakInv`: the timer is never ahead of the evaluations it times, until these have been long enough, or was begun by an evaluation that met a post |
| `OutputStaysWithRule` | `OutputFollowsRule`, given `OneRulePerPin` of each layout | `FollowInv`, below |
| `WritesArrive` | `WritesReachChip` | `ChipInv`: a call in progress holds a word that is right for its own pin and for all pins that did not clash |
| `LineIsFlagged` | `LowLineIsFlagged` | `FlagInv`: while a scan is undisturbed the chips it has passed have nothing pending |
| `DispatchIsReal` | `DispatchedOnce` | `DispatchInv`: a changed pin not yet dispatched is captured in its chip, or in hand and cleared there |
| `DeviceTypeCorrect` | `BootTypeOK` | inductive |
| `SettingsAreKept`, `SafeModeIsOneShot` | `SavedSettingsSurvive`, `ForcedSafeModeIsOneShot` | `DeviceInv`, below |

None of the timed properties is inductive: they speak of real time and the code
of differences modulo a lap. `RecoveryInv` ties the two together. While limp
mode is on with clean checks, `now - _limpRecoveryStart` is less than
`RecoveryMs`, no more than the clean time, and less than it by at most one
cycle. That it stays under `RecoveryMs` is what keeps it from wrapping: the
check that finds it larger ends limp mode. The cycle lost is the case
`recoveryStart = 0`, when the clock read 0 as the timer was started.
`DebounceInv` only bounds the timer from above by the time no evaluation has found the condition
untrue, which is all there is: with a held condition the difference does wrap,
and the fault goes out for `debounceMs`. `HeldInv` is what survives of it: either the
timer is not behind the time the condition has held by more than a cycle, or limp mode is on
and the checks have not been clean for longer than the timer shows since its
lap. The hole is then over before the recovery is, given `RecoveryBridgesDebounce`. In `ShiftInv` a shift frozen by limp
mode is allowed to be older than a lap, as long as it is older than its time.
`HeatInv` says how far the time a heater has had low voltage can be behind the timer
of the bank's state: by one round of the decimated update, as the
timer starts when the update runs and the heater follows later. The enrichment needs an
assumption of its own: `AseMs + MaxGap <= Wrap`, so that a cycle cannot carry the
timer over a lap and start the enrichment anew.

`DeviceInv` follows the configuration between memory, the tasks' copies
and the file. As long as no two saves have overlapped and none was lost: at
most one task saves (`FileInv`); memory holds what was told but for the parts the web
server is still to save (`MemoryInv`); a copy in hand is what was told with one
part from memory (`CopyInv`); and every flag for safe mode, in memory, in a copy
or in the file, is owed a boot, except in the file while `setup()` is saving it cleared (`OwedInv`).
`SavesInv`, which needs no such condition, says which saves each task makes in which phase: that
the sensors are not saved in safe mode, where they were not loaded, is what keeps
the file's.

The decoder's invariant follows the clean signal. As many of its newest
periods as there have been clean slots are the wheel's (a gap among them where
the wheel has one), and how many those are is bounded by `Memory`, the history
and the gap it may hide behind. With that the comparison that finds a gap,
`period > average * 3 / 2`, is right: no tooth is taken for a gap as soon as the
history is clean, and a gap is found as soon as no other is in the average. Sync is then lost at a
wrong count, found again at the next gap and confirmed a revolution
later, which is where the two and the four revolutions come from. The sum of the
history is a recursive function; that it lies between the least and the
greatest sum is shown by taking the least history length at which it would not. The same
argument, in place of an induction, gives that `Nth` numbers the slots a saved
layout uses, and that loading it puts no two rules on one pin.

`FollowInv` says of each pin in use that is not astray: the value of its rule was
the last commanded, or is in the call of `setOutput` that is on its way. A layout that
comes in while there is such a call puts all pins astray (`StrayInv`), since the call
names a slot that is about to hold another pin; `begin` puts astray those it
drives low against their rule. The invariant is kept by loading because of `LoadedKeeps`.

Hypotheses of theorems, where an assumption on the constants would have been too strong for
the runs or the code does not enforce it:

* `GapStandsOut`: the history is not longer than a revolution, and a gap is
  longer than one and a half times the average of a history that has none. With
  the code's history of 8 (`TOOTH_HISTORY_SIZE`) the second holds for any number
  of missing teeth but 0; with fewer than 8 teeth, which `POST /config` takes as well, sync may never come.
* `NeverPassedOver`: no pulse width with the dead time is 0. An injector that is open
  when it becomes 0 is passed over and stays open.
* `PrimeFits`: the prime and a cycle are less than a lap. `PrimeCanEnd`: finding 1 is
  what happens without it.
* `RecoveryBridgesDebounce`: no debounce of a limp rule is longer than the recovery delay.
  It is so by default (5 s against at most 3 s), and both can be set otherwise on the pages.
* `OneRulePerPin`: no pin is in two slots and no slot under two enabled rules. The pages let a user
  set up both, and the last of two rules to turn then wins.

Proving `SwitchIsDebounced` corrected it: a restart in the cycle of the last rule
looked like that rule's evaluation, which turned it at once. The run had its debounced
rule first, where a restart does not look so; it is now last, and the property says that no
restart counts.

Only model-checked is all liveness (`LimpEventuallyEnds`, `ShiftEnds`,
`LeverObeyed`, `QuietChangesDispatched`, `DebounceEnds`, `SettingsReachFile`,
`DeviceComesUp`, `BanksSettle`): it rests on fairness and ENABLED, for which TLAPS has no proof rules
here. The library's induction theorems take an operator, which no installed
prover can instantiate; where a proof needs induction it takes a least
counterexample, by well-foundedness of `<` on the naturals.

## 5. Findings

1. **The prime may never end.** With SPI expanders and expander 0 on and I2C
   off, `begin` primes the pump and `updateFuelPump` returns at once. The relay
   stays on with the engine never having run (`ecu_pump_guard`).
2. **A lost interrupt.** The flag is cleared after the scan. A pin that changes
   during it on a chip already passed keeps the line low, with the flag
   cleared and no edge to come (`shared_interrupt_lost`).
3. **The closed loop runs on a probe that is not ready.** While a bank warms up, or
   has failed, its ratio is read through the 0-5 V mapping off the pin of the
   CJ125, and corrects the pulse width all the same (`mixture_probe`).

Met on the way, and read off the code; the properties state what holds beside them:

* Crank, coils, injectors. The rpm and the sync state keep their last values when
  the teeth stop. The gap tooth halves the rpm for one reading, which can break
  an overrun cut off. The overdwell cut-off is part of `IgnitionManager::update`,
  which is not called without rpm and sync: a coil charging at that moment
  stays on. Sequential mode compares an angle of 360 degrees with 720, and no code
  brings in the phase of the cam. Whether wasted spark serves every coil depends
  on how its windows fall between teeth: with a 36-1 wheel and an advance of 15 to 20
  degrees the window of the coil at top dead centre (340 to 360 degrees) has no tooth, and
  that coil is only ever released by the overdwell cut-off. The task that does all this is not
  started in this commit. Below about 830 rpm the dwell of 3 ms is a smaller angle than the 15 degree window: a coil whose
  tooth falls into both is charged and fired in one pass, microseconds apart, though the comments
  at `IgnitionManager.cpp:98` and `:110` have a charge before the spark. `FlashOnlyOnOverlap` states
  and `FlashNeedsShortDwell` proves that this is the only way to it.
* Tooth log. `startToothLog` stores its three fields while the handler may be anywhere among its
  own accesses. A restart between the handler's load and store of the index is lost or, at the last entry,
  undone: the handler stores `_toothLogCapturing = false` after the post has set it, or the log is left capturing
  with no room (`idx` = 720), and `GET /teeth` answers 202 until the next restart.
* Fault rules. A rule whose sensor is switched off keeps its debounce, and the time it was not looked at
  counts as held when it is switched on again, though `SensorDescriptor.h:132` says "Must be true for this
  long before triggering". A rewrite that an evaluation crosses can leave the new rule active, or its debounce
  begun on the condition of the old one.
* Injection. With a dead time of 0, an injector open as the width becomes 0
  is passed over.
* A loss of sync reads as rpm 0, and `TransmissionManager::update` takes that for a
  stall: the transmission goes to PARK and starts again from first gear. An unknown
  lever position is treated as overdrive.
* Pins. `enablePinInterrupt` takes the pin as `uint8_t`; pins are numbered from 200.
  After a slot is deleted on the page (`pins.html:736`), the file skips it and a
  restart renumbers the others, so that a rule drives another pin than before.
  A deleted output that was on stays on. A debounce under way is kept while the
  engine is stopped. A rule evaluated between the filling of the slots and
  `begin` is left active with its output low: its slot is not initialised, `begin` (`CustomPin.cpp:81-88`) drives it
  low, and it stays wrong until the condition changes. A rule that is being posted has its target
  before it has its debounce and `requireRunning`, and a cycle in between turns it at once. An evaluation
  that a post meets may set `active` or `debounceStart` of a rule that has just been cleared; the next debounce
  is shorter by what is in there. PWM channels are never given back. A restart
  within a save loses all pins.
* Configuration. Opening the file empties it; a torn file is never written
  again by a save, and only by hand is there a way back. Limp limits are kept
  twice: `POST /config` overwrites the thresholds set on the sensors page, and at
  boot the saved rules overwrite those of the settings, so that a threshold changed
  together with a setting that needs a reboot is lost. `POST /sensors` answers ok
  though the save failed, and the reboot that a page announces may not come when
  its save met another one. Deleted rules come back as defaults.
  What a request saves after the web server has started and before the sensors are loaded may be lost:
  the load puts the file's sensors over those in memory, or meets that save half way.
* Boot. `README.md:390` says that a count above 3 enters safe mode; the code
  also asks for a crash as the reason. `WebHandler.cpp:1328` speaks of a boot counter it does not
  reset. The access point as fallback practically never comes, since each
  disconnect starts the wait again.
* Mixture. The battery is looked at while a bank waits for power and not after;
  an error lasts until a restart. The drying is timed from the calibration, and
  so shorter by as much as the next cycle is late: `loop()` waiting for the time server can
  take longer than the drying itself, and `CondensationLasts` with such a `MaxGap` allows for that. The O2 integral winds up
  during an overrun cut.
* `applyFirmwareFromSD` goes on when the backup has failed. The alternator's
  field is regulated with the engine stopped.

## 6. Not modelled

* Arithmetic on analogue values: calibration, filters, the VE and ignition
  tables, pulse widths, the PIDs of heater and alternator. What control makes of their results is modelled
  with any result possible.
* Polled, cron and PWM pins; directions and pull-ups of expander pins, which are
  set by code of the same structure as `writePin`; the phase of the cam, which
  only a status page reads.
* WiFi, time, FTP, MQTT, the log and the status documents: no control state of
  the engine depends on them. OTA is a copy between card and flash by library
  calls; its hazards are listed.
* Drivers, displays, JSON, pages, the PSRAM allocator: no control state of their own.
* Speed changes within a revolution, edges less than 50 us apart.

## 7. Plan

In order of weight for the system:

1. Proofs about the algorithms below the properties: that the solenoid pattern of each gear
   is its own, that `Loaded` of a layout loaded before is that layout, that
   the scan of `SharedInterrupt` leaves nothing behind in a chip nobody disturbs.
2. A promise for the crank (an angle, or none) that `CrankSensor` refines, and one for
   the configuration, as `LimpSpec` is for limp mode.
3. `Ota` (backup, apply, revert, with failures and restarts) beside `Boot`, and the
   WiFi retries with the access point.
4. Polled and cron pins in `CustomPins`; the phase of the cam.
5. `TuneTable`: interpolation as an operator against a reference definition.
