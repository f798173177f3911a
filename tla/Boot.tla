--------------------------------- MODULE Boot ----------------------------------
(***************************************************************************)
(* The life of the device around its configuration: setup() in main.cpp    *)
(* (the boot counter, safe mode, loading /config.txt and the sensors), the *)
(* saves of the main loop, the web requests that change the configuration, *)
(* and restarts: asked for, by a crash, by the power.                      *)
(*                                                                         *)
(* Safe mode runs the web server without the ECU, so that settings the ECU *)
(* crashes on (BadSettings: pins that collide, say) can be put right.      *)
(*                                                                         *)
(* The web server starts in setup(), before the ECU is configured and the  *)
(* sensors are loaded, and serves requests from then on.                   *)
(***************************************************************************)
EXTENDS ConfigStore, Integers

CONSTANTS
    BadSettings,    \* the settings ECU::begin crashes on
    Threshold,      \* BOOT_LOOP_THRESHOLD
    MaxEvents       \* the bound on requests, failures and restarts from outside

ASSUME BootAssumption ==
    /\ BadSettings \subseteq Settings \ {DefaultSettings}
    /\ Threshold \in Nat /\ MaxEvents \in Nat

VARIABLES
    phase,          \* where setup() is; "run" when loop() runs
    reason,         \* esp_reset_reason(), of three kinds, until setup() has looked at it
    bootCount,      \* _bootCount, up to Threshold + 1
    safeMode,       \* _safeMode
    events          \* how many events there have been (up to MaxEvents)

bootVars == <<phase, reason, bootCount, safeMode>>
deviceVars == <<storeVars, bootVars, events>>

Reasons == {"poweron", "crash", "other"}

BootTypeOK ==
    /\ StoreTypeOK
    /\ phase \in {"boot", "load", "defaults", "check", "begin", "run"}
    /\ reason \in Reasons \cup {"known"}
    /\ bootCount \in 0 .. Threshold + 1
    /\ safeMode \in BOOLEAN
    /\ events \in 0 .. MaxEvents

(* A new device, with an empty card. *)
DeviceInit ==
    /\ card = "missing" /\ doc = Defaults /\ sd = FALSE /\ ram = Defaults
    /\ save = [t \in Tasks |-> NoSave] /\ rebooting = FALSE
    /\ told = [settings |-> DefaultSettings, kind |-> DefaultKind, owed |-> 0]
    /\ phase = "boot" /\ reason = "poweron" /\ bootCount = 0 /\ safeMode = FALSE
    /\ events = 0

Event == events < MaxEvents /\ events' = events + 1
NoEvent == UNCHANGED events

-------------------------------------------------------------------------------
(* setup().  The counter is kept through every reset but that of power-on, *)
(* and past the threshold a crash makes it safe mode.                      *)

(* A mutant: the counter does not survive the reset. *)
CountFromZero ==
    /\ phase = "boot"
    /\ bootCount' = 1
    /\ safeMode' = (bootCount' > Threshold /\ reason = "crash")
    /\ phase' = "load" /\ reason' = "known"
    /\ NoEvent /\ UNCHANGED storeVars

CountBoot ==
    /\ phase = "boot"
    /\ bootCount' = IF reason = "poweron" THEN 1
                    ELSE IF bootCount > Threshold THEN bootCount ELSE bootCount + 1
    /\ safeMode' = (bootCount' > Threshold /\ reason = "crash")
    /\ phase' = "load" /\ reason' = "known"
    /\ NoEvent /\ UNCHANGED storeVars

(* initSDCard fails: the defaults in memory stand, and nothing is saved. *)
SdFails ==
    /\ phase = "load" /\ Event
    /\ sd' = FALSE
    /\ phase' = "check"
    /\ UNCHANGED <<card, doc, ram, save, rebooting, told, reason, bootCount, safeMode>>

(* loadConfig takes the document, if it parses ... *)
LoadConfig ==
    /\ phase = "load" /\ card \in {"good", "torn"}
    /\ sd' = TRUE
    /\ ram' = IF card = "good" THEN [doc EXCEPT !.sensors = NoSensors] ELSE ram
    /\ phase' = "check"
    /\ NoEvent
    /\ UNCHANGED <<card, doc, save, rebooting, told, reason, bootCount, safeMode>>

(* ... and saveConfig makes a file of defaults if there is none, or an empty *)
(* one: it is opened ...                                                     *)
CreateConfig ==
    /\ phase = "load" /\ card \in {"missing", "empty"}
    /\ sd' = TRUE
    /\ card' = "empty"
    /\ phase' = "defaults"
    /\ NoEvent
    /\ UNCHANGED <<doc, ram, save, rebooting, told, reason, bootCount, safeMode>>

(* ... and written. *)
WriteDefaults ==
    /\ phase = "defaults"
    /\ card' = "good" /\ doc' = Defaults
    /\ phase' = "check"
    /\ NoEvent
    /\ UNCHANGED <<sd, ram, save, rebooting, told, reason, bootCount, safeMode>>

(* A mutant: the flag is cleared in memory only. *)
CheckForceUnsaved ==
    /\ phase = "check"
    /\ phase' = "begin"
    /\ safeMode' = (safeMode \/ ram.force)
    /\ ram' = [ram EXCEPT !.force = FALSE]
    /\ told' = IF ram.force /\ ~safeMode /\ told # Unsure THEN [told EXCEPT !.owed = @ - 1] ELSE told
    /\ NoEvent
    /\ UNCHANGED <<card, doc, sd, save, rebooting, reason, bootCount>>

(* The one-shot flag is honoured, cleared, and saved cleared. *)
CheckForce ==
    /\ phase = "check"
    /\ phase' = "begin"
    /\ IF ram.force /\ ~safeMode
       THEN /\ safeMode' = TRUE
            /\ ram' = [ram EXCEPT !.force = FALSE]
            /\ StartSave("loop", <<"settings">>, "no", -1)
       ELSE UNCHANGED <<safeMode, ram, save, told>>
    /\ NoEvent
    /\ UNCHANGED <<card, doc, sd, rebooting, reason, bootCount>>

(* The ECU is configured, which gives the rules the limits of the settings; *)
(* the sensors are loaded, limits and all; and the ECU begins.              *)
BeginEcu ==
    /\ phase = "begin" /\ ~Saving("loop")
    /\ ~safeMode /\ ram.settings \notin BadSettings
    /\ ram' = [ram EXCEPT !.sensors =
                  IF sd /\ card = "good" /\ doc.sensors # NoSensors THEN doc.sensors
                  ELSE [kind |-> ram.sensors.kind, limits |-> ram.settings]]
    /\ phase' = "run"
    /\ NoEvent
    /\ UNCHANGED <<card, doc, sd, save, rebooting, told, reason, bootCount, safeMode>>

BeginSafe ==
    /\ phase = "begin" /\ ~Saving("loop")
    /\ safeMode
    /\ phase' = "run"
    /\ NoEvent
    /\ UNCHANGED <<storeVars, reason, bootCount, safeMode>>

-------------------------------------------------------------------------------
Restarted(r) ==
    /\ CutOff
    /\ sd' = FALSE
    /\ phase' = "boot" /\ reason' = r /\ safeMode' = FALSE
    /\ UNCHANGED <<bootCount>>

CrashInBegin ==
    /\ phase = "begin" /\ ~Saving("loop")
    /\ ~safeMode /\ ram.settings \in BadSettings
    /\ Restarted("crash")
    /\ NoEvent

(* loop() does the reboot a request has asked for.  The web server's task *)
(* may be at another one.                                                 *)
Reboot ==
    /\ phase = "run" /\ ~Saving("loop")
    /\ rebooting
    /\ Restarted("other")
    /\ NoEvent

(* From outside, at any time. *)
Restart(r) == Event /\ Restarted(r)

SetupStep ==
    \/ CountBoot \/ LoadConfig \/ CreateConfig \/ WriteDefaults
    \/ CheckForce \/ BeginEcu \/ BeginSafe \/ CrashInBegin

-------------------------------------------------------------------------------
(* loop().                                                                  *)
LoopIdle == phase = "run" /\ ~Saving("loop")

(* Mutants: the sensors are saved in safe mode too; they are left out. *)
PeriodicSaveOfAll ==
    /\ LoopIdle
    /\ StartSave("loop", <<"settings", "sensors">>, "no", 0)
    /\ NoEvent
    /\ UNCHANGED <<card, doc, sd, ram, rebooting, bootVars>>

PeriodicSaveOfSettings ==
    /\ LoopIdle
    /\ StartSave("loop", <<"settings">>, "no", 0)
    /\ NoEvent
    /\ UNCHANGED <<card, doc, sd, ram, rebooting, bootVars>>

(* tSaveConfig, every 5 minutes.  In safe mode the sensors were not loaded. *)
PeriodicSave ==
    /\ LoopIdle
    /\ StartSave("loop", IF safeMode THEN <<"settings">> ELSE <<"settings", "sensors">>, "no", 0)
    /\ NoEvent
    /\ UNCHANGED <<card, doc, sd, ram, rebooting, bootVars>>

(* tBootStable. *)
BootStable ==
    /\ LoopIdle
    /\ bootCount # 0
    /\ bootCount' = 0
    /\ NoEvent
    /\ UNCHANGED <<storeVars, phase, reason, safeMode>>

-------------------------------------------------------------------------------
(* The web server's task.                                                   *)
Serving == phase = "run" \/ (phase = "begin" /\ ~Saving("loop"))
WebIdle == Serving /\ ~Saving("web")

(* What is saved before setup() has loaded the sensors may be lost: memory *)
(* takes what the file held, or it finds the file empty.                   *)
WebSave(parts, reboot, more) ==
    IF phase = "run" THEN StartSave("web", parts, reboot, more)
    ELSE /\ save' = [save EXCEPT !["web"] = ToSave(parts, reboot)]
         /\ told' = Unsure

(* POST /config changes everything in memory, then saves.  Some settings,  *)
(* the flag among them, take a reboot; there is none when the settings     *)
(* were not saved.                                                         *)
RebootIf(reboot) == IF reboot THEN "if saved" ELSE "no"
Owing(force) == IF force THEN 1 ELSE 0

(* setLimpThresholds: the rules get the limits of the settings, if there   *)
(* are rules.                                                              *)
Limited(settings) ==
    IF safeMode \/ ram.sensors = NoSensors THEN ram.sensors
    ELSE [ram.sensors EXCEPT !.limits = settings]

PostSettings(settings, force, reboot) ==
    /\ WebIdle /\ Event
    /\ force => reboot
    /\ ram' = [settings |-> settings, force |-> force, sensors |-> Limited(settings)]
    /\ WebSave(<<"settings">>, RebootIf(reboot), Owing(force))
    /\ UNCHANGED <<card, doc, sd, rebooting, bootVars>>

(* The sensors come along, and are saved first; or the rules, which have   *)
(* limits of their own, or both, in two saves that are taken for one.      *)
PostAll(settings, force, reboot, sensors) ==
    /\ WebIdle /\ ~safeMode /\ Event
    /\ force => reboot
    /\ ram' = [settings |-> settings, force |-> force, sensors |-> sensors]
    /\ WebSave(<<"sensors", "settings">>, RebootIf(reboot), Owing(force))
    /\ UNCHANGED <<card, doc, sd, rebooting, bootVars>>

(* POST /sensors; refused in safe mode. *)
PostSensors(sensors) ==
    /\ WebIdle /\ ~safeMode /\ Event
    /\ ram' = [ram EXCEPT !.sensors = sensors]
    /\ WebSave(<<"sensors">>, "no", 0)
    /\ UNCHANGED <<card, doc, sd, rebooting, bootVars>>

(* POST /safemode/clear. *)
ClearSafeMode ==
    /\ WebIdle /\ Event
    /\ ram' = [ram EXCEPT !.force = FALSE]
    /\ WebSave(<<"settings">>, "always", 0)
    /\ UNCHANGED <<card, doc, sd, rebooting, bootVars>>

(* POST /reboot. *)
PostReboot ==
    /\ WebIdle /\ Event
    /\ rebooting' = TRUE
    /\ UNCHANGED <<card, doc, sd, ram, save, told, bootVars>>

Request ==
    \/ \E settings \in Settings, force, reboot \in BOOLEAN :
          \/ PostSettings(settings, force, reboot)
          \/ \E sensors \in Sensors : PostAll(settings, force, reboot, sensors)
    \/ \E sensors \in Sensors : PostSensors(sensors)
    \/ ClearSafeMode
    \/ PostReboot

StoreStep(t) == SaveStep(t) /\ NoEvent /\ UNCHANGED bootVars

DeviceNext ==
    \/ SetupStep
    \/ SdFails
    \/ Reboot
    \/ PeriodicSave \/ BootStable
    \/ Request
    \/ \E t \in Tasks : StoreStep(t)
    \/ \E t \in Tasks : OpenFails(t) /\ Event /\ UNCHANGED bootVars
    \/ \E r \in Reasons : Restart(r)

DeviceSpec == DeviceInit /\ [][DeviceNext]_deviceVars

(* setup() goes on, both tasks finish the saves they have begun, the five  *)
(* minutes of tSaveConfig run out, and loop() sees the flag of a reboot.   *)
DeviceFairSpec ==
    /\ DeviceSpec
    /\ WF_deviceVars(SetupStep)
    /\ \A t \in Tasks : WF_deviceVars(StoreStep(t))
    /\ WF_deviceVars(PeriodicSave)
    /\ WF_deviceVars(Reboot)

-------------------------------------------------------------------------------
(* What a user was told is saved stays in the file through restarts, safe  *)
(* mode and periodic saves, as long as no two saves overlapped, none was   *)
(* cut off and none failed to open the file (Config.cpp:484, 854); but for *)
(* the limits of the rules, which any POST /config replaces.               *)
SavedSettingsSurvive ==
    told # Unsure /\ card = "good" => doc.settings = told.settings /\ doc.sensors.kind = told.kind

(* Each request for safe mode makes for one boot into it at most, under    *)
(* the same conditions (main.cpp:397).                                     *)
ForcedSafeModeIsOneShot == told # Unsure => told.owed >= 0

(* The file is of no use, and no task is writing it: no save mends that.   *)
Unreadable == ~sd \/ (card # "good" /\ \A t \in Tasks : ~Doing(t, "write"))

InFile == card = "good" /\ doc.settings = ram.settings /\ (safeMode \/ doc.sensors = ram.sensors)

(* Whatever saves overlapped or failed, and though POST /sensors does not  *)
(* say so, what memory holds gets to the file in the end (main.cpp:249),   *)
(* unless the file is of no use, or the device restarts.                   *)
SettingsReachFile == (phase = "run") ~> (InFile \/ Unreadable \/ phase # "run")

(* The device gets to where the web server can be used again, whatever     *)
(* settings it crashes on (main.cpp:334), wherever the crashes leave the   *)
(* file, and with a restart from outside here and there.                   *)
DeviceComesUp == []<>(phase = "run")
===============================================================================
