------------------------------ MODULE ConfigStore ------------------------------
(***************************************************************************)
(* The configuration: /config.txt on the SD card, what memory holds of it, *)
(* and the two functions that save it, Config::updateConfig (the settings) *)
(* and Config::saveSensorConfig (the sensor descriptors and fault rules).  *)
(* Either one reads the whole document, fills in its own part from memory, *)
(* opens the file for writing, which empties it, and writes the document   *)
(* out.  The main loop and the web server's task do so without a lock.     *)
(*                                                                         *)
(* The settings are one value, but for the flag safeMode.force, and so are *)
(* the descriptors with the rules, but for the limits: the thresholds of   *)
(* the rules that limp mode goes by, which the settings have a copy of.    *)
(* Limits are named by settings that have them.                            *)
(***************************************************************************)
EXTENDS Integers, Sequences

CONSTANTS
    Settings, DefaultSettings,  \* values of the settings; those the program is built with
    Kinds, DefaultKind,         \* values of the descriptors and rules but for the limits
    NoLimits                    \* not one of the settings

Tasks == {"loop", "web"}
Parts == {"settings", "sensors"}

Sensors == [kind : Kinds, limits : Settings]

(* A document without sensors is one that has none of its own. *)
NoSensors == [kind |-> DefaultKind, limits |-> NoLimits]

Document == [settings : Settings, force : BOOLEAN, sensors : Sensors \cup {NoSensors}]
Defaults == [settings |-> DefaultSettings, force |-> FALSE, sensors |-> NoSensors]

ASSUME ConfigStoreAssumption ==
    DefaultSettings \in Settings /\ DefaultKind \in Kinds /\ NoLimits \notin Settings

VARIABLES
    card,           \* /config.txt: "missing", "empty", "torn" (it does not parse), "good"
    doc,            \* the document in it, if it is good (else Defaults)
    sd,             \* _sdInitialized
    ram,            \* proj, the descriptors and the rules in memory
    save,           \* the saves each task has to do, and how far it is
    rebooting,      \* webHandler.shouldReboot()
    \* what has really happened, for the properties
    told            \* what users' requests were last saved as, and how many boots into
                    \* safe mode are owed to them; Unsure once a save overlapped
                    \* another task's, was cut off, or failed to open the file

storeVars == <<card, doc, sd, ram, save, rebooting, told>>

Told == [settings : Settings, kind : Kinds, owed : Int]
Unsure == [unsure |-> TRUE]

(* The saves a task still has to do, what it is doing in the first of them, *)
(* the document it has read and filled in, and whether it is to ask for a   *)
(* reboot at the end.                                                       *)
Save == [todo : Seq(Parts) \ {<<>>}, step : {"read", "open", "write"}, copy : Document,
         reboot : {"no", "if saved", "always"}]
NoSave == [todo |-> <<>>]

StoreTypeOK ==
    /\ card \in {"missing", "empty", "torn", "good"}
    /\ {doc, ram} \subseteq Document
    /\ sd \in BOOLEAN /\ rebooting \in BOOLEAN
    /\ save \in [Tasks -> Save \cup {NoSave}]
    /\ told \in Told \cup {Unsure}

Saving(t) == save[t] # NoSave
Doing(t, step) == Saving(t) /\ save[t].step = step

ToSave(parts, reboot) == [todo |-> parts, step |-> "read", copy |-> Defaults, reboot |-> reboot]

(* A task sets out to save; `more' boots into safe mode are owed from then. *)
(* It works alone, unless another has not done.                             *)
StartSave(t, parts, reboot, more) ==
    /\ save' = [save EXCEPT ![t] = ToSave(parts, reboot)]
    /\ told' = IF told = Unsure \/ \E u \in Tasks \ {t} : Saving(u) THEN Unsure
               ELSE [told EXCEPT !.owed = @ + more]

Filled(file, part) ==
    IF part = "settings" THEN [file EXCEPT !.settings = ram.settings, !.force = ram.force]
                         ELSE [file EXCEPT !.sensors = ram.sensors]

(* A save has ended: the next one, or the reboot the request asked for.  Only *)
(* the last save of a request, that of the settings, decides on the reboot.   *)
EndSave(t, saved) ==
    LET s == save[t]
        last == Len(s.todo) = 1
    IN  /\ save' = [save EXCEPT ![t] = IF last THEN NoSave
                                       ELSE [s EXCEPT !.todo = Tail(@), !.step = "read"]]
        /\ rebooting' = (\/ rebooting
                         \/ last /\ s.reboot = "always"
                         \/ last /\ s.reboot = "if saved" /\ saved)

(* The document is read, parsed, and its part filled in ... *)
ReadBack(t) ==
    /\ Doing(t, "read")
    /\ sd /\ card = "good"
    /\ save' = [save EXCEPT ![t].step = "open", ![t].copy = Filled(doc, Head(save[t].todo))]
    /\ UNCHANGED <<card, doc, sd, ram, rebooting, told>>

(* ... or it does not parse, and the save is given up. *)
ReadFails(t) ==
    /\ Doing(t, "read")
    /\ ~(sd /\ card = "good")
    /\ EndSave(t, FALSE)
    /\ UNCHANGED <<card, doc, sd, ram, told>>

OpenFile(t) ==
    /\ Doing(t, "open")
    /\ card' = "empty" /\ doc' = Defaults
    /\ save' = [save EXCEPT ![t].step = "write"]
    /\ UNCHANGED <<sd, ram, rebooting, told>>

OpenFails(t) ==
    /\ Doing(t, "open")
    /\ EndSave(t, FALSE)
    /\ told' = Unsure
    /\ UNCHANGED <<card, doc, sd, ram>>

(* What is left when two tasks have the file open for writing is anyone's guess. *)
Contended(t) == card # "empty" \/ \E u \in Tasks \ {t} : Doing(u, "write")

WriteFile(t) ==
    /\ Doing(t, "write")
    /\ card' \in (IF Contended(t) THEN {"good", "torn"} ELSE {"good"})
    /\ doc' = IF card' = "good" THEN save[t].copy ELSE Defaults
    /\ told' = IF told = Unsure \/ t = "loop" THEN told
               ELSE IF Head(save[t].todo) = "settings"
                    THEN [told EXCEPT !.settings = save[t].copy.settings]
                    ELSE [told EXCEPT !.kind = save[t].copy.sensors.kind]
    /\ EndSave(t, TRUE)
    /\ UNCHANGED <<sd, ram>>

SaveStep(t) == ReadBack(t) \/ ReadFails(t) \/ OpenFile(t) \/ WriteFile(t)

(* A restart cuts off what the tasks were saving.  One that had opened the *)
(* file leaves it empty or half written.                                   *)
CutOff ==
    /\ card' \in (IF \E t \in Tasks : Doing(t, "write") THEN {"empty", "torn"} ELSE {card})
    /\ told' = IF \E t \in Tasks : Saving(t) THEN Unsure ELSE told
    /\ save' = [t \in Tasks |-> NoSave]
    /\ rebooting' = FALSE
    /\ ram' = Defaults
    /\ UNCHANGED doc
===============================================================================
