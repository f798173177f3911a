------------------------------ MODULE DeviceProofs ------------------------------
(***************************************************************************)
(* Machine-checked proofs about Boot with ConfigStore, for every set of    *)
(* settings and sensor setups, and every threshold of the boot counter.    *)
(***************************************************************************)
EXTENDS Boot, SequenceTheorems, TLAPS

-------------------------------------------------------------------------------
(* The type invariant.                                                     *)

(* Documents are made of documents and defaults.                           *)
LEMMA Documents ==
    /\ Defaults \in Document
    /\ \A file \in Document : file.settings \in Settings /\ file.force \in BOOLEAN
                              /\ file.sensors \in Sensors \cup {NoSensors}
                              /\ file.sensors.kind \in Kinds
    /\ \A s \in Settings, f \in BOOLEAN, n \in Sensors \cup {NoSensors} :
          [settings |-> s, force |-> f, sensors |-> n] \in Document
    /\ \A file \in Document, f \in BOOLEAN : [file EXCEPT !.force = f] \in Document
    /\ \A file \in Document, n \in Sensors \cup {NoSensors} : [file EXCEPT !.sensors = n] \in Document
BY ConfigStoreAssumption DEF Document, Defaults, Sensors, NoSensors

(* A save in progress has something left to do.                            *)
LEMMA SavesAre ==
    ASSUME StoreTypeOK, NEW t \in Tasks
    PROVE  /\ Saving(t) <=> save[t] \in Save
           /\ Saving(t) => /\ save[t].todo \in Seq(Parts) /\ save[t].todo # <<>>
                           /\ save[t].step \in {"read", "open", "write"}
                           /\ save[t].copy \in Document
                           /\ save[t].reboot \in {"no", "if saved", "always"}
<1>1. NoSave \notin Save
  <2>1. \A s \in Save : s.todo # <<>>
    BY DEF Save
  <2>2. NoSave.todo = <<>>
    BY DEF NoSave
  <2>. QED  BY <2>1, <2>2
<1>2. save[t] \in Save \cup {NoSave}
  BY DEF StoreTypeOK
<1>. QED  BY <1>1, <1>2 DEF Saving, Save

(* The rest of what is to save.                                            *)
LEMMA RestIs ==
    ASSUME NEW parts \in Seq(Parts), parts # <<>>, Len(parts) # 1
    PROVE  Tail(parts) \in Seq(Parts) \ {<<>>}
<1>1. Len(parts) \in Nat /\ Len(parts) # 0
  BY EmptySeq
<1>2. Tail(parts) \in Seq(Parts) /\ Len(Tail(parts)) = Len(parts) - 1
  BY HeadTailProperties
<1>3. Len(Tail(parts)) # 0
  BY <1>1, <1>2
<1>. QED  BY <1>2, <1>3, EmptySeq

(* A save that goes on with another part, or step, or copy.                *)
LEMMA SaveTyped ==
    ASSUME NEW s \in Save
    PROVE  /\ \A todo \in Seq(Parts) \ {<<>>} : [s EXCEPT !.todo = todo, !.step = "read"] \in Save
           /\ \A copy \in Document : [s EXCEPT !.step = "open", !.copy = copy] \in Save
           /\ [s EXCEPT !.step = "write"] \in Save
BY DEF Save

(* What has been told stays told.                                          *)
LEMMA ToldTyped ==
    ASSUME NEW x \in Told
    PROVE  /\ \A n \in Int : [x EXCEPT !.owed = x.owed + n] \in Told
           /\ \A v \in Settings : [x EXCEPT !.settings = v] \in Told
           /\ \A k \in Kinds : [x EXCEPT !.kind = k] \in Told
           /\ x # Unsure
<1>1. x.owed \in Int
  BY DEF Told
<1>2. \A n \in Int : x.owed + n \in Int
  BY <1>1
<1>3. \A n \in Int : [x EXCEPT !.owed = n] \in Told
  BY DEF Told
<1>4. DOMAIN x = {"settings", "kind", "owed"} /\ DOMAIN Unsure = {"unsure"}
  BY DEF Told, Unsure
<1>5. "owed" \notin {"unsure"}
  OBVIOUS
<1>6. x # Unsure
  BY <1>4, <1>5
<1>. QED  BY <1>2, <1>3, <1>6 DEF Told

(* Whether a reboot is to follow a save.                                   *)
Reboots == {"no", "if saved", "always"}

(* A task that sets out to save.                                           *)
LEMMA StartTyped ==
    ASSUME StoreTypeOK, NEW t \in Tasks, NEW parts \in Seq(Parts) \ {<<>>},
           NEW reboot \in Reboots, NEW more \in Int,
           StartSave(t, parts, reboot, more)
    PROVE  save' \in [Tasks -> Save \cup {NoSave}] /\ told' \in Told \cup {Unsure}
<1>1. ToSave(parts, reboot) \in Save
  BY Documents DEF ToSave, Save, Reboots
<1>2. told # Unsure => [told EXCEPT !.owed = @ + more] \in Told
  BY ToldTyped DEF StoreTypeOK
<1>. QED  BY <1>1, <1>2 DEF StartSave, StoreTypeOK

(* A request that sets out to save, early or not.                          *)
LEMMA WebSaveTyped ==
    ASSUME StoreTypeOK, NEW parts \in Seq(Parts) \ {<<>>},
           NEW reboot \in Reboots, NEW more \in Int,
           WebSave(parts, reboot, more)
    PROVE  save' \in [Tasks -> Save \cup {NoSave}] /\ told' \in Told \cup {Unsure}
<1>1. "web" \in Tasks /\ ToSave(parts, reboot) \in Save
  BY Documents DEF Tasks, ToSave, Save, Reboots
<1>2. CASE phase = "run"
  BY <1>1, <1>2, StartTyped DEF WebSave
<1>3. CASE phase # "run"
  BY <1>1, <1>3 DEF WebSave, StoreTypeOK
<1>. QED  BY <1>2, <1>3

(* A save that has ended.                                                  *)
LEMMA EndTyped ==
    ASSUME StoreTypeOK, NEW t \in Tasks, NEW saved \in BOOLEAN, Saving(t), EndSave(t, saved)
    PROVE  save' \in [Tasks -> Save \cup {NoSave}] /\ rebooting' \in BOOLEAN
<1>1. save[t] \in Save /\ save[t].todo \in Seq(Parts) /\ save[t].todo # <<>>
  BY SavesAre
<1>2. ASSUME Len(save[t].todo) # 1
      PROVE  [save[t] EXCEPT !.todo = Tail(@), !.step = "read"] \in Save
  <2>1. Tail(save[t].todo) \in Seq(Parts) \ {<<>>}
    BY <1>1, <1>2, RestIs
  <2>. QED  BY <1>1, <2>1, SaveTyped
<1>. QED  BY <1>1, <1>2 DEF EndSave, StoreTypeOK

(* One step of a save, by either task.                                     *)
LEMMA SaveStepTyped ==
    ASSUME StoreTypeOK, NEW t \in Tasks, SaveStep(t) \/ OpenFails(t)
    PROVE  StoreTypeOK'
<1>. USE DEF Doing
<1>1. CASE ReadBack(t)
  <2>1. Saving(t) /\ sd /\ UNCHANGED <<card, doc, sd, ram, rebooting, told>>
        /\ save' = [save EXCEPT ![t].step = "open", ![t].copy = Filled(doc, Head(save[t].todo))]
    BY <1>1 DEF ReadBack
  <2>2. Filled(doc, Head(save[t].todo)) \in Document
    <3>1. doc \in Document /\ ram \in Document
      BY DEF StoreTypeOK
    <3>2. [doc EXCEPT !.settings = ram.settings, !.force = ram.force] \in Document
      BY <3>1, Documents DEF Document
    <3>3. [doc EXCEPT !.sensors = ram.sensors] \in Document
      BY <3>1, Documents
    <3>. QED  BY <3>2, <3>3 DEF Filled
  <2>3. [save[t] EXCEPT !.step = "open", !.copy = Filled(doc, Head(save[t].todo))] \in Save
    BY <2>1, <2>2, SavesAre, SaveTyped
  <2>. QED  BY <2>1, <2>3 DEF StoreTypeOK
<1>2. CASE ReadFails(t)
  BY <1>2, EndTyped DEF ReadFails, StoreTypeOK
<1>3. CASE OpenFile(t)
  <2>1. [save[t] EXCEPT !.step = "write"] \in Save
    BY <1>3, SavesAre, SaveTyped DEF OpenFile
  <2>. QED  BY <1>3, <2>1, Documents DEF OpenFile, StoreTypeOK
<1>4. CASE WriteFile(t)
  <2>1. Saving(t) /\ EndSave(t, TRUE) /\ sd' = sd /\ ram' = ram
        /\ card' \in {"good", "torn"} /\ doc' \in {save[t].copy, Defaults}
    BY <1>4 DEF WriteFile
  <2>2. doc' \in Document
    BY <2>1, SavesAre, Documents
  <2>3. told' \in Told \cup {Unsure}
    <3>1. /\ save[t].copy.settings \in Settings /\ save[t].copy.sensors.kind \in Kinds
          /\ save[t].todo # <<>> /\ Head(save[t].todo) \in Parts
      BY <2>1, SavesAre, Documents, HeadTailProperties
    <3>2. told # Unsure => told \in Told
      BY DEF StoreTypeOK
    <3>. QED  BY <1>4, <3>1, <3>2, ToldTyped DEF WriteFile
  <2>. QED  BY <2>1, <2>2, <2>3, EndTyped DEF StoreTypeOK
<1>5. CASE OpenFails(t)
  BY <1>5, EndTyped DEF OpenFails, StoreTypeOK
<1>. QED  BY <1>1, <1>2, <1>3, <1>4, <1>5 DEF SaveStep

(* What a task may set out to save.                                        *)
LEMMA PartsAre ==
    /\ <<"settings">> \in Seq(Parts) \ {<<>>}
    /\ <<"sensors">> \in Seq(Parts) \ {<<>>}
    /\ <<"settings", "sensors">> \in Seq(Parts) \ {<<>>}
    /\ <<"sensors", "settings">> \in Seq(Parts) \ {<<>>}
BY DEF Parts

(* What a save may lead to, and how many boots it may owe.                 *)
LEMMA RebootsAre ==
    /\ "no" \in Reboots /\ "always" \in Reboots
    /\ \A reboot \in BOOLEAN : RebootIf(reboot) \in Reboots
    /\ -1 \in Int /\ 0 \in Int /\ 0 >= 0
    /\ \A force \in BOOLEAN : Owing(force) \in Int /\ Owing(force) >= 0 /\ (force => Owing(force) >= 1)
BY DEF Reboots, RebootIf, Owing

(* A restart.                                                              *)
LEMMA RestartTyped ==
    ASSUME BootTypeOK, NEW r \in Reasons, Restarted(r), events' \in 0 .. MaxEvents
    PROVE  BootTypeOK'
<1>1. StoreTypeOK'
  BY Documents DEF Restarted, CutOff, BootTypeOK, StoreTypeOK
<1>. QED  BY <1>1 DEF Restarted, BootTypeOK

(* Every step keeps the types.                                             *)
LEMMA BootTypeStep == BootTypeOK /\ [DeviceNext]_deviceVars => BootTypeOK'
<1>. SUFFICES ASSUME BootTypeOK, [DeviceNext]_deviceVars PROVE BootTypeOK'
  OBVIOUS
<1>0. /\ StoreTypeOK /\ Threshold \in Nat /\ MaxEvents \in Nat
      /\ "loop" \in Tasks /\ "web" \in Tasks
      /\ ram.sensors \in Sensors \cup {NoSensors} /\ ram.settings \in Settings
  BY BootAssumption, Documents DEF BootTypeOK, StoreTypeOK, Tasks
<1>1. Event \/ NoEvent => events' \in 0 .. MaxEvents
  BY <1>0 DEF BootTypeOK, Event, NoEvent
<1>2. CASE CountBoot
  <2>1. bootCount' \in 0 .. Threshold + 1
    BY <1>0, <1>2 DEF CountBoot, BootTypeOK
  <2>2. safeMode' \in BOOLEAN
    BY <1>2 DEF CountBoot
  <2>. QED  BY <1>1, <1>2, <2>1, <2>2 DEF CountBoot, BootTypeOK, StoreTypeOK, storeVars
<1>3. CASE LoadConfig
  <2>1. ram' \in Document
    BY <1>0, <1>3, Documents DEF LoadConfig, StoreTypeOK
  <2>. QED  BY <1>1, <1>3, <2>1 DEF LoadConfig, BootTypeOK, StoreTypeOK
<1>4. CASE CreateConfig \/ WriteDefaults \/ SdFails
  BY <1>1, <1>4, Documents DEF CreateConfig, WriteDefaults, SdFails, BootTypeOK, StoreTypeOK
<1>5. CASE CheckForce
  <2>1. CASE ram.force /\ ~safeMode
    <3>1. /\ safeMode' = TRUE /\ ram' = [ram EXCEPT !.force = FALSE]
          /\ StartSave("loop", <<"settings">>, "no", -1)
      BY <1>5, <2>1 DEF CheckForce
    <3>2. save' \in [Tasks -> Save \cup {NoSave}] /\ told' \in Told \cup {Unsure}
      BY <1>0, <3>1, StartTyped, PartsAre, RebootsAre
    <3>3. ram' \in Document
      BY <1>0, <3>1, Documents DEF StoreTypeOK
    <3>. QED  BY <1>1, <1>5, <3>1, <3>2, <3>3 DEF CheckForce, BootTypeOK, StoreTypeOK
  <2>2. CASE ~(ram.force /\ ~safeMode)
    BY <1>1, <1>5, <2>2 DEF CheckForce, BootTypeOK, StoreTypeOK
  <2>. QED  BY <2>1, <2>2
<1>6. CASE BeginEcu
  <2>1. /\ doc.sensors \in Sensors \cup {NoSensors}
        /\ ram.sensors.kind \in Kinds
        /\ [kind |-> ram.sensors.kind, limits |-> ram.settings] \in Sensors
    BY <1>0, Documents DEF StoreTypeOK, Sensors
  <2>2. ram' \in Document
    BY <1>0, <1>6, <2>1, Documents DEF BeginEcu, StoreTypeOK
  <2>. QED  BY <1>1, <1>6, <2>2 DEF BeginEcu, BootTypeOK, StoreTypeOK
<1>7. CASE BeginSafe
  BY <1>1, <1>7 DEF BeginSafe, BootTypeOK, StoreTypeOK, storeVars
<1>8. CASE CrashInBegin \/ Reboot \/ \E r \in Reasons : Restart(r)
  BY <1>1, <1>8, RestartTyped DEF CrashInBegin, Reboot, Restart, Reasons
<1>9. CASE PeriodicSave
  <2>1. StartSave("loop", IF safeMode THEN <<"settings">> ELSE <<"settings", "sensors">>, "no", 0)
    BY <1>9 DEF PeriodicSave
  <2>2. save' \in [Tasks -> Save \cup {NoSave}] /\ told' \in Told \cup {Unsure}
    BY <1>0, <2>1, StartTyped, PartsAre, RebootsAre
  <2>. QED  BY <1>1, <1>9, <2>2 DEF PeriodicSave, BootTypeOK, StoreTypeOK, bootVars
<1>10. CASE BootStable
  BY <1>0, <1>1, <1>10 DEF BootStable, BootTypeOK, StoreTypeOK, storeVars
<1>11. CASE Request
  <2>1. ASSUME NEW settings \in Settings, NEW force \in BOOLEAN, NEW n \in Sensors \cup {NoSensors}
        PROVE  [settings |-> settings, force |-> force, sensors |-> n] \in Document
    BY Documents
  <2>2. ASSUME NEW parts \in Seq(Parts) \ {<<>>}, NEW reboot \in Reboots,
               NEW more \in Int, WebSave(parts, reboot, more), ram' \in Document, Event,
               UNCHANGED <<card, doc, sd, rebooting, bootVars>>
        PROVE  BootTypeOK'
    BY <1>0, <1>1, <2>2, WebSaveTyped DEF BootTypeOK, StoreTypeOK, bootVars
  <2>3. ASSUME NEW settings \in Settings, NEW force \in BOOLEAN, NEW reboot \in BOOLEAN,
               PostSettings(settings, force, reboot)
        PROVE  BootTypeOK'
    <3>1. [ram.sensors EXCEPT !.limits = settings] \in Sensors
      BY <1>0, ConfigStoreAssumption DEF Sensors, NoSensors
    <3>2. Limited(settings) \in Sensors \cup {NoSensors}
      BY <1>0, <3>1 DEF Limited
    <3>3. RebootIf(reboot) \in Reboots /\ Owing(force) \in Int
      BY RebootsAre
    <3>. QED  BY <2>1, <2>2, <2>3, <3>2, <3>3, PartsAre DEF PostSettings
  <2>4. ASSUME NEW settings \in Settings, NEW force \in BOOLEAN, NEW reboot \in BOOLEAN,
               NEW sensors \in Sensors, PostAll(settings, force, reboot, sensors)
        PROVE  BootTypeOK'
    <3>1. RebootIf(reboot) \in Reboots /\ Owing(force) \in Int
      BY RebootsAre
    <3>. QED  BY <2>1, <2>2, <2>4, <3>1, PartsAre DEF PostAll
  <2>5. ASSUME NEW sensors \in Sensors, PostSensors(sensors) PROVE BootTypeOK'
    <3>1. ram' \in Document
      BY <1>0, <2>5, Documents DEF PostSensors, StoreTypeOK
    <3>. QED  BY <2>2, <2>5, <3>1, PartsAre, RebootsAre DEF PostSensors
  <2>6. CASE ClearSafeMode
    <3>1. ram' \in Document
      BY <1>0, <2>6, Documents DEF ClearSafeMode, StoreTypeOK
    <3>. QED  BY <2>2, <2>6, <3>1, PartsAre, RebootsAre DEF ClearSafeMode
  <2>7. CASE PostReboot
    BY <1>0, <1>1, <2>7 DEF PostReboot, BootTypeOK, StoreTypeOK, bootVars
  <2>. QED  BY <1>11, <2>3, <2>4, <2>5, <2>6, <2>7 DEF Request
<1>12. CASE \E t \in Tasks : StoreStep(t) \/ (OpenFails(t) /\ Event /\ UNCHANGED bootVars)
  <2>1. PICK t \in Tasks : StoreStep(t) \/ (OpenFails(t) /\ Event /\ UNCHANGED bootVars)
    BY <1>12
  <2>2. StoreTypeOK'
    BY <1>0, <2>1, SaveStepTyped DEF StoreStep
  <2>. QED  BY <1>1, <2>1, <2>2 DEF StoreStep, BootTypeOK, bootVars
<1>13. CASE UNCHANGED deviceVars
  BY <1>0, <1>13 DEF deviceVars, storeVars, bootVars, BootTypeOK, StoreTypeOK
<1>. QED
  BY <1>2, <1>3, <1>4, <1>5, <1>6, <1>7, <1>8, <1>9, <1>10, <1>11, <1>12, <1>13
  DEF DeviceNext, SetupStep

(* The card, memory, the saves and the boot keep their types.              *)
THEOREM DeviceTypeCorrect == DeviceSpec => []BootTypeOK
<1>1. DeviceInit => BootTypeOK
  <2>. SUFFICES ASSUME DeviceInit PROVE BootTypeOK
    OBVIOUS
  <2>1. told \in Told
    BY ConfigStoreAssumption DEF DeviceInit, Told
  <2>2. StoreTypeOK
    BY <2>1, Documents DEF DeviceInit, StoreTypeOK
  <2>3. 0 \in 0 .. Threshold + 1 /\ 0 \in 0 .. MaxEvents
    BY BootAssumption
  <2>. QED  BY <2>2, <2>3 DEF DeviceInit, BootTypeOK, Reasons
<1>. QED  BY <1>1, BootTypeStep, PTL DEF DeviceSpec

-------------------------------------------------------------------------------
(* What users were told.  While no saves overlap and none fails, the file  *)
(* follows the requests: DeviceInv says where each part of the             *)
(* configuration is on its way from memory to the file.                    *)

(* The task has read the document and has it in hand.                      *)
InHand(t) == Doing(t, "open") \/ Doing(t, "write")

(* Some task has emptied the file to write it.                             *)
Writing == \E t \in Tasks : Doing(t, "write")

(* The web server's task is still to save that part.                       *)
WebOwes(part) == Saving("web") /\ save["web"].todo # (IF part = "settings" THEN <<"sensors">> ELSE <<"settings">>)

(* What each task saves, and when it does.                                 *)
SavesInv ==
    /\ Saving("loop") =>
          /\ phase \in {"begin", "run"}
          /\ save["loop"].todo \in {<<"settings">>, <<"sensors">>, <<"settings", "sensors">>}
          /\ phase = "begin" => save["loop"].todo = <<"settings">> /\ ~ram.force /\ sd
          /\ save["loop"].todo # <<"settings">> => ~safeMode
    /\ Saving("web") =>
          /\ phase = "run" \/ (phase = "begin" /\ told = Unsure)
          /\ save["web"].todo \in {<<"settings">>, <<"sensors">>, <<"sensors", "settings">>}
    /\ phase \in {"boot", "load", "defaults"} => ram = Defaults
    /\ phase = "defaults" => card = "empty"
    /\ phase = "check" /\ ~sd => ~ram.force

(* The file holds what was told, or is being written, or was never made.   *)
FileInv ==
    /\ ~(Saving("loop") /\ Saving("web"))
    /\ \A t \in Tasks : /\ Doing(t, "open") => sd /\ card = "good"
                        /\ Doing(t, "write") => sd /\ card = "empty"
    /\ card # "torn"
    /\ sd /\ phase \in {"check", "begin", "run"} => card = "good" \/ Writing
    /\ card # "good" => Writing \/ (told.settings = DefaultSettings /\ told.kind = DefaultKind)
    /\ card = "good" => doc.settings = told.settings /\ doc.sensors.kind = told.kind

(* Memory holds what was told, but for what the web server is saving, and  *)
(* for the sensors until they are loaded.                                  *)
MemoryInv ==
    /\ phase \in {"check", "begin"} => ram.sensors.kind = DefaultKind
    /\ sd =>
        /\ phase \in {"check", "begin", "run"} /\ ~WebOwes("settings") => ram.settings = told.settings
        /\ phase = "run" /\ ~safeMode /\ ~WebOwes("sensors") => ram.sensors.kind = told.kind

(* The document in hand is what was told, with one part from memory.       *)
CopyInv ==
    \A t \in Tasks : InHand(t) =>
        IF Head(save[t].todo) = "settings"
        THEN /\ save[t].copy.settings = ram.settings
             /\ save[t].copy.sensors.kind = told.kind
        ELSE /\ save[t].copy.settings = told.settings
             /\ save[t].copy.sensors.kind = ram.sensors.kind

(* Each flag there is, in memory, in the file or in hand, is owed a boot   *)
(* into safe mode; but the flag in the file while setup() saves it cleared. *)
OwedInv ==
    /\ told.owed >= 0
    /\ ram.force => told.owed >= 1
    /\ card = "good" /\ doc.force => told.owed >= 1 \/ (phase = "begin" /\ Saving("loop"))
    /\ \A t \in Tasks : InHand(t) /\ save[t].copy.force => told.owed >= 1

DeviceInv == SavesInv /\ (told # Unsure => FileInv /\ MemoryInv /\ CopyInv /\ OwedInv)

(* The lists of saves there are.                                           *)
LEMMA Todos ==
    /\ Len(<<"settings">>) = 1 /\ Len(<<"sensors">>) = 1
    /\ Len(<<"settings", "sensors">>) = 2 /\ Len(<<"sensors", "settings">>) = 2
    /\ Head(<<"settings">>) = "settings" /\ Head(<<"sensors">>) = "sensors"
    /\ Head(<<"settings", "sensors">>) = "settings" /\ Head(<<"sensors", "settings">>) = "sensors"
    /\ Tail(<<"settings", "sensors">>) = <<"sensors">>
    /\ Tail(<<"sensors", "settings">>) = <<"settings">>
    /\ <<"settings">> # <<"sensors">>
    /\ <<"settings", "sensors">> \notin {<<"settings">>, <<"sensors">>}
    /\ <<"sensors", "settings">> \notin {<<"settings">>, <<"sensors">>}
    /\ "loop" \in Tasks /\ "web" \in Tasks /\ \A t \in Tasks : t \in {"loop", "web"}
    /\ "settings" # "sensors"
BY DEF Tasks

(* A task that sets out to save ...                                        *)
LEMMA StartIs ==
    ASSUME StoreTypeOK, NEW t \in Tasks, NEW parts \in Seq(Parts) \ {<<>>},
           NEW reboot \in Reboots, NEW more \in Int,
           StartSave(t, parts, reboot, more)
    PROVE  /\ Saving(t)' /\ save'[t].todo = parts /\ save'[t].step = "read"
           /\ \A u \in Tasks : u # t => save'[u] = save[u]
<1>1. /\ save'[t] = ToSave(parts, reboot)
      /\ \A u \in Tasks : u # t => save'[u] = save[u]
  BY DEF StartSave, StoreTypeOK
<1>2. /\ ToSave(parts, reboot).todo = parts /\ ToSave(parts, reboot).step = "read"
      /\ NoSave.todo = <<>>
  BY DEF ToSave, NoSave
<1>3. ToSave(parts, reboot) # NoSave
  BY <1>2
<1>. QED  BY <1>1, <1>2, <1>3 DEF Saving

(* ... and what is told then.                                              *)
LEMMA StartTells ==
    ASSUME StoreTypeOK, NEW t \in Tasks, NEW parts \in Seq(Parts) \ {<<>>},
           NEW reboot \in Reboots, NEW more \in Int,
           StartSave(t, parts, reboot, more), told' # Unsure
    PROVE  /\ told # Unsure
           /\ \A u \in Tasks : u # t => ~Saving(u)
           /\ told'.settings = told.settings /\ told'.kind = told.kind
           /\ told'.owed = told.owed + more
<1>1. /\ told # Unsure /\ \A u \in Tasks : u # t => ~Saving(u)
      /\ told' = [told EXCEPT !.owed = @ + more]
  BY DEF StartSave
<1>2. told \in Told
  BY <1>1 DEF StoreTypeOK
<1>. QED  BY <1>1, <1>2 DEF Told

(* A save that has ended, and the one that follows.                        *)
LEMMA EndIs ==
    ASSUME StoreTypeOK, NEW t \in Tasks, NEW saved \in BOOLEAN, Saving(t), EndSave(t, saved)
    PROVE  /\ \A u \in Tasks \ {t} : save'[u] = save[u]
           /\ save[t].todo \in {<<"settings">>, <<"sensors">>} => ~Saving(t)'
           /\ save[t].todo = <<"settings", "sensors">> => save'[t].todo = <<"sensors">>
           /\ save[t].todo = <<"sensors", "settings">> => save'[t].todo = <<"settings">>
           /\ save[t].todo \in {<<"settings", "sensors">>, <<"sensors", "settings">>} => save'[t].step = "read"
<1>1. save[t] \in Save /\ save \in [Tasks -> Save \cup {NoSave}]
  BY SavesAre DEF StoreTypeOK
<1>2. Len(save[t].todo) = 1 => save'[t] = NoSave
  BY <1>1 DEF EndSave
<1>3. Len(save[t].todo) # 1 => save'[t] = [save[t] EXCEPT !.todo = Tail(save[t].todo), !.step = "read"]
  BY <1>1 DEF EndSave
<1>4. Len(save[t].todo) # 1 => save'[t].todo = Tail(save[t].todo) /\ save'[t].step = "read"
  BY <1>1, <1>3 DEF Save
<1>5. \A u \in Tasks \ {t} : save'[u] = save[u]
  BY <1>1 DEF EndSave
<1>6. ASSUME save[t].todo \in {<<"settings">>, <<"sensors">>} PROVE ~Saving(t)'
  BY <1>2, <1>6, Todos DEF Saving
<1>7. ASSUME save[t].todo = <<"settings", "sensors">>
      PROVE  save'[t].todo = <<"sensors">> /\ save'[t].step = "read"
  <2>1. Len(save[t].todo) # 1 /\ Tail(save[t].todo) = <<"sensors">>
    BY <1>7, Todos
  <2>. QED  BY <1>4, <2>1
<1>8. ASSUME save[t].todo = <<"sensors", "settings">>
      PROVE  save'[t].todo = <<"settings">> /\ save'[t].step = "read"
  <2>1. Len(save[t].todo) # 1 /\ Tail(save[t].todo) = <<"settings">>
    BY <1>8, Todos
  <2>. QED  BY <1>4, <2>1
<1>. QED  BY <1>5, <1>6, <1>7, <1>8

(* The defaults the program is built with.                                 *)
LEMMA DefaultsAre ==
    /\ Defaults.settings = DefaultSettings /\ Defaults.force = FALSE
    /\ Defaults.sensors.kind = DefaultKind
BY DEF Defaults, NoSensors

(* A restart keeps what was told, unless it cuts a save off.               *)
LEMMA RestartKeeps ==
    ASSUME DeviceInv, NEW r, Restarted(r)
    PROVE  DeviceInv'
<1>1. /\ \A t \in Tasks : ~Saving(t)'
      /\ ram' = Defaults /\ sd' = FALSE /\ phase' = "boot" /\ doc' = doc
  BY DEF Restarted, CutOff, Saving
<1>2. SavesInv'
  BY <1>1, Todos DEF SavesInv
<1>3. ASSUME told' # Unsure PROVE (FileInv /\ MemoryInv /\ CopyInv /\ OwedInv)'
  <2>1. told # Unsure /\ told' = told /\ card' = card /\ \A t \in Tasks : ~Saving(t)
    BY <1>3 DEF Restarted, CutOff, Doing
  <2>2. \A t \in Tasks : ~Doing(t, "open")' /\ ~Doing(t, "write")' /\ ~InHand(t)'
    BY <1>1 DEF Doing, InHand
  <2>3. ~Writing
    BY <2>1 DEF Writing, Doing
  <2>4. FileInv'
    BY <1>1, <2>1, <2>2, <2>3, Todos DEF DeviceInv, FileInv
  <2>5. OwedInv'
    BY <1>1, <2>1, <2>2, DefaultsAre, Todos DEF DeviceInv, OwedInv
  <2>. QED  BY <1>1, <2>2, <2>4, <2>5 DEF MemoryInv, CopyInv
<1>. QED  BY <1>2, <1>3 DEF DeviceInv

(* The steps of setup() that save nothing, and tBootStable.                *)
LEMMA SetupKeeps ==
    ASSUME BootTypeOK, DeviceInv, save' = save,
           \/ CountBoot \/ SdFails \/ LoadConfig \/ CreateConfig \/ WriteDefaults
           \/ BeginEcu \/ BeginSafe \/ BootStable
    PROVE  DeviceInv'
<1>0. /\ \A t \in Tasks : \A s \in {"read", "open", "write"} : Doing(t, s)' <=> Doing(t, s)
      /\ \A t \in Tasks : Saving(t)' <=> Saving(t)
      /\ \A t \in Tasks : InHand(t)' <=> InHand(t)
      /\ Writing' <=> Writing
      /\ \A part : WebOwes(part)' <=> WebOwes(part)
  BY DEF Doing, Saving, InHand, Writing, WebOwes
<1>1. /\ told' = told
      /\ phase \notin {"begin", "run"} => \A t \in Tasks : ~Saving(t)
      /\ phase # "run" /\ told # Unsure => ~Saving("web")
  BY Todos DEF DeviceInv, SavesInv, CountBoot, SdFails, LoadConfig, CreateConfig, WriteDefaults,
     BeginEcu, BeginSafe, BootStable, storeVars
<1>2. phase \notin {"begin", "run"} => \A t \in Tasks : ~Doing(t, "open") /\ ~Doing(t, "write") /\ ~InHand(t)
  BY <1>1 DEF Doing, InHand
<1>3. phase \notin {"begin", "run"} => ~Writing /\ ~WebOwes("settings") /\ ~WebOwes("sensors")
  BY <1>1, <1>2, Todos DEF Writing, WebOwes
<1>4. CASE CountBoot
  BY <1>0, <1>1, <1>2, <1>3, <1>4, Todos
  DEF CountBoot, storeVars, DeviceInv, SavesInv, FileInv, MemoryInv, CopyInv, OwedInv
<1>5. CASE SdFails
  BY <1>0, <1>1, <1>2, <1>3, <1>5, Todos, DefaultsAre
  DEF SdFails, DeviceInv, SavesInv, FileInv, MemoryInv, CopyInv, OwedInv
<1>6. CASE LoadConfig
  <2>1. (ram'.settings = doc.settings /\ ram'.force = doc.force) \/ card = "torn"
    BY <1>6, Documents DEF LoadConfig, BootTypeOK, StoreTypeOK, Document
  <2>2. ram'.sensors.kind = DefaultKind
    <3>1. ram = Defaults
      BY <1>6 DEF LoadConfig, DeviceInv, SavesInv
    <3>2. NoSensors.kind = DefaultKind
      BY DEF NoSensors
    <3>. QED  BY <1>6, <3>1, <3>2, DefaultsAre DEF LoadConfig, BootTypeOK, StoreTypeOK, Document
  <2>. QED
    BY <1>0, <1>1, <1>2, <1>3, <1>6, <2>1, <2>2, Todos
    DEF LoadConfig, DeviceInv, SavesInv, FileInv, MemoryInv, CopyInv, OwedInv
<1>7. CASE CreateConfig
  BY <1>0, <1>1, <1>2, <1>3, <1>7, Todos, DefaultsAre
  DEF CreateConfig, DeviceInv, SavesInv, FileInv, MemoryInv, CopyInv, OwedInv
<1>8. CASE WriteDefaults
  BY <1>0, <1>1, <1>2, <1>3, <1>8, Todos, DefaultsAre
  DEF WriteDefaults, DeviceInv, SavesInv, FileInv, MemoryInv, CopyInv, OwedInv
<1>9. CASE BeginEcu
  <2>0. SavesInv'
    BY <1>0, <1>1, <1>9, Todos DEF BeginEcu, DeviceInv, SavesInv
  <2>1. told # Unsure => \A t \in Tasks : ~Saving(t) /\ ~Doing(t, "open") /\ ~Doing(t, "write") /\ ~InHand(t)
    BY <1>1, <1>9, Todos DEF BeginEcu, Doing, InHand
  <2>2. told # Unsure => ~Writing
    BY <2>1 DEF Writing
  <2>3. /\ ram'.settings = ram.settings /\ ram'.force = ram.force
        /\ ram'.sensors.kind = IF sd /\ card = "good" /\ doc.sensors # NoSensors
                               THEN doc.sensors.kind ELSE ram.sensors.kind
    BY <1>9 DEF BeginEcu, BootTypeOK, StoreTypeOK, Document
  <2>4. doc.sensors = NoSensors => doc.sensors.kind = DefaultKind
    BY DEF NoSensors
  <2>. QED
    BY <1>0, <1>1, <1>9, <2>0, <2>1, <2>2, <2>3, <2>4, Todos
    DEF BeginEcu, DeviceInv, FileInv, MemoryInv, CopyInv, OwedInv
<1>10. CASE BeginSafe
  <2>0. SavesInv'
    BY <1>0, <1>1, <1>10, Todos DEF BeginSafe, storeVars, DeviceInv, SavesInv
  <2>1. told # Unsure => \A t \in Tasks : ~Saving(t) /\ ~Doing(t, "open") /\ ~Doing(t, "write") /\ ~InHand(t)
    BY <1>1, <1>10, Todos DEF BeginSafe, Doing, InHand
  <2>2. told # Unsure => ~Writing
    BY <2>1 DEF Writing
  <2>. QED
    BY <1>0, <1>1, <1>10, <2>0, <2>1, <2>2, Todos
    DEF BeginSafe, storeVars, DeviceInv, FileInv, MemoryInv, CopyInv, OwedInv
<1>11. CASE BootStable
  BY <1>0, <1>1, <1>11, Todos
  DEF BootStable, LoopIdle, storeVars, DeviceInv, SavesInv, FileInv, MemoryInv, CopyInv, OwedInv
<1>. QED  BY <1>4, <1>5, <1>6, <1>7, <1>8, <1>9, <1>10, <1>11

(* A task that sets out to save, alone, has nothing in hand yet.           *)
LEMMA StartAlone ==
    ASSUME StoreTypeOK, NEW t \in Tasks, NEW parts \in Seq(Parts) \ {<<>>},
           NEW reboot \in Reboots, NEW more \in Int,
           StartSave(t, parts, reboot, more), told' # Unsure
    PROVE  /\ \A u \in Tasks : /\ Saving(u)' <=> u = t
                               /\ ~Doing(u, "open")' /\ ~Doing(u, "write")' /\ ~InHand(u)'
           /\ \A u \in Tasks : u # t => ~Saving(u)
           /\ ~Writing'
           /\ Writing => Doing(t, "write")
<1>0. StoreTypeOK /\ StartSave(t, parts, reboot, more) /\ told' # Unsure
  OBVIOUS
<1>1. \A u \in Tasks : u # t => ~Saving(u) /\ save'[u] = save[u]
  <2>1. \A u \in Tasks : u # t => ~Saving(u)
    BY <1>0, StartTells
  <2>2. \A u \in Tasks : u # t => save'[u] = save[u]
    BY <1>0, StartIs
  <2>. QED  BY <2>1, <2>2
<1>2. Saving(t)' /\ save'[t].step = "read"
  BY StartIs
<1>3. \A u \in Tasks : ~Doing(u, "open")' /\ ~Doing(u, "write")'
  BY <1>1, <1>2 DEF Doing, Saving
<1>4. \A u \in Tasks : Saving(u)' <=> u = t
  BY <1>1, <1>2 DEF Saving
<1>. QED  BY <1>1, <1>3, <1>4 DEF InHand, Writing, Doing

(* The one-shot flag is honoured, and the boot it was owed paid.           *)
LEMMA CheckForceKeeps ==
    ASSUME BootTypeOK, DeviceInv, CheckForce
    PROVE  DeviceInv'
<1>0. StoreTypeOK /\ "loop" \in Tasks /\ \A t \in Tasks : ~Saving(t)
  BY Todos DEF BootTypeOK, CheckForce, DeviceInv, SavesInv
<1>1. ~Writing /\ \A t \in Tasks : ~Doing(t, "open") /\ ~Doing(t, "write") /\ ~InHand(t)
  BY <1>0 DEF Writing, Doing, InHand
<1>2. ~WebOwes("settings") /\ ~WebOwes("sensors")
  BY <1>0, Todos DEF WebOwes
<1>3. CASE ram.force /\ ~safeMode
  <2>1. /\ ram' = [ram EXCEPT !.force = FALSE] /\ StartSave("loop", <<"settings">>, "no", -1)
        /\ phase = "check" /\ phase' = "begin" /\ UNCHANGED <<card, doc, sd>>
    BY <1>3 DEF CheckForce
  <2>2. ram'.settings = ram.settings /\ ~ram'.force
    BY <2>1 DEF BootTypeOK, StoreTypeOK, Document
  <2>3. save'["loop"].todo = <<"settings">> /\ save'["web"] = save["web"]
    <3>1. save'["loop"].todo = <<"settings">> /\ \A u \in Tasks : u # "loop" => save'[u] = save[u]
      BY <1>0, <2>1, StartIs, PartsAre, RebootsAre
    <3>. QED  BY <3>1, Todos
  <2>4. ~Saving("web")' /\ ~WebOwes("settings")' /\ ~WebOwes("sensors")'
    BY <1>0, <2>3, Todos DEF Saving, WebOwes
  <2>5. SavesInv'
    BY <1>3, <2>1, <2>2, <2>3, <2>4 DEF DeviceInv, SavesInv
  <2>6. ASSUME told' # Unsure PROVE (FileInv /\ MemoryInv /\ CopyInv /\ OwedInv)'
    <3>1. /\ told # Unsure /\ told'.settings = told.settings /\ told'.kind = told.kind
          /\ told'.owed = told.owed + (-1)
      BY <1>0, <2>1, <2>6, StartTells, PartsAre, RebootsAre
    <3>2. /\ \A u \in Tasks : ~Doing(u, "open")' /\ ~Doing(u, "write")' /\ ~InHand(u)'
          /\ Saving("loop")' /\ ~Writing'
      BY <1>0, <2>1, <2>6, StartAlone, PartsAre, RebootsAre
    <3>3. told.owed \in Int
      BY <3>1 DEF BootTypeOK, StoreTypeOK, Told
    <3>4. FileInv' /\ MemoryInv' /\ CopyInv'
      BY <1>1, <1>2, <2>1, <2>2, <2>4, <3>1, <3>2 DEF DeviceInv, FileInv, MemoryInv, CopyInv
    <3>5. OwedInv'
      BY <1>3, <2>1, <2>2, <3>1, <3>2, <3>3 DEF DeviceInv, OwedInv
    <3>. QED  BY <3>4, <3>5
  <2>. QED  BY <2>5, <2>6 DEF DeviceInv
<1>4. CASE ~(ram.force /\ ~safeMode)
  <2>1. /\ UNCHANGED <<card, doc, sd, ram, save, told>> /\ phase = "check" /\ phase' = "begin"
        /\ \A t \in Tasks : ~Saving(t)' /\ ~Doing(t, "open")' /\ ~Doing(t, "write")' /\ ~InHand(t)'
    BY <1>0, <1>1, <1>4 DEF CheckForce, Saving, Doing, InHand
  <2>2. ~Writing' /\ ~WebOwes("settings")' /\ ~WebOwes("sensors")'
    BY <2>1, Todos DEF Writing, WebOwes
  <2>. QED
    BY <1>0, <1>1, <1>2, <2>1, <2>2, Todos
    DEF DeviceInv, SavesInv, FileInv, MemoryInv, CopyInv, OwedInv
<1>. QED  BY <1>3, <1>4

(* tSaveConfig.                                                            *)
LEMMA PeriodicSaveKeeps ==
    ASSUME BootTypeOK, DeviceInv, PeriodicSave
    PROVE  DeviceInv'
<1>. DEFINE parts == IF safeMode THEN <<"settings">> ELSE <<"settings", "sensors">>
<1>0. /\ StoreTypeOK /\ "loop" \in Tasks /\ parts \in Seq(Parts) \ {<<>>}
      /\ StartSave("loop", parts, "no", 0) /\ phase = "run" /\ phase' = phase /\ safeMode' = safeMode
      /\ UNCHANGED <<card, doc, sd, ram>> /\ ~Saving("loop")
  BY Todos, PartsAre DEF BootTypeOK, PeriodicSave, LoopIdle, bootVars
<1>. HIDE DEF parts
<1>1. save'["loop"].todo = parts /\ save'["web"] = save["web"]
  <2>1. save'["loop"].todo = parts /\ \A u \in Tasks : u # "loop" => save'[u] = save[u]
    BY <1>0, StartIs, RebootsAre
  <2>. QED  BY <2>1, Todos
<1>2. /\ Saving("web")' <=> Saving("web")
      /\ WebOwes("settings")' <=> WebOwes("settings")
      /\ WebOwes("sensors")' <=> WebOwes("sensors")
  BY <1>1 DEF Saving, WebOwes
<1>3. SavesInv'
  BY <1>0, <1>1, <1>2, Todos DEF DeviceInv, SavesInv, parts
<1>4. ASSUME told' # Unsure PROVE (FileInv /\ MemoryInv /\ CopyInv /\ OwedInv)'
  <2>1. /\ told # Unsure /\ told'.settings = told.settings /\ told'.kind = told.kind
        /\ told'.owed = told.owed + 0
    BY <1>0, <1>4, StartTells, RebootsAre
  <2>2. /\ \A u \in Tasks : ~Doing(u, "open")' /\ ~Doing(u, "write")' /\ ~InHand(u)'
        /\ ~Saving("web")' /\ ~Writing' /\ ~Writing
    BY <1>0, <1>4, StartAlone, RebootsAre, Todos DEF Doing
  <2>3. told.owed \in Int
    BY <2>1 DEF BootTypeOK, StoreTypeOK, Told
  <2>4. FileInv' /\ MemoryInv' /\ CopyInv'
    BY <1>0, <1>2, <2>1, <2>2 DEF DeviceInv, FileInv, MemoryInv, CopyInv
  <2>5. OwedInv'
    BY <1>0, <2>1, <2>2, <2>3 DEF DeviceInv, OwedInv
  <2>. QED  BY <2>4, <2>5
<1>. QED  BY <1>3, <1>4 DEF DeviceInv

(* A request changes in memory what it is going to save, and owes a boot   *)
(* for the flag.                                                           *)
SavesChanges(parts, more) ==
    /\ parts \in {<<"settings">>, <<"sensors">>, <<"sensors", "settings">>}
    /\ parts = <<"sensors">> => ram'.settings = ram.settings
    /\ parts = <<"settings">> => safeMode \/ ram'.sensors.kind = ram.sensors.kind
    /\ ram'.force => ram.force \/ more >= 1

(* Such a request, once setup() has ended ...                              *)
LEMMA LateRequestKeeps ==
    ASSUME BootTypeOK, DeviceInv, NEW reboot \in Reboots, NEW more \in Int, more >= 0,
           NEW parts \in Seq(Parts) \ {<<>>}, StartSave("web", parts, reboot, more),
           SavesChanges(parts, more), WebIdle, phase = "run",
           UNCHANGED <<card, doc, sd, phase, safeMode>>
    PROVE  DeviceInv'
<1>0. /\ StoreTypeOK /\ "web" \in Tasks
      /\ phase = "run" /\ phase' = phase /\ safeMode' = safeMode /\ ~Saving("web")
  BY Todos DEF BootTypeOK, WebIdle
<1>1. save'["web"].todo = parts /\ save'["loop"] = save["loop"] /\ Saving("web")'
  <2>1. /\ save'["web"].todo = parts /\ Saving("web")'
        /\ \A u \in Tasks : u # "web" => save'[u] = save[u]
    BY <1>0, StartIs
  <2>. QED  BY <2>1, Todos
<1>2. Saving("loop")' <=> Saving("loop")
  BY <1>1 DEF Saving
<1>3. SavesInv'
  BY <1>0, <1>1, <1>2 DEF DeviceInv, SavesInv, SavesChanges
<1>4. ASSUME told' # Unsure PROVE (FileInv /\ MemoryInv /\ CopyInv /\ OwedInv)'
  <2>1. /\ told # Unsure /\ told'.settings = told.settings /\ told'.kind = told.kind
        /\ told'.owed = told.owed + more
    BY <1>0, <1>4, StartTells
  <2>2. /\ \A u \in Tasks : ~Doing(u, "open")' /\ ~Doing(u, "write")' /\ ~InHand(u)'
        /\ ~Saving("loop")' /\ ~Writing' /\ ~Writing
    <3>1. \A u \in Tasks : ~Doing(u, "open")' /\ ~Doing(u, "write")' /\ ~InHand(u)'
      BY <1>0, <1>4, StartAlone
    <3>2. ~Writing' /\ (Writing => Doing("web", "write"))
      BY <1>0, <1>4, StartAlone
    <3>3. ~Writing
      BY <1>0, <3>2 DEF Doing
    <3>4. \A u \in Tasks : Saving(u)' => u = "web"
      BY <1>0, <1>4, StartAlone
    <3>5. ~Saving("loop")'
      BY <3>4, Todos
    <3>. QED  BY <3>1, <3>2, <3>3, <3>5
  <2>3. told.owed \in Int
    BY <2>1 DEF BootTypeOK, StoreTypeOK, Told
  <2>4. ~WebOwes("settings") /\ ~WebOwes("sensors")
    BY <1>0 DEF WebOwes
  <2>5. /\ ~WebOwes("settings")' => parts = <<"sensors">>
        /\ ~WebOwes("sensors")' => parts = <<"settings">>
    BY <1>1, Todos DEF WebOwes
  <2>6. FileInv' /\ CopyInv'
    BY <1>0, <2>1, <2>2 DEF DeviceInv, FileInv, CopyInv
  <2>7. MemoryInv'
    BY <1>0, <2>1, <2>4, <2>5 DEF DeviceInv, MemoryInv, SavesChanges
  <2>8. OwedInv'
    <3>1. told'.owed >= told.owed /\ (more >= 1 => told'.owed >= told.owed + 1)
      BY <2>1, <2>3
    <3>2. ram'.force => ram.force \/ more >= 1
      BY DEF SavesChanges
    <3>. QED  BY <1>0, <2>1, <2>2, <2>3, <3>1, <3>2 DEF DeviceInv, OwedInv
  <2>. QED  BY <2>6, <2>7, <2>8
<1>. QED  BY <1>3, <1>4 DEF DeviceInv

(* ... and one that comes while the ECU begins.                            *)
LEMMA EarlyRequestKeeps ==
    ASSUME BootTypeOK, DeviceInv, NEW reboot \in Reboots, NEW more \in Int,
           NEW parts \in Seq(Parts) \ {<<>>}, WebSave(parts, reboot, more),
           SavesChanges(parts, more), WebIdle, phase # "run",
           UNCHANGED <<card, doc, sd, phase, safeMode>>
    PROVE  DeviceInv'
<1>1. /\ StoreTypeOK /\ "web" \in Tasks /\ phase = "begin" /\ ~Saving("loop")
      /\ save' = [save EXCEPT !["web"] = ToSave(parts, reboot)] /\ told' = Unsure
  BY Todos DEF BootTypeOK, WebIdle, Serving, WebSave
<1>2. save'["web"].todo = parts /\ save'["loop"] = save["loop"]
  BY <1>1, Todos DEF StoreTypeOK, ToSave
<1>3. ~Saving("loop")'
  BY <1>1, <1>2 DEF Saving
<1>4. SavesInv'
  BY <1>1, <1>2, <1>3 DEF SavesInv, SavesChanges
<1>. QED  BY <1>1, <1>4 DEF DeviceInv

(* Such a request, early or not.                                           *)
LEMMA RequestKeeps ==
    ASSUME BootTypeOK, DeviceInv, NEW reboot \in Reboots, NEW more \in Int, more >= 0,
           NEW parts \in Seq(Parts) \ {<<>>}, WebSave(parts, reboot, more),
           SavesChanges(parts, more), WebIdle,
           UNCHANGED <<card, doc, sd, phase, safeMode>>
    PROVE  DeviceInv'
<1>1. CASE phase = "run"
  BY <1>1, LateRequestKeeps DEF WebSave
<1>2. CASE phase # "run"
  BY <1>2, EarlyRequestKeeps
<1>. QED  BY <1>1, <1>2

(* A task that saves while nothing has gone wrong does so alone.           *)
LEMMA Alone ==
    ASSUME DeviceInv, told # Unsure, NEW t \in Tasks, Saving(t)
    PROVE  \A u \in Tasks : u # t => ~Saving(u) /\ ~Doing(u, "open") /\ ~Doing(u, "write") /\ ~InHand(u)
<1>1. \A u \in Tasks : u # t => ~Saving(u)
  BY Todos DEF DeviceInv, FileInv
<1>. QED  BY <1>1 DEF Doing, InHand

(* The document is read, and a part of it filled in from memory.           *)
LEMMA ReadBackKeeps ==
    ASSUME BootTypeOK, DeviceInv, NEW t \in Tasks, ReadBack(t), UNCHANGED <<phase, safeMode>>
    PROVE  DeviceInv'
<1>. DEFINE copy == save'[t].copy
<1>0. /\ StoreTypeOK /\ Saving(t) /\ save[t].step = "read" /\ sd /\ card = "good"
      /\ UNCHANGED <<card, doc, sd, ram, told>>
      /\ save' = [save EXCEPT ![t].step = "open", ![t].copy = Filled(doc, Head(save[t].todo))]
  BY DEF ReadBack, Doing, BootTypeOK
<1>1. /\ save'[t].todo = save[t].todo /\ save'[t].step = "open"
      /\ copy = Filled(doc, Head(save[t].todo))
      /\ \A u \in Tasks : u # t => save'[u] = save[u]
  <2>1. save[t] \in Save /\ save \in [Tasks -> Save \cup {NoSave}]
    BY <1>0, SavesAre DEF StoreTypeOK
  <2>2. save'[t] = [save[t] EXCEPT !.step = "open", !.copy = Filled(doc, Head(save[t].todo))]
    BY <1>0, <2>1
  <2>. QED  BY <1>0, <2>1, <2>2 DEF Save
<1>2. IF Head(save[t].todo) = "settings"
      THEN copy.settings = ram.settings /\ copy.force = ram.force /\ copy.sensors = doc.sensors
      ELSE copy.settings = doc.settings /\ copy.force = doc.force /\ copy.sensors = ram.sensors
  BY <1>0, <1>1 DEF Filled, StoreTypeOK, Document
<1>. HIDE DEF copy
<1>3. \A u \in Tasks : Saving(u)' <=> Saving(u)
  <2>1. Saving(t)'
    <3>1. save[t].todo # <<>> /\ NoSave.todo = <<>>
      BY <1>0, SavesAre DEF NoSave
    <3>. QED  BY <1>1, <3>1 DEF Saving
  <2>. QED  BY <1>0, <1>1, <2>1 DEF Saving
<1>4. /\ WebOwes("settings")' <=> WebOwes("settings")
      /\ WebOwes("sensors")' <=> WebOwes("sensors")
  <2>1. save'["web"].todo = save["web"].todo
    BY <1>1, Todos
  <2>. QED  BY <1>3, <2>1, Todos DEF WebOwes
<1>5. SavesInv'
  <2>1. save'["web"].todo = save["web"].todo /\ save'["loop"].todo = save["loop"].todo
    BY <1>1, Todos
  <2>. QED  BY <1>0, <1>3, <2>1, Todos DEF DeviceInv, SavesInv
<1>6. ASSUME told' # Unsure PROVE (FileInv /\ MemoryInv /\ CopyInv /\ OwedInv)'
  <2>1. told # Unsure /\ told' = told /\ \A u \in Tasks : u # t => ~Saving(u) /\ ~Doing(u, "write")
    BY <1>0, <1>6, Alone
  <2>2. /\ Doing(t, "open")' /\ ~Doing(t, "write")' /\ ~Doing(t, "write")
        /\ \A u \in Tasks : u # t => ~Doing(u, "open")' /\ ~Doing(u, "write")' /\ ~InHand(u)'
    BY <1>0, <1>1, <1>3, <2>1 DEF Doing, InHand
  <2>3. ~Writing /\ ~Writing'
    BY <2>1, <2>2 DEF Writing
  <2>4. FileInv'
    BY <1>0, <1>3, <2>1, <2>2, <2>3, Todos DEF DeviceInv, FileInv
  <2>5. MemoryInv'
    BY <1>0, <1>4, <2>1 DEF DeviceInv, MemoryInv
  <2>6. CopyInv'
    <3>1. doc.settings = told.settings /\ doc.sensors.kind = told.kind
      BY <1>0, <2>1 DEF DeviceInv, FileInv
    <3>. QED  BY <1>0, <1>1, <1>2, <2>1, <2>2, <3>1 DEF CopyInv, copy
  <2>7. OwedInv'
    <3>1. phase = "begin" /\ Saving("loop") => Head(save[t].todo) = "settings"
      BY <1>0, <2>1, Todos DEF DeviceInv, SavesInv
    <3>2. copy.force => told.owed >= 1
      BY <1>0, <1>2, <2>1, <3>1 DEF DeviceInv, OwedInv
    <3>. QED  BY <1>0, <1>3, <2>1, <2>2, <3>2, Todos DEF DeviceInv, OwedInv, copy
  <2>. QED  BY <2>4, <2>5, <2>6, <2>7
<1>. QED  BY <1>5, <1>6 DEF DeviceInv

(* The file is opened, and so emptied.                                     *)
LEMMA OpenFileKeeps ==
    ASSUME BootTypeOK, DeviceInv, NEW t \in Tasks, OpenFile(t), UNCHANGED <<phase, safeMode>>
    PROVE  DeviceInv'
<1>0. /\ StoreTypeOK /\ Saving(t) /\ Doing(t, "open") /\ card' = "empty"
      /\ UNCHANGED <<sd, ram, told>> /\ save' = [save EXCEPT ![t].step = "write"]
  BY DEF OpenFile, Doing, BootTypeOK
<1>1. /\ save'[t].todo = save[t].todo /\ save'[t].step = "write" /\ save'[t].copy = save[t].copy
      /\ \A u \in Tasks : u # t => save'[u] = save[u]
  <2>1. save[t] \in Save /\ save \in [Tasks -> Save \cup {NoSave}]
    BY <1>0, SavesAre DEF StoreTypeOK
  <2>2. save'[t] = [save[t] EXCEPT !.step = "write"]
    BY <1>0, <2>1
  <2>. QED  BY <1>0, <2>1, <2>2 DEF Save
<1>3. \A u \in Tasks : Saving(u)' <=> Saving(u)
  <2>1. Saving(t)'
    <3>1. save[t].todo # <<>> /\ NoSave.todo = <<>>
      BY <1>0, SavesAre DEF NoSave
    <3>. QED  BY <1>1, <3>1 DEF Saving
  <2>. QED  BY <1>0, <1>1, <2>1 DEF Saving
<1>4. /\ WebOwes("settings")' <=> WebOwes("settings")
      /\ WebOwes("sensors")' <=> WebOwes("sensors")
  <2>1. save'["web"].todo = save["web"].todo
    BY <1>1, Todos
  <2>. QED  BY <1>3, <2>1, Todos DEF WebOwes
<1>5. SavesInv'
  <2>1. save'["web"].todo = save["web"].todo /\ save'["loop"].todo = save["loop"].todo
    BY <1>1, Todos
  <2>. QED  BY <1>0, <1>3, <2>1, Todos DEF DeviceInv, SavesInv
<1>6. ASSUME told' # Unsure PROVE (FileInv /\ MemoryInv /\ CopyInv /\ OwedInv)'
  <2>1. told # Unsure /\ told' = told /\ \A u \in Tasks : u # t => ~Saving(u)
    BY <1>0, <1>6, Alone
  <2>2. /\ Doing(t, "write")' /\ ~Doing(t, "open")' /\ InHand(t)
        /\ \A u \in Tasks : u # t => ~Doing(u, "open")' /\ ~Doing(u, "write")' /\ ~InHand(u)'
    BY <1>0, <1>1, <1>3, <2>1 DEF Doing, InHand
  <2>3. Writing'
    BY <2>2 DEF Writing
  <2>4. FileInv'
    BY <1>0, <1>3, <2>1, <2>2, <2>3, Todos DEF DeviceInv, FileInv
  <2>5. MemoryInv'
    BY <1>0, <1>4, <2>1 DEF DeviceInv, MemoryInv
  <2>6. CopyInv'
    BY <1>0, <1>1, <2>1, <2>2 DEF DeviceInv, CopyInv
  <2>7. OwedInv'
    BY <1>0, <1>1, <2>1, <2>2 DEF DeviceInv, OwedInv
  <2>. QED  BY <2>4, <2>5, <2>6, <2>7
<1>. QED  BY <1>5, <1>6 DEF DeviceInv

(* A save that has ended leaves only what may follow it.                   *)
LEMMA EndKeeps ==
    ASSUME StoreTypeOK, SavesInv, NEW t \in Tasks, NEW saved \in BOOLEAN, Saving(t), EndSave(t, saved),
           UNCHANGED <<phase, safeMode, ram, sd>>, told = Unsure => told' = Unsure
    PROVE  /\ SavesInv'
           /\ \A u \in Tasks : Saving(u)' => Saving(u)
           /\ ~InHand(t)' /\ ~Doing(t, "open")' /\ ~Doing(t, "write")'
<1>1. save[t].todo \in {<<"settings">>, <<"sensors">>, <<"settings", "sensors">>, <<"sensors", "settings">>}
  BY Todos DEF SavesInv
<1>2. \A u \in Tasks : u # t => save'[u] = save[u]
  BY EndIs
<1>3. \/ ~Saving(t)'
      \/ /\ save'[t].step = "read"
         /\ \/ save[t].todo = <<"settings", "sensors">> /\ save'[t].todo = <<"sensors">>
            \/ save[t].todo = <<"sensors", "settings">> /\ save'[t].todo = <<"settings">>
  BY <1>1, EndIs
<1>4. \A u \in Tasks : Saving(u)' => Saving(u)
  BY <1>2 DEF Saving
<1>5. ~InHand(t)' /\ ~Doing(t, "open")' /\ ~Doing(t, "write")'
  BY <1>3 DEF InHand, Doing
<1>6. SavesInv'
  <2>1. phase \in {"begin", "run"}
    BY Todos DEF SavesInv
  <2>2. CASE t = "loop"
    <3>1. save'["web"] = save["web"] /\ (Saving("web")' <=> Saving("web"))
      BY <1>2, <2>2, Todos DEF Saving
    <3>2. Saving("loop")' => /\ save["loop"].todo = <<"settings", "sensors">>
                             /\ save'["loop"].todo = <<"sensors">>
      BY <1>3, <2>2, Todos DEF SavesInv
    <3>. QED  BY <1>4, <2>1, <2>2, <3>1, <3>2, Todos DEF SavesInv
  <2>3. CASE t = "web"
    <3>1. save'["loop"] = save["loop"] /\ (Saving("loop")' <=> Saving("loop"))
      BY <1>2, <2>3, Todos DEF Saving
    <3>2. Saving("web")' => save'["web"].todo = <<"settings">>
      BY <1>3, <2>3, Todos DEF SavesInv
    <3>. QED  BY <1>4, <2>1, <2>3, <3>1, <3>2, Todos DEF SavesInv
  <2>. QED  BY <2>2, <2>3, Todos
<1>. QED  BY <1>4, <1>5, <1>6

(* A save is given up: the file does not open, or does not parse, which    *)
(* by FileInv is only for want of a card.                                  *)
LEMMA FailureKeeps ==
    ASSUME BootTypeOK, DeviceInv, NEW t \in Tasks, ReadFails(t) \/ OpenFails(t), UNCHANGED <<phase, safeMode>>
    PROVE  DeviceInv'
<1>0. /\ StoreTypeOK /\ SavesInv /\ Saving(t) /\ EndSave(t, FALSE) /\ UNCHANGED <<card, doc, sd, ram>>
      /\ told = Unsure => told' = Unsure
  BY DEF ReadFails, OpenFails, Doing, BootTypeOK, DeviceInv
<1>1. /\ SavesInv'
      /\ \A u \in Tasks : Saving(u)' => Saving(u)
      /\ ~InHand(t)' /\ ~Doing(t, "open")' /\ ~Doing(t, "write")'
  BY <1>0, EndKeeps
<1>2. ASSUME told' # Unsure PROVE (FileInv /\ MemoryInv /\ CopyInv /\ OwedInv)'
  <2>1. Doing(t, "read") /\ ~(sd /\ card = "good") /\ told # Unsure /\ told' = told
    BY <1>2 DEF ReadFails, OpenFails
  <2>2. \A u \in Tasks : u # t => ~Saving(u) /\ ~Doing(u, "open") /\ ~Doing(u, "write")
    BY <1>0, <2>1, Alone
  <2>3. \A u \in Tasks : ~Doing(u, "open")' /\ ~Doing(u, "write")' /\ ~InHand(u)'
    BY <1>1, <2>2 DEF Doing, InHand
  <2>4. ~Writing /\ ~Writing'
    BY <2>1, <2>2, <2>3 DEF Writing, Doing
  <2>5. phase \in {"begin", "run"}
    BY <1>0, Todos DEF SavesInv
  <2>6. ~sd
    BY <2>1, <2>4, <2>5 DEF DeviceInv, FileInv
  <2>7. FileInv'
    BY <1>0, <1>1, <2>1, <2>3, <2>4, <2>6, Todos DEF DeviceInv, FileInv
  <2>8. OwedInv'
    <3>1. ~(phase = "begin" /\ Saving("loop"))
      BY <1>0, <2>6 DEF SavesInv
    <3>. QED  BY <1>0, <2>1, <2>3, <3>1 DEF DeviceInv, OwedInv
  <2>. QED  BY <1>0, <2>1, <2>3, <2>6, <2>7, <2>8 DEF DeviceInv, MemoryInv, CopyInv
<1>. QED  BY <1>1, <1>2 DEF DeviceInv

(* The document is written.                                                *)
LEMMA WriteFileKeeps ==
    ASSUME BootTypeOK, DeviceInv, NEW t \in Tasks, WriteFile(t), UNCHANGED <<phase, safeMode>>
    PROVE  DeviceInv'
<1>. DEFINE copy == save[t].copy
            part == Head(save[t].todo)
<1>0. /\ StoreTypeOK /\ SavesInv /\ Saving(t) /\ Doing(t, "write") /\ EndSave(t, TRUE) /\ UNCHANGED <<sd, ram>>
      /\ told = Unsure => told' = Unsure
  BY DEF WriteFile, Doing, BootTypeOK, DeviceInv
<1>1. /\ SavesInv'
      /\ \A u \in Tasks : Saving(u)' => Saving(u)
      /\ ~InHand(t)' /\ ~Doing(t, "open")' /\ ~Doing(t, "write")'
  BY <1>0, EndKeeps
<1>2. ASSUME told' # Unsure PROVE (FileInv /\ MemoryInv /\ CopyInv /\ OwedInv)'
  <2>1. told # Unsure /\ told \in Told
    BY <1>0, <1>2 DEF WriteFile, StoreTypeOK
  <2>2. \A u \in Tasks : u # t => ~Saving(u) /\ ~Doing(u, "open") /\ ~Doing(u, "write")
    BY <1>0, <2>1, Alone
  <2>3. \A u \in Tasks : ~Doing(u, "open")' /\ ~Doing(u, "write")' /\ ~InHand(u)'
    BY <1>1, <2>2 DEF Doing, InHand
  <2>4. sd /\ card = "empty" /\ InHand(t) /\ ~Contended(t)
    BY <1>0, <2>1, <2>2 DEF DeviceInv, FileInv, InHand, Contended
  <2>5. card' = "good" /\ doc' = copy
    BY <2>4 DEF WriteFile
  <2>6. /\ t = "loop" => told' = told
        /\ t # "loop" /\ part = "settings" => told' = [told EXCEPT !.settings = copy.settings]
        /\ t # "loop" /\ part # "settings" => told' = [told EXCEPT !.kind = copy.sensors.kind]
    BY <2>1 DEF WriteFile
  <2>7. IF part = "settings" THEN copy.settings = ram.settings /\ copy.sensors.kind = told.kind
                             ELSE copy.settings = told.settings /\ copy.sensors.kind = ram.sensors.kind
    BY <2>1, <2>4 DEF DeviceInv, CopyInv
  <2>8. told'.owed = told.owed
    BY <2>1, <2>6 DEF Told
  <2>9. copy.force => told.owed >= 1
    BY <2>1, <2>4 DEF DeviceInv, OwedInv
  <2>. HIDE DEF copy, part
  <2>10. copy.settings = told'.settings /\ copy.sensors.kind = told'.kind
    <3>1. CASE t = "loop"
      <4>1. ~WebOwes("settings") /\ ~WebOwes("sensors")
        BY <2>2, <3>1, Todos DEF WebOwes
      <4>2. part # "settings" => phase = "run" /\ ~safeMode
        BY <1>0, <3>1, Todos DEF SavesInv, part
      <4>3. phase \in {"begin", "run"}
        BY <1>0, <3>1 DEF SavesInv
      <4>4. ram.settings = told.settings /\ (part # "settings" => ram.sensors.kind = told.kind)
        BY <2>1, <2>4, <4>1, <4>2, <4>3 DEF DeviceInv, MemoryInv
      <4>. QED  BY <2>6, <2>7, <3>1, <4>4
    <3>2. CASE t # "loop" /\ part = "settings"
      <4>1. told'.settings = copy.settings /\ told'.kind = told.kind
        BY <2>1, <2>6, <3>2 DEF Told
      <4>. QED  BY <2>7, <3>2, <4>1
    <3>3. CASE t # "loop" /\ part # "settings"
      <4>1. told'.kind = copy.sensors.kind /\ told'.settings = told.settings
        BY <2>1, <2>6, <3>3 DEF Told
      <4>. QED  BY <2>7, <3>3, <4>1
    <3>. QED  BY <3>1, <3>2, <3>3
  <2>11. ~Writing'
    BY <2>3 DEF Writing
  <2>12. FileInv'
    BY <1>1, <2>2, <2>3, <2>4, <2>5, <2>10, Todos DEF FileInv
  <2>13. MemoryInv'
    <3>1. CASE t = "loop"
      <4>1. /\ ~WebOwes("settings") /\ ~WebOwes("sensors")
        BY <2>2, <3>1, Todos DEF WebOwes
      <4>. QED  BY <1>0, <2>1, <2>6, <3>1, <4>1 DEF DeviceInv, MemoryInv
    <3>2. CASE t = "web"
      <4>1. phase = "run" /\ save["web"].todo \in {<<"settings">>, <<"sensors">>, <<"sensors", "settings">>}
        BY <1>0, <2>1, <3>2 DEF SavesInv
      <4>2. CASE save["web"].todo = <<"settings">>
        <5>1. part = "settings" /\ ~WebOwes("sensors")
          BY <3>2, <4>2, Todos DEF part, WebOwes
        <5>2. told'.kind = told.kind
          BY <2>1, <2>6, <3>2, <5>1 DEF Told
        <5>. QED  BY <1>0, <2>1, <2>4, <2>7, <2>10, <4>1, <5>1, <5>2 DEF DeviceInv, MemoryInv
      <4>3. CASE save["web"].todo = <<"sensors">>
        <5>1. part # "settings" /\ ~WebOwes("settings")
          BY <3>2, <4>3, Todos DEF part, WebOwes
        <5>2. told'.settings = told.settings
          BY <2>1, <2>6, <3>2, <5>1 DEF Told
        <5>. QED  BY <1>0, <2>1, <2>4, <2>7, <2>10, <4>1, <5>1, <5>2 DEF DeviceInv, MemoryInv
      <4>4. CASE save["web"].todo = <<"sensors", "settings">>
        <5>1. part # "settings"
          BY <3>2, <4>4, Todos DEF part
        <5>2. save'["web"].todo = <<"settings">> /\ save'["web"].step = "read"
          BY <1>0, <3>2, <4>4, EndIs
        <5>3. Saving("web")'
          BY <5>2, Todos DEF Saving, NoSave
        <5>4. WebOwes("settings")'
          BY <5>2, <5>3, Todos DEF WebOwes
        <5>. QED  BY <1>0, <2>1, <2>7, <2>10, <4>1, <5>1, <5>4 DEF DeviceInv, MemoryInv
      <4>. QED  BY <4>1, <4>2, <4>3, <4>4
    <3>. QED  BY <3>1, <3>2, Todos
  <2>14. OwedInv'
    BY <1>0, <2>1, <2>3, <2>5, <2>8, <2>9 DEF DeviceInv, OwedInv
  <2>. QED  BY <2>3, <2>12, <2>13, <2>14 DEF CopyInv
<1>. QED  BY <1>1, <1>2 DEF DeviceInv

(* Every step keeps it.                                                    *)
LEMMA DeviceStep == BootTypeOK /\ DeviceInv /\ [DeviceNext]_deviceVars => DeviceInv'
<1>. SUFFICES ASSUME BootTypeOK, DeviceInv, [DeviceNext]_deviceVars PROVE DeviceInv'
  OBVIOUS
<1>1. CASE CountBoot \/ SdFails \/ LoadConfig \/ CreateConfig \/ WriteDefaults \/ BeginEcu \/ BeginSafe \/ BootStable
  <2>1. save' = save
    BY <1>1 DEF CountBoot, SdFails, LoadConfig, CreateConfig, WriteDefaults, BeginEcu, BeginSafe, BootStable, storeVars
  <2>. QED  BY <1>1, <2>1, SetupKeeps
<1>2. CASE CheckForce
  BY <1>2, CheckForceKeeps
<1>3. CASE CrashInBegin \/ Reboot \/ \E r \in Reasons : Restart(r)
  BY <1>3, RestartKeeps DEF CrashInBegin, Reboot, Restart
<1>4. CASE PeriodicSave
  BY <1>4, PeriodicSaveKeeps
<1>5. CASE Request
  <2>1. /\ ram \in Document /\ ram.settings \in Settings /\ ram.sensors.kind \in Kinds
    BY Documents DEF BootTypeOK, StoreTypeOK
  <2>2. ASSUME NEW settings \in Settings, NEW force \in BOOLEAN, NEW reboot \in BOOLEAN,
               PostSettings(settings, force, reboot)
        PROVE  DeviceInv'
    <3>1. Limited(settings).kind = ram.sensors.kind
      BY <2>1, Documents DEF Limited, Document, Sensors, NoSensors
    <3>2. ram'.force = force /\ ram'.sensors.kind = ram.sensors.kind
      BY <2>2, <3>1 DEF PostSettings
    <3>3. /\ WebSave(<<"settings">>, RebootIf(reboot), Owing(force)) /\ WebIdle
          /\ UNCHANGED <<card, doc, sd, phase, safeMode>>
      BY <2>2 DEF PostSettings, bootVars
    <3>4. SavesChanges(<<"settings">>, Owing(force))
      BY <3>2, Todos, RebootsAre DEF SavesChanges
    <3>. QED  BY <3>3, <3>4, RequestKeeps, RebootsAre, PartsAre
  <2>3. ASSUME NEW settings \in Settings, NEW force \in BOOLEAN, NEW reboot \in BOOLEAN,
               NEW sensors \in Sensors, PostAll(settings, force, reboot, sensors)
        PROVE  DeviceInv'
    <3>1. ram'.force = force
      BY <2>3 DEF PostAll
    <3>2. /\ WebSave(<<"sensors", "settings">>, RebootIf(reboot), Owing(force)) /\ WebIdle
          /\ UNCHANGED <<card, doc, sd, phase, safeMode>>
      BY <2>3 DEF PostAll, bootVars
    <3>3. SavesChanges(<<"sensors", "settings">>, Owing(force))
      BY <3>1, Todos, RebootsAre DEF SavesChanges
    <3>. QED  BY <3>2, <3>3, RequestKeeps, RebootsAre, PartsAre
  <2>4. ASSUME NEW sensors \in Sensors, PostSensors(sensors) PROVE DeviceInv'
    <3>1. ram'.settings = ram.settings /\ ram'.force = ram.force
      BY <2>1, <2>4 DEF PostSensors, Document
    <3>2. /\ WebSave(<<"sensors">>, "no", 0) /\ WebIdle
          /\ UNCHANGED <<card, doc, sd, phase, safeMode>>
      BY <2>4 DEF PostSensors, bootVars
    <3>3. SavesChanges(<<"sensors">>, 0)
      BY <3>1, Todos DEF SavesChanges
    <3>4. "no" \in Reboots /\ 0 \in Int /\ 0 >= 0 /\ <<"sensors">> \in Seq(Parts) \ {<<>>}
      BY RebootsAre, PartsAre
    <3>. QED  BY <3>2, <3>3, <3>4, RequestKeeps
  <2>5. CASE ClearSafeMode
    <3>1. ram'.settings = ram.settings /\ ~ram'.force /\ ram'.sensors = ram.sensors
      BY <2>1, <2>5 DEF ClearSafeMode, Document
    <3>2. /\ WebSave(<<"settings">>, "always", 0) /\ WebIdle
          /\ UNCHANGED <<card, doc, sd, phase, safeMode>>
      BY <2>5 DEF ClearSafeMode, bootVars
    <3>3. SavesChanges(<<"settings">>, 0)
      BY <3>1, Todos DEF SavesChanges
    <3>4. "always" \in Reboots /\ 0 \in Int /\ 0 >= 0 /\ <<"settings">> \in Seq(Parts) \ {<<>>}
      BY RebootsAre, PartsAre
    <3>. QED  BY <3>2, <3>3, <3>4, RequestKeeps
  <2>6. CASE PostReboot
    BY <2>6
    DEF PostReboot, bootVars, DeviceInv, SavesInv, FileInv, MemoryInv, CopyInv, OwedInv, Saving, Doing, InHand, Writing, WebOwes
  <2>. QED  BY <1>5, <2>2, <2>3, <2>4, <2>5, <2>6 DEF Request
<1>6. CASE \E t \in Tasks : StoreStep(t) \/ (OpenFails(t) /\ Event /\ UNCHANGED bootVars)
  <2>1. PICK t \in Tasks : (SaveStep(t) \/ OpenFails(t)) /\ UNCHANGED bootVars
    BY <1>6 DEF StoreStep
  <2>2. UNCHANGED <<phase, safeMode>>
    BY <2>1 DEF bootVars
  <2>. QED  BY <2>1, <2>2, ReadBackKeeps, FailureKeeps, OpenFileKeeps, WriteFileKeeps DEF SaveStep
<1>7. CASE UNCHANGED deviceVars
  BY <1>7
  DEF deviceVars, storeVars, bootVars, DeviceInv, SavesInv, FileInv, MemoryInv, CopyInv, OwedInv, Saving, Doing, InHand, Writing, WebOwes
<1>. QED
  BY <1>1, <1>2, <1>3, <1>4, <1>5, <1>6, <1>7 DEF DeviceNext, SetupStep

(* A new device has it.                                                    *)
LEMMA DeviceStart == DeviceInit => DeviceInv
<1>. SUFFICES ASSUME DeviceInit PROVE DeviceInv
  OBVIOUS
<1>1. \A t \in Tasks : ~Saving(t)
  BY DEF DeviceInit, Saving
<1>2. (\A t \in Tasks : ~Doing(t, "open") /\ ~Doing(t, "write") /\ ~InHand(t))
  BY <1>1 DEF Doing, InHand
<1>3. told.settings = DefaultSettings /\ told.kind = DefaultKind /\ told.owed = 0
  BY DEF DeviceInit
<1>. QED
  BY <1>1, <1>2, <1>3, DefaultsAre, Todos
  DEF DeviceInit, DeviceInv, SavesInv, FileInv, MemoryInv, CopyInv, OwedInv, Writing

(* It holds always.                                                        *)
LEMMA DeviceHolds == DeviceSpec => []DeviceInv
BY DeviceStart, DeviceStep, DeviceTypeCorrect, PTL DEF DeviceSpec

(* What a user was told is saved is what the file holds, whatever saves,   *)
(* boots, crashes in ECU::begin and restarts follow, for as long as no     *)
(* save overlaps another, is cut off or fails to open the file             *)
(* (Config.cpp:484, 854).                                                  *)
THEOREM SettingsAreKept == DeviceSpec => []SavedSettingsSurvive
<1>1. DeviceInv => SavedSettingsSurvive
  BY DEF DeviceInv, FileInv, SavedSettingsSurvive
<1>. QED  BY <1>1, DeviceHolds, PTL

(* A request for safe mode makes for one boot into it at most, under the   *)
(* same conditions (main.cpp:397).                                         *)
THEOREM SafeModeIsOneShot == DeviceSpec => []ForcedSafeModeIsOneShot
<1>1. DeviceInv => ForcedSafeModeIsOneShot
  BY DEF DeviceInv, OwedInv, ForcedSafeModeIsOneShot
<1>. QED  BY <1>1, DeviceHolds, PTL
===============================================================================
