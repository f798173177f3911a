-------------------------------- MODULE RealTime ------------------------------
(***************************************************************************)
(* The engine's real-time side: the crank interrupt, the ECU cycle that    *)
(* copies the speed into the shared EngineState, and ECU::realtimeTask,    *)
(* which polls both and drives coils and injectors.  The three run         *)
(* concurrently and share volatile fields; nothing is locked.              *)
(*                                                                         *)
(* ECU::begin does not start the task yet (its xTaskCreatePinnedToCore is  *)
(* commented out, "disabled for Phase 1"); the module is of the task as it *)
(* is written.                                                             *)
(***************************************************************************)
EXTENDS CrankSensor, Ignition, Injection

CONSTANTS
    MaxPoll,        \* slots that may pass between two rounds of the task
    RevLimits,      \* what the ECU may set as rev limit
    Widths,         \* what the ECU may set as pulse width
    UnservedCap     \* bound of unserved

ASSUME RealTimeAssumption ==
    /\ RatedSpeed = Speed /\ FullTurn = 2 * TotalTeeth /\ InjTurn = FullTurn /\ InjCyls = Cyls
    /\ MaxPoll \in Nat \ {0}
    /\ RevLimits \subseteq Nat /\ Widths \subseteq Nat
    /\ UnservedCap \in Nat /\ UnservedCap >= ChargeCap /\ UnservedCap >= OpenCap

VARIABLES
    turning,                 \* the engine has not come to a stop
    stateRpm, sequential,    \* EngineState::rpm, ::sequentialMode
    revLimit, pulseWidth,    \* set in the managers by the ECU cycle
    midPos,                  \* what _toothPosition went through in the latest slot
    taskAt,                  \* where realtimeTask is
    seenRpm, seenPos, seenSeq,   \* what it has read
    sincePoll,               \* slots since it last came round
    unserved                 \* history: slots since coils and injectors were last updated

ecuSide == <<stateRpm, sequential, revLimit, pulseWidth>>
taskSide == <<taskAt, seenRpm, seenPos, seenSeq>>
rtVars == <<turning, crankVars, midPos, ignVars, injVars, ecuSide, taskSide, sincePoll, unserved>>

RtTypeOK ==
    /\ CrankTypeOK /\ IgnTypeOK /\ InjTypeOK /\ turning \in BOOLEAN
    /\ stateRpm \in 0 .. 2 * Speed /\ sequential \in BOOLEAN
    /\ revLimit \in RevLimits /\ pulseWidth \in Widths
    /\ midPos \in 0 .. CountCap + 1
    /\ taskAt \in {"idle", "sync", "position", "mode", "driving"}
    /\ seenRpm \in 0 .. 2 * Speed /\ seenPos \in 0 .. CountCap + 1 /\ seenSeq \in BOOLEAN
    /\ sincePoll \in 0 .. MaxPoll /\ unserved \in 0 .. UnservedCap

RtInit ==
    /\ CrankInit /\ IgnInit /\ InjInit /\ turning = TRUE /\ midPos = 0
    /\ stateRpm = 0 /\ sequential = FALSE
    /\ revLimit \in RevLimits /\ pulseWidth \in Widths
    /\ taskAt = "idle" /\ seenRpm = 0 /\ seenPos = 0 /\ seenSeq = FALSE
    /\ sincePoll = 0 /\ unserved = 0

-------------------------------------------------------------------------------
(* A slot's worth of time goes by: coils charge, injectors flow.           *)
SlotPasses ==
    /\ sincePoll < MaxPoll
    /\ sincePoll' = sincePoll + 1
    /\ unserved' = IF unserved < UnservedCap THEN unserved + 1 ELSE UnservedCap
    /\ ChargeOn /\ FlowOn
    /\ UNCHANGED <<charging, revLimiting, injOpen, scheduled, ecuSide, taskSide>>

(* The handler runs on every edge, and what it publishes on its way can be *)
(* read until the next slot.                                               *)
CrankTurns ==
    /\ turning /\ logAt = "idle"
    /\ \/ Tooth /\ midPos' = PositionOnTheWay
       \/ (NoTooth \/ Dropout) /\ midPos' = toothPosition
    /\ SlotPasses
    /\ UNCHANGED turning

NoiseEdge ==
    /\ turning /\ logAt = "idle" /\ Noise
    /\ midPos' = PositionOnTheWay
    /\ UNCHANGED <<turning, ignVars, injVars, ecuSide, taskSide, sincePoll, unserved>>

(* The engine stands still: time passes, the crank interrupt is silent. *)
CrankStands ==
    /\ turning' = FALSE
    /\ midPos' = toothPosition
    /\ SlotPasses
    /\ UNCHANGED crankVars

(* The part of ECU::update that the real-time side sees. *)
EcuCycle ==
    /\ stateRpm' = crankRpm
    /\ sequential' \in BOOLEAN
    /\ revLimit' \in RevLimits
    /\ pulseWidth' \in Widths
    /\ UNCHANGED <<turning, crankVars, midPos, ignVars, injVars, taskSide, sincePoll, unserved>>

(* realtimeTask reads the speed, the sync state, the tooth position and    *)
(* the mode, one after the other; it goes on only with a speed and a       *)
(* synced crank.                                                           *)
TaskReads ==
    /\ \/ /\ taskAt = "idle" /\ stateRpm > 0
          /\ taskAt' = "sync" /\ seenRpm' = stateRpm
          /\ UNCHANGED <<seenPos, seenSeq>>
       \/ /\ taskAt = "sync" /\ syncState = "SYNCED"
          /\ taskAt' = "position"
          /\ UNCHANGED <<seenRpm, seenPos, seenSeq>>
       \/ /\ taskAt = "position"
          /\ taskAt' = "mode" /\ seenPos' \in {toothPosition, midPos}
          /\ UNCHANGED <<seenRpm, seenSeq>>
       \/ /\ taskAt = "mode"
          /\ taskAt' = "driving" /\ seenSeq' = sequential
          /\ UNCHANGED <<seenRpm, seenPos>>
    /\ UNCHANGED <<turning, crankVars, midPos, ignVars, injVars, ecuSide, sincePoll, unserved>>

(* Otherwise it sleeps and comes round again. *)
TaskRests ==
    /\ \/ taskAt = "idle" /\ stateRpm = 0
       \/ taskAt = "sync" /\ syncState # "SYNCED"
    /\ taskAt' = "idle" /\ seenRpm' = 0 /\ sincePoll' = 0
    /\ UNCHANGED <<turning, crankVars, midPos, ignVars, injVars, ecuSide, seenPos, seenSeq, unserved>>

(* It drives coils and injectors with what it has read, however old. *)
TaskDrives ==
    /\ taskAt = "driving"
    /\ UpdateIgnition(seenRpm, seenPos, seenSeq, revLimit)
    /\ UpdateInjection(seenPos, seenSeq, Cylinders, pulseWidth)
    /\ taskAt' = "idle" /\ seenRpm' = 0 /\ seenPos' = 0 /\ seenSeq' = FALSE
    /\ sincePoll' = 0 /\ unserved' = 0
    /\ UNCHANGED <<turning, crankVars, midPos, ecuSide>>

RtNext ==
    \/ CrankTurns \/ NoiseEdge \/ CrankStands
    \/ EcuCycle
    \/ TaskReads \/ TaskRests \/ TaskDrives

RtSpec == RtInit /\ [][RtNext]_rtVars

-------------------------------------------------------------------------------
(* This step is a round of the task in which it does that with coil c. *)
Does(c, event) ==
    /\ taskAt = "driving" /\ taskAt' = "idle"
    /\ seenRpm <= revLimit
    /\ EventOf(c, seenRpm, 2 * seenPos, seenSeq) = event

(* While the task serves the coils, none charges for longer than the       *)
(* maximum dwell and the time since the task was last there, whatever the  *)
(* crank signal, the speed reading and the mode did in between.            *)
DwellBoundedWhileServed == \A c \in Cyls : charging[c] => chargedFor[c] <= MaxDwell + unserved

(* Above the rev limit no coil is left charging. *)
NoSparkAboveRevLimit == revLimiting => \A c \in Cyls : ~charging[c]

(* An injector is closed the first time the task comes by after its pulse. *)
PulseBoundedWhileServed == \A c \in Cyls : injOpen[c] => openFor[c] <= scheduled[c] + unserved

(* The slots the crank may turn while the decoder stays at the last tooth, *)
(* or has just counted the gap as one more.                                *)
Blind(pos) == IF pos >= RealTeeth - 1 THEN MissingTeeth ELSE 0

(* A spark comes at the spark angle.  The crank is no further past it than *)
(* the window, the slots that went by since the task looked and those with *)
(* no tooth to look at, once the decoder has had two revolutions to forget *)
(* a sensor error.                                                         *)
SparkAtSparkAngle ==
    [][\A c \in Cyls :
         Does(c, "spark") /\ ~seenSeq /\ clean > 2 * TotalTeeth + MaxPoll
           => Past(2 * wheel, SparkAngle(c, FALSE), FALSE)
                < 3 + 2 * (MaxPoll + Blind(seenPos))]_rtVars

(* "Start dwell (charge coil)", "Fire spark (release coil)"                *)
(* (IgnitionManager.cpp:98, 110): a coil is charged in one round and fired *)
(* in a later one, unless the crank turns so little in the dwell time, or  *)
(* so close to a whole turn, that the two windows overlap.  At a low speed *)
(* they do, and the coil is fired with nothing in it.                      *)
FlashOnlyOnOverlap ==
    [][\A c \in Cyls : Does(c, "flash") => DwellAngle(seenRpm) \notin 3 .. FullTurn - 3]_rtVars
===============================================================================
