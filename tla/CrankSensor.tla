------------------------------ MODULE CrankSensor -----------------------------
(***************************************************************************)
(* The crank decoder: CrankSensor::processTooth, an interrupt handler that *)
(* runs on every falling edge of a trigger wheel with missing teeth, and   *)
(* finds the crank angle from nothing but the time between edges.          *)
(*                                                                         *)
(* The wheel turns at a steady speed, so the time between two edges is a   *)
(* number of half slots; a slot is the distance of two teeth.  The sensor  *)
(* may miss a tooth or see an edge, half way between two slots, where      *)
(* there is none.  Edges less than 50us apart are ignored by the handler   *)
(* and by this module.  A run of the handler is over before the next slot. *)
(*                                                                         *)
(* The tooth log is shared with the web server's task on the other core    *)
(* and nothing locks it: every access of either side to a field of the log *)
(* is a step of its own.                                                   *)
(***************************************************************************)
EXTENDS Integers, Sequences

CONSTANTS
    TotalTeeth,     \* _totalTeeth, the missing ones included
    MissingTeeth,   \* _missingTeeth
    History,        \* TOOTH_HISTORY_SIZE
    HalfSlot,       \* half a slot, in microseconds
    Speed,          \* the rpm the regular tooth period stands for
    CountCap,       \* bound of toothCount (a uint8_t in the code)
    QuietCap,       \* bound of quiet
    CleanCap,       \* bound of the history variable clean
    MaxErrors,      \* bound of the sensor errors with less than CleanCap slots between them
    LogSize         \* TOOTH_LOG_SIZE

ASSUME CrankAssumption ==
    /\ TotalTeeth \in Nat /\ MissingTeeth \in 1 .. TotalTeeth - 2
    /\ {History, HalfSlot, Speed} \subseteq Nat \ {0}
    /\ {CountCap, QuietCap, CleanCap, MaxErrors, LogSize} \subseteq Nat

RealTeeth == TotalTeeth - MissingTeeth     \* expectedTeeth in the code

VARIABLES
    wheel,          \* the slot under the sensor; slots RealTeeth.. have no tooth
    quiet,          \* half slots since the last edge, -1 half way after one
    sawTooth,       \* _lastToothTimeUs # 0
    toothPeriods,   \* _toothPeriods, the oldest first, in half slots
    syncState, toothCount, toothPosition, crankRpm,
    logIdx, logCapturing, logComplete,
    logAt,          \* where the handler is in its part that logs
    logNext,        \* the index it has counted to and not stored yet, or 0
    postAt,         \* where startToothLog is
    clean,          \* history: slots since the sensor last erred
    errors          \* history: sensor errors since clean was last at its bound

wheelVars == <<wheel, quiet, clean, errors>>
decoderVars == <<sawTooth, toothPeriods, syncState, toothCount, toothPosition, crankRpm>>
logVars == <<logIdx, logCapturing, logComplete, logAt, logNext, postAt>>
crankVars == <<wheelVars, decoderVars, logVars>>

CrankTypeOK ==
    /\ wheel \in 0 .. TotalTeeth - 1
    /\ quiet \in -1 .. QuietCap
    /\ sawTooth \in BOOLEAN
    /\ toothPeriods \in Seq(1 .. QuietCap + 2) /\ Len(toothPeriods) <= History
    /\ syncState \in {"LOST", "SYNCING", "SYNCED"}
    /\ toothCount \in 0 .. CountCap /\ toothPosition \in 0 .. CountCap
    /\ crankRpm \in 0 .. 2 * Speed
    /\ logIdx \in Nat /\ logCapturing \in BOOLEAN /\ logComplete \in BOOLEAN
    /\ logAt \in {"idle", "load", "store", "check", "stop", "finish"}
    /\ logNext \in Nat /\ postAt \in {"idle", "incomplete", "capturing"}
    /\ clean \in 0 .. CleanCap /\ errors \in 0 .. MaxErrors

(* CrankSensor::begin, with the wheel anywhere. *)
CrankInit ==
    /\ wheel \in 0 .. TotalTeeth - 1
    /\ quiet = 0
    /\ sawTooth = FALSE
    /\ toothPeriods = << >>
    /\ syncState = "LOST" /\ toothCount = 0 /\ toothPosition = 0 /\ crankRpm = 0
    /\ logIdx = 0 /\ logCapturing = FALSE /\ logComplete = FALSE
    /\ logAt = "idle" /\ logNext = 0 /\ postAt = "idle"
    /\ clean = 0 /\ errors = 0

-------------------------------------------------------------------------------
(* _toothPeriods with one more period, the oldest one overwritten. *)
Recorded(period) ==
    LET all == Append(toothPeriods, period)
    IN  IF Len(all) > History THEN Tail(all) ELSE all

Total(periods) ==
    LET sum[n \in 0 .. Len(periods)] == IF n = 0 THEN 0 ELSE sum[n - 1] + periods[n]
    IN  sum[Len(periods)]

AveragePeriod(periods) == (HalfSlot * Total(periods)) \div Len(periods)

(* A gap is longer than 1.5 times the average, which the gap is part of. *)
IsGap(period) ==
    LET average == AveragePeriod(Recorded(period))
    IN  HalfSlot * period > average + average \div 2

(* Mutant: the first gap is not enough to start counting. *)
LostForever(gap) == syncState = "LOST" /\ UNCHANGED <<syncState, toothCount, toothPosition>>

(* The switch on _syncState, for a period that is or is not a gap. *)
Lost(gap) ==
    /\ syncState = "LOST"
    /\ IF gap THEN syncState' = "SYNCING" /\ toothCount' = 0 /\ toothPosition' = 0
              ELSE UNCHANGED <<syncState, toothCount, toothPosition>>

(* Mutant: the count goes on through the gap. *)
CountingOn(gap) ==
    /\ toothCount' = toothCount + 1
    /\ toothPosition' = toothCount'

Counting(gap) ==
    /\ toothCount' = IF gap THEN 0 ELSE toothCount + 1
    /\ toothPosition' = toothCount'

Syncing(gap) ==
    /\ syncState = "SYNCING"
    /\ syncState' = IF gap /\ toothCount + 1 = RealTeeth THEN "SYNCED" ELSE "SYNCING"
    /\ Counting(gap)

Synced(gap) ==
    /\ syncState = "SYNCED"
    /\ syncState' = IF gap /\ toothCount + 1 # RealTeeth THEN "LOST" ELSE "SYNCED"
    /\ Counting(gap)

(* The value _toothPosition goes through in a run of the handler, which    *)
(* other cores may see: a gap is counted as a tooth before it resets the   *)
(* count.                                                                  *)
PositionOnTheWay == IF sawTooth /\ syncState # "LOST" THEN toothCount + 1 ELSE toothPosition'

(* Mutant: whether there is room is not asked. *)
LogWithoutRoom ==
    /\ logAt' = IF logCapturing THEN "load" ELSE "idle"
    /\ UNCHANGED <<logIdx, logCapturing, logComplete, logNext, postAt>>

(* While the tooth log is being captured and has room, the handler makes   *)
(* an entry.  The steps that count it are below.                           *)
LogTooth ==
    /\ logAt' = IF logCapturing /\ logIdx < LogSize THEN "load" ELSE "idle"
    /\ UNCHANGED <<logIdx, logCapturing, logComplete, logNext, postAt>>

(* The speed the period stands for.  A gap reads as a slower engine, and a *)
(* crank that has lost sync keeps the last speed it was given, which is 0  *)
(* when sync was lost just now.                                            *)
SpeedOf(period, before) ==
    IF syncState' # "LOST" THEN (2 * Speed) \div period
    ELSE IF syncState = "SYNCED" THEN 0 ELSE before

(* CrankSensor::processTooth *)
ProcessTooth(period) ==
    IF ~sawTooth
    THEN /\ sawTooth' = TRUE
         /\ UNCHANGED <<toothPeriods, syncState, toothCount, toothPosition, crankRpm, logVars>>
    ELSE /\ \/ Lost(IsGap(period))
            \/ Syncing(IsGap(period))
            \/ Synced(IsGap(period))
         /\ crankRpm' = SpeedOf(period, crankRpm)
         /\ toothPeriods' = Recorded(period)
         /\ LogTooth
         /\ UNCHANGED sawTooth

-------------------------------------------------------------------------------
(* The wheel and the sensor.                                               *)
NextSlot == (wheel + 1) % TotalTeeth

HasTooth(slot) == slot < RealTeeth

AnotherCleanSlot ==
    /\ clean' = IF clean < CleanCap THEN clean + 1 ELSE CleanCap
    /\ errors' = IF clean' = CleanCap THEN 0 ELSE errors

SensorErrs ==
    /\ errors < MaxErrors
    /\ errors' = errors + 1
    /\ clean' = 0

(* The next slot has a tooth and the sensor sees it. *)
Tooth ==
    /\ HasTooth(NextSlot)
    /\ toothCount < CountCap
    /\ wheel' = NextSlot
    /\ ProcessTooth(quiet + 2)
    /\ quiet' = 0
    /\ AnotherCleanSlot

(* The next slot is one of the missing teeth. *)
NoTooth ==
    /\ ~HasTooth(NextSlot)
    /\ quiet + 2 <= QuietCap
    /\ wheel' = NextSlot
    /\ quiet' = quiet + 2
    /\ AnotherCleanSlot
    /\ UNCHANGED <<decoderVars, logVars>>

(* The sensor misses a tooth. *)
Dropout ==
    /\ HasTooth(NextSlot)
    /\ quiet + 2 <= QuietCap
    /\ wheel' = NextSlot
    /\ quiet' = quiet + 2
    /\ SensorErrs
    /\ UNCHANGED <<decoderVars, logVars>>

(* The sensor sees an edge half way to the next slot. *)
Noise ==
    /\ quiet >= 0
    /\ toothCount < CountCap
    /\ ProcessTooth(quiet + 1)
    /\ quiet' = -1
    /\ SensorErrs
    /\ UNCHANGED wheel

Turn == Tooth \/ NoTooth \/ Dropout \/ Noise

-------------------------------------------------------------------------------
(* The rest of the handler: it writes the entry at the index, loads and    *)
(* stores the counter, reads it again and ends a full capture.             *)
HandlerLogs ==
    /\ \/ /\ logAt = "load"
          /\ logNext' = logIdx + 1 /\ logAt' = "store"
          /\ UNCHANGED <<logIdx, logCapturing, logComplete>>
       \/ /\ logAt = "store"
          /\ logIdx' = logNext /\ logNext' = 0 /\ logAt' = "check"
          /\ UNCHANGED <<logCapturing, logComplete>>
       \/ /\ logAt = "check"
          /\ logAt' = IF logIdx >= LogSize THEN "stop" ELSE "idle"
          /\ UNCHANGED <<logIdx, logCapturing, logComplete, logNext>>
       \/ /\ logAt = "stop"
          /\ logCapturing' = FALSE /\ logAt' = "finish"
          /\ UNCHANGED <<logIdx, logComplete, logNext>>
       \/ /\ logAt = "finish"
          /\ logComplete' = TRUE /\ logAt' = "idle"
          /\ UNCHANGED <<logIdx, logCapturing, logNext>>
    /\ UNCHANGED <<wheelVars, decoderVars, postAt>>

(* CrankSensor::startToothLog, from POST /teeth: three stores. *)
StartToothLog ==
    /\ \/ /\ postAt = "idle"
          /\ logIdx' = 0 /\ postAt' = "incomplete"
          /\ UNCHANGED <<logCapturing, logComplete>>
       \/ /\ postAt = "incomplete"
          /\ logComplete' = FALSE /\ postAt' = "capturing"
          /\ UNCHANGED <<logIdx, logCapturing>>
       \/ /\ postAt = "capturing"
          /\ logCapturing' = TRUE /\ postAt' = "idle"
          /\ UNCHANGED <<logIdx, logComplete>>
    /\ UNCHANGED <<wheelVars, decoderVars, logAt, logNext>>

CrankNext == (logAt = "idle" /\ Turn) \/ HandlerLogs \/ StartToothLog

CrankSpec == CrankInit /\ [][CrankNext]_crankVars

-------------------------------------------------------------------------------
(* The tooth under the sensor, or the last one before the gap. *)
TruePosition == IF wheel < RealTeeth THEN wheel ELSE RealTeeth - 1

(* A decoder that claims sync after two revolutions without sensor errors  *)
(* knows the crank angle.  One is not enough: noise in the gap hides it,   *)
(* and when the sensor misses the first tooth after the gap the count      *)
(* still comes out right, so the decoder is off until the gap after that.  *)
PositionIsTrue == syncState = "SYNCED" /\ clean > 2 * TotalTeeth => toothPosition = TruePosition

(* However the signal was disturbed, four revolutions of clean signal      *)
(* bring sync back: two to notice, when noise has masked a gap, one to     *)
(* find the next gap and one to count.                                     *)
SyncRecovers == clean > 4 * TotalTeeth => syncState = "SYNCED"

(* However the web server's task restarts the capture in the middle of a   *)
(* run of the handler, the handler writes no entry outside the log, and    *)
(* what GET /teeth hands out when no capture is on is a full log or an     *)
(* empty one.                                                              *)
LogIsWhole ==
    /\ logAt = "load" => logIdx < LogSize
    /\ ~logCapturing => logIdx \in {0, LogSize}
===============================================================================
