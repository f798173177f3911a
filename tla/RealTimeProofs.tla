---------------------------- MODULE RealTimeProofs -----------------------------
(***************************************************************************)
(* Proofs about the crank decoder (CrankSensor) and about the interrupt,   *)
(* the ECU cycle and the real-time task together (RealTime).               *)
(*                                                                         *)
(* The decoder compares each period with the average of the last ones, so  *)
(* what it claims rests on a sum over a sequence.  Facts about that sum    *)
(* need induction over its length, which is done here with the smallest    *)
(* counterexample, a set: the library's induction theorems take operators. *)
(***************************************************************************)
EXTENDS RealTime, TLAPS, SequenceTheorems, WellFoundedInduction

-------------------------------------------------------------------------------
(* Numbers.                                                                *)

(* A set of natural numbers that is not empty has a least element.         *)
LEMMA LeastElement ==
    ASSUME NEW S, S \subseteq Nat, S # {}
    PROVE  \E x \in S : \A y \in S : x <= y
<1>1. IsWellFoundedOn(OpToRel(<, Nat), Nat)
  BY NatLessThanWellFounded
<1>2. PICK x \in S : \A y \in S : <<y, x>> \notin OpToRel(<, Nat)
  BY <1>1, WFMin
<1>3. \A y \in S : ~(y < x)
  BY <1>2 DEF OpToRel
<1>4. QED
  BY <1>3

(* An integer quotient, bounded without the division.                      *)
LEMMA QuotientBounds ==
    ASSUME NEW a \in Nat, NEW n \in Nat \ {0}
    PROVE  /\ a \div n \in Nat
           /\ n * (a \div n) <= a
           /\ a < n * (a \div n) + n
  OBVIOUS

(* A number that goes into a often enough is no more than the quotient.    *)
LEMMA QuotientAtLeast ==
    ASSUME NEW a \in Nat, NEW n \in Nat \ {0}, NEW k \in Nat, k * n <= a
    PROVE  k <= a \div n
<1>1. a \div n \in Nat /\ a < n * (a \div n) + n
  BY QuotientBounds
<1>2. SUFFICES ASSUME (a \div n) + 1 <= k PROVE FALSE
  BY <1>1
<1>3. n * ((a \div n) + 1) <= n * k
  BY <1>1, <1>2
<1>4. QED
  BY <1>1, <1>3

(* A quotient of natural numbers is one, no greater than the dividend.     *)
LEMMA QuotientAtMost ==
    ASSUME NEW a \in Nat, NEW n \in Nat \ {0}
    PROVE  a \div n \in 0 .. a
  BY QuotientBounds

(* A remainder, found by guessing the quotient.                            *)
LEMMA RemainderIs ==
    ASSUME NEW n \in Nat \ {0}, NEW q \in Int, NEW r \in 0 .. n - 1
    PROVE  (q * n + r) % n = r
  OBVIOUS

(* Division with remainder.                                                *)
LEMMA Division ==
    ASSUME NEW n \in Nat \ {0}, NEW x \in Int
    PROVE  \E q \in Int, r \in 0 .. n - 1 : x = q * n + r
<1>1. x \div n \in Int /\ x % n \in 0 .. n - 1 /\ x = (x \div n) * n + (x % n)
  OBVIOUS
<1>2. QED
  BY <1>1

(* Going on by d adds at most d to a remainder; a whole turn adds nothing. *)
LEMMA RemainderOfSum ==
    ASSUME NEW n \in Nat \ {0}, NEW x \in Int, NEW d \in Nat
    PROVE  /\ x % n \in 0 .. n - 1
           /\ (x + d) % n <= (x % n) + d
           /\ (x + d - n) % n <= (x % n) + d
<1>1. PICK q \in Int, r \in 0 .. n - 1 : x = q * n + r
  BY Division
<1>2. x % n = r
  BY <1>1, RemainderIs
<1>3. CASE r + d < n
  <2>1. r + d \in 0 .. n - 1
    BY <1>3
  <2>2. (q * n + (r + d)) % n = r + d /\ ((q - 1) * n + (r + d)) % n = r + d
    BY <2>1, RemainderIs
  <2>3. q * n + (r + d) = x + d /\ (q - 1) * n + (r + d) = x + d - n
    BY <1>1
  <2>4. QED
    BY <1>2, <2>2, <2>3
<1>4. CASE r + d >= n
  <2>1. (x + d) % n \in 0 .. n - 1 /\ (x + d - n) % n \in 0 .. n - 1
    OBVIOUS
  <2>2. QED
    BY <1>2, <1>4, <2>1
<1>5. QED
  BY <1>2, <1>3, <1>4

-------------------------------------------------------------------------------
(* The sum of a sequence.                                                  *)

(* f holds the sums of the first 0, 1, .. m numbers of s.                  *)
IsSum(f, s, m) == f = [n \in 0 .. m |-> IF n = 0 THEN 0 ELSE f[n - 1] + s[n]]

(* The recursion of Total has a solution for every sequence.               *)
LEMMA SumExists ==
    ASSUME NEW s \in Seq(Int), NEW m \in 0 .. Len(s)
    PROVE  \E f : IsSum(f, s, m)
<1> DEFINE None == {k \in 0 .. Len(s) : ~ \E f : IsSum(f, s, k)}
<1>1. SUFFICES ASSUME None # {} PROVE FALSE
  OBVIOUS
<1>2. None \subseteq Nat
  OBVIOUS
<1>3. PICK k \in None : \A j \in None : k <= j
  BY <1>1, <1>2, LeastElement
<1>4. k # 0
  <2> DEFINE g == [n \in 0 .. 0 |-> 0]
  <2>1. IsSum(g, s, 0)
    BY DEF IsSum
  <2>2. QED
    BY <2>1
<1>5. k \in Nat /\ k - 1 \in 0 .. Len(s) /\ k - 1 \notin None
  BY <1>3, <1>4
<1>6. PICK f : IsSum(f, s, k - 1)
  BY <1>5
<1> DEFINE g == [n \in 0 .. k |-> IF n = k THEN f[k - 1] + s[k] ELSE f[n]]
<1>7. IsSum(g, s, k)
  BY <1>4, <1>5, <1>6 DEF IsSum
<1>8. QED
  BY <1>3, <1>7

(* A partial sum is the one before it and one more number.                 *)
LEMMA SumStep ==
    ASSUME NEW s, NEW f, NEW m \in Nat, IsSum(f, s, m), NEW k \in 1 .. m
    PROVE  f[k] = f[k - 1] + s[k]
<1>1. k \in 0 .. m /\ k # 0
  OBVIOUS
<1>2. QED
  BY <1>1 DEF IsSum

(* Total is the last of the partial sums.                                  *)
LEMMA TotalIsSum ==
    ASSUME NEW s \in Seq(Int)
    PROVE  \E f : IsSum(f, s, Len(s)) /\ Total(s) = f[Len(s)]
<1> DEFINE sum == CHOOSE f : IsSum(f, s, Len(s))
<1>1. IsSum(sum, s, Len(s))
  BY SumExists
<1>2. Total(s) = sum[Len(s)]
  BY DEF Total, IsSum
<1>3. QED
  BY <1>1, <1>2

(* Numbers of at least 2 add up to at least 2 each.                        *)
LEMMA TotalAtLeast ==
    ASSUME NEW s \in Seq(Int), \A i \in 1 .. Len(s) : s[i] >= 2
    PROVE  Total(s) \in Nat /\ Total(s) >= 2 * Len(s)
<1>1. PICK f : IsSum(f, s, Len(s)) /\ Total(s) = f[Len(s)]
  BY TotalIsSum
<1> DEFINE Less == {n \in 0 .. Len(s) : ~(f[n] \in Int /\ f[n] >= 2 * n)}
<1>2. Less = {}
  <2>1. SUFFICES ASSUME Less # {} PROVE FALSE
    OBVIOUS
  <2>2. Less \subseteq Nat
    OBVIOUS
  <2>3. PICK k \in Less : \A j \in Less : k <= j
    BY <2>1, <2>2, LeastElement
  <2>4. k # 0
    BY <1>1, <2>3 DEF IsSum
  <2>5. k - 1 \in 0 .. Len(s) /\ k - 1 \notin Less /\ k \in 1 .. Len(s)
    BY <2>3, <2>4
  <2>6. f[k] = f[k - 1] + s[k]
    BY <1>1, <2>5, SumStep, LenProperties
  <2>7. f[k - 1] \in Int /\ f[k - 1] >= 2 * (k - 1)
    BY <2>5
  <2>8. s[k] \in Int /\ s[k] >= 2
    BY <2>5
  <2>9. QED
    BY <2>3, <2>5, <2>6, <2>7, <2>8
<1>3. Len(s) \in 0 .. Len(s)
  BY LenProperties
<1>4. QED
  BY <1>1, <1>2, <1>3

(* A sequence of 2s with another number at the end.                        *)
LEMMA TotalWithGap ==
    ASSUME NEW s \in Seq(Int), Len(s) >= 1, \A i \in 1 .. Len(s) - 1 : s[i] = 2
    PROVE  Total(s) = 2 * (Len(s) - 1) + s[Len(s)]
<1>1. PICK f : IsSum(f, s, Len(s)) /\ Total(s) = f[Len(s)]
  BY TotalIsSum
<1> DEFINE Other == {n \in 0 .. Len(s) - 1 : f[n] # 2 * n}
<1>2. Other = {}
  <2>1. SUFFICES ASSUME Other # {} PROVE FALSE
    OBVIOUS
  <2>2. Other \subseteq Nat
    OBVIOUS
  <2>3. PICK k \in Other : \A j \in Other : k <= j
    BY <2>1, <2>2, LeastElement
  <2>4. k # 0
    BY <1>1, <2>3 DEF IsSum
  <2>5. k - 1 \in 0 .. Len(s) - 1 /\ k \in 1 .. Len(s) - 1
    BY <2>3, <2>4, LenProperties
  <2>6. f[k] = f[k - 1] + s[k]
    <3>1. Len(s) \in Nat /\ k \in 1 .. Len(s)
      BY <2>5, LenProperties
    <3>2. QED
      BY <1>1, <3>1, SumStep
  <2>7. f[k - 1] = 2 * (k - 1)
    BY <2>3, <2>5
  <2>8. s[k] = 2
    BY <2>5
  <2>9. QED
    BY <2>3, <2>5, <2>6, <2>7, <2>8
<1>3. f[Len(s) - 1] = 2 * (Len(s) - 1)
  BY <1>2
<1>4. f[Len(s)] = f[Len(s) - 1] + s[Len(s)]
  <2>1. Len(s) \in Nat /\ Len(s) \in 1 .. Len(s)
    BY LenProperties
  <2>2. QED
    BY <1>1, <2>1, SumStep
<1>5. QED
  BY <1>1, <1>3, <1>4

-------------------------------------------------------------------------------
(* The decoder's types.                                                    *)

(* What is assumed of the constants of the decoder, one by one.            *)
LEMMA CrankConstants ==
    /\ TotalTeeth \in Nat /\ MissingTeeth \in Nat \ {0} /\ MissingTeeth <= TotalTeeth - 2
    /\ History \in Nat \ {0} /\ HalfSlot \in Nat \ {0} /\ Speed \in Nat \ {0}
    /\ CountCap \in Nat /\ QuietCap \in Nat /\ CleanCap \in Nat
    /\ MaxErrors \in Nat /\ LogSize \in Nat
  BY CrankAssumption

Periods == 1 .. QuietCap + 2

(* The history with one more period: what it holds, counted from its end.  *)
LEMMA RecordedFacts ==
    ASSUME NEW S, toothPeriods \in Seq(S), Len(toothPeriods) <= History, NEW period \in S
    PROVE  /\ Recorded(period) \in Seq(S)
           /\ Len(Recorded(period)) = IF Len(toothPeriods) < History
                                      THEN Len(toothPeriods) + 1 ELSE History
           /\ Recorded(period)[Len(Recorded(period))] = period
           /\ \A j \in 1 .. Len(Recorded(period)) - 1 :
                Recorded(period)[Len(Recorded(period)) - j] = toothPeriods[Len(toothPeriods) - j + 1]
<1> DEFINE all == Append(toothPeriods, period)
<1>1. /\ all \in Seq(S) /\ all # << >> /\ Len(all) = Len(toothPeriods) + 1
      /\ \A i \in 1 .. Len(toothPeriods) : all[i] = toothPeriods[i]
      /\ all[Len(toothPeriods) + 1] = period
  BY AppendProperties
<1>2. /\ Tail(all) \in Seq(S) /\ Len(Tail(all)) = Len(toothPeriods)
      /\ \A i \in 1 .. Len(toothPeriods) : Tail(all)[i] = all[i + 1]
  BY <1>1, HeadTailProperties
<1>3. Len(toothPeriods) \in Nat /\ History \in Nat \ {0}
  BY CrankConstants, LenProperties
<1>4. Recorded(period) = IF Len(all) > History THEN Tail(all) ELSE all
  BY DEF Recorded
<1> HIDE DEF all
<1>5. CASE Len(toothPeriods) < History
  <2>1. Recorded(period) = all
    BY <1>1, <1>3, <1>4, <1>5
  <2>2. QED
    BY <1>1, <1>3, <1>5, <2>1
<1>6. CASE Len(toothPeriods) = History
  <2>1. Recorded(period) = Tail(all)
    BY <1>1, <1>3, <1>4, <1>6
  <2>2. \A j \in 1 .. Len(toothPeriods) - 1 :
          /\ Len(toothPeriods) - j \in 1 .. Len(toothPeriods)
          /\ Len(toothPeriods) - j + 1 \in 1 .. Len(toothPeriods)
    BY <1>3
  <2>3. Tail(all)[Len(toothPeriods)] = period
    BY <1>1, <1>2, <1>3, <1>6
  <2>4. QED
    BY <1>1, <1>2, <1>3, <1>6, <2>1, <2>2, <2>3
<1>7. QED
  BY <1>3, <1>5, <1>6

(* One edge, as the decoder sees it, keeps the types.                      *)
LEMMA ProcessToothTypes ==
    ASSUME CrankTypeOK, NEW period \in Periods, ProcessTooth(period), toothCount < CountCap
    PROVE  /\ sawTooth' \in BOOLEAN
           /\ toothPeriods' \in Seq(Periods) /\ Len(toothPeriods') <= History
           /\ syncState' \in {"LOST", "SYNCING", "SYNCED"}
           /\ toothCount' \in 0 .. CountCap /\ toothPosition' \in 0 .. CountCap
           /\ crankRpm' \in 0 .. 2 * Speed
           /\ logAt' \in {"idle", "load", logAt}
           /\ UNCHANGED <<logIdx, logCapturing, logComplete, logNext, postAt>>
<1> USE CrankConstants
<1>1. CASE ~sawTooth
  BY <1>1 DEF ProcessTooth, CrankTypeOK, logVars, Periods
<1>2. CASE sawTooth
  <2>1. toothPeriods' \in Seq(Periods) /\ Len(toothPeriods') <= History
    <3>1. toothPeriods \in Seq(Periods) /\ Len(toothPeriods) <= History
      BY DEF CrankTypeOK, Periods
    <3>2. toothPeriods' = Recorded(period)
      BY <1>2 DEF ProcessTooth
    <3>3. QED
      BY <3>1, <3>2, RecordedFacts, LenProperties
  <2>2. Lost(IsGap(period)) \/ Syncing(IsGap(period)) \/ Synced(IsGap(period))
    BY <1>2 DEF ProcessTooth
  <2>3. /\ syncState' \in {"LOST", "SYNCING", "SYNCED"}
        /\ toothCount' \in 0 .. CountCap /\ toothPosition' \in 0 .. CountCap
    <3>1. ASSUME NEW gap, Lost(gap) \/ Syncing(gap) \/ Synced(gap)
          PROVE  /\ syncState' \in {"LOST", "SYNCING", "SYNCED"}
                 /\ toothCount' \in {toothCount, 0, toothCount + 1}
                 /\ toothPosition' \in {toothPosition, toothCount'}
      BY <3>1, Zenon DEF CrankTypeOK, Lost, Syncing, Synced, Counting
    <3>2. QED
      BY <2>2, <3>1 DEF CrankTypeOK
  <2>4. crankRpm' \in 0 .. 2 * Speed
    <3>1. crankRpm' = SpeedOf(period, crankRpm)
      BY <1>2 DEF ProcessTooth
    <3>2. (2 * Speed) \div period \in 0 .. 2 * Speed
      BY QuotientAtMost DEF Periods
    <3>3. QED
      BY <3>1, <3>2 DEF SpeedOf, CrankTypeOK
  <2>5. /\ logAt' \in {"idle", "load", logAt}
        /\ UNCHANGED <<logIdx, logCapturing, logComplete, logNext, postAt>>
    BY <1>2 DEF ProcessTooth, LogTooth
  <2>6. sawTooth' \in BOOLEAN
    BY <1>2 DEF ProcessTooth, CrankTypeOK
  <2>7. QED
    BY <2>1, <2>3, <2>4, <2>5, <2>6
<1>3. QED
  BY <1>1, <1>2 DEF CrankTypeOK

(* What turning the wheel by a slot does to it.                            *)
LEMMA NextSlotFacts ==
    ASSUME CrankTypeOK
    PROVE  /\ NextSlot \in 0 .. TotalTeeth - 1
           /\ wheel = TotalTeeth - 1 => NextSlot = 0
           /\ wheel # TotalTeeth - 1 => NextSlot = wheel + 1
<1>1. TotalTeeth \in Nat \ {0} /\ wheel \in 0 .. TotalTeeth - 1
  BY CrankConstants DEF CrankTypeOK
<1>2. wheel = TotalTeeth - 1 => (wheel + 1) % TotalTeeth = 0
  BY <1>1, RemainderIs
<1>3. wheel # TotalTeeth - 1 => (wheel + 1) % TotalTeeth = wheel + 1
  BY <1>1, RemainderIs
<1>4. QED
  BY <1>1, <1>2, <1>3 DEF NextSlot

(* Every step of the decoder and the wheel keeps the types.                *)
LEMMA CrankTypeStep ==
    ASSUME CrankTypeOK, [CrankNext]_crankVars
    PROVE  CrankTypeOK'
<1> USE CrankConstants
<1>1. NextSlot \in 0 .. TotalTeeth - 1
  BY NextSlotFacts
<1>2. CASE Tooth
  <2>1. quiet + 2 \in Periods /\ ProcessTooth(quiet + 2) /\ toothCount < CountCap
    BY <1>2 DEF Tooth, CrankTypeOK, Periods
  <2>2. wheel' = NextSlot /\ quiet' = 0 /\ AnotherCleanSlot
    BY <1>2 DEF Tooth
  <2>3. quiet' \in -1 .. QuietCap /\ wheel' \in 0 .. TotalTeeth - 1
        /\ clean' \in 0 .. CleanCap /\ errors' \in 0 .. MaxErrors
    BY <1>1, <2>2 DEF CrankTypeOK, AnotherCleanSlot
  <2>4. QED
    BY <2>1, <2>3, ProcessToothTypes DEF CrankTypeOK, Periods
<1>3. CASE NoTooth
  BY <1>1, <1>3 DEF NoTooth, CrankTypeOK, AnotherCleanSlot, decoderVars, logVars
<1>4. CASE Dropout
  BY <1>1, <1>4 DEF Dropout, CrankTypeOK, SensorErrs, decoderVars, logVars
<1>5. CASE Noise
  <2>1. quiet + 1 \in Periods /\ ProcessTooth(quiet + 1) /\ toothCount < CountCap
    BY <1>5 DEF Noise, CrankTypeOK, Periods
  <2>2. wheel' = wheel /\ quiet' = -1 /\ SensorErrs
    BY <1>5 DEF Noise
  <2>3. quiet' \in -1 .. QuietCap /\ wheel' \in 0 .. TotalTeeth - 1
        /\ clean' \in 0 .. CleanCap /\ errors' \in 0 .. MaxErrors
    BY <2>2 DEF CrankTypeOK, SensorErrs
  <2>4. QED
    BY <2>1, <2>3, ProcessToothTypes DEF CrankTypeOK, Periods
<1>6. CASE HandlerLogs \/ StartToothLog
  <2>1. logIdx' \in Nat /\ logNext' \in Nat
    BY <1>6 DEF HandlerLogs, StartToothLog, CrankTypeOK
  <2>2. logCapturing' \in BOOLEAN /\ logComplete' \in BOOLEAN
    BY <1>6, Zenon DEF HandlerLogs, StartToothLog, CrankTypeOK
  <2>3. /\ logAt' \in {"idle", "load", "store", "check", "stop", "finish"}
        /\ postAt' \in {"idle", "incomplete", "capturing"}
    BY <1>6 DEF HandlerLogs, StartToothLog, CrankTypeOK
  <2>4. QED
    BY <2>1, <2>2, <2>3, <1>6 DEF HandlerLogs, StartToothLog, CrankTypeOK, wheelVars, decoderVars
<1>7. CASE UNCHANGED crankVars
  BY <1>7 DEF CrankTypeOK, crankVars, wheelVars, decoderVars, logVars
<1>8. QED
  BY <1>2, <1>3, <1>4, <1>5, <1>6, <1>7 DEF CrankNext, Turn

(* The decoder starts well typed.                                          *)
LEMMA CrankTypeInit == CrankInit => CrankTypeOK
<1>1. SUFFICES ASSUME CrankInit PROVE CrankTypeOK
  OBVIOUS
<1>2. sawTooth \in BOOLEAN /\ logCapturing \in BOOLEAN /\ logComplete \in BOOLEAN
  BY <1>1, Zenon DEF CrankInit
<1>3. toothPeriods \in Seq(1 .. QuietCap + 2) /\ Len(toothPeriods) <= History
  BY <1>1, CrankConstants, EmptySeq DEF CrankInit
<1>4. QED
  BY <1>1, <1>2, <1>3, CrankConstants DEF CrankInit, CrankTypeOK

(* The decoder's variables keep their types: counters stay within their    *)
(* bounds, periods are never 0, the speed never exceeds that of an edge    *)
(* half way between two teeth.                                             *)
THEOREM CrankTypeCorrect == CrankSpec => []CrankTypeOK
<1>1. CrankInit => CrankTypeOK
  BY CrankTypeInit
<1>2. CrankTypeOK /\ [CrankNext]_crankVars => CrankTypeOK'
  BY CrankTypeStep
<1>3. QED
  BY <1>1, <1>2, PTL DEF CrankSpec

-------------------------------------------------------------------------------
(* What the decoder remembers of the wheel.                                *)

(* The wheels a gap of which is longer than one and a half times the       *)
(* average of a full history that holds no other gap.  The code's history  *)
(* is of 8 periods, for which the second conjunct holds however many teeth *)
(* are missing; a wheel with fewer teeth than that has two gaps in it.     *)
GapStandsOut ==
    /\ History <= RealTeeth
    /\ History + 3 * MissingTeeth < 2 * History * MissingTeeth

(* The j-th tooth back from the sensor, negative in the revolution before. *)
LastTooth(j) == TruePosition - j + 1

(* How many slots ago that tooth was under the sensor.                     *)
Ago(j) == wheel - LastTooth(j) + (IF LastTooth(j) < 0 THEN MissingTeeth ELSE 0)

(* The time from the tooth before to tooth t, in half slots.               *)
PeriodAt(t) == IF t = 0 THEN 2 * (MissingTeeth + 1) ELSE 2

(* The history goes back as far as the signal has been clean.              *)
HistoryIsTrue ==
    \A j \in 1 .. History :
      Ago(j + 1) < clean =>
        /\ Len(toothPeriods) >= j
        /\ toothPeriods[Len(toothPeriods) - j + 1] = PeriodAt(LastTooth(j))

(* So does the time of the last edge.                                      *)
QuietIsTrue == Ago(1) < clean => sawTooth /\ quiet = 2 * Ago(1)

(* With a clean history, the gap and only the gap is taken for one.  After *)
(* Memory slots at a gap, the count is right unless sync is lost; it is    *)
(* not lost at the second such gap, and confirmed at the third.            *)
Memory == History + MissingTeeth + 1

CountIsTrue ==
    clean - wheel >= Memory /\ syncState # "LOST"
      => toothCount = TruePosition /\ toothPosition = TruePosition

GapSeen == clean - wheel >= Memory + TotalTeeth => syncState # "LOST"

CountSeen == clean - wheel >= Memory + 2 * TotalTeeth => syncState = "SYNCED"

DecoderInv == CrankTypeOK /\ HistoryIsTrue /\ QuietIsTrue /\ CountIsTrue /\ GapSeen /\ CountSeen

(* A tooth j back was j - 1 slots ago, or also the gap.                    *)
LEMMA AgoBounds ==
    ASSUME GapStandsOut, CrankTypeOK, NEW j \in 1 .. History + 1
    PROVE  Ago(j) \in Nat /\ (j <= History => Ago(j) <= j - 1 + MissingTeeth)
  BY CrankConstants DEF GapStandsOut, CrankTypeOK, Ago, LastTooth, TruePosition, RealTeeth

(* The teeth back from the next tooth are those back from this one.        *)
LEMMA NextTooth ==
    ASSUME GapStandsOut, CrankTypeOK, HasTooth(NextSlot), wheel' = NextSlot
    PROVE  /\ TruePosition' = NextSlot
           /\ \A j \in 1 .. History : Ago(j + 1)' = Ago(j) + 1
           /\ \A j \in 2 .. History : PeriodAt(LastTooth(j)') = PeriodAt(LastTooth(j - 1))
           /\ Ago(1)' = 0
           /\ 2 * Ago(1) + 2 = PeriodAt(LastTooth(1)')
<1>1. CASE NextSlot = 0
  <2>1. wheel = TotalTeeth - 1
    BY <1>1, NextSlotFacts, CrankConstants DEF CrankTypeOK
  <2>2. QED
    BY <1>1, <2>1, CrankConstants
       DEF GapStandsOut, CrankTypeOK, Ago, LastTooth, TruePosition, RealTeeth, HasTooth, PeriodAt
<1>2. CASE NextSlot # 0
  <2>1. NextSlot = wheel + 1
    BY <1>2, NextSlotFacts
  <2>2. QED
    BY <1>2, <2>1, CrankConstants
       DEF GapStandsOut, CrankTypeOK, Ago, LastTooth, TruePosition, RealTeeth, HasTooth, PeriodAt
<1>3. QED
  BY <1>1, <1>2

(* Over the missing teeth, the last tooth stays the last.                  *)
LEMMA NextGapSlot ==
    ASSUME CrankTypeOK, ~HasTooth(NextSlot), wheel' = NextSlot
    PROVE  /\ wheel' = wheel + 1 /\ TruePosition' = TruePosition
           /\ \A j \in 1 .. History + 1 : Ago(j)' = Ago(j) + 1 /\ LastTooth(j)' = LastTooth(j)
<1>1. NextSlot = wheel + 1
  BY NextSlotFacts, CrankConstants DEF CrankTypeOK, HasTooth, RealTeeth
<1>2. QED
  BY <1>1, CrankConstants DEF CrankTypeOK, Ago, LastTooth, TruePosition, RealTeeth, HasTooth

(* A slot without a sensor error.                                          *)
LEMMA CleanSlot ==
    ASSUME CrankTypeOK, AnotherCleanSlot
    PROVE  clean' <= clean + 1 /\ clean' \in Nat
  BY CrankConstants DEF CrankTypeOK, AnotherCleanSlot

(* A tooth the sensor sees.                                                *)
LEMMA ToothHistory ==
    ASSUME GapStandsOut, CrankTypeOK, HistoryIsTrue, QuietIsTrue, Tooth
    PROVE  HistoryIsTrue' /\ QuietIsTrue'
<1> USE CrankConstants
<1>1. wheel' = NextSlot /\ HasTooth(NextSlot) /\ ProcessTooth(quiet + 2) /\ quiet' = 0
  BY DEF Tooth
<1>2. clean' <= clean + 1 /\ clean' \in Nat /\ clean \in Nat
  BY CleanSlot DEF Tooth, CrankTypeOK
<1>3. quiet + 2 \in Periods /\ toothPeriods \in Seq(Periods) /\ Len(toothPeriods) <= History
  BY DEF Tooth, CrankTypeOK, Periods
<1> DEFINE r == Recorded(quiet + 2)
<1>4. /\ Len(r) = IF Len(toothPeriods) < History THEN Len(toothPeriods) + 1 ELSE History
      /\ r[Len(r)] = quiet + 2
      /\ \A j \in 1 .. Len(r) - 1 : r[Len(r) - j] = toothPeriods[Len(toothPeriods) - j + 1]
      /\ Len(toothPeriods) \in Nat
  BY <1>3, RecordedFacts, LenProperties
<1> HIDE DEF r
<1>5. QuietIsTrue'
  <2>1. Ago(1)' = 0
    BY <1>1, NextTooth
  <2>2. sawTooth'
    BY <1>1 DEF ProcessTooth
  <2>3. QED
    BY <1>1, <2>1, <2>2 DEF QuietIsTrue
<1>6. ASSUME NEW j \in 1 .. History, Ago(j + 1)' < clean'
      PROVE  /\ Len(toothPeriods)' >= j
             /\ toothPeriods'[Len(toothPeriods)' - j + 1] = PeriodAt(LastTooth(j)')
  <2>1. Ago(j) < clean
    <3>1. Ago(j + 1)' = Ago(j) + 1
      BY <1>1, NextTooth
    <3>2. Ago(j) \in Nat
      BY AgoBounds
    <3>3. QED
      BY <1>2, <1>6, <3>1, <3>2
  <2>2. Ago(1) \in Nat /\ Ago(1) <= Ago(j)
    BY AgoBounds DEF CrankTypeOK, Ago, LastTooth, TruePosition, RealTeeth
  <2>3. sawTooth /\ quiet = 2 * Ago(1)
    BY <1>2, <2>1, <2>2, AgoBounds DEF QuietIsTrue
  <2>4. toothPeriods' = r
    BY <1>1, <2>3 DEF ProcessTooth, r
  <2>5. CASE j = 1
    <3>1. quiet + 2 = PeriodAt(LastTooth(1)')
      BY <1>1, <2>3, NextTooth
    <3>2. QED
      BY <1>4, <2>4, <2>5, <3>1
  <2>6. CASE j # 1
    <3>1. j - 1 \in 1 .. History /\ j \in 2 .. History /\ j - 1 + 1 = j
      BY <2>6
    <3>2. /\ Len(toothPeriods) >= j - 1
          /\ toothPeriods[Len(toothPeriods) - (j - 1) + 1] = PeriodAt(LastTooth(j - 1))
      BY <2>1, <3>1 DEF HistoryIsTrue
    <3>3. PeriodAt(LastTooth(j)') = PeriodAt(LastTooth(j - 1))
      BY <1>1, <3>1, NextTooth
    <3>4. Len(r) >= j /\ j - 1 \in 1 .. Len(r) - 1 /\ Len(r) - (j - 1) = Len(r) - j + 1
      BY <1>4, <3>1, <3>2
    <3>5. r[Len(r) - (j - 1)] = toothPeriods[Len(toothPeriods) - (j - 1) + 1]
      BY <1>4, <3>4
    <3>6. QED
      BY <2>4, <3>2, <3>3, <3>4, <3>5
  <2>7. QED
    BY <2>5, <2>6
<1>7. PeriodAt(LastTooth(1))' = PeriodAt(LastTooth(1)')
  BY DEF PeriodAt
<1>8. QED
  BY <1>5, <1>6 DEF HistoryIsTrue, PeriodAt

(* Every step of the decoder and the wheel.                                *)
LEMMA HistoryStep ==
    ASSUME GapStandsOut, CrankTypeOK, HistoryIsTrue, QuietIsTrue, [CrankNext]_crankVars
    PROVE  HistoryIsTrue' /\ QuietIsTrue'
<1> USE CrankConstants
<1>1. CASE Tooth
  BY <1>1, ToothHistory
<1>2. CASE NoTooth
  <2>1. /\ wheel' = NextSlot /\ ~HasTooth(NextSlot) /\ quiet' = quiet + 2
        /\ toothPeriods' = toothPeriods /\ sawTooth' = sawTooth
    BY <1>2 DEF NoTooth, decoderVars
  <2>2. clean' <= clean + 1 /\ clean' \in Nat /\ clean \in Nat
    BY <1>2, CleanSlot DEF NoTooth, CrankTypeOK
  <2>3. \A j \in 1 .. History + 1 :
          Ago(j)' = Ago(j) + 1 /\ LastTooth(j)' = LastTooth(j) /\ Ago(j) \in Nat
    BY <2>1, NextGapSlot, AgoBounds
  <2>4. HistoryIsTrue'
    <3>1. ASSUME NEW j \in 1 .. History, Ago(j + 1)' < clean'
          PROVE  /\ Len(toothPeriods)' >= j
                 /\ toothPeriods'[Len(toothPeriods)' - j + 1] = PeriodAt(LastTooth(j)')
      <4>1. j + 1 \in 1 .. History + 1 /\ j \in 1 .. History + 1
        OBVIOUS
      <4>2. Ago(j + 1) < clean /\ LastTooth(j)' = LastTooth(j)
        BY <2>2, <2>3, <3>1, <4>1
      <4>3. QED
        BY <2>1, <4>2 DEF HistoryIsTrue
    <3>2. QED
      BY <3>1 DEF HistoryIsTrue, PeriodAt
  <2>5. QuietIsTrue'
    <3>1. 1 \in 1 .. History + 1
      OBVIOUS
    <3>2. Ago(1)' = Ago(1) + 1 /\ Ago(1) \in Nat
      BY <2>3, <3>1
    <3>3. QED
      BY <2>1, <2>2, <3>2 DEF QuietIsTrue
  <2>6. QED
    BY <2>4, <2>5
<1>3. CASE Dropout \/ Noise
  <2>1. PICK w \in 0 .. TotalTeeth - 1 : clean' = 0 /\ wheel' = w
    BY <1>3, NextSlotFacts DEF Dropout, Noise, SensorErrs, CrankTypeOK
  <2>2. ASSUME NEW j \in 1 .. History + 1 PROVE ~(Ago(j)' < clean')
    BY <2>1 DEF Ago, LastTooth, TruePosition, RealTeeth
  <2>3. \A j \in 1 .. History : j + 1 \in 1 .. History + 1
    OBVIOUS
  <2>4. HistoryIsTrue'
    BY <2>2, <2>3 DEF HistoryIsTrue
  <2>5. QuietIsTrue'
    BY <2>2 DEF QuietIsTrue
  <2>6. QED
    BY <2>4, <2>5
<1>4. CASE HandlerLogs \/ StartToothLog \/ UNCHANGED crankVars
  BY <1>4 DEF HandlerLogs, StartToothLog, crankVars, wheelVars, decoderVars, HistoryIsTrue, QuietIsTrue, Ago,
              LastTooth, TruePosition, PeriodAt
<1>5. QED
  BY <1>1, <1>2, <1>3, <1>4 DEF CrankNext, Turn

-------------------------------------------------------------------------------
(* The gap and only the gap is taken for one.                              *)

(* The rule of one and a half times the average, where the history is full *)
(* and all of its periods but the last are those of regular teeth.         *)
LEMMA GapArithmetic ==
    ASSUME NEW h \in Nat \ {0}, NEW m \in Nat \ {0}, NEW k \in Nat \ {0}, h + 3 * m < 2 * h * m,
           NEW a \in Nat, a = (k * (2 * (h + m))) \div h
    PROVE  k * (2 * (m + 1)) > a + a \div 2
<1>1. h * a <= k * (2 * (h + m))
  <2>1. k * (2 * (h + m)) \in Nat
    OBVIOUS
  <2>2. QED
    BY <2>1, QuotientBounds
<1>2. a \div 2 \in Nat /\ 2 * (a \div 2) <= a
  OBVIOUS
<1>3. SUFFICES ASSUME k * (4 * (m + 1)) <= 3 * a PROVE FALSE
  BY <1>2
<1>4. h * (k * (4 * (m + 1))) <= h * (3 * a)
  BY <1>3
<1>5. h * (3 * a) <= 3 * (k * (2 * (h + m)))
  BY <1>1
<1>6. k * (4 * (h * m + h)) <= k * (6 * (h + m))
  BY <1>4, <1>5
<1>7. 4 * (h * m + h) <= 6 * (h + m)
  BY <1>6
<1>8. QED
  BY <1>7

(* A regular period is never above the average of a history of regular and *)
(* longer ones.                                                            *)
LEMMA ToothArithmetic ==
    ASSUME NEW n \in Nat \ {0}, NEW k \in Nat \ {0}, NEW sum \in Nat, sum >= 2 * n,
           NEW a \in Nat, a = (k * sum) \div n
    PROVE  ~(k * 2 > a + a \div 2)
<1>1. (k * 2) * n <= k * sum
  OBVIOUS
<1>2. k * sum \in Nat /\ k * 2 \in Nat
  OBVIOUS
<1>3. k * 2 <= a
  BY <1>1, <1>2, QuotientAtLeast
<1>4. QED
  BY <1>3

(* With a clean history, a period is taken for a gap just at tooth 0.      *)
LEMMA GapRecognised ==
    ASSUME GapStandsOut, CrankTypeOK, HistoryIsTrue, QuietIsTrue,
           Tooth, clean >= History + MissingTeeth
    PROVE  sawTooth /\ (IsGap(quiet + 2) <=> NextSlot = 0)
<1> USE CrankConstants
<1>1. wheel' = NextSlot /\ HasTooth(NextSlot) /\ NextSlot \in 0 .. TotalTeeth - 1
  BY NextSlotFacts DEF Tooth
<1>2. ASSUME NEW j \in 1 .. History PROVE Ago(j) \in Nat /\ Ago(j) < clean
  BY AgoBounds DEF CrankTypeOK
<1>3. sawTooth /\ quiet + 2 = PeriodAt(LastTooth(1)') /\ LastTooth(1)' = NextSlot
  <2>1. Ago(1) < clean
    BY <1>2
  <2>2. TruePosition' = NextSlot /\ 2 * Ago(1) + 2 = PeriodAt(LastTooth(1)')
    BY <1>1, NextTooth
  <2>3. QED
    BY <2>1, <2>2, NextSlotFacts DEF QuietIsTrue, LastTooth
<1> DEFINE r == Recorded(quiet + 2)
<1>4. /\ Len(r) = IF Len(toothPeriods) < History THEN Len(toothPeriods) + 1 ELSE History
      /\ r[Len(r)] = quiet + 2
      /\ \A j \in 1 .. Len(r) - 1 : r[Len(r) - j] = toothPeriods[Len(toothPeriods) - j + 1]
      /\ Len(toothPeriods) \in Nat
      /\ r \in Seq(Periods)
  <2>1. quiet + 2 \in Periods /\ toothPeriods \in Seq(Periods) /\ Len(toothPeriods) <= History
    BY DEF Tooth, CrankTypeOK, Periods
  <2>2. QED
    BY <2>1, RecordedFacts, LenProperties
<1>5. r \in Seq(Int)
  BY <1>4, SeqMonotonic DEF Periods
<1>6. IsGap(quiet + 2) <=> HalfSlot * (quiet + 2) > AveragePeriod(r) + AveragePeriod(r) \div 2
  BY DEF IsGap
<1>7. AveragePeriod(r) = (HalfSlot * Total(r)) \div Len(r)
  BY DEF AveragePeriod
<1> HIDE DEF r
<1>8. \A j \in 1 .. History - 1 :
        /\ Len(toothPeriods) >= j
        /\ toothPeriods[Len(toothPeriods) - j + 1] = PeriodAt(LastTooth(j))
  <2>1. ASSUME NEW j \in 1 .. History - 1
        PROVE  /\ Len(toothPeriods) >= j
               /\ toothPeriods[Len(toothPeriods) - j + 1] = PeriodAt(LastTooth(j))
    <3>1. j + 1 \in 1 .. History /\ j \in 1 .. History
      OBVIOUS
    <3>2. Ago(j + 1) < clean
      BY <1>2, <3>1
    <3>3. QED
      BY <3>1, <3>2 DEF HistoryIsTrue
  <2>2. QED
    BY <2>1
<1>9. Len(r) = History
  <2>1. Len(toothPeriods) >= History - 1
    <3>1. CASE History = 1
      BY <1>4, <3>1
    <3>2. CASE History # 1
      BY <1>8, <3>2
    <3>3. QED
      BY <3>1, <3>2
  <2>2. QED
    BY <1>4, <2>1 DEF CrankTypeOK
<1>10. ASSUME NEW i \in 1 .. History - 1
       PROVE  r[i] = PeriodAt(LastTooth(History - i))
  <2>1. History - i \in 1 .. History - 1 /\ i = History - (History - i)
    OBVIOUS
  <2>2. QED
    BY <1>4, <1>8, <1>9, <2>1
<1>11. CASE NextSlot = 0
  <2>1. quiet + 2 = 2 * (MissingTeeth + 1)
    BY <1>3, <1>11 DEF PeriodAt
  <2>2. wheel = TotalTeeth - 1
    BY <1>11, NextSlotFacts DEF CrankTypeOK
  <2>3. \A i \in 1 .. History - 1 : LastTooth(History - i) # 0
    BY <2>2 DEF GapStandsOut, LastTooth, TruePosition, RealTeeth
  <2>4. \A i \in 1 .. Len(r) - 1 : r[i] = 2
    BY <1>9, <1>10, <2>3 DEF PeriodAt
  <2>5. Total(r) = 2 * (History + MissingTeeth)
    <3>1. Total(r) = 2 * (Len(r) - 1) + r[Len(r)]
      BY <1>5, <1>9, <2>4, TotalWithGap
    <3>2. QED
      BY <1>4, <1>9, <2>1, <3>1
  <2>6. AveragePeriod(r) \in Nat
    BY <1>7, <1>9, <2>5, QuotientBounds
  <2>7. HalfSlot * (2 * (MissingTeeth + 1)) > AveragePeriod(r) + AveragePeriod(r) \div 2
    BY <1>7, <1>9, <2>5, <2>6, GapArithmetic DEF GapStandsOut
  <2>8. QED
    BY <1>3, <1>6, <1>11, <2>1, <2>7
<1>12. CASE NextSlot # 0
  <2>1. quiet + 2 = 2
    BY <1>3, <1>12 DEF PeriodAt
  <2>2. ASSUME NEW i \in 1 .. Len(r) PROVE r[i] >= 2
    <3>1. CASE i = History
      BY <1>4, <1>9, <2>1, <3>1
    <3>2. CASE i # History
      BY <1>9, <1>10, <2>2, <3>2 DEF PeriodAt
    <3>3. QED
      BY <3>1, <3>2
  <2>3. Total(r) \in Nat /\ Total(r) >= 2 * Len(r)
    BY <1>5, <2>2, TotalAtLeast
  <2>4. AveragePeriod(r) \in Nat
    <3>1. HalfSlot * Total(r) \in Nat
      BY <2>3
    <3>2. QED
      BY <1>7, <1>9, <3>1, QuotientBounds
  <2>5. ~(HalfSlot * 2 > AveragePeriod(r) + AveragePeriod(r) \div 2)
    BY <1>7, <1>9, <2>3, <2>4, ToothArithmetic
  <2>6. QED
    BY <1>3, <1>6, <1>12, <2>1, <2>5
<1>13. QED
  BY <1>11, <1>12

-------------------------------------------------------------------------------
(* The count.                                                              *)

(* A tooth, with a history clean enough to tell the gap: the count starts  *)
(* again at the gap and only there, and sync is kept or found where the    *)
(* count was right.                                                        *)
LEMMA ToothCounts ==
    ASSUME GapStandsOut, CrankTypeOK, HistoryIsTrue, QuietIsTrue,
           Tooth, clean >= History + MissingTeeth
    PROVE  /\ NextSlot = 0 =>
                /\ syncState' # "LOST" => toothCount' = 0 /\ toothPosition' = 0
                /\ syncState = "LOST" => syncState' # "LOST"
                /\ syncState # "LOST" /\ toothCount + 1 = RealTeeth => syncState' = "SYNCED"
           /\ NextSlot # 0 =>
                /\ syncState' = syncState
                /\ syncState # "LOST" => toothCount' = toothCount + 1 /\ toothPosition' = toothCount'
<1>1. sawTooth /\ (IsGap(quiet + 2) <=> NextSlot = 0)
  BY GapRecognised
<1> DEFINE gap == IsGap(quiet + 2)
<1>2. Lost(gap) \/ Syncing(gap) \/ Synced(gap)
  BY <1>1 DEF Tooth, ProcessTooth
<1>3. gap <=> NextSlot = 0
  BY <1>1
<1> HIDE DEF gap
<1>4. QED
  BY <1>2, <1>3 DEF Lost, Syncing, Synced, Counting

(* Between gaps, and where nothing is seen, the claims stay what they are. *)
LEMMA CountStep ==
    ASSUME GapStandsOut, DecoderInv, CrankTypeOK', [CrankNext]_crankVars
    PROVE  CountIsTrue' /\ GapSeen' /\ CountSeen'
<1> USE CrankConstants
<1>1. CrankTypeOK /\ HistoryIsTrue /\ QuietIsTrue /\ CountIsTrue /\ GapSeen /\ CountSeen
  BY DEF DecoderInv
<1>2. wheel \in 0 .. TotalTeeth - 1 /\ clean \in Nat
  BY <1>1 DEF CrankTypeOK
<1>3. PICK w \in 0 .. TotalTeeth - 1, c \in Nat : wheel' = w /\ clean' = c
  BY DEF CrankTypeOK
<1>4. Memory \in Nat /\ RealTeeth \in Nat
  BY DEF Memory, RealTeeth
<1>5. CASE ~(c - w >= Memory)
  BY <1>3, <1>4, <1>5 DEF CountIsTrue, GapSeen, CountSeen, Memory
<1>6. CASE Tooth /\ c - w >= Memory
  <2>1. wheel' = NextSlot /\ w = NextSlot /\ HasTooth(NextSlot)
    BY <1>3, <1>6 DEF Tooth
  <2>2. c <= clean + 1
    BY <1>1, <1>3, <1>6, CleanSlot DEF Tooth
  <2>3. TruePosition' = w
    BY <1>1, <2>1, NextTooth
  <2>4. clean >= History + MissingTeeth
    BY <1>2, <1>6, <2>2 DEF Memory
  <2>5. CASE NextSlot = 0
    <3>1. wheel = TotalTeeth - 1 /\ TruePosition = RealTeeth - 1
      BY <1>1, <1>2, <2>5, NextSlotFacts DEF TruePosition, RealTeeth
    <3>2. c - w >= Memory + TotalTeeth => clean - wheel >= Memory
      BY <1>2, <1>4, <2>1, <2>2, <2>5, <3>1
    <3>3. c - w >= Memory + 2 * TotalTeeth => clean - wheel >= Memory + TotalTeeth
      BY <1>2, <1>4, <2>1, <2>2, <2>5, <3>1
    <3>4. /\ syncState' # "LOST" => toothCount' = 0 /\ toothPosition' = 0
          /\ syncState = "LOST" => syncState' # "LOST"
          /\ syncState # "LOST" /\ toothCount + 1 = RealTeeth => syncState' = "SYNCED"
      BY <1>1, <1>6, <2>4, <2>5, ToothCounts
    <3>5. CountIsTrue'
      BY <2>1, <2>3, <2>5, <3>4 DEF CountIsTrue
    <3>6. GapSeen'
      BY <1>1, <1>3, <1>4, <3>1, <3>2, <3>4 DEF GapSeen, CountIsTrue, Memory
    <3>7. CountSeen'
      <4>1. SUFFICES ASSUME c - w >= Memory + 2 * TotalTeeth PROVE syncState' = "SYNCED"
        BY <1>3, <1>4 DEF CountSeen, Memory
      <4>2. syncState # "LOST"
        BY <1>1, <3>3, <4>1 DEF GapSeen
      <4>3. clean - wheel >= Memory
        BY <1>2, <1>4, <3>3, <4>1
      <4>4. toothCount + 1 = RealTeeth
        BY <1>1, <1>4, <3>1, <4>2, <4>3 DEF CountIsTrue
      <4>5. QED
        BY <3>4, <4>2, <4>4
    <3>8. QED
      BY <3>5, <3>6, <3>7
  <2>6. CASE NextSlot # 0
    <3>1. w = wheel + 1 /\ wheel = TruePosition
      BY <1>1, <1>2, <2>1, <2>6, NextSlotFacts DEF TruePosition, HasTooth, CrankTypeOK, RealTeeth
    <3>2. clean - wheel >= c - w
      BY <1>2, <2>2, <3>1
    <3>3. /\ syncState' = syncState
          /\ syncState # "LOST" => toothCount' = toothCount + 1 /\ toothPosition' = toothCount'
      BY <1>1, <1>6, <2>4, <2>6, ToothCounts
    <3>4. CountIsTrue'
      BY <1>1, <1>2, <1>3, <1>4, <1>6, <2>3, <3>1, <3>2, <3>3 DEF CountIsTrue, Memory
    <3>5. GapSeen' /\ CountSeen'
      BY <1>1, <1>2, <1>3, <1>4, <3>2, <3>3 DEF GapSeen, CountSeen, Memory
    <3>6. QED
      BY <3>4, <3>5
  <2>7. QED
    BY <2>5, <2>6
<1>7. CASE NoTooth
  <2>1. /\ w = wheel + 1 /\ TruePosition' = TruePosition
        /\ UNCHANGED <<syncState, toothCount, toothPosition>>
    BY <1>1, <1>3, <1>7, NextGapSlot DEF NoTooth, decoderVars
  <2>2. c <= clean + 1
    BY <1>1, <1>3, <1>7, CleanSlot DEF NoTooth
  <2>3. clean - wheel >= c - w
    BY <1>2, <2>1, <2>2
  <2>4. CountIsTrue'
    BY <1>1, <1>2, <1>3, <1>4, <2>1, <2>3 DEF CountIsTrue, Memory
  <2>5. GapSeen' /\ CountSeen'
    BY <1>1, <1>2, <1>3, <1>4, <2>1, <2>3 DEF GapSeen, CountSeen, Memory
  <2>6. QED
    BY <2>4, <2>5
<1>8. CASE Dropout \/ Noise
  <2>1. c = 0
    BY <1>3, <1>8 DEF Dropout, Noise, SensorErrs
  <2>2. ~(c - w >= Memory)
    BY <2>1 DEF Memory
  <2>3. QED
    BY <1>5, <2>2
<1>9. CASE HandlerLogs \/ StartToothLog \/ UNCHANGED crankVars
  BY <1>1, <1>9 DEF HandlerLogs, StartToothLog, crankVars, wheelVars, decoderVars, CountIsTrue, GapSeen,
                    CountSeen, TruePosition, Memory
<1>10. QED
  BY <1>5, <1>6, <1>7, <1>8, <1>9 DEF CrankNext, Turn

(* Before the first slot the history claims nothing.                       *)
LEMMA DecoderInit == ASSUME GapStandsOut, CrankInit PROVE DecoderInv
<1>1. CrankTypeOK
  BY CrankTypeInit
<1>2. clean = 0 /\ wheel \in Nat
  BY CrankConstants DEF CrankInit
<1>3. \A j \in 1 .. History + 1 : Ago(j) \in Nat
  BY <1>1, AgoBounds
<1>4. HistoryIsTrue
  <2>1. \A j \in 1 .. History : j + 1 \in 1 .. History + 1
    BY CrankConstants
  <2>2. QED
    BY <1>2, <1>3, <2>1 DEF HistoryIsTrue
<1>5. QuietIsTrue
  <2>1. 1 \in 1 .. History + 1
    BY CrankConstants
  <2>2. QED
    BY <1>2, <1>3, <2>1 DEF QuietIsTrue
<1>6. CountIsTrue /\ GapSeen /\ CountSeen
  BY <1>2, CrankConstants DEF CountIsTrue, GapSeen, CountSeen, Memory
<1>7. QED
  BY <1>1, <1>4, <1>5, <1>6 DEF DecoderInv

(* Every edge, and every request to log teeth, keeps the history true.     *)
LEMMA DecoderStep ==
    ASSUME GapStandsOut, DecoderInv, [CrankNext]_crankVars
    PROVE  DecoderInv'
<1>1. CrankTypeOK'
  BY CrankTypeStep DEF DecoderInv
<1>2. HistoryIsTrue' /\ QuietIsTrue'
  BY HistoryStep DEF DecoderInv
<1>3. CountIsTrue' /\ GapSeen' /\ CountSeen'
  BY <1>1, CountStep
<1>4. QED
  BY <1>1, <1>2, <1>3 DEF DecoderInv

(* Two clean revolutions are more than the history remembers, four as many *)
(* as it takes to see the gap, count and confirm.                          *)
LEMMA DecoderInvImplies ==
    ASSUME GapStandsOut, DecoderInv
    PROVE  PositionIsTrue /\ SyncRecovers
<1>1. wheel \in 0 .. TotalTeeth - 1 /\ clean \in Nat
  BY CrankConstants DEF DecoderInv, CrankTypeOK
<1>2. PositionIsTrue
  BY <1>1, CrankConstants DEF DecoderInv, CountIsTrue, GapStandsOut, PositionIsTrue, Memory, RealTeeth
<1>3. SyncRecovers
  BY <1>1, CrankConstants DEF DecoderInv, CountSeen, GapStandsOut, SyncRecovers, Memory, RealTeeth
<1>4. QED
  BY <1>2, <1>3

(* What the decoder remembers of the wheel is true all the time.           *)
LEMMA DecoderHolds == GapStandsOut /\ CrankSpec => []DecoderInv
<1>1. GapStandsOut /\ CrankInit => DecoderInv
  BY DecoderInit
<1>2. GapStandsOut /\ DecoderInv /\ [CrankNext]_crankVars => DecoderInv'
  BY DecoderStep
<1>3. GapStandsOut => GapStandsOut'
  BY DEF GapStandsOut, RealTeeth
<1>4. QED
  BY <1>1, <1>2, <1>3, PTL DEF CrankSpec

(* A crank position the decoder claims, two revolutions after the last     *)
(* missed or extra edge, is the true one, on every wheel whose gap stands  *)
(* out, wherever the wheel was and whatever the sensor did before.         *)
THEOREM ClaimedPositionIsTrue == GapStandsOut /\ CrankSpec => []PositionIsTrue
<1>1. GapStandsOut /\ DecoderInv => PositionIsTrue
  BY DecoderInvImplies
<1>2. GapStandsOut => GapStandsOut'
  BY DEF GapStandsOut, RealTeeth
<1>3. QED
  BY <1>1, <1>2, DecoderHolds, PTL

(* And whatever the sensor did before, sync is back after four revolutions *)
(* without an error.                                                       *)
THEOREM SyncComesBack == GapStandsOut /\ CrankSpec => []SyncRecovers
<1>1. GapStandsOut /\ DecoderInv => SyncRecovers
  BY DecoderInvImplies
<1>2. GapStandsOut => GapStandsOut'
  BY DEF GapStandsOut, RealTeeth
<1>3. QED
  BY <1>1, <1>2, DecoderHolds, PTL

-------------------------------------------------------------------------------
(* The tooth log.                                                          *)

(* The handler logs while the capture is on, and a post between its steps  *)
(* can only send the index back to 0.                                      *)
LogInv ==
    /\ CrankTypeOK /\ LogIsWhole
    /\ logIdx <= LogSize /\ logNext <= LogSize
    /\ logAt \in {"load", "store", "check", "stop"} => logCapturing
    /\ logAt = "stop" => logIdx \in {0, LogSize}

(* Every store of the handler and of the web server's task.                *)
LEMMA LogStep ==
    ASSUME LogInv, [CrankNext]_crankVars
    PROVE  LogInv'
<1> USE CrankConstants
<1>1. CrankTypeOK'
  BY CrankTypeStep DEF LogInv
<1>2. CASE UNCHANGED logVars
  BY <1>1, <1>2 DEF LogInv, LogIsWhole, logVars
<1>3. CASE logAt = "idle" /\ LogTooth
  BY <1>1, <1>3 DEF LogInv, LogIsWhole, LogTooth, CrankTypeOK
<1>4. CASE HandlerLogs
  <2>1. CASE logAt = "load"
    BY <1>1, <1>4, <2>1 DEF LogInv, LogIsWhole, HandlerLogs, CrankTypeOK
  <2>2. CASE logAt = "store"
    BY <1>1, <1>4, <2>2 DEF LogInv, LogIsWhole, HandlerLogs, CrankTypeOK
  <2>3. CASE logAt = "check"
    BY <1>1, <1>4, <2>3 DEF LogInv, LogIsWhole, HandlerLogs, CrankTypeOK
  <2>4. CASE logAt = "stop"
    BY <1>1, <1>4, <2>4 DEF LogInv, LogIsWhole, HandlerLogs, CrankTypeOK
  <2>5. CASE logAt = "finish"
    BY <1>1, <1>4, <2>5 DEF LogInv, LogIsWhole, HandlerLogs, CrankTypeOK
  <2>6. QED
    BY <1>4, <2>1, <2>2, <2>3, <2>4, <2>5 DEF HandlerLogs
<1>5. CASE StartToothLog
  <2>1. CASE postAt = "idle"
    <3>1. logIdx' = 0 /\ UNCHANGED <<logCapturing, logAt, logNext>>
      BY <1>5, <2>1 DEF StartToothLog
    <3>2. logAt = "load" => 0 < LogSize
      BY DEF LogInv, LogIsWhole, CrankTypeOK
    <3>3. QED
      BY <1>1, <3>1, <3>2 DEF LogInv, LogIsWhole
  <2>2. CASE postAt = "incomplete"
    <3>1. UNCHANGED <<logIdx, logCapturing, logAt, logNext>>
      BY <1>5, <2>2 DEF StartToothLog
    <3>2. QED
      BY <1>1, <3>1 DEF LogInv, LogIsWhole
  <2>3. CASE postAt = "capturing"
    <3>1. logCapturing' = TRUE /\ UNCHANGED <<logIdx, logAt, logNext>>
      BY <1>5, <2>3 DEF StartToothLog
    <3>2. QED
      BY <1>1, <3>1 DEF LogInv, LogIsWhole
  <2>4. QED
    BY <1>5, <2>1, <2>2, <2>3 DEF StartToothLog
<1>6. QED
  BY <1>2, <1>3, <1>4, <1>5
     DEF CrankNext, Turn, Tooth, NoTooth, Dropout, Noise, ProcessTooth, crankVars, logVars

(* At whatever step of the handler a capture is asked for, and however     *)
(* often, no entry is written outside the log, for every size of it, and   *)
(* a log that is not being captured is full or empty.                      *)
THEOREM LogStaysWhole == CrankSpec => []LogIsWhole
<1>1. CrankInit => LogInv
  BY CrankTypeInit, CrankConstants DEF CrankInit, LogInv, LogIsWhole
<1>2. LogInv /\ [CrankNext]_crankVars => LogInv'
  BY LogStep
<1>3. LogInv => LogIsWhole
  BY DEF LogInv
<1>4. QED
  BY <1>1, <1>2, <1>3, PTL DEF CrankSpec

-------------------------------------------------------------------------------
(* Interrupt, ECU cycle and task together.                                 *)

(* What is assumed of the constants of coils, injectors and task.          *)
LEMMA RtConstants ==
    /\ MaxDwell \in Nat /\ ChargeCap \in Nat /\ UnservedCap \in Nat /\ MaxPoll \in Nat \ {0}
    /\ DeadTime \in Nat /\ OpenCap \in Nat
    /\ ChargeCap <= UnservedCap /\ OpenCap <= UnservedCap
    /\ RevLimits \subseteq Nat /\ Widths \subseteq Nat
    /\ Advance \in Int /\ Cylinders \in Nat \ {0} /\ FullTurn = 2 * TotalTeeth
  BY IgnitionAssumption, InjectionAssumption, RealTimeAssumption

(* Coils and injectors belong to the same cylinders.                       *)
LEMMA InjCylsAreCyls == InjCyls = Cyls
  BY RealTimeAssumption

(* Nothing but the interrupt writes what the decoder keeps.                *)
LEMMA RtStepIsCrankStep ==
    ASSUME [RtNext]_rtVars
    PROVE  [CrankNext]_crankVars
  BY DEF RtNext, CrankTurns, NoiseEdge, CrankStands, EcuCycle, TaskReads, TaskRests, TaskDrives,
         CrankNext, Turn, rtVars, crankVars

(* With the ECU cycle and the task beside it the decoder is the decoder:   *)
(* what is proved of it alone holds of it there.                           *)
THEOREM DecoderUndisturbed == RtSpec => CrankSpec
<1>1. RtInit => CrankInit
  BY DEF RtInit
<1>2. [RtNext]_rtVars => [CrankNext]_crankVars
  BY RtStepIsCrankStep
<1>3. QED
  BY <1>1, <1>2, PTL DEF RtSpec, CrankSpec

(* A coil that is left charging by a round of the task had not been        *)
(* charging for too long.                                                  *)
LEMMA KeptCoil ==
    ASSUME NEW c \in Cyls, NEW rpm, NEW at, NEW seq,
           EventOf(c, rpm, at, seq) = "none", charging[c]
    PROVE  ~(chargedFor[c] > MaxDwell)
  BY DEF EventOf

(* One round of the task at the coils.                                     *)
LEMMA FiredCoils ==
    ASSUME IgnTypeOK, NEW rpm, NEW at, NEW seq, FireCoils(rpm, at, seq)
    PROVE  /\ IgnTypeOK' /\ ~revLimiting'
           /\ \A c \in Cyls : charging'[c] => chargedFor'[c] <= MaxDwell
<1> USE RtConstants
<1>1. /\ revLimiting' = FALSE
      /\ charging' = [c \in Cyls |-> \/ EventOf(c, rpm, at, seq) = "charge"
                                     \/ EventOf(c, rpm, at, seq) = "none" /\ charging[c]]
      /\ chargedFor' = [c \in Cyls |-> IF EventOf(c, rpm, at, seq) = "none" /\ charging[c]
                                       THEN chargedFor[c] ELSE 0]
  BY DEF FireCoils
<1>2. charging' \in [Cyls -> BOOLEAN]
  BY <1>1, Zenon
<1>3. chargedFor' \in [Cyls -> 0 .. ChargeCap]
  BY <1>1 DEF IgnTypeOK
<1>4. ASSUME NEW c \in Cyls, charging'[c] PROVE chargedFor'[c] <= MaxDwell
  <2>1. CASE EventOf(c, rpm, at, seq) = "none" /\ charging[c]
    <3>1. ~(chargedFor[c] > MaxDwell) /\ chargedFor[c] \in Nat
      BY <2>1, KeptCoil DEF IgnTypeOK
    <3>2. QED
      BY <1>1, <2>1, <3>1
  <2>2. CASE ~(EventOf(c, rpm, at, seq) = "none" /\ charging[c])
    BY <1>1, <2>2
  <2>3. QED
    BY <2>1, <2>2
<1>5. QED
  BY <1>1, <1>2, <1>3, <1>4 DEF IgnTypeOK

(* The rev limiter lets go of every coil.                                  *)
LEMMA LimitedCoils ==
    ASSUME IgnTypeOK, NoSparkAboveRevLimit, LimitRevs
    PROVE  IgnTypeOK' /\ \A c \in Cyls : ~charging'[c]
<1> USE RtConstants
<1>1. CASE revLimiting
  BY <1>1 DEF LimitRevs, IgnTypeOK, NoSparkAboveRevLimit
<1>2. CASE ~revLimiting
  <2>1. charging' = [c \in Cyls |-> FALSE] /\ chargedFor' = [c \in Cyls |-> 0] /\ revLimiting' = TRUE
    BY <1>2 DEF LimitRevs
  <2>2. charging' \in [Cyls -> BOOLEAN] /\ \A c \in Cyls : ~charging'[c]
    BY <2>1, Zenon
  <2>3. QED
    BY <2>1, <2>2 DEF IgnTypeOK
<1>3. QED
  BY <1>1, <1>2

(* One round of the task at the injectors.                                 *)
LEMMA ServedInjectors ==
    ASSUME InjTypeOK, NEW pos, NEW seq, NEW n, NEW width \in Nat, UpdateInjection(pos, seq, n, width)
    PROVE  /\ InjTypeOK'
           /\ ~PassedOver(width) => \A c \in InjCyls : injOpen'[c] => openFor'[c] <= scheduled'[c]
<1> USE RtConstants
<1> DEFINE opens == {c \in InjCyls : Opens(c, pos, seq, n, width)}
           since == [c \in InjCyls |-> IF c \in opens THEN 0 ELSE openFor[c]]
           pulse == [c \in InjCyls |-> IF c \in opens THEN PulseAt(width, seq) ELSE scheduled[c]]
           open  == {c \in InjCyls : /\ injOpen[c] \/ c \in opens
                                     /\ PassedOver(width) \/ ~PulseOver(since[c], pulse[c])}
<1>1. /\ injOpen' = [c \in InjCyls |-> c \in open]
      /\ openFor' = [c \in InjCyls |-> IF c \in open THEN since[c] ELSE 0]
      /\ scheduled' = [c \in InjCyls |-> IF c \in open THEN pulse[c] ELSE 0]
  BY DEF UpdateInjection
<1>2. PulseAt(width, seq) \in Nat
  BY DEF PulseAt
<1> HIDE DEF opens
<1>3. since \in [InjCyls -> 0 .. OpenCap]
  BY DEF InjTypeOK
<1>4. pulse \in [InjCyls -> Nat]
  BY <1>2 DEF InjTypeOK
<1>5. ASSUME ~PassedOver(width), NEW c \in open PROVE since[c] <= pulse[c]
  <2>1. ~PulseOver(since[c], pulse[c])
    BY <1>5
  <2>2. since[c] \in Nat /\ pulse[c] \in Nat
    BY <1>3, <1>4
  <2>3. QED
    BY <2>1, <2>2 DEF PulseOver
<1> HIDE DEF since, pulse, open
<1>6. injOpen' \in [InjCyls -> BOOLEAN]
  <2>1. \A c \in InjCyls : (c \in open) \in BOOLEAN
    BY SMT
  <2>2. QED
    BY <1>1, <2>1, Zenon
<1>7. openFor' \in [InjCyls -> 0 .. OpenCap] /\ scheduled' \in [InjCyls -> Nat]
  BY <1>1, <1>3, <1>4
<1>8. ~PassedOver(width) => \A c \in InjCyls : injOpen'[c] => openFor'[c] <= scheduled'[c]
  BY <1>1, <1>5
<1>9. QED
  BY <1>6, <1>7, <1>8 DEF InjTypeOK

(* A slot's worth of time for coils and injectors.                         *)
LEMMA SlotTypes ==
    ASSUME RtTypeOK, SlotPasses
    PROVE  /\ IgnTypeOK' /\ InjTypeOK'
           /\ UNCHANGED <<charging, revLimiting, injOpen, scheduled, ecuSide, taskSide>>
           /\ sincePoll' = sincePoll + 1 /\ sincePoll' \in 0 .. MaxPoll
           /\ unserved' \in 0 .. UnservedCap
<1> USE RtConstants
<1>1. UNCHANGED <<charging, revLimiting, injOpen, scheduled, ecuSide, taskSide>>
  BY DEF SlotPasses
<1>2. IgnTypeOK'
  BY <1>1 DEF RtTypeOK, SlotPasses, IgnTypeOK, ChargeOn
<1>3. InjTypeOK'
  BY <1>1 DEF RtTypeOK, SlotPasses, InjTypeOK, FlowOn
<1>4. sincePoll' = sincePoll + 1 /\ sincePoll' \in 0 .. MaxPoll /\ unserved' \in 0 .. UnservedCap
  BY DEF RtTypeOK, SlotPasses
<1>5. QED
  BY <1>1, <1>2, <1>3, <1>4

(* What the position goes through is a count as well.                      *)
LEMMA MidTypes ==
    ASSUME CrankTypeOK, CrankTypeOK'
    PROVE  PositionOnTheWay \in 0 .. CountCap + 1
<1>1. PICK p \in 0 .. CountCap : toothPosition' = p
  BY DEF CrankTypeOK
<1>2. p \in 0 .. CountCap + 1 /\ toothCount + 1 \in 0 .. CountCap + 1
  BY CrankConstants DEF CrankTypeOK
<1>3. QED
  BY <1>1, <1>2 DEF PositionOnTheWay

(* No step of interrupt, ECU cycle or task leaves the types.               *)
LEMMA RtTypeStep ==
    ASSUME RtTypeOK, NoSparkAboveRevLimit, [RtNext]_rtVars
    PROVE  RtTypeOK'
<1> USE RtConstants, CrankConstants
<1>1. CrankTypeOK'
  BY RtStepIsCrankStep, CrankTypeStep DEF RtTypeOK
<1>2. CASE CrankTurns \/ CrankStands
  <2>1. SlotPasses /\ turning' \in BOOLEAN
    BY <1>2, Zenon DEF CrankTurns, CrankStands, RtTypeOK
  <2>2. midPos' \in 0 .. CountCap + 1
    <3>1. toothPosition \in 0 .. CountCap + 1
      BY DEF RtTypeOK, CrankTypeOK
    <3>2. PositionOnTheWay \in 0 .. CountCap + 1
      BY <1>1, MidTypes DEF RtTypeOK
    <3>3. QED
      BY <1>2, <3>1, <3>2 DEF CrankTurns, CrankStands
  <2>3. QED
    BY <1>1, <2>1, <2>2, SlotTypes DEF RtTypeOK, ecuSide, taskSide
<1>3. CASE NoiseEdge
  BY <1>1, <1>3, MidTypes DEF NoiseEdge, RtTypeOK, IgnTypeOK, InjTypeOK, ignVars, injVars, ecuSide, taskSide
<1>4. CASE EcuCycle
  BY <1>1, <1>4 DEF EcuCycle, RtTypeOK, CrankTypeOK, IgnTypeOK, InjTypeOK, ignVars, injVars, taskSide
<1>5. CASE TaskReads \/ TaskRests
  <2>1. /\ UNCHANGED <<turning, crankVars, midPos, ignVars, injVars, ecuSide, unserved>>
        /\ sincePoll' \in 0 .. MaxPoll
        /\ taskAt' \in {"idle", "sync", "position", "mode", "driving"}
        /\ seenRpm' \in 0 .. 2 * Speed /\ seenPos' \in 0 .. CountCap + 1
    BY <1>5 DEF TaskReads, TaskRests, RtTypeOK, CrankTypeOK
  <2>2. seenSeq' \in BOOLEAN
    BY <1>5, Zenon DEF TaskReads, TaskRests, RtTypeOK
  <2>3. QED
    BY <1>1, <2>1, <2>2 DEF RtTypeOK, IgnTypeOK, InjTypeOK, ignVars, injVars, ecuSide
<1>6. CASE TaskDrives
  <2>1. IgnTypeOK'
    BY <1>6, FiredCoils, LimitedCoils DEF TaskDrives, UpdateIgnition, RtTypeOK
  <2>2. InjTypeOK'
    BY <1>6, ServedInjectors DEF TaskDrives, RtTypeOK
  <2>3. /\ UNCHANGED <<turning, midPos, ecuSide>> /\ taskAt' = "idle" /\ seenRpm' = 0 /\ seenPos' = 0
        /\ sincePoll' = 0 /\ unserved' = 0
    BY <1>6 DEF TaskDrives
  <2>4. seenSeq' \in BOOLEAN
    BY <1>6, Zenon DEF TaskDrives
  <2>5. QED
    BY <1>1, <2>1, <2>2, <2>3, <2>4 DEF RtTypeOK, ecuSide
<1>7. CASE UNCHANGED rtVars
  BY <1>1, <1>7 DEF rtVars, RtTypeOK, IgnTypeOK, InjTypeOK, ignVars, injVars, ecuSide, taskSide
<1>8. QED
  BY <1>2, <1>3, <1>4, <1>5, <1>6, <1>7 DEF RtNext

(* Coils and injectors between two rounds of the task, and in one.         *)
ServedInv ==
    /\ RtTypeOK
    /\ NoSparkAboveRevLimit
    /\ DwellBoundedWhileServed

(* At the start nothing charges and nothing is open.                       *)
LEMMA ServedInit == RtInit => ServedInv /\ PulseBoundedWhileServed
<1> USE RtConstants, CrankConstants
<1>1. SUFFICES ASSUME RtInit PROVE ServedInv /\ PulseBoundedWhileServed
  OBVIOUS
<1>2. /\ charging = [c \in Cyls |-> FALSE] /\ chargedFor = [c \in Cyls |-> 0] /\ ~revLimiting
      /\ injOpen = [c \in InjCyls |-> FALSE] /\ openFor = [c \in InjCyls |-> 0]
      /\ scheduled = [c \in InjCyls |-> 0]
  BY <1>1 DEF RtInit, IgnInit, InjInit
<1>3. /\ charging \in [Cyls -> BOOLEAN] /\ \A c \in Cyls : ~charging[c]
      /\ injOpen \in [InjCyls -> BOOLEAN] /\ \A c \in InjCyls : ~injOpen[c]
      /\ revLimiting \in BOOLEAN /\ turning \in BOOLEAN /\ sequential \in BOOLEAN /\ seenSeq \in BOOLEAN
  BY <1>1, <1>2, Zenon DEF RtInit, IgnInit
<1>4. chargedFor \in [Cyls -> 0 .. ChargeCap] /\ openFor \in [InjCyls -> 0 .. OpenCap]
      /\ scheduled \in [InjCyls -> Nat]
  BY <1>2
<1>5. RtTypeOK
  BY <1>1, <1>3, <1>4, CrankTypeInit DEF RtInit, RtTypeOK, IgnTypeOK, InjTypeOK
<1>6. QED
  BY <1>3, <1>5, InjCylsAreCyls DEF ServedInv, NoSparkAboveRevLimit, DwellBoundedWhileServed, PulseBoundedWhileServed

(* Time adds to every charge at most what it adds to unserved.             *)
LEMMA ServedStep ==
    ASSUME ServedInv, [RtNext]_rtVars
    PROVE  ServedInv'
<1> USE RtConstants
<1>1. RtTypeOK /\ NoSparkAboveRevLimit /\ DwellBoundedWhileServed
  BY DEF ServedInv
<1>2. RtTypeOK'
  BY <1>1, RtTypeStep
<1>3. CASE CrankTurns \/ CrankStands
  <2>1. SlotPasses
    BY <1>3 DEF CrankTurns, CrankStands
  <2>2. charging' = charging /\ revLimiting' = revLimiting
    BY <2>1 DEF SlotPasses
  <2>3. NoSparkAboveRevLimit'
    BY <1>1, <2>2, Zenon DEF NoSparkAboveRevLimit
  <2>4. ASSUME NEW c \in Cyls, charging[c]
        PROVE  chargedFor'[c] <= MaxDwell + unserved'
    BY <1>1, <2>1, <2>4 DEF SlotPasses, ChargeOn, DwellBoundedWhileServed, RtTypeOK, IgnTypeOK
  <2>5. DwellBoundedWhileServed'
    BY <2>2, <2>4 DEF DwellBoundedWhileServed
  <2>6. QED
    BY <1>2, <2>3, <2>5 DEF ServedInv
<1>4. CASE TaskDrives
  <2>1. unserved' = 0 /\ UpdateIgnition(seenRpm, seenPos, seenSeq, revLimit) /\ IgnTypeOK
    BY <1>1, <1>4 DEF TaskDrives, RtTypeOK
  <2>2. CASE seenRpm > revLimit
    <3>1. \A c \in Cyls : ~charging'[c]
      BY <1>1, <2>1, <2>2, LimitedCoils DEF UpdateIgnition
    <3>2. QED
      BY <1>2, <3>1 DEF ServedInv, NoSparkAboveRevLimit, DwellBoundedWhileServed
  <2>3. CASE ~(seenRpm > revLimit)
    <3>1. ~revLimiting' /\ \A c \in Cyls : charging'[c] => chargedFor'[c] <= MaxDwell
      BY <2>1, <2>3, FiredCoils DEF UpdateIgnition
    <3>2. MaxDwell + unserved' = MaxDwell
      BY <2>1
    <3>3. QED
      BY <1>2, <3>1, <3>2 DEF ServedInv, NoSparkAboveRevLimit, DwellBoundedWhileServed
  <2>4. QED
    BY <2>2, <2>3
<1>5. CASE NoiseEdge \/ EcuCycle \/ TaskReads \/ TaskRests \/ UNCHANGED rtVars
  <2>1. UNCHANGED <<charging, chargedFor, revLimiting, unserved>>
    BY <1>5 DEF NoiseEdge, EcuCycle, TaskReads, TaskRests, rtVars, ignVars
  <2>2. QED
    BY <1>1, <1>2, <2>1, Zenon DEF ServedInv, NoSparkAboveRevLimit, DwellBoundedWhileServed
<1>6. QED
  BY <1>3, <1>4, <1>5 DEF RtNext

(* The real-time variables keep their types.                               *)
THEOREM RtTypeCorrect == RtSpec => []RtTypeOK
<1>1. RtInit => ServedInv
  BY ServedInit
<1>2. ServedInv /\ [RtNext]_rtVars => ServedInv'
  BY ServedStep
<1>3. ServedInv => RtTypeOK
  BY DEF ServedInv
<1>4. QED
  BY <1>1, <1>2, <1>3, PTL DEF RtSpec

(* No coil is left charging above the rev limit, however the limit and the *)
(* speed reading change from round to round.                               *)
THEOREM RevLimitReleasesCoils == RtSpec => []NoSparkAboveRevLimit
<1>1. RtInit => ServedInv
  BY ServedInit
<1>2. ServedInv /\ [RtNext]_rtVars => ServedInv'
  BY ServedStep
<1>3. ServedInv => NoSparkAboveRevLimit
  BY DEF ServedInv
<1>4. QED
  BY <1>1, <1>2, <1>3, PTL DEF RtSpec

(* A coil charges for at most the maximum dwell and the time since the     *)
(* task last served it, on every wheel, for every dwell and advance, and   *)
(* whatever position and speed the task has read.                          *)
THEOREM DwellIsBounded == RtSpec => []DwellBoundedWhileServed
<1>1. RtInit => ServedInv
  BY ServedInit
<1>2. ServedInv /\ [RtNext]_rtVars => ServedInv'
  BY ServedStep
<1>3. ServedInv => DwellBoundedWhileServed
  BY DEF ServedInv
<1>4. QED
  BY <1>1, <1>2, <1>3, PTL DEF RtSpec

(* No width the ECU sets leaves an injector with nothing to inject.        *)
NeverPassedOver == \A width \in Widths : ~PassedOver(width)

(* Time adds to every pulse at most what it adds to unserved.              *)
LEMMA PulseStep ==
    ASSUME NeverPassedOver, RtTypeOK, PulseBoundedWhileServed, [RtNext]_rtVars
    PROVE  PulseBoundedWhileServed'
<1> USE RtConstants, InjCylsAreCyls
<1>1. CASE CrankTurns \/ CrankStands
  <2>1. SlotPasses
    BY <1>1 DEF CrankTurns, CrankStands
  <2>2. injOpen' = injOpen /\ scheduled' = scheduled
    BY <2>1 DEF SlotPasses
  <2>3. ASSUME NEW c \in Cyls, injOpen[c]
        PROVE  openFor'[c] <= scheduled[c] + unserved'
    BY <2>1, <2>3 DEF SlotPasses, FlowOn, PulseBoundedWhileServed, RtTypeOK, InjTypeOK
  <2>4. QED
    BY <2>2, <2>3 DEF PulseBoundedWhileServed
<1>2. CASE TaskDrives
  <2>1. unserved' = 0 /\ UpdateInjection(seenPos, seenSeq, Cylinders, pulseWidth)
        /\ InjTypeOK /\ pulseWidth \in Nat /\ ~PassedOver(pulseWidth)
    BY <1>2 DEF TaskDrives, RtTypeOK, NeverPassedOver
  <2>2. InjTypeOK' /\ \A c \in InjCyls : injOpen'[c] => openFor'[c] <= scheduled'[c]
    BY <2>1, ServedInjectors
  <2>3. \A c \in InjCyls : scheduled'[c] \in Nat
    BY <2>2 DEF InjTypeOK
  <2>4. \A c \in InjCyls : scheduled'[c] + unserved' = scheduled'[c]
    BY <2>1, <2>3
  <2>5. QED
    BY <2>2, <2>4 DEF PulseBoundedWhileServed
<1>3. CASE NoiseEdge \/ EcuCycle \/ TaskReads \/ TaskRests \/ UNCHANGED rtVars
  <2>1. UNCHANGED <<injOpen, openFor, scheduled, unserved>>
    BY <1>3 DEF NoiseEdge, EcuCycle, TaskReads, TaskRests, rtVars, injVars
  <2>2. QED
    BY <2>1, Zenon DEF PulseBoundedWhileServed
<1>4. QED
  BY <1>1, <1>2, <1>3 DEF RtNext

(* An injector stays open for at most its pulse and the time since the     *)
(* task last served it, for every width and dead time that do not add up   *)
(* to 0: with nothing to inject, the code passes an open injector over.    *)
THEOREM PulseIsBounded == NeverPassedOver /\ RtSpec => []PulseBoundedWhileServed
<1>1. RtInit => ServedInv /\ PulseBoundedWhileServed
  BY ServedInit
<1>2. ServedInv /\ [RtNext]_rtVars => ServedInv'
  BY ServedStep
<1>3. NeverPassedOver /\ ServedInv /\ PulseBoundedWhileServed /\ [RtNext]_rtVars
        => PulseBoundedWhileServed'
  BY PulseStep DEF ServedInv
<1>4. NeverPassedOver => NeverPassedOver'
  BY DEF NeverPassedOver, PassedOver
<1>5. QED
  BY <1>1, <1>2, <1>3, <1>4, PTL DEF RtSpec

-------------------------------------------------------------------------------
(* Where the sparks come.                                                  *)

(* How many slots the wheel has turned to be at w since it was at tooth p. *)
Lag(w, p) == IF w >= p THEN w - p ELSE w - p + TotalTeeth

(* What the position goes through on its way is itself, or, at the first   *)
(* tooth after the gap, the gap counted as a tooth.                        *)
MidIsTrue ==
    clean > 2 * TotalTeeth /\ syncState = "SYNCED"
      => midPos = toothPosition \/ (midPos = RealTeeth /\ toothPosition = 0)

(* What the task has read is no older than its last round, and was true.   *)
SeenIsRecent ==
    clean > 2 * TotalTeeth + sincePoll =>
      /\ taskAt \in {"position", "mode", "driving"} => syncState = "SYNCED"
      /\ taskAt \in {"mode", "driving"} =>
           seenPos <= RealTeeth /\ Lag(wheel, seenPos) <= sincePoll + Blind(seenPos)

(* The slots the decoder is blind in are a number.                         *)
LEMMA BlindBounds == ASSUME NEW pos PROVE Blind(pos) \in Nat
  BY CrankConstants DEF Blind

(* The wheel gets further away by at most one slot at a time.              *)
LEMMA LagBounds ==
    ASSUME NEW w \in 0 .. TotalTeeth - 1, NEW p \in Nat, p < TotalTeeth
    PROVE  /\ Lag(w, p) \in Nat
           /\ Lag((w + 1) % TotalTeeth, p) <= Lag(w, p) + 1
<1> USE CrankConstants
<1>1. CASE w = TotalTeeth - 1
  <2>1. (w + 1) % TotalTeeth = 0
    BY <1>1
  <2>2. QED
    BY <1>1, <2>1 DEF Lag, RealTeeth
<1>2. CASE w # TotalTeeth - 1
  <2>1. (w + 1) % TotalTeeth = w + 1
    BY <1>2
  <2>2. QED
    BY <2>1 DEF Lag, RealTeeth
<1>3. QED
  BY <1>1, <1>2

(* Two clean revolutions after the last error, sync is kept, and what the  *)
(* position goes through is its old value, one more, or its new value.     *)
LEMMA SyncIsKept ==
    ASSUME GapStandsOut, DecoderInv, [CrankNext]_crankVars, clean' > 2 * TotalTeeth
    PROVE  /\ syncState = "SYNCED" => syncState' = "SYNCED"
           /\ Tooth /\ syncState' = "SYNCED" =>
                \/ PositionOnTheWay = toothPosition'
                \/ PositionOnTheWay = RealTeeth /\ toothPosition' = 0
<1> USE CrankConstants
<1>1. /\ CrankTypeOK /\ HistoryIsTrue /\ QuietIsTrue /\ CountIsTrue
      /\ wheel \in 0 .. TotalTeeth - 1 /\ clean \in Nat
  BY DEF DecoderInv, CrankTypeOK
<1>2. CASE Tooth
  <2>1. clean >= 2 * TotalTeeth
    BY <1>1, <1>2, CleanSlot DEF Tooth
  <2>2. clean >= History + MissingTeeth /\ clean - wheel >= Memory
    BY <1>1, <2>1 DEF GapStandsOut, Memory, RealTeeth
  <2>3. syncState # "LOST" => toothCount = TruePosition
    BY <2>2, <1>1 DEF CountIsTrue
  <2>4. sawTooth
    BY <1>1, <1>2, <2>2, GapRecognised
  <2>5. syncState' = "SYNCED" => syncState # "LOST"
    BY <1>2, <2>4 DEF Tooth, ProcessTooth, Lost, Syncing, Synced
  <2>6. CASE NextSlot = 0
    <3>1. TruePosition + 1 = RealTeeth
      BY <1>1, <2>6, NextSlotFacts DEF TruePosition, RealTeeth
    <3>2. /\ syncState' # "LOST" => toothPosition' = 0
          /\ syncState # "LOST" /\ toothCount + 1 = RealTeeth => syncState' = "SYNCED"
      BY <1>1, <1>2, <2>2, <2>6, ToothCounts
    <3>3. QED
      BY <2>3, <2>4, <2>5, <3>1, <3>2 DEF PositionOnTheWay
  <2>7. CASE NextSlot # 0
    <3>1. /\ syncState' = syncState
          /\ syncState # "LOST" => toothCount' = toothCount + 1 /\ toothPosition' = toothCount'
      BY <1>1, <1>2, <2>2, <2>7, ToothCounts
    <3>2. QED
      BY <2>4, <3>1 DEF PositionOnTheWay
  <2>8. QED
    BY <2>6, <2>7
<1>3. CASE Dropout \/ Noise
  BY <1>3 DEF Dropout, Noise, SensorErrs
<1>4. CASE NoTooth \/ HandlerLogs \/ StartToothLog \/ UNCHANGED crankVars
  <2>1. syncState' = syncState /\ toothPosition' = toothPosition
    BY <1>4 DEF NoTooth, HandlerLogs, StartToothLog, crankVars, decoderVars
  <2>2. Tooth => wheel' = NextSlot /\ HasTooth(NextSlot)
    BY DEF Tooth
  <2>3. CASE ~Tooth
    BY <2>1, <2>3
  <2>4. QED
    BY <1>2, <2>3
<1>5. QED
  BY <1>2, <1>3, <1>4 DEF CrankNext, Turn

(* Only the handler moves the position.                                    *)
LEMMA MidStep ==
    ASSUME GapStandsOut, RtTypeOK, DecoderInv, MidIsTrue, [RtNext]_rtVars
    PROVE  MidIsTrue'
<1> USE CrankConstants
<1>1. [CrankNext]_crankVars
  BY RtStepIsCrankStep
<1>2. SUFFICES ASSUME clean' > 2 * TotalTeeth, syncState' = "SYNCED"
               PROVE  midPos' = toothPosition' \/ (midPos' = RealTeeth /\ toothPosition' = 0)
  BY DEF MidIsTrue, RealTeeth
<1>3. CASE CrankTurns
  <2>1. CASE Tooth /\ midPos' = PositionOnTheWay
    BY <1>1, <1>2, <2>1, SyncIsKept
  <2>2. CASE (NoTooth \/ Dropout) /\ midPos' = toothPosition
    BY <2>2 DEF NoTooth, Dropout, decoderVars
  <2>3. QED
    BY <1>3, <2>1, <2>2 DEF CrankTurns
<1>4. CASE NoiseEdge
  BY <1>2, <1>4 DEF NoiseEdge, Noise, SensorErrs
<1>5. CASE CrankStands
  BY <1>5 DEF CrankStands, crankVars, decoderVars
<1>6. CASE EcuCycle \/ TaskReads \/ TaskRests \/ TaskDrives \/ UNCHANGED rtVars
  <2>1. UNCHANGED <<clean, syncState, toothPosition, midPos>>
    BY <1>6 DEF EcuCycle, TaskReads, TaskRests, TaskDrives, rtVars, crankVars, wheelVars, decoderVars
  <2>2. QED
    BY <1>2, <2>1 DEF MidIsTrue
<1>7. QED
  BY <1>3, <1>4, <1>5, <1>6 DEF RtNext

(* While the task holds a position, the crank turns with the polls.        *)
LEMMA SeenStep ==
    ASSUME GapStandsOut, RtTypeOK, DecoderInv, MidIsTrue, SeenIsRecent, [RtNext]_rtVars
    PROVE  SeenIsRecent'
<1> USE CrankConstants, RtConstants
<1>1. /\ CrankTypeOK /\ seenPos \in Nat /\ clean \in Nat /\ sincePoll \in Nat
      /\ wheel \in 0 .. TotalTeeth - 1
  BY DEF RtTypeOK, CrankTypeOK
<1>2. CASE CrankTurns \/ CrankStands
  <2>1. sincePoll' = sincePoll + 1 /\ UNCHANGED <<taskAt, seenPos>>
    BY <1>2, SlotTypes DEF CrankTurns, CrankStands, taskSide
  <2>2. \/ clean' = clean /\ wheel' = wheel
        \/ clean' <= clean + 1 /\ clean' \in Nat /\ wheel' = NextSlot
    BY <1>1, <1>2, CleanSlot
       DEF CrankTurns, CrankStands, Tooth, NoTooth, Dropout, SensorErrs, crankVars, wheelVars
  <2>3. PICK k \in Nat, w \in Int : clean' = k /\ wheel' = w
    BY <1>1, <2>2, NextSlotFacts
  <2>4. k <= clean + 1 /\ (w = wheel \/ w = (wheel + 1) % TotalTeeth)
    BY <1>1, <2>2, <2>3 DEF NextSlot
  <2>5. SUFFICES ASSUME k > 2 * TotalTeeth + (sincePoll + 1)
                 PROVE  /\ taskAt \in {"position", "mode", "driving"} => syncState' = "SYNCED"
                        /\ taskAt \in {"mode", "driving"} =>
                             /\ seenPos <= RealTeeth
                             /\ Lag(w, seenPos) <= (sincePoll + 1) + Blind(seenPos)
    BY <2>1, <2>3 DEF SeenIsRecent, Blind, RealTeeth
  <2>6. clean > 2 * TotalTeeth + sincePoll /\ clean' > 2 * TotalTeeth
    BY <1>1, <2>3, <2>4, <2>5
  <2>7. taskAt \in {"position", "mode", "driving"} => syncState' = "SYNCED"
    BY <2>6, SyncIsKept, RtStepIsCrankStep DEF SeenIsRecent
  <2>8. ASSUME taskAt \in {"mode", "driving"}
        PROVE  /\ seenPos <= RealTeeth
               /\ Lag(w, seenPos) <= (sincePoll + 1) + Blind(seenPos)
    <3>1. seenPos <= RealTeeth /\ Lag(wheel, seenPos) <= sincePoll + Blind(seenPos)
      BY <2>6, <2>8 DEF SeenIsRecent
    <3>2. seenPos < TotalTeeth
      BY <1>1, <3>1 DEF RealTeeth
    <3>3. Lag(wheel, seenPos) \in Nat /\ Lag((wheel + 1) % TotalTeeth, seenPos) <= Lag(wheel, seenPos) + 1
      BY <1>1, <3>2, LagBounds
    <3>4. w \in 0 .. TotalTeeth - 1
      BY <1>1, <2>4
    <3>5. Lag(w, seenPos) \in Nat
      BY <1>1, <3>2, <3>4, LagBounds
    <3>6. Lag(w, seenPos) <= Lag(wheel, seenPos) + 1
      BY <2>4, <3>3
    <3>7. QED
      BY <1>1, <3>1, <3>3, <3>5, <3>6, BlindBounds
  <2>9. QED
    BY <2>7, <2>8
<1>3. CASE TaskReads
  <2>1. UNCHANGED <<clean, wheel, sincePoll, syncState>>
    BY <1>3 DEF TaskReads, crankVars, wheelVars, decoderVars
  <2>2. CASE taskAt = "idle" \/ taskAt = "sync"
    BY <1>3, <2>1, <2>2 DEF TaskReads, SeenIsRecent
  <2>3. CASE taskAt = "position"
    <3>1. taskAt' = "mode" /\ seenPos' \in {toothPosition, midPos}
      BY <1>3, <2>3 DEF TaskReads
    <3>2. SUFFICES ASSUME clean > 2 * TotalTeeth + sincePoll, NEW pos \in {toothPosition, midPos}
                   PROVE  /\ syncState = "SYNCED" /\ pos <= RealTeeth
                          /\ Lag(wheel, pos) <= sincePoll + Blind(pos)
      BY <2>1, <3>1 DEF SeenIsRecent, Blind, RealTeeth
    <3>3. syncState = "SYNCED" /\ clean > 2 * TotalTeeth
      BY <1>1, <2>3, <3>2 DEF SeenIsRecent
    <3>4. toothPosition = TruePosition
      BY <3>3, DecoderInvImplies DEF PositionIsTrue
    <3>5. pos = TruePosition \/ (pos = RealTeeth /\ wheel = 0)
      BY <1>1, <3>2, <3>3, <3>4 DEF MidIsTrue, TruePosition, RealTeeth
    <3>6. QED
      BY <1>1, <3>3, <3>5 DEF Lag, Blind, TruePosition, RealTeeth
  <2>4. CASE taskAt = "mode"
    <3>1. taskAt' = "driving" /\ UNCHANGED seenPos
      BY <1>3, <2>4 DEF TaskReads
    <3>2. QED
      BY <2>1, <2>4, <3>1 DEF SeenIsRecent, Blind, RealTeeth
  <2>5. QED
    BY <1>3, <2>2, <2>3, <2>4 DEF TaskReads
<1>4. CASE TaskDrives \/ TaskRests
  BY <1>4 DEF TaskDrives, TaskRests, SeenIsRecent
<1>5. CASE NoiseEdge
  <2>1. clean' = 0 /\ sincePoll' = sincePoll
    BY <1>5 DEF NoiseEdge, Noise, SensorErrs
  <2>2. ~(0 > 2 * TotalTeeth + sincePoll)
    BY <1>1
  <2>3. QED
    BY <2>1, <2>2 DEF SeenIsRecent
<1>6. CASE EcuCycle \/ UNCHANGED rtVars
  <2>1. UNCHANGED <<taskAt, seenPos, clean, wheel, sincePoll, syncState>>
    BY <1>6 DEF EcuCycle, rtVars, taskSide, crankVars, wheelVars, decoderVars
  <2>2. QED
    BY <2>1 DEF SeenIsRecent, Blind, RealTeeth
<1>7. QED
  BY <1>2, <1>3, <1>4, <1>5, <1>6 DEF RtNext

(* A spark comes out of a position the task has read, in the window of the *)
(* spark angle; the crank has turned on since.                             *)
LEMMA SparkStep ==
    ASSUME RtTypeOK, SeenIsRecent, NEW c \in Cyls,
           Does(c, "spark"), ~seenSeq, clean > 2 * TotalTeeth + MaxPoll
    PROVE  Past(2 * wheel, SparkAngle(c, FALSE), FALSE) < 3 + 2 * (MaxPoll + Blind(seenPos))
<1> USE CrankConstants, RtConstants
<1>1. /\ taskAt = "driving" /\ seenSeq = FALSE
      /\ seenPos \in Nat /\ clean \in Nat /\ sincePoll \in 0 .. MaxPoll
      /\ wheel \in 0 .. TotalTeeth - 1 /\ c \in Int
  BY DEF RtTypeOK, CrankTypeOK, Does, Cyls
<1>2. PICK a \in Int : SparkAngle(c, FALSE) = a
  BY <1>1, IgnitionAssumption DEF SparkAngle
<1>3. InWindow(2 * seenPos, SparkAngle(c, FALSE), FALSE)
  <2>1. EventOf(c, seenRpm, 2 * seenPos, FALSE) = "spark"
    BY <1>1 DEF Does
  <2>2. QED
    BY <2>1 DEF EventOf
<1>4. (2 * seenPos - a) % FullTurn < 3
  BY <1>2, <1>3 DEF InWindow, Past
<1>5. seenPos < TotalTeeth /\ Lag(wheel, seenPos) <= sincePoll + Blind(seenPos)
  BY <1>1 DEF SeenIsRecent, RealTeeth
<1>6. PICK l \in Nat : Lag(wheel, seenPos) = l
  BY <1>1, <1>5, LagBounds
<1>7. wheel = seenPos + l \/ wheel = seenPos + l - TotalTeeth
  BY <1>1, <1>6 DEF Lag
<1>8. FullTurn \in Nat \ {0} /\ FullTurn = 2 * TotalTeeth
  BY IgnitionAssumption, RealTimeAssumption
<1>9. PICK x \in Int : x = 2 * seenPos - a
  <2>1. 2 * seenPos - a \in Int
    BY <1>1
  <2>2. QED
    BY <2>1
<1>10. 2 * wheel - a = x + 2 * l \/ 2 * wheel - a = x + 2 * l - FullTurn
  BY <1>1, <1>7, <1>8, <1>9
<1>11. (2 * wheel - a) % FullTurn <= (x % FullTurn) + 2 * l
  <2>1. PICK d \in Nat : d = 2 * l
    <3>1. 2 * l \in Nat
      OBVIOUS
    <3>2. QED
      BY <3>1
  <2>2. (x + d) % FullTurn <= (x % FullTurn) + d /\ (x + d - FullTurn) % FullTurn <= (x % FullTurn) + d
    BY <1>8, RemainderOfSum
  <2>3. QED
    BY <1>10, <2>1, <2>2
<1>12. (2 * wheel - a) % FullTurn \in Int /\ x % FullTurn \in Int
  BY <1>1, <1>8
<1>13. (2 * wheel - a) % FullTurn < 3 + 2 * (MaxPoll + Blind(seenPos))
  BY <1>1, <1>4, <1>5, <1>6, <1>9, <1>11, <1>12, BlindBounds
<1>14. QED
  BY <1>2, <1>13 DEF Past

(* A spark comes at the spark angle, on every wheel whose gap stands out,  *)
(* for every advance, dwell and poll time: what the task has read when it  *)
(* fires is old by at most its poll time and the gap the decoder is blind  *)
(* in, once the decoder has forgotten the last sensor error.               *)
THEOREM SparkIsOnTime == GapStandsOut /\ RtSpec => SparkAtSparkAngle
<1> DEFINE Inv == RtTypeOK /\ DecoderInv
           Good == [\A c \in Cyls :
                      Does(c, "spark") /\ ~seenSeq /\ clean > 2 * TotalTeeth + MaxPoll
                        => Past(2 * wheel, SparkAngle(c, FALSE), FALSE)
                             < 3 + 2 * (MaxPoll + Blind(seenPos))]_rtVars
<1>1. RtInit => SeenIsRecent /\ MidIsTrue
  BY CrankConstants DEF RtInit, CrankInit, SeenIsRecent, MidIsTrue
<1>2. GapStandsOut /\ Inv /\ SeenIsRecent /\ MidIsTrue /\ [RtNext]_rtVars
        => SeenIsRecent' /\ MidIsTrue'
  BY SeenStep, MidStep
<1>3. Inv /\ SeenIsRecent => Good
  BY SparkStep
<1>4. GapStandsOut /\ RtSpec => [](RtTypeOK /\ DecoderInv)
  BY RtTypeCorrect, DecoderUndisturbed, DecoderHolds, PTL
<1>5. GapStandsOut => GapStandsOut'
  BY DEF GapStandsOut, RealTeeth
<1>6. QED
  BY <1>1, <1>2, <1>3, <1>4, <1>5, PTL DEF RtSpec, SparkAtSparkAngle

(* A coil is charged and fired in one pass only when the crank turns by    *)
(* less than the window while it charges, or by more than all but it.      *)
LEMMA FlashNeedsOverlap ==
    ASSUME NEW c \in Cyls, NEW rpm \in Nat, NEW at \in Nat, NEW seq \in BOOLEAN,
           EventOf(c, rpm, at, seq) = "flash"
    PROVE  DwellAngle(rpm) \notin 3 .. FullTurn - 3
<1>1. FullTurn \in Nat \ {0} /\ c \in Int /\ (2 * FullTurn) \div Cylinders \in Int
      /\ Advance \in Int
  BY IgnitionAssumption DEF Cyls
<1>2. SUFFICES ASSUME DwellAngle(rpm) \in 3 .. FullTurn - 3 PROVE FALSE
  OBVIOUS
<1>3. PICK d \in 3 .. FullTurn - 3 : DwellAngle(rpm) = d
  BY <1>2
<1>4. PICK x \in Int : x = c * ((2 * FullTurn) \div Cylinders) - Advance
  <2>1. c * ((2 * FullTurn) \div Cylinders) - Advance \in Int
    BY <1>1
  <2>2. QED
    BY <2>1
<1>5. /\ InWindow(at, SparkAngle(c, seq), seq)
      /\ InWindow(at, DwellStartAngle(c, rpm, seq), seq)
  BY DEF EventOf
<1>6. CASE ~seq
  <2>1. PICK a \in 0 .. FullTurn - 1 : a = x % FullTurn
    BY <1>1, RemainderOfSum
  <2>2. PICK k \in Int, b \in 0 .. FullTurn - 1 : a - d = k * FullTurn + b
    <3>1. a - d \in Int
      BY <1>1
    <3>2. \A y \in Int : \E m \in Int, z \in 0 .. FullTurn - 1 : y = m * FullTurn + z
      BY <1>1, Division
    <3>3. QED
      BY <3>1, <3>2
  <2>3. (a - d) % FullTurn = b
    BY <1>1, <2>2, RemainderIs
  <2>4. PICK q \in Int, r \in 0 .. FullTurn - 1 : at - a = q * FullTurn + r
    <3>1. at - a \in Int
      BY <1>1
    <3>2. \A y \in Int : \E m \in Int, z \in 0 .. FullTurn - 1 : y = m * FullTurn + z
      BY <1>1, Division
    <3>3. QED
      BY <3>1, <3>2
  <2>5. (at - a) % FullTurn = r
    BY <1>1, <2>4, RemainderIs
  <2>6. SparkAngle(c, seq) = a /\ DwellStartAngle(c, rpm, seq) = b
    BY <1>3, <1>4, <1>6, <2>1, <2>3 DEF SparkAngle, DwellStartAngle
  <2>7. r < 3 /\ (at - b) % FullTurn < 3
    BY <1>5, <1>6, <2>5, <2>6 DEF InWindow, Past
  <2>8. r + d \in 0 .. FullTurn - 1
    BY <1>1, <2>7
  <2>9. ((q + k) * FullTurn + (r + d)) % FullTurn = r + d
    BY <1>1, <2>8, RemainderIs
  <2>10. (q + k) * FullTurn = q * FullTurn + k * FullTurn
    BY <1>1
  <2>11. at - b = (q + k) * FullTurn + (r + d)
    BY <1>1, <2>2, <2>4, <2>10
  <2>12. QED
    BY <2>7, <2>8, <2>9, <2>11
<1>7. CASE seq
  <2> PICK g \in Nat \ {0} : g = 2 * FullTurn
    <3>1. 2 * FullTurn \in Nat \ {0}
      BY <1>1
    <3>2. QED
      BY <3>1
  <2>1. PICK a \in 0 .. g - 1 : a = x % g
    BY RemainderOfSum
  <2>2. PICK b \in Int : b = (a - d) % g
    <3>1. a - d \in Int
      BY <1>1
    <3>2. \A y \in Int : y % g \in Int
      BY RemainderOfSum
    <3>3. QED
      BY <3>1, <3>2
  <2>3. a >= d => b = a - d
    <3>1. ASSUME a >= d PROVE (0 * g + (a - d)) % g = a - d
      BY <1>1, <3>1, RemainderIs
    <3>2. QED
      BY <1>1, <2>2, <3>1
  <2>4. a < d => b = a - d + g
    <3>1. ASSUME a < d
          PROVE  ((-1) * g + (a - d + g)) % g
                    = a - d + g
      BY <1>1, <3>1, RemainderIs
    <3>2. QED
      BY <1>1, <2>2, <3>1
  <2>5. SparkAngle(c, seq) = a /\ DwellStartAngle(c, rpm, seq) = b
    BY <1>3, <1>4, <1>7, <2>1, <2>2 DEF SparkAngle, DwellStartAngle
  <2>6. Past(at, a, TRUE) < 3 /\ Past(at, b, TRUE) < 3
    BY <1>5, <1>7, <2>5 DEF InWindow
  <2>7. QED
    BY <1>1, <2>3, <2>4, <2>6 DEF Past
<1>8. QED
  BY <1>6, <1>7

(* A coil is charged and fired in one pass only at a speed at which the    *)
(* crank turns by less than the window in the dwell time (below about 830  *)
(* rpm in the code, for a dwell of 3 ms), or comes within the window of a  *)
(* whole turn; and at no other, at whatever position, in whatever mode and *)
(* however old or mixed what the task has read is.                         *)
THEOREM FlashNeedsShortDwell == RtSpec => FlashOnlyOnOverlap
<1> DEFINE Good == [\A c \in Cyls : Does(c, "flash") => DwellAngle(seenRpm) \notin 3 .. FullTurn - 3]_rtVars
<1>1. RtTypeOK => Good
  <2>1. SUFFICES ASSUME RtTypeOK, NEW c \in Cyls, Does(c, "flash")
                 PROVE  DwellAngle(seenRpm) \notin 3 .. FullTurn - 3
    OBVIOUS
  <2>2. /\ seenRpm \in Nat /\ 2 * seenPos \in Nat /\ seenSeq \in BOOLEAN
        /\ EventOf(c, seenRpm, 2 * seenPos, seenSeq) = "flash"
    BY <2>1, CrankConstants DEF Does, RtTypeOK
  <2>3. QED
    BY <2>2, FlashNeedsOverlap
<1>2. QED
  BY <1>1, RtTypeCorrect, PTL DEF FlashOnlyOnOverlap

===============================================================================
