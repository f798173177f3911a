--------------------------------- MODULE Fuel ----------------------------------
(***************************************************************************)
(* What FuelManager::update decides in an ECU cycle: cranking fuel, the    *)
(* after-start enrichment (ASE), whether the O2 closed loop corrects the   *)
(* pulse width, and the cut of fuel on overrun (DFCO).  The widths, the    *)
(* table lookups, warm-up and acceleration enrichment are arithmetic and   *)
(* left out: a pulse is "cranking", "running" or "cut".                    *)
(***************************************************************************)
EXTENDS Millis

CONSTANTS
    AseMs,          \* _aseDurationMs
    DfcoDelayMs,    \* _dfcoEntryDelayMs
    MaxGap          \* the longest time between two ECU cycles

ASSUME FuelAssumption == {AseMs, DfcoDelayMs, MaxGap} \subseteq Time /\ AseMs + MaxGap <= Wrap

VARIABLES
    wasCranking,    \* _wasCranking
    ase,            \* _aseActive, and _aseStartMs while it is
    dfco,           \* _dfcoActive, _dfcoEntryStart (0 if not running)
    pulse,          \* what state.injPulseWidthUs is for
    corrected,      \* the closed loop has corrected it in this cycle
    \* what has really happened, for the properties
    overrun,        \* how long there has been overrun, up to DfcoDelayMs: the cycles
                    \* (but those that found the engine cranking) have all met the
                    \* condition to cut fuel or, once DFCO was active, none has met
                    \* that to end the cut; NoOverrun if there is none
    sinceRun        \* how long the engine has run, up to AseMs + MaxGap

fuelVars == <<wasCranking, ase, dfco, pulse, corrected, overrun, sinceRun>>

NoOverrun == -1
NoAse == [active |-> FALSE, start |-> 0]

(* A reading of the engine: what it does; whether rpm and throttle meet the *)
(* condition to cut fuel, and that to end a cut (which the settings do not  *)
(* keep apart); whether the closed loop's window holds them; whether it is  *)
(* cold enough for ASE.                                                     *)
Reading == { e \in [engine : {"stopped", "cranking", "running"},
                    enterCut : BOOLEAN, leaveCut : BOOLEAN, window : BOOLEAN, cold : BOOLEAN] :
               e.engine # "running" => ~e.enterCut /\ e.leaveCut /\ ~e.window }

FuelTypeOK ==
    /\ wasCranking \in BOOLEAN /\ corrected \in BOOLEAN
    /\ ase \in [active : BOOLEAN, start : Time]
    /\ dfco \in [active : BOOLEAN, start : Time]
    /\ pulse \in {"cranking", "running", "cut"}
    /\ overrun \in {NoOverrun} \cup 0 .. DfcoDelayMs
    /\ sinceRun \in 0 .. AseMs + MaxGap

FuelInit ==
    /\ wasCranking = FALSE /\ corrected = FALSE
    /\ ase = NoAse /\ dfco = [active |-> FALSE, start |-> 0]
    /\ pulse = "running"
    /\ overrun = NoOverrun /\ sinceRun = 0

-------------------------------------------------------------------------------
(* Cranking: ASE is called off, DFCO left as it is. *)
CrankingFuel ==
    /\ wasCranking' = TRUE
    /\ ase' = NoAse
    /\ pulse' = "cranking" /\ corrected' = FALSE
    /\ UNCHANGED dfco

(* A mutant: a warm start leaves the flag up. *)
StartsAse(e) == wasCranking /\ e.engine = "running"
EndCrankingIfCold(e) == wasCranking' = (wasCranking /\ ~(StartsAse(e) /\ e.cold))

EndCranking(e) == wasCranking' = (wasCranking /\ ~StartsAse(e))

(* ASE begins with the first running cycle after cranking, on a cold       *)
(* engine, and decays to its end.                                          *)
UpdateAse(t, e) ==
    LET begun == IF StartsAse(e) /\ e.cold THEN [active |-> TRUE, start |-> t] ELSE ase
    IN  ase' = IF begun.active /\ Elapsed(t, begun.start) < AseMs THEN begun ELSE NoAse

(* A mutant: the entry delay is not begun again when the overrun ends. *)
UpdateDfcoKeepingDelay(t, e) ==
    LET start == IF dfco.start = 0 THEN t ELSE dfco.start
    IN  dfco' = IF dfco.active /\ e.leaveCut THEN [active |-> FALSE, start |-> 0]
                ELSE IF dfco.active \/ ~e.enterCut THEN dfco
                ELSE [active |-> Elapsed(t, start) >= DfcoDelayMs, start |-> start]

(* DFCO.  A start of 0 is none: a delay that begins when millis() is 0     *)
(* begins again.                                                           *)
UpdateDfco(t, e) ==
    LET start == IF dfco.start = 0 THEN t ELSE dfco.start
    IN  dfco' = IF IF dfco.active THEN e.leaveCut ELSE ~e.enterCut
                THEN [active |-> FALSE, start |-> 0]
                ELSE IF dfco.active THEN dfco
                ELSE [active |-> Elapsed(t, start) >= DfcoDelayMs, start |-> start]

(* Fuel is cut from the cycle after DFCO has become active. *)
RunningFuel(t, e) ==
    /\ EndCranking(e)
    /\ UpdateAse(t, e)
    /\ UpdateDfco(t, e)
    /\ pulse' = IF dfco.active /\ ~e.leaveCut THEN "cut" ELSE "running"
    /\ corrected' = e.window

(* FuelManager::update in a cycle at time t, d after the one before. *)
UpdateFuel(t, d, e) ==
    /\ IF e.engine = "cranking" THEN CrankingFuel ELSE RunningFuel(t, e)
    /\ overrun' = IF e.engine = "cranking"
                  THEN IF overrun = NoOverrun THEN NoOverrun ELSE Least(overrun + d, DfcoDelayMs)
                  ELSE IF IF dfco.active THEN e.leaveCut ELSE ~e.enterCut THEN NoOverrun
                  ELSE IF overrun = NoOverrun THEN 0 ELSE Least(overrun + d, DfcoDelayMs)
    /\ sinceRun' = IF e.engine = "running" THEN Least(sinceRun + d, AseMs + MaxGap) ELSE 0
===============================================================================
