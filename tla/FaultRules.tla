------------------------------ MODULE FaultRules ------------------------------
(***************************************************************************)
(* The fault rules of SensorManager.  Every ECU cycle evaluates each rule  *)
(* on the value its sensor has just been given.  A rule that stays         *)
(* triggered for its debounce time sets its bit in the limp or in the CEL  *)
(* mask; the masks are rebuilt from nothing each cycle, so a bit lives     *)
(* only as long as its rule keeps confirming it.                           *)
(*                                                                         *)
(* The web server's task rewrites rules and switches sensors off and on    *)
(* while the cycle runs, without a lock (POST /config).                    *)
(*                                                                         *)
(* The sensor value is abstracted to the question the rule asks of it:     *)
(* does it trigger?  The comparison operators, the threshold curve and the *)
(* settle guard (a value too near 0 counts as "does not trigger") are      *)
(* behind that answer, which the environment gives anew each cycle.        *)
(***************************************************************************)
EXTENDS Millis

CONSTANTS
    Rules,      \* the rules in use (_rules[], faultBit # 0xFF)
    Rule,       \* Rule[r]: the configuration record of rule r
    Edited,     \* the rules users rewrite, or switch the sensor of, meanwhile
    HoldCap     \* HoldCap[r]: bound of the history variable heldFor[r]

RunStates == {"off", "cranking", "running"}

RuleConfig ==
    [ bit            : Nat,
      action         : {"none", "limp", "shutdown", "cel"},
      debounceMs     : Nat,
      requireRunning : BOOLEAN,
      gateRpmMin     : Nat,               \* 0: no gate
      gateRpmMax     : Nat,               \* 0: no gate
      activeStates   : SUBSET RunStates,  \* the sensor's activeStates
      zeroTriggers   : BOOLEAN ]          \* would the value 0 trigger the rule?

ASSUME RulesAssumption ==
    /\ Rule \in [Rules -> RuleConfig]
    /\ HoldCap \in [Rules -> Nat]
    /\ Edited \subseteq Rules
    /\ \A r \in Rules : Rule[r].debounceMs <= HoldCap[r]

VARIABLES
    debounceStart,     \* FaultRule::debounceStart, 0: not running
    ruleActive,        \* FaultRule::active
    sensorLimpFaults,  \* SensorManager::_limpFaults, as a set of bits
    sensorCelFaults,   \* SensorManager::_celFaults
    skipped,           \* the rules passed over: sensor disabled, or no such slot
    heldFor,           \* history: for how long r has been triggering in every cycle
    seenFor            \* history: the same, but cycles that passed r over do not count

rulesVars == <<debounceStart, ruleActive, sensorLimpFaults, sensorCelFaults, skipped,
               heldFor, seenFor>>

Bits == { Rule[r].bit : r \in Rules }

NotHeld == -1        \* heldFor[r], seenFor[r] when r did not trigger when last looked at
Mixed == -2          \* seenFor[r] once r was evaluated in the middle of a rewrite

RulesTypeOK ==
    /\ debounceStart \in [Rules -> Time]
    /\ ruleActive \in [Rules -> BOOLEAN]
    /\ sensorLimpFaults \subseteq Bits
    /\ sensorCelFaults \subseteq Bits
    /\ skipped \subseteq Rules
    /\ heldFor \in [Rules -> Int] /\ seenFor \in [Rules -> Int]
    /\ \A r \in Rules : /\ heldFor[r] \in NotHeld .. HoldCap[r]
                      /\ seenFor[r] \in Mixed .. Rule[r].debounceMs

RulesInit ==
    /\ debounceStart = [r \in Rules |-> 0]
    /\ ruleActive = [r \in Rules |-> FALSE]
    /\ sensorLimpFaults = {}
    /\ sensorCelFaults = {}
    /\ skipped = {}
    /\ heldFor = [r \in Rules |-> NotHeld]
    /\ seenFor = [r \in Rules |-> NotHeld]

-------------------------------------------------------------------------------
(* curState of SensorManager::update, from the EngineState the previous    *)
(* cycle left behind.                                                      *)
RunState(rpm) ==
    CASE rpm >= 400 -> "running"
      [] rpm > 0 /\ rpm < 400 -> "cranking"
      [] OTHER -> "off"

(* The gates in front of the comparison; rpm is the previous cycle's. *)
GateOpen(r, rpm) ==
    /\ Rule[r].requireRunning => rpm >= 400
    /\ Rule[r].gateRpmMin > 0 => rpm >= Rule[r].gateRpmMin
    /\ Rule[r].gateRpmMax > 0 => rpm <= Rule[r].gateRpmMax

(* A sensor outside its activeStates is given the value 0 and its rule is  *)
(* evaluated all the same: what the rule sees is then zeroTriggers.        *)
Reads(r, rpm) == RunState(rpm) \in Rule[r].activeStates

MayTrigger(rs, rpm)  == { r \in rs : GateOpen(r, rpm) /\ (Reads(r, rpm) \/ Rule[r].zeroTriggers) }
MustTrigger(rs, rpm) == { r \in MayTrigger(rs, rpm) : ~Reads(r, rpm) }

(* The sets of the rules in rs that may trigger together: any readings are *)
(* possible.                                                               *)
TriggerSets(rs, rpm) == { MustTrigger(rs, rpm) \cup s : s \in SUBSET MayTrigger(rs, rpm) }

(* A triggered rule sets its bit at once when it has no debounce, and      *)
(* otherwise when its debounce timer, already started, has run out.        *)
Confirmed(r, t) ==
    \/ Rule[r].debounceMs = 0
    \/ debounceStart[r] # 0 /\ Elapsed(t, debounceStart[r]) >= Rule[r].debounceMs

BitsOf(rs, actions) == { Rule[r].bit : r \in { q \in rs : Rule[q].action \in actions } }

(* Mutants: the timer survives a cycle that does not trigger; the timer    *)
(* is set on every cycle that does.                                        *)
DebounceStartKept(r, t, on) ==
    IF r \in on /\ Rule[r].debounceMs > 0 /\ debounceStart[r] = 0 THEN t ELSE debounceStart[r]

DebounceStartRenewed(r, t, on) == IF r \in on /\ Rule[r].debounceMs > 0 THEN t ELSE 0

DebounceStartAfter(r, t, on) ==
    IF r \notin on THEN 0
    ELSE IF Rule[r].debounceMs > 0 /\ debounceStart[r] = 0 THEN t ELSE debounceStart[r]

(* One rule at most is being rewritten, field by field, when a cycle comes. *)
(* What it is to that evaluation may raise no fault, or one with any of the *)
(* actions in use, debounced or not: mix, a function of that rule.          *)
Outcomes == {"none"} \cup { Rule[r].action : r \in Rules }

Mixes == { [r \in edited |-> a] : edited \in {{}} \cup { {r} : r \in Edited }, a \in Outcomes }

(* SensorManager::evaluateRules at time t.  It passes over the rules in    *)
(* `skipped' and leaves them as they are.  Of the others those in `on'     *)
(* trigger; mix is of the rule that is being rewritten, if there is one    *)
(* (MixLeaves says what becomes of that).                                  *)
EvaluateRules(t, on, mix) ==
    LET raised == { r \in on : Confirmed(r, t) }
        passed == skipped \cup DOMAIN mix
        MixedBits(actions) == { Rule[r].bit : r \in { q \in DOMAIN mix : mix[q] \in actions } }
    IN  /\ debounceStart' = [r \in Rules |-> IF r \in passed THEN debounceStart[r]
                                             ELSE DebounceStartAfter(r, t, on)]
        /\ ruleActive' = [r \in Rules |-> IF r \in passed THEN ruleActive[r]
                                          ELSE r \in raised \/ (r \in on /\ ruleActive[r])]
        /\ sensorLimpFaults' = BitsOf(raised, {"limp", "shutdown"}) \cup MixedBits({"limp", "shutdown"})
        /\ sensorCelFaults' = BitsOf(raised, {"cel"}) \cup MixedBits({"cel"})
        /\ UNCHANGED skipped

(* One more cycle in a row that triggered, ending `step' after the         *)
(* previous one and `work' after its own evaluation.                       *)
Longer(held, step, work, cap) == Least(cap, IF held = NotHeld THEN work ELSE held + step)

(* History: for how long r has been triggering, seen from the end of a     *)
(* cycle; heldFor starts over when a cycle passes r over, seenFor does not.*)
TrackHeld(step, work, on, mix) ==
    /\ heldFor' = [r \in Rules |-> IF r \in on THEN Longer(heldFor[r], step, work, HoldCap[r]) ELSE NotHeld]
    /\ seenFor' = [r \in Rules |->
          IF r \in DOMAIN mix THEN Mixed
          ELSE IF r \notin on \cup skipped THEN NotHeld
          ELSE IF seenFor[r] = Mixed \/ (r \in skipped /\ seenFor[r] = NotHeld) THEN seenFor[r]
          ELSE Longer(seenFor[r], step, work, Rule[r].debounceMs)]

(* The end of a rewrite by POST /config that no evaluation met: the        *)
(* runtime state of the rule starts over.                                  *)
ResetRule(r) ==
    /\ debounceStart' = [debounceStart EXCEPT ![r] = 0]
    /\ ruleActive' = [ruleActive EXCEPT ![r] = FALSE]
    /\ heldFor' = [heldFor EXCEPT ![r] = NotHeld]
    /\ seenFor' = [seenFor EXCEPT ![r] = NotHeld]
    /\ UNCHANGED <<sensorLimpFaults, sensorCelFaults, skipped>>

(* A rule that was evaluated in the middle of a rewrite: the stores of the *)
(* evaluation, which has read the clock up to lag ago, and those of the    *)
(* reset leave it in any state.                                            *)
MixLeaves(r, t, lag) ==
    /\ seenFor[r] = Mixed
    /\ \E start \in {0} \cup { Earlier(t, d) : d \in 0 .. lag }, on \in BOOLEAN :
          /\ debounceStart' = [debounceStart EXCEPT ![r] = start]
          /\ ruleActive' = [ruleActive EXCEPT ![r] = on]
    /\ heldFor' = [heldFor EXCEPT ![r] = NotHeld]
    /\ UNCHANGED <<sensorLimpFaults, sensorCelFaults, skipped, seenFor>>

(* POST /config switching the sensor of a rule off, or on again: the rule  *)
(* is not touched.                                                         *)
SwitchSource(r) ==
    /\ skipped' = IF r \in skipped THEN skipped \ {r} ELSE skipped \cup {r}
    /\ UNCHANGED <<debounceStart, ruleActive, sensorLimpFaults, sensorCelFaults, heldFor, seenFor>>
===============================================================================
