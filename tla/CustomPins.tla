------------------------------ MODULE CustomPins -------------------------------
(***************************************************************************)
(* The outputs a user defines on the pins page, CustomPinManager: slots    *)
(* that hold a pin, and rules that switch the pin of a slot when a         *)
(* measured value meets a condition.  Every ECU cycle evaluates the rules  *)
(* (update, evaluateRule, setOutput).  The web server's task replaces the  *)
(* whole layout (POST /custom-pins: stop, clear, fill, begin, save) and    *)
(* sets outputs by hand (POST /custom-pins/output).  A restart loads the   *)
(* layout from the SD card.  The pins are on one port expander; the two    *)
(* tasks share nothing but memory, without a lock: the rules the cycle     *)
(* evaluates are the ones a post clears and fills, field by field.         *)
(*                                                                         *)
(* Only outputs are modelled: the slots of inputs (SharedInterrupt has     *)
(* those) and PWM are left out.  What a rule finds when it is evaluated is *)
(* an input: the engine does not run and the rule requires it; there is    *)
(* nothing to go by, because the source is NaN or a gate on rpm or MAP is  *)
(* closed; or its condition, hysteresis included, is met or is not.        *)
(***************************************************************************)
EXTENDS Millis, PinExpander, FiniteSets

CONSTANTS
    LastSlot,       \* MAX_CUSTOM_PINS - 1
    LastRule,       \* MAX_OUTPUT_RULES - 1
    Layouts,        \* the layouts users post
    MaxPeriod,      \* the longest time between two cycles
    MaxEvents       \* the bound on posts, manual switches and restarts together

Slots == 0 .. LastSlot
Rules == 0 .. LastRule

NoPin == "no pin"
NoRule == [enabled |-> FALSE]

(* OutputRule; its condition is abstracted. *)
Rule == [enabled : {TRUE}, targetPin : Slots, onValue : BOOLEAN, offValue : BOOLEAN,
         debounceMs : Time, requireRunning : BOOLEAN]

Layout == [pins : [Slots -> Pins \cup {NoPin}], rules : [Rules -> Rule \cup {NoRule}]]

NoLayout == [pins |-> [s \in Slots |-> NoPin], rules |-> [r \in Rules |-> NoRule]]

ASSUME CustomPinsAssumption ==
    /\ LastSlot \in Nat /\ LastRule \in Nat /\ MaxEvents \in Nat
    /\ MaxPeriod \in 1 .. Wrap - 1
    /\ Tasks = {"loop", "web"}
    /\ NoPin \notin Pins
    /\ Layouts \subseteq Layout

VARIABLES
    now,            \* millis()
    pins, rules,    \* _pins[].pin and _rules: the layout in memory
    initialized,    \* the slots that have `initialized' set
    active,         \* the rules that have `active' set
    debounceStart,  \* of each rule; 0 when no debounce runs
    at,             \* the rule the ECU cycle is at; LastRule + 1 between cycles
    torn,           \* empty, unless its evaluation has begun and a post has written
                    \* to it since: the debounceMs it has had meanwhile
    out,            \* the call of setOutput evaluateRule is about to make: slot, level
    web,            \* what the web server's task is doing
    filling,        \* the rule it is at, clearing or filling the rules
    posted,         \* the layout it received last
    file,           \* what /custom-pins.json holds
    events,         \* how many user events there have been (up to MaxEvents)
    \* what has really happened, for the properties
    astray,         \* the pins last commanded by something other than their rule
    streak          \* for each rule, how long its evaluations have wanted it
                    \* switched; NoStreak when the last one did not, and Mixed
                    \* when its debounce was begun by one that met a post

ruleVars == <<active, debounceStart, streak>>
layoutVars == <<pins, rules, initialized>>
webVars == <<web, filling, posted, file, events>>
pinVars == <<now, chipVars, layoutVars, ruleVars, at, out, torn, webVars, astray>>

NoCallOut == <<>>
NoStreak == -1
Mixed == -2
EndOfCycle == LastRule + 1

CustomPinsTypeOK ==
    /\ ExpanderTypeOK
    /\ now \in Time
    /\ [pins |-> pins, rules |-> rules] \in Layout
    /\ {posted, file} \subseteq Layout
    /\ initialized \subseteq Slots /\ active \subseteq Rules
    /\ debounceStart \in [Rules -> Time] /\ streak \in [Rules -> {NoStreak, Mixed} \cup Time]
    /\ at \in 0 .. EndOfCycle /\ out \in {NoCallOut} \cup (Slots \X BOOLEAN)
    /\ torn \subseteq Time /\ filling \in Rules
    /\ web \in {"idle", "clear", "rules", "begin", "init", "write", "manual"}
    /\ events \in 0 .. MaxEvents /\ astray \subseteq Pins

(* The n-th, from 0, of a set of numbers. *)
Nth(n, S) == CHOOSE x \in S : Cardinality({ y \in S : y < x }) = n

(* saveCustomPins writes the pins and the rules one after the other,        *)
(* without their slots, and skips those not in use; loadCustomPins numbers  *)
(* them from 0 as they come.                                                *)
Loaded(layout) ==
    LET usedPins == { s \in Slots : layout.pins[s] # NoPin }
        usedRules == { r \in Rules : layout.rules[r] # NoRule }
    IN  [pins |-> [s \in Slots |-> IF s < Cardinality(usedPins)
                                   THEN layout.pins[Nth(s, usedPins)] ELSE NoPin],
         rules |-> [r \in Rules |-> IF r < Cardinality(usedRules)
                                    THEN layout.rules[Nth(r, usedRules)] ELSE NoRule]]

(* The pins whose rule, with these rules active, wants them high: begin()   *)
(* drives them low all the same.                                            *)
WantedHigh(layout, on) ==
    { layout.pins[layout.rules[r].targetPin] :
        r \in { q \in Rules : /\ layout.rules[q].enabled
                              /\ IF q \in on THEN layout.rules[q].onValue
                                             ELSE layout.rules[q].offValue } } \cap Pins

(* setup(): the layout is loaded and every pin in use initialised. *)
Setup(layout) ==
    /\ pins' = layout.pins /\ rules' = layout.rules
    /\ initialized' = { s \in Slots : layout.pins[s] # NoPin }
    /\ active' = {} /\ debounceStart' = [r \in Rules |-> 0]
    /\ streak' = [r \in Rules |-> NoStreak]
    /\ at' = EndOfCycle /\ out' = NoCallOut /\ torn' = {}
    /\ web' = "idle" /\ filling' = 0
    /\ astray' = WantedHigh(layout, {})
    /\ ExpanderBegin

PinsInit ==
    /\ now = 0 /\ events = 0
    /\ shadow = {} /\ olat = {} /\ wanted = {} /\ clash = {} /\ op = [t \in Tasks |-> NoCall]
    /\ pins = NoLayout.pins /\ rules = NoLayout.rules /\ initialized = {}
    /\ active = {} /\ debounceStart = [r \in Rules |-> 0] /\ streak = [r \in Rules |-> NoStreak]
    /\ at = EndOfCycle /\ out = NoCallOut /\ torn = {}
    /\ web = "idle" /\ filling = 0 /\ posted = NoLayout /\ file = NoLayout
    /\ astray = {}

-------------------------------------------------------------------------------
(* The ECU cycle: update() evaluates the rules in order.                   *)
LoopIdle == at = EndOfCycle /\ out = NoCallOut /\ ~Writing("loop")

Evaluating(r) ==
    at = r /\ out = NoCallOut /\ ~Writing("loop")

(* The scheduler calls update() again, after d units of time. *)
BeginCycle(d) ==
    /\ LoopIdle
    /\ now' = Later(now, d)
    /\ streak' = [r \in Rules |-> IF streak[r] \in {NoStreak, Mixed} \/ ~rules[r].enabled
                                  THEN streak[r] ELSE Least(streak[r] + d, rules[r].debounceMs)]
    /\ at' = 0
    /\ UNCHANGED <<chipVars, layoutVars, active, debounceStart, out, torn, webVars, astray>>

Verdicts == {"stopped", "none", "met", "unmet"}

(* The condition is evaluated, and says something else than `active', or   *)
(* the same.                                                               *)
Differs(r, verdict) == verdict = (IF r \in active THEN "unmet" ELSE "met")
Agrees(r, verdict) == verdict = (IF r \in active THEN "met" ELSE "unmet")

(* A post is halfway. *)
Replacing == {"clear", "rules", "begin", "init"}

(* `active' is turned, and setOutput is about to be called with the value  *)
(* that goes with it.                                                      *)
Turn(r) ==
    LET on == r \notin active
    IN  /\ active' = IF on THEN active \cup {r} ELSE active \ {r}
        /\ out' = <<rules[r].targetPin, IF on THEN rules[r].onValue ELSE rules[r].offValue>>
        /\ astray' = IF web \in Replacing THEN Pins
                      ELSE astray \ {pins[rules[r].targetPin]}
        /\ streak' = [streak EXCEPT ![r] = IF @ = Mixed /\ debounceStart'[r] # 0 THEN Mixed ELSE NoStreak]

(* evaluateRule goes on to the next rule. *)
RuleStep(r) ==
    /\ Evaluating(r)
    /\ at' = r + 1 /\ torn' = {}
    /\ UNCHANGED <<now, chipVars, layoutVars, webVars>>

(* A mutant: the rule is released, the output left as it is. *)
ReleaseQuietly(r) ==
    /\ RuleStep(r)
    /\ rules[r].enabled /\ rules[r].requireRunning /\ r \in active
    /\ active' = active \ {r}
    /\ UNCHANGED <<debounceStart, streak, out, astray>>

(* The engine has stopped: the output is released, without debounce. *)
ReleaseStopped(r) ==
    /\ RuleStep(r)
    /\ rules[r].enabled /\ rules[r].requireRunning /\ r \in active
    /\ UNCHANGED debounceStart
    /\ Turn(r)

(* The rule is not in use, or is released, or has nothing to go by. *)
LeaveAlone(r, verdict) ==
    /\ RuleStep(r)
    /\ rules[r].enabled => \/ verdict = "stopped" /\ rules[r].requireRunning /\ r \notin active
                           \/ verdict = "none"
    /\ UNCHANGED <<ruleVars, out, astray>>

(* A mutant: a debounce that has begun is not broken off. *)
AgreeKeepsDebounce(r, verdict) ==
    /\ RuleStep(r)
    /\ rules[r].enabled /\ Agrees(r, verdict)
    /\ streak' = [streak EXCEPT ![r] = NoStreak]
    /\ UNCHANGED <<debounceStart, active, out, astray>>

Agree(r, verdict) ==
    /\ RuleStep(r)
    /\ rules[r].enabled /\ Agrees(r, verdict)
    /\ debounceStart' = [debounceStart EXCEPT ![r] = 0]
    /\ streak' = [streak EXCEPT ![r] = NoStreak]
    /\ UNCHANGED <<active, out, astray>>

(* A mutant: the debounce begins again at every evaluation. *)
RestartDebounce(r, verdict) ==
    /\ RuleStep(r)
    /\ rules[r].enabled /\ Differs(r, verdict) /\ rules[r].debounceMs > 0
    /\ debounceStart' = [debounceStart EXCEPT ![r] = now]
    /\ streak' = [streak EXCEPT ![r] = IF @ = NoStreak THEN 0 ELSE @]
    /\ UNCHANGED <<active, out, astray>>

(* A debounce begins, or goes on.  A start of 0 means that none has begun, *)
(* so one that begins when millis() is 0 begins again.                     *)
Debounce(r, verdict) ==
    /\ RuleStep(r)
    /\ rules[r].enabled /\ Differs(r, verdict) /\ rules[r].debounceMs > 0
    /\ \/ /\ debounceStart[r] = 0
          /\ debounceStart' = [debounceStart EXCEPT ![r] = now]
       \/ /\ debounceStart[r] # 0
          /\ Elapsed(now, debounceStart[r]) < rules[r].debounceMs
          /\ UNCHANGED debounceStart
    /\ streak' = [streak EXCEPT ![r] = IF @ = NoStreak THEN 0 ELSE @]
    /\ UNCHANGED <<active, out, astray>>

(* The debounce is over, or there is none. *)
Switch(r, verdict) ==
    /\ RuleStep(r)
    /\ rules[r].enabled /\ Differs(r, verdict)
    /\ \/ rules[r].debounceMs = 0 /\ UNCHANGED debounceStart
       \/ /\ rules[r].debounceMs > 0 /\ debounceStart[r] # 0
          /\ Elapsed(now, debounceStart[r]) >= rules[r].debounceMs
          /\ debounceStart' = [debounceStart EXCEPT ![r] = 0]
    /\ Turn(r)

DebounceOf(rule) == IF rule.enabled THEN rule.debounceMs ELSE 0

(* A post wrote to the rule after its evaluation had begun.  What has been  *)
(* read is partly of one rule and partly of another: nothing happens; or    *)
(* the debounce begins or is broken off; or the rule is turned, or turned   *)
(* back, and setOutput is called with what the rule says by then.           *)
EvaluateTorn(r) ==
    /\ RuleStep(r) /\ torn # {}
    /\ debounceStart' \in { [debounceStart EXCEPT ![r] = start] :
                              start \in {debounceStart[r], 0} \cup (IF torn = {0} THEN {} ELSE {now}) }
    /\ streak' = [streak EXCEPT ![r] = IF debounceStart'[r] = 0 THEN NoStreak ELSE Mixed]
    /\ \/ UNCHANGED <<active, out, astray>>
       \/ \E on \in BOOLEAN :
             /\ active' = IF on THEN active \cup {r} ELSE active \ {r}
             /\ \/ out' = NoCallOut
                \/ /\ rules[r].enabled
                   /\ out' = <<rules[r].targetPin, IF on THEN rules[r].onValue ELSE rules[r].offValue>>
             /\ astray' = Pins

(* setOutput: nothing happens to a slot that is not initialised. *)
SetOutput ==
    /\ out # NoCallOut /\ ~Writing("loop")
    /\ out' = NoCallOut
    /\ IF out[1] \in initialized /\ pins[out[1]] # NoPin
       THEN WriteBegins("loop", pins[out[1]], out[2])
       ELSE UNCHANGED chipVars
    /\ UNCHANGED <<now, layoutVars, ruleVars, at, torn, webVars, astray>>

LoopWrites ==
    /\ WriteStep("loop")
    /\ UNCHANGED <<now, layoutVars, ruleVars, at, out, torn, webVars, astray>>

Evaluate(r) ==
    \/ EvaluateTorn(r)
    \/ torn = {} /\ ReleaseStopped(r)
    \/ torn = {} /\ \E verdict \in Verdicts : LeaveAlone(r, verdict) \/ Agree(r, verdict)
                                             \/ Debounce(r, verdict) \/ Switch(r, verdict)

Cycle == (\E d \in 1 .. MaxPeriod : BeginCycle(d)) \/ (\E r \in Rules : Evaluate(r)) \/ SetOutput \/ LoopWrites

-------------------------------------------------------------------------------
(* The web server's task.  POST /custom-pins: stop(), and the slots are    *)
(* cleared and filled: nothing is done to a slot that is not initialised.  *)
(* A pin is left as it is driven.                                          *)
Post(layout) ==
    /\ web = "idle" /\ events < MaxEvents
    /\ events' = events + 1
    /\ posted' = layout
    /\ initialized' = {} /\ pins' = layout.pins
    /\ web' = "clear"
    /\ astray' = IF out # NoCallOut THEN Pins ELSE astray
    /\ UNCHANGED <<now, chipVars, rules, ruleVars, at, out, torn, filling, file>>

(* A rule is written to; its evaluation may have begun. *)
Writes(r) ==
    torn' \in {torn, IF Evaluating(r) THEN torn \cup {DebounceOf(rules[r]), DebounceOf(rules'[r])} ELSE torn}

(* The post is done with a rule, and after the last one goes on. *)
RuleDone(next) ==
    IF filling = LastRule THEN filling' = 0 /\ web' = next
                          ELSE filling' = filling + 1 /\ UNCHANGED web

(* OutputRule::clear, for one rule after the other. *)
ClearRule ==
    /\ web = "clear"
    /\ RuleDone("rules")
    /\ rules' = [rules EXCEPT ![filling] = NoRule]
    /\ Writes(filling)
    /\ active' = active \ {filling}
    /\ debounceStart' = [debounceStart EXCEPT ![filling] = 0]
    /\ streak' = [streak EXCEPT ![filling] = NoStreak]
    /\ UNCHANGED <<now, chipVars, pins, initialized, at, out, posted, file, events, astray>>

(* What clear() has left in a rule that has its target. *)
Blank(new) ==
    [new EXCEPT !.onValue = TRUE, !.offValue = FALSE, !.debounceMs = 0, !.requireRunning = FALSE]

(* A rule with the next of its fields filled: without a target it is not   *)
(* evaluated, with one it is, whatever it still lacks.                     *)
Filled(rule, new) ==
    IF rule = NoRule THEN Blank(new)
    ELSE IF rule.onValue # new.onValue THEN [rule EXCEPT !.onValue = new.onValue]
    ELSE IF rule.offValue # new.offValue THEN [rule EXCEPT !.offValue = new.offValue]
    ELSE IF rule.debounceMs # new.debounceMs THEN [rule EXCEPT !.debounceMs = new.debounceMs]
    ELSE new

FillRule ==
    /\ web = "rules" /\ rules[filling] # posted.rules[filling]
    /\ rules' = [rules EXCEPT ![filling] = Filled(@, posted.rules[filling])]
    /\ Writes(filling)
    /\ UNCHANGED <<now, chipVars, pins, initialized, ruleVars, at, out, webVars, astray>>

(* A rule is complete; after the last one begin() is called. *)
RuleFilled ==
    /\ web = "rules" /\ rules[filling] = posted.rules[filling]
    /\ RuleDone("begin")
    /\ astray' = IF web' = "rules" THEN astray
                 ELSE IF out # NoCallOut THEN Pins ELSE WantedHigh([pins |-> pins, rules |-> rules], active)
    /\ UNCHANGED <<now, chipVars, layoutVars, ruleVars, at, out, torn, posted, file, events>>

Uninitialized == { s \in Slots : pins[s] # NoPin } \ initialized

NextSlot == Nth(0, Uninitialized)

(* initPin drives the pin of the next slot in use low ... *)
InitPin ==
    /\ web = "begin" /\ Uninitialized # {}
    /\ WriteBegins("web", pins[NextSlot], FALSE)
    /\ web' = "init"
    /\ UNCHANGED <<now, layoutVars, ruleVars, at, out, torn, filling, posted, file, events, astray>>

(* ... and then marks the slot initialised. *)
InitPinDone ==
    /\ web = "init" /\ ~Writing("web")
    /\ initialized' = initialized \cup {NextSlot}
    /\ web' = "begin"
    /\ UNCHANGED <<now, chipVars, pins, rules, ruleVars, at, out, torn, filling, posted, file, events,
                   astray>>

(* saveCustomPins: opening the file for writing empties it. *)
SaveOpens ==
    /\ web = "begin" /\ Uninitialized = {}
    /\ file' = NoLayout
    /\ web' = "write"
    /\ UNCHANGED <<now, chipVars, layoutVars, ruleVars, at, out, torn, filling, posted, events, astray>>

SaveWrites ==
    /\ web = "write"
    /\ file' = [pins |-> pins, rules |-> rules]
    /\ web' = "idle"
    /\ UNCHANGED <<now, chipVars, layoutVars, ruleVars, at, out, torn, filling, posted, events, astray>>

(* POST /custom-pins/output. *)
SetByHand(s, high) ==
    /\ web = "idle" /\ events < MaxEvents
    /\ s \in initialized
    /\ events' = events + 1
    /\ WriteBegins("web", pins[s], high)
    /\ web' = "manual"
    /\ astray' = astray \cup {pins[s]}
    /\ UNCHANGED <<now, layoutVars, ruleVars, at, out, torn, filling, posted, file>>

SetByHandDone ==
    /\ web = "manual" /\ ~Writing("web")
    /\ web' = "idle"
    /\ UNCHANGED <<now, chipVars, layoutVars, ruleVars, at, out, torn, filling, posted, file, events, astray>>

WebWrites ==
    /\ WriteStep("web")
    /\ UNCHANGED <<now, layoutVars, ruleVars, at, out, torn, webVars, astray>>

Serve ==
    \/ ClearRule \/ FillRule \/ RuleFilled \/ InitPin \/ InitPinDone \/ SaveOpens \/ SaveWrites \/ SetByHandDone \/ WebWrites

-------------------------------------------------------------------------------
(* A restart, by a crash, the reset button or the reboot page. *)
Restart ==
    /\ events < MaxEvents
    /\ events' = events + 1
    /\ now' = 0
    /\ Setup(Loaded(file))
    /\ UNCHANGED <<file, posted>>

PinsNext ==
    \/ Cycle
    \/ Serve
    \/ \E layout \in Layouts : Post(layout)
    \/ \E s \in Slots, high \in BOOLEAN : SetByHand(s, high)
    \/ Restart

PinsSpec == PinsInit /\ [][PinsNext]_pinVars

(* The ECU cycle and the web server's task keep running. *)
PinsFairSpec == PinsSpec /\ WF_pinVars(Cycle) /\ WF_pinVars(Serve)

-------------------------------------------------------------------------------
(* Between cycles and requests, a pin whose last command was its rule's,   *)
(* not a manual one, nor one that met a post halfway, puts out the value   *)
(* that goes with the state of the rule (CustomPin.cpp:372-455), however   *)
(* cycles, posts, manual switches and restarts interleaved before; unless  *)
(* its last write met another task's on the chip.                          *)
OutputFollowsRule ==
    LoopIdle /\ web = "idle" =>
        \A r \in { q \in Rules : rules[q].enabled } :
            LET s == rules[r].targetPin
            IN  s \in initialized /\ pins[s] \notin astray \cup clash =>
                    (pins[s] \in olat) = IF r \in active THEN rules[r].onValue ELSE rules[r].offValue

(* A rule that does not depend on the engine running turns only once all   *)
(* its evaluations have asked for it for debounceMs (CustomPin.cpp:437),   *)
(* across the wrap of millis() and whatever closes its gates meanwhile;    *)
(* but for one whose evaluation, or that which began its debounce, met a   *)
(* post.  A rule that a post is still filling is evaluated before it has   *)
(* its debounce, and turns at once.                                        *)
SwitchIsDebounced ==
    [][\A r \in Rules :
        (/\ at = r /\ at' = r + 1 /\ events' = events    \* no restart
         /\ torn = {} /\ streak[r] # Mixed
         /\ rules[r].enabled /\ ~rules[r].requireRunning
         /\ (r \in active) # (r \in active'))
            => rules[r].debounceMs = 0 \/ streak[r] >= rules[r].debounceMs]_pinVars

(* A rule whose condition keeps saying otherwise turns in the end, though a *)
(* debounce that begins when millis() is 0 counts as none and a post may    *)
(* have got in its way, unless it is left alone again and again.            *)
DebounceEnds ==
    \A r \in Rules : \/ []<>(streak[r] = NoStreak)
                     \/ []<><<(r \in active) # (r \in active')>>_pinVars
                     \/ []<><<LeaveAlone(r, "none")>>_pinVars
===============================================================================
