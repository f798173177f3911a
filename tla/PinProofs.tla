------------------------------- MODULE PinProofs -------------------------------
(***************************************************************************)
(* Machine-checked proofs about CustomPins, for every layout, number of    *)
(* slots, rules and pins, period and width of the clock.                   *)
(***************************************************************************)
EXTENDS CustomPins, MillisProofs, FiniteSetTheorems, WellFoundedInduction

(* A call in progress has a step, a pin and a word.                        *)
Shape ==
    /\ op = [t \in Tasks |-> op[t]]
    /\ \A t \in Tasks : Writing(t) =>
          /\ op[t].step \in {"store", "send"}
          /\ op[t] = [step |-> op[t].step, pin |-> op[t].pin, word |-> op[t].word]

(* What a task is about to write agrees, on every pin whose last write met *)
(* no other, with what was commanded of the pin: on its own pin it is the  *)
(* command, on the others it is a shadow that agreed when it was loaded,   *)
(* and a command that has come since would have met this one.  So does the *)
(* shadow but for a write that has not stored, and the chip but for one    *)
(* that has not been sent.                                                 *)
Holds(p) ==
    /\ \A t \in Tasks : Writing(t) => (p \in op[t].word <=> p \in wanted)
    /\ (\A t \in Tasks : Writing(t) => op[t].pin # p \/ op[t].step = "send")
          => (p \in shadow <=> p \in wanted)
    /\ (\A t \in Tasks : Writing(t) => op[t].pin # p) => (p \in olat <=> p \in wanted)

ChipInv == Shape /\ \A p \in Pins \ clash : Holds(p)

(* A call that begins.                                                     *)
LEMMA BeginKeeps ==
    ASSUME ChipInv, NEW t \in Tasks, NEW pin, NEW high, WriteBegins(t, pin, high)
    PROVE  ChipInv'
<1>. DEFINE call == [step |-> "store", pin |-> pin, word |-> With(shadow, pin, high)]
            others == { op[u].pin : u \in { v \in Tasks \ {t} : Writing(v) } }
<1>1. /\ ~Writing(t) /\ op' = [op EXCEPT ![t] = call] /\ wanted' = With(wanted, pin, high)
      /\ clash' = IF others = {} THEN clash \ {pin} ELSE clash \cup others \cup {pin}
      /\ shadow' = shadow /\ olat' = olat
  BY DEF WriteBegins
<1>2. op'[t] = call /\ call # NoCall /\ Writing(t)'
  BY <1>1 DEF ChipInv, Shape, NoCall, Writing
<1>3. \A u \in Tasks \ {t} : op'[u] = op[u] /\ (Writing(u)' <=> Writing(u))
  BY <1>1 DEF ChipInv, Shape, Writing
<1>4. Shape'
  BY <1>1, <1>2, <1>3 DEF ChipInv, Shape
<1>5. ASSUME NEW p \in Pins, p \notin clash' PROVE Holds(p)'
  <2>1. CASE p = pin
    <3>1. others = {}
      BY <1>1, <1>5, <2>1
    <3>2. \A u \in Tasks \ {t} : ~Writing(u)
      BY <3>1
    <3>3. p \in call.word <=> p \in wanted'
      BY <1>1, <2>1 DEF With
    <3>. QED  BY <1>2, <1>3, <2>1, <3>2, <3>3 DEF Holds
  <2>2. CASE p # pin
    <3>1. p \notin clash /\ (\A u \in Tasks \ {t} : Writing(u) => op[u].pin # p)
      BY <1>1, <1>5, <2>2
    <3>2. /\ p \in shadow <=> p \in wanted
          /\ p \in olat <=> p \in wanted
          /\ \A u \in Tasks : Writing(u) => (p \in op[u].word <=> p \in wanted)
      BY <1>1, <3>1 DEF ChipInv, Holds
    <3>3. (p \in wanted' <=> p \in wanted) /\ (p \in call.word <=> p \in wanted)
      BY <1>1, <2>2, <3>2 DEF With
    <3>. QED  BY <1>1, <1>2, <1>3, <3>2, <3>3 DEF Holds
  <2>. QED  BY <2>1, <2>2
<1>. QED  BY <1>4, <1>5 DEF ChipInv

(* A call that stores the shadow, and one that sends the word.             *)
LEMMA StepKeeps ==
    ASSUME ChipInv, NEW t \in Tasks, WriteStep(t)
    PROVE  ChipInv'
<1>1. CASE WriteStores(t)
  <2>1. /\ op[t].step = "store" /\ shadow' = op[t].word /\ op' = [op EXCEPT ![t].step = "send"]
        /\ olat' = olat /\ wanted' = wanted /\ clash' = clash
    BY <1>1 DEF WriteStores
  <2>2. Writing(t)
    BY <2>1 DEF Writing, NoCall
  <2>3. op'[t] = [step |-> "send", pin |-> op[t].pin, word |-> op[t].word] /\ Writing(t)'
    BY <2>1, <2>2 DEF ChipInv, Shape, Writing, NoCall
  <2>4. \A u \in Tasks \ {t} : op'[u] = op[u] /\ (Writing(u)' <=> Writing(u))
    BY <2>1 DEF ChipInv, Shape, Writing
  <2>5. Shape'
    BY <2>1, <2>3, <2>4 DEF ChipInv, Shape
  <2>6. ASSUME NEW p \in Pins \ clash PROVE Holds(p)'
    <3>1. Holds(p)
      BY <2>6 DEF ChipInv
    <3>. QED  BY <2>1, <2>2, <2>3, <2>4, <3>1 DEF Holds
  <2>. QED  BY <2>1, <2>5, <2>6 DEF ChipInv
<1>2. CASE WriteSends(t)
  <2>1. /\ op[t].step = "send" /\ olat' \in {op[t].word, shadow} /\ op' = [op EXCEPT ![t] = NoCall]
        /\ shadow' = shadow /\ wanted' = wanted /\ clash' = clash
    BY <1>2 DEF WriteSends
  <2>2. Writing(t)
    BY <2>1 DEF Writing, NoCall
  <2>3. ~Writing(t)' /\ \A u \in Tasks \ {t} : op'[u] = op[u] /\ (Writing(u)' <=> Writing(u))
    BY <2>1 DEF ChipInv, Shape, Writing
  <2>4. Shape'
    BY <2>1, <2>3 DEF ChipInv, Shape
  <2>5. ASSUME NEW p \in Pins \ clash PROVE Holds(p)'
    <3>1. Holds(p)
      BY <2>5 DEF ChipInv
    <3>. QED  BY <2>1, <2>2, <2>3, <3>1 DEF Holds
  <2>. QED  BY <2>1, <2>4, <2>5 DEF ChipInv
<1>. QED  BY <1>1, <1>2 DEF WriteStep

(* A restart.                                                              *)
LEMMA RestartKeeps == ExpanderBegin => ChipInv'
<1>. SUFFICES ASSUME ExpanderBegin PROVE ChipInv'
  OBVIOUS
<1>1. \A t \in Tasks : op'[t] = NoCall /\ ~Writing(t)'
  BY DEF ExpanderBegin, Writing
<1>. QED  BY <1>1 DEF ExpanderBegin, ChipInv, Shape, Holds

(* What a step of the ECU cycle or the web task does to the chip: a call   *)
(* begins or goes on, the device restarts, or the chip is left alone.      *)
LEMMA ChipSteps ==
    ASSUME [PinsNext]_pinVars
    PROVE  \/ \E t \in Tasks : \E pin, high : WriteBegins(t, pin, high)
           \/ \E t \in Tasks : WriteStep(t)
           \/ ExpanderBegin
           \/ UNCHANGED chipVars
<1>0. "loop" \in Tasks /\ "web" \in Tasks
  BY CustomPinsAssumption
<1>1. CASE \E d \in 1 .. MaxPeriod : BeginCycle(d)
  BY <1>1 DEF BeginCycle
<1>2. ASSUME NEW r \in Rules, Evaluate(r) PROVE UNCHANGED chipVars
  BY <1>2 DEF Evaluate, EvaluateTorn, ReleaseStopped, LeaveAlone, Agree, Debounce, Switch, RuleStep
<1>3. CASE SetOutput
  <2>1. CASE UNCHANGED chipVars
    BY <2>1
  <2>2. CASE WriteBegins("loop", pins[out[1]], out[2])
    BY <1>0, <1>3, <2>2
  <2>. QED  BY <1>3, <2>1, <2>2 DEF SetOutput
<1>4. CASE LoopWrites \/ WebWrites
  BY <1>0, <1>4 DEF LoopWrites, WebWrites
<1>5. CASE ClearRule \/ FillRule \/ RuleFilled \/ InitPinDone \/ SaveOpens \/ SaveWrites
           \/ SetByHandDone
  BY <1>5 DEF ClearRule, FillRule, RuleFilled, InitPinDone, SaveOpens, SaveWrites, SetByHandDone
<1>6. CASE InitPin
  BY <1>0, <1>6 DEF InitPin
<1>7. CASE \E layout \in Layouts : Post(layout)
  BY <1>7 DEF Post
<1>8. CASE \E s \in Slots, high \in BOOLEAN : SetByHand(s, high)
  BY <1>0, <1>8 DEF SetByHand
<1>9. CASE Restart
  BY <1>9 DEF Restart, Setup
<1>10. CASE UNCHANGED pinVars
  BY <1>10 DEF pinVars
<1>. QED
  BY <1>1, <1>2, <1>3, <1>4, <1>5, <1>6, <1>7, <1>8, <1>9, <1>10 DEF PinsNext, Cycle, Serve

(* PinExpander::writePin: what a pin puts out is what was last commanded,  *)
(* whatever other pins of the chip are written meanwhile and by whom, for  *)
(* every layout and any number of pins.                                    *)
THEOREM WritesArrive == PinsSpec => []WritesReachChip
<1>1. PinsInit => ChipInv
  BY DEF PinsInit, ChipInv, Shape, Holds, Writing
<1>2. ChipInv /\ [PinsNext]_pinVars => ChipInv'
  <2>. SUFFICES ASSUME ChipInv, [PinsNext]_pinVars PROVE ChipInv'
    OBVIOUS
  <2>1. CASE UNCHANGED chipVars
    BY <2>1 DEF chipVars, ChipInv, Shape, Holds, Writing
  <2>. QED  BY <2>1, ChipSteps, BeginKeeps, StepKeeps, RestartKeeps
<1>3. ChipInv => WritesReachChip
  BY DEF ChipInv, Holds, WritesReachChip
<1>. QED  BY <1>1, <1>2, <1>3, PTL DEF PinsSpec

-------------------------------------------------------------------------------
(* The slots in use, in order.                                             *)

(* A set of natural numbers that is not empty has a least element. *)
LEMMA LeastElement ==
    ASSUME NEW S, S \subseteq Nat, S # {}
    PROVE  \E x \in S : \A y \in S : x <= y
<1>1. IsWellFoundedOn(OpToRel(<, Nat), Nat)
  BY NatLessThanWellFounded
<1>2. PICK x \in S : \A y \in S : <<y, x>> \notin OpToRel(<, Nat)
  BY <1>1, WFMin
<1>3. \A y \in S : ~(y < x)
  BY <1>2 DEF OpToRel
<1>. QED  BY <1>3

Below(x, S) == { y \in S : y < x }

(* Every number of a finite set has its place, and every place its number. *)
LEMMA NthExists ==
    ASSUME NEW S, S \subseteq Nat, IsFiniteSet(S), NEW n \in Nat, n < Cardinality(S)
    PROVE  \E x \in S : Cardinality(Below(x, S)) = n
<1>. DEFINE Missing == { m \in Nat : m < Cardinality(S) /\ ~\E x \in S : Cardinality(Below(x, S)) = m }
<1>1. Cardinality(S) \in Nat
  BY FS_CardinalityType
<1>2. SUFFICES ASSUME Missing # {} PROVE FALSE
  OBVIOUS
<1>3. PICK m \in Missing : \A k \in Missing : m <= k
  <2>1. Missing \subseteq Nat
    OBVIOUS
  <2>. HIDE DEF Missing
  <2>. QED  BY <1>2, <2>1, LeastElement
<1>4. CASE m = 0
  <2>1. S # {}
    BY <1>3, <1>4, FS_EmptySet
  <2>2. PICK x \in S : \A y \in S : x <= y
    BY <2>1, LeastElement
  <2>3. \A y \in S : ~(y < x)
    <3>1. x \in Nat /\ \A y \in S : y \in Nat
      BY <2>2
    <3>. QED  BY <2>2, <3>1
  <2>4. Below(x, S) = {}
    BY <2>3, Zenon DEF Below
  <2>. QED  BY <1>3, <1>4, <2>4, FS_EmptySet
<1>5. CASE m # 0
  <2>1. m - 1 \in Nat /\ m - 1 < Cardinality(S) /\ m - 1 \notin Missing
    BY <1>1, <1>3, <1>5
  <2>2. PICK x \in S : Cardinality(Below(x, S)) = m - 1
    BY <2>1
  <2>. DEFINE upTo == Below(x, S) \cup {x}
  <2>3. IsFiniteSet(Below(x, S)) /\ x \notin Below(x, S)
    BY FS_Subset DEF Below
  <2>4. Cardinality(upTo) = m
    <3>1. Cardinality(Below(x, S) \cup {x}) = Cardinality(Below(x, S)) + 1
      BY <2>3, FS_AddElement
    <3>2. m \in Nat
      BY <1>3
    <3>. QED  BY <2>2, <3>1, <3>2
  <2>5. S \ upTo # {}
    <3>1. upTo \subseteq S
      BY DEF Below
    <3>2. upTo # S
      BY <1>1, <1>3, <2>4
    <3>. QED  BY <3>1, <3>2
  <2>6. PICK z \in S \ upTo : \A y \in S \ upTo : z <= y
    BY <2>5, LeastElement
  <2>7. Below(z, S) = upTo
    <3>1. \A y \in S : y \in Nat
      OBVIOUS
    <3>2. \A y \in S : y \in upTo <=> y < x \/ y = x
      BY DEF Below
    <3>3. z \in S /\ ~(z < x) /\ z # x /\ \A y \in S : ~(y < x) /\ y # x => z <= y
      BY <2>6, <3>2
    <3>4. \A y \in S : y < z <=> y < x \/ y = x
      BY <2>2, <3>1, <3>3
    <3>5. \A y : y \in Below(z, S) <=> y \in upTo
      BY <2>2, <3>4 DEF Below
    <3>. QED  BY <3>5, Zenon
  <2>. QED  BY <1>3, <2>4, <2>6, <2>7
<1>. QED  BY <1>4, <1>5

(* So Nth finds it, and finds no number twice. *)
LEMMA NthFound ==
    ASSUME NEW S, S \subseteq Nat, IsFiniteSet(S), NEW n \in Nat, n < Cardinality(S)
    PROVE  Nth(n, S) \in S /\ Cardinality(Below(Nth(n, S), S)) = n
<1>1. \E x \in S : Cardinality({ y \in S : y < x }) = n
  BY NthExists, Zenon DEF Below
<1>2. Nth(n, S) \in S /\ Cardinality({ y \in S : y < Nth(n, S) }) = n
  BY <1>1, Zenon DEF Nth
<1>. QED  BY <1>2, Zenon DEF Below

(* The slots and the rules in use are finitely many. *)
LEMMA UsedAreFinite ==
    /\ \A S \in SUBSET Slots : S \subseteq Nat /\ IsFiniteSet(S) /\ Cardinality(S) \in Nat
    /\ \A S \in SUBSET Rules : S \subseteq Nat /\ IsFiniteSet(S) /\ Cardinality(S) \in Nat
<1>1. LastSlot \in Nat /\ LastRule \in Nat
  BY CustomPinsAssumption
<1>2. IsFiniteSet(Slots) /\ IsFiniteSet(Rules)
  BY <1>1, FS_Interval DEF Slots, Rules
<1>3. Slots \subseteq Nat /\ Rules \subseteq Nat
  BY <1>1 DEF Slots, Rules
<1>. QED  BY <1>2, <1>3, FS_Subset, FS_CardinalityType

(* No two slots hold one pin, and no two rules switch one slot.  Two rules *)
(* for one pin would give it two values to follow; the pins page lets a    *)
(* user set them up.                                                       *)
OneRulePerPin(layout) ==
    /\ \A s, u \in Slots : s # u /\ layout.pins[s] = layout.pins[u] => layout.pins[s] = NoPin
    /\ \A q, r \in Rules : q # r /\ layout.rules[q].enabled /\ layout.rules[r].enabled
                             => layout.rules[q].targetPin # layout.rules[r].targetPin

(* loadCustomPins moves pins and rules to other slots, and keeps that. *)
LEMMA LoadedKeeps ==
    ASSUME NEW layout \in Layout
    PROVE  /\ Loaded(layout) \in Layout
           /\ OneRulePerPin(layout) => OneRulePerPin(Loaded(layout))
<1>. DEFINE usedPins == { s \in Slots : layout.pins[s] # NoPin }
            usedRules == { r \in Rules : layout.rules[r] # NoRule }
            P(s) == IF s < Cardinality(usedPins) THEN layout.pins[Nth(s, usedPins)] ELSE NoPin
            R(r) == IF r < Cardinality(usedRules) THEN layout.rules[Nth(r, usedRules)] ELSE NoRule
<1>1. /\ usedPins \subseteq Nat /\ IsFiniteSet(usedPins) /\ usedPins \subseteq Slots
      /\ usedRules \subseteq Nat /\ IsFiniteSet(usedRules) /\ usedRules \subseteq Rules
      /\ Slots \subseteq Nat /\ Rules \subseteq Nat
  BY UsedAreFinite
<1>2. /\ layout.pins \in [Slots -> Pins \cup {NoPin}]
      /\ layout.rules \in [Rules -> Rule \cup {NoRule}]
  BY DEF Layout
<1>3. Loaded(layout) = [pins |-> [s \in Slots |-> P(s)], rules |-> [r \in Rules |-> R(r)]]
  BY DEF Loaded
<1>4. \A s \in Slots : s < Cardinality(usedPins) =>
         /\ Nth(s, usedPins) \in usedPins /\ P(s) = layout.pins[Nth(s, usedPins)]
         /\ Cardinality(Below(Nth(s, usedPins), usedPins)) = s
  <2>. HIDE DEF usedPins
  <2>. QED  BY <1>1, NthFound
<1>5. \A r \in Rules : r < Cardinality(usedRules) =>
         /\ Nth(r, usedRules) \in usedRules /\ R(r) = layout.rules[Nth(r, usedRules)]
         /\ Cardinality(Below(Nth(r, usedRules), usedRules)) = r
  <2>. HIDE DEF usedRules
  <2>. QED  BY <1>1, NthFound
<1>6. \A s \in Slots : ~(s < Cardinality(usedPins)) => P(s) = NoPin
  OBVIOUS
<1>7. \A r \in Rules : ~(r < Cardinality(usedRules)) => R(r) = NoRule
  OBVIOUS
<1>. HIDE DEF P, R, usedPins, usedRules
<1>8. Loaded(layout) \in Layout
  <2>1. \A s \in Slots : P(s) \in Pins \cup {NoPin}
    BY <1>1, <1>2, <1>4, <1>6
  <2>2. \A r \in Rules : R(r) \in Rule \cup {NoRule}
    BY <1>1, <1>2, <1>5, <1>7
  <2>. QED  BY <1>3, <2>1, <2>2 DEF Layout
<1>9. ASSUME OneRulePerPin(layout) PROVE OneRulePerPin(Loaded(layout))
  <2>1. ASSUME NEW s \in Slots, NEW u \in Slots, s # u, P(s) = P(u) PROVE P(s) = NoPin
    <3>1. CASE s < Cardinality(usedPins) /\ u < Cardinality(usedPins)
      <4>1. Nth(s, usedPins) # Nth(u, usedPins)
        BY <1>4, <2>1, <3>1
      <4>2. Nth(s, usedPins) \in Slots /\ Nth(u, usedPins) \in Slots
        BY <1>1, <1>4, <3>1
      <4>. QED  BY <1>4, <1>9, <2>1, <3>1, <4>1, <4>2 DEF OneRulePerPin
    <3>. QED  BY <1>6, <2>1, <3>1
  <2>2. ASSUME NEW q \in Rules, NEW r \in Rules, q # r, R(q).enabled, R(r).enabled
        PROVE  R(q).targetPin # R(r).targetPin
    <3>1. NoRule.enabled = FALSE
      BY DEF NoRule
    <3>2. q < Cardinality(usedRules) /\ r < Cardinality(usedRules)
      BY <1>7, <2>2, <3>1
    <3>3. Nth(q, usedRules) # Nth(r, usedRules)
      BY <1>5, <2>2, <3>2
    <3>4. Nth(q, usedRules) \in Rules /\ Nth(r, usedRules) \in Rules
      BY <1>1, <1>5, <3>2
    <3>. QED  BY <1>5, <1>9, <2>2, <3>2, <3>3, <3>4 DEF OneRulePerPin
  <2>. QED  BY <1>3, <2>1, <2>2 DEF OneRulePerPin
<1>. QED  BY <1>8, <1>9

-------------------------------------------------------------------------------
(* The type invariant.                                                     *)

InMemory == [pins |-> pins, rules |-> rules]

(* While a post replaces the rules they are cleared one after the other,   *)
(* and then filled: one that is being filled has its target, no debounce   *)
(* or all of it, and does not ask whether the engine runs until the end.   *)
FillInv ==
    /\ web = "clear" => \A r \in Rules : r < filling => rules[r] = NoRule
    /\ web = "rules" => \A r \in Rules : rules[r] # NoRule =>
          /\ posted.rules[r].enabled /\ rules[r].targetPin = posted.rules[r].targetPin
          /\ rules[r].debounceMs \in {0, posted.rules[r].debounceMs}
          /\ rules[r] # posted.rules[r] => ~rules[r].requireRunning
    /\ web \notin {"clear", "rules"} => filling = 0

(* A slot that is initialised holds a pin; the web server's task is at one *)
(* that is not yet, and writes pins only there and by hand.                *)
PinsInUse ==
    /\ \A s \in initialized : pins[s] # NoPin
    /\ web = "init" => Uninitialized # {}
    /\ web \in {"clear", "rules"} => initialized = {}
    /\ Writing("web") => web \in {"init", "manual"}
    /\ FillInv

(* A call of writePin keeps the chip well typed. *)
LEMMA BeginTypes ==
    ASSUME ExpanderTypeOK, NEW t \in Tasks, NEW pin \in Pins, NEW high, WriteBegins(t, pin, high)
    PROVE  ExpanderTypeOK'
<1>. DEFINE call == [step |-> "store", pin |-> pin, word |-> With(shadow, pin, high)]
            others == { op[u].pin : u \in { v \in Tasks \ {t} : Writing(v) } }
<1>1. call \in Call
  BY DEF Call, With, ExpanderTypeOK
<1>2. op' \in [Tasks -> Call \cup {NoCall}]
  <2>1. op' = [op EXCEPT ![t] = call]
    BY DEF WriteBegins
  <2>. HIDE DEF call
  <2>. QED  BY <1>1, <2>1 DEF ExpanderTypeOK
<1>3. others \subseteq Pins
  <2>1. \A u \in Tasks : Writing(u) => op[u] \in Call
    BY DEF ExpanderTypeOK, Writing
  <2>. QED  BY <2>1 DEF Call
<1>4. clash' \subseteq Pins /\ wanted' \subseteq Pins
  <2>1. clash' \subseteq clash \cup others \cup {pin} /\ wanted' \subseteq wanted \cup {pin}
    BY DEF WriteBegins, With
  <2>. HIDE DEF others
  <2>. QED  BY <1>3, <2>1 DEF ExpanderTypeOK
<1>. QED  BY <1>2, <1>4 DEF WriteBegins, ExpanderTypeOK

(* So does a call that goes on. *)
LEMMA StepTypes ==
    ASSUME ExpanderTypeOK, NEW t \in Tasks, WriteStep(t)
    PROVE  ExpanderTypeOK'
<1>1. op[t] \in Call
  BY DEF WriteStep, WriteStores, WriteSends, ExpanderTypeOK, NoCall
<1>2. CASE WriteStores(t)
  <2>1. op' = [op EXCEPT ![t].step = "send"]
    BY <1>2 DEF WriteStores
  <2>2. op' \in [Tasks -> Call \cup {NoCall}]
    BY <1>1, <2>1 DEF ExpanderTypeOK, Call
  <2>. QED  BY <1>1, <1>2, <2>2 DEF WriteStores, ExpanderTypeOK, Call
<1>3. CASE WriteSends(t)
  BY <1>1, <1>3 DEF WriteSends, ExpanderTypeOK, Call
<1>. QED  BY <1>2, <1>3 DEF WriteStep

(* What the type invariant says of a rule that is enabled. *)
LEMMA EnabledRule ==
    ASSUME CustomPinsTypeOK, NEW r \in Rules, rules[r].enabled
    PROVE  /\ rules[r] \in Rule /\ rules[r].targetPin \in Slots
           /\ rules[r].onValue \in BOOLEAN /\ rules[r].offValue \in BOOLEAN
           /\ rules[r].debounceMs \in Time /\ rules[r].requireRunning \in BOOLEAN
<1>1. rules[r] \in Rule \cup {NoRule}
  BY DEF CustomPinsTypeOK, Layout
<1>2. rules[r] \in Rule
  BY <1>1 DEF NoRule
<1>. QED  BY <1>2 DEF Rule

(* A rule a post fills keeps its target, and gets its debounce at once. *)
LEMMA FilledIs ==
    ASSUME NEW rule \in Rule \cup {NoRule}, NEW new \in Rule \cup {NoRule}, rule # new,
           rule # NoRule => /\ new.enabled /\ rule.targetPin = new.targetPin
                            /\ rule.debounceMs \in {0, new.debounceMs} /\ ~rule.requireRunning
    PROVE  /\ Filled(rule, new) \in Rule /\ new \in Rule
           /\ Filled(rule, new).targetPin = new.targetPin
           /\ Filled(rule, new).debounceMs \in {0, new.debounceMs}
           /\ rule # NoRule /\ rule.debounceMs > 0 => Filled(rule, new).debounceMs = rule.debounceMs
           /\ Filled(rule, new) # new => ~Filled(rule, new).requireRunning
<1>0. ~NoRule.enabled /\ \A x \in Rule : x.enabled
  BY DEF Rule, NoRule
<1>1. new \in Rule /\ new.enabled
  BY <1>0
<1>2. 0 \in Time /\ \A x \in Time : x \in Nat
  BY WrapAssumption DEF Time
<1>3. CASE rule = NoRule
  <2>1. Filled(rule, new) = Blank(new)
    BY <1>3 DEF Filled
  <2>2. /\ Blank(new) \in Rule /\ Blank(new).targetPin = new.targetPin
        /\ Blank(new).debounceMs = 0 /\ ~Blank(new).requireRunning
    BY <1>1, <1>2 DEF Blank, Rule
  <2>. QED  BY <1>1, <1>3, <2>1, <2>2
<1>4. CASE rule # NoRule
  <2>1. rule \in Rule
    BY <1>4
  <2>2. CASE rule.onValue # new.onValue
    <3>1. Filled(rule, new) = [rule EXCEPT !.onValue = new.onValue]
      BY <1>4, <2>2 DEF Filled
    <3>. QED  BY <1>1, <1>4, <2>1, <3>1 DEF Rule
  <2>3. CASE rule.onValue = new.onValue /\ rule.offValue # new.offValue
    <3>1. Filled(rule, new) = [rule EXCEPT !.offValue = new.offValue]
      BY <1>4, <2>3 DEF Filled
    <3>. QED  BY <1>1, <1>4, <2>1, <3>1 DEF Rule
  <2>4. CASE /\ rule.onValue = new.onValue /\ rule.offValue = new.offValue
             /\ rule.debounceMs # new.debounceMs
    <3>1. Filled(rule, new) = [rule EXCEPT !.debounceMs = new.debounceMs]
      BY <1>4, <2>4 DEF Filled
    <3>2. rule.debounceMs = 0 /\ new.debounceMs \in Time /\ rule.requireRunning = FALSE
      BY <1>1, <1>4, <2>1, <2>4 DEF Rule
    <3>3. /\ Filled(rule, new) \in Rule /\ Filled(rule, new).targetPin = rule.targetPin
          /\ Filled(rule, new).debounceMs = new.debounceMs /\ Filled(rule, new).requireRunning = FALSE
      BY <2>1, <3>1, <3>2 DEF Rule
    <3>. QED  BY <1>1, <1>4, <3>2, <3>3
  <2>5. CASE /\ rule.onValue = new.onValue /\ rule.offValue = new.offValue
             /\ rule.debounceMs = new.debounceMs
    <3>1. Filled(rule, new) = new
      BY <1>4, <2>5 DEF Filled
    <3>. QED  BY <1>1, <2>5, <3>1
  <2>. QED  BY <2>2, <2>3, <2>4, <2>5
<1>. QED  BY <1>3, <1>4

(* The slot the web server's task is at is one that is not yet initialised. *)
LEMMA NextSlotIsOne ==
    ASSUME Uninitialized # {}
    PROVE  NextSlot \in Uninitialized
<1>1. Uninitialized \subseteq Slots
  BY DEF Uninitialized
<1>2. Uninitialized \subseteq Nat /\ IsFiniteSet(Uninitialized) /\ Cardinality(Uninitialized) \in Nat
  BY <1>1, UsedAreFinite
<1>3. 0 < Cardinality(Uninitialized)
  BY <1>2, FS_EmptySet
<1>. QED  BY <1>2, <1>3, NthFound DEF NextSlot

(* begin() marks what it drives low against a rule. *)
LEMMA WantedHighArePins == \A layout, on : WantedHigh(layout, on) \subseteq Pins
  BY DEF WantedHigh

(* A rule is turned, and goes on to the next. *)
LEMMA TurnTypes ==
    ASSUME CustomPinsTypeOK, NEW r \in Rules, rules[r].enabled, Turn(r)
    PROVE  /\ active' \subseteq Rules /\ out' \in Slots \X BOOLEAN
           /\ astray' \subseteq Pins /\ streak' \in [Rules -> {NoStreak, Mixed} \cup Time]
<1>1. rules[r].targetPin \in Slots /\ rules[r].onValue \in BOOLEAN /\ rules[r].offValue \in BOOLEAN
  BY EnabledRule
<1>2. astray' = Pins \/ astray' = astray \ {pins[rules[r].targetPin]}
  BY DEF Turn
<1>. QED  BY <1>1, <1>2 DEF Turn, CustomPinsTypeOK

(* The evaluation of a rule keeps the types. *)
LEMMA EvaluateTypes ==
    ASSUME CustomPinsTypeOK, NEW r \in Rules, Evaluate(r)
    PROVE  CustomPinsTypeOK'
<1>1. RuleStep(r)
  BY DEF Evaluate, EvaluateTorn, ReleaseStopped, LeaveAlone, Agree, Debounce, Switch
<1>2. ExpanderTypeOK'
  BY <1>1 DEF RuleStep, CustomPinsTypeOK, chipVars, ExpanderTypeOK
<1>3. UNCHANGED <<now, pins, rules, initialized, web, filling, posted, file, events>> /\ torn' = {}
  BY <1>1 DEF RuleStep, layoutVars, webVars
<1>4. at' \in 0 .. EndOfCycle
  BY <1>1, CustomPinsAssumption DEF RuleStep, Rules, EndOfCycle
<1>5. /\ active' \subseteq Rules /\ out' \in {NoCallOut} \cup (Slots \X BOOLEAN)
      /\ astray' \subseteq Pins /\ streak' \in [Rules -> {NoStreak, Mixed} \cup Time]
      /\ debounceStart' \in [Rules -> Time]
  <2>0. 0 \in Time
    BY WrapAssumption DEF Time
  <2>1. CASE ReleaseStopped(r)
    BY <2>1, TurnTypes DEF ReleaseStopped, CustomPinsTypeOK
  <2>2. ASSUME NEW verdict \in Verdicts, LeaveAlone(r, verdict)
        PROVE  UNCHANGED <<active, debounceStart, streak, out, astray>>
    BY <2>2 DEF LeaveAlone, ruleVars
  <2>3. ASSUME NEW verdict \in Verdicts, Agree(r, verdict) \/ Debounce(r, verdict)
        PROVE  /\ UNCHANGED <<active, out, astray>>
               /\ streak' \in [Rules -> {NoStreak, Mixed} \cup Time] /\ debounceStart' \in [Rules -> Time]
    BY <2>0, <2>3 DEF Agree, Debounce, CustomPinsTypeOK
  <2>4. ASSUME NEW verdict \in Verdicts, Switch(r, verdict)
        PROVE  Turn(r) /\ rules[r].enabled /\ debounceStart' \in [Rules -> Time]
    BY <2>0, <2>4 DEF Switch, CustomPinsTypeOK
  <2>5. CASE UNCHANGED <<active, debounceStart, streak, out, astray>>
    BY <2>5 DEF CustomPinsTypeOK
  <2>6. CASE /\ UNCHANGED <<active, out, astray>>
             /\ streak' \in [Rules -> {NoStreak, Mixed} \cup Time] /\ debounceStart' \in [Rules -> Time]
    BY <2>6 DEF CustomPinsTypeOK
  <2>7. CASE Turn(r) /\ rules[r].enabled /\ debounceStart' \in [Rules -> Time]
    BY <2>7, TurnTypes DEF CustomPinsTypeOK
  <2>8. CASE EvaluateTorn(r)
    <3>1. streak' \in [Rules -> {NoStreak, Mixed} \cup Time]
      BY <2>8 DEF EvaluateTorn, CustomPinsTypeOK
    <3>2. debounceStart' \in [Rules -> Time]
      <4>1. PICK start \in Time : debounceStart' = [debounceStart EXCEPT ![r] = start]
        BY <2>0, <2>8 DEF EvaluateTorn, CustomPinsTypeOK
      <4>. QED  BY <4>1 DEF CustomPinsTypeOK
    <3>3. CASE UNCHANGED <<active, out, astray>>
      BY <3>1, <3>2, <3>3 DEF CustomPinsTypeOK
    <3>4. ASSUME NEW on \in BOOLEAN,
                 active' = IF on THEN active \cup {r} ELSE active \ {r},
                 \/ out' = NoCallOut
                 \/ /\ rules[r].enabled
                    /\ out' = <<rules[r].targetPin, IF on THEN rules[r].onValue ELSE rules[r].offValue>>,
                 astray' = Pins
          PROVE  /\ active' \subseteq Rules /\ out' \in {NoCallOut} \cup (Slots \X BOOLEAN)
                 /\ astray' \subseteq Pins
      <4>1. active' \subseteq Rules
        BY <3>4 DEF CustomPinsTypeOK
      <4>2. ASSUME rules[r].enabled
            PROVE  /\ rules[r].targetPin \in Slots
                   /\ (IF on THEN rules[r].onValue ELSE rules[r].offValue) \in BOOLEAN
        BY <4>2, EnabledRule
      <4>3. out' \in {NoCallOut} \cup (Slots \X BOOLEAN)
        BY <3>4, <4>2
      <4>. QED  BY <3>4, <4>1, <4>3
    <3>. QED  BY <2>8, <3>1, <3>2, <3>3, <3>4 DEF EvaluateTorn
  <2>. QED  BY <2>1, <2>2, <2>3, <2>4, <2>5, <2>6, <2>7, <2>8 DEF Evaluate
<1>6. torn' \subseteq Time
  BY <1>3
<1>. QED  BY <1>2, <1>3, <1>4, <1>5, <1>6 DEF CustomPinsTypeOK

(* So do the steps in which a post clears the rules and fills them. *)
LEMMA FillTypes ==
    ASSUME CustomPinsTypeOK, PinsInUse, ClearRule \/ FillRule \/ RuleFilled
    PROVE  CustomPinsTypeOK' /\ PinsInUse'
<1>. USE DEF chipVars, layoutVars, ruleVars, webVars
<1>0. LastRule \in Nat /\ 0 \in Time /\ Rules \subseteq Nat /\ 0 \in Rules
  BY CustomPinsAssumption, WrapAssumption DEF Rules, Time
<1>1. web \in {"clear", "rules"} /\ filling \in Rules /\ initialized = {} /\ ~Writing("web")
  BY DEF ClearRule, FillRule, RuleFilled, PinsInUse, CustomPinsTypeOK
<1>2. UNCHANGED <<now, shadow, olat, op, wanted, clash, pins, initialized, at, out, posted, file, events>>
  BY DEF ClearRule, FillRule, RuleFilled
<1>3. ASSUME NEW next, RuleDone(next)
      PROVE  \/ filling = LastRule /\ filling' = 0 /\ web' = next
             \/ filling + 1 \in Rules /\ filling' = filling + 1 /\ web' = web
  BY <1>0, <1>1, <1>3 DEF RuleDone, Rules
<1>4. /\ ExpanderTypeOK' /\ now' \in Time /\ {posted, file}' \subseteq Layout
      /\ initialized' = {} /\ at' \in 0 .. EndOfCycle /\ events' \in 0 .. MaxEvents
      /\ out' \in {NoCallOut} \cup (Slots \X BOOLEAN) /\ ~Writing("web")'
  BY <1>1, <1>2 DEF CustomPinsTypeOK, ExpanderTypeOK, Writing
<1>5. \A rule \in Rule \cup {NoRule} : DebounceOf(rule) \in Time
  <2>1. ASSUME NEW rule \in Rule PROVE DebounceOf(rule) \in Time
    BY <2>1 DEF Rule, DebounceOf
  <2>2. DebounceOf(NoRule) = 0
    BY DEF NoRule, DebounceOf
  <2>. QED  BY <1>0, <2>1, <2>2
<1>6. \A r \in Rules : rules[r] \in Rule \cup {NoRule} /\ posted.rules[r] \in Rule \cup {NoRule}
  BY DEF CustomPinsTypeOK, Layout
<1>7. ASSUME [pins |-> pins, rules |-> rules]' \in Layout PROVE Writes(filling) => torn' \subseteq Time
  <2>1. rules'[filling] \in Rule \cup {NoRule}
    BY <1>1, <1>7 DEF Layout
  <2>2. DebounceOf(rules[filling]) \in Time /\ DebounceOf(rules'[filling]) \in Time
    BY <1>1, <1>5, <1>6, <2>1
  <2>. QED  BY <2>2 DEF Writes, CustomPinsTypeOK
<1>8. CASE ClearRule
  <2>1. /\ rules' = [rules EXCEPT ![filling] = NoRule] /\ web = "clear" /\ RuleDone("rules")
        /\ active' = active \ {filling} /\ debounceStart' = [debounceStart EXCEPT ![filling] = 0]
        /\ streak' = [streak EXCEPT ![filling] = NoStreak] /\ Writes(filling) /\ astray' = astray
    BY <1>8 DEF ClearRule
  <2>2. [pins |-> pins, rules |-> rules]' \in Layout
    BY <1>2, <2>1 DEF CustomPinsTypeOK, Layout
  <2>3. /\ active' \subseteq Rules /\ debounceStart' \in [Rules -> Time]
        /\ streak' \in [Rules -> {NoStreak, Mixed} \cup Time] /\ astray' \subseteq Pins
    BY <1>0, <2>1 DEF CustomPinsTypeOK
  <2>4. \A r \in Rules : r < filling => rules[r] = NoRule
    BY <2>1 DEF PinsInUse, FillInv
  <2>5. /\ rules \in [Rules -> Rule \cup {NoRule}] /\ filling \in Nat
        /\ \A r \in Rules : r \in Nat /\ r <= LastRule
    BY <1>0, <1>1 DEF CustomPinsTypeOK, Layout, Rules
  <2>6. \A r \in Rules : rules'[r] = IF r = filling THEN NoRule ELSE rules[r]
    BY <2>1, <2>5
  <2>7. CASE filling = LastRule /\ filling' = 0 /\ web' = "rules"
    <3>1. \A r \in Rules : rules'[r] = NoRule
      BY <2>4, <2>5, <2>6, <2>7
    <3>2. FillInv' /\ web' \in {"clear", "rules"} /\ filling' \in Rules
      BY <1>0, <2>7, <3>1 DEF FillInv
    <3>. QED  BY <1>4, <1>7, <2>1, <2>2, <2>3, <3>2 DEF CustomPinsTypeOK, PinsInUse
  <2>8. CASE filling + 1 \in Rules /\ filling' = filling + 1 /\ web' = web
    <3>1. \A r \in Rules : r < filling + 1 => rules'[r] = NoRule
      BY <2>4, <2>5, <2>6
    <3>2. FillInv' /\ web' \in {"clear", "rules"} /\ filling' \in Rules
      BY <2>1, <2>8, <3>1 DEF FillInv
    <3>. QED  BY <1>4, <1>7, <2>1, <2>2, <2>3, <3>2 DEF CustomPinsTypeOK, PinsInUse
  <2>. QED  BY <1>3, <2>1, <2>7, <2>8
<1>9. CASE FillRule
  <2>1. /\ rules' = [rules EXCEPT ![filling] = Filled(@, posted.rules[filling])] /\ web = "rules"
        /\ Writes(filling) /\ rules[filling] # posted.rules[filling]
        /\ UNCHANGED <<active, debounceStart, streak, web, filling, astray>>
    BY <1>9 DEF FillRule
  <2>2. PICK new : new = Filled(rules[filling], posted.rules[filling])
    OBVIOUS
  <2>3. /\ new \in Rule /\ posted.rules[filling] \in Rule /\ new.targetPin = posted.rules[filling].targetPin
        /\ new.debounceMs \in {0, posted.rules[filling].debounceMs}
        /\ new # posted.rules[filling] => ~new.requireRunning
    <3>1. rules[filling] # NoRule =>
             /\ posted.rules[filling].enabled /\ rules[filling].targetPin = posted.rules[filling].targetPin
             /\ rules[filling].debounceMs \in {0, posted.rules[filling].debounceMs}
             /\ ~rules[filling].requireRunning
      BY <1>1, <2>1 DEF PinsInUse, FillInv
    <3>. QED  BY <1>1, <1>6, <2>1, <2>2, <3>1, FilledIs
  <2>4. rules' = [rules EXCEPT ![filling] = new] /\ rules \in [Rules -> Rule \cup {NoRule}]
    BY <2>1, <2>2 DEF CustomPinsTypeOK, Layout
  <2>5. [pins |-> pins, rules |-> rules]' \in Layout
    BY <1>2, <2>3, <2>4 DEF CustomPinsTypeOK, Layout
  <2>6. FillInv'
    <3>1. posted.rules[filling].enabled
      BY <2>3 DEF Rule
    <3>2. \A r \in Rules : rules'[r] = IF r = filling THEN new ELSE rules[r]
      BY <2>4
    <3>. QED  BY <1>2, <2>1, <2>3, <3>1, <3>2 DEF PinsInUse, FillInv
  <2>. QED  BY <1>4, <1>7, <2>1, <2>5, <2>6 DEF CustomPinsTypeOK, PinsInUse
<1>10. CASE RuleFilled
  <2>1. /\ web = "rules" /\ RuleDone("begin") /\ UNCHANGED <<rules, active, debounceStart, streak, torn>>
        /\ astray' \in {astray, Pins, WantedHigh([pins |-> pins, rules |-> rules], active)}
    BY <1>10 DEF RuleFilled
  <2>2. astray' \subseteq Pins
    BY <2>1, WantedHighArePins DEF CustomPinsTypeOK
  <2>3. web' \in {"rules", "begin"} /\ filling' \in Rules /\ FillInv'
    BY <1>0, <1>2, <1>3, <2>1 DEF PinsInUse, FillInv
  <2>. QED  BY <1>2, <1>4, <2>1, <2>2, <2>3 DEF CustomPinsTypeOK, PinsInUse
<1>. QED  BY <1>8, <1>9, <1>10

(* The cycle of the ECU but for the rules, and the web server's requests,  *)
(* keep the types and the slots in use.                                    *)
LEMMA PinTypeStep ==
    ASSUME CustomPinsTypeOK, PinsInUse, [PinsNext]_pinVars
    PROVE  CustomPinsTypeOK' /\ PinsInUse'
<1>0. /\ "loop" \in Tasks /\ "web" \in Tasks /\ 0 \in Time /\ NoPin \notin Pins
      /\ MaxPeriod \in 1 .. Wrap - 1 /\ LastRule \in Nat /\ MaxEvents \in Nat /\ Wrap \in Nat
  BY CustomPinsAssumption, WrapAssumption DEF Time
<1>. USE DEF chipVars, layoutVars, ruleVars, webVars
<1>1. ASSUME NEW d \in 1 .. MaxPeriod, BeginCycle(d) PROVE CustomPinsTypeOK' /\ PinsInUse'
  <2>1. /\ now' = Later(now, d) /\ at' = 0
        /\ UNCHANGED <<shadow, olat, op, wanted, clash, pins, rules, initialized, active,
                       debounceStart, out, torn, web, filling, posted, file, events, astray>>
    BY <1>1 DEF BeginCycle
  <2>2. now' \in Time
    BY <1>0, <2>1, LaterIsTime DEF CustomPinsTypeOK
  <2>3. streak' \in [Rules -> {NoStreak, Mixed} \cup Time]
    <3>1. ASSUME NEW r \in Rules, streak[r] \notin {NoStreak, Mixed}, rules[r].enabled
          PROVE  Least(streak[r] + d, rules[r].debounceMs) \in Time
      <4>1. streak[r] \in Time /\ rules[r].debounceMs \in Time
        BY <3>1, EnabledRule DEF CustomPinsTypeOK
      <4>. QED  BY <1>0, <4>1 DEF Least, Time
    <3>2. streak' = [r \in Rules |-> IF streak[r] \in {NoStreak, Mixed} \/ ~rules[r].enabled
                                     THEN streak[r] ELSE Least(streak[r] + d, rules[r].debounceMs)]
      BY <1>1 DEF BeginCycle
    <3>. QED  BY <3>1, <3>2 DEF CustomPinsTypeOK
  <2>4. at' \in 0 .. EndOfCycle
    BY <1>0, <2>1 DEF EndOfCycle
  <2>. QED  BY <2>1, <2>2, <2>3, <2>4
            DEF CustomPinsTypeOK, ExpanderTypeOK, PinsInUse, FillInv, Uninitialized, Writing
<1>2. ASSUME NEW r \in Rules, Evaluate(r) PROVE CustomPinsTypeOK' /\ PinsInUse'
  <2>1. UNCHANGED <<shadow, olat, op, wanted, clash, pins, rules, initialized, web, filling, posted, file,
                  events>>
    BY <1>2 DEF Evaluate, EvaluateTorn, ReleaseStopped, LeaveAlone, Agree, Debounce, Switch, RuleStep
  <2>2. PinsInUse'
    BY <2>1 DEF PinsInUse, FillInv, Uninitialized, Writing
  <2>. QED  BY <1>2, <2>2, EvaluateTypes
<1>3. CASE SetOutput
  <2>1. /\ out' = NoCallOut
        /\ UNCHANGED <<now, pins, rules, initialized, active, debounceStart, streak, at, torn,
                       web, filling, posted, file, events, astray>>
    BY <1>3 DEF SetOutput
  <2>2. CASE UNCHANGED chipVars
    BY <2>1, <2>2 DEF CustomPinsTypeOK, ExpanderTypeOK, PinsInUse, FillInv, Uninitialized, Writing
  <2>3. CASE out[1] \in initialized /\ pins[out[1]] # NoPin /\ WriteBegins("loop", pins[out[1]], out[2])
    <3>1. pins[out[1]] \in Pins
      BY <2>3 DEF CustomPinsTypeOK, Layout
    <3>2. ExpanderTypeOK'
      BY <1>0, <2>3, <3>1, BeginTypes DEF CustomPinsTypeOK
    <3>3. op'["web"] = op["web"]
      BY <1>0, <2>3 DEF WriteBegins, CustomPinsTypeOK, ExpanderTypeOK
    <3>. QED  BY <2>1, <3>2, <3>3 DEF CustomPinsTypeOK, PinsInUse, FillInv, Uninitialized, Writing
  <2>. QED  BY <1>3, <2>2, <2>3 DEF SetOutput
<1>4. CASE LoopWrites \/ WebWrites
  <2>1. PICK t \in {"loop", "web"} :
           /\ WriteStep(t)
           /\ UNCHANGED <<now, pins, rules, initialized, active, debounceStart, streak, at, out,
                          torn, web, filling, posted, file, events, astray>>
    BY <1>4 DEF LoopWrites, WebWrites
  <2>2. ExpanderTypeOK'
    BY <1>0, <2>1, StepTypes DEF CustomPinsTypeOK
  <2>3. op'["web"] # NoCall => op["web"] # NoCall
    BY <1>0, <2>1 DEF WriteStep, WriteStores, WriteSends, CustomPinsTypeOK, ExpanderTypeOK, NoCall
  <2>. QED  BY <2>1, <2>2, <2>3 DEF CustomPinsTypeOK, PinsInUse, FillInv, Uninitialized, Writing
<1>5. CASE \E layout \in Layouts : Post(layout)
  <2>1. PICK layout \in Layouts : Post(layout)
    BY <1>5
  <2>2. layout \in Layout /\ [pins |-> layout.pins, rules |-> rules] \in Layout
    BY CustomPinsAssumption DEF CustomPinsTypeOK, Layout
  <2>3. /\ events' \in 0 .. MaxEvents /\ posted' = layout /\ initialized' = {} /\ web' = "clear"
        /\ pins' = layout.pins /\ (astray' = Pins \/ astray' = astray) /\ web = "idle"
        /\ UNCHANGED <<now, shadow, olat, op, wanted, clash, rules, active, debounceStart, streak,
                       at, out, torn, filling, file>>
    BY <1>0, <2>1 DEF Post, CustomPinsTypeOK
  <2>4. ~Writing("web")'
    BY <2>1 DEF Post, PinsInUse, Writing
  <2>5. FillInv'
    <3>1. filling = 0 /\ \A r \in Rules : ~(r < 0)
      BY <1>0, <2>3 DEF PinsInUse, FillInv, Rules
    <3>. QED  BY <2>3, <3>1 DEF FillInv
  <2>. QED  BY <2>2, <2>3, <2>4, <2>5 DEF CustomPinsTypeOK, ExpanderTypeOK, PinsInUse
<1>6. CASE ClearRule \/ FillRule \/ RuleFilled
  BY <1>6, FillTypes
<1>7. CASE InitPin
  <2>1. /\ web = "begin" /\ Uninitialized # {} /\ web' = "init"
        /\ WriteBegins("web", pins[NextSlot], FALSE)
        /\ UNCHANGED <<now, pins, rules, initialized, active, debounceStart, streak, at, out,
                       torn, filling, posted, file, events, astray>>
    BY <1>7 DEF InitPin
  <2>2. pins[NextSlot] \in Pins
    BY <2>1, NextSlotIsOne DEF Uninitialized, CustomPinsTypeOK, Layout
  <2>3. ExpanderTypeOK'
    BY <1>0, <2>1, <2>2, BeginTypes DEF CustomPinsTypeOK
  <2>. QED  BY <2>1, <2>3 DEF CustomPinsTypeOK, PinsInUse, FillInv, Uninitialized
<1>8. CASE InitPinDone
  <2>1. /\ web = "init" /\ ~Writing("web") /\ initialized' = initialized \cup {NextSlot}
        /\ web' = "begin"
        /\ UNCHANGED <<now, shadow, olat, op, wanted, clash, pins, rules, active, debounceStart,
                       streak, at, out, torn, filling, posted, file, events, astray>>
    BY <1>8 DEF InitPinDone
  <2>2. NextSlot \in Slots /\ pins[NextSlot] # NoPin
    BY <2>1, NextSlotIsOne DEF PinsInUse, Uninitialized
  <2>. QED  BY <2>1, <2>2 DEF CustomPinsTypeOK, ExpanderTypeOK, PinsInUse, FillInv, Writing
<1>9. CASE SaveOpens \/ SaveWrites \/ SetByHandDone
  <2>1. /\ UNCHANGED <<now, shadow, olat, op, wanted, clash, pins, rules, initialized, active,
                       debounceStart, streak, at, out, torn, filling, posted, events, astray>>
        /\ web \in {"begin", "write", "manual"} /\ web' \in {"write", "idle"} /\ ~Writing("web")
        /\ file' \in {NoLayout, InMemory, file}
    BY <1>9 DEF SaveOpens, SaveWrites, SetByHandDone, InMemory, PinsInUse
  <2>2. NoLayout \in Layout /\ InMemory \in Layout
    BY DEF Layout, NoLayout, InMemory, CustomPinsTypeOK
  <2>. QED  BY <2>1, <2>2 DEF CustomPinsTypeOK, ExpanderTypeOK, PinsInUse, FillInv, Writing
<1>10. CASE \E s \in Slots, high \in BOOLEAN : SetByHand(s, high)
  <2>1. PICK s \in Slots, high \in BOOLEAN : SetByHand(s, high)
    BY <1>10
  <2>2. /\ WriteBegins("web", pins[s], high) /\ s \in initialized /\ web' = "manual"
        /\ events' \in 0 .. MaxEvents /\ astray' = astray \cup {pins[s]}
        /\ web = "idle"
        /\ UNCHANGED <<now, pins, rules, initialized, active, debounceStart, streak, at, out,
                       torn, filling, posted, file>>
    BY <1>0, <2>1 DEF SetByHand, CustomPinsTypeOK
  <2>3. pins[s] \in Pins
    BY <2>2 DEF PinsInUse, CustomPinsTypeOK, Layout
  <2>4. ExpanderTypeOK'
    BY <1>0, <2>2, <2>3, BeginTypes DEF CustomPinsTypeOK
  <2>. QED  BY <2>2, <2>3, <2>4 DEF CustomPinsTypeOK, PinsInUse, FillInv
<1>11. CASE Restart
  <2>. DEFINE layout == Loaded(file)
  <2>1. /\ layout \in Layout
    BY LoadedKeeps DEF CustomPinsTypeOK
  <2>2. layout.pins \in [Slots -> Pins \cup {NoPin}] /\ [pins |-> layout.pins, rules |-> layout.rules] \in Layout
    BY <2>1 DEF Layout
  <2>. HIDE DEF layout
  <2>3. /\ pins' = layout.pins /\ rules' = layout.rules
        /\ initialized' = { s \in Slots : layout.pins[s] # NoPin }
        /\ active' = {} /\ debounceStart' = [r \in Rules |-> 0]
        /\ streak' = [r \in Rules |-> NoStreak] /\ at' = EndOfCycle /\ out' = NoCallOut
        /\ torn' = {} /\ web' = "idle" /\ filling' = 0 /\ astray' = WantedHigh(layout, {}) /\ ExpanderBegin
        /\ now' = 0 /\ events' \in 0 .. MaxEvents /\ UNCHANGED <<file, posted>>
    BY <1>0, <1>11 DEF Restart, Setup, layout, CustomPinsTypeOK
  <2>4. ExpanderTypeOK' /\ ~Writing("web")'
    BY <1>0, <2>3 DEF ExpanderBegin, ExpanderTypeOK, Writing
  <2>5. EndOfCycle \in 0 .. EndOfCycle /\ 0 \in Rules
    BY <1>0 DEF EndOfCycle, Rules
  <2>6. astray' \subseteq Pins
    BY <2>3, WantedHighArePins
  <2>. QED  BY <1>0, <2>2, <2>3, <2>4, <2>5, <2>6 DEF CustomPinsTypeOK, PinsInUse, FillInv
<1>12. CASE UNCHANGED pinVars
  BY <1>12 DEF pinVars, CustomPinsTypeOK, ExpanderTypeOK, PinsInUse, FillInv, Uninitialized, Writing
<1>. QED
  BY <1>1, <1>2, <1>3, <1>4, <1>5, <1>6, <1>7, <1>8, <1>9, <1>10, <1>11, <1>12
     DEF PinsNext, Cycle, Serve

(* Pins, rules, timers, requests and the file keep their types, however    *)
(* layouts are posted, saved half and loaded again.                        *)
THEOREM PinTypeCorrect == PinsSpec => [](CustomPinsTypeOK /\ PinsInUse)
<1>1. PinsInit => CustomPinsTypeOK /\ PinsInUse
  <2>. SUFFICES ASSUME PinsInit PROVE CustomPinsTypeOK /\ PinsInUse
    OBVIOUS
  <2>1. /\ 0 \in Time /\ NoLayout \in Layout /\ EndOfCycle \in 0 .. EndOfCycle /\ 0 \in Rules
        /\ 0 \in 0 .. MaxEvents /\ [pins |-> NoLayout.pins, rules |-> NoLayout.rules] \in Layout
    BY WrapAssumption, CustomPinsAssumption DEF Time, Layout, NoLayout, EndOfCycle, Rules
  <2>2. ~Writing("web")
    BY CustomPinsAssumption DEF PinsInit, Writing
  <2>. QED  BY <2>1, <2>2 DEF PinsInit, CustomPinsTypeOK, ExpanderTypeOK, PinsInUse, FillInv
<1>2. CustomPinsTypeOK /\ PinsInUse /\ [PinsNext]_pinVars => CustomPinsTypeOK' /\ PinsInUse'
  BY PinTypeStep
<1>. QED  BY <1>1, <1>2, PTL DEF PinsSpec

-------------------------------------------------------------------------------
(* Debounce.                                                               *)

(* The timer of a rule that does not depend on the engine never runs ahead *)
(* of its evaluations: it shows at most the time they have wanted the rule *)
(* switched, until that is long enough.  The time they have wanted it is   *)
(* capped at debounceMs, so the timer may wrap without harm.  A timer that *)
(* an evaluation which met a post has set may run in any rule, one that is *)
(* not in use included.                                                    *)
Timed(r) ==
    (rules[r].enabled => ~rules[r].requireRunning) /\ debounceStart[r] # 0
        => \/ streak[r] = Mixed
           \/ /\ rules[r].enabled /\ rules[r].debounceMs > 0
              /\ \/ streak[r] >= rules[r].debounceMs
                 \/ streak[r] # NoStreak /\ Elapsed(now, debounceStart[r]) <= streak[r]

StreakInv == \A r \in Rules : Timed(r)

(* The evaluation of a rule keeps that, and turns it only in time. *)
LEMMA EvaluateStreak ==
    ASSUME CustomPinsTypeOK, StreakInv, NEW r \in Rules, Evaluate(r)
    PROVE  /\ StreakInv'
           /\ (/\ torn = {} /\ streak[r] # Mixed
               /\ rules[r].enabled /\ ~rules[r].requireRunning /\ (r \in active) # (r \in active'))
                => rules[r].debounceMs = 0 \/ streak[r] >= rules[r].debounceMs
<1>0. /\ debounceStart \in [Rules -> Time] /\ streak \in [Rules -> {NoStreak, Mixed} \cup Time]
      /\ now \in Time /\ \A x \in Time : x \in Nat
  BY WrapAssumption DEF CustomPinsTypeOK, Time
<1>1. RuleStep(r)
  BY DEF Evaluate, EvaluateTorn, ReleaseStopped, LeaveAlone, Agree, Debounce, Switch
<1>2. now' = now /\ rules' = rules
  BY <1>1 DEF RuleStep, layoutVars
<1>3. \A q \in Rules \ {r} : debounceStart'[q] = debounceStart[q] /\ streak'[q] = streak[q]
  BY <1>0 DEF Evaluate, EvaluateTorn, ReleaseStopped, LeaveAlone, Agree, Debounce, Switch, Turn, ruleVars
<1>4. \A q \in Rules \ {r} : Timed(q)'
  <2>1. ASSUME NEW q \in Rules \ {r} PROVE Timed(q)'
    <3>1. Timed(q)
      BY DEF StreakInv
    <3>. QED  BY <1>2, <1>3, <3>1 DEF Timed
  <2>. QED  BY <2>1
<1>. DEFINE InTime ==
              (/\ torn = {} /\ streak[r] # Mixed
               /\ rules[r].enabled /\ ~rules[r].requireRunning /\ (r \in active) # (r \in active'))
                        => rules[r].debounceMs = 0 \/ streak[r] >= rules[r].debounceMs
<1>5. Timed(r)' /\ InTime
  <2>1. CASE ReleaseStopped(r)
    BY <1>2, <2>1 DEF ReleaseStopped, Timed
  <2>2. ASSUME NEW verdict \in Verdicts, LeaveAlone(r, verdict) PROVE Timed(r)' /\ InTime
    <3>1. UNCHANGED <<debounceStart, streak, active>>
      BY <2>2 DEF LeaveAlone, ruleVars
    <3>. QED  BY <1>2, <3>1 DEF StreakInv, Timed
  <2>3. ASSUME NEW verdict \in Verdicts, Agree(r, verdict) PROVE Timed(r)' /\ InTime
    BY <1>0, <2>3 DEF Agree, Timed
  <2>4. ASSUME NEW verdict \in Verdicts, Debounce(r, verdict) PROVE Timed(r)' /\ InTime
    <3>1. /\ rules[r].enabled /\ active' = active /\ rules[r].debounceMs > 0
          /\ streak'[r] = IF streak[r] = NoStreak THEN 0 ELSE streak[r]
      BY <1>0, <2>4 DEF Debounce
    <3>2. rules[r].debounceMs \in Time
      BY <3>1, EnabledRule
    <3>0. CASE streak[r] = Mixed
      BY <3>1, <3>0 DEF Timed, NoStreak, Mixed
    <3>3. CASE debounceStart[r] = 0 /\ debounceStart'[r] = now /\ streak[r] # Mixed
      <4>1. PICK n \in Nat : streak'[r] = n
        <5>1. streak[r] # NoStreak => streak[r] \in Nat
          BY <1>0, <3>3
        <5>. QED  BY <3>1, <5>1
      <4>2. n # NoStreak /\ Elapsed(now, now) <= n
        BY <1>0 DEF Elapsed, NoStreak
      <4>. QED  BY <1>2, <3>1, <3>3, <4>1, <4>2 DEF Timed
    <3>4. CASE debounceStart'[r] = debounceStart[r] /\ streak[r] # Mixed
      <4>1. CASE streak[r] = NoStreak
        <5>1. ~(streak[r] >= rules[r].debounceMs)
          <6>1. rules[r].debounceMs \in Nat
            BY <1>0, <3>2
          <6>. QED  BY <4>1, <6>1 DEF NoStreak
        <5>. QED  BY <1>2, <3>1, <3>4, <4>1, <5>1 DEF StreakInv, Timed
      <4>2. CASE streak[r] # NoStreak
        <5>1. streak'[r] = streak[r]
          BY <3>1, <4>2
        <5>. QED  BY <1>2, <3>1, <3>4, <5>1 DEF StreakInv, Timed
      <4>. QED  BY <4>1, <4>2
    <3>5. \/ debounceStart'[r] = now /\ debounceStart[r] = 0
          \/ debounceStart'[r] = debounceStart[r]
      BY <1>0, <2>4 DEF Debounce
    <3>. QED  BY <3>0, <3>3, <3>4, <3>5
  <2>5. ASSUME NEW verdict \in Verdicts, Switch(r, verdict) PROVE Timed(r)' /\ InTime
    <3>1. rules[r].enabled
      BY <2>5 DEF Switch
    <3>2. rules[r].debounceMs \in Time
      BY <3>1, EnabledRule
    <3>3. CASE rules[r].debounceMs = 0 /\ UNCHANGED debounceStart
      <4>1. streak'[r] = IF streak[r] = Mixed /\ debounceStart'[r] # 0 THEN Mixed ELSE NoStreak
        BY <1>0, <2>5 DEF Switch, Turn
      <4>2. ~(rules[r].debounceMs > 0)
        BY <3>3
      <4>. QED  BY <1>2, <3>1, <3>3, <4>1, <4>2 DEF StreakInv, Timed
    <3>4. CASE /\ rules[r].debounceMs > 0 /\ debounceStart[r] # 0
               /\ Elapsed(now, debounceStart[r]) >= rules[r].debounceMs
               /\ debounceStart' = [debounceStart EXCEPT ![r] = 0]
      <4>1. Timed(r)'
        BY <1>0, <3>4 DEF Timed
      <4>2. ASSUME ~rules[r].requireRunning, streak[r] # Mixed PROVE streak[r] >= rules[r].debounceMs
        <5>1. \/ streak[r] >= rules[r].debounceMs
              \/ streak[r] # NoStreak /\ Elapsed(now, debounceStart[r]) <= streak[r]
          BY <3>1, <3>4, <4>2 DEF StreakInv, Timed
        <5>2. Elapsed(now, debounceStart[r]) \in Int
          BY <1>0, ElapsedIsInt
        <5>3. streak[r] \in Int
          <6>1. NoStreak \in Int /\ Mixed \in Int
            BY DEF NoStreak, Mixed
          <6>. QED  BY <1>0, <6>1
        <5>4. rules[r].debounceMs \in Int
          BY <1>0, <3>2
        <5>. QED  BY <3>4, <5>1, <5>2, <5>3, <5>4
      <4>. QED  BY <4>1, <4>2
    <3>. QED  BY <2>5, <3>3, <3>4 DEF Switch
  <2>6. CASE EvaluateTorn(r)
    <3>1. torn # {} /\ streak'[r] = IF debounceStart'[r] = 0 THEN NoStreak ELSE Mixed
      BY <1>0, <2>6 DEF EvaluateTorn
    <3>. QED  BY <3>1 DEF Timed
  <2>. HIDE DEF InTime
  <2>. QED  BY <2>1, <2>2, <2>3, <2>4, <2>5, <2>6 DEF Evaluate
<1>. QED  BY <1>4, <1>5 DEF StreakInv

(* So do the other steps, and they turn no rule but at a restart or a post. *)
LEMMA StreakStep ==
    ASSUME CustomPinsTypeOK, PinsInUse, StreakInv, [PinsNext]_pinVars
    PROVE  /\ StreakInv'
           /\ \/ UNCHANGED active \/ events' # events \/ at' = at
              \/ \E r \in Rules : Evaluate(r)
<1>. USE DEF chipVars, layoutVars, ruleVars, webVars
<1>1. ASSUME NEW d \in 1 .. MaxPeriod, BeginCycle(d) PROVE StreakInv' /\ UNCHANGED active
  <2>1. /\ now' = Later(now, d) /\ UNCHANGED <<rules, debounceStart, active>>
        /\ streak' = [r \in Rules |-> IF streak[r] \in {NoStreak, Mixed} \/ ~rules[r].enabled
                                      THEN streak[r] ELSE Least(streak[r] + d, rules[r].debounceMs)]
    BY <1>1 DEF BeginCycle
  <2>2. d \in 0 .. Wrap - 1 /\ d \in Int /\ d >= 0
    BY CustomPinsAssumption, WrapAssumption
  <2>3. ASSUME NEW r \in Rules, rules[r].enabled, ~rules[r].requireRunning,
               rules[r].debounceMs > 0, debounceStart[r] # 0, streak[r] # Mixed
        PROVE  \/ streak'[r] >= rules[r].debounceMs
               \/ streak'[r] # NoStreak /\ Elapsed(Later(now, d), debounceStart[r]) <= streak'[r]
    <3>1. /\ now \in Time /\ debounceStart[r] \in Time /\ streak[r] \in {NoStreak, Mixed} \cup Time
          /\ rules[r].debounceMs \in Time /\ \A x \in Time : x \in Nat
      BY <2>3, EnabledRule, WrapAssumption DEF CustomPinsTypeOK, Time
    <3>2. /\ Elapsed(now, debounceStart[r]) \in Int /\ Elapsed(Later(now, d), debounceStart[r]) \in Int
          /\ Elapsed(Later(now, d), debounceStart[r]) <= Elapsed(now, debounceStart[r]) + d
      BY <2>2, <3>1, ElapsedGrows
    <3>3. \/ streak[r] >= rules[r].debounceMs
          \/ streak[r] # NoStreak /\ Elapsed(now, debounceStart[r]) <= streak[r]
      BY <2>3 DEF StreakInv, Timed
    <3>4. streak[r] # NoStreak
      <4>1. rules[r].debounceMs \in Nat
        BY <3>1
      <4>. QED  BY <2>3, <3>3, <4>1 DEF NoStreak
    <3>5. streak[r] \in Time /\ streak'[r] = Least(streak[r] + d, rules[r].debounceMs)
      BY <2>1, <2>3, <3>1, <3>4
    <3>6. streak[r] \in Nat /\ rules[r].debounceMs \in Nat
      BY <3>1, <3>5
    <3>7. CASE streak[r] + d >= rules[r].debounceMs
      <4>1. Least(streak[r] + d, rules[r].debounceMs) = rules[r].debounceMs
        BY <2>2, <3>6, <3>7 DEF Least
      <4>2. rules[r].debounceMs >= rules[r].debounceMs
        BY <3>6
      <4>. QED  BY <3>5, <4>1, <4>2
    <3>8. CASE ~(streak[r] + d >= rules[r].debounceMs)
      <4>1. Least(streak[r] + d, rules[r].debounceMs) = streak[r] + d /\ streak[r] + d # NoStreak
        BY <2>2, <3>6, <3>8 DEF Least, NoStreak
      <4>2. Elapsed(now, debounceStart[r]) <= streak[r]
        BY <2>2, <3>3, <3>6, <3>8
      <4>3. Elapsed(Later(now, d), debounceStart[r]) <= streak[r] + d
        BY <2>2, <3>2, <3>6, <4>2
      <4>. QED  BY <3>5, <4>1, <4>3
    <3>. QED  BY <3>7, <3>8
  <2>4. ASSUME NEW r \in Rules, streak[r] = Mixed \/ ~rules[r].enabled PROVE streak'[r] = streak[r]
    BY <2>1, <2>4
  <2>. QED  BY <2>1, <2>3, <2>4 DEF StreakInv, Timed
<1>2. CASE \E r \in Rules : Evaluate(r)
  BY <1>2, EvaluateStreak
<1>3. CASE SetOutput \/ LoopWrites \/ WebWrites \/ InitPin \/ InitPinDone \/ SaveOpens \/ SaveWrites
           \/ SetByHandDone \/ (\E s \in Slots, high \in BOOLEAN : SetByHand(s, high))
           \/ UNCHANGED pinVars
  <2>1. UNCHANGED <<now, rules, debounceStart, streak, active>>
    BY <1>3 DEF SetOutput, LoopWrites, WebWrites, InitPin, InitPinDone, SaveOpens, SaveWrites,
                SetByHandDone, SetByHand, pinVars
  <2>. QED  BY <2>1 DEF StreakInv, Timed
<1>4. CASE \E layout \in Layouts : Post(layout)
  <2>1. UNCHANGED <<now, rules, debounceStart, streak, active>>
    BY <1>4 DEF Post
  <2>. QED  BY <2>1 DEF StreakInv, Timed
<1>5. CASE Restart
  <2>1. debounceStart' = [r \in Rules |-> 0]
    BY <1>5 DEF Restart, Setup
  <2>2. events' # events
    BY <1>5 DEF Restart, CustomPinsTypeOK
  <2>. QED  BY <2>1, <2>2 DEF StreakInv, Timed
<1>6. CASE ClearRule
  <2>1. /\ filling \in Rules /\ at' = at /\ now' = now
        /\ rules' = [rules EXCEPT ![filling] = NoRule]
        /\ debounceStart' = [debounceStart EXCEPT ![filling] = 0]
        /\ streak' = [streak EXCEPT ![filling] = NoStreak]
    BY <1>6 DEF ClearRule, CustomPinsTypeOK
  <2>2. debounceStart \in [Rules -> Time] /\ rules \in [Rules -> Rule \cup {NoRule}]
    BY DEF CustomPinsTypeOK, Layout
  <2>3. debounceStart'[filling] = 0
    BY <2>1, <2>2
  <2>4. \A r \in Rules \ {filling} : /\ rules'[r] = rules[r] /\ debounceStart'[r] = debounceStart[r]
                                     /\ streak'[r] = streak[r]
    BY <2>1, <2>2 DEF CustomPinsTypeOK
  <2>5. ASSUME NEW r \in Rules PROVE Timed(r)'
    BY <2>1, <2>3, <2>4 DEF StreakInv, Timed
  <2>. QED  BY <2>1, <2>5 DEF StreakInv
<1>7. CASE FillRule
  <2>1. /\ filling \in Rules /\ web = "rules" /\ rules[filling] # posted.rules[filling]
        /\ rules' = [rules EXCEPT ![filling] = Filled(@, posted.rules[filling])]
        /\ UNCHANGED <<at, now, active, debounceStart, streak, filling>>
    BY <1>7 DEF FillRule, CustomPinsTypeOK
  <2>2. PICK new : new = Filled(rules[filling], posted.rules[filling])
    OBVIOUS
  <2>3. rules[filling] \in Rule \cup {NoRule} /\ posted.rules[filling] \in Rule \cup {NoRule}
    BY <2>1 DEF CustomPinsTypeOK, Layout
  <2>4. rules[filling] # NoRule =>
             /\ posted.rules[filling].enabled /\ rules[filling].targetPin = posted.rules[filling].targetPin
             /\ rules[filling].debounceMs \in {0, posted.rules[filling].debounceMs}
             /\ ~rules[filling].requireRunning
    BY <2>1 DEF PinsInUse, FillInv
  <2>5. /\ new \in Rule
        /\ rules[filling] # NoRule /\ rules[filling].debounceMs > 0
              => new.debounceMs = rules[filling].debounceMs
    BY <2>1, <2>2, <2>3, <2>4, FilledIs
  <2>6. /\ rules'[filling] = new
        /\ \A r \in Rules \ {filling} : rules'[r] = rules[r]
    BY <2>1, <2>2 DEF CustomPinsTypeOK, Layout
  <2>7. Timed(filling)'
    <3>1. new.enabled
      BY <2>5 DEF Rule
    <3>2. ~NoRule.enabled
      BY DEF NoRule
    <3>3. Timed(filling)
      BY <2>1 DEF StreakInv
    <3>4. rules[filling] # NoRule => ~rules[filling].requireRunning
      BY <2>4
    <3>5. CASE debounceStart[filling] = 0 \/ streak[filling] = Mixed
      BY <2>1, <3>5 DEF Timed
    <3>6. CASE debounceStart[filling] # 0 /\ streak[filling] # Mixed
      <4>1. /\ rules[filling] # NoRule /\ rules[filling].debounceMs > 0
            /\ \/ streak[filling] >= rules[filling].debounceMs
               \/ streak[filling] # NoStreak /\ Elapsed(now, debounceStart[filling]) <= streak[filling]
        BY <3>2, <3>3, <3>4, <3>6 DEF Timed
      <4>2. new.debounceMs = rules[filling].debounceMs
        BY <2>5, <4>1
      <4>. QED  BY <2>1, <2>6, <3>1, <4>1, <4>2 DEF Timed
    <3>. QED  BY <3>5, <3>6
  <2>8. ASSUME NEW r \in Rules \ {filling} PROVE Timed(r)'
    BY <2>1, <2>6 DEF StreakInv, Timed
  <2>. QED  BY <2>1, <2>7, <2>8 DEF StreakInv
<1>8. CASE RuleFilled
  <2>1. UNCHANGED <<now, rules, debounceStart, streak, active>>
    BY <1>8 DEF RuleFilled
  <2>. QED  BY <2>1 DEF StreakInv, Timed
<1>. QED  BY <1>1, <1>2, <1>3, <1>4, <1>5, <1>6, <1>7, <1>8 DEF PinsNext, Cycle, Serve

(* CustomPin.cpp:437: whatever the periods of the cycle, gates that close  *)
(* and open, the wrap of millis() and posts that rewrite the rules while   *)
(* they are evaluated, a rule that does not depend on the engine turns     *)
(* only once its evaluations have asked for it for debounceMs, unless the  *)
(* evaluation, or the one that began its debounce, met a post.             *)
THEOREM SwitchWaitsForDebounce == PinsSpec => SwitchIsDebounced
<1>. DEFINE InTime == \A r \in Rules :
        (/\ at = r /\ at' = r + 1 /\ events' = events
         /\ torn = {} /\ streak[r] # Mixed
         /\ rules[r].enabled /\ ~rules[r].requireRunning
         /\ (r \in active) # (r \in active'))
            => rules[r].debounceMs = 0 \/ streak[r] >= rules[r].debounceMs
<1>1. PinsInit => StreakInv
  BY DEF PinsInit, StreakInv, Timed
<1>2. CustomPinsTypeOK /\ PinsInUse /\ StreakInv /\ [PinsNext]_pinVars => StreakInv' /\ InTime
  <2>. SUFFICES ASSUME CustomPinsTypeOK, PinsInUse, StreakInv, [PinsNext]_pinVars PROVE StreakInv' /\ InTime
    OBVIOUS
  <2>1. StreakInv'
    BY StreakStep
  <2>2. ASSUME NEW r \in Rules, at = r, at' = r + 1, events' = events, torn = {}, streak[r] # Mixed,
               rules[r].enabled, ~rules[r].requireRunning, (r \in active) # (r \in active')
        PROVE  rules[r].debounceMs = 0 \/ streak[r] >= rules[r].debounceMs
    <3>1. at' # at
      BY <2>2, CustomPinsAssumption DEF Rules
    <3>2. PICK q \in Rules : Evaluate(q)
      BY <2>2, <3>1, StreakStep
    <3>3. q = r
      BY <2>2, <3>2 DEF Evaluate, EvaluateTorn, ReleaseStopped, LeaveAlone, Agree, Debounce, Switch, RuleStep, Evaluating
    <3>. QED  BY <2>2, <3>2, <3>3, EvaluateStreak
  <2>. QED  BY <2>1, <2>2
<1>3. StreakInv /\ CustomPinsTypeOK /\ PinsInUse /\ [PinsNext]_pinVars => [InTime]_pinVars
  BY <1>2
<1>4. PinsSpec => [](CustomPinsTypeOK /\ PinsInUse)
  BY PinTypeCorrect, PTL
<1>. HIDE DEF InTime
<1>5. PinsSpec => [][InTime]_pinVars
  BY <1>1, <1>2, <1>3, <1>4, PTL DEF PinsSpec
<1>. QED  BY <1>5 DEF SwitchIsDebounced, InTime

-------------------------------------------------------------------------------
(* Outputs follow their rules.                                             *)

(* The layouts in memory, on their way and in the file have one rule a pin. *)
OneInv == OneRulePerPin(InMemory) /\ OneRulePerPin(posted) /\ OneRulePerPin(file)

(* While a layout is being replaced, a call of setOutput that is on its    *)
(* way has put every pin astray, and begin() has put astray the pins whose *)
(* rule wants them high, which it drives low.                              *)
StrayInv ==
    /\ web \in Replacing /\ out # NoCallOut => astray = Pins
    /\ web \in {"begin", "init"} => WantedHigh(InMemory, active) \subseteq astray

(* The value that goes with the state of a rule. *)
Value(r) == IF r \in active THEN rules[r].onValue ELSE rules[r].offValue

(* A slot that has been driven since its layout came: it is initialised,   *)
(* or initPin is just driving it.                                          *)
Driven(s) == s \in initialized \/ (web = "init" /\ s = NextSlot)

OnItsWay(s) == out # NoCallOut /\ out[1] = s

(* A pin that is not astray has last been commanded the value of its rule, *)
(* or the call of setOutput that will is on its way.                       *)
Followed(r) ==
    LET s == rules[r].targetPin
    IN  Driven(s) /\ pins[s] \notin astray =>
            /\ OnItsWay(s) => out[2] = Value(r)
            /\ ~OnItsWay(s) => (pins[s] \in wanted <=> Value(r))

FollowInv == OneInv /\ StrayInv /\ \A r \in Rules : rules[r].enabled => Followed(r)

(* The value of a rule is a level. *)
LEMMA ValueIsLevel ==
    ASSUME CustomPinsTypeOK, NEW r \in Rules, rules[r].enabled
    PROVE  Value(r) \in BOOLEAN
BY EnabledRule, Zenon DEF Value

(* A slot that has been driven is in use. *)
LEMMA DrivenHasPin ==
    ASSUME CustomPinsTypeOK, PinsInUse, NEW s, Driven(s)
    PROVE  s \in Slots /\ pins[s] \in Pins /\ pins[s] # NoPin
<1>1. s \in Slots /\ pins[s] # NoPin
  BY NextSlotIsOne DEF Driven, PinsInUse, Uninitialized, CustomPinsTypeOK
<1>. QED  BY <1>1 DEF CustomPinsTypeOK, Layout

(* And no other slot holds its pin. *)
LEMMA OwnPin ==
    ASSUME OneInv, NEW s \in Slots, NEW u \in Slots, pins[s] # NoPin, pins[s] = pins[u]
    PROVE  s = u
BY DEF OneInv, OneRulePerPin, InMemory

(* No other rule switches the slot of a rule. *)
LEMMA OwnRule ==
    ASSUME OneInv, NEW q \in Rules, NEW r \in Rules, rules[q].enabled, rules[r].enabled, q # r
    PROVE  rules[q].targetPin # rules[r].targetPin
BY DEF OneInv, OneRulePerPin, InMemory

(* A rule of value high is among those begin() drives against. *)
LEMMA HighIsWanted ==
    ASSUME NEW layout, NEW on, NEW r \in Rules, layout.rules[r].enabled,
           layout.pins[layout.rules[r].targetPin] \in Pins \ WantedHigh(layout, on)
    PROVE  ~(IF r \in on THEN layout.rules[r].onValue ELSE layout.rules[r].offValue)
BY Zenon DEF WantedHigh

(* What a write does to the register. *)
LEMMA WithIs ==
    ASSUME NEW word, NEW pin, NEW high
    PROVE  /\ high => pin \in With(word, pin, high)
           /\ ~high => pin \notin With(word, pin, high)
           /\ \A p : p # pin => (p \in With(word, pin, high) <=> p \in word)
BY DEF With

(* Steps that leave rules, pins and levels alone. *)
LEMMA FollowFrame ==
    ASSUME FollowInv, OneInv', web' \in {web, "write", "idle"},
           UNCHANGED <<pins, rules, initialized, active, out, astray, wanted>>
    PROVE  FollowInv'
<1>1. StrayInv'
  BY DEF FollowInv, StrayInv, Replacing, InMemory, WantedHigh
<1>2. \A s : Driven(s)' => Driven(s)
  BY DEF Driven, NextSlot, Uninitialized
<1>3. ASSUME NEW r \in Rules, rules'[r].enabled PROVE Followed(r)'
  <2>1. Followed(r)
    BY <1>3 DEF FollowInv
  <2>2. Value(r)' = Value(r) /\ (\A s : OnItsWay(s)' <=> OnItsWay(s))
    BY DEF Value, OnItsWay
  <2>. QED  BY <1>2, <2>1, <2>2 DEF Followed
<1>. QED  BY <1>1, <1>3 DEF FollowInv

(* A rule is turned: its call is on its way. *)
LEMMA FollowTurn ==
    ASSUME CustomPinsTypeOK, PinsInUse, FollowInv, NEW q \in Rules, rules[q].enabled,
           RuleStep(q), Turn(q)
    PROVE  FollowInv'
<1>1. /\ out = NoCallOut
      /\ UNCHANGED <<pins, rules, initialized, web, posted, file, wanted>>
  BY DEF RuleStep, Evaluating, chipVars, layoutVars, webVars
<1>2. OneInv'
  BY <1>1 DEF FollowInv, OneInv, InMemory
<1>3. rules[q].targetPin \in Slots
  BY EnabledRule
<1>4. StrayInv'
  <2>1. web' \in Replacing => astray' = Pins
    BY <1>1 DEF Turn
  <2>. QED  BY <2>1, WantedHighArePins DEF StrayInv, Replacing
<1>5. \A s : Driven(s)' => Driven(s)
  BY <1>1 DEF Driven, NextSlot, Uninitialized
<1>6. ASSUME NEW r \in Rules, rules'[r].enabled PROVE Followed(r)'
  <2>. DEFINE s == rules[r].targetPin
  <2>0. rules[r].enabled /\ s \in Slots
    BY <1>1, <1>6, EnabledRule
  <2>. SUFFICES ASSUME Driven(s), pins[s] \notin astray'
                PROVE  /\ OnItsWay(s)' => out'[2] = Value(r)'
                       /\ ~OnItsWay(s)' => (pins[s] \in wanted <=> Value(r)')
    BY <1>1, <1>5 DEF Followed
  <2>1. pins[s] \in Pins /\ pins[s] # NoPin
    BY DrivenHasPin
  <2>2. astray' = astray \ {pins[rules[q].targetPin]}
    BY <2>1 DEF Turn
  <2>3. CASE r = q
    <3>0. \A a, b : <<a, b>> # <<>>
      OBVIOUS
    <3>1. OnItsWay(s)' /\ out'[2] = IF q \notin active THEN rules[q].onValue ELSE rules[q].offValue
      <4>1. PICK v : v = IF q \notin active THEN rules[q].onValue ELSE rules[q].offValue
        OBVIOUS
      <4>2. out' = <<rules[q].targetPin, v>>
        BY <4>1 DEF Turn
      <4>3. out' # NoCallOut /\ out'[1] = rules[q].targetPin /\ out'[2] = v
        BY <3>0, <4>2 DEF NoCallOut
      <4>4. OnItsWay(s)'
        BY <1>1, <2>3, <4>3, Zenon DEF OnItsWay
      <4>. QED  BY <4>1, <4>3, <4>4, Zenon
    <3>2. q \in active' <=> q \notin active
      BY DEF Turn
    <3>3. out'[2] = Value(r)'
      BY <1>1, <2>3, <3>1, <3>2 DEF Value
    <3>. QED  BY <3>1, <3>3
  <2>4. CASE r # q
    <3>1. s # rules[q].targetPin
      BY <2>0, <2>4, OwnRule DEF FollowInv
    <3>2. pins[s] # pins[rules[q].targetPin]
      BY <1>3, <2>0, <2>1, <3>1, OwnPin DEF FollowInv
    <3>3. pins[s] \notin astray
      BY <2>2, <3>2
    <3>4. ~OnItsWay(s)' /\ ~OnItsWay(s)
      BY <1>1, <3>1 DEF Turn, OnItsWay
    <3>5. Value(r)' = Value(r)
      <4>1. r \in active' <=> r \in active
        BY <2>4 DEF Turn
      <4>. QED  BY <1>1, <4>1 DEF Value
    <3>6. pins[s] \in wanted <=> Value(r)
      BY <2>0, <3>3, <3>4 DEF FollowInv, Followed
    <3>. QED  BY <3>4, <3>5, <3>6
  <2>. QED  BY <2>3, <2>4
<1>. QED  BY <1>2, <1>4, <1>6 DEF FollowInv

(* The evaluation of a rule. *)
LEMMA FollowEvaluate ==
    ASSUME CustomPinsTypeOK, PinsInUse, FollowInv, NEW r \in Rules, Evaluate(r)
    PROVE  FollowInv'
<1>1. RuleStep(r)
  BY DEF Evaluate, EvaluateTorn, ReleaseStopped, LeaveAlone, Agree, Debounce, Switch
<1>2. CASE UNCHANGED <<active, out, astray>>
  <2>1. UNCHANGED <<pins, rules, initialized, active, out, astray, wanted, web, posted, file>>
    BY <1>1, <1>2 DEF RuleStep, chipVars, layoutVars, webVars
  <2>2. OneInv'
    BY <2>1 DEF FollowInv, OneInv, InMemory
  <2>. QED  BY <2>1, <2>2, FollowFrame
<1>3. CASE rules[r].enabled /\ Turn(r)
  BY <1>1, <1>3, FollowTurn
<1>4. CASE EvaluateTorn(r) /\ astray' = Pins
  <2>1. UNCHANGED <<pins, rules, initialized, web, posted, file>>
    BY <1>1 DEF RuleStep, layoutVars, webVars
  <2>2. OneInv'
    BY <2>1 DEF FollowInv, OneInv, InMemory
  <2>3. StrayInv'
    BY <1>4, WantedHighArePins DEF StrayInv
  <2>4. \A s : Driven(s)' => pins'[s] \in astray'
    <3>1. \A s : Driven(s)' => Driven(s)
      BY <2>1 DEF Driven, NextSlot, Uninitialized
    <3>. QED  BY <1>4, <2>1, <3>1, DrivenHasPin
  <2>. QED  BY <2>2, <2>3, <2>4 DEF FollowInv, Followed
<1>5. CASE EvaluateTorn(r)
  BY <1>2, <1>4, <1>5 DEF EvaluateTorn
<1>. QED  BY <1>2, <1>3, <1>5 DEF Evaluate, ReleaseStopped, LeaveAlone, Agree, Debounce, Switch, ruleVars

(* setOutput: the call that was on its way reaches its pin, if the slot is *)
(* still in use.                                                           *)
LEMMA FollowSetOutput ==
    ASSUME CustomPinsTypeOK, PinsInUse, FollowInv, SetOutput
    PROVE  FollowInv'
<1>1. /\ out # NoCallOut /\ out' = NoCallOut
      /\ UNCHANGED <<pins, rules, initialized, active, web, posted, file, astray>>
  BY DEF SetOutput, layoutVars, ruleVars, webVars
<1>2. out \in Slots \X BOOLEAN
  BY <1>1 DEF CustomPinsTypeOK
<1>3. out[1] \in Slots /\ out[2] \in BOOLEAN
  BY <1>2
<1>4. OneInv'
  BY <1>1 DEF FollowInv, OneInv, InMemory
<1>5. StrayInv'
  BY <1>1 DEF FollowInv, StrayInv, InMemory, WantedHigh
<1>6. \A s : (Driven(s)' <=> Driven(s)) /\ ~OnItsWay(s)'
  BY <1>1 DEF Driven, NextSlot, Uninitialized, OnItsWay
<1>7. ASSUME NEW r \in Rules, rules'[r].enabled PROVE Followed(r)'
  <2>. DEFINE s == rules[r].targetPin
  <2>0. rules[r].enabled /\ s \in Slots
    BY <1>1, <1>7, EnabledRule
  <2>1. Value(r)' = Value(r)
    BY <1>1 DEF Value
  <2>. SUFFICES ASSUME Driven(s), pins[s] \notin astray
                PROVE  pins[s] \in wanted' <=> Value(r)
    BY <1>1, <1>6, <2>1 DEF Followed
  <2>2. pins[s] \in Pins /\ pins[s] # NoPin
    BY DrivenHasPin
  <2>3. /\ OnItsWay(s) => out[2] = Value(r)
        /\ ~OnItsWay(s) => (pins[s] \in wanted <=> Value(r))
    BY <2>0 DEF FollowInv, Followed
  <2>4. CASE out[1] = s
    <3>1. out[2] = Value(r)
      BY <1>1, <2>3, <2>4 DEF OnItsWay
    <3>2. s \in initialized
      BY <1>1, <2>2 DEF FollowInv, StrayInv, Replacing, Driven
    <3>3. WriteBegins("loop", pins[s], out[2])
      BY <2>2, <2>4, <3>2 DEF SetOutput
    <3>4. wanted' = With(wanted, pins[s], out[2])
      BY <3>3 DEF WriteBegins
    <3>5. pins[s] \in wanted' <=> out[2]
      BY <1>3, <3>4, WithIs
    <3>. QED  BY <3>1, <3>5
  <2>5. CASE out[1] # s
    <3>1. pins[s] \in wanted <=> Value(r)
      BY <2>3, <2>5 DEF OnItsWay
    <3>2. CASE UNCHANGED chipVars
      BY <3>1, <3>2 DEF chipVars
    <3>3. CASE WriteBegins("loop", pins[out[1]], out[2])
      <4>1. wanted' = With(wanted, pins[out[1]], out[2])
        BY <3>3 DEF WriteBegins
      <4>2. pins[s] # pins[out[1]]
        BY <1>3, <2>0, <2>2, <2>5, OwnPin DEF FollowInv
      <4>3. pins[s] \in wanted' <=> pins[s] \in wanted
        BY <4>1, <4>2, WithIs
      <4>. QED  BY <3>1, <4>3
    <3>. QED  BY <3>2, <3>3 DEF SetOutput
  <2>. QED  BY <2>4, <2>5
<1>. QED  BY <1>4, <1>5, <1>7 DEF FollowInv

(* A layout comes in: no slot has been driven since. *)
LEMMA FollowPost ==
    ASSUME CustomPinsTypeOK, PinsInUse, FollowInv, NEW layout, OneRulePerPin(layout), Post(layout)
    PROVE  FollowInv'
<1>1. /\ initialized' = {} /\ pins' = layout.pins /\ web' = "clear" /\ posted' = layout
      /\ astray' = (IF out # NoCallOut THEN Pins ELSE astray)
      /\ UNCHANGED <<rules, active, out, file>>
  BY DEF Post, ruleVars
<1>2. OneInv'
  BY <1>1 DEF FollowInv, OneInv, OneRulePerPin, InMemory
<1>3. StrayInv'
  BY <1>1 DEF StrayInv
<1>4. \A s : ~Driven(s)'
  BY <1>1 DEF Driven
<1>. QED  BY <1>2, <1>3, <1>4 DEF FollowInv, Followed

(* Its rules are cleared, and filled: one that is has the target it will *)
(* keep, so no two have one.                                              *)
LEMMA FollowFill ==
    ASSUME CustomPinsTypeOK, PinsInUse, FollowInv, ClearRule \/ FillRule \/ RuleFilled
    PROVE  FollowInv'
<1>1. /\ initialized = {} /\ initialized' = {} /\ pins' = pins
      /\ web \in {"clear", "rules"} /\ web' \in {"clear", "rules", "begin"}
      /\ UNCHANGED <<out, posted, file>>
  BY DEF ClearRule, FillRule, RuleFilled, RuleDone, PinsInUse, layoutVars, webVars
<1>2. OneRulePerPin(InMemory)'
  <2>0. rules \in [Rules -> Rule \cup {NoRule}] /\ filling \in Rules /\ ~NoRule.enabled
    BY DEF CustomPinsTypeOK, Layout, NoRule
  <2>1. CASE ClearRule \/ RuleFilled
    <3>1. \A r \in Rules : rules'[r].enabled => rules'[r] = rules[r]
      BY <2>0, <2>1 DEF ClearRule, RuleFilled, layoutVars
    <3>. QED  BY <1>1, <3>1 DEF FollowInv, OneInv, OneRulePerPin, InMemory
  <2>2. CASE FillRule
    <3>1. \A r \in Rules : rules'[r].enabled => /\ posted.rules[r].enabled
                                                /\ rules'[r].targetPin = posted.rules[r].targetPin
      <4>1. web' = "rules" /\ FillInv'
        BY <2>2, FillTypes DEF FillRule, PinsInUse, webVars
      <4>. QED  BY <1>1, <2>0, <4>1 DEF FillInv
    <3>. QED  BY <1>1, <3>1 DEF FollowInv, OneInv, OneRulePerPin, InMemory
  <2>. QED  BY <2>1, <2>2
<1>3. OneInv'
  BY <1>1, <1>2 DEF FollowInv, OneInv, OneRulePerPin
<1>4. StrayInv'
  <2>1. CASE web' \in {"clear", "rules"}
    <3>1. astray' = astray
      BY <2>1 DEF ClearRule, FillRule, RuleFilled, RuleDone
    <3>. QED  BY <1>1, <2>1, <3>1 DEF FollowInv, StrayInv, Replacing
  <2>2. CASE web' = "begin"
    <3>1. /\ UNCHANGED <<rules, active>>
          /\ astray' = IF out # NoCallOut THEN Pins ELSE WantedHigh([pins |-> pins, rules |-> rules], active)
      BY <1>1, <2>2 DEF ClearRule, FillRule, RuleFilled, RuleDone, layoutVars, ruleVars, webVars
    <3>2. WantedHigh(InMemory, active)' = WantedHigh([pins |-> pins, rules |-> rules], active)
      BY <1>1, <3>1 DEF WantedHigh, InMemory
    <3>. QED  BY <1>1, <3>1, <3>2, WantedHighArePins DEF StrayInv
  <2>. QED  BY <1>1, <2>1, <2>2
<1>5. \A s : ~Driven(s)'
  BY <1>1 DEF Driven
<1>. QED  BY <1>3, <1>4, <1>5 DEF FollowInv, Followed

(* initPin drives a pin low: one whose rule wants it high is astray. *)
LEMMA FollowInitPin ==
    ASSUME CustomPinsTypeOK, PinsInUse, FollowInv, InitPin
    PROVE  FollowInv'
<1>1. /\ web = "begin" /\ web' = "init" /\ Uninitialized # {}
      /\ WriteBegins("web", pins[NextSlot], FALSE)
      /\ UNCHANGED <<pins, rules, initialized, active, out, posted, file, astray>>
  BY DEF InitPin, layoutVars, ruleVars
<1>2. OneInv'
  BY <1>1 DEF FollowInv, OneInv, InMemory
<1>3. StrayInv'
  BY <1>1 DEF FollowInv, StrayInv, Replacing, InMemory, WantedHigh
<1>4. NextSlot \in Slots /\ pins[NextSlot] # NoPin /\ NextSlot' = NextSlot
  BY <1>1, NextSlotIsOne DEF Uninitialized, NextSlot
<1>5. wanted' = With(wanted, pins[NextSlot], FALSE)
  BY <1>1 DEF WriteBegins
<1>6. ASSUME NEW r \in Rules, rules'[r].enabled PROVE Followed(r)'
  <2>. DEFINE s == rules[r].targetPin
  <2>0. rules[r].enabled /\ s \in Slots
    BY <1>1, <1>6, EnabledRule
  <2>1. Value(r)' = Value(r) /\ (OnItsWay(s)' <=> OnItsWay(s))
    BY <1>1 DEF Value, OnItsWay
  <2>. SUFFICES ASSUME Driven(s)', pins[s] \notin astray
                PROVE  ~OnItsWay(s) /\ (pins[s] \in wanted' <=> Value(r))
    BY <1>1, <2>1 DEF Followed
  <2>2. s \in initialized \/ s = NextSlot
    BY <1>1, <1>4 DEF Driven
  <2>3. pins[s] \in Pins /\ pins[s] # NoPin
    BY <1>4, <2>0, <2>2 DEF PinsInUse, CustomPinsTypeOK, Layout
  <2>4. ~OnItsWay(s)
    BY <1>1, <2>3 DEF FollowInv, StrayInv, Replacing, OnItsWay
  <2>5. CASE s = NextSlot
    <3>1. pins[s] \notin wanted'
      BY <1>5, <2>5, WithIs
    <3>2. pins[s] \notin WantedHigh(InMemory, active)
      BY <1>1 DEF FollowInv, StrayInv
    <3>3. InMemory.rules = rules /\ InMemory.pins = pins
      BY DEF InMemory
    <3>4. ~(IF r \in active THEN rules[r].onValue ELSE rules[r].offValue)
      BY <2>0, <2>3, <3>2, <3>3, HighIsWanted
    <3>. QED  BY <2>4, <3>1, <3>4 DEF Value
  <2>6. CASE s # NextSlot
    <3>1. s \in initialized /\ pins[s] # pins[NextSlot]
      <4>1. OneInv
        BY DEF FollowInv
      <4>. HIDE DEF s
      <4>. QED  BY <1>4, <2>0, <2>2, <2>3, <2>6, <4>1, OwnPin
    <3>2. pins[s] \in wanted' <=> pins[s] \in wanted
      <4>1. wanted' = wanted \ {pins[NextSlot]}
        BY <1>5 DEF With
      <4>. QED  BY <3>1, <4>1
    <3>3. pins[s] \in wanted <=> Value(r)
      BY <2>0, <2>4, <3>1 DEF FollowInv, Followed, Driven
    <3>. QED  BY <2>4, <3>2, <3>3
  <2>. QED  BY <2>5, <2>6
<1>. QED  BY <1>2, <1>3, <1>6 DEF FollowInv

(* The slot is marked initialised. *)
LEMMA FollowInitPinDone ==
    ASSUME CustomPinsTypeOK, PinsInUse, FollowInv, InitPinDone
    PROVE  FollowInv'
<1>1. /\ web = "init" /\ web' = "begin" /\ initialized' = initialized \cup {NextSlot}
      /\ UNCHANGED <<pins, rules, active, out, posted, file, astray, wanted>>
  BY DEF InitPinDone, ruleVars, chipVars
<1>2. OneInv'
  BY <1>1 DEF FollowInv, OneInv, InMemory
<1>3. StrayInv'
  BY <1>1 DEF FollowInv, StrayInv, Replacing, InMemory, WantedHigh
<1>4. \A s : Driven(s)' <=> Driven(s)
  BY <1>1 DEF Driven
<1>5. ASSUME NEW r \in Rules, rules'[r].enabled PROVE Followed(r)'
  <2>1. Followed(r)
    BY <1>1, <1>5 DEF FollowInv
  <2>2. Value(r)' = Value(r) /\ (\A s : OnItsWay(s)' <=> OnItsWay(s))
    BY <1>1 DEF Value, OnItsWay
  <2>. QED  BY <1>1, <1>4, <2>1, <2>2 DEF Followed
<1>. QED  BY <1>2, <1>3, <1>5 DEF FollowInv

(* A user sets an output: its pin is astray. *)
LEMMA FollowByHand ==
    ASSUME CustomPinsTypeOK, PinsInUse, FollowInv, NEW u \in Slots, NEW high, SetByHand(u, high)
    PROVE  FollowInv'
<1>1. /\ web' = "manual" /\ astray' = astray \cup {pins[u]} /\ WriteBegins("web", pins[u], high)
      /\ UNCHANGED <<pins, rules, initialized, active, out, posted, file>>
  BY DEF SetByHand, layoutVars, ruleVars
<1>2. OneInv' /\ StrayInv'
  BY <1>1 DEF FollowInv, OneInv, InMemory, StrayInv, Replacing
<1>3. wanted' = With(wanted, pins[u], high)
  BY <1>1 DEF WriteBegins
<1>4. \A s : Driven(s)' => Driven(s)
  BY <1>1 DEF Driven
<1>5. ASSUME NEW r \in Rules, rules'[r].enabled PROVE Followed(r)'
  <2>. DEFINE s == rules[r].targetPin
  <2>1. Value(r)' = Value(r) /\ (OnItsWay(s)' <=> OnItsWay(s))
    BY <1>1 DEF Value, OnItsWay
  <2>2. Followed(r)
    BY <1>1, <1>5 DEF FollowInv
  <2>3. pins[s] # pins[u] => (pins[s] \in wanted' <=> pins[s] \in wanted)
    BY <1>3, WithIs
  <2>. QED  BY <1>1, <1>4, <2>1, <2>2, <2>3 DEF Followed
<1>. QED  BY <1>2, <1>5 DEF FollowInv

(* A restart: every pin is low, and those that should be high are astray. *)
LEMMA FollowRestart ==
    ASSUME CustomPinsTypeOK, FollowInv, Restart
    PROVE  FollowInv'
<1>1. PICK layout : layout = Loaded(file) /\ layout \in Layout /\ OneRulePerPin(layout)
  BY LoadedKeeps DEF CustomPinsTypeOK, FollowInv, OneInv
<1>2. /\ pins' = layout.pins /\ rules' = layout.rules
      /\ initialized' = { s \in Slots : layout.pins[s] # NoPin }
      /\ active' = {} /\ out' = NoCallOut /\ web' = "idle"
      /\ astray' = WantedHigh(layout, {}) /\ wanted' = {} /\ UNCHANGED <<file, posted>>
  BY <1>1 DEF Restart, Setup, ExpanderBegin
<1>3. OneInv' /\ StrayInv'
  BY <1>1, <1>2 DEF FollowInv, OneInv, OneRulePerPin, InMemory, StrayInv, Replacing
<1>4. ASSUME NEW r \in Rules, rules'[r].enabled PROVE Followed(r)'
  <2>. DEFINE s == layout.rules[r].targetPin
  <2>1. layout.pins \in [Slots -> Pins \cup {NoPin}]
    BY <1>1 DEF Layout
  <2>2. ~OnItsWay(s)'
    BY <1>2 DEF OnItsWay
  <2>3. ASSUME Driven(s)', layout.pins[s] \notin WantedHigh(layout, {}) PROVE ~Value(r)'
    <3>1. layout.pins[s] \in Pins
      <4>1. web' # "init"
        BY <1>2
      <4>2. s \in initialized'
        BY <2>3, <4>1 DEF Driven
      <4>3. s \in Slots /\ layout.pins[s] # NoPin
        BY <1>2, <4>2
      <4>. QED  BY <2>1, <4>3
    <3>2. ~(IF r \in {} THEN layout.rules[r].onValue ELSE layout.rules[r].offValue)
      BY <1>2, <1>4, <2>3, <3>1, HighIsWanted
    <3>. QED  BY <1>2, <3>2 DEF Value
  <2>. QED  BY <1>2, <2>2, <2>3 DEF Followed
<1>. QED  BY <1>3, <1>4 DEF FollowInv

(* Every step keeps an output with its rule. *)
LEMMA FollowStep ==
    ASSUME CustomPinsTypeOK, PinsInUse, FollowInv, [PinsNext]_pinVars,
           \A layout \in Layouts : OneRulePerPin(layout)
    PROVE  FollowInv'
<1>. USE DEF chipVars, layoutVars, ruleVars, webVars
<1>1. CASE \E r \in Rules : Evaluate(r)
  BY <1>1, FollowEvaluate
<1>2. CASE SetOutput
  BY <1>2, FollowSetOutput
<1>3. CASE LoopWrites \/ WebWrites \/ (\E d \in 1 .. MaxPeriod : BeginCycle(d)) \/ SaveOpens
           \/ SaveWrites \/ SetByHandDone \/ UNCHANGED pinVars
  <2>1. /\ UNCHANGED <<pins, rules, initialized, active, out, astray, wanted, posted>>
        /\ web' \in {web, "write", "idle"} /\ file' \in {file, NoLayout, InMemory}
    BY <1>3 DEF LoopWrites, WebWrites, WriteStep, WriteStores, WriteSends, BeginCycle, SaveOpens,
                SaveWrites, SetByHandDone, pinVars, InMemory
  <2>2. OneRulePerPin(NoLayout)
    BY DEF OneRulePerPin, NoLayout, NoRule
  <2>3. OneRulePerPin(file')
    BY <2>1, <2>2 DEF FollowInv, OneInv
  <2>4. OneInv'
    BY <2>1, <2>3 DEF FollowInv, OneInv, OneRulePerPin, InMemory
  <2>. QED  BY <2>1, <2>4, FollowFrame
<1>4. CASE \E layout \in Layouts : Post(layout)
  BY <1>4, FollowPost
<1>5. CASE ClearRule \/ FillRule \/ RuleFilled
  BY <1>5, FollowFill
<1>6. CASE InitPin
  BY <1>6, FollowInitPin
<1>7. CASE InitPinDone
  BY <1>7, FollowInitPinDone
<1>8. CASE \E s \in Slots, high \in BOOLEAN : SetByHand(s, high)
  BY <1>8, FollowByHand
<1>9. CASE Restart
  BY <1>9, FollowRestart
<1>. QED
  BY <1>1, <1>2, <1>3, <1>4, <1>5, <1>6, <1>7, <1>8, <1>9 DEF PinsNext, Cycle, Serve

(* CustomPin.cpp:372-455: between cycles and requests an output that has   *)
(* neither been set by hand nor met a post halfway puts out what its rule  *)
(* says, if no layout gives one pin two rules.                             *)
THEOREM OutputStaysWithRule ==
    ASSUME \A layout \in Layouts : OneRulePerPin(layout)
    PROVE  PinsSpec => []OutputFollowsRule
<1>1. PinsInit => FollowInv
  <2>. SUFFICES ASSUME PinsInit PROVE FollowInv
    OBVIOUS
  <2>1. OneInv /\ StrayInv
    BY DEF PinsInit, OneInv, OneRulePerPin, InMemory, NoLayout, NoRule, StrayInv, Replacing
  <2>2. \A r \in Rules : ~rules[r].enabled
    BY DEF PinsInit, NoLayout, NoRule
  <2>. QED  BY <2>1, <2>2 DEF FollowInv
<1>2. CustomPinsTypeOK /\ PinsInUse /\ FollowInv /\ [PinsNext]_pinVars => FollowInv'
  BY FollowStep
<1>3. CustomPinsTypeOK /\ PinsInUse /\ FollowInv /\ WritesReachChip => OutputFollowsRule
  <2>. SUFFICES ASSUME CustomPinsTypeOK, PinsInUse, FollowInv, WritesReachChip,
                       LoopIdle, web = "idle",
                       NEW r \in Rules, rules[r].enabled,
                       rules[r].targetPin \in initialized,
                       pins[rules[r].targetPin] \notin astray \cup clash
                PROVE  (pins[rules[r].targetPin] \in olat)
                         = IF r \in active THEN rules[r].onValue ELSE rules[r].offValue
    BY DEF OutputFollowsRule
  <2>. DEFINE s == rules[r].targetPin
  <2>1. Driven(s) /\ ~OnItsWay(s)
    BY DEF Driven, OnItsWay, LoopIdle
  <2>2. pins[s] \in Pins
    BY <2>1, DrivenHasPin
  <2>3. \A t \in Tasks : ~Writing(t)
    BY CustomPinsAssumption DEF LoopIdle, PinsInUse
  <2>4. pins[s] \in olat <=> pins[s] \in wanted
    BY <2>2, <2>3 DEF WritesReachChip
  <2>5. pins[s] \in wanted <=> Value(r)
    BY <2>1 DEF FollowInv, Followed
  <2>6. Value(r) \in BOOLEAN
    BY ValueIsLevel
  <2>7. (pins[s] \in olat) = Value(r)
    BY <2>4, <2>5, <2>6
  <2>. QED  BY <2>7 DEF Value
<1>4. PinsSpec => [](CustomPinsTypeOK /\ PinsInUse) /\ []WritesReachChip
  BY PinTypeCorrect, WritesArrive
<1>. QED  BY <1>1, <1>2, <1>3, <1>4, PTL DEF PinsSpec

===============================================================================
