---------------------------- MODULE SharedInterrupt ----------------------------
(***************************************************************************)
(* The interrupt line the MCP23S17 port expanders share, PinExpander and   *)
(* CustomPinManager::update.  Any chip with a pin change pending pulls the *)
(* open-drain line low; the ESP32 sees its falling edge only, and sets a   *)
(* flag; the ECU cycle, finding the flag set, scans the chips in order --  *)
(* INTF of both ports, then INTCAP of both, which clears the chip -- and   *)
(* then clears the flag.  Each register is read in an SPI transaction of   *)
(* its own, and pins may change, and the web server may read a chip,       *)
(* between any two of them.                                                *)
(*                                                                         *)
(* A port has one pin with an interrupt here, so a pin stands for its      *)
(* port.  The chip is modelled as the code and README.md use it: the port  *)
(* latches the first change, and holds it until INTCAP or GPIO is read.    *)
(***************************************************************************)
EXTENDS Integers

CONSTANTS
    LastChip,       \* SPI_EXP_MAX - 1
    PortA, PortB,   \* for each of 0 .. LastChip, its pins with an interrupt there
    ReadChips       \* the chips whose GPIO is read for other pins of theirs

Chips == 0 .. LastChip
PinsOf(c) == PortA[c] \cup PortB[c]
Pins == UNION { PinsOf(c) : c \in Chips }

ASSUME SharedInterruptAssumption ==
    /\ LastChip \in Nat /\ ReadChips \subseteq Chips
    /\ DOMAIN PortA = Chips /\ DOMAIN PortB = Chips
    /\ \A c, d \in Chips : c # d => PinsOf(c) \cap PinsOf(d) = {}
    /\ \A c \in Chips : PortA[c] \cap PortB[c] = {}

VARIABLES
    level,      \* the level at each pin
    pending,    \* the pins whose INTF bit is set
    intcap,     \* the level INTCAP holds for each pin
    flag,       \* _sharedIntFlag
    chip,       \* the chip the scan is at; LastChip + 1 before the clear
    step,       \* the scan's next step, or "idle"
    changed,    \* checkInterrupt's changedPins
    captured,   \* the pins that read high in its capturedValues
    value,      \* CustomPinDescriptor::value; isrCount goes up whenever it is set
    \* what has really happened, for the properties
    cleared,    \* interrupts cleared in a chip and not dispatched: pin and level
    disturbed   \* since the line was last high, a pin changed or a chip was
                \* read by another task at a bad moment

chipVars == <<level, pending, intcap>>
scanVars == <<chip, step, changed, captured>>
history == <<cleared, disturbed>>
intVars == <<chipVars, flag, scanVars, value, history>>

IntTypeOK ==
    /\ {level, intcap, value} \subseteq [Pins -> BOOLEAN]
    /\ pending \subseteq Pins /\ changed \subseteq Pins /\ captured \subseteq Pins
    /\ cleared \subseteq Pins \X BOOLEAN
    /\ flag \in BOOLEAN /\ disturbed \in BOOLEAN
    /\ chip \in 0 .. LastChip + 1
    /\ step \in {"idle", "intfA", "intfB", "intcapA", "intcapB", "dispatch", "clear"}

(* After begin(): the line attached, the pins enabled, nothing pending. *)
IntInit ==
    /\ level \in [Pins -> BOOLEAN] /\ intcap = level /\ pending = {}
    /\ flag = FALSE
    /\ chip = 0 /\ step = "idle" /\ changed = {} /\ captured = {}
    /\ value = [p \in Pins |-> FALSE]
    /\ cleared = {} /\ disturbed = FALSE

LineLow == pending # {}

(* An interrupt of p has not been dispatched. *)
Owed(p) == p \in pending \/ \E high \in BOOLEAN : <<p, high>> \in cleared

(* The chips' interrupts of these pins are cleared, whoever reads them. *)
ClearPending(pins) ==
    /\ pending' = pending \ pins
    /\ cleared' = cleared \cup { <<p, intcap[p]>> : p \in pending \cap pins }

-------------------------------------------------------------------------------
(* A pin changes.  If its port has nothing pending it latches the change;  *)
(* if that pulls the line low, the edge runs intISR.                       *)
PinChanges(p) ==
    /\ level' = [level EXCEPT ![p] = ~@]
    /\ IF p \in pending
       THEN UNCHANGED <<pending, intcap, flag, history>>
       ELSE /\ pending' = pending \cup {p}
            /\ intcap' = [intcap EXCEPT ![p] = level'[p]]
            /\ flag' = (flag \/ ~LineLow)
            /\ disturbed' = (disturbed \/ step # "idle")
            /\ UNCHANGED cleared
    /\ UNCHANGED <<scanVars, value>>

(* The pins page reads GPIO of a chip on the web server's task, or pollPin *)
(* does for another pin of the chip: what is pending there is gone.        *)
ReadGpio(c) ==
    /\ pending \cap PinsOf(c) # {}
    /\ ClearPending(PinsOf(c))
    /\ disturbed' = TRUE
    /\ UNCHANGED <<level, intcap, flag, scanVars, value>>

-------------------------------------------------------------------------------
(* hasSharedInterrupt: the scan begins, with no chip skipped. *)
BeginScan ==
    /\ step = "idle" /\ flag
    /\ chip' = 0 /\ step' = "intfA"
    /\ UNCHANGED <<chipVars, flag, changed, captured, value, history>>

ReadIntfA ==
    /\ step = "intfA"
    /\ changed' = pending \cap PortA[chip]
    /\ captured' = {}
    /\ step' = "intfB"
    /\ UNCHANGED <<chipVars, flag, chip, value, history>>

(* A mutant: the scan stops at the first chip that had a change. *)
NextChipIfQuiet ==
    LET left == { c \in Chips : c > chip /\ PinsOf(c) # {} }
    IN  IF left = {} \/ changed # {} THEN chip' = LastChip + 1 /\ step' = "clear"
        ELSE /\ chip' \in left
             /\ \A c \in left : chip' <= c
             /\ step' = "intfA"

(* The next chip that has interrupts enabled, or the end of the scan. *)
NextChip ==
    LET left == { c \in Chips : c > chip /\ PinsOf(c) # {} }
    IN  IF left = {} THEN chip' = LastChip + 1 /\ step' = "clear"
        ELSE /\ chip' \in left
             /\ \A c \in left : chip' <= c
             /\ step' = "intfA"

(* A mutant: the second port's INTF replaces the first's. *)
ReadIntfBAlone ==
    /\ step = "intfB"
    /\ changed' = pending \cap PortB[chip]
    /\ IF changed' = {} THEN NextChip ELSE chip' = chip /\ step' = "intcapA"
    /\ UNCHANGED <<chipVars, flag, captured, value, history>>

ReadIntfB ==
    /\ step = "intfB"
    /\ changed' = changed \cup (pending \cap PortB[chip])
    /\ IF changed' = {} THEN NextChip ELSE chip' = chip /\ step' = "intcapA"
    /\ UNCHANGED <<chipVars, flag, captured, value, history>>

(* A mutant: INTF tells which pins changed, INTCAP is not read. *)
ReadNothing(port) ==
    /\ captured' = captured \cup { p \in port : level[p] }
    /\ UNCHANGED <<pending, cleared>>

(* Reading a port's INTCAP, which clears its interrupt. *)
ReadIntcap(port) ==
    /\ captured' = captured \cup { p \in port : intcap[p] }
    /\ ClearPending(port)

ReadIntcapA ==
    /\ step = "intcapA"
    /\ ReadIntcap(PortA[chip])
    /\ step' = "intcapB"
    /\ UNCHANGED <<level, intcap, flag, chip, changed, value, disturbed>>

ReadIntcapB ==
    /\ step = "intcapB"
    /\ ReadIntcap(PortB[chip])
    /\ step' = "dispatch"
    /\ UNCHANGED <<level, intcap, flag, chip, changed, value, disturbed>>

(* The custom pins of the chip that changed are counted and take their     *)
(* captured level.                                                         *)
Dispatch ==
    /\ step = "dispatch"
    /\ value' = [p \in Pins |-> IF p \in changed THEN p \in captured ELSE value[p]]
    /\ cleared' = { i \in cleared : i[1] \notin changed }
    /\ NextChip
    /\ UNCHANGED <<chipVars, flag, changed, captured, disturbed>>

(* clearSharedInterrupt, whatever has happened since the chips were read.  *)
(* (The properties' view: once the line is high again nothing is late.)    *)
ClearFlag ==
    /\ step = "clear"
    /\ flag' = FALSE
    /\ chip' = 0 /\ step' = "idle" /\ changed' = {} /\ captured' = {}
    /\ disturbed' = (disturbed /\ LineLow)
    /\ UNCHANGED <<chipVars, value, cleared>>

Scan == BeginScan \/ ReadIntfA \/ ReadIntfB \/ ReadIntcapA \/ ReadIntcapB \/ Dispatch \/ ClearFlag

IntNext ==
    \/ \E p \in Pins : PinChanges(p)
    \/ \E c \in ReadChips : ReadGpio(c)
    \/ Scan

IntSpec == IntInit /\ [][IntNext]_intVars

(* The ECU cycle keeps running. *)
IntFairSpec == IntSpec /\ WF_intVars(Scan)

-------------------------------------------------------------------------------
(* What is dispatched to a pin is an interrupt of that pin, once, with the *)
(* level the pin had then: however the reads of INTF and INTCAP, chip by   *)
(* chip and port by port, interleave with changes and with other readers   *)
(* (PinExpander.cpp:219-235, CustomPin.cpp:220-237).                       *)
DispatchedOnce ==
    step = "dispatch" => \A p \in changed : <<p, p \in captured>> \in cleared

(* Between scans, a line that is low has its flag set, unless a pin        *)
(* changed during a scan: the edge of the first of several chips is enough *)
(* for all of them.                                                        *)
LowLineIsFlagged == LineLow /\ ~flag => disturbed

(* "Matched pin changes are dispatched to custom pin ISR handlers"         *)
(* (README.md:275), when no pin changes during a scan and no other task    *)
(* reads the chip.                                                         *)
QuietChangesDispatched == \A p \in Pins : p \in pending ~> (~Owed(p) \/ disturbed)

(* The same without the condition. *)
ChangesDispatched == \A p \in Pins : p \in pending ~> ~Owed(p)
===============================================================================
