------------------------------ MODULE PinExpander ------------------------------
(***************************************************************************)
(* The output side of an MCP23S17 port expander, PinExpander::writePin and *)
(* spiWriteReg16.  The chip has one latch register for its sixteen pins,   *)
(* so the driver keeps a shadow of it, changes one bit of the shadow, and  *)
(* sends the whole word.  The ECU cycle and the web server's task write    *)
(* pins of the same chip, and no lock covers the change of the shadow and  *)
(* the transfer: the SPI bus serialises the transfers alone.               *)
(*                                                                         *)
(* Pins is the set of pins of one chip that are outputs, found at begin(); *)
(* a register is the set of the pins that are high in it.                  *)
(***************************************************************************)
EXTENDS Integers

CONSTANTS
    Pins,           \* the output pins of the chip
    Tasks           \* the tasks that write them

VARIABLES
    shadow,         \* _shadow
    olat,           \* the latches of the chip: what the pins put out
    op,             \* what each task is doing in writePin
    \* what has really happened, for the properties
    wanted,         \* the pins that were last commanded high
    clash           \* the pins whose last write overlapped another task's

chipVars == <<shadow, olat, op, wanted, clash>>

(* One call of writePin: the pin and the level, the word it works with, and *)
(* how far it is.                                                           *)
Call == [step : {"store", "send"}, pin : Pins, word : SUBSET Pins]
NoCall == [step |-> "idle"]

ExpanderTypeOK ==
    /\ shadow \subseteq Pins /\ olat \subseteq Pins
    /\ wanted \subseteq Pins /\ clash \subseteq Pins
    /\ op \in [Tasks -> Call \cup {NoCall}]

Writing(t) == op[t] # NoCall

With(word, pin, high) == IF high THEN word \cup {pin} ELSE word \ {pin}

(* begin() clears the latches; what the calls in progress were doing before *)
(* a restart is gone.                                                       *)
ExpanderBegin ==
    /\ shadow' = {} /\ olat' = {} /\ wanted' = {} /\ clash' = {}
    /\ op' = [t \in Tasks |-> NoCall]

-------------------------------------------------------------------------------
(* xDigitalWrite is called: `_shadow |= bit' or `_shadow &= ~bit' loads the *)
(* shadow ...                                                               *)
WriteBegins(t, pin, high) ==
    LET others == { op[u].pin : u \in { v \in Tasks \ {t} : Writing(v) } }
    IN  /\ ~Writing(t)
        /\ op' = [op EXCEPT ![t] = [step |-> "store", pin |-> pin, word |-> With(shadow, pin, high)]]
        /\ wanted' = With(wanted, pin, high)
        /\ clash' = IF others = {} THEN clash \ {pin} ELSE clash \cup others \cup {pin}
        /\ UNCHANGED <<shadow, olat>>

(* ... and stores it changed. *)
WriteStores(t) ==
    /\ op[t].step = "store"
    /\ shadow' = op[t].word
    /\ op' = [op EXCEPT ![t].step = "send"]
    /\ UNCHANGED <<olat, wanted, clash>>

(* A mutant: only the pin's own bit is put in the word. *)
WriteSendsBit(t) ==
    /\ op[t].step = "send"
    /\ olat' = op[t].word \cap {op[t].pin}
    /\ op' = [op EXCEPT ![t] = NoCall]
    /\ UNCHANGED <<shadow, wanted, clash>>

(* The word goes out in one SPI transaction and latches: the one that was   *)
(* stored or, if the compiler has the shadow loaded again, what is there by *)
(* then.                                                                    *)
WriteSends(t) ==
    /\ op[t].step = "send"
    /\ olat' \in {op[t].word, shadow}
    /\ op' = [op EXCEPT ![t] = NoCall]
    /\ UNCHANGED <<shadow, wanted, clash>>

WriteStep(t) == WriteStores(t) \/ WriteSends(t)

-------------------------------------------------------------------------------
(* A pin that no call is writing, and whose last write overlapped no other *)
(* task's, is as it was last commanded, in the shadow and at the chip,     *)
(* whatever the tasks do to the chip's other pins (PinExpander.cpp:144).   *)
WritesReachChip ==
    \A p \in Pins \ clash :
        (\A t \in Tasks : Writing(t) => op[t].pin # p) =>
            /\ p \in shadow <=> p \in wanted
            /\ p \in olat <=> p \in wanted
===============================================================================
