------------------------------- MODULE Injection ------------------------------
(***************************************************************************)
(* InjectionManager::update: open an injector at its injection angle       *)
(* (sequential) or at tooth 0 (batch) and close it when its pulse width is *)
(* over.  Both happen only when update is called.                          *)
(***************************************************************************)
EXTENDS Integers

CONSTANTS
    InjCyls,        \* the cylinders, 0 .. n - 1 in firing order, that have a pin
    InjTurn,        \* 360 degrees, in half teeth
    DeadTime,       \* _deadTimeMs, in slots' worth of time
    OpenCap         \* bound of openFor

ASSUME InjectionAssumption ==
    /\ InjCyls \subseteq Nat
    /\ {InjTurn, DeadTime, OpenCap} \subseteq Nat

VARIABLES
    injOpen,        \* _injState[c].open, which is also the level of its pin
    openFor,        \* nowUs - _injState[c].openTimeUs of an injector that is open, or 0
    scheduled       \* _injState[c].scheduledPulseUs of one that is open, or 0

injVars == <<injOpen, openFor, scheduled>>

InjTypeOK ==
    /\ injOpen \in [InjCyls -> BOOLEAN]
    /\ openFor \in [InjCyls -> 0 .. OpenCap]
    /\ scheduled \in [InjCyls -> Nat]

InjInit ==
    /\ injOpen = [c \in InjCyls |-> FALSE]
    /\ openFor = [c \in InjCyls |-> 0]
    /\ scheduled = [c \in InjCyls |-> 0]

-------------------------------------------------------------------------------
(* Is it time to open injector c?  n is the number of cylinders. *)
OpensAt(c, pos, sequential, n) ==
    IF sequential
    THEN (2 * pos - (((c * ((2 * InjTurn) \div n)) + InjTurn) % (2 * InjTurn))) % (2 * InjTurn) < 3
    ELSE pos = 0

(* Batch mode fires twice a cycle, half the pulse width each. *)
PulseAt(width, sequential) ==
    IF sequential THEN width + DeadTime ELSE (width + DeadTime) \div 2

(* An injector with nothing to inject is passed over altogether. *)
PassedOver(width) == width + DeadTime = 0

Opens(c, pos, sequential, n, width) ==
    ~PassedOver(width) /\ ~injOpen[c] /\ OpensAt(c, pos, sequential, n)

(* Mutant: an injector is closed after twice the pulse it was opened for. *)
OverAfterTwice(since, pulse) == since >= 2 * pulse

PulseOver(since, pulse) == since >= pulse

(* InjectionManager::update, _fuelCut being off: nothing sets it. *)
UpdateInjection(pos, sequential, n, width) ==
    LET opens == { c \in InjCyls : Opens(c, pos, sequential, n, width) }
        since == [c \in InjCyls |-> IF c \in opens THEN 0 ELSE openFor[c]]
        pulse == [c \in InjCyls |-> IF c \in opens THEN PulseAt(width, sequential) ELSE scheduled[c]]
        open  == { c \in InjCyls : /\ injOpen[c] \/ c \in opens
                                   /\ PassedOver(width) \/ ~PulseOver(since[c], pulse[c]) }
    IN  /\ injOpen' = [c \in InjCyls |-> c \in open]
        /\ openFor' = [c \in InjCyls |-> IF c \in open THEN since[c] ELSE 0]
        /\ scheduled' = [c \in InjCyls |-> IF c \in open THEN pulse[c] ELSE 0]

(* Time goes by. *)
FlowOn ==
    openFor' = [c \in InjCyls |-> IF injOpen[c] /\ openFor[c] < OpenCap
                                  THEN openFor[c] + 1 ELSE openFor[c]]
===============================================================================
