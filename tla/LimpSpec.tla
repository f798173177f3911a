------------------------------- MODULE LimpSpec -------------------------------
(***************************************************************************)
(* What limp mode promises the driver, with no timers, rules or rev limits *)
(* in sight.  Each check either finds a fault or does not.  A fault puts   *)
(* the engine in limp mode at once.  Once checks have been clean for       *)
(* RecoveryMs the engine may leave limp mode, and when they have been      *)
(* clean for LeaveBy it has left it.                                       *)
(***************************************************************************)
EXTENDS Integers

CONSTANTS
    RecoveryMs,    \* no earlier than this after the first clean check
    LeaveBy,       \* no later than this
    MaxStep,       \* the longest time between two checks
    CleanCap       \* bound of cleanFor

VARIABLES
    limp,          \* the engine is in limp mode
    faulty,        \* the last check found a fault
    cleanFor       \* time from the first clean check to the last one

limpSpecVars == <<limp, faulty, cleanFor>>

Init == limp = FALSE /\ faulty = FALSE /\ cleanFor = 0

FaultFound ==
    /\ faulty' = TRUE
    /\ cleanFor' = 0
    /\ limp' = TRUE

(* cleanFor saturates at CleanCap; elapsed is the time since the last check. *)
CleanCheck(elapsed) ==
    /\ faulty' = FALSE
    /\ cleanFor' = IF faulty THEN 0
                   ELSE IF cleanFor + elapsed < CleanCap THEN cleanFor + elapsed ELSE CleanCap
    /\ \/ limp' = limp
       \/ limp /\ cleanFor' >= RecoveryMs /\ limp' = FALSE
    /\ cleanFor' >= LeaveBy => ~limp'

Next == FaultFound \/ \E elapsed \in 0 .. MaxStep : CleanCheck(elapsed)

Spec == Init /\ [][Next]_limpSpecVars
===============================================================================
