--------------------------- MODULE MCSharedInterrupt ---------------------------
(***************************************************************************)
(* Three chips.  Chip 1 has no interrupts and the scan skips it; chip 0    *)
(* has a pin on port A and, in the larger instance, one on port B; chip 2  *)
(* has one on port B.                                                      *)
(***************************************************************************)
EXTENDS SharedInterrupt

CONSTANTS GATE, DOOR, LEVER

MCPortA == [c \in 0 .. 2 |-> IF c = 0 THEN {GATE} ELSE {}]
MCPortB == [c \in 0 .. 2 |-> CASE c = 0 -> {DOOR} [] c = 1 -> {} [] OTHER -> {LEVER}]
MCPortBSmall == [c \in 0 .. 2 |-> IF c = 2 THEN {LEVER} ELSE {}]
===============================================================================
