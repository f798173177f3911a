-------------------------------- MODULE Millis --------------------------------
(***************************************************************************)
(* The clock every ESP-ECU component reads: Arduino's millis(), a uint32_t *)
(* that wraps to 0 after 49.7 days.  Wrap stands for 2^32.  The code never *)
(* compares two time stamps; it compares the unsigned difference           *)
(* `millis() - start' with a delay, and that difference is exact only      *)
(* while less than one lap has gone by.                                    *)
(***************************************************************************)
EXTENDS Integers

CONSTANT Wrap    \* 2^32 in the program

ASSUME WrapAssumption == Wrap \in Nat /\ Wrap > 1

Time == 0 .. Wrap - 1

(* millis() once d more milliseconds, less than a lap, have gone by. *)
Later(now, d) == IF now + d < Wrap THEN now + d ELSE now + d - Wrap

(* millis() d milliseconds, less than a lap, ago. *)
Earlier(now, d) == IF d <= now THEN now - d ELSE now - d + Wrap

(* `now - start' on uint32_t. *)
Elapsed(now, start) == IF start <= now THEN now - start ELSE now - start + Wrap

(* std::min on numbers. *)
Least(a, b) == IF a <= b THEN a ELSE b
===============================================================================
