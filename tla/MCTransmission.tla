---------------------------- MODULE MCTransmission ----------------------------
(***************************************************************************)
(* A small instance of Transmission, with the default thresholds.  The     *)
(* counter does not wrap at a multiple of LeverEvery, as in the program    *)
(* (256 is not a multiple of 20).                                          *)
(***************************************************************************)
EXTENDS Transmission

MCUpshiftRpm == [g \in 3 .. 5 |-> CASE g = 3 -> 1500 [] g = 4 -> 2500 [] OTHER -> 3000]
MCDownshiftRpm == [g \in 4 .. 6 |-> CASE g = 4 -> 1200 [] g = 5 -> 1800 [] OTHER -> 2200]
===============================================================================
