------------------------------ MODULE MCRealTime ------------------------------
(* Two cylinders on a wheel of eight slots with one tooth missing; the sensor *)
(* errs at most once every CleanCap slots, and an extra edge reads as twice   *)
(* the speed, which is above the rev limit.                                   *)
EXTENDS RealTime

MCRevLimits == {6}
MCWidths == {2}
===============================================================================
