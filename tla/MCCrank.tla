------------------------------- MODULE MCCrank --------------------------------
(* A wheel of ten slots with one tooth missing, and bursts of up to three    *)
(* sensor errors.                                                            *)
EXTENDS CrankSensor
===============================================================================
