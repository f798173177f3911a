------------------------------- MODULE MCDevice -------------------------------
(***************************************************************************)
(* Settings that work, settings the ECU crashes on, and two sensor setups. *)
(***************************************************************************)
EXTENDS Boot
===============================================================================
