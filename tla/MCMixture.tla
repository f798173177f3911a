------------------------------ MODULE MCMixture -------------------------------
(***************************************************************************)
(* One bank or two.  A round is two cycles, and a cycle comes after one or *)
(* two units of time.                                                      *)
(***************************************************************************)
EXTENDS Mixture
===============================================================================
