-------------------------------- MODULE MCEcu ---------------------------------
(***************************************************************************)
(* A small instance of Ecu.  OIL is debounced and gated like the OIL_LOW   *)
(* rule of the default table; LEAN is an immediate CEL-only rule on a      *)
(* sensor that is inactive unless the engine runs.  A lap of the clock is  *)
(* six milliseconds, or eight, so every timer meets the wrap.              *)
(***************************************************************************)
EXTENDS Ecu, TLC

CONSTANTS OIL, LEAN

MCRule ==
    [r \in Rules |->
        IF r = OIL
        THEN [bit |-> 6, action |-> "limp", debounceMs |-> 2, requireRunning |-> TRUE,
              gateRpmMin |-> 800, gateRpmMax |-> 0, activeStates |-> RunStates,
              zeroTriggers |-> TRUE]
        ELSE [bit |-> 7, action |-> "cel", debounceMs |-> 0, requireRunning |-> FALSE,
              gateRpmMin |-> 0, gateRpmMax |-> 2000, activeStates |-> {"running"},
              zeroTriggers |-> TRUE]]

MCHoldCap == [r \in Rules |-> IF r = OIL THEN NoticeBy(r) ELSE 0]
===============================================================================
