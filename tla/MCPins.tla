-------------------------------- MODULE MCPins --------------------------------
(***************************************************************************)
(* Two outputs of one chip.  In one layout a fan is switched with a        *)
(* debounce and a pump only while the engine runs; in the other the pump   *)
(* alone is left, inverted.                                                *)
(***************************************************************************)
EXTENDS CustomPins

CONSTANTS FAN, PUMP

Fan == [enabled |-> TRUE, targetPin |-> 0, onValue |-> TRUE, offValue |-> FALSE,
        debounceMs |-> 2, requireRunning |-> FALSE]
Pump == [enabled |-> TRUE, targetPin |-> 1, onValue |-> TRUE, offValue |-> FALSE,
         debounceMs |-> 0, requireRunning |-> TRUE]

PinsAt(first, second) == [s \in Slots |-> IF s = 0 THEN first ELSE IF s = 1 THEN second ELSE NoPin]
RulesAt(first, second) == [r \in Rules |-> IF r = 0 THEN first ELSE second]

FanAndPump == [pins |-> PinsAt(FAN, PUMP), rules |-> RulesAt(Pump, Fan)]
InvertedPump == [pins |-> PinsAt(PUMP, NoPin),
                 rules |-> RulesAt([Pump EXCEPT !.targetPin = 0, !.onValue = FALSE, !.offValue = TRUE],
                                   NoRule)]
MCLayouts == {FanAndPump, InvertedPump}
===============================================================================
