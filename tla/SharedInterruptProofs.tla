------------------------- MODULE SharedInterruptProofs -------------------------
(***************************************************************************)
(* Machine-checked proofs about SharedInterrupt, for every number of chips *)
(* and every set of pins on their ports.                                   *)
(***************************************************************************)
EXTENDS SharedInterrupt, TLAPS

Steps == {"idle", "intfA", "intfB", "intcapA", "intcapB", "dispatch", "clear"}

(* What the proofs need of the types: the scan is at a chip while it reads *)
(* one, and INTCAP holds levels.                                           *)
ScanTypeOK ==
    /\ intcap \in [Pins -> BOOLEAN] /\ level \in [Pins -> BOOLEAN]
    /\ pending \subseteq Pins
    /\ step \in Steps
    /\ step \notin {"idle", "clear"} => chip \in Chips

(* The pins of a chip, and of its ports.                                   *)
LEMMA PortsAre ==
    /\ \A c \in Chips : PortA[c] \subseteq Pins /\ PortB[c] \subseteq Pins
                       /\ PortA[c] \cap PortB[c] = {} /\ PinsOf(c) = PortA[c] \cup PortB[c]
    /\ \A p \in Pins : \E c \in Chips : p \in PinsOf(c)
BY SharedInterruptAssumption DEF Pins, PinsOf

(* The next chip is one with interrupts, later than this one, and all      *)
(* between have none.                                                      *)
LEMMA NextChipIs ==
    ASSUME NextChip, chip \in Chips
    PROVE  \/ /\ step' = "clear"
              /\ \A c \in Chips : c > chip => PinsOf(c) = {}
           \/ /\ step' = "intfA" /\ chip' \in Chips /\ chip' > chip
              /\ \A c \in Chips : c > chip /\ c < chip' => PinsOf(c) = {}
<1>. DEFINE left == { c \in Chips : c > chip /\ PinsOf(c) # {} }
<1>1. CASE left = {}
  BY <1>1 DEF NextChip
<1>2. CASE left # {}
  <2>1. chip' \in left /\ (\A c \in left : chip' <= c) /\ step' = "intfA"
    BY <1>2 DEF NextChip
  <2>2. ASSUME NEW c \in Chips, c > chip, c < chip' PROVE PinsOf(c) = {}
    <3>1. c \in Int /\ chip' \in Int
      BY <2>1, SharedInterruptAssumption DEF Chips
    <3>2. c \notin left
      BY <2>1, <2>2, <3>1
    <3>. QED  BY <2>2, <3>2
  <2>. QED  BY <2>1, <2>2
<1>. QED  BY <1>1, <1>2

(* Every step keeps the types.                                             *)
LEMMA ScanTypeStep ==
    ASSUME ScanTypeOK, [IntNext]_intVars
    PROVE  ScanTypeOK'
<1>. USE DEF ScanTypeOK, Steps
<1>1. ASSUME NEW p \in Pins, PinChanges(p) PROVE ScanTypeOK'
  <2>1. level' \in [Pins -> BOOLEAN] /\ level'[p] \in BOOLEAN
    BY <1>1 DEF PinChanges
  <2>. QED  BY <1>1, <2>1 DEF PinChanges, scanVars
<1>2. ASSUME NEW c \in ReadChips, ReadGpio(c) PROVE ScanTypeOK'
  BY <1>2 DEF ReadGpio, ClearPending, scanVars
<1>3. CASE BeginScan
  BY <1>3, SharedInterruptAssumption DEF BeginScan, chipVars, Chips
<1>4. CASE ReadIntfA
  BY <1>4 DEF ReadIntfA, chipVars
<1>5. CASE ReadIntfB
  BY <1>5, NextChipIs DEF ReadIntfB, chipVars
<1>6. CASE ReadIntcapA \/ ReadIntcapB
  BY <1>6 DEF ReadIntcapA, ReadIntcapB, ReadIntcap, ClearPending
<1>7. CASE Dispatch
  BY <1>7, NextChipIs DEF Dispatch, chipVars
<1>8. CASE ClearFlag
  BY <1>8 DEF ClearFlag, chipVars
<1>9. CASE UNCHANGED intVars
  BY <1>9 DEF intVars, chipVars, scanVars
<1>. QED  BY <1>1, <1>2, <1>3, <1>4, <1>5, <1>6, <1>7, <1>8, <1>9 DEF IntNext, Scan

(* The initial states have them.                                           *)
LEMMA ScanTypeInit == IntInit => ScanTypeOK
BY DEF IntInit, ScanTypeOK, Steps

-------------------------------------------------------------------------------
(* The flag and the line.                                                  *)

(* While nothing disturbs a scan, the chips it has passed have nothing     *)
(* pending, and on the chip it is at, what it has seen covers what is.     *)
FlagInv ==
    ~disturbed =>
        /\ LineLow => flag
        /\ step # "idle" => flag
        /\ step = "clear" => ~LineLow
        /\ step \notin {"idle", "clear"} =>
              \A c \in Chips : c < chip => pending \cap PinsOf(c) = {}
        /\ step = "intfB" => pending \cap PortA[chip] \subseteq changed
        /\ step = "intcapB" => pending \cap PortA[chip] = {}
        /\ step = "dispatch" => pending \cap PinsOf(chip) = {}

(* Every step keeps that.                                                  *)
LEMMA FlagStep ==
    ASSUME ScanTypeOK, FlagInv, [IntNext]_intVars
    PROVE  FlagInv'
<1>. USE DEF FlagInv, LineLow
<1>0. ASSUME chip \in Chips, pending' \subseteq pending, disturbed' = disturbed, flag' = flag, NextChip,
             step \notin {"idle", "clear"}, ~disturbed => pending' \cap PinsOf(chip) = {}
      PROVE  FlagInv'
  <2>. SUFFICES ASSUME ~disturbed PROVE FlagInv'
    BY <1>0
  <2>1. \A c \in Chips : c <= chip => pending' \cap PinsOf(c) = {}
    BY <1>0, SharedInterruptAssumption DEF Chips
  <2>2. CASE step' = "clear" /\ \A c \in Chips : c > chip => PinsOf(c) = {}
    <3>1. \A c \in Chips : pending' \cap PinsOf(c) = {}
      BY <1>0, <2>1, <2>2, SharedInterruptAssumption DEF Chips
    <3>2. pending' = {}
      BY <1>0, <3>1, PortsAre DEF ScanTypeOK
    <3>. QED  BY <1>0, <2>2, <3>2
  <2>3. CASE /\ step' = "intfA" /\ chip' \in Chips /\ chip' > chip
             /\ \A c \in Chips : c > chip /\ c < chip' => PinsOf(c) = {}
    <3>1. \A c \in Chips : c < chip' => pending' \cap PinsOf(c) = {}
      BY <1>0, <2>1, <2>3, SharedInterruptAssumption DEF Chips
    <3>. QED  BY <1>0, <2>3, <3>1
  <2>. QED  BY <1>0, <2>2, <2>3, NextChipIs
<1>1. ASSUME NEW p \in Pins, PinChanges(p) PROVE FlagInv'
  BY <1>1 DEF PinChanges, scanVars, history
<1>2. ASSUME NEW c \in ReadChips, ReadGpio(c) PROVE FlagInv'
  BY <1>2 DEF ReadGpio
<1>3. CASE BeginScan
  <2>1. \A c \in Chips : ~(c < 0)
    BY SharedInterruptAssumption DEF Chips
  <2>. QED  BY <1>3, <2>1 DEF BeginScan, chipVars, history
<1>4. CASE ReadIntfA
  BY <1>4 DEF ReadIntfA, chipVars, history
<1>5. CASE ReadIntfB
  <2>1. /\ step = "intfB" /\ chip \in Chips /\ changed' = changed \cup (pending \cap PortB[chip])
        /\ pending' = pending /\ flag' = flag /\ disturbed' = disturbed
    BY <1>5 DEF ReadIntfB, ScanTypeOK, chipVars, history
  <2>2. CASE changed' = {}
    BY <1>0, <1>5, <2>1, <2>2, PortsAre DEF ReadIntfB
  <2>3. CASE changed' # {}
    BY <1>5, <2>1, <2>3 DEF ReadIntfB
  <2>. QED  BY <2>2, <2>3
<1>6. CASE ReadIntcapA
  BY <1>6 DEF ReadIntcapA, ReadIntcap, ClearPending
<1>7. CASE ReadIntcapB
  <2>1. chip \in Chips
    BY <1>7 DEF ReadIntcapB, ScanTypeOK
  <2>. QED  BY <1>7, <2>1, PortsAre DEF ReadIntcapB, ReadIntcap, ClearPending
<1>8. CASE Dispatch
  BY <1>0, <1>8 DEF Dispatch, ScanTypeOK, chipVars
<1>9. CASE ClearFlag
  BY <1>9 DEF ClearFlag, chipVars
<1>10. CASE UNCHANGED intVars
  BY <1>10 DEF intVars, chipVars, scanVars, history
<1>. QED
  BY <1>1, <1>2, <1>3, <1>4, <1>5, <1>6, <1>7, <1>8, <1>9, <1>10 DEF IntNext, Scan

(* A low line has its flag set (PinExpander.cpp:187), unless a scan was    *)
(* disturbed.                                                              *)
THEOREM LineIsFlagged == IntSpec => []LowLineIsFlagged
<1>1. IntInit => FlagInv
  BY DEF IntInit, FlagInv, LineLow
<1>2. FlagInv => LowLineIsFlagged
  BY DEF FlagInv, LowLineIsFlagged
<1>. QED  BY <1>1, <1>2, FlagStep, ScanTypeInit, ScanTypeStep, PTL DEF IntSpec

-------------------------------------------------------------------------------
(* What is dispatched.                                                     *)

(* An interrupt of p with this level was cleared in a chip.                *)
Cleared(p, high) == <<p, high>> \in cleared

(* INTCAP tells of an interrupt of p; what was captured does.              *)
InChip(p) == p \in pending \/ Cleared(p, intcap[p])
InHand(p) == Cleared(p, p \in captured)

(* A change the scan has seen is in the chip, or was cleared there and     *)
(* INTCAP still holds it, until INTCAP of its port is read; then what was  *)
(* captured is it.                                                         *)
DispatchInv ==
    /\ step \in {"intfB", "intcapA", "intcapB", "dispatch"} => changed \subseteq PinsOf(chip)
    /\ step = "intfB" => captured = {} /\ changed \subseteq PortA[chip]
    /\ step = "intcapA" => captured = {}
    /\ step = "intcapB" => captured \subseteq PortA[chip]
    /\ step \in {"intfB", "intcapA"} => \A p \in changed : InChip(p)
    /\ step = "intcapB" => \A p \in changed : IF p \in PortA[chip] THEN InHand(p) ELSE InChip(p)
    /\ step = "dispatch" => \A p \in changed : InHand(p)

(* Clearing interrupts in the chip keeps them known.                       *)
LEMMA ClearKeeps ==
    ASSUME NEW pins, ClearPending(pins), intcap' = intcap, NEW p
    PROVE  /\ InChip(p) => InChip(p)'
           /\ p \in pins /\ InChip(p) => <<p, intcap[p]>> \in cleared'
           /\ \A high : Cleared(p, high) => Cleared(p, high)'
BY DEF ClearPending, InChip, Cleared

(* What reading INTCAP of a port captures of a pin of it, and of another.  *)
LEMMA CaptureIs ==
    ASSUME ScanTypeOK, NEW port \in SUBSET Pins, ReadIntcap(port), intcap' = intcap, NEW p \in Pins
    PROVE  /\ p \in port /\ p \notin captured /\ InChip(p) => InHand(p)'
           /\ p \notin port /\ InHand(p) => InHand(p)'
           /\ InChip(p) => InChip(p)'
<1>1. captured' = captured \cup { q \in port : intcap[q] } /\ ClearPending(port)
  BY DEF ReadIntcap
<1>2. intcap[p] \in BOOLEAN
  BY DEF ScanTypeOK
<1>3. ASSUME p \in port, p \notin captured, InChip(p) PROVE InHand(p)'
  <2>1. <<p, intcap[p]>> \in cleared'
    BY <1>1, <1>3, ClearKeeps
  <2>2. (p \in captured') = intcap[p]
    <3>1. p \in captured' <=> intcap[p]
      BY <1>1, <1>3
    <3>2. (p \in captured') \in BOOLEAN
      OBVIOUS
    <3>. QED  BY <1>2, <3>1, <3>2, Zenon
  <2>. QED  BY <2>1, <2>2, Zenon DEF InHand, Cleared
<1>4. ASSUME p \notin port, InHand(p) PROVE InHand(p)'
  <2>1. (p \in captured') = (p \in captured)
    <3>1. p \in captured' <=> p \in captured
      BY <1>1, <1>4
    <3>. QED  BY <3>1
  <2>2. <<p, p \in captured>> \in cleared'
    BY <1>1, <1>4, ClearKeeps, Zenon DEF InHand, Cleared
  <2>. QED  BY <2>1, <2>2, Zenon DEF InHand, Cleared
<1>. QED  BY <1>1, <1>3, <1>4, ClearKeeps

(* Every step keeps what the scan knows.                                   *)
LEMMA DispatchStep ==
    ASSUME ScanTypeOK, DispatchInv, [IntNext]_intVars
    PROVE  DispatchInv'
<1>0. /\ step \notin {"idle", "clear"} =>
            /\ chip \in Chips /\ PortA[chip] \in SUBSET Pins /\ PortB[chip] \in SUBSET Pins
            /\ PinsOf(chip) = PortA[chip] \cup PortB[chip]
            /\ PortA[chip] \cap PortB[chip] = {}
      /\ \A c \in Chips : PinsOf(c) \subseteq Pins
  BY PortsAre DEF ScanTypeOK
<1>1. ASSUME NEW q \in Pins, PinChanges(q) PROVE DispatchInv'
  <2>1. \A p \in Pins : (InChip(p) => InChip(p)') /\ (InHand(p) => InHand(p)')
    BY <1>1 DEF PinChanges, InChip, InHand, Cleared, ScanTypeOK, scanVars, history
  <2>. QED  BY <1>0, <1>1, <2>1 DEF DispatchInv, PinChanges, scanVars
<1>2. ASSUME NEW c \in ReadChips, ReadGpio(c) PROVE DispatchInv'
  <2>1. \A p \in Pins : (InChip(p) => InChip(p)') /\ (InHand(p) => InHand(p)')
    <3>1. ClearPending(PinsOf(c)) /\ intcap' = intcap /\ captured' = captured
      BY <1>2 DEF ReadGpio, scanVars
    <3>. QED  BY <3>1, ClearKeeps DEF InHand
  <2>. QED  BY <1>0, <1>2, <2>1 DEF DispatchInv, ReadGpio, scanVars
<1>3. CASE BeginScan \/ Dispatch \/ ClearFlag
  <2>1. step' \in {"intfA", "idle", "clear"}
    BY <1>3, NextChipIs DEF BeginScan, Dispatch, ClearFlag, ScanTypeOK
  <2>. QED  BY <2>1 DEF DispatchInv
<1>4. CASE ReadIntfA
  BY <1>0, <1>4 DEF ReadIntfA, DispatchInv, InChip, chipVars
<1>5. CASE ReadIntfB
  <2>1. CASE changed' = {}
    <3>1. step' \in {"intfA", "clear"}
      BY <1>0, <1>5, <2>1, NextChipIs DEF ReadIntfB
    <3>. QED  BY <3>1 DEF DispatchInv
  <2>2. CASE changed' # {}
    <3>1. /\ step = "intfB" /\ step' = "intcapA" /\ chip' = chip /\ captured' = captured
          /\ changed' = changed \cup (pending \cap PortB[chip])
          /\ \A p : InChip(p)' <=> InChip(p)
      BY <1>5, <2>2 DEF ReadIntfB, chipVars, history, InChip, Cleared
    <3>2. \A p \in changed' : InChip(p)
      BY <3>1 DEF DispatchInv, InChip
    <3>. QED  BY <1>0, <3>1, <3>2 DEF DispatchInv
  <2>. QED  BY <2>1, <2>2
<1>6. CASE ReadIntcapA
  <2>1. /\ step = "intcapA" /\ step' = "intcapB" /\ chip' = chip /\ changed' = changed
        /\ intcap' = intcap /\ ReadIntcap(PortA[chip])
        /\ captured = {} /\ changed \subseteq PinsOf(chip) /\ \A p \in changed : InChip(p)
    BY <1>6 DEF ReadIntcapA, DispatchInv
  <2>2. captured' \subseteq PortA[chip]
    BY <2>1 DEF ReadIntcap
  <2>3. \A p \in changed : IF p \in PortA[chip] THEN InHand(p)' ELSE InChip(p)'
    BY <1>0, <2>1, CaptureIs
  <2>. QED  BY <2>1, <2>2, <2>3 DEF DispatchInv
<1>7. CASE ReadIntcapB
  <2>1. /\ step = "intcapB" /\ step' = "dispatch" /\ chip' = chip /\ changed' = changed
        /\ intcap' = intcap /\ ReadIntcap(PortB[chip])
        /\ captured \subseteq PortA[chip] /\ changed \subseteq PinsOf(chip)
        /\ \A p \in changed : IF p \in PortA[chip] THEN InHand(p) ELSE InChip(p)
    BY <1>7 DEF ReadIntcapB, DispatchInv
  <2>2. ASSUME NEW p \in changed PROVE InHand(p)'
    <3>1. CASE p \in PortA[chip]
      BY <1>0, <2>1, <3>1, CaptureIs
    <3>2. CASE p \notin PortA[chip]
      BY <1>0, <2>1, <3>2, CaptureIs
    <3>. QED  BY <3>1, <3>2
  <2>. QED  BY <2>1, <2>2 DEF DispatchInv
<1>8. CASE UNCHANGED intVars
  BY <1>8 DEF intVars, chipVars, scanVars, history, DispatchInv, InChip, InHand, Cleared
<1>. QED  BY <1>1, <1>2, <1>3, <1>4, <1>5, <1>6, <1>7, <1>8 DEF IntNext, Scan

(* What CustomPinManager::update dispatches to a pin is an interrupt the   *)
(* chip had of it, with the level it then had, and none is dispatched      *)
(* twice.                                                                  *)
THEOREM DispatchIsReal == IntSpec => []DispatchedOnce
<1>1. IntInit => DispatchInv
  BY DEF IntInit, DispatchInv
<1>2. DispatchInv => DispatchedOnce
  BY DEF DispatchInv, DispatchedOnce, InHand, Cleared
<1>. QED  BY <1>1, <1>2, DispatchStep, ScanTypeInit, ScanTypeStep, PTL DEF IntSpec
===============================================================================
