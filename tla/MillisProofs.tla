----------------------------- MODULE MillisProofs -----------------------------
(***************************************************************************)
(* Facts about the wrapping clock, which the proofs of every timer use.    *)
(***************************************************************************)
EXTENDS Millis, TLAPS

(* Adding less than a lap to a reading of millis() gives a reading. *)
LEMMA LaterIsTime ==
    ASSUME NEW t \in Time, NEW d \in 0 .. Wrap - 1
    PROVE  Later(t, d) \in Time
BY WrapAssumption DEF Later, Time

(* The unsigned difference of two readings is less than a lap. *)
LEMMA ElapsedIsTime ==
    ASSUME NEW t \in Time, NEW s \in Time
    PROVE  Elapsed(t, s) \in Time
BY WrapAssumption DEF Elapsed, Time

(* So it is a number. *)
COROLLARY ElapsedIsInt ==
    ASSUME NEW t \in Time, NEW s \in Time
    PROVE  Elapsed(t, s) \in Int
BY ElapsedIsTime, WrapAssumption DEF Time

(* The difference grows with time, or falls back by exactly one lap. *)
LEMMA ElapsedLater ==
    ASSUME NEW t \in Time, NEW s \in Time, NEW d \in 0 .. Wrap - 1
    PROVE  \/ Elapsed(Later(t, d), s) = Elapsed(t, s) + d
           \/ Elapsed(Later(t, d), s) = Elapsed(t, s) + d - Wrap
BY WrapAssumption DEF Later, Elapsed, Time

(* Either way it grows by no more than the time that has gone by.          *)
LEMMA ElapsedGrows ==
    ASSUME NEW t \in Time, NEW s \in Time, NEW d \in 0 .. Wrap - 1
    PROVE  /\ Later(t, d) \in Time
           /\ Elapsed(t, s) \in Nat /\ Elapsed(Later(t, d), s) \in Nat
           /\ Elapsed(Later(t, d), s) <= Elapsed(t, s) + d
           /\ Elapsed(t, t) = 0
BY WrapAssumption DEF Later, Elapsed, Time

(* And it measures a time shorter than a lap exactly. *)
LEMMA ElapsedExact ==
    ASSUME NEW t \in Time, NEW s \in Time, NEW d \in 0 .. Wrap - 1,
           Elapsed(t, s) + d < Wrap
    PROVE  Elapsed(Later(t, d), s) = Elapsed(t, s) + d
BY WrapAssumption DEF Later, Elapsed, Time

(* Two delays add up. *)
LEMMA LaterLater ==
    ASSUME NEW t \in Time, NEW c \in Nat, NEW d \in Nat, c + d < Wrap
    PROVE  Later(Later(t, c), d) = Later(t, c + d)
BY WrapAssumption DEF Later, Time

(* A reading is no time away from itself, and a delay away from the reading before it. *)
LEMMA ElapsedSince ==
    ASSUME NEW t \in Time, NEW d \in 0 .. Wrap - 1
    PROVE  Elapsed(Later(t, d), t) = d
BY WrapAssumption DEF Later, Elapsed, Time

(* Least picks one of its arguments, and the smaller.                      *)
LEMMA LeastIs ==
    ASSUME NEW a \in Int, NEW b \in Int
    PROVE  /\ Least(a, b) \in {a, b}
           /\ Least(a, b) <= a /\ Least(a, b) <= b
BY DEF Least
===============================================================================
