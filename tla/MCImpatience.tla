---------------------------- MODULE MCImpatience ----------------------------
(* Model values of Impatience for TLC. *)
EXTENDS Impatience

CONSTANT s0

TwoRaces == 1 .. 2
ThreeRaces == 1 .. 3
OneAbortSignal == {s0}
=============================================================================
