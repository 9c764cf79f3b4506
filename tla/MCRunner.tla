------------------------------ MODULE MCRunner ------------------------------
(* Runner for TLC: bindables which may bind, fail and stop in any order. *)
EXTENDS Runner

CONSTANTS b1, b2, b3

ThreeBindables == {b1, b2, b3}
TwoBindables == {b1, b2}
=============================================================================
