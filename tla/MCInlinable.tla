---------------------------- MODULE MCInlinable ----------------------------
(* Inlinable for TLC: a module with two call-sites and one with one. *)
EXTENDS Inlinable

CONSTANTS m1, m2, i1, i2

TwoModules == {m1, m2}
TwoIds == {i1, i2}
OneOrTwoSites == [m \in TwoModules |-> IF m = m1 THEN TwoIds ELSE {i1}]
=============================================================================
