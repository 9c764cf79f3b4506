----------------------------- MODULE MCBindable -----------------------------
(* Bindable for TLC: two calls of stop. *)
EXTENDS Bindable

CONSTANTS c1, c2

TwoCallers == {c1, c2}
=============================================================================
