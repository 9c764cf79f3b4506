----------------------------- MODULE MCDeadline -----------------------------
(* Model values of Deadline for TLC. *)
EXTENDS Deadline

CONSTANTS c1, c2, p1, p2

TwoCallbacks == {c1, c2}
OnePromise == {p1}
TwoPromises == {p1, p2}
=============================================================================
