----------------------------- MODULE MCSettings -----------------------------
(* Settings alone for TLC: two settings, and one which is nested. *)
EXTENDS Settings

PlainKeys == <<"a", "b">>
NestedKeys == <<"c">>
=============================================================================
