-------------------------------- MODULE Sums --------------------------------
(***************************************************************************)
(* Sums over sequences, by a recursive function: those of FiniteSetsExt    *)
(* take an operator, which the proofs cannot reason about.                 *)
(***************************************************************************)
EXTENDS Integers

\* The sum of the first n elements of f, those it has.
SumTo(f, n) ==
  LET To[m \in Nat] ==
        IF m = 0 THEN 0 ELSE IF m \in DOMAIN f THEN To[m - 1] + f[m] ELSE To[m - 1]
  IN To[n]
=============================================================================
