------------------------------ MODULE Progress ------------------------------
(***************************************************************************)
(* How much a program has left to do, as a tuple of natural numbers with   *)
(* the outermost loop first.  A program whose every step takes it below    *)
(* what it was cannot run for ever: there is no endless descent.           *)
(***************************************************************************)
EXTENDS Integers

\* The first number in which the tuples differ is smaller in a.
Below(a, b) == \E k \in DOMAIN b : a[k] < b[k] /\ \A j \in 1 .. k - 1 : a[j] = b[j]

IsMeasure(a) == \A k \in DOMAIN a : a[k] \in Nat

\* How many turns a loop up to n has left at k, and whether it is at a place.
TurnsLeft(n, k) == IF k > n THEN 0 ELSE n + 1 - k
OneIf(b) == IF b THEN 1 ELSE 0
=============================================================================
