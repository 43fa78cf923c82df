-------------------------------- MODULE Sums --------------------------------
(***************************************************************************)
(* Sums over a range of integers, as a recursive function.                 *)
(***************************************************************************)
EXTENDS Integers

\* A function outside its domain counts for nothing.
OrZero(f, a) == IF a \in DOMAIN f THEN f[a] ELSE 0

\* The sum of f over lo .. hi.
SumOver(f, lo, hi) ==
  LET upTo[k \in Nat] == IF k = 0 THEN 0 ELSE upTo[k - 1] + OrZero(f, lo + k - 1)
  IN  upTo[hi - lo + 1]
=============================================================================
