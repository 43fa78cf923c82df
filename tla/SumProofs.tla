----------------------------- MODULE SumProofs ------------------------------
(***************************************************************************)
(* Proofs about counters that add up: the rate limits of the two stores    *)
(* (StoreWindows) and the choice between services (Selection), for any     *)
(* limit, window, skews, weights and number of callers.  The sums are      *)
(* defined by recursion; what is used of them follows by induction over    *)
(* sets of natural numbers.                                                *)
(***************************************************************************)
EXTENDS StoreWindows, Selection, WellFoundedInduction, TLAPS

-----------------------------------------------------------------------------
(* Sums                                                                    *)

\* A set with 0 and with every successor of its elements holds all of Nat.
LEMMA NatSet ==
  ASSUME NEW T, 0 \in T, \A n \in Nat : n \in T => n + 1 \in T
  PROVE  Nat \subseteq T
<1> DEFINE R == OpToRel(<, Nat)
<1>1. IsWellFoundedOn(R, Nat)
  BY NatLessThanWellFounded
<1> SUFFICES ASSUME Nat \ T # {} PROVE FALSE
  OBVIOUS
<1> HIDE DEF R
<1>2. \E x \in Nat \ T : \A y \in Nat \ T : ~(<<y, x>> \in R)
  BY <1>1, WFMin, ZenonT(30)
<1>3. PICK x \in Nat \ T : \A y \in Nat \ T : ~(<<y, x>> \in R)
  BY <1>2
<1>4. x # 0 /\ x - 1 \in Nat /\ x - 1 + 1 = x /\ x - 1 < x
  BY <1>3
<1>5. x - 1 \notin T
  BY <1>3, <1>4
<1>6. <<x - 1, x>> \in R
  BY <1>4 DEF R, OpToRel
<1> QED BY <1>3, <1>4, <1>5, <1>6

\* A function with integers for values.
Counted(f) == \A a \in DOMAIN f : f[a] \in Int

\* There is a function with the equations of upTo: the partial ones agree
\* where they overlap, so together they are one.
LEMMA SumExists ==
  ASSUME NEW f, Counted(f), NEW lo \in Int
  PROVE  \E g : g = [k \in Nat |-> IF k = 0 THEN 0 ELSE g[k - 1] + OrZero(f, lo + k - 1)]
<1> DEFINE e(k) == OrZero(f, lo + k)
           Good(g, n) == /\ g \in [0 .. n -> Int] /\ g[0] = 0
                         /\ \A k \in 0 .. n - 1 : g[k + 1] = g[k] + e(k)
           T == {n \in Nat : \E g : Good(g, n)}
           U == {k \in Nat : \A m, n \in Nat : \A g, h :
                              k <= m /\ k <= n /\ Good(g, m) /\ Good(h, n) => g[k] = h[k]}
<1>0. \A k \in Int : e(k) \in Int
  BY DEF Counted, OrZero
<1> HIDE DEF e
<1>1. 0 \in T
  <2>1. Good([k \in 0 .. 0 |-> 0], 0)
    OBVIOUS
  <2> QED BY <2>1, Zenon
<1>2. ASSUME NEW n \in Nat, n \in T PROVE n + 1 \in T
  <2>1. PICK g : Good(g, n)
    BY <1>2, Zenon
  <2> DEFINE h == [k \in 0 .. n + 1 |-> IF k = n + 1 THEN g[n] + e(n) ELSE g[k]]
  <2>2. h \in [0 .. n + 1 -> Int]
    BY <1>0, <2>1
  <2>3. \A k \in 0 .. n : h[k] = g[k]
    OBVIOUS
  <2>4. h[n + 1] = g[n] + e(n)
    OBVIOUS
  <2> HIDE DEF h
  <2>5. h[0] = 0
    BY <2>1, <2>3
  <2>6. ASSUME NEW k \in 0 .. n PROVE h[k + 1] = h[k] + e(k)
    <3>1. CASE k = n
      BY <2>3, <2>4, <3>1
    <3>2. CASE k # n
      <4>1. k \in 0 .. n - 1 /\ k + 1 \in 0 .. n
        BY <3>2
      <4> QED BY <2>1, <2>3, <4>1
    <3> QED BY <3>1, <3>2
  <2>7. Good(h, n + 1)
    BY <2>2, <2>5, <2>6
  <2> QED BY <2>7
<1>3. Nat \subseteq T
  <2> HIDE DEF T
  <2> QED BY <1>1, <1>2, NatSet
<1>4. 0 \in U
  OBVIOUS
<1>5. ASSUME NEW k \in Nat, k \in U PROVE k + 1 \in U
  <2>1. k + 1 \in Nat
    OBVIOUS
  <2>2. ASSUME NEW m \in Nat, NEW n \in Nat, NEW g, NEW h,
               k + 1 <= m, k + 1 <= n, Good(g, m), Good(h, n)
        PROVE  g[k + 1] = h[k + 1]
    <3>1. k <= m /\ k <= n /\ k \in 0 .. m - 1 /\ k \in 0 .. n - 1
      BY <2>2
    <3>2. g[k] = h[k]
      <4> HIDE DEF Good
      <4> QED BY <1>5, <2>2, <3>1, Zenon
    <3>3. g[k + 1] = g[k] + e(k) /\ h[k + 1] = h[k] + e(k)
      BY <2>2, <3>1, Zenon
    <3> QED BY <3>2, <3>3
  <2> HIDE DEF Good
  <2> QED BY <2>1, <2>2, Zenon
<1>6. Nat \subseteq U
  <2> HIDE DEF U
  <2> QED BY <1>4, <1>5, NatSet
<1> DEFINE C(n) == CHOOSE g : Good(g, n)
           G == [n \in Nat |-> C(n)[n]]
<1>7. ASSUME NEW n \in Nat PROVE Good(C(n), n)
  <2>1. \E g : Good(g, n)
    BY <1>3, Zenon
  <2> HIDE DEF Good
  <2> QED BY <2>1
<1> HIDE DEF C
<1>8. G[0] = 0
  BY <1>7
<1>9. ASSUME NEW n \in Nat PROVE G[n + 1] = G[n] + e(n)
  <2>1. Good(C(n), n) /\ Good(C(n + 1), n + 1)
    BY <1>7
  <2>2. C(n)[n] = C(n + 1)[n]
    <3>1. n \in U
      BY <1>6, Zenon
    <3> HIDE DEF Good
    <3> QED BY <2>1, <3>1
  <2>3. C(n + 1)[n + 1] = C(n + 1)[n] + e(n)
    BY <2>1
  <2> QED BY <2>2, <2>3
<1>10. G = [k \in Nat |-> IF k = 0 THEN 0 ELSE G[k - 1] + OrZero(f, lo + k - 1)]
  <2> SUFFICES ASSUME NEW k \in Nat
               PROVE  G[k] = IF k = 0 THEN 0 ELSE G[k - 1] + OrZero(f, lo + k - 1)
    BY Zenon
  <2>1. CASE k = 0
    BY <1>8, <2>1
  <2>2. CASE k # 0
    <3>1. k - 1 \in Nat /\ k - 1 + 1 = k /\ lo + (k - 1) = lo + k - 1
      BY <2>2
    <3>2. G[k] = G[k - 1] + e(k - 1)
      BY <1>9, <3>1, Zenon
    <3> QED BY <2>2, <3>1, <3>2 DEF e
  <2> QED BY <2>1, <2>2
<1> QED BY <1>10, Zenon

\* The sum of nothing is 0, and one more place adds what is there.
LEMMA SumFacts ==
  ASSUME NEW f, Counted(f), NEW lo \in Int
  PROVE  /\ SumOver(f, lo, lo - 1) = 0
         /\ \A hi \in Int : hi >= lo - 1 =>
              /\ SumOver(f, lo, hi) \in Int
              /\ SumOver(f, lo, hi + 1) = SumOver(f, lo, hi) + OrZero(f, hi + 1)
<1> DEFINE s == CHOOSE g : g = [k \in Nat |-> IF k = 0 THEN 0 ELSE g[k - 1] + OrZero(f, lo + k - 1)]
           T == {k \in Nat : s[k] \in Int}
<1>1. \A hi : SumOver(f, lo, hi) = s[hi - lo + 1]
  BY DEF SumOver
<1>2. s = [k \in Nat |-> IF k = 0 THEN 0 ELSE s[k - 1] + OrZero(f, lo + k - 1)]
  BY SumExists
<1> HIDE DEF s
<1>3. s[0] = 0 /\ \A k \in Nat : s[k + 1] = s[k] + OrZero(f, lo + k)
  <2>1. s[0] = 0
    BY <1>2
  <2>2. ASSUME NEW k \in Nat PROVE s[k + 1] = s[k] + OrZero(f, lo + k)
    <3>1. k + 1 \in Nat /\ k + 1 # 0 /\ k + 1 - 1 = k /\ lo + (k + 1) - 1 = lo + k
      OBVIOUS
    <3>2. s[k + 1] = IF k + 1 = 0 THEN 0 ELSE s[k + 1 - 1] + OrZero(f, lo + (k + 1) - 1)
      BY <1>2, <3>1
    <3> QED BY <3>1, <3>2, Zenon
  <2> QED BY <2>1, <2>2
<1>4. \A a \in Int : OrZero(f, a) \in Int
  BY DEF Counted, OrZero
<1>5. Nat \subseteq T
  <2>1. 0 \in T
    BY <1>3
  <2>2. ASSUME NEW n \in Nat, n \in T PROVE n + 1 \in T
    BY <1>3, <1>4, <2>2
  <2> HIDE DEF T
  <2> QED BY <2>1, <2>2, NatSet
<1>6. ASSUME NEW hi \in Int, hi >= lo - 1
      PROVE  /\ SumOver(f, lo, hi) \in Int
             /\ SumOver(f, lo, hi + 1) = SumOver(f, lo, hi) + OrZero(f, hi + 1)
  <2>1. /\ hi - lo + 1 \in Nat /\ hi + 1 - lo + 1 = (hi - lo + 1) + 1
        /\ lo + (hi - lo + 1) = hi + 1
    BY <1>6
  <2>2. s[(hi - lo + 1) + 1] = s[hi - lo + 1] + OrZero(f, hi + 1)
    BY <1>3, <2>1, Zenon
  <2>3. s[hi - lo + 1] \in Int
    BY <1>5, <2>1
  <2>4. SumOver(f, lo, hi) = s[hi - lo + 1] /\ SumOver(f, lo, hi + 1) = s[(hi - lo + 1) + 1]
    BY <1>1, <2>1
  <2> QED BY <2>2, <2>3, <2>4
<1>7. SumOver(f, lo, lo - 1) = 0
  <2>1. lo - 1 - lo + 1 = 0
    OBVIOUS
  <2> QED BY <1>1, <1>3, <2>1, Zenon
<1> QED BY <1>6, <1>7, Zenon

\* A sum of integers is one.
LEMMA SumIsInt ==
  ASSUME NEW f, Counted(f), NEW lo \in Int, NEW hi \in Int, hi >= lo - 1
  PROVE  SumOver(f, lo, hi) \in Int
BY SumFacts

\* Induction from lo - 1 upwards, over a set.
LEMMA UpFrom ==
  ASSUME NEW lo \in Int, NEW T, lo - 1 \in T,
         \A n \in Int : n >= lo - 1 /\ n \in T => n + 1 \in T,
         NEW hi \in Int, hi >= lo - 1
  PROVE  hi \in T
<1> DEFINE U == {k \in Nat : lo - 1 + k \in T}
<1>1. 0 \in U
  OBVIOUS
<1>2. ASSUME NEW k \in Nat, k \in U PROVE k + 1 \in U
  <2>1. lo - 1 + k \in Int /\ lo - 1 + k >= lo - 1 /\ lo - 1 + k + 1 = lo - 1 + (k + 1)
    OBVIOUS
  <2> QED BY <1>2, <2>1
<1>3. Nat \subseteq U
  <2> HIDE DEF U
  <2> QED BY <1>1, <1>2, NatSet
<1>4. hi - lo + 1 \in Nat /\ lo - 1 + (hi - lo + 1) = hi
  OBVIOUS
<1> QED BY <1>3, <1>4, Zenon

\* What a function counts for at any place is an integer.
LEMMA OrZeroInt == ASSUME NEW f, Counted(f), NEW a PROVE OrZero(f, a) \in Int
BY DEF Counted, OrZero

\* Two functions that differ at one place: their sums differ by as much.
LEMMA SumMoved ==
  ASSUME NEW f, NEW g, Counted(f), Counted(g), NEW lo \in Int, NEW a \in Int,
         \A b \in Int : b # a => OrZero(g, b) = OrZero(f, b),
         NEW hi \in Int, hi >= lo - 1
  PROVE  /\ a \in lo .. hi => SumOver(g, lo, hi) = SumOver(f, lo, hi) + (OrZero(g, a) - OrZero(f, a))
         /\ a \notin lo .. hi => SumOver(g, lo, hi) = SumOver(f, lo, hi)
<1> DEFINE P(n) == /\ a \in lo .. n =>
                        SumOver(g, lo, n) = SumOver(f, lo, n) + (OrZero(g, a) - OrZero(f, a))
                   /\ a \notin lo .. n => SumOver(g, lo, n) = SumOver(f, lo, n)
           T == {n \in Int : P(n)}
<1>1. lo - 1 \in T
  <2>1. a \notin lo .. lo - 1 /\ lo - 1 \in Int
    OBVIOUS
  <2> QED BY <2>1, SumFacts
<1>2. ASSUME NEW n \in Int, n >= lo - 1 /\ n \in T PROVE n + 1 \in T
  <2>1. /\ SumOver(g, lo, n) \in Int /\ SumOver(g, lo, n + 1) = SumOver(g, lo, n) + OrZero(g, n + 1)
        /\ SumOver(f, lo, n) \in Int /\ SumOver(f, lo, n + 1) = SumOver(f, lo, n) + OrZero(f, n + 1)
    BY <1>2, SumFacts
  <2>2. /\ OrZero(f, a) \in Int /\ OrZero(g, a) \in Int
        /\ OrZero(f, n + 1) \in Int /\ OrZero(g, n + 1) \in Int
    BY OrZeroInt
  <2>3. CASE n + 1 = a
    <3>1. a \in lo .. n + 1 /\ a \notin lo .. n
      BY <1>2, <2>3
    <3> QED BY <1>2, <2>1, <2>2, <2>3, <3>1
  <2>4. CASE n + 1 # a
    <3>1. OrZero(g, n + 1) = OrZero(f, n + 1) /\ (a \in lo .. n + 1 <=> a \in lo .. n)
      BY <1>2, <2>4
    <3> QED BY <1>2, <2>1, <2>2, <3>1
  <2> QED BY <2>3, <2>4
<1> HIDE DEF P
<1>3. hi \in T
  <2> HIDE DEF T
  <2> QED BY <1>1, <1>2, UpFrom
<1> QED BY <1>3 DEF P

\* One more at one place.
Bumped(f, g, a) ==
  OrZero(g, a) = OrZero(f, a) + 1 /\ \A b \in Int : b # a => OrZero(g, b) = OrZero(f, b)

\* One more at one place is one more in the sums that reach it.
LEMMA SumBumped ==
  ASSUME NEW f, NEW g, Counted(f), Counted(g), NEW a \in Int, Bumped(f, g, a),
         NEW lo \in Int, NEW hi \in Int, lo <= a, hi >= lo - 1
  PROVE  /\ hi >= a => SumOver(g, lo, hi) = SumOver(f, lo, hi) + 1
         /\ hi < a => SumOver(g, lo, hi) = SumOver(f, lo, hi)
<1>1. /\ a \in lo .. hi => SumOver(g, lo, hi) = SumOver(f, lo, hi) + (OrZero(g, a) - OrZero(f, a))
      /\ a \notin lo .. hi => SumOver(g, lo, hi) = SumOver(f, lo, hi)
  <2>1. \A b \in Int : b # a => OrZero(g, b) = OrZero(f, b)
    BY DEF Bumped
  <2> QED BY <2>1, SumMoved
<1>2. OrZero(g, a) = OrZero(f, a) + 1 /\ OrZero(f, a) \in Int /\ SumOver(f, lo, hi) \in Int
  BY OrZeroInt, SumIsInt DEF Bumped
<1> QED BY <1>1, <1>2

\* More, or less, at one place.
Changed(f, g, a, d) ==
  OrZero(g, a) = OrZero(f, a) + d /\ \A b \in Int : b # a => OrZero(g, b) = OrZero(f, b)

\* The sums over a place that changed by d differ by d.
LEMMA SumChanged ==
  ASSUME NEW f, NEW g, Counted(f), Counted(g), NEW lo \in Int, NEW hi \in Int, hi >= lo - 1,
         NEW a \in lo .. hi, NEW d \in Int, Changed(f, g, a, d)
  PROVE  SumOver(g, lo, hi) = SumOver(f, lo, hi) + d
<1>1. SumOver(g, lo, hi) = SumOver(f, lo, hi) + (OrZero(g, a) - OrZero(f, a))
  <2>1. \A b \in Int : b # a => OrZero(g, b) = OrZero(f, b)
    BY DEF Changed
  <2>2. a \in Int /\ a \in lo .. hi
    OBVIOUS
  <2> QED BY <2>1, <2>2, SumMoved
<1>2. OrZero(g, a) = OrZero(f, a) + d /\ OrZero(f, a) \in Int /\ SumOver(f, lo, hi) \in Int
  BY OrZeroInt, SumIsInt DEF Changed
<1> QED BY <1>1, <1>2

\* g is f with 1 added at a.
AddsOne(S, f, g, a) ==
  S \subseteq Int /\ f \in [S -> Nat] /\ a \in S /\ g = [f EXCEPT ![a] = @ + 1]

\* Adding 1 at one place of a function does that.
LEMMA BumpFacts ==
  ASSUME NEW S, NEW f, NEW g, NEW a, AddsOne(S, f, g, a)
  PROVE  g \in [S -> Nat] /\ Bumped(f, g, a)
<1>1. g \in [S -> Nat]
  BY DEF AddsOne
<1> QED BY <1>1 DEF AddsOne, Bumped, OrZero

\* A function that is nowhere more than another, in the range summed.
LEMMA SumLess ==
  ASSUME NEW f, NEW g, Counted(f), Counted(g), NEW lo \in Int, NEW hi \in Int, hi >= lo - 1,
         \A b \in lo .. hi : OrZero(f, b) <= OrZero(g, b)
  PROVE  SumOver(f, lo, hi) <= SumOver(g, lo, hi)
<1> DEFINE P(n) == n <= hi => SumOver(f, lo, n) <= SumOver(g, lo, n)
           T == {n \in Int : P(n)}
<1>1. lo - 1 \in T
  BY SumFacts
<1>2. ASSUME NEW n \in Int, n >= lo - 1 /\ n \in T PROVE n + 1 \in T
  <2>1. /\ SumOver(g, lo, n) \in Int /\ SumOver(g, lo, n + 1) = SumOver(g, lo, n) + OrZero(g, n + 1)
        /\ SumOver(f, lo, n) \in Int /\ SumOver(f, lo, n + 1) = SumOver(f, lo, n) + OrZero(f, n + 1)
    BY <1>2, SumFacts
  <2>2. OrZero(f, n + 1) \in Int /\ OrZero(g, n + 1) \in Int
    BY OrZeroInt
  <2>3. n + 1 <= hi => OrZero(f, n + 1) <= OrZero(g, n + 1)
    BY <1>2
  <2> QED BY <1>2, <2>1, <2>2, <2>3
<1> HIDE DEF P
<1>3. hi \in T
  <2> HIDE DEF T
  <2> QED BY <1>1, <1>2, UpFrom
<1> QED BY <1>3 DEF P

\* A function moved up by one place: its sum is the one up to a place less.
LEMMA SumShifted ==
  ASSUME NEW f, NEW g, Counted(f), Counted(g), NEW lo \in Int, NEW hi \in Int, hi >= lo,
         OrZero(g, lo) = 0, \A b \in lo + 1 .. hi : OrZero(g, b) = OrZero(f, b - 1)
  PROVE  SumOver(g, lo, hi) = SumOver(f, lo, hi - 1)
<1> DEFINE P(n) == n + 1 <= hi => SumOver(g, lo, n + 1) = SumOver(f, lo, n)
           T == {n \in Int : P(n)}
<1>1. lo - 1 \in T
  <2>1. lo - 1 + 1 = lo /\ lo - 1 >= lo - 1 /\ lo - 1 \in Int
    OBVIOUS
  <2>2. SumOver(g, lo, lo - 1 + 1) = SumOver(g, lo, lo - 1) + OrZero(g, lo - 1 + 1)
    BY <2>1, SumFacts
  <2>3. SumOver(g, lo, lo - 1) = 0 /\ SumOver(f, lo, lo - 1) = 0
    BY SumFacts
  <2> QED BY <2>1, <2>2, <2>3
<1>2. ASSUME NEW n \in Int, n >= lo - 1 /\ n \in T PROVE n + 1 \in T
  <2>1. /\ SumOver(g, lo, n + 1) \in Int
        /\ SumOver(g, lo, n + 1 + 1) = SumOver(g, lo, n + 1) + OrZero(g, n + 1 + 1)
        /\ SumOver(f, lo, n) \in Int /\ SumOver(f, lo, n + 1) = SumOver(f, lo, n) + OrZero(f, n + 1)
    <3>1. n + 1 \in Int /\ n + 1 >= lo - 1
      BY <1>2
    <3> QED BY <1>2, <3>1, SumFacts, ZenonT(40)
  <2>2. n + 1 + 1 <= hi => OrZero(g, n + 1 + 1) = OrZero(f, n + 1)
    <3>1. n + 1 + 1 <= hi => n + 1 + 1 \in lo + 1 .. hi /\ n + 1 + 1 - 1 = n + 1
      BY <1>2
    <3> QED BY <3>1
  <2> QED BY <1>2, <2>1, <2>2
<1> HIDE DEF P
<1>3. hi - 1 \in T
  <2>1. hi - 1 \in Int /\ hi - 1 >= lo - 1
    OBVIOUS
  <2> HIDE DEF T
  <2> QED BY <1>1, <1>2, <2>1, UpFrom
<1>4. hi - 1 + 1 = hi
  OBVIOUS
<1> QED BY <1>3, <1>4 DEF P

\* A longer sum of counts is no less.
LEMMA SumLonger ==
  ASSUME NEW f, Counted(f), NEW lo \in Int, NEW mid \in Int, NEW hi \in Int,
         lo - 1 <= mid, mid <= hi, \A b \in Int : OrZero(f, b) >= 0
  PROVE  SumOver(f, lo, mid) <= SumOver(f, lo, hi)
<1> DEFINE P(n) == n >= mid => SumOver(f, lo, mid) <= SumOver(f, lo, n)
           T == {n \in Int : P(n)}
<1>0. SumOver(f, lo, mid) \in Int
  BY SumFacts
<1>1. lo - 1 \in T
  BY <1>0
<1>2. ASSUME NEW n \in Int, n >= lo - 1 /\ n \in T PROVE n + 1 \in T
  <2>1. SumOver(f, lo, n) \in Int /\ SumOver(f, lo, n + 1) = SumOver(f, lo, n) + OrZero(f, n + 1)
    BY <1>2, SumFacts
  <2>2. OrZero(f, n + 1) \in Int /\ OrZero(f, n + 1) >= 0
    BY OrZeroInt
  <2>3. CASE n >= mid
    BY <1>0, <1>2, <2>1, <2>2, <2>3
  <2>4. CASE ~(n >= mid)
    BY <1>0, <2>4
  <2> QED BY <2>3, <2>4
<1> HIDE DEF P
<1>3. hi \in T
  <2>1. hi >= lo - 1
    OBVIOUS
  <2> HIDE DEF T
  <2> QED BY <1>1, <1>2, <2>1, UpFrom
<1> QED BY <1>3 DEF P
\* Where there is nothing more the sum stays.
LEMMA SumStops ==
  ASSUME NEW f, Counted(f), NEW lo \in Int, NEW mid \in Int, NEW hi \in Int,
         lo - 1 <= mid, mid <= hi, \A b \in mid + 1 .. hi : OrZero(f, b) = 0
  PROVE  SumOver(f, lo, hi) = SumOver(f, lo, mid)
<1> DEFINE P(n) == mid <= n /\ n <= hi => SumOver(f, lo, n) = SumOver(f, lo, mid)
           T == {n \in Int : P(n)}
<1>1. lo - 1 \in T
  OBVIOUS
<1>2. ASSUME NEW n \in Int, n >= lo - 1 /\ n \in T PROVE n + 1 \in T
  <2>1. SumOver(f, lo, n) \in Int /\ SumOver(f, lo, n + 1) = SumOver(f, lo, n) + OrZero(f, n + 1)
    BY <1>2, SumFacts
  <2>2. mid <= n /\ n + 1 <= hi => OrZero(f, n + 1) = 0
    BY <1>2
  <2>3. CASE mid <= n
    BY <1>2, <2>1, <2>2, <2>3
  <2>4. CASE ~(mid <= n)
    <3>1. mid <= n + 1 => n + 1 = mid
      BY <2>4
    <3> QED BY <3>1
  <2> QED BY <2>3, <2>4
<1> HIDE DEF P
<1>3. hi \in T
  <2>1. hi >= lo - 1
    OBVIOUS
  <2> HIDE DEF T
  <2> QED BY <1>1, <1>2, <2>1, UpFrom
<1> QED BY <1>3 DEF P

\* What a function to Nat counts for, in and outside its domain.
LEMMA CountsFacts ==
  ASSUME NEW S, NEW f \in [S -> Nat]
  PROVE  Counted(f) /\ (\A a : OrZero(f, a) \in Nat) /\ (\A a \in S : OrZero(f, a) = f[a])
         /\ \A a : a \notin S => OrZero(f, a) = 0
BY DEF Counted, OrZero

\* A sum of zeros.
LEMMA SumOfNothing ==
  ASSUME NEW f, Counted(f), NEW lo \in Int, NEW hi \in Int, hi >= lo - 1,
         \A b \in lo .. hi : OrZero(f, b) = 0
  PROVE  SumOver(f, lo, hi) = 0
<1>1. lo - 1 + 1 = lo /\ lo - 1 \in Int /\ lo - 1 <= lo - 1 /\ lo - 1 <= hi
  OBVIOUS
<1>2. SumOver(f, lo, hi) = SumOver(f, lo, lo - 1)
  BY <1>1, SumStops
<1> QED BY <1>2, SumFacts

\* Functions that agree on the range have the same sum.
LEMMA SumEqual ==
  ASSUME NEW f, NEW g, Counted(f), Counted(g), NEW lo \in Int, NEW hi \in Int, hi >= lo - 1,
         \A b \in lo .. hi : OrZero(f, b) = OrZero(g, b)
  PROVE  SumOver(f, lo, hi) = SumOver(g, lo, hi)
<1>1. \A b \in lo .. hi : OrZero(f, b) <= OrZero(g, b) /\ OrZero(g, b) <= OrZero(f, b)
  BY OrZeroInt
<1>2. SumOver(f, lo, hi) <= SumOver(g, lo, hi) /\ SumOver(g, lo, hi) <= SumOver(f, lo, hi)
  BY <1>1, SumLess
<1>3. SumOver(f, lo, hi) \in Int /\ SumOver(g, lo, hi) \in Int
  BY SumFacts
<1> QED BY <1>2, <1>3

\* A function to Nat counts for no less than nothing.
LEMMA NatCounts ==
  ASSUME NEW S, NEW f \in [S -> Nat]
  PROVE  Counted(f) /\ \A b \in Int : OrZero(f, b) >= 0
BY CountsFacts

\* A sum of counts is a natural number.
LEMMA SumIsNat ==
  ASSUME NEW S, NEW f \in [S -> Nat], NEW lo \in Int, NEW hi \in Int, hi >= lo - 1
  PROVE  SumOver(f, lo, hi) \in Nat
<1>1. Counted(f) /\ \A b \in Int : OrZero(f, b) >= 0
  BY NatCounts
<1>2. lo - 1 \in Int /\ lo - 1 <= lo - 1 /\ lo - 1 <= hi
  OBVIOUS
<1>3. SumOver(f, lo, lo - 1) <= SumOver(f, lo, hi)
  BY <1>1, <1>2, SumLonger
<1>4. SumOver(f, lo, lo - 1) = 0 /\ SumOver(f, lo, hi) \in Int
  BY <1>1, SumFacts
<1> QED BY <1>3, <1>4

-----------------------------------------------------------------------------
(* The smooth weighted choice between services.                            *)

\* Where a caller of next_service can be.
SplitPlace ==
  [at : {"idle", "scan", "chosen"}, i : 1 .. Len(Weight) + 1,
   best : [i : 0 .. Len(Weight), load : Int], pick : 0 .. Len(Weight)]

\* A caller that has visited a service has a best one; one that is not
\* visiting has added nothing.
SplitInv ==
  /\ share \in [Choice -> Int] /\ sel \in [SelCalls -> SplitPlace]
  /\ \A c \in SelCalls : /\ sel[c].at # "scan" => sel[c].i = 1
                         /\ sel[c].i > 1 => sel[c].best.i \in Choice
  /\ SumOver(share, 1, Len(Weight)) = SumOver([c \in SelCalls |-> Added(c)], 1, NumCalls)

ShareInv == IF kind = "split" THEN SplitInv ELSE share = [i \in Choice |-> 0]

\* The weights are natural numbers, numbered from 1.
LEMMA WeightFacts ==
  /\ Len(Weight) \in Nat /\ Len(Weight) \in Int /\ Choice = 1 .. Len(Weight) /\ NumCalls \in Nat /\ NumCalls \in Int
  /\ Weight \in [Choice -> Nat] /\ Counted(Weight)
  /\ Len(Weight) >= 1 - 1 /\ NumCalls >= 1 - 1
<1>1. Weight \in [1 .. Len(Weight) -> Nat] /\ Len(Weight) \in Nat /\ NumCalls \in Nat
  BY SelConfig
<1>2. Choice = 1 .. Len(Weight)
  BY <1>1 DEF Choice
<1>3. Weight \in [Choice -> Nat]
  BY <1>1, <1>2
<1>4. Counted(Weight)
  BY <1>3, NatCounts
<1> QED BY <1>1, <1>2, <1>3, <1>4

\* The invariant says what ShareConserved does.
LEMMA ShareHolds == ShareInv => ShareConserved
<1> SUFFICES ASSUME ShareInv, kind # "split" PROVE SumOver(share, 1, Len(Weight)) = 0
  BY DEF ShareInv, SplitInv, ShareConserved
<1>1. share = [i \in Choice |-> 0]
  BY DEF ShareInv
<1>2. Counted(share) /\ \A b : OrZero(share, b) = 0
  BY <1>1 DEF Counted, OrZero
<1> QED BY <1>2, WeightFacts, SumOfNothing

\* Nothing added, nothing due.
LEMMA ShareInit == SelInit => ShareInv
<1> SUFFICES ASSUME SelInit, kind = "split" PROVE SplitInv
  BY DEF SelInit, ShareInv
<1> DEFINE added == [c \in SelCalls |-> Added(c)]
<1>1. share = [i \in Choice |-> 0] /\ sel = [c \in SelCalls |-> SelIdle]
  BY DEF SelInit
<1>2. SelIdle \in SplitPlace /\ SelIdle.i = 1
  BY WeightFacts DEF SelIdle, Place, Best0, SplitPlace
<1>3. Counted(share) /\ \A b : OrZero(share, b) = 0
  BY <1>1 DEF Counted, OrZero
<1>4. \A c \in SelCalls : Added(c) = 0
  <2>1. SumOver(Weight, 1, 1 - 1) = 0
    BY WeightFacts, SumFacts
  <2> QED BY <1>1, <1>2, <2>1 DEF Added
<1>5. Counted(added) /\ \A b : OrZero(added, b) = 0
  BY <1>4 DEF Counted, OrZero
<1> HIDE DEF added
<1>6. SumOver(share, 1, Len(Weight)) = 0 /\ SumOver(added, 1, NumCalls) = 0
  BY <1>3, <1>5, WeightFacts, SumOfNothing
<1>7. \A c \in SelCalls : sel[c].i = 1
  BY <1>1, <1>2
<1> QED BY <1>1, <1>2, <1>6, <1>7 DEF SplitInv, added

\* A caller that moves on, with the current weight of one service changed by
\* as much as what it has added.
Moves(c, p, k, d) ==
  /\ share' = [share EXCEPT ![k] = @ + d] /\ sel' = [sel EXCEPT ![c] = p]
  /\ p.at # "scan" => p.i = 1
  /\ p.i > 1 => p.best.i \in Choice
  /\ SumOver(Weight, 1, p.i - 1) = Added(c) + d

\* The sums of both sides change by the same.
LEMMA BothMove ==
  ASSUME SplitInv, NEW c \in SelCalls, NEW p \in SplitPlace, NEW k \in Choice, NEW d \in Int,
         Moves(c, p, k, d)
  PROVE  SplitInv'
<1> DEFINE added == [e \in SelCalls |-> Added(e)]
           moved == [e \in SelCalls |-> Added(e)']
<1>1. share' \in [Choice -> Int] /\ sel' \in [SelCalls -> SplitPlace]
  BY DEF SplitInv, Moves
<1>2. \A e \in SelCalls : /\ sel'[e].at # "scan" => sel'[e].i = 1
                          /\ sel'[e].i > 1 => sel'[e].best.i \in Choice
  BY DEF SplitInv, Moves
<1>3. \A e \in SelCalls : Added(e) \in Int
  <2> SUFFICES ASSUME NEW e \in SelCalls PROVE Added(e) \in Int
    OBVIOUS
  <2>0. sel[e] \in SplitPlace
    BY DEF SplitInv
  <2>1. sel[e].i \in 1 .. Len(Weight) + 1
    BY <2>0, Zenon DEF SplitPlace
  <2>2. sel[e].i - 1 \in Int /\ sel[e].i - 1 >= 1 - 1
    BY <2>1, WeightFacts
  <2> QED BY <2>2, WeightFacts, SumIsInt DEF Added
<1>4. Added(c)' = Added(c) + d /\ \A e \in SelCalls : e # c => Added(e)' = Added(e)
  BY DEF Added, SplitInv, Moves
<1>5. \A e \in SelCalls : Added(e)' \in Int
  BY <1>3, <1>4
<1>6. Counted(added) /\ Counted(moved) /\ Changed(added, moved, c, d)
  BY <1>3, <1>4, <1>5 DEF Counted, OrZero, Changed
<1>7. Counted(share) /\ Counted(share') /\ Changed(share, share', k, d)
  BY <1>1 DEF SplitInv, Counted, OrZero, Changed, Moves
<1>8. c \in 1 .. NumCalls /\ k \in 1 .. Len(Weight)
  BY WeightFacts DEF SelCalls
<1>9. SumOver(added, 1, NumCalls) = SumOver(share, 1, Len(Weight))
  BY DEF SplitInv
<1> HIDE DEF added, moved
<1>10. SumOver(moved, 1, NumCalls) = SumOver(added, 1, NumCalls) + d
  BY <1>6, <1>8, WeightFacts, SumChanged
<1>11. SumOver(share', 1, Len(Weight)) = SumOver(share, 1, Len(Weight)) + d
  BY <1>7, <1>8, WeightFacts, SumChanged
<1>12. SumOver(share', 1, Len(Weight)) = SumOver(moved, 1, NumCalls)
  BY <1>9, <1>10, <1>11
<1> QED BY <1>1, <1>2, <1>12 DEF SplitInv, moved

\* One service of the loop: its weight is added on both sides.
LEMMA VisitShare == ASSUME ShareInv, NEW c \in SelCalls, SplitVisit(c) PROVE SplitInv'
<1> DEFINE s == sel[c]
           cur == share[s.i] + Weight[s.i]
           best == IF s.best.i = 0 \/ cur > s.best.load THEN [i |-> s.i, load |-> cur] ELSE s.best
           p == Place("scan", s.i + 1, best, 0)
<1>1. SplitInv /\ s.i \in Choice /\ s \in SplitPlace
  BY DEF ShareInv, SplitVisit, Looking, SplitInv
<1>2. s.i \in Int /\ s.i >= 1 /\ s.i <= Len(Weight) /\ Weight[s.i] \in Nat /\ share[s.i] \in Int /\ cur \in Int
  BY <1>1, WeightFacts DEF SplitInv
<1>3. share' = [share EXCEPT ![s.i] = @ + Weight[s.i]]
  BY Zenon DEF SplitVisit
<1>4. sel' = [sel EXCEPT ![c] = p]
  <2>1. IF s.best.i = 0 \/ cur > s.best.load THEN ToNext(c, [i |-> s.i, load |-> cur]) ELSE ToNext(c, s.best)
    BY Zenon DEF SplitVisit
  <2> QED BY <2>1, Zenon DEF ToNext
<1>5. best \in [i : 0 .. Len(Weight), load : Int] /\ best.i \in Choice
  <2>1. CASE s.best.i = 0 \/ cur > s.best.load
    BY <1>2, <2>1, WeightFacts
  <2>2. CASE ~(s.best.i = 0 \/ cur > s.best.load)
    <3>1. best = s.best /\ s.best \in [i : 0 .. Len(Weight), load : Int] /\ s.best.i # 0
      BY <1>1, <2>2 DEF SplitPlace
    <3> HIDE DEF best
    <3> QED BY <3>1, WeightFacts
  <2> QED BY <2>1, <2>2, Zenon
<1> HIDE DEF best, cur
<1>6. p \in SplitPlace /\ p.at = "scan" /\ p.i = s.i + 1 /\ p.best.i \in Choice
  BY <1>2, <1>5, WeightFacts DEF Place, SplitPlace
<1>7. SumOver(Weight, 1, p.i - 1) = Added(c) + Weight[s.i]
  <2> DEFINE n == s.i - 1
  <2> HIDE DEF p, s
  <2>1. n \in Int /\ n >= 1 - 1 /\ n + 1 = s.i /\ p.i - 1 = n + 1
    BY <1>2, <1>6
  <2>2. OrZero(Weight, s.i) = Weight[s.i]
    BY <1>1 DEF OrZero, Choice
  <2>3. Added(c) = SumOver(Weight, 1, n)
    BY DEF Added, s
  <2> HIDE DEF n
  <2>4. SumOver(Weight, 1, n + 1) = SumOver(Weight, 1, n) + OrZero(Weight, n + 1)
    BY <2>1, WeightFacts, SumFacts
  <2> QED BY <2>1, <2>2, <2>3, <2>4
<1>8. Weight[s.i] \in Int
  BY <1>2
<1> HIDE DEF p, s
<1>9. Moves(c, p, s.i, Weight[s.i])
  BY <1>3, <1>4, <1>6, <1>7 DEF Moves
<1> QED BY <1>1, <1>6, <1>8, <1>9, BothMove, Zenon

\* The end of the loop: the total is taken off on both sides.
LEMMA TakeShare == ASSUME ShareInv, NEW c \in SelCalls, SplitTake(c) PROVE SplitInv'
<1> DEFINE s == sel[c]
           k == s.best.i
           p == Place("chosen", 1, Best0, k)
           d == -AllWeight
<1>1. SplitInv /\ s.at = "scan" /\ s.i \notin Choice /\ s \in SplitPlace
  BY DEF ShareInv, SplitTake, Scanned, SplitInv
<1>2. s.i = Len(Weight) + 1 /\ s.i > 1
  BY <1>1, WeightFacts, SelConfig DEF SplitPlace
<1>3. k \in Choice
  BY <1>2 DEF ShareInv, SplitInv, SplitTake
<1>4. AllWeight \in Int
  BY WeightFacts, SumIsInt DEF AllWeight
<1>5. share[k] \in Int
  BY <1>1, <1>3 DEF SplitInv
<1>6. share' = [share EXCEPT ![k] = @ + d]
  <2>1. share' = [share EXCEPT ![k] = share[k] - AllWeight] /\ share[k] - AllWeight = share[k] + d
    BY <1>4, <1>5 DEF SplitTake
  <2> QED BY <2>1, Zenon
<1>7. sel' = [sel EXCEPT ![c] = p]
  BY DEF SplitTake, Chosen
<1>8. p \in SplitPlace /\ p.at = "chosen" /\ p.i = 1
  BY <1>3, WeightFacts DEF Place, Best0, SplitPlace
<1>9. SumOver(Weight, 1, p.i - 1) = Added(c) + d
  <2>1. SumOver(Weight, 1, 1 - 1) = 0
    BY WeightFacts, SumFacts
  <2>2. Added(c) = AllWeight
    <3>1. s.i - 1 = Len(Weight)
      BY <1>2, WeightFacts
    <3> QED BY <3>1 DEF Added, AllWeight
  <2> QED BY <1>4, <1>8, <2>1, <2>2
<1>10. d \in Int
  BY <1>4
<1> HIDE DEF p, s, k, d
<1>11. Moves(c, p, k, d)
  BY <1>6, <1>7, <1>8, <1>9 DEF Moves
<1> QED BY <1>1, <1>3, <1>8, <1>10, <1>11, BothMove, Zenon

\* Only the split balancer changes the current weights.
LEMMA OthersLeaveShare ==
  ASSUME SelNext, kind # "split" PROVE kind' = kind /\ share' = share
<1>1. ASSUME NEW c \in SelCalls, LeastVisit(c) \/ LeastTake(c) \/ AcquireConn(c) \/ ReleaseConn(c)
      PROVE  kind' = kind /\ share' = share
  BY <1>1, Zenon DEF LeastVisit, LeastTake, AcquireConn, ReleaseConn
<1>2. ASSUME NEW c \in SelCalls, RandomSum(c) \/ RandomDraw(c) \/ RandomWalk(c) \/ SelAgain(c)
      PROVE  kind' = kind /\ share' = share
  BY <1>2 DEF RandomSum, RandomDraw, RandomWalk, SelAgain
<1>3. ASSUME NEW i \in Choice, SelMark(i) PROVE kind' = kind /\ share' = share
  BY <1>3 DEF SelMark
<1> QED BY <1>1, <1>2, <1>3, Zenon DEF SelNext, SplitVisit, SplitTake

\* WeightedServiceRouter::next_service: however many callers interleave their
\* loops, the current weights add up to what the unfinished choices have added,
\* so that a finished choice leaves their sum as it found it.
THEOREM SharesConserved == SelSpec => []ShareConserved
<1>1. ShareInv /\ [SelNext]_selVars => ShareInv'
  <2> SUFFICES ASSUME ShareInv, [SelNext]_selVars PROVE ShareInv'
    OBVIOUS
  <2>1. CASE UNCHANGED selVars
    BY <2>1 DEF ShareInv, SplitInv, selVars, Added
  <2>2. CASE SelNext /\ kind # "split"
    BY <2>2, OthersLeaveShare DEF ShareInv
  <2>3. CASE SelNext /\ kind = "split"
    <3>1. PICK c \in SelCalls : SplitVisit(c) \/ SplitTake(c) \/ SelAgain(c)
      BY <2>3, Zenon DEF SelNext, LeastVisit, LeastTake, AcquireConn, ReleaseConn, RandomSum, RandomDraw,
                  RandomWalk, SelMark
    <3>2. kind' = "split"
      BY <2>3, <3>1, Zenon DEF SplitVisit, SplitTake, SelAgain
    <3>3. CASE SplitVisit(c) \/ SplitTake(c)
      BY <3>2, <3>3, VisitShare, TakeShare DEF ShareInv
    <3>4. CASE SelAgain(c)
      <4>1. /\ SplitInv /\ share' = share /\ sel' = [sel EXCEPT ![c] = SelIdle] /\ sel[c].at = "chosen"
        BY <2>3, <3>4 DEF ShareInv, SelAgain
      <4>2. SelIdle \in SplitPlace /\ SelIdle.i = 1
        BY WeightFacts DEF SelIdle, Place, Best0, SplitPlace
      <4>3. sel' \in [SelCalls -> SplitPlace] /\ \A e \in SelCalls : sel'[e].i = sel[e].i
        BY <4>1, <4>2 DEF SplitInv
      <4>4. \A e \in SelCalls : Added(e)' = Added(e)
        BY <4>3 DEF Added
      <4>5. [e \in SelCalls |-> Added(e)'] = [e \in SelCalls |-> Added(e)]
        BY <4>4
      <4>6. \A e \in SelCalls : /\ sel'[e].at # "scan" => sel'[e].i = 1
                                /\ sel'[e].i > 1 => sel'[e].best.i \in Choice
        BY <4>1, <4>2 DEF SplitInv
      <4>7. SplitInv'
        BY <4>1, <4>3, <4>5, <4>6 DEF SplitInv
      <4> QED BY <3>2, <4>7 DEF ShareInv
    <3> QED BY <3>1, <3>3, <3>4, Zenon
  <2> QED BY <2>1, <2>2, <2>3
<1> QED BY <1>1, ShareInit, ShareHolds, PTL DEF SelSpec

-----------------------------------------------------------------------------
(* The sliding window of the Valkey store.  Its entries and the requests   *)
(* that were let in are two histories of the same events, apart by at most *)
(* the skew of a clock: their sums bound each other.                       *)

\* MaxSkew is the greatest of the finitely many skews, and below Window.
LEMMA SkewFacts == /\ MaxSkew \in Nat /\ MaxSkew < Window /\ Window \in Nat /\ Limit \in Nat
                   /\ \A s \in Skews : s \in 0 .. MaxSkew
<1> DEFINE T == {n \in Nat : (\E s \in Skews : s >= n) \/ \E s \in Skews : \A t \in Skews : t <= s}
<1>1. 0 \in T
  BY WindowConfig
<1>2. ASSUME NEW n \in Nat, n \in T PROVE n + 1 \in T
  <2>1. CASE \E s \in Skews : s >= n + 1
    BY <2>1
  <2>2. CASE \A s \in Skews : s <= n
    BY <1>2, <2>2, WindowConfig
  <2> QED BY <2>1, <2>2, WindowConfig
<1>3. Window \in T
  <2>1. Nat \subseteq T
    <3> HIDE DEF T
    <3> QED BY <1>1, <1>2, NatSet
  <2> QED BY <2>1, WindowConfig, Zenon
<1>4. \E s \in Skews : \A t \in Skews : t <= s
  BY <1>3, WindowConfig
<1>5. MaxSkew \in Skews /\ \A t \in Skews : t <= MaxSkew
  BY <1>4 DEF MaxSkew
<1> QED BY <1>5, WindowConfig

SlidTypes ==
  /\ zset \in [Ages -> Nat] /\ admitted \in [0 .. Window + MaxSkew - 1 -> Nat] /\ idle \in Nat
  /\ idle <= Window

\* Nothing was let in since the key was written.
IdleInv == \A u \in 0 .. idle - 1 : admitted[u] = 0

\* What was let in is in the key until the fastest clock takes it out.
KeptInv == \A t \in 0 .. Window - 1 - MaxSkew :
             SumOver(admitted, 0, t) <= SumOver(zset, -MaxSkew, t)

\* What is in the key was let in, at most MaxSkew ticks earlier than its score.
OnlyInv == \A t \in -MaxSkew .. Window - 1 :
             SumOver(zset, -MaxSkew, t) <= SumOver(admitted, 0, t + MaxSkew)

\* The first half of SlidingWindow.
LimitInv == SumOver(admitted, 0, Window - 1 - MaxSkew) <= Limit

SlidInv == SlidTypes /\ IdleInv /\ KeptInv /\ OnlyInv /\ LimitInv

\* The empty key satisfies the invariant.
LEMMA SlidInitInv == WinInit => SlidInv
<1> SUFFICES ASSUME WinInit PROVE SlidInv
  OBVIOUS
<1>1. SlidTypes
  BY SkewFacts DEF WinInit, SlidTypes, Ages
<1>2. /\ Counted(zset) /\ Counted(admitted)
      /\ \A b : OrZero(zset, b) = 0 /\ OrZero(admitted, b) = 0
  BY DEF WinInit, Counted, OrZero
<1>3. \A t \in Int : t >= -1 => SumOver(admitted, 0, t) = 0
  BY <1>2, SumOfNothing
<1>4. \A t \in Int : t >= -MaxSkew - 1 => SumOver(zset, -MaxSkew, t) = 0
  <2>1. -MaxSkew \in Int
    BY SkewFacts
  <2> QED BY <1>2, <2>1, SumOfNothing
<1>5. IdleInv
  BY DEF WinInit, IdleInv
<1>6. KeptInv
  BY <1>3, <1>4, SkewFacts DEF KeptInv
<1>7. OnlyInv
  BY <1>3, <1>4, SkewFacts DEF OnlyInv
<1>8. LimitInv
  <2>1. Window - 1 - MaxSkew \in Int /\ Window - 1 - MaxSkew >= -1 /\ Limit >= 0
    BY SkewFacts
  <2> QED BY <1>3, <2>1 DEF LimitInv
<1> QED BY <1>1, <1>5, <1>6, <1>7, <1>8 DEF SlidInv

\* ZREMRANGEBYSCORE leaves the entries younger than the window and only those.
LEMMA LiveFacts ==
  ASSUME SlidTypes, NEW s \in Skews
  PROVE  /\ Live(s) \in [Ages -> Nat]
         /\ \A b \in Int : b < Window - s => OrZero(Live(s), b) = OrZero(zset, b)
         /\ \A b \in Int : b >= Window - s => OrZero(Live(s), b) = 0
         /\ \A b \in Int : OrZero(Live(s), b) <= OrZero(zset, b)
<1>1. s \in Int /\ Ages \subseteq Int
  BY SkewFacts DEF Ages
<1>2. Live(s) \in [Ages -> Nat]
  BY DEF Live, SlidTypes
<1>3. ASSUME NEW b \in Int
      PROVE  /\ b < Window - s => OrZero(Live(s), b) = OrZero(zset, b)
             /\ b >= Window - s => OrZero(Live(s), b) = 0
             /\ OrZero(zset, b) \in Nat
  <2>1. DOMAIN Live(s) = Ages /\ DOMAIN zset = Ages
    BY DEF Live, SlidTypes
  <2>2. b \in Ages => Live(s)[b] = IF b + s >= Window THEN 0 ELSE zset[b]
    BY DEF Live
  <2>3. b < Window - s <=> ~(b + s >= Window)
    BY <1>1, SkewFacts
  <2>4. b \in Ages => zset[b] \in Nat
    BY DEF SlidTypes
  <2>5. Window - s \in Int
    BY <1>1, SkewFacts
  <2> QED BY <2>1, <2>2, <2>3, <2>4, <2>5 DEF OrZero
<1>4. Window - s \in Int
  BY <1>1, SkewFacts
<1> QED BY <1>2, <1>3, <1>4

\* Taking out what is over does not disturb what KeptInv and OnlyInv say.
LEMMA LiveInv ==
  ASSUME SlidInv, NEW s \in Skews
  PROVE  /\ \A t \in 0 .. Window - 1 - MaxSkew :
                SumOver(admitted, 0, t) <= SumOver(Live(s), -MaxSkew, t)
         /\ \A t \in -MaxSkew .. Window - 1 :
                SumOver(Live(s), -MaxSkew, t) <= SumOver(admitted, 0, t + MaxSkew)
<1>1. /\ Live(s) \in [Ages -> Nat] /\ zset \in [Ages -> Nat] /\ SlidTypes
      /\ admitted \in [0 .. Window + MaxSkew - 1 -> Nat]
  BY LiveFacts DEF SlidInv, SlidTypes
<1>2. Counted(Live(s)) /\ Counted(zset) /\ Counted(admitted)
  BY <1>1, CountsFacts, Zenon
<1>3. -MaxSkew \in Int /\ MaxSkew \in Nat /\ Window \in Nat /\ s \in 0 .. MaxSkew
  BY SkewFacts
<1>4. ASSUME NEW t \in 0 .. Window - 1 - MaxSkew
      PROVE  SumOver(Live(s), -MaxSkew, t) = SumOver(zset, -MaxSkew, t)
  <2>1. t \in Int /\ t >= -MaxSkew - 1 /\ \A b \in -MaxSkew .. t : b \in Int /\ b < Window - s
    BY <1>3
  <2>2. \A b \in -MaxSkew .. t : OrZero(Live(s), b) = OrZero(zset, b)
    BY <1>1, <2>1, LiveFacts
  <2> QED BY <1>2, <1>3, <2>1, <2>2, SumEqual
<1>5. ASSUME NEW t \in -MaxSkew .. Window - 1
      PROVE  SumOver(Live(s), -MaxSkew, t) <= SumOver(admitted, 0, t + MaxSkew)
  <2>1. t \in Int /\ t >= -MaxSkew - 1 /\ t + MaxSkew \in Int /\ t + MaxSkew >= -1
    BY <1>3
  <2>2. \A b \in -MaxSkew .. t : OrZero(Live(s), b) <= OrZero(zset, b)
    BY <1>1, <1>3, LiveFacts
  <2>3. SumOver(Live(s), -MaxSkew, t) <= SumOver(zset, -MaxSkew, t)
    BY <1>2, <1>3, <2>1, <2>2, SumLess
  <2>4. /\ SumOver(Live(s), -MaxSkew, t) \in Int /\ SumOver(zset, -MaxSkew, t) \in Int
        /\ SumOver(admitted, 0, t + MaxSkew) \in Int
    BY <1>2, <1>3, <2>1, SumIsInt
  <2>5. SumOver(zset, -MaxSkew, t) <= SumOver(admitted, 0, t + MaxSkew)
    BY DEF SlidInv, OnlyInv
  <2> QED BY <2>3, <2>4, <2>5
<1> QED BY <1>4, <1>5 DEF SlidInv, KeptInv

\* What is let in is counted on both sides.
LEMMA AdmitInv ==
  ASSUME SlidInv, NEW s \in Skews, Card(Live(s)) < Limit,
         zset' \in [Ages -> Nat], Bumped(Live(s), zset', -s), idle' = 0,
         admitted' \in [0 .. Window + MaxSkew - 1 -> Nat], Bumped(admitted, admitted', 0)
  PROVE  SlidInv'
<1>0. /\ MaxSkew \in Nat /\ -MaxSkew \in Int /\ Window \in Nat /\ Limit \in Nat /\ MaxSkew < Window
      /\ s \in 0 .. MaxSkew /\ -s \in Int /\ -s \in Ages /\ 0 \in 0 .. Window + MaxSkew - 1
  BY SkewFacts DEF Ages
<1> DEFINE live == Live(s)
<1>1. live \in [Ages -> Nat] /\ admitted \in [0 .. Window + MaxSkew - 1 -> Nat]
  BY LiveFacts DEF SlidInv, SlidTypes
<1> HIDE DEF live
<1>2. Bumped(live, zset', -s) /\ Card(live) < Limit
  BY DEF live
<1>3. Ages \subseteq Int /\ 0 .. Window + MaxSkew - 1 \subseteq Int /\ -MaxSkew <= -s
  BY <1>0 DEF Ages
<1>4. Counted(live) /\ Counted(zset')
  BY <1>1, CountsFacts
<1>5. Counted(admitted) /\ Counted(admitted')
  BY <1>1, CountsFacts, Zenon
<1>6. SlidTypes' /\ IdleInv'
  BY <1>0 DEF SlidTypes, IdleInv
<1>7. ASSUME NEW t \in Int, t >= -MaxSkew - 1
      PROVE  /\ t >= -s => SumOver(zset', -MaxSkew, t) = SumOver(live, -MaxSkew, t) + 1
             /\ t < -s => SumOver(zset', -MaxSkew, t) = SumOver(live, -MaxSkew, t)
             /\ SumOver(live, -MaxSkew, t) \in Int
  BY <1>0, <1>2, <1>3, <1>4, <1>7, SumBumped, SumIsInt
<1>8. ASSUME NEW t \in Int, t >= 0
      PROVE  SumOver(admitted', 0, t) = SumOver(admitted, 0, t) + 1 /\ SumOver(admitted, 0, t) \in Int
  <2>1. t >= 0 - 1 /\ 0 <= 0
    BY <1>8
  <2> QED BY <1>5, <1>8, <2>1, SumBumped, SumIsInt
<1>10. KeptInv'
  <2> SUFFICES ASSUME NEW t \in 0 .. Window - 1 - MaxSkew
               PROVE  SumOver(admitted', 0, t) <= SumOver(zset', -MaxSkew, t)
    BY DEF KeptInv
  <2>1. t \in Nat /\ t \in Int /\ t >= -MaxSkew - 1 /\ -s <= t
    BY <1>0
  <2>2. SumOver(admitted, 0, t) <= SumOver(live, -MaxSkew, t)
    BY LiveInv, Zenon DEF live
  <2>3. /\ SumOver(admitted', 0, t) = SumOver(admitted, 0, t) + 1 /\ SumOver(admitted, 0, t) \in Int
        /\ SumOver(zset', -MaxSkew, t) = SumOver(live, -MaxSkew, t) + 1
        /\ SumOver(live, -MaxSkew, t) \in Int
    BY <1>7, <1>8, <2>1
  <2> QED BY <2>2, <2>3
<1>11. OnlyInv'
  <2> SUFFICES ASSUME NEW t \in -MaxSkew .. Window - 1
               PROVE  SumOver(zset', -MaxSkew, t) <= SumOver(admitted', 0, t + MaxSkew)
    BY DEF OnlyInv
  <2>1. t \in Int /\ t >= -MaxSkew - 1 /\ t + MaxSkew \in Nat
    BY <1>0
  <2>2. SumOver(live, -MaxSkew, t) <= SumOver(admitted, 0, t + MaxSkew)
    BY LiveInv, Zenon DEF live
  <2>3. /\ SumOver(admitted', 0, t + MaxSkew) = SumOver(admitted, 0, t + MaxSkew) + 1
        /\ SumOver(admitted, 0, t + MaxSkew) \in Int /\ SumOver(live, -MaxSkew, t) \in Int
    BY <1>7, <1>8, <2>1
  <2>4. SumOver(zset', -MaxSkew, t) \in {SumOver(live, -MaxSkew, t), SumOver(live, -MaxSkew, t) + 1}
    <3>1. CASE t >= -s
      BY <1>7, <2>1, <3>1, Zenon
    <3>2. CASE t < -s
      BY <1>7, <2>1, <3>2
    <3> QED BY <1>0, <2>1, <3>1, <3>2
  <2> QED BY <2>2, <2>3, <2>4
<1>12. LimitInv'
  <2> DEFINE w == Window - 1 - MaxSkew
             top == Window + MaxSkew
  <2>1. w \in Nat /\ w \in Int /\ w >= -MaxSkew - 1 /\ top \in Int /\ w <= top /\ -s <= top
        /\ top >= -MaxSkew - 1 /\ w \in 0 .. Window - 1 - MaxSkew
    BY <1>0
  <2>2. SumOver(admitted, 0, w) <= SumOver(live, -MaxSkew, w)
    BY <2>1, LiveInv, Zenon DEF live
  <2>3. SumOver(live, -MaxSkew, w) <= SumOver(live, -MaxSkew, top)
    <3>1. \A b \in Int : OrZero(live, b) >= 0
      BY <1>1, CountsFacts
    <3> HIDE DEF w, top
    <3> QED BY <1>0, <1>4, <2>1, <3>1, SumLonger, Zenon
  <2>4. SumOver(live, -MaxSkew, top) < Limit
    BY <1>2 DEF Card
  <2>5. SumOver(live, -MaxSkew, top) \in Int /\ SumOver(live, -MaxSkew, w) \in Int
    BY <1>7, <2>1, Zenon
  <2> HIDE DEF w, top
  <2>6. SumOver(admitted', 0, w) <= Limit
    <3>1. SumOver(admitted', 0, w) = SumOver(admitted, 0, w) + 1 /\ SumOver(admitted, 0, w) \in Int
      BY <1>8, <2>1
    <3> QED BY <1>0, <2>2, <2>3, <2>4, <2>5, <3>1
  <2> QED BY <2>6 DEF LimitInv, w
<1> QED BY <1>6, <1>10, <1>11, <1>12 DEF SlidInv

\* A refused request only takes out what is over.
LEMMA RefuseInv ==
  ASSUME SlidInv, NEW s \in Skews, zset' = Live(s), idle' = idle, admitted' = admitted
  PROVE  SlidInv'
<1>1. SlidTypes'
  BY LiveFacts DEF SlidInv, SlidTypes
<1>2. IdleInv' /\ LimitInv'
  BY DEF SlidInv, IdleInv, LimitInv
<1>3. KeptInv' /\ OnlyInv'
  BY LiveInv DEF KeptInv, OnlyInv
<1> QED BY <1>1, <1>2, <1>3, Zenon DEF SlidInv

\* The whole script of rate_limit_check.
LEMMA CheckInv == ASSUME SlidInv, NEW s \in Skews, Check(s) PROVE SlidInv'
<1>1. CASE Card(Live(s)) < Limit
  <2> DEFINE live == Live(s)
             dom == 0 .. Window + MaxSkew - 1
  <2>1. /\ zset' = [live EXCEPT ![-s] = @ + 1] /\ idle' = 0
        /\ admitted' = [admitted EXCEPT ![0] = @ + 1]
    BY <1>1 DEF Check
  <2>2. live \in [Ages -> Nat] /\ admitted \in [dom -> Nat]
    BY LiveFacts DEF SlidInv, SlidTypes
  <2>3. -s \in Ages /\ 0 \in dom /\ Ages \subseteq Int /\ dom \subseteq Int
    BY SkewFacts DEF Ages
  <2> HIDE DEF live, dom
  <2>4. zset' \in [Ages -> Nat] /\ Bumped(live, zset', -s)
    <3>1. AddsOne(Ages, live, zset', -s)
      BY <2>1, <2>2, <2>3 DEF AddsOne
    <3> QED BY ONLY <3>1, BumpFacts
  <2>5. admitted' \in [dom -> Nat] /\ Bumped(admitted, admitted', 0)
    <3>1. AddsOne(dom, admitted, admitted', 0)
      BY <2>1, <2>2, <2>3 DEF AddsOne
    <3> QED BY ONLY <3>1, BumpFacts
  <2>6. idle' = 0
    BY <2>1
  <2> QED BY <1>1, <2>4, <2>5, <2>6, AdmitInv, Zenon DEF live, dom
<1>2. CASE ~(Card(Live(s)) < Limit)
  <2>1. zset' = Live(s) /\ idle' = idle /\ admitted' = admitted
    BY <1>2 DEF Check
  <2> QED BY <2>1, RefuseInv
<1> QED BY <1>1, <1>2

\* The entries are a tick older.
LEMMA AgedInv ==
  ASSUME SlidInv, SlidTypes', IdleInv',
         \A a \in Int : a <= Window => OrZero(zset', a) = OrZero(zset, a - 1),
         \A a \in Int : a <= Window + MaxSkew - 1 => OrZero(admitted', a) = OrZero(admitted, a - 1)
  PROVE  SlidInv'
<1>0. /\ MaxSkew \in Nat /\ -MaxSkew \in Int /\ Window \in Nat /\ Limit \in Nat /\ MaxSkew < Window
  BY SkewFacts
<1> DEFINE dom == 0 .. Window + MaxSkew - 1
<1>1. /\ zset \in [Ages -> Nat] /\ zset' \in [Ages -> Nat]
      /\ admitted \in [dom -> Nat] /\ admitted' \in [dom -> Nat]
  BY DEF SlidInv, SlidTypes
<1>9. -MaxSkew - 1 \notin Ages /\ 0 - 1 \notin dom
  BY <1>0 DEF Ages
<1> HIDE DEF dom
<1>2. /\ Counted(zset) /\ Counted(zset') /\ Counted(admitted) /\ Counted(admitted')
      /\ OrZero(zset, -MaxSkew - 1) = 0 /\ OrZero(admitted, 0 - 1) = 0
  BY <1>1, <1>9, CountsFacts
<1>3. ASSUME NEW t \in Int, t >= -MaxSkew, t <= Window - 1
      PROVE  SumOver(zset', -MaxSkew, t) = SumOver(zset, -MaxSkew, t - 1)
  <2>1. OrZero(zset', -MaxSkew) = 0
    BY <1>0, <1>2
  <2>2. \A b \in -MaxSkew + 1 .. t : OrZero(zset', b) = OrZero(zset, b - 1)
    BY <1>0, <1>3
  <2> QED BY <1>0, <1>2, <1>3, <2>1, <2>2, SumShifted, ZenonT(40)
<1>4. ASSUME NEW t \in Int, t >= 0, t <= Window + MaxSkew - 1
      PROVE  SumOver(admitted', 0, t) = SumOver(admitted, 0, t - 1)
  <2>1. OrZero(admitted', 0) = 0
    BY <1>0, <1>2
  <2>2. \A b \in 0 + 1 .. t : OrZero(admitted', b) = OrZero(admitted, b - 1)
    BY <1>0, <1>4
  <2> QED BY <1>2, <1>4, <2>1, <2>2, SumShifted
<1>5. SumOver(zset, -MaxSkew, -MaxSkew - 1) = 0 /\ SumOver(admitted, 0, 0 - 1) = 0
  BY <1>0, <1>2, SumFacts
<1>6. KeptInv'
  <2> SUFFICES ASSUME NEW t \in 0 .. Window - 1 - MaxSkew
               PROVE  SumOver(admitted', 0, t) <= SumOver(zset', -MaxSkew, t)
    BY DEF KeptInv
  <2>1. /\ t \in Int /\ t >= 0 /\ t <= Window - 1 /\ t <= Window + MaxSkew - 1 /\ t >= -MaxSkew
        /\ t - 1 \in Int /\ t - 1 >= -MaxSkew - 1 /\ t - 1 <= Window - 1 - MaxSkew
    BY <1>0
  <2>2. /\ SumOver(admitted', 0, t) = SumOver(admitted, 0, t - 1)
        /\ SumOver(zset', -MaxSkew, t) = SumOver(zset, -MaxSkew, t - 1)
    BY <1>3, <1>4, <2>1, Zenon
  <2>3. CASE t = 0
    <3>1. SumOver(zset, -MaxSkew, t - 1) \in Nat
      BY <1>0, <1>1, <2>1, SumIsNat, Zenon
    <3> QED BY <1>5, <2>2, <2>3, <3>1
  <2>4. CASE t # 0
    <3>1. t - 1 \in 0 .. Window - 1 - MaxSkew
      BY <1>0, <2>1, <2>4
    <3> QED BY <2>2, <3>1 DEF SlidInv, KeptInv
  <2> QED BY <2>3, <2>4
<1>7. OnlyInv'
  <2> SUFFICES ASSUME NEW t \in -MaxSkew .. Window - 1
               PROVE  SumOver(zset', -MaxSkew, t) <= SumOver(admitted', 0, t + MaxSkew)
    BY DEF OnlyInv
  <2> DEFINE u == t + MaxSkew
  <2>1. /\ t \in Int /\ t >= -MaxSkew /\ t <= Window - 1 /\ u \in Int /\ u >= 0 /\ u >= 0 - 1
        /\ u <= Window + MaxSkew - 1 /\ u - 1 = (t - 1) + MaxSkew
    BY <1>0
  <2> HIDE DEF u
  <2>2. /\ SumOver(admitted', 0, u) = SumOver(admitted, 0, u - 1)
        /\ SumOver(zset', -MaxSkew, t) = SumOver(zset, -MaxSkew, t - 1)
    BY <1>3, <1>4, <2>1, Zenon
  <2>3. CASE t = -MaxSkew
    <3>1. SumOver(admitted', 0, u) \in Nat
      BY <1>1, <2>1, SumIsNat
    <3> QED BY <1>5, <2>2, <2>3, <3>1 DEF u
  <2>4. CASE t # -MaxSkew
    <3>1. t - 1 \in -MaxSkew .. Window - 1
      BY <1>0, <2>1, <2>4
    <3>2. SumOver(zset, -MaxSkew, t - 1) <= SumOver(admitted, 0, (t - 1) + MaxSkew)
      BY <3>1 DEF SlidInv, OnlyInv
    <3> QED BY <2>1, <2>2, <3>2 DEF u
  <2> QED BY <2>3, <2>4
<1>8. LimitInv'
  <2> DEFINE w == Window - 1 - MaxSkew
  <2>1. w \in Int /\ w >= 0 /\ w <= Window + MaxSkew - 1 /\ w - 1 \in Int /\ 0 - 1 <= w - 1 /\ w - 1 <= w
        /\ w - 1 >= 0 - 1
    BY <1>0
  <2>2. \A b \in Int : OrZero(admitted, b) >= 0
    BY <1>1, CountsFacts
  <2> HIDE DEF w
  <2>3. SumOver(admitted', 0, w) = SumOver(admitted, 0, w - 1)
    BY <1>4, <2>1
  <2>4. SumOver(admitted, 0, w - 1) <= SumOver(admitted, 0, w)
    BY <1>2, <2>1, <2>2, SumLonger
  <2>5. SumOver(admitted, 0, w) <= Limit
    BY DEF SlidInv, LimitInv, w
  <2>6. SumOver(admitted, 0, w) \in Nat /\ SumOver(admitted, 0, w - 1) \in Nat
    BY <1>1, <2>1, SumIsNat
  <2>7. SumOver(admitted', 0, w) <= Limit
    BY <1>0, <2>3, <2>4, <2>5, <2>6
  <2> QED BY <2>7 DEF LimitInv, w
<1> QED BY <1>6, <1>7, <1>8 DEF SlidInv

\* A tick: the entries age, or the key expires because nothing was written
\* for a window.
LEMMA TickInv == ASSUME SlidInv, SlidingTick PROVE SlidInv'
<1> DEFINE dom == 0 .. Window + MaxSkew - 1
<1>0. /\ MaxSkew \in Nat /\ -MaxSkew \in Int /\ Window \in Nat /\ Limit \in Nat /\ MaxSkew < Window
  BY SkewFacts
<1>1. zset \in [Ages -> Nat] /\ admitted \in [dom -> Nat] /\ idle \in Nat /\ idle <= Window
  BY DEF SlidInv, SlidTypes
<1>2. \A a : OrZero(zset, a) \in Nat /\ OrZero(admitted, a) \in Nat
  BY <1>1, CountsFacts, Zenon
<1>3. admitted' = [a \in dom |-> OrZero(admitted, a - 1)]
  BY <1>1 DEF SlidingTick, Shift
<1>4. zset' \in [Ages -> Nat] /\ admitted' \in [dom -> Nat]
  <2>1. zset' = [a \in Ages |-> 0] \/ zset' = [a \in Ages |-> OrZero(zset, a - 1)]
    BY DEF SlidingTick, Shift
  <2> QED BY <1>2, <1>3, <2>1
<1>5. idle' \in Nat /\ idle' <= Window
  BY <1>0, <1>1 DEF SlidingTick
<1>6. SlidTypes'
  BY <1>4, <1>5 DEF SlidTypes
<1>7. \A a \in Int : a <= Window + MaxSkew - 1 => OrZero(admitted', a) = OrZero(admitted, a - 1)
  <2> SUFFICES ASSUME NEW a \in Int, a <= Window + MaxSkew - 1
               PROVE  OrZero(admitted', a) = OrZero(admitted, a - 1)
    OBVIOUS
  <2>1. CASE a \in dom
    BY <1>3, <2>1 DEF OrZero
  <2>2. CASE a \notin dom
    <3>1. a - 1 \notin dom
      BY <1>0, <2>2
    <3> QED BY <1>1, <1>3, <2>2, <3>1 DEF OrZero
  <2> QED BY <2>1, <2>2
<1>8. \A u \in Int : u <= idle - 1 => OrZero(admitted, u) = 0
  <2> SUFFICES ASSUME NEW u \in Int, u <= idle - 1 PROVE OrZero(admitted, u) = 0
    OBVIOUS
  <2>1. CASE u >= 0
    <3>1. admitted[u] = 0
      BY <1>1, <2>1 DEF SlidInv, IdleInv
    <3> QED BY <3>1 DEF OrZero
  <2>2. CASE ~(u >= 0)
    BY <1>1, <2>2 DEF OrZero
  <2> QED BY <2>1, <2>2
<1>9. \A u \in Int : u <= idle' - 1 => OrZero(admitted', u) = 0
  <2> SUFFICES ASSUME NEW u \in Int, u <= idle' - 1 PROVE OrZero(admitted', u) = 0
    OBVIOUS
  <2>0. idle' = IF idle < Window THEN idle + 1 ELSE idle
    BY DEF SlidingTick
  <2>1. u - 1 \in Int /\ u - 1 <= idle - 1 /\ u <= Window + MaxSkew - 1
    BY <1>0, <1>1, <2>0
  <2> QED BY <1>7, <1>8, <2>1
<1>10. IdleInv'
  <2>1. PICK i : i = idle'
    OBVIOUS
  <2>2. i \in Nat /\ i <= Window
    BY <1>5, <2>1
  <2> SUFFICES ASSUME NEW u \in 0 .. i - 1 PROVE admitted'[u] = 0
    BY <2>1 DEF IdleInv
  <2>3. u \in dom /\ u \in Int /\ u <= i - 1
    BY <1>0, <2>2
  <2>4. OrZero(admitted', u) = 0
    BY <1>9, <2>1, <2>3
  <2> QED BY <1>4, <2>3, <2>4 DEF OrZero
<1>11. CASE idle + 1 >= Window
  <2>1. zset' = [a \in Ages |-> 0] /\ idle' = Window
    BY <1>0, <1>1, <1>11 DEF SlidingTick
  <2>2. Counted(zset') /\ Counted(admitted') /\ \A b : OrZero(zset', b) = 0
    BY <1>4, <2>1, CountsFacts, Zenon DEF OrZero
  <2>3. ASSUME NEW t \in Int, t >= -MaxSkew - 1 PROVE SumOver(zset', -MaxSkew, t) = 0
    BY <1>0, <2>2, <2>3, SumOfNothing
  <2>4. ASSUME NEW t \in Int, t >= 0, t <= Window - 1 PROVE SumOver(admitted', 0, t) = 0
    <3>1. \A b \in 0 .. t : OrZero(admitted', b) = 0
      BY <1>0, <1>9, <2>1, <2>4
    <3>2. t >= 0 - 1
      BY <2>4
    <3> QED BY <2>2, <3>1, <3>2, SumOfNothing
  <2>5. KeptInv'
    <3> SUFFICES ASSUME NEW t \in 0 .. Window - 1 - MaxSkew
                 PROVE  SumOver(admitted', 0, t) <= SumOver(zset', -MaxSkew, t)
      BY DEF KeptInv
    <3>1. t \in Int /\ t >= 0 /\ t <= Window - 1 /\ t >= -MaxSkew - 1
      BY <1>0
    <3>2. SumOver(admitted', 0, t) = 0 /\ SumOver(zset', -MaxSkew, t) = 0
      BY <2>3, <2>4, <3>1
    <3> QED BY <3>2
  <2>6. OnlyInv'
    <3> SUFFICES ASSUME NEW t \in -MaxSkew .. Window - 1
                 PROVE  SumOver(zset', -MaxSkew, t) <= SumOver(admitted', 0, t + MaxSkew)
      BY DEF OnlyInv
    <3> DEFINE u == t + MaxSkew
    <3>1. t \in Int /\ t >= -MaxSkew - 1 /\ u \in Int /\ u >= 0 - 1
      BY <1>0
    <3>2. SumOver(zset', -MaxSkew, t) = 0
      BY <2>3, <3>1
    <3> HIDE DEF u, dom
    <3>3. SumOver(admitted', 0, u) \in Nat
      BY <1>4, <3>1, SumIsNat
    <3> QED BY <3>2, <3>3 DEF u
  <2>7. LimitInv'
    <3>1. Window - 1 - MaxSkew \in Int /\ Window - 1 - MaxSkew >= 0 /\ Window - 1 - MaxSkew <= Window - 1
      BY <1>0
    <3>2. SumOver(admitted', 0, Window - 1 - MaxSkew) = 0
      BY <2>4, <3>1, Zenon
    <3> QED BY <1>0, <3>2 DEF LimitInv
  <2> QED BY <1>6, <1>10, <2>5, <2>6, <2>7, Zenon DEF SlidInv
<1>12. CASE ~(idle + 1 >= Window)
  <2>1. zset' = [a \in Ages |-> OrZero(zset, a - 1)]
    BY <1>12 DEF SlidingTick, Shift
  <2>2. \A a \in Int : a <= Window => OrZero(zset', a) = OrZero(zset, a - 1)
    <3> SUFFICES ASSUME NEW a \in Int, a <= Window PROVE OrZero(zset', a) = OrZero(zset, a - 1)
      OBVIOUS
    <3>1. CASE a \in Ages
      BY <2>1, <3>1 DEF OrZero
    <3>2. CASE a \notin Ages
      <4>1. a - 1 \notin Ages
        BY <1>0, <3>2 DEF Ages
      <4> QED BY <1>1, <2>1, <3>2, <4>1 DEF OrZero
    <3> QED BY <3>1, <3>2
  <2> QED BY <1>6, <1>7, <1>10, <2>2, AgedInv, Zenon
<1> QED BY <1>11, <1>12

\* What the invariant says of the script.
LEMMA SlidHolds == SlidInv => SlidingWindow
<1> SUFFICES ASSUME SlidInv PROVE SlidingWindow
  OBVIOUS
<1>0. /\ MaxSkew \in Nat /\ -MaxSkew \in Int /\ Window \in Nat /\ MaxSkew < Window /\ 0 \in Skews
  BY SkewFacts, WindowConfig
<1>1. Live(0) \in [Ages -> Nat] /\ \A b \in Int : b >= Window - 0 => OrZero(Live(0), b) = 0
  BY <1>0, LiveFacts DEF SlidInv
<1> DEFINE live == Live(0)
           top == Window + MaxSkew
           w == Window - 1
<1>2. /\ top \in Int /\ w \in Int /\ -MaxSkew - 1 <= w /\ w <= top
      /\ w \in -MaxSkew .. Window - 1 /\ w + MaxSkew = Window + MaxSkew - 1
  BY <1>0
<1>3. \A b \in w + 1 .. top : OrZero(live, b) = 0
  BY <1>0, <1>1
<1>4. SumOver(live, -MaxSkew, w) <= SumOver(admitted, 0, w + MaxSkew)
  BY <1>0, <1>2, LiveInv
<1>5. Counted(live)
  BY <1>1, CountsFacts, Zenon
<1> HIDE DEF live, top, w
<1>6. SumOver(live, -MaxSkew, top) = SumOver(live, -MaxSkew, w)
  BY <1>0, <1>2, <1>3, <1>5, SumStops, ZenonT(40)
<1>7. Card(live) <= SumOver(admitted, 0, Window + MaxSkew - 1)
  BY <1>2, <1>4, <1>6 DEF Card, top
<1>8. SumOver(admitted, 0, Window - 1 - MaxSkew) <= Limit
  BY Zenon DEF SlidInv, LimitInv
<1> QED BY <1>7, <1>8 DEF SlidingWindow, live

-----------------------------------------------------------------------------
(* The local store.  After the window its count is no longer the number of *)
(* requests let in, but then it refuses nothing.                           *)

\* The four cases of the local check.
LEMMA LocalCheckCases ==
  ASSUME NEW w \in [count : Nat, age : Int]
  PROVE  /\ w = NoneInWindow =>
              LocalCheck(w) = [allowed |-> 0 < Limit,
                               entry |-> IF 0 < Limit THEN [count |-> 1, age |-> 0] ELSE [count |-> 0, age |-> 0]]
         /\ w # NoneInWindow /\ w.age >= Window =>
              LocalCheck(w) = [allowed |-> TRUE, entry |-> [count |-> 1, age |-> w.age]]
         /\ w # NoneInWindow /\ w.age < Window /\ w.count < Limit =>
              LocalCheck(w) = [allowed |-> TRUE, entry |-> [count |-> w.count + 1, age |-> w.age]]
         /\ w # NoneInWindow /\ w.age < Window /\ ~(w.count < Limit) =>
              LocalCheck(w) = [allowed |-> FALSE, entry |-> w]
<1>0. Window \in Nat /\ Window > 0 /\ Limit \in Nat
  BY WindowConfig
<1>1. CASE w = NoneInWindow
  <2>1. LocalCheck(w) = [allowed |-> 0 < Limit,
                         entry |-> IF 0 < Limit THEN [count |-> 1, age |-> 0] ELSE [count |-> 0, age |-> 0]]
    BY <1>0, <1>1 DEF LocalCheck
  <2> QED BY <1>1, <2>1, Zenon
<1>2. CASE w # NoneInWindow /\ w.age >= Window
  <2>1. LocalCheck(w) = [allowed |-> TRUE, entry |-> [w EXCEPT !.count = 1]]
    BY <1>2 DEF LocalCheck
  <2>2. [w EXCEPT !.count = 1] = [count |-> 1, age |-> w.age]
    OBVIOUS
  <2>3. ~(w.age < Window)
    BY <1>0, <1>2
  <2> QED BY <1>2, <2>1, <2>2, <2>3, Zenon
<1>3. CASE w # NoneInWindow /\ w.age < Window
  <2>1. LocalCheck(w) = [allowed |-> w.count < Limit,
                         entry |-> IF w.count < Limit THEN [w EXCEPT !.count = @ + 1] ELSE w]
    BY <1>0, <1>3 DEF LocalCheck
  <2>2. [w EXCEPT !.count = @ + 1] = [count |-> w.count + 1, age |-> w.age]
    OBVIOUS
  <2>3. ~(w.age >= Window)
    BY <1>0, <1>3
  <2>4. CASE w.count < Limit
    <3>1. LocalCheck(w) = [allowed |-> TRUE, entry |-> [count |-> w.count + 1, age |-> w.age]]
      BY <2>1, <2>2, <2>4, Zenon
    <3> QED BY <1>3, <2>3, <2>4, <3>1, Zenon
  <2>5. CASE ~(w.count < Limit)
    <3>1. LocalCheck(w) = [allowed |-> FALSE, entry |-> w]
      <4>1. (w.count < Limit) = FALSE
        BY <1>0, <2>5
      <4>2. (IF w.count < Limit THEN [w EXCEPT !.count = @ + 1] ELSE w) = w
        BY <2>5
      <4> QED BY <2>1, <4>1, <4>2, Zenon
    <3> QED BY <1>3, <2>3, <2>5, <3>1, Zenon
  <2> QED BY <2>4, <2>5
<1> QED BY <1>0, <1>1, <1>2, <1>3

LocalTypes ==
  /\ passed \in [0 .. Window -> Nat] /\ window \in [count : Nat, age : Int]
  /\ window.age >= 0 \/ window = NoneInWindow

\* Within the window nothing was counted that was not let in since window_start.
CountInv == window.age \in 0 .. Window - 1 => window.count <= SumOver(passed, 0, window.age)

LocalInv == LocalTypes /\ CountInv

\* No entry yet.
LEMMA LocalInitInv == WinInit => LocalInv
BY SkewFacts DEF WinInit, LocalInv, LocalTypes, CountInv, NoneInWindow

\* A refusal means that Limit requests were let in since window_start.
LEMMA LocalHolds == LocalInv => LocalRefusesFull
<1> SUFFICES ASSUME LocalInv, ~LocalCheck(window).allowed PROVE SumOver(passed, 0, Window - 1) >= Limit
  BY DEF LocalRefusesFull
<1> DEFINE w == Window - 1
           dom == 0 .. Window
<1>0. Window \in Nat /\ Window > 0 /\ Limit \in Nat /\ w \in Int /\ w >= 0 - 1
  BY WindowConfig
<1>1. /\ passed \in [dom -> Nat] /\ window.age \in Int /\ window.count \in Nat
      /\ window.age >= 0 \/ window = NoneInWindow
  BY DEF LocalInv, LocalTypes
<1>2. SumOver(passed, 0, w) \in Nat
  <2> HIDE DEF w, dom
  <2> QED BY <1>0, <1>1, SumIsNat
<1>3. CASE window = NoneInWindow
  <2>1. ~(0 < Limit)
    BY <1>0, <1>3, Zenon DEF LocalCheck
  <2> QED BY <1>0, <1>2, <2>1
<1>4. CASE window # NoneInWindow
  <2> DEFINE a == window.age
  <2>1. a < Window /\ ~(window.count < Limit)
    <3>1. window \in [count : Nat, age : Int]
      BY DEF LocalInv, LocalTypes
    <3> QED BY <1>0, <1>1, <1>4, <3>1, LocalCheckCases
  <2>2. a \in Int /\ a >= 0 /\ a >= 0 - 1 /\ 0 - 1 <= a /\ a <= w /\ a \in 0 .. Window - 1
    BY <1>0, <1>1, <1>4, <2>1
  <2>3. window.count <= SumOver(passed, 0, a)
    BY <2>2 DEF LocalInv, CountInv
  <2> HIDE DEF a, w, dom
  <2>4. Counted(passed) /\ \A b \in Int : OrZero(passed, b) >= 0
    BY <1>1, NatCounts
  <2>5. SumOver(passed, 0, a) <= SumOver(passed, 0, w)
    BY <1>0, <2>2, <2>4, SumLonger
  <2>6. SumOver(passed, 0, a) \in Nat
    BY <1>1, <2>2, SumIsNat
  <2>7. window.count >= Limit
    BY <1>0, <1>1, <2>1
  <2> QED BY <1>0, <1>1, <1>2, <2>3, <2>5, <2>6, <2>7 DEF w
<1> QED BY <1>3, <1>4

\* What a request let in adds to the history, capped or not.
LEMMA PassedFacts ==
  ASSUME LocalInv, LocalRequest, NEW a \in 0 .. Window - 1
  PROVE  /\ passed' \in [0 .. Window -> Nat] /\ SumOver(passed, 0, a) <= SumOver(passed', 0, a)
         /\ SumOver(passed, 0, a) \in Nat /\ SumOver(passed', 0, a) \in Nat
         /\ LocalCheck(window).allowed =>
              \/ SumOver(passed', 0, a) = SumOver(passed, 0, a) + 1
              \/ SumOver(passed', 0, a) > Limit
<1> DEFINE dom == 0 .. Window
<1>0. Window \in Nat /\ Limit \in Nat /\ 0 \in dom /\ dom \subseteq Int
  BY WindowConfig
<1>1. passed \in [dom -> Nat]
  BY DEF LocalInv, LocalTypes
<1>2. a \in Int /\ a >= 0 /\ a >= 0 - 1 /\ 0 - 1 <= a /\ 0 <= 0 /\ 0 <= a
  BY <1>0
<1> HIDE DEF dom
<1>3. Counted(passed) /\ \A b \in Int : OrZero(passed, b) >= 0
  BY <1>1, NatCounts
<1>4. SumOver(passed, 0, a) \in Nat
  BY <1>1, <1>2, SumIsNat
<1>5. CASE LocalCheck(window).allowed /\ passed[0] <= Limit
  <2>1. AddsOne(dom, passed, passed', 0)
    <3>1. passed' = [passed EXCEPT ![0] = @ + 1]
      BY <1>5 DEF LocalRequest
    <3> QED BY <1>0, <1>1, <3>1 DEF AddsOne
  <2>2. passed' \in [dom -> Nat] /\ Bumped(passed, passed', 0)
    BY ONLY <2>1, BumpFacts
  <2>3. Counted(passed')
    BY <2>2, CountsFacts
  <2>4. SumOver(passed', 0, a) = SumOver(passed, 0, a) + 1
    BY <1>2, <1>3, <2>2, <2>3, SumBumped
  <2> QED BY <1>4, <2>2, <2>4 DEF dom
<1>6. CASE ~(LocalCheck(window).allowed /\ passed[0] <= Limit)
  <2>1. passed' = passed
    BY <1>6 DEF LocalRequest
  <2>2. LocalCheck(window).allowed => SumOver(passed, 0, a) > Limit
    <3> SUFFICES ASSUME LocalCheck(window).allowed PROVE SumOver(passed, 0, a) > Limit
      OBVIOUS
    <3>1. passed[0] > Limit /\ passed[0] \in Nat /\ OrZero(passed, 0) = passed[0]
      <4>1. passed[0] \in Nat
        BY <1>0, <1>1
      <4>2. OrZero(passed, 0) = passed[0]
        BY <1>0, <1>1 DEF OrZero
      <4> QED BY <1>0, <1>6, <4>1, <4>2
    <3>2. SumOver(passed, 0, 0) = passed[0]
      <4>1. SumOver(passed, 0, 0 - 1) = 0 /\ SumOver(passed, 0, (0 - 1) + 1) = 0 + OrZero(passed, (0 - 1) + 1)
        <5>1. 0 - 1 \in Int /\ 0 - 1 >= 0 - 1
          OBVIOUS
        <5> QED BY <1>3, <5>1, SumFacts
      <4>2. (0 - 1) + 1 = 0
        OBVIOUS
      <4> QED BY <3>1, <4>1, <4>2
    <3>3. SumOver(passed, 0, 0) <= SumOver(passed, 0, a)
      <4>1. 0 - 1 <= 0
        OBVIOUS
      <4> QED BY <1>2, <1>3, <4>1, SumLonger
    <3> QED BY <1>0, <1>4, <3>1, <3>2, <3>3
  <2> QED BY <1>1, <1>4, <2>1, <2>2 DEF dom
<1> QED BY <1>5, <1>6

\* The whole of the local rate_limit_check.
LEMMA RequestInv == ASSUME LocalInv, LocalRequest PROVE LocalInv'
<1> DEFINE dom == 0 .. Window
<1>0. Window \in Nat /\ Window > 0 /\ Limit \in Nat /\ 0 \in 0 .. Window - 1
  BY WindowConfig
<1>1. /\ window \in [count : Nat, age : Int] /\ (window.age >= 0 \/ window = NoneInWindow)
      /\ window' = LocalCheck(window).entry
  BY Zenon DEF LocalInv, LocalTypes, LocalRequest
<1>2. passed' \in [dom -> Nat]
  BY <1>0, PassedFacts
<1>3. CASE window = NoneInWindow
  <2>0. LocalCheck(window) = [allowed |-> 0 < Limit,
                              entry |-> IF 0 < Limit THEN [count |-> 1, age |-> 0] ELSE [count |-> 0, age |-> 0]]
    BY <1>1, <1>3, LocalCheckCases, Zenon
  <2>1. LocalCheck(window).allowed = (0 < Limit)
    BY <2>0
  <2>2. window' = IF 0 < Limit THEN [count |-> 1, age |-> 0] ELSE [count |-> 0, age |-> 0]
    BY <1>1, <2>0
  <2>3. window' \in [count : Nat, age : Int] /\ window'.age = 0
    BY <2>2
  <2>4. window'.count <= SumOver(passed', 0, 0)
    <3>1. SumOver(passed, 0, 0) \in Nat /\ SumOver(passed', 0, 0) \in Nat
      BY <1>0, PassedFacts
    <3>2. CASE 0 < Limit
      <4>1. LocalCheck(window).allowed
        BY <2>1, <3>2, Zenon
      <4>2. SumOver(passed', 0, 0) = SumOver(passed, 0, 0) + 1 \/ SumOver(passed', 0, 0) > Limit
        BY <1>0, <4>1, PassedFacts
      <4>3. SumOver(passed', 0, 0) >= 1
        BY <1>0, <3>1, <4>2
      <4>4. window'.count = 1
        BY <2>2, <3>2
      <4> QED BY <3>1, <4>3, <4>4
    <3>3. CASE ~(0 < Limit)
      BY <2>2, <3>1, <3>3
    <3> QED BY <3>2, <3>3
  <2> QED BY <1>2, <2>3, <2>4 DEF LocalInv, LocalTypes, CountInv
<1>4. CASE window # NoneInWindow /\ window.age >= Window
  <2>1. window' = [count |-> 1, age |-> window.age]
    BY <1>1, <1>4, LocalCheckCases
  <2>2. window' \in [count : Nat, age : Int] /\ window'.age >= Window
    BY <1>1, <1>4, <2>1
  <2>3. window'.age >= 0 /\ window'.age \notin 0 .. Window - 1
    BY <1>0, <2>2
  <2> QED BY <1>2, <2>2, <2>3 DEF LocalInv, LocalTypes, CountInv
<1>5. CASE window # NoneInWindow /\ ~(window.age >= Window)
  <2> DEFINE a == window.age
  <2>1. a \in Int /\ a >= 0 /\ a < Window /\ a \in 0 .. Window - 1 /\ window.count \in Nat
    BY <1>0, <1>1, <1>5
  <2>2. /\ SumOver(passed, 0, a) \in Nat /\ SumOver(passed', 0, a) \in Nat
        /\ SumOver(passed, 0, a) <= SumOver(passed', 0, a)
    BY <2>1, PassedFacts
  <2>3. window.count <= SumOver(passed, 0, a)
    BY <2>1 DEF LocalInv, CountInv
  <2>4. CASE window.count < Limit
    <3>1. LocalCheck(window) = [allowed |-> TRUE, entry |-> [count |-> window.count + 1, age |-> a]]
      BY <1>1, <1>5, <2>1, <2>4, LocalCheckCases, Zenon
    <3>2. LocalCheck(window).allowed /\ window' = [count |-> window.count + 1, age |-> a]
      BY <1>1, <3>1
    <3>3. SumOver(passed', 0, a) = SumOver(passed, 0, a) + 1 \/ SumOver(passed', 0, a) > Limit
      BY <2>1, <3>2, PassedFacts
    <3> HIDE DEF a
    <3>4. window.count + 1 <= SumOver(passed', 0, a)
      BY <1>0, <2>1, <2>2, <2>3, <2>4, <3>3
    <3>5. window' \in [count : Nat, age : Int] /\ window'.age = a /\ window'.count = window.count + 1
      BY <2>1, <3>2
    <3>6. window'.count <= SumOver(passed', 0, window'.age)
      BY <3>4, <3>5
    <3> QED BY <1>2, <2>1, <3>5, <3>6, Zenon DEF LocalInv, LocalTypes, CountInv
  <2>5. CASE ~(window.count < Limit)
    <3>1. window' = window
      BY <1>1, <1>5, <2>1, <2>5, LocalCheckCases
    <3>2. window.count <= SumOver(passed', 0, a)
      BY <2>1, <2>2, <2>3
    <3>3. window'.count <= SumOver(passed', 0, window'.age)
      BY <3>1, <3>2
    <3>4. window' \in [count : Nat, age : Int] /\ window'.age >= 0
      BY <1>1, <2>1, <3>1
    <3> QED BY <1>2, <3>3, <3>4, Zenon DEF LocalInv, LocalTypes, CountInv
  <2> QED BY <2>4, <2>5
<1> QED BY <1>3, <1>4, <1>5

\* LocalStore::cleanup only drops entries.
LEMMA SweepInv == ASSUME LocalInv, WinCleanup PROVE LocalInv'
<1>1. CASE window' = window
  BY <1>1, Zenon DEF LocalInv, LocalTypes, CountInv, WinCleanup
<1>2. CASE window' = NoneInWindow
  BY <1>2, SkewFacts DEF LocalInv, LocalTypes, CountInv, WinCleanup, NoneInWindow
<1> QED BY <1>1, <1>2 DEF WinCleanup

\* The window ages with what was let in.
LEMMA LocalTickInv == ASSUME LocalInv, LocalTick PROVE LocalInv'
<1> DEFINE dom == 0 .. Window
<1>0. Window \in Nat /\ Window > 0 /\ Keep \in Nat /\ Window <= Keep /\ 0 - 1 \notin dom
  BY WindowConfig
<1>1. /\ passed \in [dom -> Nat] /\ window \in [count : Nat, age : Int]
      /\ window.age >= 0 \/ window = NoneInWindow
  BY DEF LocalInv, LocalTypes
<1>2. passed' = [a \in dom |-> OrZero(passed, a - 1)]
  BY DEF LocalTick, Shift
<1> HIDE DEF dom
<1>3. (\A a : OrZero(passed, a) \in Nat) /\ OrZero(passed, 0 - 1) = 0
  BY <1>0, <1>1, CountsFacts
<1>4. passed' \in [dom -> Nat]
  BY <1>2, <1>3
<1>5. Counted(passed) /\ Counted(passed')
  BY <1>1, <1>4, NatCounts
<1>6. CASE window.age \in 0 .. Window - 1
  <2> DEFINE a == window.age
             b == a + 1
  <2>1. a \in Int /\ b \in Int /\ 0 <= a /\ 0 <= b /\ b >= 0 /\ a \in 0 .. Keep - 1 /\ b <= Window /\ b - 1 = a
    BY <1>0, <1>6
  <2>2. window' = [window EXCEPT !.age = @ + 1]
    BY <2>1 DEF LocalTick
  <2>3. window' \in [count : Nat, age : Int] /\ window'.age = b /\ window'.count = window.count
    BY <1>1, <2>1, <2>2
  <2>4. window.count <= SumOver(passed, 0, a)
    BY <1>6 DEF LocalInv, CountInv
  <2> HIDE DEF a, b
  <2>5. \A c \in 0 + 1 .. b : OrZero(passed', c) = OrZero(passed, c - 1)
    <3> SUFFICES ASSUME NEW c \in 0 + 1 .. b PROVE OrZero(passed', c) = OrZero(passed, c - 1)
      OBVIOUS
    <3>1. c \in dom
      BY <1>0, <2>1 DEF dom
    <3> QED BY <1>2, <3>1 DEF OrZero
  <2>6. OrZero(passed', 0) = 0
    <3>1. 0 \in dom
      BY <1>0 DEF dom
    <3> QED BY <1>2, <1>3, <3>1 DEF OrZero
  <2>7. SumOver(passed', 0, b) = SumOver(passed, 0, b - 1)
    BY <1>5, <2>1, <2>5, <2>6, SumShifted
  <2>8. window'.count <= SumOver(passed', 0, window'.age)
    BY <2>1, <2>3, <2>4, <2>7
  <2> QED BY <1>4, <2>1, <2>3, <2>8 DEF LocalInv, LocalTypes, CountInv, dom
<1>7. CASE window.age \notin 0 .. Window - 1
  <2>1. window' = window \/ (window' = [window EXCEPT !.age = @ + 1] /\ window.age >= 0)
    <3>1. CASE window.age \in 0 .. Keep - 1
      BY <1>0, <3>1 DEF LocalTick
    <3>2. CASE window.age \notin 0 .. Keep - 1
      BY <3>2 DEF LocalTick
    <3> QED BY <3>1, <3>2
  <2>2. window.age \in Int /\ (window.age >= Window \/ window.age < 0)
    BY <1>0, <1>1, <1>7
  <2>3. /\ window' \in [count : Nat, age : Int] /\ (window'.age >= 0 \/ window' = NoneInWindow)
        /\ window'.age \notin 0 .. Window - 1
    <3>1. CASE window' = window
      BY <1>1, <1>7, <3>1
    <3>2. CASE window' = [window EXCEPT !.age = @ + 1] /\ window.age >= 0
      BY <1>0, <1>1, <2>2, <3>2
    <3> QED BY <2>1, <3>1, <3>2, Zenon
  <2>4. LocalTypes'
    BY <1>4, <2>3 DEF LocalTypes, dom
  <2>5. CountInv'
    BY <2>3 DEF CountInv
  <2> QED BY <2>4, <2>5 DEF LocalInv
<1> QED BY <1>6, <1>7

\* The two stores share nothing.
WinInv == SlidInv /\ LocalInv

\* rate_limit_check of either store keeps to the limit it counts against, for
\* any limit, window, sweep age and skew of the callers' clocks: the script lets
\* in no more than Limit requests within Window - MaxSkew ticks, it refuses only
\* when Limit were let in within Window + MaxSkew ticks, and the local store only
\* when Limit were let in within Window ticks.
THEOREM WindowsAlwaysHold == WinSpec => []WindowsHold
<1>1. WinInit => WinInv
  BY SlidInitInv, LocalInitInv DEF WinInv
<1>2. WinInv /\ [WinNext]_winVars => WinInv'
  <2> SUFFICES ASSUME WinInv, [WinNext]_winVars PROVE WinInv'
    OBVIOUS
  <2>1. UNCHANGED redisVars => SlidInv'
    BY DEF WinInv, redisVars, SlidInv, SlidTypes, IdleInv, KeptInv, OnlyInv, LimitInv
  <2>2. UNCHANGED localVars => LocalInv'
    BY DEF WinInv, localVars, LocalInv, LocalTypes, CountInv
  <2>3. SlidingNext => SlidInv'
    BY CheckInv, TickInv DEF SlidingNext, WinInv
  <2>4. LocalNext => LocalInv'
    BY RequestInv, SweepInv, LocalTickInv DEF LocalNext, WinInv
  <2> QED BY <2>1, <2>2, <2>3, <2>4, Zenon DEF WinNext, winVars, WinInv
<1>3. WinInv => WindowsHold
  BY SlidHolds, LocalHolds DEF WinInv, WindowsHold
<1> QED BY <1>1, <1>2, <1>3, PTL DEF WinSpec
=============================================================================
