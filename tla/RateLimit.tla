----------------------------- MODULE RateLimit ------------------------------
(***************************************************************************)
(* The token bucket of middleware/builtin/rate_limit.rs for one key.  The  *)
(* map's entry stays locked while try_acquire runs, so its compare-and-    *)
(* exchange meets no other caller of the key and a request is one step.    *)
(* Tokens are kept in thousandths, as in the code; a tick is TickMs        *)
(* milliseconds; clocks are kept as differences.                           *)
(***************************************************************************)
EXTENDS Naturals

CONSTANTS
  Average,    \* RateLimitConfig.average
  Burst,      \* RateLimitConfig.burst
  TickMs,     \* milliseconds per tick
  SweepAge,   \* the age cleanup is called with, in ticks
  MaxTicks    \* bound on the life of a bucket, in ticks

ASSUME RateConfig ==
  /\ Average \in Nat /\ Burst \in Nat /\ TickMs \in Nat \ {0}
  /\ SweepAge \in Nat /\ MaxTicks \in Nat

VARIABLES
  tokens,    \* TokenBucket.tokens
  age,       \* now - last_update, in ticks
  born,      \* history: ticks since the bucket was made
  spent      \* history: requests it let in

rateVars == <<tokens, age, born, spent>>

Larger(a, b) == IF a > b THEN a ELSE b

Smaller(a, b) == IF a < b THEN a ELSE b

\* The size try_acquire is given: burst.max(1).
Size == 1000 * Larger(Burst, 1)

\* TokenBucket::new(burst.max(average)).
RateInit ==
  /\ tokens = 1000 * Larger(Burst, Average)
  /\ age = 0 /\ born = 0 /\ spent = 0

-----------------------------------------------------------------------------
\* Mutated forms of the operations below.

FilledUncapped == tokens + (age * TickMs * Average) \div 1000

-----------------------------------------------------------------------------
\* What elapsed milliseconds add to the bucket.
Credit(ticks) == (ticks * TickMs * Average) \div 1000

\* new_tokens: what is there and what elapsed milliseconds add, up to size.
Filled == Smaller(tokens + Credit(age), Size)

\* is_allowed_by_key, try_acquire: a refused request leaves the bucket as
\* it is, its last_update included.
Request ==
  /\ IF Filled < 1000 THEN UNCHANGED <<tokens, age, spent>>
     ELSE /\ tokens' = Filled - 1000
          /\ age' = 0
          /\ spent' = spent + 1
  /\ UNCHANGED born

\* cleanup drops a bucket whose last_update is old; the next request makes
\* a new one.
Sweep ==
  /\ age >= SweepAge
  /\ tokens' = 1000 * Larger(Burst, Average)
  /\ age' = 0 /\ born' = 0 /\ spent' = 0

RateTick ==
  /\ born < MaxTicks
  /\ age' = age + 1 /\ born' = born + 1
  /\ UNCHANGED <<tokens, spent>>

RateNext == Request \/ Sweep \/ RateTick

RateSpec == RateInit /\ [][RateNext]_rateVars

-----------------------------------------------------------------------------
\* Tokens and clocks are natural numbers: taking a token never wraps.
RateTypeOK ==
  /\ tokens \in Nat /\ age \in Nat /\ born \in Nat /\ spent \in Nat
  /\ age =< born

(***************************************************************************)
(* A bucket lets in its burst and what its life has added, never more, in  *)
(* whatever pattern the requests come: no time is credited twice, although *)
(* last_update moves only when a request is let in.                        *)
(***************************************************************************)
LetsInNoMore == 1000 * spent =< Size + Credit(born)
=============================================================================
