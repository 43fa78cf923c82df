---------------------------- MODULE StoreWindows ----------------------------
(***************************************************************************)
(* The counters with a window of store/local.rs and store/valkey.rs:       *)
(* rate_limit_check and circuit_breaker_fail, _success and _failures.  The *)
(* rate limit of the Valkey store is one Lua script, run with the caller's *)
(* clock; its breaker is INCR and then EXPIRE.  Entries carry their age in *)
(* ticks instead of a time stamp.                                          *)
(***************************************************************************)
EXTENDS Integers, FiniteSets, Sums

CONSTANTS
  Limit,      \* requests per window
  Window,     \* window_secs, in ticks
  Keep,       \* the age at which LocalStore::cleanup drops an entry, in ticks
  Skews,      \* how far the callers' clocks are ahead, in ticks
  FailCalls,  \* concurrent circuit_breaker_fail calls
  MaxCount    \* bound on the breaker counters

ASSUME WindowConfig ==
  /\ Limit \in Nat /\ Window \in Nat \ {0} /\ Keep \in Nat /\ Window =< Keep
  /\ IsFiniteSet(Skews) /\ Skews \subseteq Nat
  /\ 0 \in Skews /\ \A s \in Skews : s < Window

VARIABLES
  zset,      \* Redis: how many entries of each age the key holds
  idle,      \* ticks since the key was last written (PEXPIRE)
  admitted,  \* history: how many requests the Valkey store let in at each age
  passed,    \* history: the same for the local store, up to Limit + 1
  window,    \* LocalStore: count and age of window_start, or none
  breaker,   \* Redis: failures, ticks since EXPIRE, and whether one is set
  failing,   \* calls between their INCR and their EXPIRE
  lost       \* history: an EXPIRE failed since the counter was last deleted

redisVars == <<zset, idle, admitted>>

localVars == <<window, passed>>

breakerVars == <<breaker, failing, lost>>

winVars == <<redisVars, localVars, breakerVars>>

MaxSkew == CHOOSE s \in Skews : \A t \in Skews : t =< s

\* Ages of a score: negative for a clock ahead of the reader's.
Ages == -MaxSkew .. Window + MaxSkew

\* ZCARD: the entries of any age.
Card(z) == SumOver(z, -MaxSkew, Window + MaxSkew)

NoneInWindow == [count |-> 0, age |-> -1]

NoFailures == [count |-> 0, age |-> 0, expires |-> FALSE]

WinInit ==
  /\ zset = [a \in Ages |-> 0] /\ idle = 0
  /\ admitted = [a \in 0 .. Window + MaxSkew - 1 |-> 0]
  /\ window = NoneInWindow /\ passed = [a \in 0 .. Window |-> 0]
  /\ breaker = NoFailures /\ failing = {} /\ lost = FALSE

-----------------------------------------------------------------------------
\* Mutated forms of the operations below.

LiveInSeconds(skew) == [a \in Ages |-> IF a + skew >= Window - 1 THEN 0 ELSE zset[a]]

FailExtends(c) ==
  /\ c \notin failing
  /\ breaker' = [breaker EXCEPT !.count = IF @ < MaxCount THEN @ + 1 ELSE @]
  /\ failing' = failing \cup {c}
  /\ UNCHANGED lost

-----------------------------------------------------------------------------
\* ZREMRANGEBYSCORE key 0 (now - window): the entries a caller with this
\* clock leaves.
Live(skew) == [a \in Ages |-> IF a + skew >= Window THEN 0 ELSE zset[a]]

\* rate_limit_check of the Valkey store: the whole script.
Check(skew) ==
  LET live == Live(skew)
      room == Card(live) < Limit
  IN /\ zset' = IF room THEN [live EXCEPT ![-skew] = @ + 1] ELSE live
     /\ idle' = IF room THEN 0 ELSE idle
     /\ admitted' = IF room THEN [admitted EXCEPT ![0] = @ + 1] ELSE admitted

\* rate_limit_check of the local store: the decision and the entry left.
\* The map's entry is locked, so the check is one step.  After the window
\* the count restarts at 1 but window_start stays.
LocalCheck(w) ==
  LET fresh == IF w = NoneInWindow THEN [count |-> 0, age |-> 0] ELSE w
  IN IF fresh.age >= Window
     THEN [allowed |-> TRUE, entry |-> [fresh EXCEPT !.count = 1]]
     ELSE [allowed |-> fresh.count < Limit,
           entry |-> IF fresh.count < Limit THEN [fresh EXCEPT !.count = @ + 1]
                     ELSE fresh]

LocalRequest ==
  /\ window' = LocalCheck(window).entry
  /\ passed' = IF LocalCheck(window).allowed /\ passed[0] =< Limit
               THEN [passed EXCEPT ![0] = @ + 1] ELSE passed

\* circuit_breaker_fail: INCR; a count of 1 is followed by EXPIRE ...
Fail(c) ==
  /\ c \notin failing
  /\ breaker' = [breaker EXCEPT !.count = IF @ < MaxCount THEN @ + 1 ELSE @]
  /\ failing' = IF breaker.count = 0 THEN failing \cup {c} ELSE failing
  /\ UNCHANGED lost

\* ... which may fail, and does nothing to a key that is gone.
Expire(c, done) ==
  /\ c \in failing
  /\ failing' = failing \ {c}
  /\ breaker' = IF done /\ breaker.count > 0
                THEN [breaker EXCEPT !.age = 0, !.expires = TRUE] ELSE breaker
  /\ lost' = (lost \/ ~done)

\* circuit_breaker_success: DEL.
Success ==
  /\ breaker' = NoFailures /\ lost' = FALSE
  /\ UNCHANGED failing

\* LocalStore::cleanup.
WinCleanup ==
  /\ window' = IF window.age < Keep THEN window ELSE NoneInWindow
  /\ UNCHANGED passed

Shift(f, a) == OrZero(f, a - 1)

SlidingTick ==
  /\ idle' = IF idle < Window THEN idle + 1 ELSE idle
  /\ zset' = IF idle + 1 >= Window THEN [a \in Ages |-> 0]
             ELSE [a \in Ages |-> Shift(zset, a)]
  /\ admitted' = [a \in DOMAIN admitted |-> Shift(admitted, a)]

LocalTick ==
  /\ passed' = [a \in 0 .. Window |-> Shift(passed, a)]
  /\ window' = IF window.age \in 0 .. Keep - 1 THEN [window EXCEPT !.age = @ + 1]
               ELSE window

BreakerTick ==
  /\ breaker' = IF ~breaker.expires THEN breaker
                ELSE IF breaker.age + 1 >= Window THEN NoFailures
                ELSE [breaker EXCEPT !.age = @ + 1]
  /\ UNCHANGED <<failing, lost>>

\* The three counters share nothing.
SlidingNext == (\E s \in Skews : Check(s)) \/ SlidingTick

LocalNext == LocalRequest \/ WinCleanup \/ LocalTick

BreakerNext ==
  \/ \E c \in FailCalls : Fail(c) \/ \E done \in BOOLEAN : Expire(c, done)
  \/ Success \/ BreakerTick

WinNext ==
  \/ SlidingNext /\ UNCHANGED <<localVars, breakerVars>>
  \/ LocalNext /\ UNCHANGED <<redisVars, breakerVars>>
  \/ BreakerNext /\ UNCHANGED <<redisVars, localVars>>

WinSpec == WinInit /\ [][WinNext]_winVars

-----------------------------------------------------------------------------

(***************************************************************************)
(* The script is a sliding window up to the skew of the callers' clocks:   *)
(* no more than Limit requests are let in within Window - MaxSkew ticks,   *)
(* and a caller with the slowest clock is refused only when Limit requests *)
(* were let in within the last Window + MaxSkew ticks.                     *)
(***************************************************************************)
SlidingWindow ==
  /\ SumOver(admitted, 0, Window - 1 - MaxSkew) =< Limit
  /\ Card(Live(0)) =< SumOver(admitted, 0, Window + MaxSkew - 1)

(***************************************************************************)
(* The local store refuses a request only when Limit requests were let in  *)
(* within the last Window ticks: neither the count it does not reset nor   *)
(* its sweep makes it refuse more.                                         *)
(***************************************************************************)
LocalRefusesFull ==
  ~LocalCheck(window).allowed => SumOver(passed, 0, Window - 1) >= Limit

(***************************************************************************)
(* A breaker's failures are forgotten when the window of the first one is  *)
(* over, even if failures go on, unless an EXPIRE was lost.                *)
(***************************************************************************)
BreakerForgets == [](~lost) => (breaker.count > 0 ~> breaker.count = 0)

\* Both stores keep to the limit they count against: the script of the Valkey
\* store as a sliding window, the local one by never refusing early.
WindowsHold == SlidingWindow /\ LocalRefusesFull
=============================================================================
