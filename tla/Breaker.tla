------------------------------- MODULE Breaker -------------------------------
(***************************************************************************)
(* What a circuit breaker promises (CircuitState and the comments of       *)
(* health/circuit_breaker.rs), with every operation a single step: failures*)
(* in a row open it, the recovery timeout makes it half-open, successes    *)
(* close it again and one failure re-opens it.                             *)
(***************************************************************************)
EXTENDS Naturals

CONSTANTS
  Threshold,  \* failure_threshold
  Timeout,    \* recovery_timeout_ms, in ticks
  Closing     \* successes that close a half-open breaker

VARIABLES
  mode,   \* CircuitState
  fails,  \* failures in a row while closed
  goods,  \* successes while half-open
  age     \* ticks since the breaker opened, up to Timeout

bvars == <<mode, fails, goods, age>>

BInit == mode = "closed" /\ fails = 0 /\ goods = 0 /\ age = 0

\* The recovery timeout has passed: let requests probe the backend.
BRecover ==
  /\ mode = "open" /\ age = Timeout
  /\ mode' = "half" /\ goods' = 0
  /\ UNCHANGED <<fails, age>>

BSuccess ==
  \/ /\ mode = "closed"
     /\ fails' = 0
     /\ UNCHANGED <<mode, goods, age>>
  \/ /\ mode = "half"
     /\ goods' = goods + 1
     /\ IF goods + 1 >= Closing THEN mode' = "closed" /\ fails' = 0
                                ELSE UNCHANGED <<mode, fails>>
     /\ UNCHANGED age

BOpen == mode' = "open" /\ age' = 0

BFailure ==
  \/ /\ mode = "closed"
     /\ fails' = fails + 1
     /\ IF fails + 1 >= Threshold THEN BOpen ELSE UNCHANGED <<mode, age>>
     /\ UNCHANGED goods
  \/ /\ mode = "half"
     /\ BOpen
     /\ UNCHANGED <<fails, goods>>

BReset ==
  /\ mode' = "closed" /\ fails' = 0 /\ goods' = 0
  /\ UNCHANGED age

BTick ==
  /\ age < Timeout
  /\ age' = age + 1
  /\ UNCHANGED <<mode, fails, goods>>

BNext == BRecover \/ BSuccess \/ BFailure \/ BReset \/ BTick

BSpec == BInit /\ [][BNext]_bvars
=============================================================================
